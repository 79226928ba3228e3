CONSTANTS
    Ctx = {c1, c2, c3}
    Thread = {t1, t2}
    Mask = 7
    SlotSize = 2
    Name = {}
    None = None
    MaxRegister = 4
SPECIFICATION Spec
INVARIANT GrowsWithoutClash
