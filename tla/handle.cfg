CONSTANTS
    Ctx = {c1, c2, c3}
    Thread = {t1, t2}
    Mask = 3
    SlotSize = 2
    Name = {1, 2}
    None = None
    MaxRegister = 3
SPECIFICATION Spec
INVARIANTS Reachable FindsNames
PROPERTY ImplementsDirectory
SYMMETRY Symmetric
