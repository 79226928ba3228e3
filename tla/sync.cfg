CONSTANTS
    Workers = 2
    Thread = {0, 1, 2}
    Caller = {0, 1}
    Service = {a, b}
    None = None
    MaxDispatch = 2
    Module = {snlua, gate, bad}
    Loadable = {snlua, gate, bad}
    Complete = {snlua, gate}
    Booted = logger
    NoModule = NoModule
    MaxModule = 2
SPECIFICATION SyncSpec
INVARIANTS MutualExclusion LoadedOnce QueryExact
PROPERTIES NoReaderSlipsIn WriterNears Blamed EndlessSeen
