SPECIFICATION LogSpec
CONSTANTS
    Subjects = {u1}
    Statuses = {"started", "completed"}
    Payloads = {p}
    Actors = {}
    CallerSources = {"api"}
    Txs = {t1, t2}
    MaxRows = 3
    None = None
SYMMETRY TxSymmetry
INVARIANTS
    LogInv
    NoFork
    IdOrderIsChainOrder
    OneTail
PROPERTY ImplementsHistory
