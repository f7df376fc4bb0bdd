SPECIFICATION Spec
CONSTANTS
    Deals = {d1, d2}
    Users = {u1, u2}
    Txs = {t1, t2}
    MaxRequests = 4
    None = None
SYMMETRY AllSymmetry
INVARIANTS
    TypeOK
    OneThread
    LoserFindsLink
    CountIsLive
    LastInv
    LastMovesForward
PROPERTIES
    DeletedIsFinal
CHECK_DEADLOCK FALSE
