SPECIFICATION Spec
CONSTANTS
    Deals = {d1}
    Users = {u1}
    Txs = {t1, t2}
    MaxRequests = 4
    None = None
SYMMETRY AllSymmetry
INVARIANTS
    LastIsNewest
CHECK_DEADLOCK FALSE
