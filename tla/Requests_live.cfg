SPECIFICATION LiveSpec
CONSTANTS
    Deals = {d1}
    Users = {u1}
    Txs = {t1, t2}
    MaxRequests = 4
    None = None
    Active = {"discussions", "jobs"}
    MaxFaults = 1
    MaxRestarts = 1

PROPERTIES
    RequestsAnswered
    EveryJobEnds
CHECK_DEADLOCK FALSE
