SPECIFICATION Spec
CONSTANTS
    l1 = l1
    l2 = l2
    Subjects = {1, 2}
    Legacy = {1, 2}
    Statuses = {"template_generated", "delete_zillow"}
    Payloads = {"template_generated", "delete_zillow"}
    InitialDeals <- UnassignedDeals
    Actors = {a1}
    CallerSources = {"api", "job"}
    Listings = {l1}
    ListingOf <- SameListing
    EditorFields = {}
    FormStatus = FALSE
    BatchSize = 1
    Txs = {t1, t2}
    MaxRequests = 4
    MaxRows = 14
    None = None
SYMMETRY TxSymmetry
INVARIANTS
    RemovalMirrorsStatus
CHECK_DEADLOCK FALSE
