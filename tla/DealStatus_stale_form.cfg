SPECIFICATION Spec
CONSTANTS
    l1 = l1
    l2 = l2
    Subjects = {1}
    Legacy = {1}
    Statuses = {"template_generated", "present_to_clients"}
    Payloads = {"template_generated", "present_to_clients"}
    InitialDeals <- UnassignedDeals
    Actors = {a1}
    CallerSources = {"api", "job"}
    Listings = {}
    ListingOf <- Unlinked
    EditorFields = {"status"}
    FormStatus = TRUE
    BatchSize = 1
    Txs = {t1, t2}
    MaxRequests = 4
    MaxRows = 14
    None = None
SYMMETRY TxSymmetry
INVARIANTS
    DriftCheckEmpty
CHECK_DEADLOCK FALSE
