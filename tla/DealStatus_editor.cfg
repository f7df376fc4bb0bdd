SPECIFICATION Spec
CONSTANTS
    l1 = l1
    l2 = l2
    Subjects = {1}
    Legacy = {1}
    Statuses = {"template_generated", "present_to_clients"}
    Payloads = {"template_generated", "present_to_clients"}
    InitialDeals <- TemplateDeals
    Actors = {a1, a2}
    CallerSources = {"api", "job"}
    Listings = {}
    ListingOf <- Unlinked
    EditorFields = {"status", "analyst"}
    FormStatus = FALSE
    BatchSize = 1
    Txs = {t1, t2}
    MaxRequests = 4
    MaxRows = 14
    None = None
SYMMETRY TxActorSymmetry
PROPERTIES
    MovesAreLogged
    AnalystKept
CHECK_DEADLOCK FALSE
