SPECIFICATION Spec
CONSTANTS
    l1 = l1
    l2 = l2
    Subjects = {1, 2}
    Legacy = {1}
    Statuses = {"template_generated", "present_to_clients", "delete_zillow"}
    Payloads = {"template_generated", "present_to_clients", "delete_zillow"}
    InitialDeals <- NewDeals
    Actors = {a1}
    CallerSources = {"api", "job"}
    Listings = {l1, l2}
    ListingOf <- OwnListing
    EditorFields = {}
    FormStatus = FALSE
    BatchSize = 1
    Txs = {t1, t2}
    MaxRequests = 4
    MaxRows = 14
    None = None
SYMMETRY TxSymmetry
INVARIANTS
    TypeOK
    ListingFlagFollows
    NoDrift
    DriftCheckEmpty
    WebhooksMatchMoves
    OnlyTheBackfillRaces
    OnlyRacesFail
    SnapshotsPresent
    LedgerInv
PROPERTIES
    ImplementsLedger
CHECK_DEADLOCK FALSE
