CONSTANTS
  None = None
  MonthsInYear = 2
  MoneyUnits = 10
  PercentUnits = 100
  CocUnits = 10
  LoanCases <- MCLoanCases
  Payloads <- MCPayloads
  Estimates = {}
  ListingPrices = {10, 20}
  MaxWrites = 3
  Clients = {c1, c2}
  BedroomRows <- MCBedroomRows
  SizeRow <- MCSizeRow
  Price = 2000
  NoRow = NoRow
  NoAmount = NoAmount
  NoId = NoId
  Removable = {"insurance"}
  MaxPuts = 2
  Books <- MCBooks
  Queries <- MCQueries
  Edits <- MCEdits
  PageSize = 2
  DayTicks = 2
  Excluded = {"delete_deal"}
  DeletedUsers = {"gone"}
  DeletedRealtors = {"r2"}
  MissingListings = {"z2"}
  RealtorsOf <- MCRealtorsOf
  MaxEdits = 1
  Plans <- MCPlans
  Pasts <- MCPasts
  PropertyAt <- MCPropertyAt
  DetailUrl <- MCDetailUrl
  OnFile <- MCOnFile
  MaxAttempts = 2
  Requests <- MCRequests
  Casts = {{}, {1, 2, 3}, {1, 4, 5}, {2, 4, 6}, {1, 3, 6}, {1, 5, 7}}
  Options <- MCOptions
  Ttl = 1
  MaxTime = 2
  Triggers <- MCTriggers
  Listings <- MCJobListings
  Underwritten <- MCUnderwritten
  MaxFaults = 1
  MaxRestarts = 1
  Book <- MCBook
  Feed <- MCFeed
  Scrapes <- MCScrapes
  Changed <- MCChanged
  MaxTouches = 1
  MaxFailures = 1
  Visits <- MCVisits
  Crowds = {{}, {1, 2, 5}, {2, 3, 4}, {1, 3, 5}, {2, 6}, {1, 6, 4}}
  KeyRing <- MCKeyRing
  SearchesAt <- MCSearchesAt
  SearchIds = {1, 2, 3}
  Removables = {1, 2}
  Together = {{}, {"p1", "p2"}, {"f1"}, {"f2"}}
  Calls <- MCCalls
  Patience <- MCClients
  Answers = {"ok", "empty", "5xx", "401", "timeout"}
  Announced = {"present_to_clients", "analyst_completed"}
  Enabled = TRUE
  Crashes = 1
  OpexAsks <- MCOpexAsks
  OpexCrowds = {{}, {1, 2, 3}, {1, 2, 5}, {1, 2, 6}, {3, 4, 7}, {8, 9, 10}, {4, 7, 11, 12}, {2, 13}, {1, 9, 14}, {8, 11, 15}, {5, 14, 16}, {1, 17, 18}, {6, 14, 19}, {4, 13, 20}}
  OpexRowsBefore <- MCOpexRowsBefore
  MarketsBefore <- MCMarketsBefore
  PercentCells = {"tax"}
  Dealings <- MCDealings
  DealingCrowds = {{}, {1, 2, 3}, {3, 4, 5, 6}, {7, 8, 10}, {9, 3, 4}, {11, 12, 13}, {6, 14, 9, 15}, {16, 17, 6}, {3, 15, 18}, {3, 18, 20}, {19, 20, 2}}
  RecordsBefore <- MCRecordsBefore
  BooksBefore <- MCBooksBefore
  EmailForms <- MCEmailForms
  StatusOptions <- MCStatusOptions
  Onward <- MCOnward
  Targets <- MCTargets
  AgeBounds <- MCAgeBounds
  Tracked = {1}
  FirstStatuses = {"analyst_completed"}
  InFlight = 2
  Span <- MCSpan
  LastDay = 1
  MaxRows = 3
  MaxStrays = 1
  DayLength = 1
  WeekLength = 2
  KeyRank <- MCKeyRank
  Portfolios <- MCPortfolios
  Populations <- MCPopulations
  DealEdits <- MCDealEdits
  HomeScrapes <- MCHomeScrapes
  PriceBands <- MCPriceBands
  StatusOrder <- MCStatusOrder
  NextStatuses <- MCNextStatuses
  OnMarket = {"FOR_SALE"}
  StaleDays = 1
  Now = 4
  MaxChanges = 1
  Workbooks <- MCWorkbooks
  PeopleBefore <- MCPeopleBefore
  Labels <- MCLabels
  Scraped = {"77"}
  Unstorable = {1}
  Ranges <- MCRanges
  MaxImports = 2
  SheetStatuses <- MCSheetStatuses
  NoStatus = "previously_underwritten_no_status"
  Numerals <- MCNumerals
  ErrorCells = {failed}
  External <- MCExternal
  Escaped <- MCEscaped
  ZpidOf <- MCZpidOf
  TabRows = 9
  OldDeals <- MCOldDeals
  ListingsBefore <- MCListingsBefore
  MoreListings <- MCMoreListings
  RowEdits <- MCRowEdits
  LinkZpid <- MCLinkZpid
  MaxRepairs = 2
  MaxRowEdits = 1
  Active = {"loan", "numbers", "expenses", "list", "creation", "reference", "jobs", "prices", "accounts", "outbound", "opex", "records", "analytics", "counts", "legacy", "repairs"}
SPECIFICATION Spec
CHECK_DEADLOCK FALSE
INVARIANTS
  FiguresFollowInputs
  ListSafety
  CreationSafety
  CacheSafety
  OutboundSafety
PROPERTIES
  ExpensesSafety
  BatchSafety
  PriceSafety
  AccountSafety
  MarketSafety
  AnalyticsSafety
  LegacySafety
  RepairSafety
