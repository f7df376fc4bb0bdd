# Formal model of the adus-be backend

This directory holds TLA+ specifications of the parts of the backend whose
correctness depends on how requests, jobs and scripts interleave or on
computations that are hard to test exhaustively, the TLC configurations that
check them on small instances, and TLAPS proofs that hold for every instance.
Paths below are relative to the repository root.

Contents: [the system](#1-the-system) · [the modules](#2-modules) ·
[the runs](#3-runs) · [fairness](#4-fairness) · [the proofs](#5-proofs) ·
[divergences](#6-divergences-between-code-and-documentation) ·
[abstractions](#7-abstractions) · [not modelled](#8-not-modelled) · [the plan](#9-plan).

## 1. The system

A FastAPI application (Python, asyncio, SQLAlchemy 2 async, Postgres) through
which analysts underwrite short-term-rental deals. One process serves requests
and runs batch jobs on one event loop; each request, job and script uses its own
database session, so all sharing goes through Postgres at READ COMMITTED, except
for one in-memory cache per process.

| Component | State it keeps | Operations | Interacts with | Hard behaviour | What makes it correct |
|---|---|---|---|---|---|
| Process log (`app/core/process_log`) | tables `transitions`, `snapshots` | `record_transition`, `seed_heads`, `get_history` | called inside its callers' transactions | concurrent appends, repairs, rollbacks | one chain per subject, ids in chain order, nothing rewritten |
| Deal-status write path (`update_underwriting_service.py`, `deal_status_history.py`) | columns of `iron_bank.underwritings`, `scheduled_listings.remove_listing` | `update_deal_status`, `update`, `reconcile_purchase_price` | process log, listings, n8n webhook | row lock, one commit over three tables, webhook after it, retries | deal and log in step, each move announced at most once |
| Creation and duplication (`save_…`, `duplicate_…`, `create_underwriting_from_url_…`) | new deals, their children, series versions | `save`, `duplicate`, `create` | process log, Zillow client | duplicate checks far from the insert, version retries | every deal with a status has a head; versions unique and gapless; a second series only by an overlap |
| Calculator (`engine/underwriting_calculator.py`) and the writes that use it | calculated columns | `save`, `update`, `reconcile`, simulation | opex catalog | partial payloads, stored loans, missing inputs | stored figures follow from stored inputs |
| Operating expenses (`engine/opex_catalog.py`) | expense rows of a deal | seed, context, put-back | opex tables | forms older than a reseed | only the rows of the market move, removed rows stay removed |
| Lists and simulation (`get_…`, `simulate_underwritings_service.py`) | – | filtered, sorted pages | every deal column | NULLs, ties, edits between statements | each deal once, same order in SQL and Python |
| Backfills and repairs (`scripts/`) | a cursor, a report | seeds, set-based updates, legacy import | deals, listings, log | races with the live application, partial failure | nothing overwritten, everything accounted for |
| Discussions (`app/core/discussions`, `underwriting_discussion_service.py`) | threads, comments, mentions, links | create, edit, delete, list | underwriting links | first-comment race; counters under READ COMMITTED | one thread per deal; counters equal what they count |
| Reference data (`app/core/reference_data`) | `enum_options`; a shared in-memory cache with a TTL | read, create, update | every tag validation | fill in flight while an option changes | no older than the TTL; writers see their write |
| Jobs (`app/workflows`) | `iron_bank.jobs`; progress of a batch | `run_batch_job`, prepare-and-save, reconcile, pending sync | all of the above | crash, partial failure, rollback expiring loaded rows | every job ends; reports are true |
| External clients (`app/external_api`) | the memoised mortgage rate | `send`, `fetch_property_details`, `get_30y_fixed_rate` | n8n, Zillow, FRED | retries, lost answers | bounded attempts, never an exception into a committed request |
| Markets, opex tables, realtors (`app/markets`) | soft-deleted rows under partial unique indexes | CRUD, seeding from a lookalike, CSV updates | catalog | unique only among the living, checks before writes | seeds whole, lookups unambiguous, no ids of nothing |
| Users, API keys, saved searches (`app/users`) | rows | CRUD, authentication | every request | unique names, revocation during a request | own rows only, duplicates reported as such |
| Analytics (`app/analytics`, `underwriting_analytics_service.py`, `listing_analytics_service.py`) | – | reports of one or two statements | log, deals, listings | commits between statements, overlapping waits | reports agree with each other and with what happened |
| Deal status rules (`deal_status_service.py`) | – | `validate_transition` | frontend only | – | – |
| Web layer, schemas, payload builders, discussion bodies | – | – | – | – | – |

`PROJECT.json` lists these with their files, and under `hazards` the places
where something can go wrong that a test would hardly reach.

## 2. Modules

| Module | Models | Role |
|---|---|---|
| `ProcessLog` | the log, its constraints, both operations, arbitrary callers | core, proved about |
| `StatusHistory` | – | what the log promises its readers |
| `LogHistory` | `get_chain` | EXTENDS `ProcessLog`; refinement `ImplementsHistory` of `StatusHistory` |
| `MCProcessLog` | – | instance of `LogHistory` |
| `ProcessLogProofs`, `LogHistoryProofs` | – | inductive invariant and theorems; the refinement |
| `DealStatus` | every writer of `deal_status`, composed with the log | EXTENDS `ProcessLog` |
| `DealLedger` | – | what the write path promises |
| `DealHistory` | – | EXTENDS `DealStatus`, `LogHistory`; refinement `ImplementsLedger` of `DealLedger` |
| `MCDealStatus` | – | instance of `DealHistory` |
| `DealStatusProofs`, `DealDriftProofs` | – | three inductive invariants, each on the one before; the refinement |
| `Discussions` | comments, the thread of a deal and its counters | proved about |
| `DiscussionsProofs` | – | inductive invariants and theorems |
| `MCDiscussions` | – | instance |
| `Nulls`, `Rationals` | NULL; exact fractions | used by those below; the laws of fractions in `CreationProofs` |
| `Calculator`, `DealNumbers` | the figures; the writes that store them or do not | proved about in `CreationProofs` |
| `OperatingExpenses` | catalog, forms and put-backs of one deal | proved about in `MarketProofs` |
| `DealList` | filters, pages, simulation and joined rows | proved about in `CreationProofs` |
| `DealCreation` | series versions and duplicate guards | proved about in `CreationProofs` |
| `ReferenceData` | shared and request caches | proved about in `ServiceProofs` |
| `Jobs` | job rows and the three prepare-and-save batches | proved about in `ServiceProofs` |
| `PriceSync` | price reconciliation and pending flags | proved about in `ServiceProofs` |
| `Outbound` | retried calls to n8n, Zillow, FRED | proved about in `ServiceProofs` |
| `UserAccounts` | who a request acts for; saved searches | proved about in `ServiceProofs` |
| `OpexTables` | opex rows of markets, seeding, CSV update | proved about in `MarketProofs` |
| `MarketRecords` | markets and the ids they store | proved about in `MarketProofs` |
| `Markets` | – | EXTENDS both: what `MarketProofs` and `MCServices` use |
| `Tables` | periods, breakdowns and orders of every report | used by the two below |
| `StatusAnalytics`, `DealAnalytics` | the reports | |
| `LegacySheet`, `LegacyImport` | reading a workbook; importing it | |
| `DataRepairs` | the backfills of zpid, rooms, year built | proved about in `ServiceProofs` |
| `MCServices` | – | instance of all service modules from `DealNumbers` down |
| `MCLiveness` | – | instance of `Discussions` and `Jobs` under fairness |

### ProcessLog

*State.* `transitions` and `snapshots` are the committed rows; `pending[tx]` and
`pendingSnapshots[tx]` what an open transaction has inserted; `nextId` the
identity sequence, never rolled back; `call[tx]` the local variables of a
`record_transition` that has begun. A subject stands for the triple
(subject_type, subject_id, flow); a payload is told apart by its hash.

*Steps.* `record_transition` is split where the code awaits the database:
`RecordTransition` (the ValueError, `get_tail`, the branch on drift, which ends
the call when a cleared status is restored), `RepairDrift`, `UpsertSnapshot`,
`AppendTransition`. `seed_heads` is `SeedSnapshot` and `SeedHead`, one step per
row of its two statements. `CommitLog` and `RollbackLog` end the caller's
transaction at any point between them.

*Database.* `Visible(tx)` is READ COMMITTED. `SameKey` is the two unique
constraints, `Admissible` the self-FK and the CHECKs. `InsertTransition` inserts a row: it waits while another
open transaction holds the key (`InsertWaits`), reports a conflict on a chain
key (`ConcurrentTransitionError`) or any other violation (`rejected`), and the
statement leaves the transaction unusable until it is rolled back.

### DealStatus

*State.* `deals` (the committed columns `deal_status`, `analyst_id`,
`approver_id`), `lock` (the row lock), `removed` (`remove_listing` per listing),
`op[tx]` (what the request, job or script run has read and written but not
committed), `webhooks` (calls of `send`), `seeded` (a backfill has completed).

*Writers.* `PATCH …/deal-status` is `RequestMove`, `LockDeal`, `FlushMove`,
`RecordMove`, the log's steps, `CommitMove`, `Announce`. `save` and `duplicate`
are `SaveDeal`/`DuplicateDeal`, `RecordCreated`, the log's steps,
`CommitCreate`. The generic PATCH is `OpenEdit` (the client loads its form),
`LoadEdit` (the unlocked read of `repository.update`, which fixes the dirty
columns) and `SaveEdit`. The backfill is `StartSeed`, `ReadBatch`,
`SnapshotDeal`, `SeedDeal`, `CommitBatch`. `Abort` is everything that ends a
session early: an error, a disconnect, a 409, the death of the process; after
the commit it is the loss of the webhook.

*Composition.* A move or a creation uses the log's own actions inside its
transaction, so everything proved of `ProcessLog` with arbitrary callers applies
to the callers of the repository.

### Discussions

*State.* `links` (`underwriting_threads`, kind `general`, the only kind), `threads`
(the counters) and `comments` are the committed rows; `nextThread` and
`nextComment` the identity sequences; `clock` the start of the latest
transaction, which becomes `created_at`. What an open request has read and
written is in `op[tx]`: the thread it created (`fresh`), the thread and comment
it works on, the result of its subquery (`newest`), the thread row it has
updated (`row`).

*Steps.* A request is one transaction, and a step is one or more of its
statements up to the next point where it matters what others commit. A post is
`FindThread`, `InsertLink`, `Reread` (the loser discards its thread and reads the
winner's link), `InsertComment`, `CountComment`, `CommitCreate`; an edit is
`LockComment`, `CommitEdit`; a delete `LockComment`, `SoftDelete`,
`UncountComment`, `ReferenceComment`, `CommitDelete`. `Abort` is every way to end
without a commit: a body that fails validation, a 404 or 403, a disconnect, a
deadlock, a crash.

*Database.* `Blockers(tx)` is the set of transactions that hold what the next
statement of `tx` needs: an uncommitted link of the same deal, an updated thread
row, a comment locked FOR UPDATE, or, for a changed `last_comment_id`, the key
lock of its foreign key. An UPDATE that waited computes from the latest version
of the row it waited for, but the subqueries of its SET clause keep the snapshot
of the statement's start: `SoftDelete` therefore fixes `newest`, and
`UncountComment` uses it together with the row as it is then. `Circles` are the
circles of waits that Postgres' deadlock detector breaks.

### The service modules

Each is a component of its own: an action is a request, job or script between
two points where others can run (an `await` of the database or of a peer), and
what a request holds in local variables is a record per request. Variables
marked `history` only remember what a property needs.

* `DealNumbers`: `deal` is a row with its children; `CreateDeal`, `PutDeal`
  (full or partial), `PlanReconcile`/`ApplyReconcile`, `FinishDeal` (a status
  PATCH that moves no figure). `Calculator` has the formulas: amounts are exact
  fractions, the three roundings of the code are kept in coarser units, and a
  loan is also repaid month by month, the definition the closed forms stand for.
* `OperatingExpenses`: `SeedFromMarket`, `SeedFromTemplate`; per client `OpenForm`,
  `RemoveRow`, `FetchContext` (the bedroom context, matched to the rows stored then),
  `PutForm`, `PutContext`, which go through `_upsert_children` (`Upsert`).
* `DealList`: a client walks pages (`CountDeals`, `ReadPage`, `SimulatePage`,
  `HydratePage`, `AnswerPage`) while `EditDeal` may come in between.
* `DealCreation`: `GuardUrl`, `FetchProperty`, `GuardZpid` of a creation by URL;
  `FindByZpid`, `FindByUrl` of the job; `SaveDeal`; `ReadSource`, `ReadVersion`,
  `InsertCopy`, `CommitCopy`, `LoseCopy` of a duplicate and its retries.
* `ReferenceData`: `ReadCached`, `FetchTable`, `StoreTable`, `ValidateTags`,
  `WriteOption`, `RefuseOption` (a key its set has already), `ClearCaches`,
  `TickRef`, on several app instances.
* `Jobs`: `Enqueue`, then the coroutine (`TaskStep`: `Start`, `Warm`,
  `ListListings`, `LookUp`, `Prepare`, `SaveListing`, `FailListing`, `Succeed`,
  `Fail`), `Restart`. `RolledBack` is what a rollback expires.
* `PriceSync`: `LoadDeals`, `PlanRows`, `ApplyRow`, `FailRow`, `FailZpid`,
  `FinishZpid`, `SyncPending`, `ClearOther`; edits, closings, scrapes. Rows are
  kept by deal id; `Instance` is what the session holds of one at its write.
* `Outbound`: `CommitStatus`, `BuildBody`, `StartFetch`, `Attempt`, `Respond`,
  `Crash`; `Attempt` chooses what the peer did and what came back.
* `UserAccounts`, `OpexTables`, `MarketRecords`: requests and scripts of
  different kinds open together (`Crowds`, `OpexCrowds`, `DealingCrowds` name
  the sets that are), one action per statement. Where two open transactions
  meet on a unique key the second waits (`MustWait` in `OpexTables`), and a NULL
  meets nothing; a single-statement write commits in its step.
* Of these `UserAccounts`: `ResolveKey` and `ResolveUser` admit a request;
  `barred` remembers which keys were revoked and which users removed when it
  began, and a visit, whether it has written, so that what was let in and
  what was answered can be compared with it. `RevokeKey` and `RemoveUser` come
  at any time.
* `StatusAnalytics`: one deal moves through the log (`Move`, two requests may be
  open), before the log (`ShipTheLog`), past it (`EditOtherColumns` and SQL), is
  seeded (`SeedHead`), while a clock ticks; `truth` records what happened, and
  the reports are operators over the log compared with it. `ReadOverall` and
  `ReadGrouped` are the two statements of the backlog report.
* `DealAnalytics`: reports as operators over the rows; `ReadFirst`,
  `ReadSecond` are two statements with edits, scrapes and syncs between them.
  Which deals are live is derived from `NextStatuses`, as the code derives it
  from the transitions: price drops leave out deals a client has under contract.
* `LegacyImport`: `BeginImport`, `TakeDeal`, `ResolveAnalyst`,
  `ResolveApprover`, `InsertDeal`, `FinishImport`, `CrashImport`; `DeleteUser`.
  `LegacySheet` has what is parsed, by either of the two readers: an import takes
  `ReadWorkbook` (the export: a failed formula is text, links are those that are
  http addresses, as XML writes them) or `ReadGoogleSheet` (live: a failed formula
  has no value, every link is there, as it is). Both read the first `TabRows` rows
  of a deal's tab.
* `DataRepairs`: `ReportRepair`, then one `Write…` per script; edits, new and
  dropped listings.

## 3. Runs

| Run | Question | Instance |
|---|---|---|
| `ProcessLog_chain` | Does every interleaving of the log's operations keep one chain per subject, in id order, that commits only extend (`LogInv`, `NoFork`, `IdOrderIsChainOrder`, `OneTail`, `ImplementsHistory`)? | 1 subject, 2 transactions, 2 statuses, 1 payload, 3 rows |
| `DealStatus_log` | Do moves, creations, duplicates and backfills keep deal, listing and log in step (`NoDrift`, `DriftCheckEmpty`, `ListingFlagFollows`, `WebhooksMatchMoves`, `OnlyTheBackfillRaces`, `ImplementsLedger`, `TypeOK`)? Do chains of different deals stay apart, do rows find their snapshots, and are races the log's only errors (`SnapshotsPresent`, `OnlyRacesFail`)? Is what the proofs rest on true (`LedgerInv`)? | 2 deals, one legacy, with a listing each, 3 statuses, 2 sessions, 4 requests, batches of 1, no status on generic PATCHes |
| `DealStatus_editor` | What still holds when generic PATCHes write any status and analyst, NULL included (`MovesAreLogged`, `AnalystKept`)? | 1 deal, 2 users, 2 sessions, 4 requests |
| `DealStatus_live` | Is every move answered (`MovesAreServed`)? | 2 versions of one listing, 3 requests, no symmetry |
| `Discussions_requests` | Do racing first comments leave each deal one thread (`OneThread`, `LoserFindsLink`), and are its counters right in every overlap of posts, edits and deletes (`CountIsLive`, `LastMovesForward`, `DeletedIsFinal`, `LastInv`, `TypeOK`)? | 2 deals, 2 users, 2 sessions, 4 requests |
| `Requests_live` | Is every comment request answered although locks can close a circle (`RequestsAnswered`)? Does every job end (`EveryJobEnds`)? | 1 deal, 2 sessions, 4 requests; 2 batches over 3 listings, 1 fault, 1 restart; no symmetry |
| `Services` | Does each service component keep what it promises (13 properties, below)? | the sets of `MCServices`, below |
| `DealStatus_stale_form`, `DealStatus_versions`, `Discussions_last`, `Reference_recache`, `Jobs_by_market` | Five sentences of the documentation or of a comment that do not hold: section 6. | 1 or 2 deals; of `MCServices` the one component |

### The properties of `Services`

The components share no variable. `Init` picks one of `Active`, which steps with
every choice it has while the others rest in an initial state: the states
reached are those of each component alone, not their product, and one run
replaces sixteen. A property of the run is a conjunction of the parts of one
component (of two for `MarketSafety` and `AnalyticsSafety`), each stated and
explained in its module. For each part there is an operator that stands for a
plausible bug in the code, and TLC refutes the part with it; the one in bold is
the mutant `PROJECT.json` lists for the property.

| Property (module) | Parts and the mutants that refute each |
|---|---|
| `FiguresFollowInputs` (`Calculator`, `DealNumbers`) | `BalanceIsWhatPaymentsLeave` (`Pmt_ShortTerm`); `EconomicsFollowInputs` (**`LoanFor_PayloadOnly`**); `TaxesFollowInputs` (`CollectionsSent_Never`) |
| `ExpensesSafety` (`OperatingExpenses`) | `SharedLabelsComeFromRaces` (`FirstId_Unmatched`); `ReseedMovesOnlyMarketRows` (`Priced_All`); `DeletedIdsStayDeleted` (**`Unowned_Blank`**) |
| `ListSafety` (`DealList`) | `WalkShowsEachDealOnce` (`Precedes_NullsByDirection`); `SimulationKeepsTheOrder` (**`SortKey_NullsFirst`**); `FiltersSplitTheBook` (`IsFlag_Strict`); `RowsAreTheirOwn` (`RowOf_ByPosition`) |
| `CreationSafety` (`DealCreation`) | `VersionsContiguous` (`NextVersion_All`); `ConflictsCountWinners` (**`ReadVersion_Once`**); `SecondSeriesOverlaps` (`GuardZpid_UrlOnly`); `RedirectsToOriginals` (`Oldest_Newest`) |
| `CacheSafety` (`ReferenceData`) | `StaleAtMostTtl` (**`Fresh_AtHit`**); `WriterSeesItsWrite` (`ClearCaches_Not`); `ValidationSeesCommits` (`ValidateTags_Shared`); `CacheFiltersAgree` (`SharedOptions_NoSets`) |
| `BatchSafety` (`Jobs`) | `ReportsAreTrue` (`SaveListing_Flush`); `OnlyLostJobsStick` (`Fail_NoRollback`); `DealsComeFromBegunJobs` (`Enqueue_TaskFirst`); `RateIsKept` (**`RateAfter_Uncached`**) |
| `PriceSafety` (`PriceSync`) | `OnlyRacesSkewMetrics` (`NewValues_NoMetrics`); `FailuresStayInTheirRow` (`FailRow_StopsTheLoop`); `ReportsAddUp` (`AggregateStatus_UpdatedFirst`); `FlagsTrailTheScrape` (`PendingFor_NullIsNot`); `OnlyRacesRepriceClosedDeals` (**`PlanStatus_OpenOnly`**) |
| `OutboundSafety` (`Outbound`) | `EventsTellTheirMove` (`Built_Reread`); `RepeatsFollowLostAnswers` (`Verdict_Never`); `NoCallAfterAVerdict` (**`Verdict_RetryAll`**); `CommitsAreReported` (`Respond_Raises`) |
| `AccountSafety` (`UserAccounts`) | `NamesAreUnique` (`Clash_Preflight`); `AnswersTell` (`AfterClash_Expired`); `RevocationHolds` (**`IsRemoved_Ignored`**, `ActiveKey_AnyRow`); `OwnersAlone` (`Owned_ById`); `PatchesMerge` (`Patched_WholeRow`) |
| `MarketSafety` (`OpexTables`, `MarketRecords`) | `SeedsAreWhole` (`LeftOpen_Commits`); `OnlyRacesSpoilSeeds` (`Occupied_Bedrooms`); `LookupsAreUnambiguous` (`Rejected_OwnRows`); `CsvKeepsLaterEdits` (**`DiffRow_All`**); `StoredIdsExist` (`Unknown_Skipped`); `ReadsHideTheDeleted` (`Resolved_Unfiltered`); `EmailsAreUnique` (`IndexKey_Raw`); `WritesNameTheLiving` (`Unknown_Skipped`); `DuplicatesNameTheHolder` (`Namesakes_Plain`) |
| `AnalyticsSafety` (`StatusAnalytics`, `Tables`, `DealAnalytics`) | `WaitsAreNotOverstated` (`Since_AnyRow`); `PresentedWhenItWas` (`PresentedAt_Current`); `WaitsAreNegativeOnlyByRaces` (`ApprovalWait_AnyCompletion`); `BacklogAddsUp` (`InBucket_Closed`); `CreditsAgree` (`FillPeriods_Ragged`); `ApprovalsStand` (**`CompletedBy_Last`**); `RatesAreShares` (`PresentedStatuses_Now`); `ReportsAgree` (`OrderFixed_KnownOnly`, `LiveStatuses_NotDeleted`); `BandsHoldTheirPrices` (`PriceBand_Closed`); `TwoReadsAgree` (`CoverageOf_Joined`); `OffMarketIsPending` (`OffMarket_Null`); `SeriesLineUp` (`FillPeriods_Ragged`); `RankingIsStable` (`RankedBefore_Untied`) |
| `LegacySafety` (`LegacyImport`, `LegacySheet`) | `DealsAreAccounted` (`Reported_Quietly`); `FailuresAreTheirOwn` (`Survivors_Uncommitted`); `OnlyLostNamesAbort` (`Cached_Forgotten`); `ReadersAgree` (`Precedence_DeletedFirst`, `TabRange_Open`); `ShiftsAreHarmless` (**`RowLabelled_Fixed`**) |
| `RepairSafety` (`DataRepairs`) | `WarnsOnlyOfRaces` (`RoomsReported_Fillable`); `RerunsFindNothing` (`MissingYear_AnyYear`); `ZpidsAreScraped` (`MissingZpid_Unconfirmed`); `RepairsKeepWhatIsThere` (**`RoomsFilled_StoredFirst`**) |

*Bounds of the log, the deals and the discussions.* Two transactions are enough
for every race the code names: each is between a holder of a key, a lock or a
snapshot and one waiter. A chain of three rows has a head and two writers'
attempts, so that a fork, a repair that conflicts and a rollback in the
middle (a gap in the ids) all happen; longer chains are
those of the `DealStatus` runs, and the proofs bound nothing. One payload is
enough to be stored, waited for and found. Four requests let a move follow a creation or a backfill that
itself overlapped with another move. Two statuses give every comparison the code
makes: equal, different, NULL; which ones depends on the question (with a
webhook, with the removal flag, or neither). `MaxRows` and `MaxRequests` only end
the counters; runs in which requests run out stop, hence `CHECK_DEADLOCK FALSE`
for `DealStatus` and `Discussions`, where `MovesAreServed` and
`RequestsAnswered` ask the question instead. In `DealStatus` runs `MaxRows` is
larger than the requests can use. Four requests on comments are two posts and
two changes of them, or three posts and a delete: enough for two first comments
of which one rolls back, two deletes of one comment, a delete of the last
comment that overlaps with a post, and the circle of waits, which takes two
comments, both being deleted.

*Bounds of the services.* Requests come in small crowds chosen so that every
pair whose statements can meet is in one of them: up to three creations or
duplicates of one property, with `MaxAttempts` 2 of 3 (a loser of every attempt needs one
rival per attempt); three requests of the reference data on two instances, two
ticks with a time to live of one; two batches over five live listings with one fault and one
restart; one touch and one failed statement in a price run; in the tables of
markets crowds of up to four requests, scripts included. A walk has pages of two
with one edit. Analytics keep three log rows of one deal, two open requests and
one stray SQL edit, on a clock of two days; reports see one change
between their statements. A report on the history is read on the last
day, when everything the bounds allow has happened, but the backlog at any time.
An import runs twice, so that `--update` meets what an earlier run left; of its
workbooks one has failed formulas in tracking rows and a tab, one a link that is no
address before one that is, and each has a tab longer than `TabRows`, which is 9 where the code reads
80. Two of four deal statuses are live, one is deleted, one under contract. Values
are few: two or three prices, rates and statuses, chosen to fall on both sides
of every comparison. `CHECK_DEADLOCK FALSE`: requests end.

Symmetry is used over sessions (and users, subjects, payloads where no constant
tells them apart) in the runs without liveness, and nowhere in `MCServices`.

Every property has a mutant in `PROJECT.json`: a definition of the model changed
as a plausible bug would change the code, for which TLC refutes the property.
The mutated operators stand before the operators they replace.

## 4. Fairness

`MovesAreServed`, `RequestsAnswered` and `EveryJobEnds` need it. `FairSpec` of
`DealStatus` and `LiveSpec` of `MCLiveness` give every session
weak fairness on its own next step (`Proceed`): the event loop runs every ready task, Postgres
grants a lock whose holder has gone, and a session whose statement failed is
closed. No fairness on new requests, edits' arrival or disconnects. Weak
fairness on waiting for a row is enough because requests are finite; with an
endless stream of requests for one deal it would be Postgres' queue for the row
that serves the waiter, which is not modelled. In `Discussions`, `Proceed` includes the abort
of a transaction in a circle of waits: Postgres looks for one after
`deadlock_timeout`.

The coroutine of a job has weak fairness on its next step (`TaskStep` without a
restart): every call it awaits has a timeout or an end. None on faults or
restarts. A restart drops the background tasks of the process and nothing
requeues their rows, so `EveryJobEnds` excuses the jobs in `lost`; it asserts
that nothing else leaves a job open.

## 5. Proofs

### The log

`ProcessLogProofs` proves, for any sets of subjects, statuses, payloads, users
and transactions and any bound on rows:

| Theorem | States |
|---|---|
| `LogInvariant` | `LogSpec => []LogInv` |
| `LogTypeCorrect` | `[]LogTypeOK` |
| `ChainsNeverFork` | `[]NoFork` |
| `CommittedRowsLinked` | `[]ChainLinked` (no run of its own: `LogInv` contains it) |
| `IdOrderFollowsChain` | `[]IdOrderIsChainOrder` |
| `TailsAreUnique` | `[]OneTail` |
| `FailuresAreRaces` | `[]OnlyRacesFail` |
| `SnapshotsVisible` | `[]SnapshotsPresent` |

*Assumptions of these.* `NoneAssumption` (NULL is no value), `SourcesAssumption`,
`MaxRowsAssumption`. That the unique index makes a second inserter of a key wait
is part of the model (`InsertWaits`); the mutant `InsertWaits_Never` shows that
id order depends on it.

*Argument.* None of the properties is inductive, because they speak of committed
rows only and a commit makes rows of another transaction join them. `LogInv`
therefore speaks of all rows, uncommitted ones included: identity values are
unique and below `nextId` (`IdsUnique`); a row is linked to rows its writer can
see (`RowsLinked`) down to a head (`RowsHeaded`); keys are unique over all rows
(`KeysUnique`); any later row of a subject is reached through a direct successor
in between (`RowsChained`); and the uncommitted rows of a subject belong to one
transaction and follow all its committed rows (`OneWriter`). The last one is the
heart: a transaction can only put a row on a chain behind the chain's end, and
whoever else wants that end has to wait. With it a commit moves a suffix
(`CommitRows`), a rollback removes one (`RollbackRows`) and an insert extends one
(`AddRow`); the remaining conjuncts say what a call in progress knows
(`CallsLinked`, `CallsHaveSnapshot`). There is one lemma per action, and
`NextInv` puts them together.

`LogHistoryProofs` proves `LogImplementsHistory`, `LogSpec => ImplementsHistory`,
from the same assumptions. Sorting is recursive in the community modules and an
induction over data is out of reach, so `InOrder` does without it: a row's
`Place` is one more than the number of rows of lower id. Rows have different
places and fill `1 .. n` (`PlacesTaken`, by counting).
A commit adds only higher ids (`OneWriter`), so it moves no row
(`InOrderGrows`), and neighbours in id order are linked (`RowsChained`), so no
status follows itself.

### Deals

| Theorem | States | In |
|---|---|---|
| `DealInvariant` | `Spec => []DealInv` | `DealStatusProofs` |
| `DealTypeCorrect` | `[]TypeOK` | |
| `ConflictsAreBackfills` | `[]OnlyTheBackfillRaces` | |
| `CommittedMovesAreLogged` | `MovesAreLogged`, an action property | |
| `AnalystsAreKept` | `AnalystKept`, an action property | |
| `DealsUseTheLog` | `Spec => LogSpec` | |
| `DealLogIsSound` | `[](OnlyRacesFail /\ SnapshotsPresent)` | |
| `DealChainsNeverFork` | `[](NoFork /\ OneTail /\ IdOrderIsChainOrder)` | |
| `DriftInvariant` | `Spec => []DriftInv` | `DealDriftProofs` |
| `LogFollowsStatus` | `[]NoDrift` | |
| `FlagsFollowDeals` | `[]ListingFlagFollows` | |
| `DriftCheckStaysEmpty` | `[]DriftCheckEmpty` | |
| `WebhooksHaveMoves` | `[]WebhooksMatchMoves` | |
| `LedgerInvariant` | `Spec => []LedgerInv` | |
| `DealsImplementLedger` | `Spec => ImplementsLedger` | |

*Assumptions.* Those of the log, and `DealAssumption`: ids are positive numbers,
NULL is no value, the callers are requests and jobs, and the open transactions
are a finite set (`WebhooksMatchMoves` counts them). Theorems of
`DealDriftProofs` assume `"status" \notin EditorFields`
besides: no generic PATCH carries `deal_status`. The documentation has the frontend
send the current status, which is as good only while no form is stale:
`DealStatus_stale_form` shows `DriftCheckEmpty` false without the assumption. What `DealStatusProofs` states holds
whatever editors write.

*Argument.* The row lock is the heart of `DealInv`. Who holds it (`LocksHeld`)
knows the committed row (`RowsCurrent`), and its log rows and its call are of
that deal (`RowsOwned`, `CallsOwned`), so two moves never write one chain. The
backfill takes no lock: `TailsCurrent` says that it is the only one to overtake
a call, and with what, the head the call was to write. `MovesRecorded` then
gives the action property, since a commit publishes what its transaction sees.
Every step of the composed system is steps of the log (`LogStep`), hence
`DealsUseTheLog`, and theorems of `ProcessLogProofs` carry over without being
proved again.

`DriftInv` adds what makes log and deals agree, as conditions on every open
request: what its call was given (`CallsKnown`), what its rows say (`RowsKnown`),
that it is done with the log only when its row is there (`OutcomesKnown`), and
that a status the backfill has read is current, or the deal has a head by now
(`SeedsKnown`). `BackfillInv` is separate: deals up to the backfill's cursor
have a head, or are in its batch; only the drift check needs it. `LedgerInv`
adds for the refinement that a request appends only what its own change
accounts for (`LogExplained`), so that a commit maps to one `Change` or one
`Seed` of the ledger and all other steps to stuttering.

### Discussions

`DiscussionsProofs` proves, for any sets of deals, users and sessions and any
number of requests, from `DiscussionAssumption` (NULL is no value, the bound is a
number):

| Theorem | States |
|---|---|
| `DiscussionInvariant` | `Spec => []DiscussionInv` |
| `DiscussionTypeCorrect` | `[]TypeOK`, with `comment_count` in `Nat` |
| `CountersAreExact` | `[]CountIsLive` |
| `ThreadsAreUnique` | `[]OneThread` |
| `LosersFindLinks` | `[]LoserFindsLink` |
| `LastInvariant` | `Spec => []LastInv` |
| `LastNeverGoesBack` | `[]LastMovesForward` |
| `DeletesAreFinal` | `DeletedIsFinal`, an action property |

*Argument.* The counters of the tables say nothing of what open requests are
about to commit. `DiscussionInv` adds it: each request alone (`CreateOK`,
`ChangeOK`) has a row that is one more or one less than the committed row, a
comment that is not there yet or is there and live, and a thread that is the
deal's or its own; any two requests (`Apart`) have not created, linked, updated
or locked the same thing, so that the commit of one leaves what the other knows
true; ids in use are below the sequences (`IdsDrawn`). The locks are needed for
`Apart` only, and `Apart` for nothing but commits: a commit adds one comment to, or takes one
from, the live ones of one thread, and nobody else holds that thread's row.
One lemma per action; steps that touch neither the tables nor a lock share one.

The last comment needs `LeaderKept` more: a post that has updated its thread,
where nothing was deleted, made itself the last comment and is newer than all
posted ones, or left the one that leads and is not newer than it. Time stamps are
starts of transactions and may tie, so the leader is defined by `IsNewer`, the
comparison of the UPDATE, and the id breaks ties.

### Creation and duplication

`CreationProofs` proves `CreationInvariant` and `CreationIsSafe`
(`[]CreationSafety`) for any number of overlapping creations, jobs and
duplicates, any table of earlier deals the application could have written
(`RowsInOrder`), and any `MaxAttempts`. *Assumptions.* `CreationAssumption`: what
each kind of request names is there, and NULL is no zpid.

*Argument.* `RowsInOrder` is about the table alone: versions of a series that
are not lost are different, the committed ones run from 0 without a gap, one
that is open is the next (whoever wants its number waits for it), and a copy
comes after a committed deal of its property. `GuardKept` says that the deals a
guard has seen are committed and of other properties, which is what makes a
second series the work of an overlap. `CopyKept` counts: after `attempt`
conflicts the next version is at least `attempt` further than when the
duplicate began, each one somebody's commit. `AnswerKept`: what a refusal named
stays a committed original.

### Figures and lists

`CreationProofs` also proves, about the two services that read and write the
figures of deals:

| Theorem | States | Assumes |
|---|---|---|
| `NumbersInvariant`, `FiguresAreOfTheInputs` | `[]NumbersInv`, `[](FiguresAreOfTheRow /\ TaxesAreOfTheRow)` | `NumbersAssumption`: terms that are sent are complete (`PurchaseDetailsInput` has no optional field), NULL is neither terms nor the empty list, collections that are sent list numbers, a listing price is a number |
| `LoanInvariant`, `LoansAreRepaid` | `[]LoanInv`, `[]BalanceIsWhatPaymentsLeave` | `LoanAssumption`: an amount is a number, a rate is a fraction not below zero (`FractionalPercentage`), a term is at least a year (with none, `_pmt` divides by zero); `CalculatorAssumption`: a year has a month or more |
| `FiguresAreSafe` | `NumbersSpec /\ LoanSpec => []FiguresFollowInputs` | all of these |
| `ListInvariant`, `ListsAreSafe` | `[]ListInv`, `[]ListSafety` | `ListAssumption`: ids are numbers and finitely many, the fields that are sorted by are numbers or NULL, an override of "same" recalculates the figure that is stored, a page holds a row, every query sorts by one of the three columns |

*Argument for the figures.* `NumbersInv` is `FiguresAreOfTheRow` with what the
next write needs: a row has all its columns and its collections
(`RowKept`), and a plan of the reconcile job holds terms, revenue and taxes
(`PlanComplete`). One lemma (`Leaves`) says field by field what a calculation leaves
behind. This part of the proof never opens the calculator, so it holds for any formulas: what
matters is that each write which recalculates does so from values it also
stores or finds stored. That the stored loan is fetched and the
collections must be sent is used there and nowhere else.

*Argument for the calculator.* Two promises are about its arithmetic. A
simulation calculates with one item, the sum, where a save calculates with all
of them; and the balance read after a year comes from a closed form, the
payments from another. Both are identities of exact fractions, and fractions
here are records in lowest terms, made by Euclid's algorithm and folds. So the
proof starts there: `Divisor` divides both its arguments and scales with them
(`DivisorScales`); hence `Frac(k * n, k * d) = Frac(n, d)` (`FracScales`), and
sums, products and quotients of `Frac(n, d)` are those of school (`PlusOf`,
`MinusOf`, `TimesOf`, `OverOf`). `SumIs` shows that a fold that chooses its next
member freely is still one sum, `WholeSums` that the fold over a list gives the
same, `PowerSteps` that a power is one factor more than the one before,
`GrowthIs` that growth at a rate above zero stays above one, so no denominator
is zero. With a monthly growth of `u / v`, `a / b` after `k` months and `c / d` after
all, what is owed is `Owed(A, a, b, c, d) = A (cb - ad) / b(c - d)`, the payment is
`Level`, and one payment takes the first to the same with `au / bv`
(`PaysAtRate`), an identity of integers. Each induction is an argument about the
smallest counterexample (`LeastNat`), which needs no induction theorem.
The code rounds to 28 digits where the fractions are exact: the theorems are about
the formulas, not about the last digit of a `Decimal`.

*Argument for the lists.* `Sorted` places each member behind those that come
before it, so that sorting is counting: for a strict order of a finite set the
places are different and fill `1 .. n`. Two stable sorts in
turn, newest first and then by key, order rows by key and
equal keys by age; with the key that turns the rank of NULL with the direction,
that is `Precedes`, the order of the database, so one lemma about the order covers both lists.
The page arithmetic is done once (`Upto`): pages `1 .. n` hold the first
`Upto(n, length)` rows, and the last page ends the list. `ListInv` then says
that, until something is edited, what was shown is the beginning of the walk and
what the request holds is the page that follows (`WalkProgress`); and, edits or
not, that each row is of its own id, figure and listing
(`AllShown`, `AllRead`, `AllInputs`).

*What the proofs corrected.* `FiguresOfRow` had to say that stored percentages
come with stored figures, which a simulation of the percentages relies on.
`LoanAssumption` was silent: a loan of no years is not refused by a schema
(`mortgage_years: int`), and the formulas have no value for it. `ListAssumption` was misaligned and bound less than
it showed. The names of the walk were operators on the current state; as
operators on a book and a query, they can be compared across steps.

### Services

`ServiceProofs` proves about six service components:

| Theorem | States | Assumes |
|---|---|---|
| `OutboundInvariant`, `OutboundIsSafe` | `[]OutboundInv`, `[]OutboundSafety` | `OutboundAssumption`: events have 2 tries, every client stops at "ok", the scraper also at 401 and an empty page |
| `CacheInvariant`, `CacheIsSafe` | `[]CacheInv`, `[]CacheSafety` | `ReferenceAssumption`: the first table has unique keys, the time to live is a number |
| `AccountInvariant`, `AccountsAreSafe` | `[]AccountInv`, `AccountSafety` with its action properties | `AccountAssumption`: ids are positive and finitely many (a serial column, bounded), names are unique at the start, a PATCH carries a name and filters at most, keys are in the ring |
| `JobsInvariant`, `BatchesAreSafe` | `[]JobsInv`, `BatchSafety` with its action property | `JobsAssumption`: NULL is no row, zpids tell the finitely many listings apart, a limit is a number |
| `PriceInvariant`, `PricesAreSafe` | `[]PriceInv`, `PriceSafety` with its action property | `PriceAssumption`: deals and changes are lists, a deal is open or closed, NULL is no home status |
| `RepairInvariant`, `RepairsAreSafe` | `[]RepairInv`, `RepairSafety` with its action property | `RepairAssumption`: NULL is no zpid, at the start a zpid is that of a listing (foreign key), edits set columns |

*Arguments.* `OutboundInv` ties a call's counter to the answers it had
(`CallKept`) and what the peer received to those answers (`PeerKept`): before a
verdict, a request no answer left open was not acted upon, so a second delivery
implies a lost answer. `CacheInv` gives each cache an origin: what it holds was
fetched by an answered read of the same instance, at the time it says
(`CacheKept`, `ReadKept`), which bounds ages by the time to live. `ClearedFor`
carries the writer's view: once a write cleared its instance with no fetch in
flight, nothing there, nor in a later fetch, is older than the write.

`AccountInv` says of every request, wherever it is, that the row it works on or
answers with is its user's (`RowKept`), that its key was not revoked nor its
user removed when it began (`CredentialKept`: neither is ever taken back, so
what is looked up later is at least what was barred then), and that it has
written exactly when its place says so (`WriteKept`, from which `AnswersTell`
follows where it ends). The first rests on ids: a sequence gives the next one above all ids
in use (`LargestId`), so no request can still refer to the id a new row gets.
One lemma, `Writing`, covers the three steps that write a row.

`JobsInv` holds between the row of a job and its task (`RowFollows`), and says
of a report under construction that each entry is true (`Told`) and that entries
and listings left make up what was found, in its order (`ReportSoFar`). What was
found is a sequence of listings ranked by age: ranks are different and fill an
interval, by counting (`FoundIsSought`). Deals are only added, so a true entry
stays true (`ToldStays`), and nothing is pending between steps since a save commits by itself.

`RepairInv` says of a script between its two statements that its report is still
exact unless `meddled` is set (`ReportHolds`), and of a script that ran
undisturbed that no row is left it could change (`Exhausted`), until a deal or a
listing changes. That zpids are scraped listings is inductive only because the
foreign key also holds for edits; `EditOldDeal` now has that guard.

`PriceInv` says what outlives the gap between a plan and its writes
(`PlanKept`): for every version no analyst touched, the loaded instance is what
is stored but for the pending flag, which other steps may write, and the planned
terms are the stored ones of an open deal. A write then leaves price, terms and
metrics together, the three columns of `Flushed`; a deal an analyst did touch is
in `outrun`. `PlannedFailures` carries `FailuresStayInTheirRow` over a zpid that
is not finished. `ReportsAddUp` is about cardinalities: an appended report
adds its zpid to one outcome (`ZpidsGrow`) and to each outcome the rows that
ended so (`RowsGrow`).

*What the proofs corrected.* The rows of a price run were sequences and the
reports were counted with folds. With both as functions by deal id and counts as
cardinalities the properties say more: `ReportsAddUp` compares every
counter with the number of its zpids and of its rows, not
only totals. And a failed write expires all instances, so `ApplyRow` compares
a later row with what is stored when it is written, not with what was when the
rollback happened (`Instance`). The first attempt at `CacheIsSafe` failed for two
good reasons, both omissions of the model. Two options could get the same key,
which `uq_enum_options_domain_set_key` forbids (now `KeysUnique`, and
`RefuseOption` for the request the database refuses); and labels are unique only
within a domain, as the constraint includes it, so `CacheFiltersAgree` compares labels for
reads that name a domain, as all callers of `get_label_map` do. A map over all
domains could hold either label of a key that two domains share.

### Markets and expenses

`MarketProofs` proves about the tables of markets and the expenses of a deal:

| Theorem | States | Assumes |
|---|---|---|
| `RecordInvariant`, `RecordsAreSafe` | `[]RecordInv`, `RecordSafety` with its two action properties | `RecordAssumption`: at the start tables are lists of rows, no two live realtors share an email, markets name rows that are there; the realtor script reads each email once and stripped; NULL is no email |
| `OpexInvariant`, `OpexIsSafe` | `[]OpexInv`, `OpexSafety` with its action property | `OpexAssumption`: at the start no two live rows share a market and a key, no two live markets a slug, and no seed is under way; rows are numbered |
| `MarketsAreSafe` | `MarketSafety`, of both modules together | both |
| `ExpensesInvariant`, `ExpensesAreSafe` | `[]ExpensesInv`, `ExpensesSafety` with its two action properties | `ExpensesAssumption`: a key is a number and no key is not; the amounts by size are of rows keyed on size (`opex_by_size` has no other column) |

No assumption says which requests overlap: the proofs hold for any crowd,
scripts included.

*Argument for the records.* An id list has no foreign key, so an id is as good as
the read that vouched for it. `DealingKept` says of each request, between the
validation of its ids and its write, that they were live then and are live now or in
`dropped`, the rows deleted since it began (`WereLive`). Every other step keeps
this, since rows are never removed and a delete enters what it takes away
in `dropped` of every open request (`StillVouched`). The realtor script
holds on to more: an email it found is that of the realtor it found, or that row
was changed since, and emails it did not find get rows of their own, in an order
a function enumerates (`InSomeOrder`), after the index has refused the script as
a whole if one was taken meanwhile (`ScriptEmails`).

*Argument for the opex tables.* `LookupsAreUnambiguous` speaks of what one
request sees, and is not inductive: the commit of a seed shows its rows to
everybody. `RowsAreUnique` is about committed and open rows alike and says more.
A row in a transaction is a bedrooms row of a seed that has its sizes still to
write (`OpenRowsAreSeeds`), so the commit of the sizes publishes both tables or,
when the index refuses one, neither (`SeedsAreWhole`); for that the seed must
hold at least one bedrooms row, and carry at least one size (`ErrandKept`,
`CloneKept`). Clones of one table can stand beside each other because
the rows they were copied from were live together and no key is NULL
(`ClonesApart`). `OnlyRacesSpoilSeeds` rests on two parts of `ErrandKept`:
unless another request wrote to the target since the seed began (`crossed`), the target
is still exploratory and no committed row has appeared under it
(`NoneInTheWay`). For the CSV update the invariant keeps what each planned edit
was computed from: no edit is planned for a cell that already held its value, and
`WriteCsv` writes planned cells alone (`CellsWritten`).

*What the proofs corrected.* They found assumptions the first models made without
saying so. A key that is NULL clashes with nothing under the index (`Twins`);
a PATCH can clear a key or move a row to another market, and it writes only the
columns that differ from the row it loaded, so that it is a load and a flush
(`LoadRow`, `PatchRow`); a market can be created while seeds run (`AddMarket`,
`CreateBook`); whether a seed was spoilt is a question about its target alone.
The CSV finds its market by name and uses an id beside the name to check that
only. The realtor script matches emails as Python strips them and ends early
when no line has one; a blank email has no namesake.

*Argument for the expenses.* The API takes any list, so what is safe about a PUT is
what the list may hold. `Sendable`: keys are distinct, and each is that of no row
yet or `KeyKnown`, a key that was given out and that no stored row bears under
another name. Every key is at most `lastId` and what `Upsert` inserts is above
it, so a key of a deleted row that a form still sends is inserted under a new one
(`PutStores`, `NoKeyReturns`), and a known key stays known (`KeyStays`). That a
form merged with a context is sendable needs the context's keys apart too
(`UpdatesKept`), which holds because the catalog names each row once and stored
keys are distinct. Names need more than keys: until somebody else writes, a form
holds rows of the deal and its context is the one of those rows (the last two
parts of `FormKept`), so an appended figure is of a name that the form does not have
(`MergedLabels`). A reseed moves the rows of the market only because what the
context prices, without the row by size, is what the market prices at that
count: no row keyed on bedrooms reads a column by size (`SizeIsElsewhere`).

*What the proof corrected.* The first model kept the context of a client apart
from its form, and numbered the updates by a list; a form and its context are now
one record, since what is proved relates them, and updates have the places of the
catalog. The assumption on the columns was silent; the docstring of
`transform_opex_costs` says which table wins where they collide, but a
column of both tables would make the context and the seeded rows differ.

### Only model-checked

* `MovesAreServed`, `RequestsAnswered`, `EveryJobEnds`: liveness under fairness
  is out of the prover's reach.
* `LegacySafety`, `AnalyticsSafety`: folds over data, and large case distinctions on
  concrete sheets and reports.

## 6. Divergences between code and documentation

Each has a run that ends in a counterexample.

* `DealStatus_stale_form`: process_log.md says the generic PATCH does not change
  the status because the frontend sends the current one, and that the drift check
  returns zero rows. A form loaded before a move and saved after it writes the
  old status back, without a log row.
* `DealStatus_versions`: `_sync_listing_removal` is said to mirror the status
  onto the listing. Several versions share a listing; one leaving
  `delete_zillow` clears the flag while another is still there.
* `Discussions_last`: deleting the last comment is said to recompute
  `last_comment_id` from the newest comment that is not deleted. While the delete
  waits for a post, or for the delete of another comment, to commit, its subquery has already
  fixed its snapshot: the thread ends with an older last comment, none, or a
  deleted one. `comment_count` is not affected (`CountIsLive`).
* `Reference_recache`: the caches are "cleared only after the repository has
  committed, so a concurrent read can't re-cache pre-commit data"
  (`app/core/reference_data/service.py:228`). A read that began before the
  commit and ends after the clearing stores the older table for a whole time to
  live. `CacheSafety` says what remains: never longer than that.
* `Jobs_by_market`: the handler of a failed listing rolls back "so the remaining
  listings run on a clean session"
  (`batch_prepare_and_save_underwritings_by_market_job.py:74`). The rollback expires the loaded listings, the next line reads
  `listing.zpid`, and the reload it needs is impossible outside an await: the
  job fails. The other two batches copy the zpids first and go on.

Met while modelling, without a run of their own (the models do what the code does):

* "The approver is whoever moves the deal to 'present to clients'"
  (`update_underwriting_service.py:273`): a second PATCH to that status is no
  transition, logs and announces nothing, and still replaces the approver.
* The guards of `create_underwriting_from_url_service.py:142-148` do not give a
  property one series: two creations, or a creation and a job, that overlap both
  pass (`SecondSeriesOverlaps` says that nothing else does it).
* `resolve_opex_updates`' docstring takes the match by label for safe because
  labels are not edited; two clients that put back forms can still leave two
  rows of one label (`SharedLabelsComeFromRaces`).
* A rename of a saved search to a taken name is to answer with the duplicate; after the
  rollback the loaded row is expired and reading its columns raises (`LoseRow`): the
  answer is a 500. `AnswersTell` says that at least nothing was written.
* `get_active_by_email` "has to mirror `uq_realtors_email_active` exactly":
  Python's `strip` removes a tab, `btrim` does not.
* The bedrooms backfill "re-running reports zero updates": a deal of which only
  one of the two room counts can be filled is counted and written each time.
* `backfill_missing_zpids` "only ever targets rows where zpid is still NULL":
  true of its read, not of its write.
* `OpexSeedTargetAlreadySeededError`: two overlapping seeds with disjoint keys
  both succeed; the unique index only stops equal keys.
* `seed_realtors_enigma.py` says the last name that is not null wins;
  `setdefault` keeps the first. That script of markets
  (`update_market_amenities_enigma.py`) and `seed_markets.py` write a column
  `analyst_owner` the table does not have.
* `load_deals` is to "keep going; report at the end"; the commit of a
  placeholder user stands outside the `try`, and its failure ends the run
  (`OnlyLostNamesAbort`).
* `read_google_sheet` produces "the identical" shape, "so nothing downstream
  needs to know which source was used"
  (`backfill_legacy_underwritings.py:907-909`). The export keeps the `&amp;` of the
  XML in a link and has only http links; a failed formula is text there and
  nothing live, so that a tracking row of nothing else is a deal in one and not
  in the other, and a status that fails ends one import and not the other.
  `ReadersAgree` says what remains: the same figures and sections of each
  tab, and the same deals where no cell fails and links are addresses.

## 7. Abstractions

* A snapshot's payload is the deal's status. The real payload has every column,
  so two moves to one status usually differ where here they share a snapshot:
  the case with the sharing is the harder one for the log.
* `note`, `metadata`, `occurred_at` and `schema_version` are data no guard reads.
* In `DealStatus`, `_trigger_n8n_webhook` is one step and counts calls of `send`,
  not deliveries, which are in `Outbound`; it never raises, and its failure is
  the same to the deal as its success.
* Of the other columns of the generic PATCH, the calculated ones are in
  `DealNumbers`, the expenses in `OperatingExpenses`; the descriptive ones are nowhere.
* A deal saved directly in `delete_zillow` does not flag its listing in the code
  either; `ListingFlagFollows` is about deals that get there by a move.
* `DealStatusService.validate_transition` and its terminal statuses have no caller
  on the write path, so no guard of `DealStatus` stands for them.
* In `DealStatus`, Postgres' deadlock detector is not modelled: `MovesAreServed`
  shows it is not needed.
* In `Discussions`, `last_comment_at` is the `created_at` of `last_comment_id` and
  not a variable of its own; bodies, and the mention rows derived from them, are
  left out; no request deletes an underwriting, only `--update` of the
  legacy import does, so links do not vanish. Listing comments and reading counters are queries.
* Amounts: exact fractions instead of `Decimal` of 28 digits; cents, tenths of
  percents and months are coarser units (`MoneyUnits`, `PercentUnits`,
  `MonthsInYear`), with half-even rounding as in the code.
* PUTs that change a deal's zpid or URL are not modelled; deals are deleted by
  the legacy import's `--update` only, as in the repository.
* Deletes and requests of `MarketRecords` that load one row and change it
  do so in one step; a PATCH of an opex row, the scripts and the seeds are split
  at each statement.
* `StatusAnalytics`: the clock counts days; one deal is tracked; clearing a
  status to NULL is left to `DealStatus`. `occurred_at` and `updated_at` are the
  start of a transaction, which is why waits can be negative, or overstated,
  when requests overlap; the properties excuse exactly those cases.
* `DealAnalytics`: at most one edit or scrape falls between two statements. A
  rate may pass 1 in that case only.
* Text (names, labels, URLs) is a value of a small set; what the code compares in
  lower case or stripped is a function of it (`EmailForms`, `Labels`, `KeyRank`).
* The scrapers, Clerk, Postgres' and SQLAlchemy's own behaviour are marked
  external in the map.

## 8. Not modelled

* `DEAL_STATUS_TRANSITIONS` and the role targets (`get_allowed_transitions`,
  `validate_transition`): the frontend asks for them, no write checks them.
* Discussion bodies (one document, no shared state), the payload builders beyond
  the expense rows, response schemas, routers, authentication middleware,
  configuration, profiling: no state that interleaves.
* The connection pool: whether 5 plus 10 connections suffice depends on how
  long peers take.
* Issuing API keys (one insert of a random hash), remodelling costs (rows like amenities, named by nothing).
* The other seeding scripts (`seed_markets`, `seed_construction_*`,
  `seed_enum_options`, `seed_market_lifts`, `seed_str_cribs_fee_details`),
  the SQL generators, `run_uw_auto_prepare` and its log analyzer, benchmarks.
* Queries over scraped tables that no writer of the application races with.

## 9. Plan

Done: the log, its history and the deal-status write path with both refinements,
discussions, creation and duplication, calls, caches, users, jobs, backfills,
the daily price run, the tables of markets, the figures and the lists of deals.

1. Promises of the batches as an abstract specification (a set of listings, each
   saved, skipped or failed once) that `Jobs` implements.
2. `LegacySafety` and `AnalyticsSafety` as theorems, on the lemmas about folds in
   `CreationProofs` (`SumIs`, `SubsetsReached`).
3. The refinement of the walk of `DealList`: a page at a time implements a cursor
   over the whole list while nothing is edited.
