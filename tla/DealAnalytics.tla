---------------------------- MODULE DealAnalytics ----------------------------
(***************************************************************************)
(* The metrics counted over deals, listings, presets and jobs: the         *)
(* underwriting, pipeline and listing analytics, while deals are edited,   *)
(* listings scraped and deals synchronised with them.  Each statement of a *)
(* report reads what is committed when it runs; a report of two statements *)
(* is read in two steps.                                                   *)
(***************************************************************************)
EXTENDS Tables

CONSTANTS
    Portfolios,    \* what is stored: deals, listings, presets and jobs
    Populations,   \* the filters a report is asked for
    DealEdits,     \* what an edit writes over a deal
    HomeScrapes,       \* what a scrape writes over a listing
    PriceBands,    \* the upper bounds of the bands but for the last
    StatusOrder,   \* STATUS_OPTIONS
    NextStatuses,  \* DEAL_STATUS_TRANSITIONS: status -> where a deal may move from it
    OnMarket,      \* NOT_PENDING_HOME_STATUSES
    StaleDays, Now,
    MaxChanges     \* bound: edits and scrapes of a behaviour

VARIABLES
    records,    \* the rows of the tables
    changes,   \* edits and scrapes so far
    fresh,     \* the deals synchronised since their listing was scraped
    report     \* the report being read

dealAnalyticsVars == <<records, changes, fresh, report>>
----------------------------------------------------------------------------
\* Mutant: a deal under contract is not counted as presented.
PresentedStatuses_Now == {"present_to_clients"}

\* A deal under contract was presented first.
PresentedStatuses == {"present_to_clients", "client_under_contract"}
WonStatuses == {"client_under_contract"}
DeletedStatuses == {"delete_zillow", "delete_deal"}

\* Mutant: a deal that is not deleted is live.
LiveStatuses_NotDeleted == Range(StatusOrder) \ DeletedStatuses

\* LIVE_STATUSES: those that are not terminal, as the transitions have it.
LiveStatuses == {s \in Range(StatusOrder) : NextStatuses[s] # {}}

\* underwriting_filter_conditions; None does not filter.
Counts(d, f) ==
    /\ Between(d.added, f.added)
    /\ d.source \in f.sources
    /\ f.market # None => d.market = f.market
    /\ f.statuses # None => d.status \in f.statuses

Population(f) == {i \in DOMAIN records.deals : Counts(records.deals[i], f)}
Deal(i) == records.deals[i]
KnownStatuses(f) ==
    SelectSeq(StatusOrder, LAMBDA s : f.statuses = None \/ s \in f.statuses)
StatusItems(counts, f) == OrderFixed(counts, KnownStatuses(f))
ItemSum(items) == FoldLeft(LAMBDA n, i : n + i.count, 0, items)

ByStatus(f) == StatusItems(Grouped(Population(f), LAMBDA i : Deal(i).status), f)

SumAt(ids, statuses) == Cardinality({i \in ids : Deal(i).status \in statuses})

\* _market_key_label: no market is the unassigned row.
MarketRow(key, ids) ==
    LET presented == SumAt(ids, PresentedStatuses)
    IN  [key |-> key, count |-> Cardinality(ids), presented |-> presented,
         presentedRate |-> Ratio(presented, Cardinality(ids)),
         winRate |-> Ratio(SumAt(ids, WonStatuses), presented)]
ByMarket(f) ==
    Ranked(SetToSeq({MarketRow(m, {i \in Population(f) : Deal(i).market = m}) :
                       m \in {Deal(i).market : i \in Population(f)}}))
AllMarkets(f) == MarketRow(None, Population(f))

\* Mutant: a price at the upper bound stays in the band.
PriceBand_Closed(price) ==
    IF price = None THEN None
    ELSE IF \E b \in DOMAIN PriceBands : price <= PriceBands[b]
    THEN Min({b \in DOMAIN PriceBands : price <= PriceBands[b]})
    ELSE Len(PriceBands) + 1

\* _price_band_case: the first band whose upper bound is above the price.
PriceBand(price) ==
    IF price = None THEN None
    ELSE IF \E b \in DOMAIN PriceBands : price < PriceBands[b]
    THEN Min({b \in DOMAIN PriceBands : price < PriceBands[b]})
    ELSE Len(PriceBands) + 1

BandRow(f, band) ==
    LET ids == {i \in Population(f) : PriceBand(Deal(i).price) = band}
    IN  [key |-> band, total |-> Cardinality(ids),
         items |-> StatusItems(Grouped(ids, LAMBDA i : Deal(i).status), f)]
Bands(f) ==
    [b \in 1 .. Len(PriceBands) + 1 |-> BandRow(f, b)]
    \o (IF BandRow(f, None).total > 0 THEN <<BandRow(f, None)>> ELSE <<>>)

Quality(f, statuses) ==
    LET ids == {i \in Population(f) : Deal(i).status \in statuses}
    IN  [deals |-> Cardinality(ids),
         sampled |-> Cardinality({i \in ids : Deal(i).return # None})]

Automated(f) ==
    OrderFixed(Grouped(Population(f), LAMBDA i :
                 CASE Deal(i).automated = None -> None
                   [] Deal(i).automated = TRUE -> "automated"
                   [] OTHER -> "manual"), <<"automated", "manual">>)

Completeness(f) ==
    LET Missing(Has(_)) == Cardinality({i \in Population(f) : ~Has(Deal(i))})
    IN  [total |-> Cardinality(Population(f)),
         market |-> Missing(LAMBDA d : d.market # None),
         price |-> Missing(LAMBDA d : d.price # None),
         status |-> Missing(LAMBDA d : d.status # None)]

\* template_progress: a deal with no deal_added is in no period.
Progress(f) ==
    LET dated == {i \in Population(f) : Deal(i).added # None}
        Of(ids) == Grouped(ids, LAMBDA i : PeriodOf(Deal(i).added, "week"))
        past == {i \in dated : Deal(i).status \notin {None, "template_generated"}}
        periods == FillPeriods(DOMAIN Of(dated), f.added, "week")
    IN  [p \in periods |-> [created |-> CountAt(Of(dated), p),
                            past |-> CountAt(Of(past), p),
                            seen |-> Ratio(CountAt(Of(past), p), CountAt(Of(dated), p))]]

\* duplicates: a property counts when more than one series was made of it.
Repeated(f) ==
    LET on == {i \in Population(f) : Deal(i).zpid # None}
        again == {z \in {Deal(i).zpid : i \in on} :
                    Cardinality({Deal(i).series : i \in {j \in on : Deal(j).zpid = z}}) > 1}
    IN  [properties |-> Cardinality(again),
         deals |-> Cardinality({i \in on : Deal(i).zpid \in again})]
Copies(f) == Cardinality({i \in Population(f) : Deal(i).copied})
----------------------------------------------------------------------------
(* Listings, presets and jobs *)

Listed(range, market) ==
    {z \in DOMAIN records.listings :
       /\ Between(records.listings[z].created, range)
       /\ market # None => records.presets[records.listings[z].preset].market = market}

\* "" and NULL both mean that the status of the listing is unknown.
HomeStatus(z) ==
    IF records.listings[z].home = "" THEN None ELSE records.listings[z].home

\* Mutant: NULL NOT IN (...) is not TRUE.
OffMarket_Null(z) ==
    records.listings[z].home # None /\ records.listings[z].home \notin OnMarket

\* off_market_condition: a missing status is off the market.
OffMarket(z) ==
    (IF records.listings[z].home = None THEN "" ELSE records.listings[z].home) \notin OnMarket

\* count_off_market joins the listings: a deal with none is left out.
Gone(f) ==
    {i \in Population(f) : /\ Deal(i).zpid \in DOMAIN records.listings
                           /\ OffMarket(Deal(i).zpid)}

\* numeric_range_conditions: both ends are included, and no date is in no range.
ChangedIn(day, range) ==
    /\ range[1] # None => day # None /\ day >= range[1]
    /\ range[2] # None => day # None /\ day <= range[2]

\* The deal is live and the latest price change of its listing is a drop.
Dropped(f) ==
    {i \in Population(f) : /\ Deal(i).status \in LiveStatuses
                           /\ Deal(i).zpid \in DOMAIN records.listings
                           /\ LET z == records.listings[Deal(i).zpid]
                              IN  z.change < 0 /\ ChangedIn(z.changed, f.changed)}
DropItems(f) ==
    OrderFixed(Grouped(Dropped(f), LAMBDA i : Deal(i).status),
               SelectSeq(KnownStatuses(f), LAMBDA s : s \in LiveStatuses))
Measured(f) ==
    {i \in Dropped(f) : LET z == records.listings[Deal(i).zpid] IN z.price - z.change # 0}

HasDeal(z, sources) ==
    \E i \in DOMAIN records.deals : Deal(i).zpid = z /\ Deal(i).source \in sources

\* Mutant: the deals are joined one by one.
CoverageOf_Joined(zs, sources) ==
    LET pairs == {<<z, i>> \in zs \X DOMAIN records.deals :
                    Deal(i).zpid = z /\ Deal(i).source \in sources}
        bare == {z \in zs : ~HasDeal(z, sources)}
    IN  [listings |-> Cardinality(pairs) + Cardinality(bare),
         underwritten |-> Cardinality(pairs)]

\* One row per zpid, so a listing with several deals is counted once.
CoverageOf(zs, sources) ==
    [listings |-> Cardinality(zs),
     underwritten |-> Cardinality({z \in zs : HasDeal(z, sources)})]

CoverageByPreset(f) ==
    LET zs == Listed(f.added, f.market)
        PresetOf(z) == records.listings[z].preset
    IN  [p \in {PresetOf(z) : z \in zs} |->
           CoverageOf({z \in zs : PresetOf(z) = p}, f.sources)]

\* get_intake by market: every series has the same periods.
Intake(f) ==
    LET zs == Listed(f.added, f.market)
        MarketOf(z) == records.presets[records.listings[z].preset].market
        Week(z) == PeriodOf(records.listings[z].created, "week")
        periods == FillPeriods({Week(z) : z \in zs}, f.added, "week")
    IN  [m \in {MarketOf(z) : z \in zs} |->
           Filled(Grouped({z \in zs : MarketOf(z) = m}, Week), periods)]

Stale ==
    {z \in DOMAIN records.listings : /\ records.listings[z].keep
                                    /\ records.listings[z].seen < Now - StaleDays}

\* get_preset_runs: the overdue first, then the never run, then the oldest.
LeadsRun(p, q) ==
    IF p.overdue # q.overdue THEN p.overdue
    ELSE IF p.run = None \/ q.run = None THEN p.run = None /\ q.run # None
    ELSE p.run < q.run
PresetRuns ==
    {[key |-> p, overdue |-> records.presets[p].next # None /\ records.presets[p].next < Now,
      run |-> records.presets[p].last] :
        p \in {q \in DOMAIN records.presets : records.presets[q].active}}

JobHealth ==
    [t \in {records.jobs[j].type : j \in DOMAIN records.jobs} |->
       OrderFixed(Grouped({j \in DOMAIN records.jobs : records.jobs[j].type = t},
                          LAMBDA j : records.jobs[j].status),
                  <<"queued", "running", "succeeded", "failed">>)]
----------------------------------------------------------------------------
NoAnswer == [name |-> None, of |-> None, first |-> None, second |-> None, raced |-> FALSE]

DealAnalyticsInit ==
    /\ records \in Portfolios
    /\ changes = 0
    /\ fresh = {}
    /\ report = NoAnswer

Change ==
    /\ changes < MaxChanges
    /\ report.second = None    \* bound: a behaviour ends with its report
    /\ changes' = changes + 1
    /\ report' = [report EXCEPT !.raced = report.name # None]

EditOneDeal ==
    /\ \E i \in DOMAIN records.deals, e \in DealEdits :
         /\ e @@ Deal(i) # Deal(i)
         /\ records' = [records EXCEPT !.deals[i] = e @@ @]
         /\ fresh' = IF "zpid" \in DOMAIN e THEN fresh \ {i} ELSE fresh
    /\ Change

ScrapeHome ==
    /\ \E z \in DOMAIN records.listings, s \in HomeScrapes :
         /\ s @@ records.listings[z] # records.listings[z]
         /\ records' = [records EXCEPT !.listings[z] = s @@ @]
         /\ fresh' = {i \in fresh : Deal(i).zpid # z}
    /\ Change

\* sync_property_pending: the deals of a listing take its pending rule.
SyncHomes ==
    /\ report.name = None
    /\ LET linked == {i \in DOMAIN records.deals : Deal(i).zpid \in DOMAIN records.listings}
           Pending(i) == LET home == records.listings[Deal(i).zpid].home
                         IN  home = None \/ home \notin OnMarket
       IN  /\ fresh # linked
           /\ fresh' = linked
           /\ records' = [records EXCEPT !.deals =
                [i \in DOMAIN @ |-> IF i \in linked THEN [@[i] EXCEPT !.pending = Pending(i)]
                                    ELSE @[i]]]
    /\ UNCHANGED <<changes, report>>

Reports == {"off market", "coverage", "price drops", "tags"}

Tagged(f) == {i \in Population(f) : Deal(i).tags \notin {None, {}}}

\* The first statement of a report; an inverted range is refused before it.
ReadFirst(name, f) ==
    /\ report.name = None
    /\ ValidRange(f.added) /\ (name = "price drops" => ValidRange(f.changed))
    /\ report' = [NoAnswer EXCEPT !.name = name, !.of = f, !.first =
         CASE name = "off market" -> SumAt(Gone(f), {"present_to_clients"})
           [] name = "coverage" ->
                CoverageOf(Listed(f.added, f.market), f.sources)
           [] name = "price drops" -> DropItems(f)
           [] name = "tags" -> [deals |-> Cardinality(Population(f)),
                                unset |-> Cardinality(Population(f) \ Tagged(f))]]
    /\ UNCHANGED <<records, changes, fresh>>

ReadSecond ==
    LET f == report.of
    IN  /\ report.name # None
        /\ report.second = None
        /\ report' = [report EXCEPT !.second =
             CASE report.name = "off market" -> SumAt(Population(f), {"present_to_clients"})
               [] report.name = "coverage" -> CoverageByPreset(f)
               [] report.name = "price drops" -> Cardinality(Measured(f))
               [] report.name = "tags" ->
                    [t \in UNION {Deal(i).tags : i \in Tagged(f)} |->
                       Cardinality({i \in Tagged(f) : t \in Deal(i).tags})]]
        /\ UNCHANGED <<records, changes, fresh>>

DealAnalyticsNext ==
    \/ EditOneDeal
    \/ ScrapeHome
    \/ SyncHomes
    \/ \E name \in Reports, f \in Populations : ReadFirst(name, f)
    \/ ReadSecond

DealAnalyticsSpec == DealAnalyticsInit /\ [][DealAnalyticsNext]_dealAnalyticsVars
----------------------------------------------------------------------------
\* A report of one statement depends on the tables alone, so it is looked at
\* where no other report is being read; without a deal there is nothing to compare.
AtRest == report.name = None /\ records.deals # <<>>

\* A rate a page shows is a share: no market wins more deals than it presented,
\* and no week has seen more deals than were created in it.  Only a commit
\* between the two statements of the off-market report can make it miss more
\* deals than were presented.
RatesAreShares ==
    /\ AtRest => \A f \in Populations :
         /\ \A row \in Range(ByMarket(f)) \cup {AllMarkets(f)} :
              IsShare(row.presentedRate) /\ IsShare(row.winRate)
         /\ \A point \in Range(Progress(f)) : IsShare(point.seen)
    /\ report.name = "off market" /\ report.second # None /\ ~report.raced =>
         IsShare(Ratio(report.first, report.second))

\* The reports of one population agree: every breakdown has all its deals, those
\* in a status nobody knows of and those with none included, and what one calls
\* missing is what the others show as unknown.  Drops are reported of deals the breakdown
\* by status has too, none of them won or deleted: those cannot move any more.
ReportsAgree ==
    AtRest => \A f \in Populations :
      LET n == Cardinality(Population(f))
          whole == Completeness(f)
          AtNone(items) == ItemSum(SelectSeq(items, LAMBDA i : i.key = None))
      IN  /\ whole.total = n
          /\ ItemSum(ByStatus(f)) = n /\ AtNone(ByStatus(f)) = whole.status
          /\ ItemSum(ByMarket(f)) = n /\ AtNone(ByMarket(f)) = whole.market
          /\ ItemSum(Automated(f)) = n
          /\ \A band \in Range(Bands(f)) : ItemSum(band.items) = band.total
          /\ FoldLeft(LAMBDA t, b : t + b.total, 0, Bands(f)) = n
          /\ BandRow(f, None).total = whole.price
          /\ Quality(f, PresentedStatuses).deals = AllMarkets(f).presented
          /\ \A s \in {PresentedStatuses, DeletedStatuses} :
               Quality(f, s).sampled <= Quality(f, s).deals
          /\ \A drop \in Range(DropItems(f)) :
               /\ drop.key \notin WonStatuses \cup DeletedStatuses \cup {None}
               /\ \E item \in Range(ByStatus(f)) :
                    item.key = drop.key /\ drop.count <= item.count
          /\ Repeated(f).deals >= 2 * Repeated(f).properties
          /\ Repeated(f).deals <= n /\ Copies(f) <= n
          /\ \A t \in DOMAIN JobHealth : ItemSum(JobHealth[t]) =
               Cardinality({j \in DOMAIN records.jobs : records.jobs[j].type = t})

\* A deal's price is in the bounds its band is labelled with.
BandsHoldTheirPrices ==
    \A i \in DOMAIN records.deals :
      LET band == PriceBand(Deal(i).price)
      IN  band # None => /\ band > 1 => Deal(i).price >= PriceBands[band - 1]
                         /\ band <= Len(PriceBands) => Deal(i).price < PriceBands[band]

\* What the two statements of a report count agrees unless a commit came between
\* them: a listing is covered once and in one preset, no drop is measured that
\* was not counted, and a deal is tagged or it is not.
TwoReadsAgree ==
    report.second # None /\ ~report.raced =>
      LET f == report.of
      IN  /\ report.name = "coverage" =>
               /\ report.first.listings = Cardinality(Listed(f.added, f.market))
               /\ \A k \in {"listings", "underwritten"} : report.first[k] =
                    FoldSet(LAMBDA p, n : n + report.second[p][k], 0, DOMAIN report.second)
          /\ report.name = "price drops" => report.second <= ItemSum(report.first)
          /\ report.name = "tags" =>
               /\ \A t \in DOMAIN report.second :
                    report.second[t] <= report.first.deals - report.first.unset
               /\ Tally(report.second) >= report.first.deals - report.first.unset

\* A deal counts as off the market by the rule that sets its property_pending:
\* they differ only where the listing was scraped after the last sync.
OffMarketIsPending ==
    \A i \in fresh : OffMarket(Deal(i).zpid) = Deal(i).pending

\* The lines of a chart have the same periods, and all their listings; so has
\* the progress of the template all dated deals.
SeriesLineUp ==
    AtRest => \A f \in Populations : ValidRange(f.added) =>
      /\ \A m, n \in DOMAIN Intake(f) : DOMAIN Intake(f)[m] = DOMAIN Intake(f)[n]
      /\ FoldSet(LAMBDA m, n : n + Tally(Intake(f)[m]), 0, DOMAIN Intake(f)) =
           Cardinality(Listed(f.added, f.market))
      /\ FoldSet(LAMBDA p, n : n + Progress(f)[p].created, 0, DOMAIN Progress(f)) =
           Cardinality({i \in Population(f) : Deal(i).added # None})

\* A table is in one order however the database returned its rows, and so is
\* the list of presets that lead with the one most in need of a run.
RankingIsStable ==
    AtRest =>
    LET home == Grouped(DOMAIN records.listings, HomeStatus)
        stale == Grouped(Stale, LAMBDA z : records.listings[z].preset)
        Stable(rows) ==
          \A p, q \in SetToSeqs(rows) : Ranked(p) = Ranked(q)
    IN  /\ Stable({Item(k, home[k]) : k \in DOMAIN home})
        /\ Stable({Item(k, stale[k]) : k \in DOMAIN stale})
        /\ \A p, q \in PresetRuns : LeadsRun(p, q) =>
             ~LeadsRun(q, p) /\ (q.overdue => p.overdue)

\* Reports on deals and listings agree with each other and with the rows they count, a change
\* between two of their statements included. (UnderwritingAnalyticsService,
\* ListingAnalyticsService, PipelineAnalyticsService)
DealReportsSafety ==
    /\ RatesAreShares
    /\ ReportsAgree
    /\ BandsHoldTheirPrices
    /\ TwoReadsAgree
    /\ OffMarketIsPending
    /\ SeriesLineUp
    /\ RankingIsStable
=============================================================================
