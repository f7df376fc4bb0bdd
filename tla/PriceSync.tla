------------------------------ MODULE PriceSync ------------------------------
(***************************************************************************)
(* The daily run: BatchReconcileUnderwritingPricesJob pushes changed       *)
(* Zillow prices onto every version of a deal, then the pending flags are  *)
(* synced with the listings, while analysts edit and close the same deals  *)
(* and the scrape moves on.  Prices are planned from one read and applied  *)
(* row by row, each in a transaction of its own.                           *)
(***************************************************************************)
EXTENDS Nulls, FiniteSetsExt, SequencesExt, Integers
CONSTANTS
    Book,          \* the deals before, in version order: a sequence of [zpid, closed, complete]
    Feed,          \* the listings before: zpid -> [num, text, home]
    Scrapes,       \* what a scrape may change a listing to: zpid -> a set of listings
    Changed,       \* get_price_changed_since: the zpids, newest change first
    MaxTouches,      \* bound: edits and closings by analysts
    MaxFailures    \* bound: statements that fail

\* The deals and the changes are lists, a deal is open or closed, and NULL is no home status.
ASSUME PriceAssumption ==
    /\ Book \in Seq(ToSet(Book)) /\ Changed \in Seq(ToSet(Changed))
    /\ \A i \in DOMAIN Book : Book[i].closed \in BOOLEAN /\ Book[i].complete \in BOOLEAN
    /\ None \notin {"FOR_SALE", "OTHER"}

VARIABLES
    stored,      \* the rows: id -> [price, terms, metrics, closed, pending]
    feed,      \* the listings: zpid -> [num, text, home]
    batch,     \* the run: [at, todo, loaded, plan, results, counts, rowCounts]; by deal what
               \* the session holds of it (None: expired), what is planned, what it reports
    touches, failures,
    outrun,     \* history: the deals an analyst touched between the plan and its write
    newsFor    \* history: the zpids whose listing changed after their flags were last set

priceVars == <<stored, feed, batch, touches, failures, outrun, newsFor>>
----------------------------------------------------------------------------
\* What the metrics are computed from: the price and everything else in the payload.
MetricsOf(price, terms) == [price |-> price, terms |-> terms]
Consistent(row) == row.metrics = MetricsOf(row.price, row.terms)

\* listing.unformatted_price or listing.price, through normalize_purchase_price: text is
\* the amount left of the formatted price, 0 when it holds none.
PriceOf(listing) ==
    LET raw == IF listing.num \in {None, 0} THEN listing.text ELSE listing.num
    IN  IF raw # None /\ raw > 0 THEN raw ELSE None

PendingFor_NullIsNot(home) == home \notin {None, "FOR_SALE", "OTHER"}
\* COALESCE makes a missing status pending.
PendingFor(home) == home \notin {"FOR_SALE", "OTHER"}

\* get_all_by_zpid: every version, the oldest first.
DealsOf(z) == {i \in DOMAIN Book : Book[i].zpid = z}

AggregateStatus_UpdatedFirst(statuses) ==
    IF "updated" \in statuses THEN "updated" ELSE IF "failed" \in statuses THEN "failed"
    ELSE IF "skipped_same_price" \in statuses THEN "skipped_same_price"
    ELSE "skipped_terminal_status"
\* _aggregate_status: worst news first.
AggregateStatus(statuses) ==
    LET order == <<"failed", "updated", "skipped_same_price", "skipped_terminal_status">>
        said == {n \in DOMAIN order : order[n] \in statuses}
    IN  IF said = {} THEN "skipped_same_price" ELSE order[Min(said)]

Outcomes == {"updated", "skipped_same_price", "skipped_no_underwriting",
             "skipped_no_purchase_price", "skipped_terminal_status", "failed"}
Counted(counts, status) == [counts EXCEPT ![status] = @ + 1]

PriceInit ==
    /\ stored = [i \in DOMAIN Book |->
                  [price |-> 1, terms |-> 1, metrics |-> MetricsOf(1, 1),
                   closed |-> Book[i].closed, pending |-> FALSE]]
    /\ feed = Feed
    /\ batch = [at |-> "next", todo |-> Changed, loaded |-> <<>>, plan |-> <<>>,
                results |-> <<>>, counts |-> [s \in Outcomes |-> 0],
                rowCounts |-> [s \in Outcomes |-> 0]]
    /\ touches = 0 /\ failures = 0 /\ outrun = {}
    /\ newsFor = DOMAIN Feed
----------------------------------------------------------------------------
\* The instances stay in the session as they were read.
LoadDeals ==
    /\ batch.at = "next" /\ batch.todo # <<>>
    /\ batch' = [batch EXCEPT !.at = "loaded",
                    !.loaded = [i \in DealsOf(Head(batch.todo)) |-> stored[i]]]
    /\ UNCHANGED <<stored, feed, touches, failures, outrun, newsFor>>

Marked(rows, s) == {i \in DOMAIN rows : rows[i] = s}

\* The end of one zpid, with the status of each row.
Finish(status, rows) ==
    batch' = [batch EXCEPT !.at = "next", !.todo = Tail(@), !.loaded = <<>>, !.plan = <<>>,
                 !.results = Append(@, [zpid |-> Head(batch.todo), status |-> status, rows |-> rows]),
                 !.counts = Counted(@, status),
                 !.rowCounts = [s \in Outcomes |-> @[s] + Cardinality(Marked(rows, s))]]

PlanStatus_OpenOnly(i, row, price) ==
    IF row.price = price THEN "skipped_same_price"
    ELSE IF ~Book[i].complete THEN "failed" ELSE "todo"
\* _plan for one row; a deal without purchase details, revenue or taxes has no payload.
PlanStatus(i, row, price) ==
    IF row.closed THEN "skipped_terminal_status"
    ELSE IF row.price = price THEN "skipped_same_price"
    ELSE IF ~Book[i].complete THEN "failed" ELSE "todo"

\* run(), from the read of the listing to the plan.
PlanRows ==
    /\ batch.at = "loaded"
    /\ LET z == Head(batch.todo)
           price == IF z \in DOMAIN feed THEN PriceOf(feed[z]) ELSE None
       IN  IF DealsOf(z) = {} THEN Finish("skipped_no_underwriting", <<>>)
           ELSE IF price = None
           THEN Finish("skipped_no_purchase_price", [i \in DealsOf(z) |-> "skipped_no_purchase_price"])
           ELSE batch' = [batch EXCEPT !.at = "apply", !.plan =
                    [i \in DealsOf(z) |->
                        [price |-> price, terms |-> batch.loaded[i].terms,
                         status |-> PlanStatus(i, batch.loaded[i], price)]]]
    /\ UNCHANGED <<stored, feed, touches, failures, outrun, newsFor>>

\* The read of the deals or of the listing fails: the loop rolls back and goes on.
FailZpid ==
    /\ batch.at = "loaded" /\ failures < MaxFailures /\ failures' = failures + 1
    /\ batch' = [batch EXCEPT !.at = "next", !.todo = Tail(@), !.loaded = <<>>,
                    !.results =
                        Append(@, [zpid |-> Head(batch.todo), status |-> "failed", rows |-> <<>>]),
                    !.counts = Counted(@, "failed")]
    /\ UNCHANGED <<stored, feed, touches, outrun, newsFor>>

ToApply == {i \in DOMAIN batch.plan : batch.plan[i].status = "todo"}

\* What the session flushes: a column set to the value it was loaded with is not written.
\* An expired instance is read again by the get_by_id of the write.
Instance(i) == IF batch.loaded[i] = None THEN stored[i] ELSE batch.loaded[i]
Flushed(row, copy, new) ==
    [f \in DOMAIN row |-> IF f \in DOMAIN new /\ new[f] # copy[f] THEN new[f] ELSE row[f]]

NewValues_NoMetrics(entry) == [price |-> entry.price, terms |-> entry.terms]
\* reconcile_purchase_price: the price and what follows from it, from the planned payload.
NewValues(entry) ==
    [price |-> entry.price, terms |-> entry.terms, metrics |-> MetricsOf(entry.price, entry.terms)]

ApplyRow ==
    /\ batch.at = "apply" /\ ToApply # {}
    /\ LET i == Min(ToApply) IN
       /\ stored' = [stored EXCEPT ![i] = Flushed(@, Instance(i), NewValues(batch.plan[i]))]
       /\ batch' = [batch EXCEPT !.plan[i].status = "updated"]
    /\ UNCHANGED <<feed, touches, failures, outrun, newsFor>>

FailRow_StopsTheLoop ==
    /\ batch.at = "apply" /\ ToApply # {}
    /\ failures < MaxFailures /\ failures' = failures + 1
    /\ batch' = [batch EXCEPT !.plan = [k \in DOMAIN @ |->
                    IF k \in ToApply THEN [@[k] EXCEPT !.status = "failed"] ELSE @[k]]]
    /\ UNCHANGED <<stored, feed, touches, outrun, newsFor>>
\* A failing write rolls back and expires every loaded instance.
FailRow ==
    /\ batch.at = "apply" /\ ToApply # {}
    /\ failures < MaxFailures /\ failures' = failures + 1
    /\ batch' = [batch EXCEPT !.plan[Min(ToApply)].status = "failed",
                    !.loaded = [i \in DOMAIN @ |-> None]]
    /\ UNCHANGED <<stored, feed, touches, outrun, newsFor>>

FinishZpid ==
    /\ batch.at = "apply" /\ ToApply = {}
    /\ LET rows == [i \in DOMAIN batch.plan |-> batch.plan[i].status]
       IN  Finish(AggregateStatus({rows[i] : i \in DOMAIN rows}), rows)
    /\ UNCHANGED <<stored, feed, touches, failures, outrun, newsFor>>

\* bulk_sync_property_pending: one UPDATE over the join with the listings.
SyncPending ==
    /\ batch.at = "next" /\ batch.todo = <<>>
    /\ stored' = [i \in DOMAIN stored |->
                   IF Book[i].zpid \notin DOMAIN feed THEN stored[i]
                   ELSE [stored[i] EXCEPT !.pending = PendingFor(feed[Book[i].zpid].home)]]
    /\ batch' = [batch EXCEPT !.at = "done"]
    /\ newsFor' = {}
    /\ UNCHANGED <<feed, touches, failures, outrun>>

\* backfill_underwriting_property_pending_other: the sync for OTHER alone.
ClearOther ==
    /\ stored' = [i \in DOMAIN stored |->
                   IF Book[i].zpid \in DOMAIN feed /\ feed[Book[i].zpid].home = "OTHER"
                   THEN [stored[i] EXCEPT !.pending = FALSE] ELSE stored[i]]
    /\ stored' # stored
    /\ newsFor' = {z \in newsFor : feed[z].home # "OTHER"}
    /\ UNCHANGED <<feed, batch, touches, failures, outrun>>

\* An analyst's PUT commits the price or the terms with the metrics they give, or the
\* PATCH of the status closes the deal.
Touch(i, row) ==
    /\ touches < MaxTouches /\ touches' = touches + 1
    /\ stored' = [stored EXCEPT ![i] = row]
    /\ outrun' = IF \/ batch.at = "loaded" /\ Book[i].zpid = Head(batch.todo)
                   \/ i \in ToApply
                THEN outrun \cup {i} ELSE outrun
    /\ UNCHANGED <<feed, batch, failures, newsFor>>
RepriceDeal(i) ==
    \E price, terms \in {1, 2, 3} :
        /\ <<price, terms>> # <<stored[i].price, stored[i].terms>>
        /\ Touch(i, [stored[i] EXCEPT !.price = price, !.terms = terms,
                                    !.metrics = MetricsOf(price, terms)])
CloseDealRow(i) == ~stored[i].closed /\ Touch(i, [stored[i] EXCEPT !.closed = TRUE])

Scrape(z) ==
    /\ \E listing \in Scrapes[z] \ {feed[z]} : feed' = [feed EXCEPT ![z] = listing]
    /\ newsFor' = newsFor \cup {z}
    /\ UNCHANGED <<stored, batch, touches, failures, outrun>>

PriceNext ==
    \/ LoadDeals \/ PlanRows \/ FailZpid \/ ApplyRow \/ FailRow \/ FinishZpid
    \/ SyncPending \/ ClearOther
    \/ \E i \in DOMAIN stored : RepriceDeal(i) \/ CloseDealRow(i)
    \/ \E z \in DOMAIN Scrapes : Scrape(z)

PriceSpec == PriceInit /\ [][PriceNext]_priceVars
----------------------------------------------------------------------------
\* The stored metrics of a deal follow from its stored price and terms, unless an analyst
\* edited it between the job's read and its write.
OnlyRacesSkewMetrics == \A i \in DOMAIN stored : Consistent(stored[i]) \/ i \in outrun

\* The price of a closed deal moves only when the job planned it while it was still open.
OnlyRacesRepriceClosedDeals ==
    [][\A i \in DOMAIN stored :
          stored[i].closed /\ stored'[i].price # stored[i].price /\ touches' = touches =>
              i \in outrun]_priceVars

\* One failing row costs the others nothing: a zpid reports at most as many failures as
\* deals without a payload and statements that failed.
Broken(rows) == {i \in DOMAIN rows : rows[i] = "failed" /\ Book[i].complete}
FailuresStayInTheirRow ==
    \A n \in DOMAIN batch.results : Cardinality(Broken(batch.results[n].rows)) <= failures

\* How often an outcome occurs among zpids and among the rows of their reports.
ZpidsEnding(results, s) == {n \in DOMAIN results : results[n].status = s}
RowsEnding(results, s) ==
    {p \in (DOMAIN results) \X (DOMAIN Book) :
        p[2] \in Marked(results[p[1]].rows, s)}

\* A run that reports a zpid clean has no failed row under it, and its counters say how often
\* each outcome occurs among the zpids it was given and among the rows it reports.
ReportsAddUp ==
    /\ Len(batch.results) + Len(batch.todo) = Len(Changed)
    /\ \A s \in Outcomes : /\ batch.counts[s] = Cardinality(ZpidsEnding(batch.results, s))
                           /\ batch.rowCounts[s] = Cardinality(RowsEnding(batch.results, s))
    /\ \A n \in DOMAIN batch.results :
          LET r == batch.results[n]
          IN  /\ {r.status} \cup {r.rows[i] : i \in DOMAIN r.rows} \subseteq Outcomes
              /\ (\E i \in DOMAIN r.rows : r.rows[i] = "failed") => r.status = "failed"

\* After a sync, and however the backfill is interleaved, a flag disagrees with its listing
\* only when the listing changed since; a listing without a status counts as pending.
FlagsTrailTheScrape ==
    \A i \in DOMAIN stored :
        LET z == Book[i].zpid
        IN  z \in DOMAIN feed /\ z \notin newsFor =>
               stored[i].pending = (feed[z].home = None \/ feed[z].home \notin {"FOR_SALE", "OTHER"})

PriceTyped ==
    /\ DOMAIN stored = DOMAIN Book
    /\ \A i \in DOMAIN stored :
          /\ DOMAIN stored[i] = {"price", "terms", "metrics", "closed", "pending"}
          /\ stored[i].closed \in BOOLEAN
    /\ touches \in Nat /\ failures \in Nat
    /\ DOMAIN batch = {"at", "todo", "loaded", "plan", "results", "counts", "rowCounts"}
    /\ batch.at \in {"next", "loaded", "apply", "done"}
    /\ batch.todo \in Seq(ToSet(batch.todo)) /\ batch.results \in Seq(ToSet(batch.results))
    /\ \A n \in DOMAIN batch.results : DOMAIN batch.results[n].rows \subseteq DOMAIN Book
    /\ batch.counts \in [Outcomes -> Nat] /\ batch.rowCounts \in [Outcomes -> Nat]

\* What the session holds of a deal is what is stored, but for the pending flag.
Unmoved(i) == \A f \in {"price", "terms", "metrics", "closed"} : batch.loaded[i][f] = stored[i][f]
RowOutcomes == {"updated", "skipped_same_price", "skipped_terminal_status", "failed"}

\* What is loaded and planned for the versions of a listing is still so for those that no
\* analyst touched.
PlanKept ==
    /\ batch.at = "apply" \/ batch.plan = <<>>
    /\ batch.at \in {"loaded", "apply"} =>
          batch.todo # <<>> /\ DOMAIN batch.loaded = DealsOf(Head(batch.todo))
    /\ batch.at = "loaded" => \A i \in DOMAIN batch.loaded \ outrun : Unmoved(i)
    /\ batch.at = "apply" =>
          /\ DOMAIN batch.plan = DOMAIN batch.loaded
          /\ \A i \in DOMAIN batch.plan :
                /\ DOMAIN batch.plan[i] = {"price", "terms", "status"}
                /\ batch.plan[i].status \in RowOutcomes \cup {"todo"}
          /\ \A i \in ToApply \ outrun :
                /\ batch.plan[i].terms = stored[i].terms /\ ~ stored[i].closed
                /\ batch.loaded[i] = None \/ Unmoved(i)

\* Of the planned rows with a payload as many failed as statements did, at most.
PlannedFailures ==
    Cardinality({i \in DOMAIN batch.plan : batch.plan[i].status = "failed" /\ Book[i].complete})
        <= failures

\* The inductive invariant of the daily run.
PriceInv ==
    /\ PriceTyped /\ PlanKept /\ PlannedFailures
    /\ OnlyRacesSkewMetrics /\ FailuresStayInTheirRow /\ ReportsAddUp /\ FlagsTrailTheScrape

\* The price reconciliation and the pending sync between edits: metrics are skewed and closed
\* deals are repriced by races only, failures stay in their row, reports add up and flags are
\* no older than the scrape. (reconcile, batch reconcile, pending sync)
PriceSafety ==
    /\ []OnlyRacesSkewMetrics
    /\ []FailuresStayInTheirRow
    /\ []ReportsAddUp
    /\ []FlagsTrailTheScrape
    /\ OnlyRacesRepriceClosedDeals
=============================================================================
