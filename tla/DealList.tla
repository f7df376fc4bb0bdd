------------------------------ MODULE DealList ------------------------------
(***************************************************************************)
(* The list of deals: UnderwritingRepository's filters, sort and pages,    *)
(* GetUnderwritingService.get_all with its enrichment, and the what-if     *)
(* list of SimulateUnderwritingsService, which filters, sorts and pages in *)
(* Python.  A client walks all pages of one query while an editor changes  *)
(* deals.  SQL is three-valued: a condition on NULL is not TRUE.           *)
(***************************************************************************)
EXTENDS Nulls, SequencesExt, FiniteSetsExt, Functions, Integers, TLC
CONSTANTS
    Books,         \* the stored deals a walk may start from: id -> deal
    Queries,       \* the queries: filters, bounds, sort and override
    Edits,         \* what an editor may write over a deal
    PageSize,
    DayTicks,      \* instants in a day
    Excluded,      \* _SIMULATION_EXCLUDED_DEAL_STATUSES
    DeletedUsers, DeletedRealtors, MissingListings,
    RealtorsOf,    \* market -> its realtor_ids
    MaxEdits       \* bound on the edits of a walk

VARIABLES
    book,      \* the stored deals
    query,     \* the query of the walk
    page,      \* the next page to ask for
    stage,     \* "idle", "counted", "read", "hydrated" or "done"
    total,     \* what the first statement of the request counted
    inputs,    \* the simulated rows of the page, between the two fetches
    answer,    \* the rows of the page before they are enriched
    shown,     \* all rows the client was shown
    edits      \* edits since the walk began

listVars == <<book, query, page, stage, total, inputs, answer, shown, edits>>

\* What a deal, or the part of one that an edit writes, may hold: the fields the list
\* computes with.
Rates == {"same", "other"}
NumberOrNone(value) == value = None \/ value \in Int
MayHold(part) ==
    /\ \A f \in {"oop", "created"} \cap DOMAIN part : NumberOrNone(part[f])
    /\ "inputs" \in DOMAIN part => part.inputs \in BOOLEAN
    /\ "recalc" \in DOMAIN part => \A r \in Rates : NumberOrNone(part.recalc[r])
    /\ "thread" \in DOMAIN part => part.thread # "empty"
    /\ "market" \in DOMAIN part => part.market \in DOMAIN RealtorsOf \cup {None}

IsDeal(deal) ==
    {"oop", "created", "inputs", "recalc", "thread", "market"} \subseteq DOMAIN deal /\ MayHold(deal)

\* The override "same" recalculates the figure that is stored.
ASSUME ListAssumption ==
    /\ PageSize \in Nat \ {0}
    /\ MaxEdits \in Nat
    /\ None \notin BOOLEAN /\ None \notin Rates \cup DeletedUsers
    /\ \A b \in Books :
          /\ IsFiniteSet(DOMAIN b)
          /\ \A id \in DOMAIN b : id \in Nat /\ IsDeal(b[id])
          /\ \A id \in DOMAIN b : b[id].inputs => b[id].recalc["same"] = b[id].oop
    /\ \A q \in Queries : /\ q.sort \in {"id", "oop", "created"}
                          /\ q.descending \in BOOLEAN
                          /\ q.rate \in Rates \cup {None}
    /\ \A e \in Edits : MayHold(e)
    /\ \A m \in DOMAIN RealtorsOf : RealtorsOf[m] \in Seq(ToSet(RealtorsOf[m]))
----------------------------------------------------------------------------
AtLeast(value, low) == low # None => value # None /\ value >= low
AtMost(value, high) == high # None => value # None /\ value <= high
InRange(value, bounds) == AtLeast(value, bounds[1]) /\ AtMost(value, bounds[2])

\* date_range_conditions: both days whole, anchored to UTC.
InDays(instant, days) ==
    /\ days[1] # None => instant # None /\ instant >= DayTicks * days[1]
    /\ days[2] # None => instant # None /\ instant < DayTicks * (days[2] + 1)

\* IS TRUE, and IS NOT TRUE: "false" also finds NULL.
IsFlag_Strict(value, wanted) == wanted # None => value = wanted
IsFlag(value, wanted) == wanted # None => (value = TRUE) = wanted

\* A blank deal_pitch is none.
HasPitch(pitch, wanted) == wanted # None => (pitch \notin {None, "blank"}) = wanted

InvolvedIn(deal, wanted, threads) == wanted # None => (deal.thread \in threads) = wanted

AnyOf(value, wanted) == wanted # {} => value # None /\ value \in wanted
Overlaps(keys, wanted) == wanted # {} => keys # None /\ keys \cap wanted # {}

\* The EXISTS on the details of the listing; no zpid, no match.
YearBuilt(deal, bounds) ==
    bounds = <<None, None>> \/ (deal.zpid # None /\ InRange(deal.built, bounds))

Found(deal, term) == term # None => term \in deal.words \/ term = deal.sheet

\* The conditions the simulated fetch puts in SQL: nothing an override can move.
Stored(deal, q) ==
    /\ AnyOf(deal.status, q.statuses)
    /\ AnyOf(deal.tag, q.tags)
    /\ Overlaps(deal.keys, q.keys)
    /\ IsFlag(deal.flag, q.flag)
    /\ IsFlag(deal.pending, q.pending)
    /\ HasPitch(deal.pitch, q.pitch)
    /\ InvolvedIn(deal, q.involved, q.threads)
    /\ YearBuilt(deal, q.built)
    /\ InDays(deal.created, q.days)
    /\ Found(deal, q.term)

\* All conditions of the plain list.
Matches(deal, q) == Stored(deal, q) /\ InRange(deal.oop, q.oop)
MatchingDeals(b, q) == {id \in DOMAIN b : Matches(b[id], q)}

SortValue(id, row, q) == IF q.sort = "id" THEN id ELSE row[q.sort]

\* ORDER BY column NULLS LAST (in both directions), id DESC
Precedes_NullsByDirection(a, b, rows, q) ==
    LET va == SortValue(a, rows[a], q)
        vb == SortValue(b, rows[b], q)
    IN  IF va = vb THEN a > b
        ELSE IF None \in {va, vb} THEN (va = None) = q.descending
        ELSE IF q.descending THEN va > vb ELSE va < vb

Precedes(a, b, rows, q) ==
    LET va == SortValue(a, rows[a], q)
        vb == SortValue(b, rows[b], q)
    IN  IF va = vb THEN a > b
        ELSE IF None \in {va, vb} THEN vb = None
        ELSE IF q.descending THEN va > vb ELSE va < vb

\* The members of a finite set, each after those that "before" puts before it.
Sorted(set, before) ==
    [k \in 1 .. Cardinality(set) |->
        CHOOSE x \in set : Cardinality({y \in set : <<y, x>> \in before}) = k - 1]

Ordered(ids, rows, q) ==
    Sorted(ids, {p \in ids \X ids : Precedes(p[1], p[2], rows, q)})

\* The rows of the first n pages of a list of a length; and the rows of page n.
Upto(n, length) == IF n * PageSize > length THEN length ELSE n * PageSize
Slice(list, n) ==
    [i \in 1 .. (Upto(n, Len(list)) - Upto(n - 1, Len(list))) |->
        list[Upto(n - 1, Len(list)) + i]]
Pages(n) == (n + PageSize - 1) \div PageSize
----------------------------------------------------------------------------
\* SimulateUnderwritingsService._simulate_row: recalculated, or flagged with the
\* stored values.
Recalculate(id, deal, q) ==
    [id |-> id, simulated |-> deal.inputs, created |-> deal.created,
     oop |-> IF deal.inputs THEN deal.recalc[q.rate] ELSE deal.oop]

\* A stable sort by pairs of positions; reversed, equal rows still keep their order.
Stably(positions, before) ==
    {p \in positions \X positions :
        p \in before \/ (<<p[2], p[1]>> \notin before /\ p[1] < p[2])}
StableSort(rows, before) ==
    LET order == Sorted(DOMAIN rows, Stably(DOMAIN rows, before))
    IN  [k \in DOMAIN rows |-> rows[order[k]]]

\* The key of _sort: the rank of NULL turns with the direction.
SortKey_NullsFirst(row, q) ==
    LET value == SortValue(row.id, row, q)
    IN  IF value = None THEN <<1, 0>> ELSE <<0, value>>
SortKey(row, q) ==
    LET value == SortValue(row.id, row, q)
    IN  IF value = None THEN <<IF q.descending THEN 0 ELSE 1, 0>>
                        ELSE <<IF q.descending THEN 1 ELSE 0, value>>

KeyBelow(k, l) == k[1] < l[1] \/ (k[1] = l[1] /\ k[2] < l[2])

KeyFirst(r, s, q) ==
    IF q.descending THEN KeyBelow(SortKey(s, q), SortKey(r, q))
                    ELSE KeyBelow(SortKey(r, q), SortKey(s, q))

Positions(rows) == (DOMAIN rows) \X (DOMAIN rows)
NewestFirst(rows) ==
    StableSort(rows, {p \in Positions(rows) : rows[p[1]].id > rows[p[2]].id})
ByKey(rows, q) ==
    StableSort(rows, {p \in Positions(rows) : KeyFirst(rows[p[1]], rows[p[2]], q)})
SortRows(rows, q) == ByKey(NewestFirst(rows), q)

SimulationInputs(b, q) ==
    {id \in DOMAIN b : b[id].status \notin Excluded /\ Stored(b[id], q)}

CandidateIds(b, q) ==
    {id \in SimulationInputs(b, q) : InRange(Recalculate(id, b[id], q).oop, q.oop)}

\* The fetch has no order of its own.
Candidates(b, q) ==
    LET ids == SetToSeq(CandidateIds(b, q))
    IN  SortRows([k \in DOMAIN ids |-> Recalculate(ids[k], b[ids[k]], q)], q)

\* _overlay_simulated finds the row of a result by id.
RowOf_ByPosition(rows, id) ==
    rows[Cardinality({k \in DOMAIN rows : rows[k].id <= id})]
RowOf(rows, id) == rows[CHOOSE k \in DOMAIN rows : rows[k].id = id]

----------------------------------------------------------------------------
ListInit ==
    /\ book \in Books
    /\ query \in Queries
    /\ page = 1 /\ stage = "idle" /\ total = 0 /\ edits = 0
    /\ inputs = <<>> /\ answer = <<>> /\ shown = <<>>

\* get_all_paginated counts with one statement and reads the page with the next.
CountDeals ==
    /\ stage = "idle" /\ query.rate = None
    /\ stage' = "counted"
    /\ total' = Cardinality(MatchingDeals(book, query))
    /\ UNCHANGED <<book, query, page, inputs, answer, shown, edits>>

ToResult(id, figure, simulated) ==
    [id |-> id, oop |-> figure, simulated |-> simulated, deal |-> book[id],
     zillow |-> book[id].zillow, analyst |-> None, realtors |-> None,
     discussion |-> None]

ReadPage ==
    /\ stage = "counted"
    /\ stage' = "hydrated"
    /\ LET rows == Slice(Ordered(MatchingDeals(book, query), book, query), page)
       IN  answer' = [i \in DOMAIN rows |-> ToResult(rows[i], book[rows[i]].oop, None)]
    /\ UNCHANGED <<book, query, page, total, inputs, shown, edits>>

\* The lean fetch, the recalculation of every row, bounds, sort and slice.
SimulatePage ==
    /\ stage = "idle" /\ query.rate # None
    /\ stage' = "read"
    /\ total' = Len(Candidates(book, query))
    /\ inputs' = Slice(Candidates(book, query), page)
    /\ UNCHANGED <<book, query, page, answer, shown, edits>>

\* The page is read again by id and put back in the computed order.
HydratePage ==
    /\ stage = "read"
    /\ stage' = "hydrated"
    /\ answer' = [i \in DOMAIN inputs |->
                     LET id == inputs[i].id
                         row == RowOf(inputs, id)
                     IN  ToResult(id, IF row.simulated THEN row.oop ELSE book[id].oop,
                                  row.simulated)]
    /\ UNCHANGED <<book, query, page, total, inputs, shown, edits>>

\* The batched reads of the page, put on its rows by key: what is missing or deleted
\* drops out.  _hydrate_automated_zillow reads listings,
WithZillow(row) ==
    [row EXCEPT !.zillow =
        IF row.deal.automated /\ row.deal.zpid \notin MissingListings \cup {None}
        THEN row.deal.zpid ELSE @]

\* _populate_user_refs users,
WithUsers(row) ==
    [row EXCEPT !.analyst = IF row.deal.analyst \in DeletedUsers THEN None ELSE row.deal.analyst]

\* _populate_realtor_details markets and then realtors, in the order of the market,
Remaining(list) ==
    LET kept == {i \in DOMAIN list : list[i] \notin DeletedRealtors}
        order == Sorted(kept, {p \in kept \X kept : p[1] < p[2]})
    IN  [k \in DOMAIN order |-> list[order[k]]]
WithRealtors(row) ==
    [row EXCEPT !.realtors = IF row.deal.market = None THEN None
                             ELSE Remaining(RealtorsOf[row.deal.market])]

\* and _populate_discussions threads and then their counters.
WithDiscussion(row) ==
    [row EXCEPT !.discussion = IF row.deal.thread = None THEN "empty" ELSE row.deal.thread]

\* get_edit_context of the same deal: a listing live, anything else as stored.
FormZillow(row) ==
    LET live == IF row.deal.zpid \in MissingListings \cup {None} THEN None ELSE row.deal.zpid
        property == IF row.deal.automated THEN live ELSE row.deal.zillow
    IN  IF property = None THEN row.deal.zillow ELSE property

Enriched(row) == WithDiscussion(WithRealtors(WithUsers(WithZillow(row))))

AnswerPage ==
    /\ stage = "hydrated"
    /\ shown' = shown \o [i \in DOMAIN answer |-> Enriched(answer[i])]
    /\ answer' = <<>> /\ inputs' = <<>>
    /\ page' = page + 1
    /\ stage' = IF page >= Pages(total) THEN "done" ELSE "idle"
    /\ UNCHANGED <<book, query, total, edits>>

\* An update writes the fields it is sent.
Overwritten(deal, e) ==
    [f \in DOMAIN e \cup DOMAIN deal |-> IF f \in DOMAIN e THEN e[f] ELSE deal[f]]

EditDeal ==
    /\ edits < MaxEdits /\ stage # "done"
    /\ \E id \in DOMAIN book, e \in Edits : book' = [book EXCEPT ![id] = Overwritten(@, e)]
    /\ edits' = edits + 1
    /\ UNCHANGED <<query, page, stage, total, inputs, answer, shown>>

ListNext == CountDeals \/ ReadPage \/ SimulatePage \/ HydratePage \/ AnswerPage \/ EditDeal

ListSpec == ListInit /\ [][ListNext]_listVars
----------------------------------------------------------------------------
ShownIds == [i \in DOMAIN shown |-> shown[i].id]
PlainIds == MatchingDeals(book, query)
Alive == {id \in DOMAIN book : book[id].status \notin Excluded}

\* A client that walks every page while nothing is edited is shown each deal that
\* passes the filters once and no other, in the order of the sort, NULLs last in both
\* directions, the newest first among equals: get_all_paginated's tiebreaker keeps the
\* offsets of successive requests consistent.
WalkShowsEachDealOnce ==
    stage = "done" /\ edits = 0 /\ query.rate = None =>
        /\ IsInjective(ShownIds)
        /\ ToSet(ShownIds) = PlainIds
        /\ \A i, j \in DOMAIN shown : i < j =>
              LET vi == SortValue(shown[i].id, shown[i].deal, query)
                  vj == SortValue(shown[j].id, shown[j].deal, query)
              IN  \/ vj = None /\ (vi = None => shown[i].id > shown[j].id)
                  \/ /\ None \notin {vi, vj}
                     /\ IF vi = vj THEN shown[i].id > shown[j].id
                                    ELSE (vi > vj) = query.descending

\* An override that changes no figure shows the rows of the plain list in its order,
\* without the deals tagged for deletion: the Python filters and the two-pass sort
\* agree with the SQL ones.
SimulationKeepsTheOrder ==
    stage = "done" /\ edits = 0 /\ query.rate = "same" =>
        ShownIds = Ordered(PlainIds \cap Alive, book, query)

\* The two values of a yes/no filter split the deals: rows that predate a flag hold
\* NULL, and none of them is lost from both lists.
FiltersSplitTheBook ==
    \A id \in DOMAIN book : LET deal == book[id] IN
        /\ IsFlag(deal.pending, TRUE) # IsFlag(deal.pending, FALSE)
        /\ IsFlag(deal.flag, TRUE) # IsFlag(deal.flag, FALSE)
        /\ HasPitch(deal.pitch, TRUE) # HasPitch(deal.pitch, FALSE)
        /\ InvolvedIn(deal, TRUE, query.threads) # InvolvedIn(deal, FALSE, query.threads)

\* A deal edited between the two fetches of a simulated page, deleted users, realtors
\* and listings: the figure on every row is the one computed for the deal with its id,
\* the listing is the one its edit form shows, and nobody else's analyst or realtor is
\* put on it.
RowsAreTheirOwn ==
    /\ stage = "hydrated" => \A i \in DOMAIN inputs : \A k \in DOMAIN answer :
          answer[k].id = inputs[i].id /\ inputs[i].simulated => answer[k].oop = inputs[i].oop
    /\ \A i \in DOMAIN shown : LET row == shown[i] IN
          /\ row.zillow = FormZillow(row)
          /\ row.discussion = "empty" <=> row.deal.thread = None
          /\ row.analyst \in {row.deal.analyst, None} \ DeletedUsers
          /\ row.deal.market # None =>
                \A r \in ToSet(RealtorsOf[row.deal.market]) :
                    (r \in ToSet(row.realtors)) = (r \notin DeletedRealtors)

\* The pages of a list, its filters, its simulation and its joined rows tell of the same
\* deals, each of them once. (get_underwritings, simulate_underwritings)
ListSafety ==
    /\ WalkShowsEachDealOnce
    /\ SimulationKeepsTheOrder
    /\ FiltersSplitTheBook
    /\ RowsAreTheirOwn
=============================================================================
