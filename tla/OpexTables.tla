------------------------------ MODULE OpexTables ------------------------------
(***************************************************************************)
(* A market's operating expenses by bedrooms and by size: the requests     *)
(* that edit their rows, the seeding of an exploratory market from its     *)
(* lookalike (one request, or the script that walks a CSV of pairs), and   *)
(* the script that updates the rows from a master CSV.  Each reads in one  *)
(* statement and writes in a later one; only the unique index on a table's *)
(* live (market, key) pairs stands between them.                           *)
(***************************************************************************)
EXTENDS Nulls, FiniteSetsExt, SequencesExt, Integers
CONSTANTS
    OpexAsks,        \* request -> [op, ...]
    OpexCrowds,      \* which of them are open together
    OpexRowsBefore,  \* the rows before, a sequence
    MarketsBefore,   \* the markets before, a sequence of [slug, name, status, live]
    PercentCells     \* the columns a CSV writes as percentages

OpexTableNames == {"bedrooms", "size"}
OpexFields == {"table", "market", "key", "cells", "live", "from", "open"}
MarketFields == {"slug", "name", "status", "live"}
Errand(r) == OpexAsks[r]

\* Requests have names and rows numbers; the tables are lists of rows nobody is seeding, no two live ones
\* under one market and key, and no two live markets under one slug.
ASSUME OpexAssumption ==
    /\ None \notin DOMAIN OpexAsks /\ None \notin Nat
    /\ OpexRowsBefore \in Seq(ToSet(OpexRowsBefore))
    /\ \A a \in DOMAIN OpexRowsBefore :
          /\ DOMAIN OpexRowsBefore[a] = OpexFields
          /\ OpexRowsBefore[a].live \in BOOLEAN /\ OpexRowsBefore[a].table \in OpexTableNames
          /\ OpexRowsBefore[a].from = None /\ OpexRowsBefore[a].open = None
    /\ \A a, b \in DOMAIN OpexRowsBefore :
          LET x == OpexRowsBefore[a]
              y == OpexRowsBefore[b]
          IN  /\ x.live /\ y.live /\ x.table = y.table /\ x.market = y.market /\ x.key = y.key
              /\ None \notin {x.market, x.key}
              => a = b
    /\ MarketsBefore \in Seq(ToSet(MarketsBefore))
    /\ \A m \in DOMAIN MarketsBefore :
          DOMAIN MarketsBefore[m] = MarketFields /\ MarketsBefore[m].live \in BOOLEAN
    /\ \A m, n \in DOMAIN MarketsBefore :
          MarketsBefore[m].live /\ MarketsBefore[n].live
             /\ MarketsBefore[m].slug = MarketsBefore[n].slug => m = n
    /\ \A r \in DOMAIN OpexAsks :
          /\ Errand(r).op = "create" => Errand(r).table \in OpexTableNames
          /\ Errand(r).op = "market" => Errand(r).live \in BOOLEAN

VARIABLES
    opexRow,     \* the rows by id: [table, market, key, cells, live, from, open]; from: the
                 \* seed and target it was copied in; open: whose transaction
    marketRow,   \* markets.market_keys_master
    errand,      \* each request: [at, market, left, copy, seen, skipped, reply]
    crossed,     \* history: the seeds whose target another request wrote after they began
    spoiled      \* history: the seeds that added rows to a market not exploratory and empty

opexVars == <<opexRow, marketRow, errand, crossed, spoiled>>
----------------------------------------------------------------------------
Used == DOMAIN opexRow
Seen(r) == {id \in Used : opexRow[id].live /\ opexRow[id].open \in {None, r}}

\* get_all_by_market.
RowsOfMarket(r, t, m) == {id \in Seen(r) : opexRow[id].table = t /\ opexRow[id].market = m}

\* The rows a row cannot stand beside: uq_opex_by_bedrooms_market_bedrooms_active and its
\* like, where a NULL never clashes.
Twins(row) == {id \in Used : /\ opexRow[id].live /\ opexRow[id].table = row.table
                              /\ opexRow[id].market = row.market /\ opexRow[id].key = row.key
                              /\ None \notin {row.market, row.key}}
MustWait(r, rows) == \E i \in DOMAIN rows : \E id \in Twins(rows[i]) : opexRow[id].open \notin {None, r}
Rejected_OwnRows(r, rows) == \E i \in DOMAIN rows : \E id \in Twins(rows[i]) : opexRow[id].open = r
Rejected(r, rows) == \E i \in DOMAIN rows : \E id \in Twins(rows[i]) : opexRow[id].open \in {None, r}

LiveMarket(m) == m \in DOMAIN marketRow /\ marketRow[m].live
\* get_by_market_slug.
MarketBySlug(slug) == {m \in DOMAIN marketRow : LiveMarket(m) /\ marketRow[m].slug = slug}

\* What one statement inserts, each row under the next id; an id that was rolled back is
\* spent, and its row never seen again.
Inserted(rows) ==
    LET order == SetToSeq(DOMAIN rows)
    IN  opexRow \o [i \in DOMAIN order |-> rows[order[i]]]
Forgotten(r, table) ==
    [id \in DOMAIN table |-> IF table[id].open = r
                             THEN [table[id] EXCEPT !.live = FALSE, !.from = None, !.open = None]
                             ELSE table[id]]
Settled(r, table) == [id \in DOMAIN table |-> IF table[id].open = r
                                              THEN [table[id] EXCEPT !.open = None] ELSE table[id]]

Starts(r, ops) == errand[r].at = "start" /\ Errand(r).op \in ops
GoTo(r, where) == errand' = [errand EXCEPT ![r].at = where]
EndErrand(r, code) == errand' = [errand EXCEPT ![r].at = "done", ![r].reply = code]
Pair(r) == Head(errand[r].left)
Seeding(r) == errand[r].at \in {"look", "read", "bedrooms", "size"}
Crossing(r, m) ==
    crossed' = crossed \cup {s \in DOMAIN OpexAsks \ {r} : Seeding(s) /\ Pair(s).target = m}

OpexInit ==
    /\ opexRow = OpexRowsBefore
    /\ marketRow = MarketsBefore
    /\ \E crowd \in OpexCrowds : errand =
         [r \in DOMAIN OpexAsks |->
            [at |-> IF r \in crowd THEN "start" ELSE "absent", market |-> None,
             copy |-> None, seen |-> None,
             left |-> IF Errand(r).op \in {"seed", "batch"} THEN Errand(r).pairs ELSE <<>>,
             skipped |-> FALSE, reply |-> None]]
    /\ crossed = {} /\ spoiled = {}
----------------------------------------------------------------------------
\* The refusals of seed_from_lookalike before it looks at a row.
Open(m) == LiveMarket(m) /\ marketRow[m].status = "exploratory"
Refusal(p) ==
    IF p.target = p.source THEN 400
    ELSE IF ~LiveMarket(p.target) THEN 404
    ELSE IF ~Open(p.target) THEN 409
    ELSE IF ~LiveMarket(p.source) THEN 404 ELSE 0
Occupied_Bedrooms(r, m) == RowsOfMarket(r, "bedrooms", m)
Occupied(r, m) == UNION {RowsOfMarket(r, t, m) : t \in OpexTableNames}
BothTables(r, m) == \A t \in OpexTableNames : RowsOfMarket(r, t, m) # {}

\* A request answers its refusal; the script notes it and goes to its next pair.
AfterPair(r, code) ==
    [errand[r] EXCEPT
       !.left = Tail(@), !.copy = None, !.skipped = @ \/ code # 201,
       !.at = IF Len(errand[r].left) = 1 THEN "done" ELSE "check",
       !.reply = IF Errand(r).op = "seed" THEN code
                 ELSE IF Len(errand[r].left) > 1 THEN None
                 ELSE IF errand[r].skipped \/ code # 201 THEN 1 ELSE 0]
NextPair(r, code) == errand' = [errand EXCEPT ![r] = AfterPair(r, code)]

\* build_plan: every pair that would be seeded now; a slug that disagrees stops the run.
Eligible(r) == SelectSeq(Errand(r).pairs, LAMBDA p : /\ Refusal(p) = 0 /\ Occupied(r, p.target) = {}
                                                     /\ BothTables(r, p.source))
PlanSeeds(r) ==
    /\ Starts(r, {"batch"})
    /\ LET stale == {i \in DOMAIN Errand(r).pairs :
                        LET p == Errand(r).pairs[i]
                        IN  LiveMarket(p.target) /\ marketRow[p.target].slug # p.slug}
       IN  IF stale # {} THEN EndErrand(r, 2)
           ELSE IF Eligible(r) = <<>> THEN EndErrand(r, IF Errand(r).pairs = <<>> THEN 0 ELSE 1)
           ELSE errand' = [errand EXCEPT ![r].at = "check", ![r].left = Eligible(r),
                              ![r].skipped = Len(Eligible(r)) < Len(Errand(r).pairs)]
    /\ UNCHANGED <<opexRow, marketRow, crossed, spoiled>>

CheckSeed(r) ==
    /\ errand[r].at = "check" \/ Starts(r, {"seed"})
    /\ IF Refusal(Pair(r)) # 0 THEN NextPair(r, Refusal(Pair(r)))
       ELSE GoTo(r, "look")
    /\ crossed' = crossed \ {r} /\ spoiled' = spoiled \ {r}
    /\ UNCHANGED <<opexRow, marketRow>>

LookForRows(r) ==
    /\ errand[r].at = "look"
    /\ IF Occupied(r, Pair(r).target) # {} THEN NextPair(r, 409) ELSE GoTo(r, "read")
    /\ UNCHANGED <<opexRow, marketRow, crossed, spoiled>>

\* _clone_rows: every column but the id, under the target's market.
Cloned(ids, r) ==
    [id \in ids |-> [opexRow[id] EXCEPT !.market = Pair(r).target,
                        !.from = <<r, Pair(r).target>>, !.open = r]]
ReadLookalike(r) ==
    /\ errand[r].at = "read"
    /\ IF ~BothTables(r, Pair(r).source) THEN NextPair(r, 400)
       ELSE errand' = [errand EXCEPT ![r].at = "bedrooms",
                ![r].copy = [t \in OpexTableNames |-> Cloned(RowsOfMarket(r, t, Pair(r).source), r)]]
    /\ UNCHANGED <<opexRow, marketRow, crossed, spoiled>>

Fails(r) == opexRow' = Forgotten(r, opexRow) /\ NextPair(r, 500)

\* insert_all flushes; the commit is the service's.
LeftOpen_Commits(r, table) == Settled(r, table)
LeftOpen(r, table) == table
SeedBedrooms(r) ==
    LET rows == errand[r].copy["bedrooms"]
    IN  /\ errand[r].at = "bedrooms" /\ ~MustWait(r, rows)
        /\ IF Rejected(r, rows) THEN Fails(r)
           ELSE opexRow' = LeftOpen(r, Inserted(rows)) /\ GoTo(r, "size")
        /\ UNCHANGED <<marketRow, crossed, spoiled>>

SeedSizes(r) ==
    LET rows == errand[r].copy["size"]
        m == Pair(r).target
        others == {id \in Used : /\ opexRow[id].live /\ opexRow[id].open = None
                                 /\ opexRow[id].market = m}
    IN  /\ errand[r].at = "size" /\ ~MustWait(r, rows)
        /\ IF Rejected(r, rows) THEN Fails(r) /\ UNCHANGED <<crossed, spoiled>>
           ELSE /\ opexRow' = Settled(r, Inserted(rows)) /\ NextPair(r, 201) /\ Crossing(r, m)
                /\ spoiled' = IF others # {} \/ ~Open(m)
                              THEN spoiled \cup {r} ELSE spoiled
        /\ UNCHANGED marketRow
----------------------------------------------------------------------------
\* _resolve_market_id: a slug names a live market, an id is taken as it is.
ResolveSlug(r) ==
    /\ Starts(r, {"create", "find", "patch"})
    /\ LET found == IF Errand(r).slug = None THEN {Errand(r).market} ELSE MarketBySlug(Errand(r).slug)
       IN  IF found = {} THEN EndErrand(r, 404)
           ELSE \E m \in found : errand' = [errand EXCEPT ![r].at = "row", ![r].market = m]
    /\ UNCHANGED <<opexRow, marketRow, crossed, spoiled>>

\* The foreign key asks for a market that is there, deleted or not.
NoSuchMarket(m) == m # None /\ m \notin DOMAIN marketRow
CreateRow(r) ==
    /\ errand[r].at = "row" /\ Errand(r).op = "create"
    /\ LET row == [table |-> Errand(r).table, market |-> errand[r].market, key |-> Errand(r).key,
                   cells |-> Errand(r).cells, live |-> TRUE, from |-> None, open |-> None]
       IN  /\ ~MustWait(r, <<row>>)
           /\ IF Rejected(r, <<row>>) \/ NoSuchMarket(row.market)
              THEN EndErrand(r, 500) /\ UNCHANGED <<opexRow, crossed>>
              ELSE opexRow' = Inserted(<<row>>) /\ EndErrand(r, 201) /\ Crossing(r, row.market)
    /\ UNCHANGED <<marketRow, spoiled>>

\* A request loads the row, sets what it carries and flushes what is no longer as loaded.
LoadRow(r) ==
    /\ errand[r].at = "row" /\ Errand(r).op = "patch"
    /\ IF Errand(r).on \notin Seen(r) THEN EndErrand(r, 404)
       ELSE errand' = [errand EXCEPT ![r].at = "patch", ![r].copy = opexRow[Errand(r).on]]
    /\ UNCHANGED <<opexRow, marketRow, crossed, spoiled>>
SetTo(value, loaded, now) == IF value = loaded THEN now ELSE value
WithChanges(r, row) ==
    LET loaded == errand[r].copy
        ask == Errand(r)
    IN  [row EXCEPT
           !.market = IF errand[r].market = None THEN @ ELSE SetTo(errand[r].market, loaded.market, @),
           !.key = IF ask.key = <<>> THEN @ ELSE SetTo(ask.key[1], loaded.key, @),
           !.cells = [c \in DOMAIN @ |-> IF c \in DOMAIN ask.cells
                                         THEN SetTo(ask.cells[c], loaded.cells[c], @[c]) ELSE @[c]]]
PatchRow(r) ==
    /\ errand[r].at = "patch"
    /\ LET id == Errand(r).on
           row == WithChanges(r, opexRow[id])
           clash == IF row.live THEN Twins(row) \ {id} ELSE {}
       IN  /\ \A twin \in clash : opexRow[twin].open \in {None, r}
           /\ IF clash # {} \/ NoSuchMarket(row.market)
              THEN EndErrand(r, 500) /\ UNCHANGED <<opexRow, crossed>>
              ELSE /\ opexRow' = [opexRow EXCEPT ![id] = row]
                   /\ EndErrand(r, 200)
                   /\ IF row.live /\ row.market # opexRow[id].market
                      THEN Crossing(r, row.market) ELSE UNCHANGED crossed
    /\ UNCHANGED <<marketRow, spoiled>>
DeleteRow(r) ==
    /\ Starts(r, {"delete"})
    /\ IF Errand(r).on \notin Seen(r) THEN EndErrand(r, 404) /\ UNCHANGED opexRow
       ELSE opexRow' = [opexRow EXCEPT ![Errand(r).on].live = FALSE] /\ EndErrand(r, 200)
    /\ UNCHANGED <<marketRow, crossed, spoiled>>

\* get_by_market_and_bedrooms, get_by_market_and_sqft.
FindRow(r) ==
    /\ errand[r].at = "row" /\ Errand(r).op = "find"
    /\ LET found == {id \in RowsOfMarket(r, Errand(r).table, errand[r].market) :
                        errand[r].market # None /\ opexRow[id].key = Errand(r).key}
       IN  IF found = {} THEN EndErrand(r, 404)
           ELSE errand' = [errand EXCEPT ![r].at = "done", ![r].reply = 200,
                              ![r].copy = CHOOSE id \in found : TRUE]
    /\ UNCHANGED <<opexRow, marketRow, crossed, spoiled>>

\* MarketService.create, update and delete, as far as these tables see them.
AddMarket(r) ==
    /\ Starts(r, {"new market"})
    /\ LET row == [slug |-> Errand(r).slug, name |-> Errand(r).name, status |-> Errand(r).status,
                   live |-> TRUE]
       IN  IF MarketBySlug(row.slug) # {} THEN EndErrand(r, 500) /\ UNCHANGED marketRow
           ELSE marketRow' = Append(marketRow, row) /\ EndErrand(r, 201)
    /\ UNCHANGED <<opexRow, crossed, spoiled>>
WriteMarket(r) ==
    /\ Starts(r, {"market"})
    /\ LET m == Errand(r).on
       IN  IF ~LiveMarket(m) THEN EndErrand(r, 404) /\ UNCHANGED <<marketRow, crossed>>
           ELSE /\ marketRow' = [marketRow EXCEPT ![m].status = Errand(r).status,
                                                  ![m].live = Errand(r).live]
                /\ EndErrand(r, 200) /\ Crossing(r, m)
    /\ UNCHANGED <<opexRow, spoiled>>
----------------------------------------------------------------------------
\* parse_cell, amounts in hundredths: <<>> leaves the column, <<None>> clears it.
BadCell == <<None, None>>
ParseCell(cell, column) ==
    CASE cell = <<"blank">> -> <<>>
      [] cell = <<"null">> -> <<None>>
      [] OTHER -> IF (cell[1] = "percent") # (column \in PercentCells) THEN BadCell
                  ELSE <<IF cell[1] = "percent" THEN cell[2] ELSE 100 * cell[2]>>
Values(l) == [c \in DOMAIN l.cells |-> ParseCell(l.cells[c], c)]

\* diff_row: what differs from the row as it was read.
DiffRow_All(row, values) == {c \in DOMAIN values : values[c] # <<>>}
DiffRow(row, values) == {c \in DOMAIN values : values[c] # <<>> /\ values[c] # <<row.cells[c]>>}

\* load_csv checks the whole file before the database is read; a line names its market by
\* name, whichever bears it, and an id beside the name is only compared.
ReadMarkets(r) ==
    /\ Starts(r, {"csv"})
    /\ LET lines == Errand(r).lines
           Named(name) == {m \in DOMAIN marketRow : LiveMarket(m) /\ marketRow[m].name = name}
       IN  IF \E l \in lines : \E c \in DOMAIN l.cells : Values(l)[c] = BadCell THEN EndErrand(r, 2)
           ELSE \E id \in [{l.market : l \in lines} -> DOMAIN marketRow \cup {None}] :
             /\ \A name \in DOMAIN id :
                   IF Named(name) = {} THEN id[name] = None ELSE id[name] \in Named(name)
             /\ IF \E l \in lines : None \notin {l.id, id[l.market]} /\ l.id # id[l.market]
                THEN EndErrand(r, 2)
                ELSE errand' = [errand EXCEPT ![r].at = "lines", ![r].market = id]
    /\ UNCHANGED <<opexRow, marketRow, crossed, spoiled>>
ReadCsv(r) ==
    /\ errand[r].at = "lines"
    /\ LET lines == Errand(r).lines
           RowsNamed(l) == {id \in Seen(r) : /\ opexRow[id].table = Errand(r).table
                                            /\ opexRow[id].key = l.key
                                            /\ errand[r].market[l.market] # None
                                            /\ opexRow[id].market = errand[r].market[l.market]}
       IN  errand' = [errand EXCEPT ![r].at = "write",
                         ![r].skipped = \E l \in lines : RowsNamed(l) = {},
                         ![r].seen = opexRow,
                         ![r].copy = UNION {{[on |-> x[2], cell |-> c, value |-> Values(x[1])[c][1]] :
                                                c \in DiffRow(opexRow[x[2]], Values(x[1]))} :
                                        x \in {x \in lines \X Used : x[2] \in RowsNamed(x[1])}}]
    /\ UNCHANGED <<opexRow, marketRow, crossed, spoiled>>
CsvEdits(r, id, c) == {e \in errand[r].copy : e.on = id /\ e.cell = c}
WriteCsv(r) ==
    /\ errand[r].at = "write"
    /\ opexRow' = [id \in Used |-> [opexRow[id] EXCEPT !.cells =
          [c \in DOMAIN @ |-> IF CsvEdits(r, id, c) = {} THEN @[c]
                              ELSE (CHOOSE e \in CsvEdits(r, id, c) : TRUE).value]]]
    /\ EndErrand(r, IF errand[r].skipped THEN 1 ELSE 0)
    /\ UNCHANGED <<marketRow, crossed, spoiled>>

OpexNext ==
    \E r \in DOMAIN OpexAsks :
        \/ PlanSeeds(r) \/ CheckSeed(r) \/ LookForRows(r) \/ ReadLookalike(r)
        \/ SeedBedrooms(r) \/ SeedSizes(r)
        \/ ResolveSlug(r) \/ CreateRow(r) \/ LoadRow(r) \/ PatchRow(r) \/ DeleteRow(r) \/ FindRow(r)
        \/ AddMarket(r) \/ WriteMarket(r) \/ ReadMarkets(r) \/ ReadCsv(r) \/ WriteCsv(r)

OpexSpec == OpexInit /\ [][OpexNext]_opexVars
----------------------------------------------------------------------------
\* "Both or neither": outside its own transaction a seed is seen in both tables or in
\* none, whatever fails in between, until an analyst deletes or moves rows.
SeedsAreWhole ==
    \A id \in Used : opexRow[id].from # None /\ opexRow[id].open = None =>
        \E other \in Used : /\ opexRow[other].table # opexRow[id].table
                           /\ opexRow[other].from = opexRow[id].from
                           /\ opexRow[other].open = None

\* A seed adds rows to a market that holds others, or is no longer exploratory, only when a
\* write to that market fell between its checks and its commit.
OnlyRacesSpoilSeeds == spoiled \subseteq crossed

\* A lookup finds at most one row, and a slug at most one market, whatever seeds, requests
\* and re-created markets came before: scalar_one_or_none never raises.
LookupsAreUnambiguous ==
    /\ \A m \in DOMAIN marketRow : LiveMarket(m) => MarketBySlug(marketRow[m].slug) = {m}
    /\ \A a \in Used : opexRow[a].live =>
          \A b \in Twins(opexRow[a]) \ {a} : \A r \in DOMAIN OpexAsks : ~({a, b} \subseteq Seen(r))

\* The update from a CSV leaves alone a cell that already held the CSV's value, or that the
\* CSV leaves blank: what a request writes there meanwhile survives.
KeepsLaterEdits(r) ==
    \A id \in Used : \A c \in DOMAIN opexRow[id].cells :
        opexRow'[id].cells[c] # opexRow[id].cells[c] =>
            errand[r].seen[id].cells[c] # opexRow'[id].cells[c]
CsvKeepsLaterEdits ==
    [][\A r \in DOMAIN OpexAsks :
         errand[r].at = "write" /\ errand'[r].at = "done" => KeepsLaterEdits(r)]_opexVars

OpexTyped ==
    /\ opexRow \in Seq(ToSet(opexRow))
    /\ \A id \in Used : DOMAIN opexRow[id] = OpexFields /\ opexRow[id].table \in OpexTableNames
    /\ marketRow \in Seq(ToSet(marketRow))
    /\ \A m \in DOMAIN marketRow : DOMAIN marketRow[m] = MarketFields
    /\ DOMAIN errand = DOMAIN OpexAsks
    /\ \A r \in DOMAIN OpexAsks :
          DOMAIN errand[r] = {"at", "market", "left", "copy", "seen", "skipped", "reply"}

\* The index, over committed and open rows alike.
RowsAreUnique == \A a, b \in Used : opexRow[a].live /\ b \in Twins(opexRow[a]) => a = b
SlugsAreUnique ==
    \A m, n \in DOMAIN marketRow :
        LiveMarket(m) /\ LiveMarket(n) /\ marketRow[m].slug = marketRow[n].slug => m = n

\* A row of a transaction is a bedrooms row of a seed about to write its sizes.
OpenRowsAreSeeds ==
    \A id \in Used : opexRow[id].open # None =>
        LET r == opexRow[id].open
        IN  /\ r \in DOMAIN OpexAsks /\ errand[r].at = "size"
            /\ opexRow[id].live /\ opexRow[id].table = "bedrooms"
            /\ opexRow[id].market = Pair(r).target /\ opexRow[id].from = <<r, Pair(r).target>>

\* What a seed carries: rows of both tables that can stand beside each other.
CloneKept(r, t) ==
    LET rows == errand[r].copy[t]
    IN  /\ IsFiniteSet(DOMAIN rows) /\ DOMAIN rows # {}
        /\ \A i \in DOMAIN rows :
              /\ DOMAIN rows[i] = OpexFields /\ rows[i].table = t /\ rows[i].live
              /\ rows[i].market = Pair(r).target /\ rows[i].from = <<r, Pair(r).target>>
              /\ rows[i].open = r
        /\ \A i, j \in DOMAIN rows : rows[i].key = rows[j].key /\ rows[i].key # None => i = j

\* No committed row is live under the seed's target.
NoneInTheWay(r) ==
    \A id \in Used : opexRow[id].live /\ opexRow[id].open = None => opexRow[id].market # Pair(r).target

ErrandKept(r) ==
    /\ errand[r].at = "size" => \E id \in Used : opexRow[id].open = r
    /\ errand[r].at \in {"bedrooms", "size"} => \A t \in OpexTableNames : CloneKept(r, t)
    /\ Seeding(r) => Pair(r).source # None
    /\ Seeding(r) /\ r \notin crossed => Open(Pair(r).target)
    /\ errand[r].at \in {"read", "bedrooms", "size"} /\ r \notin crossed => NoneInTheWay(r)
    /\ errand[r].at = "patch" => Errand(r).on \in Used /\ opexRow[Errand(r).on].open = None
    /\ errand[r].at = "lines" =>
          \A l \in Errand(r).lines : \A c \in DOMAIN l.cells : Values(l)[c] # BadCell
    /\ errand[r].at = "write" =>
          \A e \in errand[r].copy : errand[r].seen[e.on].cells[e.cell] # e.value

\* The inductive invariant of the opex tables.
OpexInv ==
    /\ OpexTyped /\ RowsAreUnique /\ SlugsAreUnique /\ OpenRowsAreSeeds
    /\ \A r \in DOMAIN OpexAsks : ErrandKept(r)
    /\ SeedsAreWhole /\ OnlyRacesSpoilSeeds

\* The opex tables of a market: seeds are whole or absent, spoilt by races only, lookups are
\* unambiguous, and a CSV update keeps later edits.
\* (OpexSeedService, OpexByBedroomsService, update_opex_from_csv)
OpexSafety ==
    /\ []SeedsAreWhole
    /\ []OnlyRacesSpoilSeeds
    /\ []LookupsAreUnambiguous
    /\ CsvKeepsLaterEdits
=============================================================================
