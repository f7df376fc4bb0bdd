---------------------------- MODULE DealCreation ----------------------------
(***************************************************************************)
(* The ways a deal comes to exist, interleaved: from a Zillow URL          *)
(* (CreateUnderwritingFromUrlService), by the automated job for a listing  *)
(* (PrepareAndSaveUnderwritingJob), blank (CreateBlankUnderwritingService) *)
(* and as the next version of a series (DuplicateUnderwritingService).     *)
(* No unique index backs the guards of the first two; the versions of a    *)
(* series have one, and a retry loop around it.                            *)
(***************************************************************************)
EXTENDS Nulls, FiniteSetsExt, Sequences, Integers
CONSTANTS
    Plans,         \* what each request asks for: request -> [kind, url, market, deal]
    Pasts,         \* the deals stored before
    PropertyAt,    \* what a URL leads to: url -> zpid
    DetailUrl,     \* the URL a scraped listing is filed under: zpid -> url
    OnFile,        \* the listings scraped before: a function zpid -> market or None
    MaxAttempts    \* _MAX_VERSION_ATTEMPTS
----------------------------------------------------------------------------
Zpids == DOMAIN DetailUrl
Urls == DOMAIN PropertyAt

Asks == [kind : {"url", "job", "blank", "copy"}, url : Urls \cup {None},
        market : Nat \cup {None}, zpid : Zpids \cup {None}, deal : Nat \cup {None}]

\* A deal: what its creation had seen committed is kept with it.
Rows == [zpid : Zpids \cup {None}, url : Urls \cup {None}, series : Nat, version : Nat,
         state : {"open", "committed", "lost"},
         by : {None} \cup UNION {DOMAIN plan : plan \in Plans}, seen : SUBSET Nat]

Row(zpid, url, series, version, state, by, seen) ==
    [zpid |-> zpid, url |-> url, series |-> series, version |-> version,
     state |-> state, by |-> by, seen |-> seen]

\* The committed versions of a series of a table, and the one that follows them.
VersionsIn(rows, series) ==
    {rows[i].version : i \in {k \in DOMAIN rows : rows[k].state = "committed"
                                                /\ rows[k].series = series}}
NextIn(rows, series) == Max({-1} \cup VersionsIn(rows, series)) + 1

\* A table the guards and the unique index of (series, version) keep in order.
RowsInOrder(rows) ==
    /\ \A i \in DOMAIN rows : rows[i].series \in 1 .. i
    \* the committed versions of each series are numbered without a gap,
    /\ \A s \in DOMAIN rows :
         NextIn(rows, s) \in Nat /\ VersionsIn(rows, s) = 0 .. NextIn(rows, s) - 1
    /\ \A i, k \in DOMAIN rows :
         rows[i].state # "lost" /\ rows[k].state # "lost" /\ rows[i].series = rows[k].series
           /\ rows[i].version = rows[k].version => i = k
    \* a copy under way takes the next number,
    /\ \A i \in DOMAIN rows :
         rows[i].state = "open" => rows[i].version = NextIn(rows, rows[i].series)
    \* every copy is of an earlier deal of the same property,
    /\ \A k \in DOMAIN rows : rows[k].version > 0 =>
         \E i \in 1 .. k - 1 : /\ rows[i].state = "committed"
                               /\ rows[i].url = rows[k].url /\ rows[i].zpid = rows[k].zpid
    \* and no deal is of a property its creation had seen a deal of.
    /\ \A k \in DOMAIN rows : \A i \in rows[k].seen :
         i \in 1 .. k - 1 /\ (rows[k].zpid # None => rows[i].zpid # rows[k].zpid)

ASSUME CreationAssumption ==
    /\ MaxAttempts \in Nat \ {0}
    /\ PropertyAt \in [Urls -> Zpids] /\ DetailUrl \in [Zpids -> Urls]
    /\ None \notin Zpids
    /\ \A plan \in Plans : \A r \in DOMAIN plan :
         /\ plan[r] \in Asks
         /\ plan[r].kind = "url" => plan[r].url \in Urls
         /\ plan[r].kind = "job" => plan[r].zpid \in Zpids
    /\ Pasts \subseteq Seq(Rows)
    /\ \A past \in Pasts : /\ RowsInOrder(past)
                           /\ \A i \in DOMAIN past : past[i].state # "open"
----------------------------------------------------------------------------
VARIABLES
    deals,     \* every deal inserted, in id order: [zpid, url, series, version, state, by, seen]
    market,    \* scheduled_listings: zpid -> market of its preset, or None
    asked,     \* what each request asks for
    pc,        \* where each request is
    local,     \* its variables: [zpid, version, attempt, began, seen]
    outcome    \* what it answered, or None

creationVars == <<deals, market, asked, pc, local, outcome>>
----------------------------------------------------------------------------
Committed == {i \in DOMAIN deals : deals[i].state = "committed"}
ByUrl(url) == {i \in Committed : url # None /\ deals[i].url = url}
ByZpid(zpid) == {i \in Committed : zpid # None /\ deals[i].zpid = zpid}

\* get_by_listing_url and get_oldest_by_zpid order by id ascending.
Oldest_Newest(found) == Max(found)
Oldest(found) == Min(found)

\* _guard_listing_market: a preset without a market lets everything through.
Contradicts(requested, zpid) == market[zpid] \notin {None, requested}

NextVersion_All(series) ==
    Max({-1} \cup {deals[i].version : i \in {k \in DOMAIN deals : deals[k].series = series}}) + 1
\* get_next_version_for_series sees committed rows.
NextVersion(series) ==
    Max({-1} \cup {deals[i].version : i \in {k \in Committed : deals[k].series = series}}) + 1

Holding(series, version, states) ==
    {i \in DOMAIN deals : /\ deals[i].series = series /\ deals[i].version = version
                          /\ deals[i].state \in states}

At(r, kind, where) == asked[r].kind = kind /\ pc[r] = where
Go(r, where) == pc' = [pc EXCEPT ![r] = where]
Answer(r, answer) == outcome' = [outcome EXCEPT ![r] = answer] /\ Go(r, "done")
Exists(id) == [is |-> "exists", deal |-> id]
Mismatch(zpid) == [is |-> "mismatch", market |-> market[zpid]]

CreationInit ==
    /\ deals \in Pasts
    /\ asked \in Plans
    /\ market = OnFile
    /\ pc = [r \in DOMAIN asked |-> "start"]
    /\ local = [r \in DOMAIN asked |->
                   [zpid |-> None, version |-> 0, attempt |-> 0, began |-> 0, seen |-> {}]]
    /\ outcome = [r \in DOMAIN asked |-> None]
----------------------------------------------------------------------------
\* create(): the two guards that need no fetch.
GuardUrl(r) ==
    /\ At(r, "url", "start")
    /\ LET url == asked[r].url
           filed == {z \in DOMAIN market : DetailUrl[z] = url}
       IN  IF ByUrl(url) # {} THEN Answer(r, Exists(Oldest(ByUrl(url))))
           ELSE IF \E z \in filed : Contradicts(asked[r].market, z)
           THEN Answer(r, Mismatch(CHOOSE z \in filed : Contradicts(asked[r].market, z)))
           ELSE Go(r, "fetch") /\ UNCHANGED outcome
    /\ UNCHANGED <<deals, market, asked, local>>

\* The external fetch: no answer, an answer before the scrape has landed, or both.
FetchProperty(r) ==
    /\ At(r, "url", "fetch")
    /\ \/ Answer(r, [is |-> "not_fetched"]) /\ UNCHANGED <<market, local>>
       \/ /\ Go(r, "resolve")
          /\ local' = [local EXCEPT ![r].zpid = PropertyAt[asked[r].url]]
          /\ \/ UNCHANGED market
             \/ LET z == PropertyAt[asked[r].url]
                IN  market' = IF z \in DOMAIN market THEN market
                              ELSE [x \in DOMAIN market \cup {z} |->
                                       IF x = z THEN asked[r].market ELSE market[x]]
          /\ UNCHANGED outcome
    /\ UNCHANGED <<deals, asked>>

GuardZpid_UrlOnly(r) ==
    /\ At(r, "url", "resolve")
    /\ local' = [local EXCEPT ![r].seen = Committed]
    /\ IF local[r].zpid \notin DOMAIN market THEN Answer(r, [is |-> "not_scraped"])
       ELSE Go(r, "save") /\ UNCHANGED outcome
    /\ UNCHANGED <<deals, market, asked>>
\* _resolve_scraped_listing, _guard_duplicate_by_zpid and _guard_listing_market.
GuardZpid(r) ==
    /\ At(r, "url", "resolve")
    /\ local' = [local EXCEPT ![r].seen = Committed]
    /\ LET zpid == local[r].zpid
       IN  IF zpid \notin DOMAIN market THEN Answer(r, [is |-> "not_scraped"])
           ELSE IF ByZpid(zpid) # {} THEN Answer(r, Exists(Oldest(ByZpid(zpid))))
           ELSE IF Contradicts(asked[r].market, zpid) THEN Answer(r, Mismatch(zpid))
           ELSE Go(r, "save") /\ UNCHANGED outcome
    /\ UNCHANGED <<deals, market, asked>>

\* _find_existing of the automated job: by zpid,
FindByZpid(r) ==
    /\ At(r, "job", "start")
    /\ LET found == ByZpid(asked[r].zpid)
       IN  IF found # {} THEN \E id \in found : Answer(r, [is |-> "skipped", deal |-> id])
                         ELSE Go(r, "by_url") /\ UNCHANGED outcome
    /\ local' = [local EXCEPT ![r].zpid = asked[r].zpid, ![r].seen = Committed]
    /\ UNCHANGED <<deals, market, asked>>

\* then by the URL of the listing; the prepared payload may lack a price.
FindByUrl(r) ==
    /\ At(r, "job", "by_url")
    /\ LET found == ByUrl(DetailUrl[asked[r].zpid])
       IN  IF found # {} THEN Answer(r, [is |-> "skipped", deal |-> Oldest(found)])
           ELSE \/ Answer(r, [is |-> "no_price"])
                \/ Go(r, "save") /\ UNCHANGED outcome
    /\ UNCHANGED <<deals, market, asked, local>>

\* The save of the three: a new series, committed with the head of its log.
SaveDeal(r) ==
    /\ \/ At(r, "url", "save") \/ At(r, "job", "save") \/ At(r, "blank", "start")
    /\ LET url == IF asked[r].kind = "job" THEN DetailUrl[asked[r].zpid] ELSE asked[r].url
       IN  deals' = Append(deals, Row(local[r].zpid, url, Len(deals) + 1, 0,
                                      "committed", r, local[r].seen))
    /\ Answer(r, [is |-> "saved", deal |-> Len(deals')])
    /\ UNCHANGED <<market, asked, local>>
----------------------------------------------------------------------------
\* duplicate(): everything needed is read before the loop.
ReadSource(r) ==
    /\ At(r, "copy", "start")
    /\ asked[r].deal \in Committed
    /\ Go(r, "version")
    /\ local' = [local EXCEPT ![r].began = NextVersion(deals[asked[r].deal].series)]
    /\ UNCHANGED <<deals, market, asked, outcome>>

ReadVersion_Once(r) ==
    /\ At(r, "copy", "version")
    /\ local' = [local EXCEPT ![r].version =
                    IF local[r].attempt = 0 THEN NextVersion(deals[asked[r].deal].series) ELSE @]
    /\ Go(r, "insert")
    /\ UNCHANGED <<deals, market, asked, outcome>>
ReadVersion(r) ==
    /\ At(r, "copy", "version")
    /\ local' = [local EXCEPT ![r].version = NextVersion(deals[asked[r].deal].series)]
    /\ Go(r, "insert")
    /\ UNCHANGED <<deals, market, asked, outcome>>

\* The insert waits for an uncommitted row with its key, conflicts with a committed one,
\* and is retried on a fresh transaction.
InsertCopy(r) ==
    /\ At(r, "copy", "insert")
    /\ LET source == deals[asked[r].deal]
           version == local[r].version
       IN  /\ Holding(source.series, version, {"open"}) = {}
           /\ IF Holding(source.series, version, {"committed"}) = {}
              THEN /\ deals' = Append(deals, Row(source.zpid, source.url, source.series,
                                                 version, "open", r, {}))
                   /\ Go(r, "commit") /\ UNCHANGED <<local, outcome>>
              ELSE /\ UNCHANGED deals
                   /\ IF local[r].attempt = MaxAttempts - 1
                      THEN Answer(r, [is |-> "conflict"]) /\ UNCHANGED local
                      ELSE /\ local' = [local EXCEPT ![r].attempt = @ + 1]
                           /\ Go(r, "version") /\ UNCHANGED outcome
    /\ UNCHANGED <<market, asked>>

MineOpen(r) == {i \in DOMAIN deals : deals[i].state = "open" /\ deals[i].by = r}

\* record_created and the commit.
CommitCopy(r) ==
    /\ At(r, "copy", "commit")
    /\ \E i \in MineOpen(r) : /\ deals' = [deals EXCEPT ![i].state = "committed"]
                              /\ Answer(r, [is |-> "copied", deal |-> i])
    /\ UNCHANGED <<market, asked, local>>

\* The log row fails or the process dies: the id is spent, the version is not.
LoseCopy(r) ==
    /\ At(r, "copy", "commit")
    /\ \E i \in MineOpen(r) : deals' = [deals EXCEPT ![i].state = "lost"]
    /\ Answer(r, [is |-> "failed"])
    /\ UNCHANGED <<market, asked, local>>

CreationNext ==
    \E r \in DOMAIN asked :
        \/ GuardUrl(r) \/ FetchProperty(r) \/ GuardZpid(r)
        \/ FindByZpid(r) \/ FindByUrl(r) \/ SaveDeal(r)
        \/ ReadSource(r) \/ ReadVersion(r) \/ InsertCopy(r) \/ CommitCopy(r) \/ LoseCopy(r)

CreationSpec == CreationInit /\ [][CreationNext]_creationVars
----------------------------------------------------------------------------
SeriesOf(i) == {k \in Committed : deals[k].series = deals[i].series}

\* Duplicates of one series race for their numbers and some of them are lost after their
\* insert: the committed versions of a series are 0, 1, ... without a gap or a repeat.
VersionsContiguous ==
    \A i \in Committed :
        {deals[k].version : k \in SeriesOf(i)} = 0 .. Cardinality(SeriesOf(i)) - 1

\* A duplicate answers with a conflict only when as many other duplicates of its series
\* were committed meanwhile as it had attempts.
ConflictsCountWinners ==
    \A r \in DOMAIN asked :
        outcome[r] # None /\ outcome[r].is = "conflict" =>
            NextVersion(deals[asked[r].deal].series) >= local[r].began + MaxAttempts

\* A property gets a second series (blank deals, which have no zpid, aside) only from
\* requests that overlap: neither a URL that differs from the stored one nor a copy in
\* between lets a request through whose guard could see the first deal.
SecondSeriesOverlaps ==
    \A i, k \in Committed :
        (i < k /\ deals[k].version = 0 /\ deals[k].zpid # None /\ deals[k].zpid = deals[i].zpid)
            => i \notin deals[k].seen

\* What a refused request is redirected to is an original, never a copy of one, however
\* many versions were made meanwhile.
RedirectsToOriginals ==
    \A r \in DOMAIN asked :
        outcome[r] # None /\ outcome[r].is = "exists" => deals[outcome[r].deal].version = 0

(***************************************************************************)
(* The inductive invariant: the table is in order, and each request knows  *)
(* what its guards and its reads of the version have shown it.             *)
(***************************************************************************)
Local == [zpid : Zpids \cup {None}, version : Nat, attempt : Nat, began : Nat,
          seen : SUBSET Nat]

CreationTyped ==
    /\ deals \in Seq(Rows)
    /\ asked \in Plans
    /\ DOMAIN pc = DOMAIN asked /\ DOMAIN outcome = DOMAIN asked
    /\ local \in [DOMAIN asked -> Local]

\* No deal that a request's guard has seen is of the property it will save.
GuardKept(r) ==
    /\ asked[r].kind = "blank" => local[r].zpid = None
    /\ pc[r] \in {"start", "fetch", "resolve"} => local[r].seen = {}
    /\ pc[r] # "done" => \A i \in local[r].seen :
         i \in Committed /\ (local[r].zpid # None => deals[i].zpid # local[r].zpid)

\* Every attempt of a duplicate that failed was some other's commit.
CopyKept(r) ==
    /\ pc[r] = "start" => local[r].attempt = 0
    /\ asked[r].kind = "copy" /\ pc[r] \in {"version", "insert"} =>
         /\ asked[r].deal \in Committed
         /\ local[r].attempt < MaxAttempts
         /\ NextVersion(deals[asked[r].deal].series) >= local[r].began + local[r].attempt
         /\ pc[r] = "insert" =>
              /\ local[r].version >= 1
              /\ local[r].version >= local[r].began + local[r].attempt
              /\ local[r].version <= NextVersion(deals[asked[r].deal].series)

\* What was answered stays true.
AnswerKept(r) ==
    /\ outcome[r] # None /\ outcome[r].is = "exists" =>
         outcome[r].deal \in Committed /\ deals[outcome[r].deal].version = 0
    /\ outcome[r] # None /\ outcome[r].is = "conflict" =>
         /\ asked[r].deal \in Committed
         /\ NextVersion(deals[asked[r].deal].series) >= local[r].began + MaxAttempts
         /\ pc[r] = "done"

CreationInv ==
    /\ CreationTyped
    /\ RowsInOrder(deals)
    /\ \A r \in DOMAIN asked : GuardKept(r) /\ CopyKept(r) /\ AnswerKept(r)

\* Creations and duplicates that overlap: versions of a series stay contiguous, a conflict
\* is somebody else's win, a second series of a property takes an overlap, and a refused
\* request is sent to an original. (duplicate, create from URL, prepare and save)
CreationSafety ==
    /\ VersionsContiguous
    /\ ConflictsCountWinners
    /\ SecondSeriesOverlaps
    /\ RedirectsToOriginals
=============================================================================
