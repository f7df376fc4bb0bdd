----------------------------- MODULE DataRepairs -----------------------------
(***************************************************************************)
(* Four scripts fill columns that older deals lack: the zpid from the      *)
(* stored snapshot or the link, bedrooms and bathrooms, the year built,    *)
(* and - by the import script - the zpid of legacy rows.  Each reads a     *)
(* report first and writes in one statement afterwards, while analysts     *)
(* edit deals and the scraper adds and removes listings.                   *)
(***************************************************************************)
EXTENDS Nulls, FiniteSets, Integers
CONSTANTS
    OldDeals,       \* the sets of deals a history may begin with: id -> row
    ListingsBefore, \* zpid -> [beds, baths, year], the scraped listings
    MoreListings,   \* the listings the scraper may add
    RowEdits,       \* what an analyst writes: [on, set], set a function on columns
    LinkZpid,       \* link -> the zpid in it, None
    MaxRepairs, MaxRowEdits

DealColumns == {"legacy", "automated", "zpid", "url", "stored", "beds", "baths"}
SnapshotColumns == {"id", "beds", "baths", "year"}
IsSnapshot(stored) == stored = None \/ DOMAIN stored = SnapshotColumns

\* NULL is no zpid, a stored zpid is that of a listing, and edits name columns.
ASSUME RepairAssumption ==
    /\ None \notin DOMAIN ListingsBefore \cup DOMAIN MoreListings
    /\ \A deals \in OldDeals : \A i \in DOMAIN deals :
          /\ DOMAIN deals[i] = DealColumns /\ IsSnapshot(deals[i].stored)
          /\ deals[i].zpid \in DOMAIN ListingsBefore \cup {None}
    /\ \A e \in RowEdits :
          /\ DOMAIN e.set \subseteq DealColumns
          /\ "stored" \in DOMAIN e.set => IsSnapshot(e.set.stored)

VARIABLES
    oldDeal,    \* iron_bank.underwritings with uw_details.zillow_property beside
    scrapedHome,\* zillow.scheduled_listings with their details
    repair,     \* the running script: [name, at, found, updated]
    repairRuns, rowEdits,
    meddled,    \* history: a deal or a listing changed since this script's report
    settled     \* history: the scripts that ran undisturbed since the last change

repairVars == <<oldDeal, scrapedHome, repair, repairRuns, rowEdits, meddled, settled>>
----------------------------------------------------------------------------
Repairs == {"zpids", "rooms", "year", "legacy zpids"}
First(a, b) == IF a = None THEN b ELSE a
Listing(z, f) == IF z \in DOMAIN scrapedHome THEN scrapedHome[z][f] ELSE None
Snapshot(d, f) == IF d.stored = None THEN None ELSE d.stored[f]

RepairInit ==
    /\ oldDeal \in OldDeals
    /\ scrapedHome = ListingsBefore
    /\ repair = [name |-> None, at |-> "idle", found |-> 0, chosen |-> <<>>, updated |-> None,
                 again |-> FALSE]
    /\ repairRuns = 0 /\ rowEdits = 0 /\ meddled = FALSE /\ settled = {}

\* The zpid a deal should have: the one Zillow returned before the one in the link.
CandidateZpid(d) == First(Snapshot(d, "id"), IF d.url = None THEN None ELSE LinkZpid[d.url])
MissingZpid_Unconfirmed(d) == d.zpid = None /\ CandidateZpid(d) # None
MissingZpid(d) == d.zpid = None /\ CandidateZpid(d) \in DOMAIN scrapedHome
WithZpid(d) == [d EXCEPT !.zpid = CandidateZpid(d)]

\* COALESCE(current, stored, listing) for the two room counts; a row is a candidate for either.
RoomsFilled_StoredFirst(d, f) == First(Snapshot(d, f), First(d[f], Listing(d.zpid, f)))
RoomsFilled(d, f) == First(d[f], First(Snapshot(d, f), Listing(d.zpid, f)))
MissingRooms(d) ==
    /\ d.beds = None \/ d.baths = None
    /\ RoomsFilled(d, "beds") # None \/ RoomsFilled(d, "baths") # None
\* What the report counts, by a condition of its own.
RoomsReported_Fillable(d) ==
    \E f \in {"beds", "baths"} : d[f] = None /\ RoomsFilled(d, f) # None
RoomsReported(d) ==
    /\ None \in {d.beds, d.baths}
    /\ {d.beds, d.baths, RoomsFilled(d, "beds"), RoomsFilled(d, "baths")} # {None}
WithRooms(d) == [d EXCEPT !.beds = RoomsFilled(d, "beds"), !.baths = RoomsFilled(d, "baths")]

\* Snapshots of deals that are not automated, without a year, whose listing has one.
MissingYear_AnyYear(d) == ~ d.automated /\ d.stored # None /\ Listing(d.zpid, "year") # None
MissingYear(d) ==
    /\ ~ d.automated /\ d.stored # None /\ Snapshot(d, "year") = None
    /\ Listing(d.zpid, "year") # None
WithYear(d) == [d EXCEPT !.stored.year = Listing(d.zpid, "year")]

Updatable(name) ==
    {i \in DOMAIN oldDeal : LET d == oldDeal[i] IN
        CASE name = "zpids" -> MissingZpid(d)
          [] name = "rooms" -> MissingRooms(d)
          [] name = "year" -> MissingYear(d)
          [] name = "legacy zpids" ->
                /\ d.legacy /\ d.zpid = None /\ d.url # None
                /\ LinkZpid[d.url] \in DOMAIN scrapedHome}

Resolvable(name) == IF name = "rooms" THEN {i \in DOMAIN oldDeal : RoomsReported(oldDeal[i])}
                    ELSE Updatable(name)

ReportRepair(name, dry) ==
    /\ repair.at = "idle" /\ repairRuns < MaxRepairs
    /\ repairRuns' = repairRuns + 1
    /\ repair' = [repair EXCEPT !.name = name, !.at = IF dry THEN "idle" ELSE "write",
            !.found = Cardinality(Resolvable(name)), !.updated = IF dry THEN 0 ELSE None,
            !.again = ~ dry /\ name \in settled,
            !.chosen = IF name = "legacy zpids" /\ ~ dry
                       THEN [i \in Resolvable(name) |-> LinkZpid[oldDeal[i].url]] ELSE <<>>]
    /\ meddled' = FALSE
    /\ UNCHANGED <<oldDeal, scrapedHome, rowEdits, settled>>

\* One UPDATE over the rows resolvable now, and what it changed.
Ends(rows) ==
    /\ repair' = [repair EXCEPT !.at = "idle", !.updated = Cardinality(rows), !.chosen = <<>>]
    /\ settled' = (IF meddled THEN {} ELSE {repair.name})
                  \cup {s \in settled : oldDeal' = oldDeal}
    /\ UNCHANGED <<scrapedHome, repairRuns, rowEdits, meddled>>
Updates(name, With(_)) ==
    /\ repair.at = "write" /\ repair.name = name
    /\ LET rows == Updatable(name) IN
       /\ oldDeal' = [i \in DOMAIN oldDeal |-> IF i \in rows THEN With(oldDeal[i]) ELSE oldDeal[i]]
       /\ Ends(rows)
WriteZpids == Updates("zpids", WithZpid)
WriteRooms == Updates("rooms", WithRooms)
WriteYears == Updates("year", WithYear)

\* backfill_missing_zpids wrote down what it read; a listing gone since breaks the foreign key
\* and rolls the run back.
WriteLegacyZpids ==
    LET rows == DOMAIN repair.chosen IN
    /\ repair.at = "write" /\ repair.name = "legacy zpids"
    /\ IF \E i \in rows : repair.chosen[i] \notin DOMAIN scrapedHome
       THEN /\ repair' = [repair EXCEPT !.at = "idle", !.updated = 0, !.chosen = <<>>]
            /\ UNCHANGED <<oldDeal, scrapedHome, repairRuns, rowEdits, meddled, settled>>
       ELSE /\ oldDeal' = [i \in DOMAIN oldDeal |->
                    IF i \in rows THEN [oldDeal[i] EXCEPT !.zpid = repair.chosen[i]] ELSE oldDeal[i]]
            /\ Ends(rows)
----------------------------------------------------------------------------
Meddles == rowEdits < MaxRowEdits /\ rowEdits' = rowEdits + 1 /\ meddled' = TRUE /\ settled' = {}
\* The foreign key lets a deal name a scraped listing only.
EditOldDeal(e) ==
    /\ Meddles
    /\ "zpid" \in DOMAIN e.set => e.set.zpid \in DOMAIN scrapedHome \cup {None}
    /\ oldDeal' = [oldDeal EXCEPT ![e.on] =
                      [c \in DOMAIN @ |-> IF c \in DOMAIN e.set THEN e.set[c] ELSE @[c]]]
    /\ UNCHANGED <<scrapedHome, repair, repairRuns>>
AddHome(z) ==
    /\ Meddles /\ z \notin DOMAIN scrapedHome
    /\ scrapedHome' = [y \in DOMAIN scrapedHome \cup {z} |->
                          IF y = z THEN MoreListings[z] ELSE scrapedHome[y]]
    /\ UNCHANGED <<oldDeal, repair, repairRuns>>
\* ON DELETE SET NULL
DropHome(z) ==
    /\ Meddles /\ z \in DOMAIN scrapedHome
    /\ scrapedHome' = [y \in DOMAIN scrapedHome \ {z} |-> scrapedHome[y]]
    /\ oldDeal' = [i \in DOMAIN oldDeal |->
                      [oldDeal[i] EXCEPT !.zpid = IF @ = z THEN None ELSE @]]
    /\ UNCHANGED <<repair, repairRuns>>

RepairNext ==
    \/ \E name \in Repairs, dry \in BOOLEAN :
          (dry => name # "legacy zpids") /\ ReportRepair(name, dry)
    \/ WriteZpids \/ WriteRooms \/ WriteYears \/ WriteLegacyZpids
    \/ \E e \in RowEdits : EditOldDeal(e)
    \/ \E z \in DOMAIN MoreListings : AddHome(z)
    \/ \E z \in DOMAIN scrapedHome : DropHome(z)

RepairSpec == RepairInit /\ [][RepairNext]_repairVars
----------------------------------------------------------------------------
\* A run updates as many rows as its report found resolvable, unless a deal or a listing changed
\* between the two statements: the warning the scripts print is never a false alarm.  (main)
WarnsOnlyOfRaces ==
    repair.at = "idle" /\ repair.updated \notin {None, 0} /\ ~ meddled =>
        repair.updated = repair.found

\* A script run again with nothing changed since finds nothing to update - but the bedrooms
\* script, which counts and writes again every deal of which it can fill one room count only.
\* (the docstrings of the backfills)
RerunsFindNothing ==
    repair.again /\ ~ meddled =>
        IF repair.name # "rooms" THEN repair.found = 0
        ELSE \A i \in Resolvable("rooms") :
                \E f \in {"beds", "baths"} : RoomsFilled(oldDeal[i], f) = None

\* The room counts an analyst approved and a zpid a deal has outlast every run of the set-based
\* scripts.  (UPDATE_SQL of the three backfills)
RepairsKeepWhatIsThere ==
    [][\A i \in DOMAIN oldDeal :
          WriteZpids \/ WriteRooms \/ WriteYears =>
             \A f \in {"zpid", "beds", "baths"} :
                oldDeal[i][f] # None => oldDeal'[i][f] = oldDeal[i][f]]_repairVars

\* A zpid always names a scraped listing.  (the foreign key, its SET NULL, is_scraped, confirmed)
ZpidsAreScraped == \A i \in DOMAIN oldDeal : oldDeal[i].zpid \in DOMAIN scrapedHome \cup {None}

RepairTyped ==
    /\ None \notin DOMAIN scrapedHome
    /\ \A i \in DOMAIN oldDeal :
          DOMAIN oldDeal[i] = DealColumns /\ IsSnapshot(oldDeal[i].stored)
    /\ repair.at \in {"idle", "write"}
    /\ DOMAIN repair = {"name", "at", "found", "chosen", "updated", "again"}

\* What the report of the running script said still holds, unless somebody meddled; what
\* the import script chose it chose by that report.
ReportHolds ==
    repair.at = "write" =>
        /\ repair.name \in Repairs /\ repair.updated = None
        /\ ~ meddled => repair.found = Cardinality(Resolvable(repair.name))
        /\ repair.name = "legacy zpids" =>
              /\ repair.found = Cardinality(DOMAIN repair.chosen)
              /\ ~ meddled => repair.chosen =
                    [i \in Updatable("legacy zpids") |-> LinkZpid[oldDeal[i].url]]

\* A script that ran undisturbed has nothing left to do that it could do.
Exhausted(name) ==
    IF name # "rooms" THEN Updatable(name) = {}
    ELSE \A i \in Resolvable("rooms") :
            \E f \in {"beds", "baths"} : RoomsFilled(oldDeal[i], f) = None

\* A script run again follows one that was settled.
AgainIsSettled ==
    repair.again /\ ~ meddled =>
        repair.name \in settled /\ (repair.name # "rooms" => repair.found = 0)

\* The inductive invariant of the backfills.
RepairInv ==
    /\ RepairTyped /\ ReportHolds /\ AgainIsSettled
    /\ WarnsOnlyOfRaces /\ ZpidsAreScraped
    /\ settled \subseteq Repairs /\ \A name \in settled : Exhausted(name)

\* The backfills add what is missing and no more: they keep what is there, find nothing the
\* second time, warn of races only and store zpids of scraped listings.
\* (the backfill scripts)
RepairSafety ==
    /\ []WarnsOnlyOfRaces
    /\ []RerunsFindNothing
    /\ []ZpidsAreScraped
    /\ RepairsKeepWhatIsThere
=============================================================================
