---------------------------- MODULE MarketRecords ----------------------------
(***************************************************************************)
(* Markets and the rows they name by id: amenities and realtors, beside    *)
(* the fee tiers.  A market stores plain id lists without foreign keys,    *)
(* checked when it is written and resolved when it is read, while those    *)
(* rows are edited and soft-deleted; two scripts fill the lists from a CSV.*)
(***************************************************************************)
EXTENDS Nulls, FiniteSetsExt, SequencesExt, Integers
CONSTANTS
    Dealings,          \* request -> [op, ...]
    DealingCrowds,     \* which of them are open together
    RecordsBefore,     \* table -> the rows before, a sequence of [key, live]
    BooksBefore,       \* the markets before, a sequence of [slug, lists, live]
    EmailForms         \* email -> [base, tab]: what lower(btrim()) leaves, and a tab beside it

RecordTables == {"realtors", "amenities", "fees"}
ListedTables == {"realtors", "amenities"}
Dealt(r) == Dealings[r]
Form(email) == [base |-> EmailForms[email].base, tab |-> EmailForms[email].tab]

\* Tables are lists of rows, live emails are unique and markets name rows that are there; a
\* realtor is written as such, the script reads normalised emails, and NULL is no email and
\* no status code.
ASSUME RecordAssumption ==
    /\ None \notin DOMAIN EmailForms /\ None # 404
    /\ \A e \in DOMAIN EmailForms : EmailForms[e] = Form(e) /\ EmailForms[e].tab \in BOOLEAN
    /\ \A t \in RecordTables :
          /\ RecordsBefore[t] \in Seq(ToSet(RecordsBefore[t]))
          /\ \A id \in DOMAIN RecordsBefore[t] : /\ DOMAIN RecordsBefore[t][id] = {"key", "live"}
                                                 /\ RecordsBefore[t][id].live \in BOOLEAN
    /\ \A a \in DOMAIN RecordsBefore["realtors"] :
          RecordsBefore["realtors"][a].key \in DOMAIN EmailForms \cup {None}
    /\ \A a, b \in DOMAIN RecordsBefore["realtors"] :
          LET x == RecordsBefore["realtors"][a]
              y == RecordsBefore["realtors"][b]
          IN  x.live /\ y.live /\ None \notin {x.key, y.key} /\ EmailForms[x.key] = EmailForms[y.key]
                 => a = b
    /\ BooksBefore \in Seq(ToSet(BooksBefore))
    /\ \A k \in DOMAIN BooksBefore :
          /\ DOMAIN BooksBefore[k] = {"slug", "lists", "live"}
          /\ DOMAIN BooksBefore[k].lists = ListedTables
          /\ \A t \in ListedTables : ToSet(BooksBefore[k].lists[t]) \subseteq DOMAIN RecordsBefore[t]
    /\ \A r \in DOMAIN Dealings :
          /\ Dealt(r).op \in {"create", "patch"} => Dealt(r).table \in RecordTables \ {"realtors"}
          /\ Dealt(r).op = "delete" => Dealt(r).table \in RecordTables
          /\ Dealt(r).op \in {"create realtor", "patch realtor"} =>
                Dealt(r).email \in DOMAIN EmailForms \cup {None}
          /\ Dealt(r).op = "seed realtors" =>
                LET emails == {l.email : l \in Dealt(r).lines} \ {None}
                IN  /\ IsFiniteSet(emails) /\ emails \subseteq DOMAIN EmailForms
                    /\ \A e, f \in emails : EmailForms[e] = EmailForms[f] => e = f
                    /\ \A e \in emails : ~EmailForms[e].tab

VARIABLES
    record,     \* table -> the rows by id: [key, live], the key an email, a bound or a name
    marketBook, \* markets.market_keys_master: [slug, lists, live]
    dealing,    \* each request: [at, copy, reply]
    dropped     \* history: the records deleted since a request began

recordVars == <<record, marketBook, dealing, dropped>>
----------------------------------------------------------------------------
LiveIds(t) == {id \in DOMAIN record[t] : record[t][id].live}
LiveBook(k) == k \in DOMAIN marketBook /\ marketBook[k].live
Takes(r, ops) == dealing[r].at = "start" /\ Dealt(r).op \in ops
Goes(r, where) == dealing' = [dealing EXCEPT ![r].at = where]
Closes(r, code) == dealing' = [dealing EXCEPT ![r].at = "done", ![r].reply = code]
Shows(r, what) == dealing' = [dealing EXCEPT ![r].at = "done", ![r].reply = 200, ![r].copy = what]

\* uq_realtors_email_active compares lower(btrim(email)) of live rows; a NULL never clashes.
IndexKey_Raw(email) == email
IndexKey(email) == EmailForms[email]
Holders(email) == {id \in LiveIds("realtors") :
                      /\ email # None /\ record["realtors"][id].key # None
                      /\ IndexKey(record["realtors"][id].key) = IndexKey(email)}

RecordInit ==
    /\ record = [t \in RecordTables |-> RecordsBefore[t]]
    /\ marketBook = BooksBefore
    /\ \E crowd \in DealingCrowds : dealing =
         [r \in DOMAIN Dealings |-> [at |-> IF r \in crowd THEN "start" ELSE "absent",
                                     copy |-> None, reply |-> None]]
    /\ dropped = [r \in DOMAIN Dealings |-> {}]
----------------------------------------------------------------------------
\* _validate_amenity_ids, _validate_realtor_ids: only the lists the request carries.
Carried(r, t) == IF t \in DOMAIN Dealt(r).lists THEN ToSet(Dealt(r).lists[t]) ELSE {}
Unknown_Skipped(r, t) == {}
Unknown(r, t) == Carried(r, t) \ LiveIds(t)
ValidateAmenities(r) ==
    /\ Takes(r, {"save", "create market"})
    /\ IF Unknown(r, "amenities") # {} THEN Closes(r, 400) ELSE Goes(r, "realtors")
    /\ UNCHANGED <<record, marketBook, dropped>>
ValidateRealtors(r) ==
    /\ dealing[r].at = "realtors"
    /\ IF Unknown(r, "realtors") # {} THEN Closes(r, 400) ELSE Goes(r, "save")
    /\ UNCHANGED <<record, marketBook, dropped>>
\* MarketRepository.update: the fields the request carries, nothing else.
SaveBook(r) ==
    /\ dealing[r].at = "save" /\ Dealt(r).op = "save"
    /\ LET k == Dealt(r).on
       IN  IF ~LiveBook(k) THEN Closes(r, 404) /\ UNCHANGED marketBook
           ELSE /\ marketBook' = [marketBook EXCEPT ![k].lists =
                              [t \in DOMAIN @ |-> IF t \in DOMAIN Dealt(r).lists
                                                  THEN Dealt(r).lists[t] ELSE @[t]]]
                /\ Closes(r, 200)
    /\ UNCHANGED <<record, dropped>>
\* A slug is that of one live market.
CreateBook(r) ==
    /\ dealing[r].at = "save" /\ Dealt(r).op = "create market"
    /\ IF \E k \in DOMAIN marketBook : LiveBook(k) /\ marketBook[k].slug = Dealt(r).slug
       THEN Closes(r, 500) /\ UNCHANGED marketBook
       ELSE /\ marketBook' = Append(marketBook, [slug |-> Dealt(r).slug, live |-> TRUE,
                 lists |-> [t \in ListedTables |-> IF t \in DOMAIN Dealt(r).lists
                                                   THEN Dealt(r).lists[t] ELSE <<>>]])
            /\ Closes(r, 201)
    /\ UNCHANGED <<record, dropped>>
DeleteBook(r) ==
    /\ Takes(r, {"delete market"})
    /\ IF LiveBook(Dealt(r).on)
       THEN marketBook' = [marketBook EXCEPT ![Dealt(r).on].live = FALSE] /\ Closes(r, 200)
       ELSE Closes(r, 404) /\ UNCHANGED marketBook
    /\ UNCHANGED <<record, dropped>>

\* _to_schema: the row, then one statement per table it names; ids of deleted rows drop out,
\* the others keep their places.
Resolved_Unfiltered(t, ids) == ids
Resolved(t, ids) == Restrict(ids, {i \in DOMAIN ids : ids[i] \in LiveIds(t)})
ReadBook(r) ==
    /\ Takes(r, {"read"})
    /\ IF ~LiveBook(Dealt(r).on) THEN Closes(r, 404)
       ELSE dealing' = [dealing EXCEPT ![r].at = "amenity map",
                                       ![r].copy = marketBook[Dealt(r).on].lists]
    /\ UNCHANGED <<record, marketBook, dropped>>
ReadMap(r, t, at, next) ==
    /\ dealing[r].at = at
    /\ dealing' = [dealing EXCEPT ![r].at = next, ![r].copy[t] = Resolved(t, @)]
    /\ UNCHANGED <<record, marketBook, dropped>>
----------------------------------------------------------------------------
\* Rows are never removed, so that the next id is one more than their number.
AddRecord(t, key) == record' = [record EXCEPT ![t] = Append(@, [key |-> key, live |-> TRUE])]

CreateRealtor(r) ==
    /\ Takes(r, {"create realtor"})
    /\ IF Holders(Dealt(r).email) # {} THEN Goes(r, "duplicate") /\ UNCHANGED record
       ELSE AddRecord("realtors", Dealt(r).email) /\ Closes(r, 201)
    /\ UNCHANGED <<marketBook, dropped>>
PatchRealtor(r) ==
    /\ Takes(r, {"patch realtor"})
    /\ LET id == Dealt(r).on
       IN  IF id \notin LiveIds("realtors") THEN Closes(r, 404) /\ UNCHANGED record
           ELSE IF Holders(Dealt(r).email) \ {id} # {} THEN Goes(r, "duplicate") /\ UNCHANGED record
           ELSE record' = [record EXCEPT !["realtors"][id].key = Dealt(r).email] /\ Closes(r, 200)
    /\ UNCHANGED <<marketBook, dropped>>

\* get_active_by_email after the rollback: the column is trimmed by SQL, the argument by
\* Python, which strips the tab too; nobody is looked up by a blank email.
Namesakes_Plain(email) == {id \in LiveIds("realtors") : record["realtors"][id].key = email}
Namesakes(email) ==
    {id \in LiveIds("realtors") :
        LET key == record["realtors"][id].key
        IN  /\ key # None /\ EmailForms[email].base # ""
            /\ EmailForms[key].base = EmailForms[email].base /\ ~EmailForms[key].tab}
NameDuplicate(r) ==
    /\ dealing[r].at = "duplicate"
    /\ LET found == Namesakes(Dealt(r).email)
           who == IF found = {} THEN None ELSE CHOOSE id \in found : TRUE
       IN  dealing' = [dealing EXCEPT ![r] = [@ EXCEPT !.at = "done", !.reply = 409, !.copy = who]]
    /\ UNCHANGED <<record, marketBook, dropped>>

CreateRecord(r) ==
    /\ Takes(r, {"create"}) /\ AddRecord(Dealt(r).table, Dealt(r).key) /\ Closes(r, 201)
    /\ UNCHANGED <<marketBook, dropped>>
PatchRecord(r) ==
    /\ Takes(r, {"patch"})
    /\ IF Dealt(r).on \notin LiveIds(Dealt(r).table) THEN Closes(r, 404) /\ UNCHANGED record
       ELSE /\ record' = [record EXCEPT ![Dealt(r).table][Dealt(r).on].key = Dealt(r).key]
            /\ Closes(r, 200)
    /\ UNCHANGED <<marketBook, dropped>>
DeleteRecord(r) ==
    /\ Takes(r, {"delete"})
    /\ IF Dealt(r).on \notin LiveIds(Dealt(r).table)
       THEN Closes(r, 404) /\ UNCHANGED <<record, dropped>>
       ELSE /\ record' = [record EXCEPT ![Dealt(r).table][Dealt(r).on].live = FALSE]
            /\ dropped' = [s \in DOMAIN dropped |-> IF dealing[s].at = "start" THEN dropped[s]
                              ELSE dropped[s] \cup {<<Dealt(r).table, Dealt(r).on>>}]
            /\ Closes(r, 200)
    /\ UNCHANGED marketBook

\* get_by_area: the lowest live bound the area does not exceed.
FindFee(r) ==
    /\ Takes(r, {"fee"})
    /\ LET fits == {id \in LiveIds("fees") : record["fees"][id].key >= Dealt(r).area}
       IN  IF fits = {} THEN Closes(r, 404)
           ELSE Shows(r, CHOOSE id \in fits : \A o \in fits :
                            record["fees"][id].key <= record["fees"][o].key)
    /\ UNCHANGED <<record, marketBook, dropped>>
----------------------------------------------------------------------------
\* The realtor script: live realtors by email as Python strips it, then the missing ones and
\* the markets' lists in one transaction.  An email taken meanwhile fails all of it.
ReadRealtors(r) ==
    /\ Takes(r, {"seed realtors"})
    /\ LET emails == {l.email : l \in Dealt(r).lines} \ {None}
           Known(e) == {id \in LiveIds("realtors") :
                          LET key == record["realtors"][id].key
                          IN  key # None /\ EmailForms[key].base = EmailForms[e].base}
       IN  IF emails = {} THEN Closes(r, 0)
           ELSE dealing' = [dealing EXCEPT ![r].at = "realtor seed",
                                           ![r].copy = [e \in emails |-> Known(e)]]
    /\ UNCHANGED <<record, marketBook, dropped>>
SeedRealtors(r) ==
    /\ dealing[r].at = "realtor seed"
    /\ LET known == dealing[r].copy
           fresh == SetToSeq({e \in DOMAIN known : known[e] = {}})
           IdOf(e) == IF known[e] # {} THEN CHOOSE id \in known[e] : TRUE
                      ELSE Len(record["realtors"]) + CHOOSE i \in DOMAIN fresh : fresh[i] = e
           Line(k) == {l \in Dealt(r).lines : LiveBook(k) /\ l.market = marketBook[k].slug}
       IN  IF \E e \in ToSet(fresh) : Holders(e) # {}
           THEN Closes(r, 2) /\ UNCHANGED <<record, marketBook>>
           ELSE /\ record' = [record EXCEPT !["realtors"] =
                      @ \o [i \in DOMAIN fresh |-> [key |-> fresh[i], live |-> TRUE]]]
                /\ marketBook' = [k \in DOMAIN marketBook |->
                      IF Line(k) = {} THEN marketBook[k]
                      ELSE [marketBook[k] EXCEPT !.lists["realtors"] =
                              LET e == (CHOOSE l \in Line(k) : TRUE).email
                              IN  IF e = None THEN <<>> ELSE <<IdOf(e)>>]]
                /\ Closes(r, 0)
    /\ UNCHANGED dropped

\* The amenity script: nothing is written unless every mapped id is live.
ReadMapped(r) ==
    /\ Takes(r, {"seed amenities"})
    /\ IF ToSet(Dealt(r).ids) \subseteq LiveIds("amenities")
       THEN Goes(r, "amenity seed") ELSE Closes(r, 0)
    /\ UNCHANGED <<record, marketBook, dropped>>
SeedAmenities(r) ==
    /\ dealing[r].at = "amenity seed"
    /\ marketBook' = [k \in DOMAIN marketBook |->
                         IF LiveBook(k) /\ marketBook[k].slug = Dealt(r).market
                         THEN [marketBook[k] EXCEPT !.lists["amenities"] = Dealt(r).ids]
                         ELSE marketBook[k]]
    /\ Closes(r, 0)
    /\ UNCHANGED <<record, dropped>>

RecordNext ==
    \E r \in DOMAIN Dealings :
        \/ ValidateAmenities(r) \/ ValidateRealtors(r) \/ SaveBook(r) \/ CreateBook(r)
        \/ DeleteBook(r)
        \/ ReadBook(r) \/ ReadMap(r, "amenities", "amenity map", "realtor map")
        \/ ReadMap(r, "realtors", "realtor map", "done")
        \/ CreateRealtor(r) \/ PatchRealtor(r) \/ NameDuplicate(r)
        \/ CreateRecord(r) \/ PatchRecord(r) \/ DeleteRecord(r) \/ FindFee(r)
        \/ ReadRealtors(r) \/ SeedRealtors(r) \/ ReadMapped(r) \/ SeedAmenities(r)

RecordSpec == RecordInit /\ [][RecordNext]_recordVars
----------------------------------------------------------------------------
\* A market, live or not, never names a row that was not there at all.
StoredIdsExist ==
    \A k \in DOMAIN marketBook : \A t \in DOMAIN marketBook[k].lists :
        ToSet(marketBook[k].lists[t]) \subseteq DOMAIN record[t]

\* Rows that were live when a request looked, or are now.
WereLive(r, t) == LiveIds(t) \cup {id \in DOMAIN record[t] : <<t, id>> \in dropped[r]}

\* A list comes to name a deleted row only when the row went away while the request or
\* script that wrote the list was running.
NamesTheLiving(r) ==
    \A k \in DOMAIN marketBook' : \A t \in ListedTables :
        \/ k \in DOMAIN marketBook /\ marketBook'[k].lists[t] = marketBook[k].lists[t]
        \/ ToSet(marketBook'[k].lists[t]) \subseteq WereLive(r, t)'
WritesNameTheLiving ==
    [][\A r \in DOMAIN Dealings : dealing'[r] # dealing[r] => NamesTheLiving(r)]_recordVars

Read(r) ==
    Dealt(r).op = "read" /\ dealing[r].at \notin {"absent", "start"} /\ dealing[r].reply # 404
\* A market read shows no row that was deleted before the read began, whatever the list says.
HidesTheDeleted(r) ==
    Read(r) /\ dealing[r].at = "done" =>
        \A t \in DOMAIN dealing[r].copy : ToSet(dealing[r].copy[t]) \subseteq WereLive(r, t)
ReadsHideTheDeleted == \A r \in DOMAIN Dealings : HidesTheDeleted(r)

\* One person, one live realtor: emails that differ in case or outer spaces never stand
\* side by side, through requests and the script alike.
EmailsAreUnique ==
    \A a, b \in LiveIds("realtors") :
        LET x == record["realtors"][a].key
            y == record["realtors"][b].key
        IN  x # None /\ y # None /\ EmailForms[x] = EmailForms[y] => a = b

\* A duplicate email is refused with the id of the realtor that holds it, unless that row
\* went away, the email is blank or it is padded with a tab, which only Python strips.
DuplicatesNameTheHolder ==
    [][\A r \in DOMAIN Dealings :
         dealing[r].at = "duplicate" /\ dealing'[r].at = "done" =>
            \/ EmailForms[Dealt(r).email].tab \/ EmailForms[Dealt(r).email].base = ""
            \/ dealing'[r].copy \in Holders(Dealt(r).email)
            \/ Holders(Dealt(r).email) = {}]_recordVars

RowsTyped ==
    /\ DOMAIN record = RecordTables
    /\ \A t \in RecordTables :
          /\ record[t] \in Seq(ToSet(record[t]))
          /\ \A id \in DOMAIN record[t] : /\ DOMAIN record[t][id] = {"key", "live"}
                                          /\ record[t][id].live \in BOOLEAN
    /\ \A id \in DOMAIN record["realtors"] :
          record["realtors"][id].key \in DOMAIN EmailForms \cup {None}
BooksTyped ==
    /\ marketBook \in Seq(ToSet(marketBook))
    /\ \A k \in DOMAIN marketBook : /\ DOMAIN marketBook[k] = {"slug", "lists", "live"}
                                    /\ DOMAIN marketBook[k].lists = ListedTables
RecordTyped ==
    /\ RowsTyped /\ BooksTyped
    /\ DOMAIN dealing = DOMAIN Dealings /\ DOMAIN dropped = DOMAIN Dealings
    /\ \A r \in DOMAIN Dealings :
          /\ DOMAIN dealing[r] = {"at", "copy", "reply"}
          /\ dealing[r].at \in {"absent", "start", "realtors", "save", "amenity map",
                 "realtor map", "duplicate", "realtor seed", "amenity seed", "done"}

\* What a request or script found live it may still write or show, unless it was deleted since.
DealingKept(r) ==
    /\ dealing[r].at # "done" => dealing[r].reply = None
    /\ dealing[r].at \in {"realtors", "save"} =>
          /\ Dealt(r).op \in {"save", "create market"}
          /\ Carried(r, "amenities") \subseteq WereLive(r, "amenities")
    /\ dealing[r].at = "save" => Carried(r, "realtors") \subseteq WereLive(r, "realtors")
    /\ dealing[r].at \in {"amenity map", "realtor map"} => Dealt(r).op = "read"
    /\ Read(r) => DOMAIN dealing[r].copy = ListedTables
    /\ dealing[r].at = "realtor map" =>
          ToSet(dealing[r].copy["amenities"]) \subseteq WereLive(r, "amenities")
    /\ dealing[r].at = "duplicate" => Dealt(r).op \in {"create realtor", "patch realtor"}
                                      /\ Dealt(r).email # None
    /\ dealing[r].at = "realtor seed" =>
          /\ Dealt(r).op = "seed realtors"
          /\ DOMAIN dealing[r].copy = {l.email : l \in Dealt(r).lines} \ {None}
          /\ \A e \in DOMAIN dealing[r].copy :
                dealing[r].copy[e] \subseteq WereLive(r, "realtors")
    /\ dealing[r].at = "amenity seed" => Dealt(r).op = "seed amenities"
                                         /\ ToSet(Dealt(r).ids) \subseteq WereLive(r, "amenities")

\* The inductive invariant of markets and the rows they name.
RecordInv ==
    /\ RecordTyped
    /\ \A r \in DOMAIN Dealings : DealingKept(r)
    /\ StoredIdsExist /\ ReadsHideTheDeleted /\ EmailsAreUnique

\* Markets, realtors and presets: stored ids exist and were live when written, reads hide
\* what is deleted, emails of the living are unique and a duplicate names the holder.
\* (MarketService, RealtorService)
RecordSafety ==
    /\ []StoredIdsExist
    /\ []ReadsHideTheDeleted
    /\ []EmailsAreUnique
    /\ WritesNameTheLiving
    /\ DuplicatesNameTheHolder
=============================================================================
