----------------------------- MODULE MarketProofs -----------------------------
(***************************************************************************)
(* Markets, proved: a stored id of an amenity or realtor was live when it  *)
(* was written, a read hides what is deleted, no two live realtors share   *)
(* an email (MarketRecords); the opex tables of a market are seeded whole  *)
(* or not at all, and no two of their live rows answer one lookup          *)
(* (OpexTables); what a deal takes from those tables and its clients put   *)
(* back: no key is given twice, labels are shared through races only, and  *)
(* a reseed moves the rows of the market only (OperatingExpenses).         *)
(***************************************************************************)
EXTENDS
    Markets, OperatingExpenses, SequenceTheorems, FiniteSetTheorems, WellFoundedInduction,
    TLAPS

\* A list and what is appended to it.
LEMMA Appended ==
    ASSUME NEW s, s \in Seq(ToSet(s)), NEW e
    PROVE  /\ Append(s, e) \in Seq(ToSet(Append(s, e)))
           /\ DOMAIN s \subseteq DOMAIN Append(s, e)
           /\ Len(s) + 1 \in DOMAIN Append(s, e) /\ Append(s, e)[Len(s) + 1] = e
           /\ \A i \in DOMAIN Append(s, e) : i \in DOMAIN s \/ i = Len(s) + 1
           /\ \A i \in DOMAIN s : Append(s, e)[i] = s[i]
<1> DEFINE a == Append(s, e)
           S == ToSet(s) \cup {e}
<1>1. s \in Seq(S) /\ e \in S
  <2>1. ToSet(s) \subseteq S
    OBVIOUS
  <2> HIDE DEF S
  <2>2. Seq(ToSet(s)) \subseteq Seq(S)
    BY <2>1
  <2> QED BY <2>2 DEF S
<1> HIDE DEF S
<1>2. a \in Seq(S) /\ Len(a) = Len(s) + 1 /\ Len(s) \in Nat
      /\ a[Len(s) + 1] = e /\ \A i \in 1..Len(s) : a[i] = s[i]
  BY <1>1
<1>3. DOMAIN s = 1..Len(s) /\ DOMAIN a = 1..Len(a)
  BY <1>1, <1>2
<1>4. a \in Seq(ToSet(a))
  <2> HIDE DEF a
  <2>1. a = [i \in 1..Len(a) |-> a[i]]
    BY <1>2
  <2>2. \A i \in 1..Len(a) : a[i] \in ToSet(a)
    BY <1>3 DEF ToSet
  <2> QED BY <1>2, <2>1, <2>2, SeqDef
<1> QED BY <1>2, <1>3, <1>4

\* A list of which one item changes.
LEMMA Changed ==
    ASSUME NEW s, s \in Seq(ToSet(s)), NEW i \in DOMAIN s, NEW e
    PROVE  /\ [s EXCEPT ![i] = e] \in Seq(ToSet([s EXCEPT ![i] = e]))
           /\ DOMAIN [s EXCEPT ![i] = e] = DOMAIN s
<1> DEFINE a == [s EXCEPT ![i] = e]
<1>1. Len(s) \in Nat /\ DOMAIN s = 1..Len(s)
  OBVIOUS
<1>2. DOMAIN a = 1..Len(s) /\ a = [j \in 1..Len(s) |-> a[j]]
  BY <1>1
<1> HIDE DEF a
<1>3. \A j \in 1..Len(s) : a[j] \in ToSet(a)
  BY <1>2 DEF ToSet
<1>4. a \in Seq(ToSet(a))
  BY <1>1, <1>2, <1>3, SeqDef
<1> QED BY <1>1, <1>2, <1>4 DEF a

\* A list with another item in every place.
LEMMA SameLength ==
    ASSUME NEW s, s \in Seq(ToSet(s)), NEW f, DOMAIN f = DOMAIN s, f = [i \in DOMAIN s |-> f[i]]
    PROVE  f \in Seq(ToSet(f))
<1>1. Len(s) \in Nat /\ DOMAIN s = 1..Len(s)
  OBVIOUS
<1>2. \A i \in DOMAIN f : f[i] \in ToSet(f)
  BY DEF ToSet
<1> QED BY <1>1, <1>2, SeqDef

\* The members of a finite set, put in a sequence.
LEMMA InSomeOrder ==
    ASSUME NEW S, IsFiniteSet(S)
    PROVE  /\ SetToSeq(S) \in Seq(S) /\ ToSet(SetToSeq(S)) = S
           /\ \A i, j \in DOMAIN SetToSeq(S) : SetToSeq(S)[i] = SetToSeq(S)[j] => i = j
<1> DEFINE n == Cardinality(S)
           f == SetToSeq(S)
<1>1. n \in Nat /\ ExistsBijection(1..n, S)
  BY FS_CardinalityType
<1>2. PICK g : g \in Bijection(1..n, S)
  BY <1>1 DEF ExistsBijection
<1>3. g \in [1..n -> S] /\ \A i, j \in 1..n : g[i] = g[j] => i = j
  BY <1>2 DEF Bijection, Injection, IsInjective
<1>4. \E h \in [1..n -> S] : IsInjective(h)
  BY <1>3 DEF IsInjective
<1>5. f \in [1..n -> S] /\ IsInjective(f)
  BY <1>4 DEF SetToSeq
<1> HIDE DEF f
<1>6. f \in Seq(S)
  BY <1>1, <1>5, SeqDef
<1>7. f \in Injection(1..n, S)
  BY <1>5 DEF Injection, IsInjective
<1>8. IsFiniteSet(1..n) /\ Cardinality(1..n) = n
  BY <1>1, FS_Interval
<1>9. f \in Surjection(1..n, S)
  BY <1>7, <1>8, FS_Injection
<1>10. ToSet(f) = S
  BY <1>5, <1>9 DEF Surjection, ToSet
<1> QED BY <1>5, <1>6, <1>10 DEF f, IsInjective

\* A list with more at its end.
LEMMA Extended ==
    ASSUME NEW s, s \in Seq(ToSet(s)), NEW t, t \in Seq(ToSet(t))
    PROVE  /\ s \o t \in Seq(ToSet(s \o t)) /\ DOMAIN s \subseteq DOMAIN (s \o t)
           /\ \A i \in DOMAIN s : (s \o t)[i] = s[i]
           /\ \A i \in DOMAIN t : Len(s) + i \in DOMAIN (s \o t) /\ (s \o t)[Len(s) + i] = t[i]
           /\ \A i \in DOMAIN (s \o t) : i \in DOMAIN s \/ \E j \in DOMAIN t : i = Len(s) + j
<1> DEFINE S == ToSet(s) \cup ToSet(t)
           a == s \o t
<1>1. s \in Seq(S) /\ t \in Seq(S)
  <2>1. ToSet(s) \subseteq S /\ ToSet(t) \subseteq S
    OBVIOUS
  <2> HIDE DEF S
  <2> QED BY <2>1
<1> HIDE DEF S
<1>2. /\ a \in Seq(S) /\ Len(a) = Len(s) + Len(t)
      /\ \A i \in 1..Len(s) + Len(t) : a[i] = IF i <= Len(s) THEN s[i] ELSE t[i - Len(s)]
  BY <1>1, ConcatProperties
<1>3. /\ DOMAIN s = 1..Len(s) /\ DOMAIN t = 1..Len(t) /\ DOMAIN a = 1..Len(a)
      /\ Len(s) \in Nat /\ Len(t) \in Nat
  BY <1>1, <1>2
<1> HIDE DEF a
<1>4. a \in Seq(ToSet(a))
  <2>1. a = [i \in 1..Len(a) |-> a[i]]
    BY <1>2
  <2>2. \A i \in 1..Len(a) : a[i] \in ToSet(a)
    BY <1>3 DEF ToSet
  <2> QED BY <1>2, <1>3, <2>1, <2>2, SeqDef
<1>5. \A i \in DOMAIN s : i \in DOMAIN a /\ a[i] = s[i]
  BY <1>2, <1>3
<1>6. \A i \in DOMAIN t : Len(s) + i \in DOMAIN a /\ a[Len(s) + i] = t[i]
  BY <1>2, <1>3
<1>7. \A i \in DOMAIN a : i \in DOMAIN s \/ \E j \in DOMAIN t : i = Len(s) + j
  <2>1. ASSUME NEW i \in DOMAIN a, i \notin DOMAIN s
        PROVE  \E j \in DOMAIN t : i = Len(s) + j
    <3>1. i - Len(s) \in DOMAIN t /\ i = Len(s) + (i - Len(s))
      BY <1>2, <1>3, <2>1
    <3> QED BY <3>1
  <2> QED BY <2>1
<1> QED BY <1>4, <1>5, <1>6, <1>7 DEF a

\* A row that was live when a request looked is live, or was deleted since.
LEMMA StillVouched ==
    ASSUME NEW s, NEW t,
           \A id \in DOMAIN record[t] :
              /\ id \in DOMAIN record'[t]
              /\ record[t][id].live => record'[t][id].live \/ <<t, id>> \in dropped'[s],
           dropped[s] \subseteq dropped'[s]
    PROVE  WereLive(s, t) \subseteq WereLive(s, t)'
BY DEF WereLive, LiveIds

LEMMA RequestsApart ==
    ASSUME RecordInv, NEW s \in DOMAIN Dealings, dealing'[s] = dealing[s],
           dealing[s].at # "start" => \A t \in ListedTables : WereLive(s, t) \subseteq WereLive(s, t)'
    PROVE  DealingKept(s)' /\ HidesTheDeleted(s)'
<1>1. DealingKept(s) /\ HidesTheDeleted(s)
  BY DEF RecordInv, ReadsHideTheDeleted
<1>2. DealingKept(s)'
  <2>1. dealing[s].at # "start" => /\ WereLive(s, "amenities") \subseteq WereLive(s, "amenities")'
                                   /\ WereLive(s, "realtors") \subseteq WereLive(s, "realtors")'
    BY DEF ListedTables
  <2>2. dealing[s].at = "amenity seed" =>
           ToSet(Dealt(s).ids) \subseteq WereLive(s, "amenities")'
    BY <1>1, <2>1 DEF DealingKept
  <2>3. dealing[s].at = "realtor seed" =>
           \A e \in DOMAIN dealing[s].copy : dealing[s].copy[e] \subseteq WereLive(s, "realtors")'
    BY <1>1, <2>1 DEF DealingKept
  <2> QED BY <1>1, <2>1, <2>2, <2>3 DEF DealingKept, Carried, Read
<1>3. HidesTheDeleted(s)'
  BY <1>1 DEF HidesTheDeleted, DealingKept, Read
<1> QED BY <1>2, <1>3

\* A step of one request or script: only that one moves.
LEMMA OneDealing ==
    ASSUME RecordInv, NEW r \in DOMAIN Dealings, RecordTyped', StoredIdsExist', EmailsAreUnique',
           \A s \in DOMAIN Dealings : s # r =>
              /\ dealing'[s] = dealing[s]
              /\ dealing[s].at # "start" =>
                    \A t \in ListedTables : WereLive(s, t) \subseteq WereLive(s, t)',
           DealingKept(r)', HidesTheDeleted(r)'
    PROVE  RecordInv'
<1>1. \A s \in DOMAIN Dealings : DealingKept(s)' /\ HidesTheDeleted(s)'
  <2>1. ASSUME NEW s \in DOMAIN Dealings, s # r
        PROVE  DealingKept(s)' /\ HidesTheDeleted(s)'
    BY <2>1, RequestsApart
  <2> QED BY <2>1
<1> QED BY <1>1 DEF RecordInv, ReadsHideTheDeleted

\* A step that only reads.
LEMMA Looking ==
    ASSUME RecordInv, NEW r \in DOMAIN Dealings, NEW q, UNCHANGED <<record, marketBook, dropped>>,
           dealing' = [dealing EXCEPT ![r] = q], DOMAIN q = {"at", "copy", "reply"},
           q.at \in {"absent", "start", "realtors", "save", "amenity map",
                 "realtor map", "duplicate", "realtor seed", "amenity seed", "done"},
           DealingKept(r)', HidesTheDeleted(r)'
    PROVE  RecordInv'
<1>1. DOMAIN dealing = DOMAIN Dealings
  BY DEF RecordInv, RecordTyped
<1>2. \A s \in DOMAIN Dealings : s # r => dealing'[s] = dealing[s]
  BY <1>1
<1>3. RecordTyped'
  BY <1>1 DEF RecordInv, RecordTyped, RowsTyped, BooksTyped
<1>4. StoredIdsExist' /\ EmailsAreUnique'
  BY DEF RecordInv, StoredIdsExist, EmailsAreUnique, LiveIds
<1>5. \A s, t : WereLive(s, t)' = WereLive(s, t)
  BY DEF WereLive, LiveIds
<1> QED BY <1>2, <1>3, <1>4, <1>5, OneDealing

\* A refusal, or an answer that shows nothing.
LEMMA Closing404 ==
    ASSUME RecordInv, NEW r \in DOMAIN Dealings, NEW code, Closes(r, code),
           UNCHANGED <<record, marketBook, dropped>>, Dealt(r).op # "read" \/ code = 404
    PROVE  RecordInv'
<1>1. /\ DOMAIN dealing = DOMAIN Dealings /\ DOMAIN dealing[r] = {"at", "copy", "reply"}
  BY DEF RecordInv, RecordTyped
<1> DEFINE q == [dealing[r] EXCEPT !.at = "done", !.reply = code]
<1>2. dealing' = [dealing EXCEPT ![r] = q] /\ DOMAIN q = {"at", "copy", "reply"}
      /\ q.at = "done" /\ q.reply = code
  BY <1>1 DEF Closes
<1> HIDE DEF q
<1>3. dealing'[r] = q
  BY <1>1, <1>2
<1>4. DealingKept(r)' /\ HidesTheDeleted(r)'
  BY <1>2, <1>3 DEF DealingKept, HidesTheDeleted, Read
<1> QED BY <1>2, <1>4, Looking

\* The next statement of a request.
LEMMA Going ==
    ASSUME RecordInv, NEW r \in DOMAIN Dealings, NEW where, Goes(r, where)
    PROVE  /\ dealing' = [dealing EXCEPT ![r] = [dealing[r] EXCEPT !.at = where]]
           /\ DOMAIN dealing'[r] = {"at", "copy", "reply"} /\ dealing'[r].at = where
           /\ dealing'[r].copy = dealing[r].copy /\ dealing'[r].reply = dealing[r].reply
           /\ dealing[r].at # "done" => dealing[r].reply = None
           /\ DealingKept(r)
<1>1. /\ DOMAIN dealing = DOMAIN Dealings /\ DOMAIN dealing[r] = {"at", "copy", "reply"}
      /\ DealingKept(r)
  BY DEF RecordInv, RecordTyped
<1>2. dealing' = [dealing EXCEPT ![r] = [dealing[r] EXCEPT !.at = where]]
  BY <1>1 DEF Goes
<1> QED BY <1>1, <1>2 DEF DealingKept

LEMMA GoingOn ==
    ASSUME RecordInv, NEW r \in DOMAIN Dealings, NEW where, Goes(r, where),
           UNCHANGED <<record, marketBook, dropped>>,
           where \in {"realtors", "save", "duplicate", "amenity seed"},
           DealingKept(r)'
    PROVE  RecordInv'
<1> DEFINE q == [dealing[r] EXCEPT !.at = where]
<1>1. /\ dealing' = [dealing EXCEPT ![r] = q] /\ DOMAIN dealing = DOMAIN Dealings
      /\ DOMAIN dealing[r] = {"at", "copy", "reply"}
  BY Going DEF RecordInv, RecordTyped
<1>2. DOMAIN q = {"at", "copy", "reply"} /\ q.at = where
  BY <1>1
<1> HIDE DEF q
<1>3. dealing'[r] = q
  BY <1>1
<1>4. HidesTheDeleted(r)'
  BY <1>2, <1>3 DEF HidesTheDeleted
<1> QED BY <1>1, <1>2, <1>4, Looking

LEMMA ValidateAmenitiesInv ==
    ASSUME RecordInv, NEW r \in DOMAIN Dealings, ValidateAmenities(r)
    PROVE  RecordInv'
<1>1. CASE Unknown(r, "amenities") # {}
  <2>1. Closes(r, 400) /\ UNCHANGED <<record, marketBook, dropped>> /\ Dealt(r).op # "read"
    BY <1>1 DEF ValidateAmenities, Takes
  <2> QED BY <2>1, Closing404
<1>2. CASE Unknown(r, "amenities") = {}
  <2>1. /\ Goes(r, "realtors") /\ UNCHANGED <<record, marketBook, dropped>>
        /\ Dealt(r).op \in {"save", "create market"} /\ dealing[r].at = "start"
    BY <1>2 DEF ValidateAmenities, Takes
  <2>2. Carried(r, "amenities") \subseteq WereLive(r, "amenities")'
    BY <1>2, <2>1 DEF Unknown, WereLive, LiveIds
  <2>3. dealing'[r].at = "realtors" /\ dealing'[r].reply = None
    BY <2>1, Going
  <2>4. DealingKept(r)'
    BY <2>1, <2>2, <2>3 DEF DealingKept, Read, Carried
  <2> QED BY <2>1, <2>4, GoingOn
<1> QED BY <1>1, <1>2

LEMMA ValidateRealtorsInv ==
    ASSUME RecordInv, NEW r \in DOMAIN Dealings, ValidateRealtors(r)
    PROVE  RecordInv'
<1>1. dealing[r].at = "realtors" /\ UNCHANGED <<record, marketBook, dropped>>
  BY DEF ValidateRealtors
<1>2. Dealt(r).op \in {"save", "create market"}
      /\ Carried(r, "amenities") \subseteq WereLive(r, "amenities")
  BY <1>1 DEF RecordInv, DealingKept
<1>3. CASE Unknown(r, "realtors") # {}
  <2>1. Closes(r, 400) /\ Dealt(r).op # "read"
    BY <1>2, <1>3 DEF ValidateRealtors
  <2> QED BY <1>1, <2>1, Closing404
<1>4. CASE Unknown(r, "realtors") = {}
  <2>1. Goes(r, "save")
    BY <1>4 DEF ValidateRealtors
  <2>2. Carried(r, "realtors") \subseteq WereLive(r, "realtors")'
    BY <1>1, <1>4 DEF Unknown, WereLive, LiveIds
  <2>3. Carried(r, "amenities") \subseteq WereLive(r, "amenities")'
    BY <1>1, <1>2 DEF WereLive, LiveIds
  <2>4. dealing'[r].at = "save" /\ dealing'[r].reply = None
    BY <1>1, <2>1, Going
  <2>5. DealingKept(r)'
    BY <1>1, <1>2, <2>2, <2>3, <2>4 DEF DealingKept, Read, Carried
  <2> QED BY <1>1, <2>1, <2>5, GoingOn
<1> QED BY <1>3, <1>4

LEMMA ReadBookInv ==
    ASSUME RecordInv, NEW r \in DOMAIN Dealings, ReadBook(r)
    PROVE  RecordInv'
<1>1. /\ dealing[r].at = "start" /\ Dealt(r).op = "read"
      /\ UNCHANGED <<record, marketBook, dropped>>
  BY DEF ReadBook, Takes
<1>2. CASE ~LiveBook(Dealt(r).on)
  BY <1>1, <1>2, Closing404 DEF ReadBook
<1>3. CASE LiveBook(Dealt(r).on)
  <2> DEFINE lists == marketBook[Dealt(r).on].lists
             q == [dealing[r] EXCEPT !.at = "amenity map", !.copy = lists]
  <2>1. DOMAIN lists = ListedTables
    BY <1>3 DEF RecordInv, RecordTyped, BooksTyped, LiveBook
  <2>2. DOMAIN dealing = DOMAIN Dealings /\ DOMAIN dealing[r] = {"at", "copy", "reply"}
        /\ dealing[r].reply = None
    BY <1>1 DEF RecordInv, RecordTyped, DealingKept
  <2>3. dealing' = [dealing EXCEPT ![r].at = "amenity map", ![r].copy = lists]
    BY <1>3 DEF ReadBook
  <2> HIDE DEF lists
  <2>4. dealing' = [dealing EXCEPT ![r] = q]
    BY <2>2, <2>3
  <2>5. /\ DOMAIN q = {"at", "copy", "reply"} /\ q.at = "amenity map" /\ q.copy = lists
        /\ q.reply = None
    BY <2>2
  <2> HIDE DEF q
  <2>6. dealing'[r] = q
    BY <2>2, <2>4
  <2>7. DealingKept(r)' /\ HidesTheDeleted(r)'
    BY <1>1, <2>1, <2>5, <2>6 DEF DealingKept, HidesTheDeleted, Read
  <2> QED BY <1>1, <2>4, <2>5, <2>7, Looking
<1> QED BY <1>2, <1>3

\* What a read shows of a list is live.
LEMMA ResolvedIsLive ==
    ASSUME NEW t, NEW ids
    PROVE  ToSet(Resolved(t, ids)) \subseteq LiveIds(t)
BY DEF Resolved, Restrict, ToSet

\* A read that is under way holds both lists.
LEMMA MapsRead ==
    ASSUME RecordInv, NEW r \in DOMAIN Dealings, dealing[r].at \in {"amenity map", "realtor map"}
    PROVE  Dealt(r).op = "read" /\ DOMAIN dealing[r].copy = ListedTables
<1>1. DealingKept(r) /\ None # 404
  BY RecordAssumption DEF RecordInv
<1>2. dealing[r].reply # 404 /\ Dealt(r).op = "read"
  BY <1>1 DEF DealingKept
<1> QED BY <1>1, <1>2 DEF DealingKept, Read

\* A statement of a read fills in the list of one table.
LEMMA ReadMapMoves ==
    ASSUME RecordInv, NEW r \in DOMAIN Dealings, NEW t \in ListedTables,
           NEW at \in {"amenity map", "realtor map"}, NEW next, ReadMap(r, t, at, next)
    PROVE  /\ dealing' = [dealing EXCEPT ![r] = dealing'[r]]
           /\ DOMAIN dealing'[r] = {"at", "copy", "reply"}
           /\ dealing'[r].at = next /\ dealing'[r].reply = None
           /\ DOMAIN dealing'[r].copy = ListedTables
           /\ ToSet(dealing'[r].copy[t]) \subseteq LiveIds(t)
           /\ \A u \in ListedTables : u # t => dealing'[r].copy[u] = dealing[r].copy[u]
<1> DEFINE copy == [dealing[r].copy EXCEPT ![t] = Resolved(t, @)]
           q == [dealing[r] EXCEPT !.at = next, !.copy = copy]
<1>1. /\ DOMAIN dealing = DOMAIN Dealings /\ DOMAIN dealing[r] = {"at", "copy", "reply"}
      /\ dealing[r].at = at /\ dealing[r].reply = None
  BY DEF RecordInv, RecordTyped, DealingKept, ReadMap
<1>2. DOMAIN dealing[r].copy = ListedTables
  BY MapsRead DEF ReadMap
<1>3. dealing' = [dealing EXCEPT ![r] = q]
  BY <1>1, <1>2 DEF ReadMap
<1>4. /\ DOMAIN copy = ListedTables /\ copy[t] = Resolved(t, dealing[r].copy[t])
      /\ \A u \in ListedTables : u # t => copy[u] = dealing[r].copy[u]
  BY <1>2
<1> HIDE DEF copy
<1>5. DOMAIN q = {"at", "copy", "reply"} /\ q.at = next /\ q.reply = None /\ q.copy = copy
  BY <1>1
<1> HIDE DEF q
<1>6. ToSet(q.copy[t]) \subseteq LiveIds(t)
  BY <1>4, <1>5, ResolvedIsLive
<1>7. dealing'[r] = q
  BY <1>1, <1>3
<1> QED BY <1>3, <1>4, <1>5, <1>6, <1>7

LEMMA ReadMapInv ==
    ASSUME RecordInv, NEW r \in DOMAIN Dealings,
           \/ ReadMap(r, "amenities", "amenity map", "realtor map")
           \/ ReadMap(r, "realtors", "realtor map", "done")
    PROVE  RecordInv'
<1>1. /\ dealing[r].at \in {"amenity map", "realtor map"}
      /\ UNCHANGED <<record, marketBook, dropped>>
  BY DEF ReadMap
<1>2. /\ DOMAIN dealing = DOMAIN Dealings /\ DOMAIN dealing[r] = {"at", "copy", "reply"}
      /\ dealing[r].reply = None /\ Dealt(r).op = "read" /\ DOMAIN dealing[r].copy = ListedTables
      /\ dealing[r].at = "realtor map" =>
            ToSet(dealing[r].copy["amenities"]) \subseteq WereLive(r, "amenities")
  BY <1>1, MapsRead DEF RecordInv, RecordTyped, DealingKept
<1>4. CASE ReadMap(r, "amenities", "amenity map", "realtor map")
  <2>1. "amenities" \in ListedTables /\ "realtors" \in ListedTables
    BY DEF ListedTables
  <2>q. PICK q : q = dealing'[r]
    OBVIOUS
  <2>2. /\ dealing' = [dealing EXCEPT ![r] = q]
        /\ DOMAIN q = {"at", "copy", "reply"} /\ q.at = "realtor map" /\ q.reply = None
        /\ DOMAIN q.copy = ListedTables
        /\ ToSet(q.copy["amenities"]) \subseteq LiveIds("amenities")
        /\ \A u \in ListedTables : u # "amenities" => q.copy[u] = dealing[r].copy[u]
    BY <2>q, <1>4, <2>1, ReadMapMoves
  <2>3. dealing'[r] = q
    BY <1>2, <2>2
  <2>4. ToSet(q.copy["amenities"]) \subseteq WereLive(r, "amenities")'
    BY <1>1, <2>2 DEF WereLive, LiveIds
  <2>5. DealingKept(r)'
    BY <1>2, <2>2, <2>3, <2>4 DEF DealingKept
  <2>6. HidesTheDeleted(r)'
    BY <2>2, <2>3 DEF HidesTheDeleted
  <2> QED BY <1>1, <2>2, <2>5, <2>6, Looking
<1>5. CASE ReadMap(r, "realtors", "realtor map", "done")
  <2>1. "amenities" \in ListedTables /\ "realtors" \in ListedTables
    BY DEF ListedTables
  <2>q. PICK q : q = dealing'[r]
    OBVIOUS
  <2>2. /\ dealing' = [dealing EXCEPT ![r] = q]
        /\ DOMAIN q = {"at", "copy", "reply"} /\ q.at = "done" /\ q.reply = None
        /\ DOMAIN q.copy = ListedTables
        /\ ToSet(q.copy["realtors"]) \subseteq LiveIds("realtors")
        /\ \A u \in ListedTables : u # "realtors" => q.copy[u] = dealing[r].copy[u]
    <3>1. ReadMap(r, "realtors", "realtor map", "done")
      BY <1>5
    <3>2. /\ dealing' = [dealing EXCEPT ![r] = dealing'[r]]
          /\ DOMAIN dealing'[r] = {"at", "copy", "reply"}
          /\ dealing'[r].at = "done" /\ dealing'[r].reply = None
          /\ DOMAIN dealing'[r].copy = ListedTables
          /\ ToSet(dealing'[r].copy["realtors"]) \subseteq LiveIds("realtors")
          /\ \A u \in ListedTables : u # "realtors" => dealing'[r].copy[u] = dealing[r].copy[u]
      BY <3>1, <2>1, ReadMapMoves
    <3> QED BY <2>q, <3>2
  <2>3. dealing'[r] = q
    BY <1>2, <2>2
  <2>4. dealing[r].at = "realtor map" /\ q.copy["amenities"] = dealing[r].copy["amenities"]
    BY <1>5, <2>1, <2>2 DEF ReadMap
  <2>5. \A t \in ListedTables : ToSet(q.copy[t]) \subseteq WereLive(r, t)'
    <3>1. ToSet(q.copy["amenities"]) \subseteq WereLive(r, "amenities")'
      BY <1>1, <1>2, <2>4 DEF WereLive, LiveIds
    <3>2. ToSet(q.copy["realtors"]) \subseteq WereLive(r, "realtors")'
      BY <1>1, <2>2 DEF WereLive, LiveIds
    <3> QED BY <3>1, <3>2 DEF ListedTables
  <2>6. DealingKept(r)' /\ HidesTheDeleted(r)'
    BY <1>2, <2>2, <2>3, <2>5 DEF DealingKept, HidesTheDeleted, Read
  <2> QED BY <1>1, <2>2, <2>6, Looking
<1> QED BY <1>4, <1>5

\* Who holds an email is found again by it, unless it is blank or holds a tab.
LEMMA NamesakesHold ==
    ASSUME NEW email, email \in DOMAIN EmailForms, ~EmailForms[email].tab,
           EmailForms[email].base # "", RecordInv
    PROVE  Holders(email) \subseteq Namesakes(email)
BY DEF Holders, Namesakes, IndexKey

\* Two emails that read the same, without a tab, are one to the index.
LEMMA SameForm ==
    ASSUME NEW e \in DOMAIN EmailForms, NEW f \in DOMAIN EmailForms,
           EmailForms[e].base = EmailForms[f].base, ~EmailForms[e].tab, ~EmailForms[f].tab
    PROVE  EmailForms[e] = EmailForms[f]
<1>1. /\ EmailForms[e].tab \in BOOLEAN /\ EmailForms[f].tab \in BOOLEAN
      /\ EmailForms[e] = Form(e) /\ EmailForms[f] = Form(f)
  BY RecordAssumption, ZenonT(30)
<1>2. \A x, y \in BOOLEAN : ~x /\ ~y => x = y
  OBVIOUS
<1>3. EmailForms[e].tab = EmailForms[f].tab
  BY ONLY <1>1, <1>2, ~EmailForms[e].tab, ~EmailForms[f].tab, Zenon
<1>4. Form(e) = Form(f)
  BY <1>3 DEF Form
<1> QED BY <1>1, <1>4

LEMMA NameDuplicateInv ==
    ASSUME RecordInv, NEW r \in DOMAIN Dealings, NameDuplicate(r)
    PROVE  /\ RecordInv'
           /\ \/ EmailForms[Dealt(r).email].tab \/ EmailForms[Dealt(r).email].base = ""
              \/ dealing'[r].copy \in Holders(Dealt(r).email)
              \/ Holders(Dealt(r).email) = {}
<1> DEFINE email == Dealt(r).email
           found == Namesakes(email)
           who == IF found = {} THEN None ELSE CHOOSE id \in found : TRUE
           q == [dealing[r] EXCEPT !.at = "done", !.reply = 409, !.copy = who]
<1>1. /\ dealing[r].at = "duplicate" /\ UNCHANGED <<record, marketBook, dropped>>
      /\ dealing' = [dealing EXCEPT ![r] = q]
  BY DEF NameDuplicate
<1>2. /\ DOMAIN dealing = DOMAIN Dealings /\ DOMAIN dealing[r] = {"at", "copy", "reply"}
      /\ Dealt(r).op \in {"create realtor", "patch realtor"} /\ email # None
  BY <1>1 DEF RecordInv, RecordTyped, DealingKept
<1>3. email \in DOMAIN EmailForms
  BY <1>2, RecordAssumption
<1>4. found # {} => who \in found
  OBVIOUS
<1>5. \A id \in found : ~EmailForms[email].tab => id \in Holders(email)
  <2>1. ASSUME NEW id \in found, ~EmailForms[email].tab
        PROVE  id \in Holders(email)
    <3> DEFINE key == record["realtors"][id].key
    <3>1. /\ id \in LiveIds("realtors") /\ key # None
          /\ EmailForms[key].base = EmailForms[email].base /\ ~EmailForms[key].tab
      BY <2>1 DEF Namesakes
    <3>2. id \in DOMAIN record["realtors"]
      BY <3>1 DEF LiveIds
    <3>3. key \in DOMAIN EmailForms
      BY <3>1, <3>2 DEF RecordInv, RecordTyped, RowsTyped
    <3>5. EmailForms[key] = EmailForms[email]
      BY <2>1, <3>1, <3>3, <1>3, SameForm
    <3>6. email # None
      BY <1>2
    <3> HIDE DEF email, found
    <3> QED BY ONLY <3>1, <3>5, <3>6 DEF Holders, IndexKey
  <2> QED BY <2>1
<1>6. Holders(email) # {} /\ ~EmailForms[email].tab /\ EmailForms[email].base # "" => found # {}
  BY <1>3, NamesakesHold
<1>7. /\ dealing' = [dealing EXCEPT ![r] = q] /\ DOMAIN q = {"at", "copy", "reply"}
      /\ q.at = "done" /\ q.reply = 409 /\ q.copy = who
  <2> HIDE DEF who, found, email
  <2>2. PICK f : f = dealing[r]
    OBVIOUS
  <2>3. DOMAIN f = {"at", "copy", "reply"}
    BY ONLY <1>2, <2>2
  <2>4. q = [f EXCEPT !.at = "done", !.reply = 409, !.copy = who]
    BY ONLY <2>2
  <2> HIDE DEF q
  <2>5. DOMAIN q = {"at", "copy", "reply"} /\ q.at = "done" /\ q.reply = 409 /\ q.copy = who
    BY ONLY <2>3, <2>4
  <2> QED BY <1>1, <2>5
<1>8. dealing'[r] = q
  <2> HIDE DEF q
  <2> QED BY <1>2, <1>7
<1> HIDE DEF q
<1>9. DealingKept(r)' /\ HidesTheDeleted(r)'
  BY <1>2, <1>7, <1>8 DEF DealingKept, HidesTheDeleted, Read
<1>10. RecordInv'
  <2>1. UNCHANGED <<record, marketBook, dropped>>
    BY <1>1
  <2> QED BY ONLY RecordInv, r \in DOMAIN Dealings, <1>7, <1>9, <2>1, Looking
<1> HIDE DEF found, who
<1> QED BY <1>4, <1>5, <1>6, <1>7, <1>8, <1>10

\* Closing a request or script, seen by that one.
LEMMA Closed ==
    ASSUME RecordInv, NEW r \in DOMAIN Dealings, NEW code, Closes(r, code), Dealt(r).op # "read"
    PROVE  /\ DOMAIN dealing' = DOMAIN Dealings /\ DOMAIN dealing'[r] = {"at", "copy", "reply"}
           /\ dealing'[r].at = "done" /\ dealing'[r].reply = code
           /\ \A s \in DOMAIN Dealings : s # r => dealing'[s] = dealing[s]
           /\ DealingKept(r)' /\ HidesTheDeleted(r)'
<1>1. /\ DOMAIN dealing = DOMAIN Dealings /\ DOMAIN dealing[r] = {"at", "copy", "reply"}
  BY DEF RecordInv, RecordTyped
<1> DEFINE q == [dealing[r] EXCEPT !.at = "done", !.reply = code]
<1>2. dealing' = [dealing EXCEPT ![r] = q] /\ DOMAIN q = {"at", "copy", "reply"}
      /\ q.at = "done" /\ q.reply = code
  BY <1>1 DEF Closes
<1> HIDE DEF q
<1>3. dealing'[r] = q /\ DOMAIN dealing' = DOMAIN Dealings
  BY <1>1, <1>2
<1>4. DealingKept(r)' /\ HidesTheDeleted(r)'
  BY <1>2, <1>3 DEF DealingKept, HidesTheDeleted, Read
<1> QED BY <1>1, <1>2, <1>3, <1>4

\* A write: the rows stay, the books name rows, nobody else's view of the living shrinks.
LEMMA Written ==
    ASSUME RecordInv, NEW r \in DOMAIN Dealings, NEW code, Closes(r, code), Dealt(r).op # "read",
           RowsTyped', BooksTyped', EmailsAreUnique', NamesTheLiving(r),
           DOMAIN dropped' = DOMAIN Dealings,
           \A t \in ListedTables : DOMAIN record[t] \subseteq DOMAIN record'[t],
           \A s \in DOMAIN Dealings : s # r /\ dealing[s].at # "start" =>
              \A t \in ListedTables : WereLive(s, t) \subseteq WereLive(s, t)'
    PROVE  RecordInv'
<1>1. /\ DOMAIN dealing' = DOMAIN Dealings /\ DOMAIN dealing'[r] = {"at", "copy", "reply"}
      /\ dealing'[r].at = "done"
      /\ \A s \in DOMAIN Dealings : s # r => dealing'[s] = dealing[s]
      /\ DealingKept(r)' /\ HidesTheDeleted(r)'
  BY Closed
<1>2. RecordTyped'
  BY <1>1 DEF RecordInv, RecordTyped
<1>3. StoredIdsExist'
  <2>1. ASSUME NEW k \in DOMAIN marketBook', NEW t \in ListedTables
        PROVE  ToSet(marketBook'[k].lists[t]) \subseteq DOMAIN record'[t]
    <3>1. CASE k \in DOMAIN marketBook /\ marketBook'[k].lists[t] = marketBook[k].lists[t]
      <4>1. ToSet(marketBook[k].lists[t]) \subseteq DOMAIN record[t]
        BY <3>1 DEF RecordInv, RecordTyped, BooksTyped, StoredIdsExist
      <4> QED BY <3>1, <4>1
    <3>2. CASE ToSet(marketBook'[k].lists[t]) \subseteq WereLive(r, t)'
      BY <3>2 DEF WereLive, LiveIds
    <3> QED BY <3>1, <3>2 DEF NamesTheLiving
  <2>2. \A k \in DOMAIN marketBook' : DOMAIN marketBook'[k].lists = ListedTables
    BY DEF BooksTyped
  <2> QED BY <2>1, <2>2 DEF StoredIdsExist
<1> QED BY <1>1, <1>2, <1>3, OneDealing

\* Only rows change.
LEMMA RowsWritten ==
    ASSUME RecordInv, NEW r \in DOMAIN Dealings, NEW code, Closes(r, code), Dealt(r).op # "read",
           NEW t \in RecordTables, NEW rows, record' = [record EXCEPT ![t] = rows],
           UNCHANGED marketBook, DOMAIN dropped' = DOMAIN Dealings,
           rows \in Seq(ToSet(rows)), DOMAIN record[t] \subseteq DOMAIN rows,
           \A id \in DOMAIN rows : DOMAIN rows[id] = {"key", "live"} /\ rows[id].live \in BOOLEAN,
           t = "realtors" =>
              \A id \in DOMAIN rows : rows[id].key \in DOMAIN EmailForms \cup {None},
           t = "realtors" => EmailsAreUnique',
           \A s \in DOMAIN Dealings : s # r /\ dealing[s].at # "start" =>
              /\ dropped[s] \subseteq dropped'[s]
              /\ \A id \in DOMAIN record[t] :
                    record[t][id].live => rows[id].live \/ <<t, id>> \in dropped'[s]
    PROVE  RecordInv' /\ NamesTheLiving(r)
<1>1. DOMAIN record = RecordTables /\ DOMAIN record' = RecordTables
      /\ record'[t] = rows /\ \A u \in RecordTables : u # t => record'[u] = record[u]
  BY DEF RecordInv, RecordTyped, RowsTyped
<1>2. RowsTyped'
  <2>1. \A u \in RecordTables :
          /\ record'[u] \in Seq(ToSet(record'[u]))
          /\ \A id \in DOMAIN record'[u] : /\ DOMAIN record'[u][id] = {"key", "live"}
                                           /\ record'[u][id].live \in BOOLEAN
    <3>1. ASSUME NEW u \in RecordTables, u # t
          PROVE  /\ record'[u] \in Seq(ToSet(record'[u]))
                 /\ \A id \in DOMAIN record'[u] : /\ DOMAIN record'[u][id] = {"key", "live"}
                                                  /\ record'[u][id].live \in BOOLEAN
      BY <1>1, <3>1 DEF RecordInv, RecordTyped, RowsTyped
    <3> QED BY <1>1, <3>1
  <2>2. \A id \in DOMAIN record'["realtors"] :
          record'["realtors"][id].key \in DOMAIN EmailForms \cup {None}
    BY <1>1 DEF RecordInv, RecordTyped, RowsTyped, RecordTables
  <2> QED BY <1>1, <2>1, <2>2 DEF RowsTyped
<1>3. BooksTyped' /\ NamesTheLiving(r)
  BY DEF RecordInv, RecordTyped, BooksTyped, NamesTheLiving
<1>4. EmailsAreUnique'
  <2>1. CASE t # "realtors"
    <3>1. record'["realtors"] = record["realtors"]
      BY <1>1, <2>1 DEF RecordTables
    <3> QED BY <3>1 DEF RecordInv, EmailsAreUnique, LiveIds
  <2> QED BY <2>1
<1>5. \A u \in ListedTables : DOMAIN record[u] \subseteq DOMAIN record'[u]
  BY <1>1 DEF ListedTables, RecordTables
<1>6. ASSUME NEW s \in DOMAIN Dealings, s # r, dealing[s].at # "start", NEW u \in ListedTables
      PROVE  WereLive(s, u) \subseteq WereLive(s, u)'
  <2>1. dropped[s] \subseteq dropped'[s]
    BY <1>6
  <2>2. CASE u = t
    BY <1>1, <1>6, <2>1, <2>2 DEF WereLive, LiveIds
  <2>3. CASE u # t
    <3>1. record'[u] = record[u]
      BY <1>1, <2>3 DEF ListedTables, RecordTables
    <3> QED BY <2>1, <3>1 DEF WereLive, LiveIds
  <2> QED BY <2>2, <2>3
<1> QED BY <1>2, <1>3, <1>4, <1>5, <1>6, Written

\* A row takes an email that no other live row holds.
LEMMA OneMoreEmail ==
    ASSUME EmailsAreUnique, NEW id, NEW email,
           record'["realtors"][id].key = email, Holders(email) \ {id} = {},
           \A a \in DOMAIN record'["realtors"] : a # id =>
              a \in DOMAIN record["realtors"]
              /\ record'["realtors"][a] = record["realtors"][a]
    PROVE  EmailsAreUnique'
<1> DEFINE key(a) == record["realtors"][a].key
           now(a) == record'["realtors"][a].key
<1>1. ASSUME NEW a \in LiveIds("realtors")', a # id
      PROVE  a \in LiveIds("realtors") /\ now(a) = key(a)
  BY <1>1 DEF LiveIds
<1>2. ASSUME NEW a \in LiveIds("realtors")', a # id, now(a) # None, email # None
      PROVE  EmailForms[now(a)] # EmailForms[email]
  <2>1. a \in LiveIds("realtors") /\ now(a) = key(a) /\ a \notin Holders(email)
    BY <1>1, <1>2
  <2> QED BY <1>2, <2>1 DEF Holders, IndexKey
<1>3. ASSUME NEW a \in LiveIds("realtors")', NEW b \in LiveIds("realtors")',
             now(a) # None, now(b) # None, EmailForms[now(a)] = EmailForms[now(b)]
      PROVE  a = b
  <2>1. CASE a # id /\ b # id
    <3>1. a \in LiveIds("realtors") /\ b \in LiveIds("realtors")
          /\ now(a) = key(a) /\ now(b) = key(b)
      BY <1>1, <2>1
    <3> QED BY <1>3, <3>1 DEF EmailsAreUnique
  <2>2. CASE a = id
    BY <1>2, <1>3, <2>2
  <2>3. CASE b = id
    BY <1>2, <1>3, <2>3
  <2> QED BY <2>1, <2>2, <2>3
<1> QED BY <1>3 DEF EmailsAreUnique

\* A new row.
LEMMA AddRecordInv ==
    ASSUME RecordInv, NEW r \in DOMAIN Dealings, NEW code, Closes(r, code), Dealt(r).op # "read",
           NEW t \in RecordTables, NEW key, AddRecord(t, key), UNCHANGED <<marketBook, dropped>>,
           t = "realtors" => key \in DOMAIN EmailForms \cup {None} /\ Holders(key) = {}
    PROVE  RecordInv' /\ NamesTheLiving(r)
<1>1. DOMAIN record = RecordTables /\ record[t] \in Seq(ToSet(record[t]))
      /\ DOMAIN dropped = DOMAIN Dealings
  BY DEF RecordInv, RecordTyped, RowsTyped
<1>2. PICK row : row = [key |-> key, live |-> TRUE]
  OBVIOUS
<1>3. DOMAIN row = {"key", "live"} /\ row.live = TRUE /\ row.key = key
  BY <1>2
<1>4. PICK rows : rows = Append(record[t], row)
  OBVIOUS
<1>5. record' = [record EXCEPT ![t] = rows]
  BY <1>1, <1>2, <1>4 DEF AddRecord
<1>6. /\ rows \in Seq(ToSet(rows)) /\ DOMAIN record[t] \subseteq DOMAIN rows
      /\ \A i \in DOMAIN rows : i \in DOMAIN record[t] \/ i = Len(record[t]) + 1
      /\ rows[Len(record[t]) + 1] = row
      /\ \A i \in DOMAIN record[t] : rows[i] = record[t][i]
  BY <1>1, <1>4, Appended
<1>7. \A id \in DOMAIN rows : DOMAIN rows[id] = {"key", "live"} /\ rows[id].live \in BOOLEAN
  <2>1. \A i \in DOMAIN record[t] :
           DOMAIN record[t][i] = {"key", "live"} /\ record[t][i].live \in BOOLEAN
    BY DEF RecordInv, RecordTyped, RowsTyped
  <2>2. row.live \in BOOLEAN /\ DOMAIN row = {"key", "live"}
    BY <1>3
  <2> QED BY ONLY <1>6, <2>1, <2>2
<1>8. t = "realtors" => \A id \in DOMAIN rows : rows[id].key \in DOMAIN EmailForms \cup {None}
  BY <1>3, <1>6 DEF RecordInv, RecordTyped, RowsTyped
<1>9. t = "realtors" => EmailsAreUnique'
  <2>1. ASSUME t = "realtors" PROVE EmailsAreUnique'
    <3>1. record'["realtors"] = rows
      BY <1>1, <1>5, <2>1
    <3>2. EmailsAreUnique /\ Holders(key) \ {Len(record[t]) + 1} = {}
      BY <2>1 DEF RecordInv
    <3>3. \A a \in DOMAIN rows : a # Len(record[t]) + 1 =>
             a \in DOMAIN record["realtors"] /\ rows[a] = record["realtors"][a]
      BY <1>6, <2>1
    <3>4. PICK id : id = Len(record[t]) + 1
      OBVIOUS
    <3> QED BY <1>3, <1>6, <3>1, <3>2, <3>3, <3>4, OneMoreEmail
  <2> QED BY <2>1
<1>10. \A s \in DOMAIN Dealings : s # r /\ dealing[s].at # "start" =>
          /\ dropped[s] \subseteq dropped'[s]
          /\ \A id \in DOMAIN record[t] :
                record[t][id].live => rows[id].live \/ <<t, id>> \in dropped'[s]
  BY <1>6
<1>11. DOMAIN dropped' = DOMAIN Dealings /\ UNCHANGED marketBook
  BY <1>1
<1> QED BY <1>5, <1>6, <1>7, <1>8, <1>9, <1>10, <1>11, RowsWritten

\* A new key for a row.
LEMMA PatchKeyInv ==
    ASSUME RecordInv, NEW r \in DOMAIN Dealings, NEW code, Closes(r, code), Dealt(r).op # "read",
           NEW t \in RecordTables, NEW id \in DOMAIN record[t], NEW key,
           record' = [record EXCEPT ![t][id].key = key], UNCHANGED <<marketBook, dropped>>,
           t = "realtors" => key \in DOMAIN EmailForms \cup {None} /\ Holders(key) \ {id} = {}
    PROVE  RecordInv' /\ NamesTheLiving(r)
<1>1. /\ DOMAIN record = RecordTables /\ record[t] \in Seq(ToSet(record[t]))
      /\ DOMAIN dropped = DOMAIN Dealings
      /\ DOMAIN record[t][id] = {"key", "live"} /\ record[t][id].live \in BOOLEAN
  BY DEF RecordInv, RecordTyped, RowsTyped
<1>2. PICK row : row = [record[t][id] EXCEPT !.key = key]
  OBVIOUS
<1>3. DOMAIN row = {"key", "live"} /\ row.live = record[t][id].live /\ row.key = key
  BY <1>1, <1>2
<1>4. PICK rows : rows = [record[t] EXCEPT ![id] = row]
  OBVIOUS
<1>5. record' = [record EXCEPT ![t] = rows]
  BY <1>1, <1>2, <1>4
<1>6. /\ rows \in Seq(ToSet(rows)) /\ DOMAIN rows = DOMAIN record[t] /\ rows[id] = row
      /\ \A i \in DOMAIN record[t] : i # id => rows[i] = record[t][i]
  BY <1>1, <1>4, Changed
<1>7. \A i \in DOMAIN rows : DOMAIN rows[i] = {"key", "live"} /\ rows[i].live \in BOOLEAN
  <2>1. \A i \in DOMAIN record[t] :
           DOMAIN record[t][i] = {"key", "live"} /\ record[t][i].live \in BOOLEAN
    BY DEF RecordInv, RecordTyped, RowsTyped
  <2>2. row.live \in BOOLEAN /\ DOMAIN row = {"key", "live"}
    BY <1>1, <1>3
  <2> QED BY ONLY <1>6, <2>1, <2>2
<1>8. t = "realtors" => \A i \in DOMAIN rows : rows[i].key \in DOMAIN EmailForms \cup {None}
  BY <1>3, <1>6 DEF RecordInv, RecordTyped, RowsTyped
<1>9. t = "realtors" => EmailsAreUnique'
  <2>1. ASSUME t = "realtors" PROVE EmailsAreUnique'
    <3>1. record'["realtors"] = rows
      BY <1>1, <1>5, <2>1
    <3>2. EmailsAreUnique /\ Holders(key) \ {id} = {}
      BY <2>1 DEF RecordInv
    <3>3. \A a \in DOMAIN rows : a # id =>
             a \in DOMAIN record["realtors"] /\ rows[a] = record["realtors"][a]
      BY <1>6, <2>1
    <3> QED BY <1>3, <1>6, <3>1, <3>2, <3>3, OneMoreEmail
  <2> QED BY <2>1
<1>10. \A s \in DOMAIN Dealings : s # r /\ dealing[s].at # "start" =>
          /\ dropped[s] \subseteq dropped'[s]
          /\ \A i \in DOMAIN record[t] :
                record[t][i].live => rows[i].live \/ <<t, i>> \in dropped'[s]
  <2>1. \A i \in DOMAIN record[t] : record[t][i].live => rows[i].live
    BY <1>3, <1>6
  <2> QED BY <2>1
<1>11. DOMAIN dropped' = DOMAIN Dealings /\ UNCHANGED marketBook
  BY <1>1
<1> QED BY <1>5, <1>6, <1>7, <1>8, <1>9, <1>10, <1>11, RowsWritten

LEMMA FindFeeInv ==
    ASSUME RecordInv, NEW r \in DOMAIN Dealings, FindFee(r)
    PROVE  RecordInv'
<1> DEFINE fits == {id \in LiveIds("fees") : record["fees"][id].key >= Dealt(r).area}
           best == CHOOSE id \in fits : \A o \in fits :
                       record["fees"][id].key <= record["fees"][o].key
<1>1. Dealt(r).op = "fee" /\ UNCHANGED <<record, marketBook, dropped>>
  BY DEF FindFee, Takes
<1>2. CASE fits = {}
  BY <1>1, <1>2, Closing404 DEF FindFee
<1>3. CASE fits # {}
  <2>1. Shows(r, best)
    BY <1>3 DEF FindFee
  <2> HIDE DEF best, fits
  <2>2. DOMAIN dealing = DOMAIN Dealings /\ DOMAIN dealing[r] = {"at", "copy", "reply"}
    BY DEF RecordInv, RecordTyped
  <2>3. PICK q : q = [dealing[r] EXCEPT !.at = "done", !.reply = 200, !.copy = best]
    OBVIOUS
  <2>4. dealing' = [dealing EXCEPT ![r] = q]
    BY <2>1, <2>2, <2>3 DEF Shows
  <2>5. DOMAIN q = {"at", "copy", "reply"} /\ q.at = "done"
    BY <2>2, <2>3
  <2>6. dealing'[r] = q
    BY <2>2, <2>4
  <2>7. DealingKept(r)' /\ HidesTheDeleted(r)'
    BY <1>1, <2>5, <2>6 DEF DealingKept, HidesTheDeleted, Read
  <2> QED BY <1>1, <2>4, <2>5, <2>7, Looking
<1> QED BY <1>2, <1>3

\* The email of a request is no email or one the model has a form for.
LEMMA RealtorEmails ==
    ASSUME NEW r \in DOMAIN Dealings, Dealt(r).op \in {"create realtor", "patch realtor"}
    PROVE  Dealt(r).email \in DOMAIN EmailForms \cup {None}
BY RecordAssumption

\* A refused email leads to the search for its holder.
LEMMA RefusedEmail ==
    ASSUME RecordInv, NEW r \in DOMAIN Dealings,
           Dealt(r).op \in {"create realtor", "patch realtor"}, Dealt(r).email # None,
           Goes(r, "duplicate"), dealing[r].at = "start", UNCHANGED <<record, marketBook, dropped>>
    PROVE  RecordInv'
<1>1. dealing'[r].at = "duplicate" /\ dealing'[r].reply = None
  BY Going
<1>2. DealingKept(r)'
  BY <1>1 DEF DealingKept, Read
<1> QED BY <1>2, GoingOn

LEMMA CreateRealtorInv ==
    ASSUME RecordInv, NEW r \in DOMAIN Dealings, CreateRealtor(r)
    PROVE  RecordInv' /\ NamesTheLiving(r)
<1>1. Dealt(r).op = "create realtor" /\ dealing[r].at = "start"
      /\ UNCHANGED <<marketBook, dropped>>
  BY DEF CreateRealtor, Takes
<1>2. CASE Holders(Dealt(r).email) # {}
  <2>1. Dealt(r).email # None
    BY <1>2 DEF Holders
  <2>2. Goes(r, "duplicate") /\ UNCHANGED record
    BY <1>2 DEF CreateRealtor
  <2>3. RecordInv'
    BY <1>1, <2>1, <2>2, RefusedEmail
  <2> QED BY <1>1, <2>3 DEF NamesTheLiving
<1>3. CASE Holders(Dealt(r).email) = {}
  <2>1. AddRecord("realtors", Dealt(r).email) /\ Closes(r, 201)
    BY <1>3 DEF CreateRealtor
  <2>2. PICK email : email = Dealt(r).email
    OBVIOUS
  <2>3. email \in DOMAIN EmailForms \cup {None}
    BY <1>1, <2>2, RealtorEmails
  <2>4. "realtors" \in RecordTables
    BY DEF RecordTables
  <2>5. AddRecord("realtors", email) /\ Holders(email) = {}
    BY <1>3, <2>1, <2>2
  <2>6. Dealt(r).op # "read"
    BY <1>1
  <2> QED BY ONLY RecordInv, r \in DOMAIN Dealings, <1>1, <2>1, <2>3, <2>4, <2>5, <2>6, AddRecordInv
<1> QED BY <1>2, <1>3

LEMMA PatchRealtorInv ==
    ASSUME RecordInv, NEW r \in DOMAIN Dealings, PatchRealtor(r)
    PROVE  RecordInv' /\ NamesTheLiving(r)
<1>1. Dealt(r).op = "patch realtor" /\ dealing[r].at = "start" /\ Dealt(r).op # "read"
      /\ UNCHANGED <<marketBook, dropped>>
  BY DEF PatchRealtor, Takes
<1>2. PICK id, email : id = Dealt(r).on /\ email = Dealt(r).email
  OBVIOUS
<1>3. CASE id \notin LiveIds("realtors")
  <2>1. Closes(r, 404) /\ UNCHANGED record
    BY <1>2, <1>3 DEF PatchRealtor
  <2>2. RecordInv'
    BY <1>1, <2>1, Closing404
  <2> QED BY <1>1, <2>2 DEF NamesTheLiving
<1>4. CASE id \in LiveIds("realtors") /\ Holders(email) \ {id} # {}
  <2>1. email # None
    BY <1>4 DEF Holders
  <2>2. Goes(r, "duplicate") /\ UNCHANGED record
    BY <1>2, <1>4 DEF PatchRealtor
  <2>3. RecordInv'
    BY <1>1, <1>2, <2>1, <2>2, RefusedEmail
  <2> QED BY <1>1, <2>3 DEF NamesTheLiving
<1>5. CASE id \in LiveIds("realtors") /\ Holders(email) \ {id} = {}
  <2>1. record' = [record EXCEPT !["realtors"][id].key = email] /\ Closes(r, 200)
    BY <1>2, <1>5 DEF PatchRealtor
  <2>2. email \in DOMAIN EmailForms \cup {None}
    BY <1>1, <1>2, RealtorEmails
  <2>3. "realtors" \in RecordTables /\ id \in DOMAIN record["realtors"]
    BY <1>5 DEF RecordTables, LiveIds
  <2> QED BY ONLY RecordInv, r \in DOMAIN Dealings, <1>1, <1>5, <2>1, <2>2, <2>3, PatchKeyInv
<1> QED BY <1>3, <1>4, <1>5

LEMMA CreateRecordInv ==
    ASSUME RecordInv, NEW r \in DOMAIN Dealings, CreateRecord(r)
    PROVE  RecordInv' /\ NamesTheLiving(r)
<1>1. /\ Dealt(r).op = "create" /\ Dealt(r).op # "read" /\ UNCHANGED <<marketBook, dropped>>
      /\ Closes(r, 201)
  BY DEF CreateRecord, Takes
<1>2. PICK t, key : t = Dealt(r).table /\ key = Dealt(r).key
  OBVIOUS
<1>3. AddRecord(t, key)
  BY <1>2 DEF CreateRecord
<1>4. t \in RecordTables /\ t # "realtors"
  BY <1>1, <1>2, RecordAssumption
<1> QED BY ONLY RecordInv, r \in DOMAIN Dealings, <1>1, <1>3, <1>4, AddRecordInv

LEMMA PatchRecordInv ==
    ASSUME RecordInv, NEW r \in DOMAIN Dealings, PatchRecord(r)
    PROVE  RecordInv' /\ NamesTheLiving(r)
<1>1. Dealt(r).op = "patch" /\ Dealt(r).op # "read" /\ UNCHANGED <<marketBook, dropped>>
  BY DEF PatchRecord, Takes
<1>2. PICK t, id, key : t = Dealt(r).table /\ id = Dealt(r).on /\ key = Dealt(r).key
  OBVIOUS
<1>3. CASE id \notin LiveIds(t)
  <2>1. Closes(r, 404) /\ UNCHANGED record
    BY <1>2, <1>3 DEF PatchRecord
  <2>2. RecordInv'
    BY <1>1, <2>1, Closing404
  <2> QED BY <1>1, <2>2 DEF NamesTheLiving
<1>4. CASE id \in LiveIds(t)
  <2>1. record' = [record EXCEPT ![t][id].key = key] /\ Closes(r, 200)
    BY <1>2, <1>4 DEF PatchRecord
  <2>2. t \in RecordTables /\ t # "realtors"
    BY <1>1, <1>2, RecordAssumption
  <2>3. id \in DOMAIN record[t]
    BY <1>4 DEF LiveIds
  <2> QED BY ONLY RecordInv, r \in DOMAIN Dealings, <1>1, <2>1, <2>2, <2>3, PatchKeyInv
<1> QED BY <1>3, <1>4

LEMMA DeleteRecordInv ==
    ASSUME RecordInv, NEW r \in DOMAIN Dealings, DeleteRecord(r)
    PROVE  RecordInv' /\ NamesTheLiving(r)
<1>1. Dealt(r).op = "delete" /\ Dealt(r).op # "read" /\ UNCHANGED marketBook
  BY DEF DeleteRecord, Takes
<1>2. PICK t, id : t = Dealt(r).table /\ id = Dealt(r).on
  OBVIOUS
<1>3. CASE id \notin LiveIds(t)
  <2>1. Closes(r, 404) /\ UNCHANGED <<record, dropped>>
    BY <1>2, <1>3 DEF DeleteRecord
  <2>2. RecordInv'
    BY <1>1, <2>1, Closing404
  <2> QED BY <1>1, <2>2 DEF NamesTheLiving
<1>4. CASE id \in LiveIds(t)
  <2>1. /\ record' = [record EXCEPT ![t][id].live = FALSE] /\ Closes(r, 200)
        /\ dropped' = [s \in DOMAIN dropped |-> IF dealing[s].at = "start" THEN dropped[s]
                              ELSE dropped[s] \cup {<<t, id>>}]
    BY <1>2, <1>4 DEF DeleteRecord
  <2>2. t \in RecordTables
    BY <1>1, <1>2, RecordAssumption
  <2>3. id \in DOMAIN record[t]
    BY <1>4 DEF LiveIds
  <2>4. /\ DOMAIN record = RecordTables /\ record[t] \in Seq(ToSet(record[t]))
        /\ DOMAIN dropped = DOMAIN Dealings /\ DOMAIN record[t][id] = {"key", "live"}
    BY <2>2, <2>3 DEF RecordInv, RecordTyped, RowsTyped
  <2>5. PICK row : row = [record[t][id] EXCEPT !.live = FALSE]
    OBVIOUS
  <2>6. DOMAIN row = {"key", "live"} /\ row.live = FALSE /\ row.key = record[t][id].key
    BY <2>4, <2>5
  <2>7. PICK rows : rows = [record[t] EXCEPT ![id] = row]
    OBVIOUS
  <2>8. record' = [record EXCEPT ![t] = rows]
    BY <2>1, <2>2, <2>3, <2>4, <2>5, <2>7
  <2>9. /\ rows \in Seq(ToSet(rows)) /\ DOMAIN rows = DOMAIN record[t] /\ rows[id] = row
        /\ \A i \in DOMAIN record[t] : i # id => rows[i] = record[t][i]
    BY <2>3, <2>4, <2>7, Changed
  <2>10. \A i \in DOMAIN rows : DOMAIN rows[i] = {"key", "live"} /\ rows[i].live \in BOOLEAN
    <3>1. \A i \in DOMAIN record[t] :
             DOMAIN record[t][i] = {"key", "live"} /\ record[t][i].live \in BOOLEAN
      BY <2>2 DEF RecordInv, RecordTyped, RowsTyped
    <3>2. row.live \in BOOLEAN /\ DOMAIN row = {"key", "live"}
      BY <2>6
    <3> QED BY ONLY <2>9, <3>1, <3>2
  <2>11. t = "realtors" => \A i \in DOMAIN rows : rows[i].key \in DOMAIN EmailForms \cup {None}
    BY <2>3, <2>6, <2>9 DEF RecordInv, RecordTyped, RowsTyped
  <2>12. t = "realtors" => EmailsAreUnique'
    <3>1. ASSUME t = "realtors", NEW a \in LiveIds("realtors")'
          PROVE  a \in LiveIds("realtors") /\ record'["realtors"][a].key = record["realtors"][a].key
      BY <2>2, <2>4, <2>6, <2>8, <2>9, <3>1 DEF LiveIds
    <3>2. EmailsAreUnique
      BY DEF RecordInv
    <3> QED BY <3>1, <3>2 DEF EmailsAreUnique
  <2>13. \A s \in DOMAIN Dealings : s # r /\ dealing[s].at # "start" =>
            /\ dropped[s] \subseteq dropped'[s]
            /\ \A i \in DOMAIN record[t] :
                  record[t][i].live => rows[i].live \/ <<t, i>> \in dropped'[s]
    <3>1. \A s \in DOMAIN Dealings : dealing[s].at # "start" =>
             dropped'[s] = dropped[s] \cup {<<t, id>>}
      BY <2>1, <2>4
    <3>2. \A i \in DOMAIN record[t] : i # id => (record[t][i].live => rows[i].live)
      BY <2>9
    <3> QED BY <3>1, <3>2
  <2>14. DOMAIN dropped' = DOMAIN Dealings
    BY <2>1, <2>4
  <2> QED BY ONLY RecordInv, r \in DOMAIN Dealings, <1>1, <2>1, <2>2, <2>8, <2>9, <2>10, <2>11,
                  <2>12, <2>13, <2>14, RowsWritten
<1> QED BY <1>3, <1>4

\* Only books change.
LEMMA BooksWritten ==
    ASSUME RecordInv, NEW r \in DOMAIN Dealings, NEW code, Closes(r, code), Dealt(r).op # "read",
           UNCHANGED <<record, dropped>>, BooksTyped', NamesTheLiving(r)
    PROVE  RecordInv'
<1>1. RowsTyped' /\ DOMAIN dropped' = DOMAIN Dealings
  BY DEF RecordInv, RecordTyped, RowsTyped
<1>2. EmailsAreUnique'
  BY DEF RecordInv, EmailsAreUnique, LiveIds
<1>3. \A s, t : WereLive(s, t)' = WereLive(s, t)
  BY DEF WereLive, LiveIds
<1> QED BY <1>1, <1>2, <1>3, Written

LEMMA DeleteBookInv ==
    ASSUME RecordInv, NEW r \in DOMAIN Dealings, DeleteBook(r)
    PROVE  RecordInv' /\ NamesTheLiving(r)
<1>1. Dealt(r).op = "delete market" /\ Dealt(r).op # "read" /\ UNCHANGED <<record, dropped>>
  BY DEF DeleteBook, Takes
<1>2. PICK k : k = Dealt(r).on
  OBVIOUS
<1>3. CASE ~LiveBook(k)
  <2>1. Closes(r, 404) /\ UNCHANGED marketBook
    BY <1>2, <1>3 DEF DeleteBook
  <2>2. RecordInv'
    BY <1>1, <2>1, Closing404
  <2> QED BY <2>1, <2>2 DEF NamesTheLiving
<1>4. CASE LiveBook(k)
  <2>1. marketBook' = [marketBook EXCEPT ![k].live = FALSE] /\ Closes(r, 200)
    BY <1>2, <1>4 DEF DeleteBook
  <2>2. k \in DOMAIN marketBook
    BY <1>4 DEF LiveBook
  <2>3. /\ marketBook \in Seq(ToSet(marketBook))
        /\ \A m \in DOMAIN marketBook : /\ DOMAIN marketBook[m] = {"slug", "lists", "live"}
                                        /\ DOMAIN marketBook[m].lists = ListedTables
    BY DEF RecordInv, RecordTyped, BooksTyped
  <2>4. PICK book : book = [marketBook[k] EXCEPT !.live = FALSE]
    OBVIOUS
  <2>5. DOMAIN book = {"slug", "lists", "live"} /\ book.lists = marketBook[k].lists
    BY <2>2, <2>3, <2>4
  <2>6. marketBook' = [marketBook EXCEPT ![k] = book]
    BY <2>1, <2>2, <2>4
  <2>7. BooksTyped'
    BY <2>2, <2>3, <2>5, <2>6, Changed DEF BooksTyped
  <2>8. NamesTheLiving(r)
    BY <2>2, <2>5, <2>6 DEF NamesTheLiving
  <2> QED BY <1>1, <2>1, <2>7, <2>8, BooksWritten
<1> QED BY <1>3, <1>4

\* What a market may be saved with.
LEMMA SavedLists ==
    ASSUME RecordInv, NEW r \in DOMAIN Dealings, dealing[r].at = "save", UNCHANGED <<record, dropped>>,
           NEW t \in ListedTables, t \in DOMAIN Dealt(r).lists
    PROVE  ToSet(Dealt(r).lists[t]) \subseteq WereLive(r, t)'
<1>1. Carried(r, t) \subseteq WereLive(r, t)
  BY DEF RecordInv, DealingKept, ListedTables
<1> QED BY <1>1 DEF Carried, WereLive, LiveIds

LEMMA SaveBookInv ==
    ASSUME RecordInv, NEW r \in DOMAIN Dealings, SaveBook(r)
    PROVE  RecordInv' /\ NamesTheLiving(r)
<1>1. Dealt(r).op # "read" /\ dealing[r].at = "save" /\ UNCHANGED <<record, dropped>>
  BY DEF SaveBook
<1>2. PICK k : k = Dealt(r).on
  OBVIOUS
<1>3. CASE ~LiveBook(k)
  <2>1. Closes(r, 404) /\ UNCHANGED marketBook
    BY <1>2, <1>3 DEF SaveBook
  <2>2. RecordInv'
    BY <1>1, <2>1, Closing404
  <2> QED BY <2>1, <2>2 DEF NamesTheLiving
<1>4. CASE LiveBook(k)
  <2> DEFINE lists == [t \in DOMAIN marketBook[k].lists |->
                          IF t \in DOMAIN Dealt(r).lists THEN Dealt(r).lists[t]
                          ELSE marketBook[k].lists[t]]
  <2>1. k \in DOMAIN marketBook
    BY <1>4 DEF LiveBook
  <2>2. /\ marketBook \in Seq(ToSet(marketBook))
        /\ \A m \in DOMAIN marketBook : /\ DOMAIN marketBook[m] = {"slug", "lists", "live"}
                                        /\ DOMAIN marketBook[m].lists = ListedTables
    BY DEF RecordInv, RecordTyped, BooksTyped
  <2>3. Closes(r, 200) /\ marketBook' = [marketBook EXCEPT ![k].lists = lists]
    BY <1>2, <1>4 DEF SaveBook
  <2>4. /\ DOMAIN lists = ListedTables
        /\ \A t \in ListedTables : \/ lists[t] = marketBook[k].lists[t]
                                   \/ ToSet(lists[t]) \subseteq WereLive(r, t)'
    <3>1. DOMAIN marketBook[k].lists = ListedTables
      BY <2>1, <2>2
    <3>2. \A t \in ListedTables : t \in DOMAIN Dealt(r).lists =>
             ToSet(Dealt(r).lists[t]) \subseteq WereLive(r, t)'
      BY <1>1, SavedLists
    <3> QED BY <3>1, <3>2
  <2> HIDE DEF lists
  <2>5. PICK book : book = [marketBook[k] EXCEPT !.lists = lists]
    OBVIOUS
  <2>6. DOMAIN book = {"slug", "lists", "live"} /\ book.lists = lists
    BY <2>1, <2>2, <2>5
  <2>7. marketBook' = [marketBook EXCEPT ![k] = book]
    BY <2>1, <2>3, <2>5
  <2>8. BooksTyped'
    BY <2>1, <2>2, <2>4, <2>6, <2>7, Changed DEF BooksTyped
  <2>9. NamesTheLiving(r)
    BY <2>1, <2>4, <2>6, <2>7 DEF NamesTheLiving
  <2> QED BY <1>1, <2>3, <2>8, <2>9, BooksWritten
<1> QED BY <1>3, <1>4

LEMMA CreateBookInv ==
    ASSUME RecordInv, NEW r \in DOMAIN Dealings, CreateBook(r)
    PROVE  RecordInv' /\ NamesTheLiving(r)
<1> DEFINE taken == \E k \in DOMAIN marketBook : LiveBook(k) /\ marketBook[k].slug = Dealt(r).slug
           lists == [t \in ListedTables |-> IF t \in DOMAIN Dealt(r).lists
                                            THEN Dealt(r).lists[t] ELSE <<>>]
<1>1. /\ dealing[r].at = "save" /\ Dealt(r).op = "create market" /\ Dealt(r).op # "read"
      /\ UNCHANGED <<record, dropped>>
  BY DEF CreateBook
<1>2. CASE taken
  <2>1. Closes(r, 500) /\ UNCHANGED marketBook
    BY <1>2 DEF CreateBook
  <2>2. RecordInv'
    BY <1>1, <2>1, Closing404, ZenonT(30)
  <2> QED BY <2>1, <2>2 DEF NamesTheLiving
<1>3. CASE ~taken
  <2>1. PICK book : book = [slug |-> Dealt(r).slug, live |-> TRUE, lists |-> lists]
    OBVIOUS
  <2>2. Closes(r, 201) /\ marketBook' = Append(marketBook, book)
    BY <1>3, <2>1 DEF CreateBook
  <2>3. /\ marketBook \in Seq(ToSet(marketBook))
        /\ \A m \in DOMAIN marketBook : /\ DOMAIN marketBook[m] = {"slug", "lists", "live"}
                                        /\ DOMAIN marketBook[m].lists = ListedTables
    BY DEF RecordInv, RecordTyped, BooksTyped
  <2>4. \A t \in ListedTables : ToSet(lists[t]) \subseteq WereLive(r, t)'
    <3>1. \A t \in ListedTables : t \in DOMAIN Dealt(r).lists =>
             ToSet(Dealt(r).lists[t]) \subseteq WereLive(r, t)'
      BY <1>1, SavedLists
    <3>2. ToSet(<<>>) = {}
      BY DEF ToSet
    <3> QED BY <3>1, <3>2
  <2>5. DOMAIN lists = ListedTables
    OBVIOUS
  <2> HIDE DEF lists
  <2>6. DOMAIN book = {"slug", "lists", "live"} /\ book.lists = lists
    BY <2>1
  <2>7. PICK books : books = Append(marketBook, book)
    OBVIOUS
  <2>8. /\ books \in Seq(ToSet(books)) /\ books[Len(marketBook) + 1] = book
        /\ \A i \in DOMAIN books : i \in DOMAIN marketBook \/ i = Len(marketBook) + 1
        /\ \A i \in DOMAIN marketBook : books[i] = marketBook[i]
    BY <2>3, <2>7, Appended
  <2>9. marketBook' = books
    BY <2>2, <2>7
  <2>10. BooksTyped'
    BY <2>3, <2>5, <2>6, <2>8, <2>9 DEF BooksTyped
  <2>11. NamesTheLiving(r)
    BY <2>4, <2>6, <2>8, <2>9 DEF NamesTheLiving
  <2> QED BY <1>1, <2>2, <2>10, <2>11, BooksWritten
<1> QED BY <1>2, <1>3

LEMMA ReadMappedInv ==
    ASSUME RecordInv, NEW r \in DOMAIN Dealings, ReadMapped(r)
    PROVE  RecordInv'
<1>1. Dealt(r).op = "seed amenities" /\ dealing[r].at = "start"
      /\ UNCHANGED <<record, marketBook, dropped>>
  BY DEF ReadMapped, Takes
<1>2. CASE ToSet(Dealt(r).ids) \subseteq LiveIds("amenities")
  <2>1. Goes(r, "amenity seed")
    BY <1>2 DEF ReadMapped
  <2>2. ToSet(Dealt(r).ids) \subseteq WereLive(r, "amenities")'
    BY <1>1, <1>2 DEF WereLive, LiveIds
  <2>3. dealing'[r].at = "amenity seed" /\ dealing'[r].reply = None
    BY <1>1, <2>1, Going
  <2>4. DealingKept(r)'
    BY <1>1, <2>2, <2>3 DEF DealingKept, Read
  <2> QED BY <1>1, <2>1, <2>4, GoingOn
<1>3. CASE ~(ToSet(Dealt(r).ids) \subseteq LiveIds("amenities"))
  <2>1. Closes(r, 0)
    BY <1>3 DEF ReadMapped
  <2> QED BY <1>1, <2>1, Closing404
<1> QED BY <1>2, <1>3

\* A script that is under way is not a read.
LEMMA SeedsDoNotRead ==
    ASSUME RecordInv, NEW r \in DOMAIN Dealings, dealing[r].at \in {"realtor seed", "amenity seed"}
    PROVE  Dealt(r).op # "read"
BY DEF RecordInv, DealingKept

LEMMA SeedAmenitiesInv ==
    ASSUME RecordInv, NEW r \in DOMAIN Dealings, SeedAmenities(r)
    PROVE  RecordInv' /\ NamesTheLiving(r)
<1>1. dealing[r].at = "amenity seed" /\ Closes(r, 0) /\ UNCHANGED <<record, dropped>>
  BY DEF SeedAmenities
<1>2. PICK ids, slug : ids = Dealt(r).ids /\ slug = Dealt(r).market
  OBVIOUS
<1>3. ToSet(ids) \subseteq WereLive(r, "amenities")'
  <2>1. ToSet(ids) \subseteq WereLive(r, "amenities")
    BY <1>1, <1>2 DEF RecordInv, DealingKept
  <2> QED BY <1>1, <2>1 DEF WereLive, LiveIds
<1>4. Dealt(r).op # "read"
  BY <1>1, SeedsDoNotRead
<1>5. /\ marketBook \in Seq(ToSet(marketBook))
      /\ \A m \in DOMAIN marketBook : /\ DOMAIN marketBook[m] = {"slug", "lists", "live"}
                                      /\ DOMAIN marketBook[m].lists = ListedTables
  BY DEF RecordInv, RecordTyped, BooksTyped
<1> DEFINE books == [k \in DOMAIN marketBook |-> IF LiveBook(k) /\ marketBook[k].slug = slug
                       THEN [marketBook[k] EXCEPT !.lists["amenities"] = ids] ELSE marketBook[k]]
<1>6. marketBook' = books
  BY <1>2 DEF SeedAmenities
<1>7. DOMAIN books = DOMAIN marketBook /\ books = [k \in DOMAIN marketBook |-> books[k]]
  OBVIOUS
<1>8. ASSUME NEW k \in DOMAIN marketBook
      PROVE  /\ DOMAIN books[k] = {"slug", "lists", "live"} /\ DOMAIN books[k].lists = ListedTables
             /\ \A t \in ListedTables : \/ books[k].lists[t] = marketBook[k].lists[t]
                                        \/ ToSet(books[k].lists[t]) \subseteq WereLive(r, t)'
  <2>1. CASE LiveBook(k) /\ marketBook[k].slug = slug
    <3>1. PICK lists : lists = [marketBook[k].lists EXCEPT !["amenities"] = ids]
      OBVIOUS
    <3>2. books[k] = [marketBook[k] EXCEPT !.lists = lists]
      BY <2>1, <3>1, <1>5
    <3>3. DOMAIN lists = ListedTables /\ lists["amenities"] = ids
          /\ \A t \in ListedTables : t # "amenities" => lists[t] = marketBook[k].lists[t]
      BY <3>1, <1>5 DEF ListedTables
    <3>4. DOMAIN books[k] = {"slug", "lists", "live"} /\ books[k].lists = lists
      BY <3>2, <1>5
    <3> HIDE DEF books
    <3>5. \A t \in ListedTables : \/ lists[t] = marketBook[k].lists[t]
                                  \/ ToSet(lists[t]) \subseteq WereLive(r, t)'
      BY <1>3, <3>3
    <3> QED BY <3>3, <3>4, <3>5
  <2>2. CASE ~(LiveBook(k) /\ marketBook[k].slug = slug)
    <3>1. books[k] = marketBook[k]
      BY <2>2
    <3> QED BY <3>1, <1>5
  <2> QED BY <2>1, <2>2
<1> HIDE DEF books
<1>9. books \in Seq(ToSet(books))
  BY <1>5, <1>7, SameLength
<1>10. BooksTyped'
  BY <1>6, <1>7, <1>8, <1>9 DEF BooksTyped
<1>11. NamesTheLiving(r)
  BY <1>6, <1>7, <1>8 DEF NamesTheLiving
<1> QED BY <1>1, <1>4, <1>10, <1>11, BooksWritten

LEMMA ReadRealtorsInv ==
    ASSUME RecordInv, NEW r \in DOMAIN Dealings, ReadRealtors(r)
    PROVE  RecordInv'
<1> DEFINE emails == {l.email : l \in Dealt(r).lines} \ {None}
           Known(e) == {id \in LiveIds("realtors") :
                          LET key == record["realtors"][id].key
                          IN  key # None /\ EmailForms[key].base = EmailForms[e].base}
           known == [e \in emails |-> Known(e)]
<1>1. Dealt(r).op = "seed realtors" /\ dealing[r].at = "start"
      /\ UNCHANGED <<record, marketBook, dropped>>
  BY DEF ReadRealtors, Takes
<1>2. CASE emails = {}
  <2>1. Closes(r, 0)
    BY <1>2 DEF ReadRealtors
  <2> QED BY <1>1, <2>1, Closing404
<1>3. CASE emails # {}
  <2>1. dealing' = [dealing EXCEPT ![r].at = "realtor seed", ![r].copy = known]
    BY <1>3 DEF ReadRealtors
  <2>2. DOMAIN known = emails /\ \A e \in emails : known[e] \subseteq LiveIds("realtors")
    OBVIOUS
  <2> HIDE DEF known
  <2>3. /\ DOMAIN dealing = DOMAIN Dealings /\ DOMAIN dealing[r] = {"at", "copy", "reply"}
        /\ dealing[r].reply = None
    BY <1>1 DEF RecordInv, RecordTyped, DealingKept
  <2>4. PICK q : q = [dealing[r] EXCEPT !.at = "realtor seed", !.copy = known]
    OBVIOUS
  <2>5. dealing' = [dealing EXCEPT ![r] = q]
    BY <2>1, <2>3, <2>4
  <2>6. DOMAIN q = {"at", "copy", "reply"} /\ q.at = "realtor seed" /\ q.reply = None
        /\ q.copy = known
    BY <2>3, <2>4
  <2>7. dealing'[r] = q
    BY <2>3, <2>5
  <2>8. \A e \in emails : known[e] \subseteq WereLive(r, "realtors")'
    BY <1>1, <2>2 DEF WereLive, LiveIds
  <2>9. DealingKept(r)' /\ HidesTheDeleted(r)'
    BY <1>1, <2>2, <2>6, <2>7, <2>8 DEF DealingKept, HidesTheDeleted, Read
  <2> QED BY <1>1, <2>5, <2>6, <2>9, Looking
<1> QED BY <1>2, <1>3

\* The emails of a script: each has a form of its own, without a tab.
LEMMA ScriptEmails ==
    ASSUME NEW r \in DOMAIN Dealings, Dealt(r).op = "seed realtors",
           NEW emails, emails = {l.email : l \in Dealt(r).lines} \ {None}
    PROVE  /\ IsFiniteSet(emails) /\ emails \subseteq DOMAIN EmailForms
           /\ \A e, f \in emails : EmailForms[e] = EmailForms[f] => e = f
<1> DEFINE found == {l.email : l \in Dealt(r).lines} \ {None}
<1>1. /\ IsFiniteSet(found) /\ found \subseteq DOMAIN EmailForms
      /\ \A e, f \in found : EmailForms[e] = EmailForms[f] => e = f
  BY RecordAssumption, ZenonT(30)
<1> HIDE DEF found
<1>2. emails = found
  BY DEF found
<1> QED BY <1>1, <1>2

\* NULL is no email.
LEMMA NoForm == None \notin DOMAIN EmailForms
BY RecordAssumption

\* The realtors that a script adds.
LEMMA AddedRealtors ==
    ASSUME RecordInv, NEW STATE fresh, fresh \in Seq(ToSet(fresh)), ToSet(fresh) \subseteq DOMAIN EmailForms,
           \A i, j \in DOMAIN fresh : EmailForms[fresh[i]] = EmailForms[fresh[j]] => i = j,
           \A e \in ToSet(fresh) : Holders(e) = {},
           record' = [record EXCEPT !["realtors"] =
                        @ \o [i \in DOMAIN fresh |-> [key |-> fresh[i], live |-> TRUE]]]
    PROVE  /\ RowsTyped' /\ EmailsAreUnique'
           /\ \A t \in ListedTables : /\ DOMAIN record[t] \subseteq DOMAIN record'[t]
                                      /\ \A i \in DOMAIN record[t] : record'[t][i] = record[t][i]
           /\ \A i \in DOMAIN fresh : Len(record["realtors"]) + i \in LiveIds("realtors")'
<1>1. PICK old : old = record["realtors"]
  OBVIOUS
<1>2. PICK new : new = [i \in DOMAIN fresh |-> [key |-> fresh[i], live |-> TRUE]]
  OBVIOUS
<1>3. DOMAIN new = DOMAIN fresh /\ \A i \in DOMAIN fresh :
        DOMAIN new[i] = {"key", "live"} /\ new[i].key = fresh[i] /\ new[i].live = TRUE
  BY <1>2
<1>4. new \in Seq(ToSet(new))
  <2>1. new = [i \in DOMAIN fresh |-> new[i]]
    BY <1>2
  <2> QED BY <1>3, <2>1, SameLength
<1>5. PICK rows : rows = old \o new
  OBVIOUS
<1>6. /\ DOMAIN record = RecordTables /\ old \in Seq(ToSet(old))
      /\ \A i \in DOMAIN old : /\ DOMAIN old[i] = {"key", "live"} /\ old[i].live \in BOOLEAN
                               /\ old[i].key \in DOMAIN EmailForms \cup {None}
  BY <1>1 DEF RecordInv, RecordTyped, RowsTyped, RecordTables
<1>7. /\ rows \in Seq(ToSet(rows)) /\ DOMAIN old \subseteq DOMAIN rows
      /\ \A i \in DOMAIN old : rows[i] = old[i]
      /\ \A i \in DOMAIN new : Len(old) + i \in DOMAIN rows /\ rows[Len(old) + i] = new[i]
      /\ \A i \in DOMAIN rows : i \in DOMAIN old \/ \E j \in DOMAIN new : i = Len(old) + j
  BY <1>4, <1>5, <1>6, Extended
<1>8. DOMAIN record' = RecordTables /\ record'["realtors"] = rows
      /\ \A t \in RecordTables : t # "realtors" => record'[t] = record[t]
  BY <1>1, <1>2, <1>5, <1>6 DEF RecordTables
<1>9. \A i \in DOMAIN rows : /\ DOMAIN rows[i] = {"key", "live"} /\ rows[i].live \in BOOLEAN
                             /\ rows[i].key \in DOMAIN EmailForms \cup {None}
  <2>1. ASSUME NEW j \in DOMAIN new
        PROVE  /\ DOMAIN new[j] = {"key", "live"} /\ new[j].live \in BOOLEAN
               /\ new[j].key \in DOMAIN EmailForms \cup {None}
    <3>1. fresh[j] \in ToSet(fresh)
      BY <1>3 DEF ToSet
    <3> QED BY <1>3, <3>1
  <2> QED BY ONLY <1>6, <1>7, <2>1
<1>10. RowsTyped'
  <2>1. \A t \in RecordTables :
          /\ record'[t] \in Seq(ToSet(record'[t]))
          /\ \A id \in DOMAIN record'[t] : /\ DOMAIN record'[t][id] = {"key", "live"}
                                           /\ record'[t][id].live \in BOOLEAN
    <3>1. ASSUME NEW t \in RecordTables, t # "realtors"
          PROVE  /\ record'[t] \in Seq(ToSet(record'[t]))
                 /\ \A id \in DOMAIN record'[t] : /\ DOMAIN record'[t][id] = {"key", "live"}
                                                  /\ record'[t][id].live \in BOOLEAN
      BY <1>8, <3>1, ZenonT(30) DEF RecordInv, RecordTyped, RowsTyped
    <3>2. /\ rows \in Seq(ToSet(rows))
          /\ \A id \in DOMAIN rows : DOMAIN rows[id] = {"key", "live"} /\ rows[id].live \in BOOLEAN
      BY <1>7, <1>9
    <3> QED BY ONLY <1>8, <3>1, <3>2
  <2> QED BY <1>8, <1>9, <2>1 DEF RowsTyped
<1>11. EmailsAreUnique'
  <2>1. ASSUME NEW i \in DOMAIN old, NEW j \in DOMAIN new, old[i].live, old[i].key # None
        PROVE  EmailForms[old[i].key] # EmailForms[new[j].key]
    <3>1. fresh[j] \in ToSet(fresh) /\ new[j].key = fresh[j]
      BY <1>3 DEF ToSet
    <3>2. i \notin Holders(fresh[j]) /\ fresh[j] # None
      <4>1. fresh[j] \in DOMAIN EmailForms /\ Holders(fresh[j]) = {}
        BY <3>1
      <4> QED BY <4>1, NoForm
    <3>3. i \in LiveIds("realtors") /\ record["realtors"][i].key = old[i].key
      BY <1>1, <2>1 DEF LiveIds
    <3>4. EmailForms[old[i].key] # EmailForms[fresh[j]]
      BY <2>1, <3>2, <3>3 DEF Holders, IndexKey
    <3> QED BY <3>1, <3>4
  <2>2. ASSUME NEW i \in DOMAIN rows, NEW j \in DOMAIN rows, rows[i].live, rows[j].live,
               rows[i].key # None, rows[j].key # None,
               EmailForms[rows[i].key] = EmailForms[rows[j].key]
        PROVE  i = j
    <3>1. CASE i \in DOMAIN old /\ j \in DOMAIN old
      <4>1. EmailsAreUnique
        BY DEF RecordInv
      <4> QED BY <1>1, <1>7, <2>2, <3>1, <4>1 DEF EmailsAreUnique, LiveIds
    <3>2. CASE i \in DOMAIN old /\ j \notin DOMAIN old
      <4>1. PICK b \in DOMAIN new : j = Len(old) + b
        BY <1>7, <3>2
      <4> QED BY <1>7, <2>1, <2>2, <3>2, <4>1
    <3>3. CASE i \notin DOMAIN old /\ j \in DOMAIN old
      <4>1. PICK a \in DOMAIN new : i = Len(old) + a
        BY <1>7, <3>3
      <4> QED BY <1>7, <2>1, <2>2, <3>3, <4>1
    <3>4. CASE i \notin DOMAIN old /\ j \notin DOMAIN old
      <4>1. PICK a \in DOMAIN new, b \in DOMAIN new : i = Len(old) + a /\ j = Len(old) + b
        BY <1>7, <3>4
      <4>2. EmailForms[fresh[a]] = EmailForms[fresh[b]]
        BY <1>3, <1>7, <2>2, <4>1
      <4> QED BY <1>3, <4>1, <4>2
    <3> QED BY <3>1, <3>2, <3>3, <3>4
  <2>3. ASSUME NEW a \in LiveIds("realtors")', NEW b \in LiveIds("realtors")',
               record'["realtors"][a].key # None, record'["realtors"][b].key # None,
               EmailForms[record'["realtors"][a].key] = EmailForms[record'["realtors"][b].key]
        PROVE  a = b
    <3>1. a \in DOMAIN rows /\ rows[a].live /\ b \in DOMAIN rows /\ rows[b].live
      BY <1>8, <2>3 DEF LiveIds
    <3> QED BY <1>8, <2>2, <2>3, <3>1
  <2> QED BY <2>3 DEF EmailsAreUnique
<1>12. \A i \in DOMAIN fresh : Len(record["realtors"]) + i \in LiveIds("realtors")'
  BY <1>1, <1>3, <1>7, <1>8 DEF LiveIds
<1>13. \A t \in ListedTables : /\ DOMAIN record[t] \subseteq DOMAIN record'[t]
                               /\ \A i \in DOMAIN record[t] : record'[t][i] = record[t][i]
  BY <1>1, <1>7, <1>8 DEF ListedTables, RecordTables
<1> QED BY <1>10, <1>11, <1>12, <1>13

LEMMA SeedRealtorsInv ==
    ASSUME RecordInv, NEW r \in DOMAIN Dealings, SeedRealtors(r)
    PROVE  RecordInv' /\ NamesTheLiving(r)
<1> DEFINE known == dealing[r].copy
           fresh == SetToSeq({e \in DOMAIN known : known[e] = {}})
           IdOf(e) == IF known[e] # {} THEN CHOOSE id \in known[e] : TRUE
                      ELSE Len(record["realtors"]) + CHOOSE i \in DOMAIN fresh : fresh[i] = e
           Line(k) == {l \in Dealt(r).lines : LiveBook(k) /\ l.market = marketBook[k].slug}
           clash == \E e \in ToSet(fresh) : Holders(e) # {}
<1>3. dealing[r].at = "realtor seed" /\ UNCHANGED dropped
  BY DEF SeedRealtors
<1>4. Dealt(r).op = "seed realtors" /\ Dealt(r).op # "read"
      /\ DOMAIN known = {l.email : l \in Dealt(r).lines} \ {None}
      /\ \A e \in DOMAIN known : known[e] \subseteq WereLive(r, "realtors")
  BY <1>3 DEF RecordInv, DealingKept
<1>5. CASE clash
  <2>1. Closes(r, 2) /\ UNCHANGED <<record, marketBook>>
    BY <1>5 DEF SeedRealtors
  <2>2. RecordInv'
    BY <1>3, <1>4, <2>1, Closing404
  <2> QED BY <2>1, <2>2 DEF NamesTheLiving
<1>6. CASE ~clash
  <2> DEFINE books == [k \in DOMAIN marketBook |->
                         IF Line(k) = {} THEN marketBook[k]
                         ELSE [marketBook[k] EXCEPT !.lists["realtors"] =
                                 LET e == (CHOOSE l \in Line(k) : TRUE).email
                                 IN  IF e = None THEN <<>> ELSE <<IdOf(e)>>]]
  <2>1. /\ record' = [record EXCEPT !["realtors"] =
                        @ \o [i \in DOMAIN fresh |-> [key |-> fresh[i], live |-> TRUE]]]
        /\ marketBook' = books /\ Closes(r, 0)
    BY <1>6, Zenon DEF SeedRealtors
  <2> HIDE DEF known
  <2>2. /\ IsFiniteSet(DOMAIN known) /\ DOMAIN known \subseteq DOMAIN EmailForms
        /\ \A e, f \in DOMAIN known : EmailForms[e] = EmailForms[f] => e = f
    BY <1>4, ScriptEmails
  <2>3. /\ ToSet(fresh) = {e \in DOMAIN known : known[e] = {}} /\ fresh \in Seq(ToSet(fresh))
        /\ \A i, j \in DOMAIN fresh : fresh[i] = fresh[j] => i = j
    <3>1. PICK S : S = {e \in DOMAIN known : known[e] = {}}
      OBVIOUS
    <3>2. IsFiniteSet(S)
      BY <2>2, <3>1, FS_Subset
    <3> QED BY <3>1, <3>2, InSomeOrder
  <2> HIDE DEF fresh
  <2>4. \A i \in DOMAIN fresh : fresh[i] \in DOMAIN known
    BY <2>3 DEF ToSet
  <2>5. \A i, j \in DOMAIN fresh : EmailForms[fresh[i]] = EmailForms[fresh[j]] => i = j
    BY <2>2, <2>3, <2>4
  <2>6. ToSet(fresh) \subseteq DOMAIN EmailForms /\ \A e \in ToSet(fresh) : Holders(e) = {}
    BY <1>6, <2>2, <2>3
  <2>7. /\ RowsTyped' /\ EmailsAreUnique'
        /\ \A t \in ListedTables : /\ DOMAIN record[t] \subseteq DOMAIN record'[t]
                                   /\ \A i \in DOMAIN record[t] : record'[t][i] = record[t][i]
        /\ \A i \in DOMAIN fresh : Len(record["realtors"]) + i \in LiveIds("realtors")'
    BY <2>1, <2>3, <2>5, <2>6, AddedRealtors
  <2>8. \A s : \A t \in ListedTables : WereLive(s, t) \subseteq WereLive(s, t)'
    BY <1>3, <2>7 DEF WereLive, LiveIds
  <2>9. ASSUME NEW e \in DOMAIN known
        PROVE  IdOf(e) \in WereLive(r, "realtors")'
    <3>1. CASE known[e] # {}
      <4>1. IdOf(e) \in known[e]
        BY <3>1
      <4> HIDE DEF IdOf
      <4> QED BY <1>4, <2>8, <4>1 DEF ListedTables
    <3>2. CASE known[e] = {}
      <4>1. \E i \in DOMAIN fresh : fresh[i] = e
        BY <2>3, <3>2 DEF ToSet
      <4>2. PICK i : i = CHOOSE j \in DOMAIN fresh : fresh[j] = e
        OBVIOUS
      <4>3. i \in DOMAIN fresh
        BY <4>1, <4>2
      <4>4. IdOf(e) = Len(record["realtors"]) + i
        BY <3>2, <4>2
      <4> HIDE DEF IdOf
      <4> QED BY <2>7, <4>3, <4>4 DEF WereLive
    <3> QED BY <3>1, <3>2
  <2>10. /\ marketBook \in Seq(ToSet(marketBook))
         /\ \A m \in DOMAIN marketBook : /\ DOMAIN marketBook[m] = {"slug", "lists", "live"}
                                         /\ DOMAIN marketBook[m].lists = ListedTables
    BY DEF RecordInv, RecordTyped, BooksTyped
  <2>11. DOMAIN books = DOMAIN marketBook /\ books = [k \in DOMAIN marketBook |-> books[k]]
    OBVIOUS
  <2>12. ASSUME NEW k \in DOMAIN marketBook
         PROVE  /\ DOMAIN books[k] = {"slug", "lists", "live"} /\ DOMAIN books[k].lists = ListedTables
                /\ \A t \in ListedTables : \/ books[k].lists[t] = marketBook[k].lists[t]
                                           \/ ToSet(books[k].lists[t]) \subseteq WereLive(r, t)'
    <3>1. CASE Line(k) = {}
      <4>1. books[k] = marketBook[k]
        BY <3>1
      <4> QED BY <2>10, <4>1
    <3>2. CASE Line(k) # {}
      <4> DEFINE e == (CHOOSE l \in Line(k) : TRUE).email
      <4>1. e = None \/ e \in DOMAIN known
        <5>1. PICK l : l = CHOOSE m \in Line(k) : TRUE
          OBVIOUS
        <5>2. l \in Line(k)
          BY <3>2, <5>1
        <5>3. l \in Dealt(r).lines
          BY <5>2
        <5>4. e = l.email
          BY <5>1
        <5> HIDE DEF e
        <5> QED BY <1>4, <5>3, <5>4
      <4>2. PICK ids : ids = IF e = None THEN <<>> ELSE <<IdOf(e)>>
        <5> HIDE DEF e, IdOf, books
        <5> QED OBVIOUS
      <4>3. ToSet(ids) \subseteq WereLive(r, "realtors")'
        <5> HIDE DEF e, IdOf
        <5> QED BY <2>9, <4>1, <4>2 DEF ToSet
      <4>4. PICK lists : lists = [marketBook[k].lists EXCEPT !["realtors"] = ids]
        OBVIOUS
      <4>5. books[k] = [marketBook[k] EXCEPT !.lists["realtors"] = ids]
        BY <3>2, <4>2
      <4> HIDE DEF books, e
      <4>6. books[k] = [marketBook[k] EXCEPT !.lists = lists]
        BY <2>10, <4>4, <4>5
      <4>7. DOMAIN lists = ListedTables /\ lists["realtors"] = ids
            /\ \A t \in ListedTables : t # "realtors" => lists[t] = marketBook[k].lists[t]
        BY <2>10, <4>4 DEF ListedTables
      <4>8. DOMAIN books[k] = {"slug", "lists", "live"} /\ books[k].lists = lists
        BY <2>10, <4>6
      <4>9. \A t \in ListedTables : \/ lists[t] = marketBook[k].lists[t]
                                    \/ ToSet(lists[t]) \subseteq WereLive(r, t)'
        BY <4>3, <4>7
      <4> QED BY <4>7, <4>8, <4>9
    <3> QED BY <3>1, <3>2
  <2> HIDE DEF books
  <2>13. books \in Seq(ToSet(books))
    BY <2>10, <2>11, SameLength
  <2>14. BooksTyped'
    BY <2>1, <2>11, <2>12, <2>13 DEF BooksTyped
  <2>15. NamesTheLiving(r)
    BY <2>1, <2>11, <2>12 DEF NamesTheLiving
  <2>16. DOMAIN dropped' = DOMAIN Dealings
    BY <1>3 DEF RecordInv, RecordTyped
  <2>17. /\ Closes(r, 0) /\ Dealt(r).op # "read"
         /\ \A t \in ListedTables : DOMAIN record[t] \subseteq DOMAIN record'[t]
    BY <1>4, <2>1, <2>7
  <2>18. RecordInv'
    BY ONLY RecordInv, r \in DOMAIN Dealings, <2>7, <2>8, <2>14, <2>15, <2>16, <2>17, Written
  <2> QED BY <2>15, <2>18
<1> QED BY <1>5, <1>6

\* A request or script that is not looking for the holder of an email, and moves alone.
LEMMA MovesAlone ==
    ASSUME RecordInv, NEW r \in DOMAIN Dealings,
           \/ ValidateAmenities(r) \/ ValidateRealtors(r) \/ SaveBook(r) \/ CreateBook(r)
           \/ DeleteBook(r) \/ ReadBook(r)
           \/ ReadMap(r, "amenities", "amenity map", "realtor map")
           \/ ReadMap(r, "realtors", "realtor map", "done")
           \/ CreateRealtor(r) \/ PatchRealtor(r)
           \/ CreateRecord(r) \/ PatchRecord(r) \/ DeleteRecord(r) \/ FindFee(r)
           \/ ReadRealtors(r) \/ SeedRealtors(r) \/ ReadMapped(r) \/ SeedAmenities(r)
    PROVE  /\ dealing[r].at # "duplicate"
           /\ \A s \in DOMAIN Dealings : s # r => dealing'[s] = dealing[s]
<1>1. DOMAIN dealing = DOMAIN Dealings
  BY DEF RecordInv, RecordTyped
<1>2. CASE ValidateAmenities(r) \/ ValidateRealtors(r)
  BY <1>1, <1>2 DEF ValidateAmenities, ValidateRealtors, Takes, Goes, Closes
<1>3. CASE SaveBook(r)
  BY <1>1, <1>3 DEF SaveBook, Closes
<1>4. CASE CreateBook(r)
  BY <1>1, <1>4 DEF CreateBook, Closes
<1>5. CASE DeleteBook(r)
  BY <1>1, <1>5 DEF DeleteBook, Takes, Closes
<1>6. CASE ReadBook(r)
  BY <1>1, <1>6 DEF ReadBook, Takes, Closes
<1>7. CASE ReadMap(r, "amenities", "amenity map", "realtor map")
  BY <1>1, <1>7 DEF ReadMap
<1>8. CASE ReadMap(r, "realtors", "realtor map", "done")
  BY <1>1, <1>8 DEF ReadMap
<1>9. CASE CreateRealtor(r)
  BY <1>1, <1>9 DEF CreateRealtor, Takes, Goes, Closes
<1>10. CASE PatchRealtor(r)
  BY <1>1, <1>10 DEF PatchRealtor, Takes, Goes, Closes
<1>11. CASE CreateRecord(r) \/ PatchRecord(r)
  BY <1>1, <1>11 DEF CreateRecord, PatchRecord, Takes, Closes
<1>12. CASE DeleteRecord(r)
  BY <1>1, <1>12 DEF DeleteRecord, Takes, Closes
<1>13. CASE FindFee(r)
  BY <1>1, <1>13 DEF FindFee, Takes, Closes, Shows
<1>14. CASE ReadRealtors(r)
  BY <1>1, <1>14 DEF ReadRealtors, Takes, Closes
<1>15. CASE SeedRealtors(r)
  <2>1. dealing[r].at = "realtor seed" /\ \E code : Closes(r, code)
    BY <1>15 DEF SeedRealtors
  <2> QED BY <1>1, <2>1 DEF Closes
<1>16. CASE ReadMapped(r) \/ SeedAmenities(r)
  BY <1>1, <1>16 DEF ReadMapped, SeedAmenities, Takes, Goes, Closes
<1> QED BY <1>2, <1>3, <1>4, <1>5, <1>6, <1>7, <1>8, <1>9, <1>10, <1>11, <1>12, <1>13, <1>14,
           <1>15, <1>16

\* Live emails are unique before.
LEMMA OneBefore ==
    ASSUME NEW a \in DOMAIN RecordsBefore["realtors"], NEW b \in DOMAIN RecordsBefore["realtors"],
           RecordsBefore["realtors"][a].live, RecordsBefore["realtors"][b].live,
           RecordsBefore["realtors"][a].key # None, RecordsBefore["realtors"][b].key # None,
           EmailForms[RecordsBefore["realtors"][a].key] = EmailForms[RecordsBefore["realtors"][b].key]
    PROVE  a = b
BY RecordAssumption

\* The invariant holds of what is there before.
LEMMA RecordStart == RecordInit => RecordInv
<1> SUFFICES ASSUME RecordInit PROVE RecordInv
  OBVIOUS
<1>1. record = [t \in RecordTables |-> RecordsBefore[t]] /\ marketBook = BooksBefore
  BY DEF RecordInit
<1>2. PICK crowd \in DealingCrowds : dealing =
        [r \in DOMAIN Dealings |-> [at |-> IF r \in crowd THEN "start" ELSE "absent",
                                    copy |-> None, reply |-> None]]
  BY DEF RecordInit
<1>3. \A r \in DOMAIN Dealings : /\ DOMAIN dealing[r] = {"at", "copy", "reply"}
                                 /\ dealing[r].at \in {"start", "absent"}
                                 /\ dealing[r].reply = None
  BY <1>2
<1>4. RowsTyped
  <2>1. \A t \in RecordTables :
          /\ RecordsBefore[t] \in Seq(ToSet(RecordsBefore[t]))
          /\ \A id \in DOMAIN RecordsBefore[t] : /\ DOMAIN RecordsBefore[t][id] = {"key", "live"}
                                                 /\ RecordsBefore[t][id].live \in BOOLEAN
    BY RecordAssumption
  <2>2. \A id \in DOMAIN RecordsBefore["realtors"] :
          RecordsBefore["realtors"][id].key \in DOMAIN EmailForms \cup {None}
    BY RecordAssumption
  <2>3. DOMAIN record = RecordTables /\ \A t \in RecordTables : record[t] = RecordsBefore[t]
    BY <1>1
  <2>4. record["realtors"] = RecordsBefore["realtors"]
    BY <2>3 DEF RecordTables
  <2> QED BY ONLY <2>1, <2>2, <2>3, <2>4 DEF RowsTyped
<1>5. BooksTyped
  BY <1>1, RecordAssumption DEF BooksTyped
<1>6. DOMAIN dealing = DOMAIN Dealings /\ DOMAIN dropped = DOMAIN Dealings
  BY <1>2 DEF RecordInit
<1>7. RecordTyped
  BY <1>3, <1>4, <1>5, <1>6 DEF RecordTyped
<1>8. \A r \in DOMAIN Dealings : DealingKept(r)
  BY <1>3 DEF DealingKept, Read
<1>9. StoredIdsExist
  <2>1. \A k \in DOMAIN BooksBefore : /\ DOMAIN BooksBefore[k].lists = ListedTables
          /\ \A t \in ListedTables : ToSet(BooksBefore[k].lists[t]) \subseteq DOMAIN RecordsBefore[t]
    BY RecordAssumption
  <2> QED BY <1>1, <2>1 DEF StoredIdsExist, ListedTables, RecordTables
<1>10. ReadsHideTheDeleted
  BY <1>3 DEF ReadsHideTheDeleted, HidesTheDeleted, Read
<1>11. EmailsAreUnique
  <2>1. record["realtors"] = RecordsBefore["realtors"]
    BY <1>1 DEF RecordTables
  <2>2. ASSUME NEW a \in LiveIds("realtors"), NEW b \in LiveIds("realtors"),
               record["realtors"][a].key # None, record["realtors"][b].key # None,
               EmailForms[record["realtors"][a].key] = EmailForms[record["realtors"][b].key]
        PROVE  a = b
    <3>1. /\ a \in DOMAIN RecordsBefore["realtors"] /\ b \in DOMAIN RecordsBefore["realtors"]
          /\ RecordsBefore["realtors"][a].live /\ RecordsBefore["realtors"][b].live
      BY <2>1 DEF LiveIds
    <3> QED BY <2>1, <2>2, <3>1, OneBefore
  <2> QED BY <2>2 DEF EmailsAreUnique
<1> QED BY <1>7, <1>8, <1>9, <1>10, <1>11 DEF RecordInv

\* One step: the invariant again, lists of the living only, and the holder of a taken email.
LEMMA RecordSteps ==
    ASSUME RecordInv, [RecordNext]_recordVars
    PROVE  /\ RecordInv'
           /\ UNCHANGED recordVars \/
              /\ \A r \in DOMAIN Dealings : dealing'[r] # dealing[r] => NamesTheLiving(r)
              /\ \A r \in DOMAIN Dealings :
                    dealing[r].at = "duplicate" /\ dealing'[r].at = "done" =>
                      \/ EmailForms[Dealt(r).email].tab \/ EmailForms[Dealt(r).email].base = ""
                      \/ dealing'[r].copy \in Holders(Dealt(r).email)
                      \/ Holders(Dealt(r).email) = {}
<1>1. CASE UNCHANGED recordVars
  <2>1. UNCHANGED <<record, marketBook, dealing, dropped>>
    BY <1>1 DEF recordVars
  <2>2. RecordTyped'
    BY <2>1 DEF RecordInv, RecordTyped, RowsTyped, BooksTyped
  <2>3. StoredIdsExist' /\ EmailsAreUnique'
    BY <2>1 DEF RecordInv, StoredIdsExist, EmailsAreUnique, LiveIds
  <2>4. \A s, t : WereLive(s, t)' = WereLive(s, t)
    BY <2>1 DEF WereLive, LiveIds
  <2>5. \A s \in DOMAIN Dealings : DealingKept(s)' /\ HidesTheDeleted(s)'
    BY <2>1, <2>4, RequestsApart
  <2> QED BY <1>1, <2>2, <2>3, <2>5 DEF RecordInv, ReadsHideTheDeleted
<1>2. CASE RecordNext
  <2>1. PICK r \in DOMAIN Dealings :
        \/ ValidateAmenities(r) \/ ValidateRealtors(r) \/ SaveBook(r) \/ CreateBook(r)
        \/ DeleteBook(r)
        \/ ReadBook(r) \/ ReadMap(r, "amenities", "amenity map", "realtor map")
        \/ ReadMap(r, "realtors", "realtor map", "done")
        \/ CreateRealtor(r) \/ PatchRealtor(r) \/ NameDuplicate(r)
        \/ CreateRecord(r) \/ PatchRecord(r) \/ DeleteRecord(r) \/ FindFee(r)
        \/ ReadRealtors(r) \/ SeedRealtors(r) \/ ReadMapped(r) \/ SeedAmenities(r)
    BY <1>2 DEF RecordNext
  <2>2. RecordInv'
    BY <2>1, ValidateAmenitiesInv, ValidateRealtorsInv, SaveBookInv, CreateBookInv, DeleteBookInv,
       ReadBookInv, ReadMapInv, CreateRealtorInv, PatchRealtorInv, NameDuplicateInv,
       CreateRecordInv, PatchRecordInv, DeleteRecordInv, FindFeeInv, ReadRealtorsInv,
       SeedRealtorsInv, ReadMappedInv, SeedAmenitiesInv
  <2>3. NamesTheLiving(r)
    <3>1. CASE UNCHANGED marketBook
      BY <3>1 DEF NamesTheLiving
    <3>2. CASE SaveBook(r) \/ CreateBook(r) \/ DeleteBook(r) \/ SeedRealtors(r) \/ SeedAmenities(r)
      BY <3>2, SaveBookInv, CreateBookInv, DeleteBookInv, SeedRealtorsInv, SeedAmenitiesInv
    <3>3. CASE ValidateAmenities(r) \/ ValidateRealtors(r) \/ ReadBook(r) \/ FindFee(r)
               \/ NameDuplicate(r) \/ ReadRealtors(r) \/ ReadMapped(r)
      BY <3>1, <3>3 DEF ValidateAmenities, ValidateRealtors, ReadBook, FindFee, NameDuplicate,
                        ReadRealtors, ReadMapped
    <3>4. CASE ReadMap(r, "amenities", "amenity map", "realtor map")
               \/ ReadMap(r, "realtors", "realtor map", "done")
      BY <3>1, <3>4 DEF ReadMap
    <3>5. CASE CreateRealtor(r) \/ PatchRealtor(r) \/ CreateRecord(r) \/ PatchRecord(r)
               \/ DeleteRecord(r)
      BY <3>5, CreateRealtorInv, PatchRealtorInv, CreateRecordInv, PatchRecordInv, DeleteRecordInv
    <3> QED BY <2>1, <3>2, <3>3, <3>4, <3>5
  <2>4. CASE NameDuplicate(r)
    <3>1. \A s \in DOMAIN Dealings : s # r => dealing'[s] = dealing[s]
      BY <2>4 DEF NameDuplicate, RecordInv, RecordTyped
    <3>2. \A s \in DOMAIN Dealings : s # r /\ dealing[s].at = "duplicate" => dealing'[s].at # "done"
      BY <3>1
    <3> QED BY <2>2, <2>3, <2>4, <3>1, <3>2, NameDuplicateInv
  <2>5. CASE ~NameDuplicate(r)
    <3>1. /\ dealing[r].at # "duplicate"
          /\ \A s \in DOMAIN Dealings : s # r => dealing'[s] = dealing[s]
      BY <2>1, <2>5, MovesAlone
    <3>2. \A s \in DOMAIN Dealings : dealing[s].at = "duplicate" => dealing'[s].at # "done"
      BY <3>1
    <3> QED BY <2>2, <2>3, <3>1, <3>2
  <2> QED BY <2>4, <2>5
<1> QED BY <1>1, <1>2

\* Markets and the rows they name stay consistent, whatever runs together. (RecordInv)
THEOREM RecordInvariant == RecordSpec => []RecordInv
<1>1. RecordInv /\ [RecordNext]_recordVars => RecordInv'
  BY RecordSteps
<1> QED BY <1>1, RecordStart, PTL DEF RecordSpec

\* Stored ids exist and were live when written, reads hide what is deleted, live emails are
\* unique and a refused duplicate names its holder. (RecordSafety)
THEOREM RecordsAreSafe == RecordSpec => RecordSafety
<1>1. RecordInv => StoredIdsExist /\ ReadsHideTheDeleted /\ EmailsAreUnique
  BY DEF RecordInv
<1>2. RecordInv /\ [RecordNext]_recordVars =>
        /\ [\A r \in DOMAIN Dealings : dealing'[r] # dealing[r] => NamesTheLiving(r)]_recordVars
        /\ [\A r \in DOMAIN Dealings :
              dealing[r].at = "duplicate" /\ dealing'[r].at = "done" =>
                \/ EmailForms[Dealt(r).email].tab \/ EmailForms[Dealt(r).email].base = ""
                \/ dealing'[r].copy \in Holders(Dealt(r).email)
                \/ Holders(Dealt(r).email) = {}]_recordVars
  BY RecordSteps
<1> QED BY <1>1, <1>2, RecordInvariant, PTL
        DEF RecordSpec, RecordSafety, WritesNameTheLiving, DuplicatesNameTheHolder

\* A request that did not move keeps what it relied on, when rows come and go elsewhere.
LEMMA Undisturbed ==
    ASSUME OpexInv, NEW s \in DOMAIN OpexAsks, errand'[s] = errand[s],
           \A id \in Used : /\ id \in Used'
                            /\ opexRow[id].open \in {None, s} => opexRow'[id].open = opexRow[id].open,
           s \in crossed /\ Seeding(s) => s \in crossed',
           Seeding(s) /\ s \notin crossed' /\ Open(Pair(s).target) => Open(Pair(s).target)',
           Seeding(s) /\ s \notin crossed' /\ NoneInTheWay(s) => NoneInTheWay(s)'
    PROVE  ErrandKept(s)'
<1>1. ErrandKept(s)
  BY DEF OpexInv
<1>2. Seeding(s)' = Seeding(s)
  BY DEF Seeding
<1>3. errand'[s].at = "size" => \E id \in Used' : opexRow'[id].open = s
  BY <1>1 DEF ErrandKept
<1>4. errand'[s].at \in {"bedrooms", "size"} => \A t \in OpexTableNames : CloneKept(s, t)'
  <2>1. \A t : CloneKept(s, t) => CloneKept(s, t)'
    BY DEF CloneKept, Pair
  <2> QED BY <1>1, <2>1 DEF ErrandKept
<1>5. Seeding(s)' /\ s \notin crossed' => Open(Pair(s).target)'
  BY <1>1, <1>2 DEF ErrandKept
<1>6. errand'[s].at \in {"read", "bedrooms", "size"} /\ s \notin crossed' => NoneInTheWay(s)'
  BY <1>1, <1>2 DEF ErrandKept, Seeding
<1>7. errand'[s].at = "patch" => Errand(s).on \in Used' /\ opexRow'[Errand(s).on].open = None
  BY <1>1 DEF ErrandKept
<1>8. errand'[s].at = "write" =>
          \A e \in errand'[s].copy : errand'[s].seen[e.on].cells[e.cell] # e.value
  BY <1>1 DEF ErrandKept
<1>9. Seeding(s)' => Pair(s)'.source # None
  BY <1>1, <1>2 DEF ErrandKept, Pair
<1>10. errand'[s].at = "lines" =>
          \A l \in Errand(s).lines : \A c \in DOMAIN l.cells : Values(l)[c] # BadCell
  BY <1>1 DEF ErrandKept
<1> QED BY <1>3, <1>4, <1>5, <1>6, <1>7, <1>8, <1>9, <1>10 DEF ErrandKept

\* A step that only reads.
LEMMA OpexLooking ==
    ASSUME OpexInv, NEW r \in DOMAIN OpexAsks, NEW q, UNCHANGED <<opexRow, marketRow>>,
           errand' = [errand EXCEPT ![r] = q],
           DOMAIN q = {"at", "market", "left", "copy", "seen", "skipped", "reply"},
           errand[r].at # "size",
           \/ UNCHANGED <<crossed, spoiled>>
           \/ crossed' = crossed \ {r} /\ spoiled' = spoiled \ {r},
           ErrandKept(r)'
    PROVE  OpexInv'
<1>1. DOMAIN errand = DOMAIN OpexAsks /\ \A s \in DOMAIN OpexAsks : s # r => errand'[s] = errand[s]
  BY DEF OpexInv, OpexTyped
<1>2. OpexTyped'
  BY <1>1 DEF OpexInv, OpexTyped, Used
<1>3. RowsAreUnique' /\ SlugsAreUnique' /\ SeedsAreWhole'
  BY DEF OpexInv, RowsAreUnique, SlugsAreUnique, SeedsAreWhole, Used, Twins, LiveMarket
<1>4. OnlyRacesSpoilSeeds'
  BY DEF OpexInv, OnlyRacesSpoilSeeds
<1>5. OpenRowsAreSeeds'
  <2>1. ASSUME NEW id \in Used, opexRow[id].open # None
        PROVE  /\ opexRow[id].open \in DOMAIN OpexAsks
               /\ errand'[opexRow[id].open] = errand[opexRow[id].open]
    BY <1>1, <2>1 DEF OpexInv, OpenRowsAreSeeds
  <2> QED BY <2>1 DEF OpexInv, OpenRowsAreSeeds, Pair, Used
<1>6. ASSUME NEW s \in DOMAIN OpexAsks, s # r
      PROVE  ErrandKept(s)'
  <2>1. NoneInTheWay(s) => NoneInTheWay(s)'
    BY <1>1, <1>6 DEF NoneInTheWay, Pair, Used
  <2>2. Open(Pair(s).target) => Open(Pair(s).target)'
    BY <1>1, <1>6 DEF Open, Pair, LiveMarket
  <2>3. s \in crossed <=> s \in crossed'
    BY <1>6
  <2> QED BY <1>1, <1>6, <2>1, <2>2, <2>3, Undisturbed DEF Used
<1> QED BY <1>2, <1>3, <1>4, <1>5, <1>6 DEF OpexInv

\* Nothing is kept of a request that waits, ended or has not looked yet.
LEMMA NothingKept ==
    ASSUME NEW r, errand'[r].at \in {"absent", "start", "check", "row", "done"}
    PROVE  ErrandKept(r)'
BY DEF ErrandKept, Seeding

LEMMA OpexEnding ==
    ASSUME OpexInv, NEW r \in DOMAIN OpexAsks, NEW code, EndErrand(r, code)
    PROVE  /\ errand' = [errand EXCEPT ![r] = [errand[r] EXCEPT !.at = "done", !.reply = code]]
           /\ DOMAIN errand' = DOMAIN OpexAsks
           /\ DOMAIN errand'[r] = {"at", "market", "left", "copy", "seen", "skipped", "reply"}
           /\ errand'[r].at = "done" /\ ErrandKept(r)'
           /\ \A s \in DOMAIN OpexAsks : s # r => errand'[s] = errand[s]
<1>1. /\ DOMAIN errand = DOMAIN OpexAsks
      /\ DOMAIN errand[r] = {"at", "market", "left", "copy", "seen", "skipped", "reply"}
  BY DEF OpexInv, OpexTyped
<1>2. PICK q : q = [errand[r] EXCEPT !.at = "done", !.reply = code]
  OBVIOUS
<1>3. DOMAIN q = {"at", "market", "left", "copy", "seen", "skipped", "reply"} /\ q.at = "done"
  BY <1>1, <1>2
<1>4. errand' = [errand EXCEPT ![r] = q]
  BY <1>1, <1>2 DEF EndErrand
<1>5. errand'[r] = q
  BY <1>1, <1>4
<1> QED BY <1>1, <1>2, <1>3, <1>4, <1>5, NothingKept

LEMMA NextPairMoves ==
    ASSUME OpexInv, NEW r \in DOMAIN OpexAsks, NEW code, NextPair(r, code)
    PROVE  \E q : /\ errand' = [errand EXCEPT ![r] = q] /\ DOMAIN errand' = DOMAIN OpexAsks
                  /\ DOMAIN q = {"at", "market", "left", "copy", "seen", "skipped", "reply"}
                  /\ errand'[r] = q /\ q.at \in {"check", "done"} /\ ErrandKept(r)'
                  /\ \A s \in DOMAIN OpexAsks : s # r => errand'[s] = errand[s]
<1>1. /\ DOMAIN errand = DOMAIN OpexAsks
      /\ DOMAIN errand[r] = {"at", "market", "left", "copy", "seen", "skipped", "reply"}
  BY DEF OpexInv, OpexTyped
<1>2. PICK q : q = AfterPair(r, code)
  OBVIOUS
<1>3. errand' = [errand EXCEPT ![r] = q]
  BY <1>1, <1>2 DEF NextPair
<1>4. DOMAIN q = {"at", "market", "left", "copy", "seen", "skipped", "reply"}
      /\ q.at \in {"check", "done"}
  BY <1>1, <1>2 DEF AfterPair
<1>5. errand'[r] = q
  BY <1>1, <1>3
<1>6. ErrandKept(r)'
  BY <1>4, <1>5, NothingKept
<1>7. DOMAIN errand' = DOMAIN OpexAsks /\ \A s \in DOMAIN OpexAsks : s # r => errand'[s] = errand[s]
  BY <1>1, <1>3
<1> QED BY <1>3, <1>4, <1>5, <1>6, <1>7

LEMMA Places ==
    ASSUME OpexInv, NEW r \in DOMAIN OpexAsks, NEW where, GoTo(r, where)
    PROVE  /\ errand' = [errand EXCEPT ![r] = [errand[r] EXCEPT !.at = where]]
           /\ DOMAIN errand' = DOMAIN OpexAsks
           /\ DOMAIN errand'[r] = {"at", "market", "left", "copy", "seen", "skipped", "reply"}
           /\ errand'[r].at = where /\ errand'[r].left = errand[r].left
           /\ errand'[r].copy = errand[r].copy
           /\ \A s \in DOMAIN OpexAsks : s # r => errand'[s] = errand[s]
<1>1. /\ DOMAIN errand = DOMAIN OpexAsks
      /\ DOMAIN errand[r] = {"at", "market", "left", "copy", "seen", "skipped", "reply"}
  BY DEF OpexInv, OpexTyped
<1> QED BY <1>1 DEF GoTo

\* A request that ends, or a seed that goes to its next pair, having written nothing.
LEMMA Refused ==
    ASSUME OpexInv, NEW r \in DOMAIN OpexAsks, NEW code, EndErrand(r, code) \/ NextPair(r, code),
           UNCHANGED <<opexRow, marketRow>>, errand[r].at # "size",
           \/ UNCHANGED <<crossed, spoiled>>
           \/ crossed' = crossed \ {r} /\ spoiled' = spoiled \ {r}
    PROVE  OpexInv'
<1>1. CASE EndErrand(r, code)
  <2>1. PICK q : q = [errand[r] EXCEPT !.at = "done", !.reply = code]
    OBVIOUS
  <2>2. /\ errand' = [errand EXCEPT ![r] = q] /\ ErrandKept(r)'
        /\ DOMAIN errand'[r] = {"at", "market", "left", "copy", "seen", "skipped", "reply"}
    BY <1>1, <2>1, OpexEnding
  <2>3. errand'[r] = q
    BY <2>2 DEF OpexInv, OpexTyped
  <2> QED BY <2>2, <2>3, OpexLooking
<1>2. CASE NextPair(r, code)
  <2>1. PICK q : /\ errand' = [errand EXCEPT ![r] = q] /\ ErrandKept(r)'
                 /\ DOMAIN q = {"at", "market", "left", "copy", "seen", "skipped", "reply"}
    BY <1>2, NextPairMoves
  <2> QED BY <2>1, OpexLooking
<1> QED BY <1>1, <1>2

LEMMA PlanSeedsInv ==
    ASSUME OpexInv, NEW r \in DOMAIN OpexAsks, PlanSeeds(r)
    PROVE  OpexInv'
<1>1. errand[r].at = "start" /\ UNCHANGED <<opexRow, marketRow, crossed, spoiled>>
  BY DEF PlanSeeds, Starts
<1> DEFINE stale == {i \in DOMAIN Errand(r).pairs :
                        LET p == Errand(r).pairs[i]
                        IN  LiveMarket(p.target) /\ marketRow[p.target].slug # p.slug}
<1>2. CASE stale # {}
  <2>1. EndErrand(r, 2)
    BY <1>2 DEF PlanSeeds
  <2> QED BY <1>1, <2>1, Refused
<1>3. CASE stale = {} /\ Eligible(r) = <<>>
  <2>1. PICK code : EndErrand(r, code)
    BY <1>3 DEF PlanSeeds
  <2> QED BY <1>1, <2>1, Refused
<1>4. CASE stale = {} /\ Eligible(r) # <<>>
  <2>1. /\ DOMAIN errand = DOMAIN OpexAsks
        /\ DOMAIN errand[r] = {"at", "market", "left", "copy", "seen", "skipped", "reply"}
    BY DEF OpexInv, OpexTyped
  <2>2. PICK q : q = [errand[r] EXCEPT !.at = "check", !.left = Eligible(r),
                              !.skipped = Len(Eligible(r)) < Len(Errand(r).pairs)]
    OBVIOUS
  <2>3. errand' = [errand EXCEPT ![r] = q]
    BY <1>4, <2>1, <2>2 DEF PlanSeeds
  <2>4. DOMAIN q = {"at", "market", "left", "copy", "seen", "skipped", "reply"} /\ q.at = "check"
    BY <2>1, <2>2
  <2>5. errand'[r] = q
    BY <2>1, <2>3
  <2>6. ErrandKept(r)'
    BY <2>4, <2>5, NothingKept
  <2> QED BY <1>1, <2>3, <2>4, <2>6, OpexLooking
<1> QED BY <1>2, <1>3, <1>4

LEMMA CheckSeedInv ==
    ASSUME OpexInv, NEW r \in DOMAIN OpexAsks, CheckSeed(r)
    PROVE  OpexInv'
<1>1. /\ errand[r].at \in {"check", "start"} /\ UNCHANGED <<opexRow, marketRow>>
      /\ crossed' = crossed \ {r} /\ spoiled' = spoiled \ {r}
  BY DEF CheckSeed, Starts
<1>2. CASE Refusal(Pair(r)) # 0
  <2>1. NextPair(r, Refusal(Pair(r)))
    BY <1>2 DEF CheckSeed
  <2> QED BY <1>1, <2>1, Refused
<1>3. CASE Refusal(Pair(r)) = 0
  <2>1. GoTo(r, "look")
    BY <1>3 DEF CheckSeed
  <2>2. Open(Pair(r).target) /\ LiveMarket(Pair(r).source)
    BY <1>3 DEF Refusal
  <2>3. PICK q : q = [errand[r] EXCEPT !.at = "look"]
    OBVIOUS
  <2>4. /\ errand' = [errand EXCEPT ![r] = q] /\ errand'[r].at = "look"
        /\ DOMAIN errand'[r] = {"at", "market", "left", "copy", "seen", "skipped", "reply"}
        /\ errand'[r].left = errand[r].left /\ errand'[r] = q
    BY <2>1, <2>3, Places DEF OpexInv, OpexTyped
  <2>5. Open(Pair(r).target)'
    BY <1>1, <2>2, <2>4 DEF Open, Pair, LiveMarket
  <2>6. ErrandKept(r)'
    <3>1. Pair(r).source # None
      BY <2>2, OpexAssumption DEF LiveMarket, OpexInv, OpexTyped
    <3>2. Pair(r)' = Pair(r)
      BY <2>4 DEF Pair
    <3> QED BY <2>4, <2>5, <3>1, <3>2 DEF ErrandKept
  <2> QED BY <1>1, <2>4, <2>6, OpexLooking
<1> QED BY <1>2, <1>3

LEMMA LookForRowsInv ==
    ASSUME OpexInv, NEW r \in DOMAIN OpexAsks, LookForRows(r)
    PROVE  OpexInv'
<1>1. errand[r].at = "look" /\ UNCHANGED <<opexRow, marketRow, crossed, spoiled>>
  BY DEF LookForRows
<1>2. CASE Occupied(r, Pair(r).target) # {}
  <2>1. NextPair(r, 409)
    BY <1>2 DEF LookForRows
  <2> QED BY <1>1, <2>1, Refused
<1>3. CASE Occupied(r, Pair(r).target) = {}
  <2>1. GoTo(r, "read")
    BY <1>3 DEF LookForRows
  <2>2. NoneInTheWay(r)
    <3>1. ASSUME NEW id \in Used, opexRow[id].live, opexRow[id].open = None,
                 opexRow[id].market = Pair(r).target
          PROVE  FALSE
      <4>1. opexRow[id].table \in OpexTableNames
        BY DEF OpexInv, OpexTyped
      <4>2. id \in RowsOfMarket(r, opexRow[id].table, Pair(r).target)
        BY <3>1 DEF RowsOfMarket, Seen
      <4> QED BY <1>3, <4>1, <4>2 DEF Occupied
    <3> QED BY <3>1 DEF NoneInTheWay
  <2>3. PICK q : q = [errand[r] EXCEPT !.at = "read"]
    OBVIOUS
  <2>4. /\ errand' = [errand EXCEPT ![r] = q] /\ errand'[r].at = "read"
        /\ DOMAIN errand'[r] = {"at", "market", "left", "copy", "seen", "skipped", "reply"}
        /\ errand'[r].left = errand[r].left /\ errand'[r] = q
    BY <2>1, <2>3, Places DEF OpexInv, OpexTyped
  <2>5. NoneInTheWay(r)'
    BY <1>1, <2>2, <2>4 DEF NoneInTheWay, Pair, Used
  <2>6. r \notin crossed => Open(Pair(r).target)'
    BY <1>1, <2>4 DEF Open, Pair, LiveMarket, OpexInv, ErrandKept, Seeding
  <2>7. ErrandKept(r)'
    <3>1. Pair(r)'.source # None
      BY <1>1, <2>4 DEF OpexInv, ErrandKept, Seeding, Pair
    <3> QED BY <1>1, <2>4, <2>5, <2>6, <3>1 DEF ErrandKept
  <2> QED BY <1>1, <2>4, <2>7, OpexLooking
<1> QED BY <1>2, <1>3

\* The rows of one table and market that a request sees can stand beside each other in any market.
LEMMA ClonesApart ==
    ASSUME OpexInv, NEW r \in DOMAIN OpexAsks, NEW t \in OpexTableNames, NEW m, NEW rows,
           rows = Cloned(RowsOfMarket(r, t, m), r), m # None
    PROVE  /\ DOMAIN rows = RowsOfMarket(r, t, m) /\ IsFiniteSet(DOMAIN rows)
           /\ \A i \in DOMAIN rows :
                 /\ DOMAIN rows[i] = OpexFields /\ rows[i].table = t /\ rows[i].live
                 /\ rows[i].market = Pair(r).target /\ rows[i].from = <<r, Pair(r).target>>
                 /\ rows[i].open = r
           /\ \A i, j \in DOMAIN rows : rows[i].key = rows[j].key /\ rows[i].key # None => i = j
<1>1. DOMAIN rows = RowsOfMarket(r, t, m)
  BY DEF Cloned
<1>2. IsFiniteSet(DOMAIN rows)
  <2>1. Len(opexRow) \in Nat /\ DOMAIN opexRow = 1..Len(opexRow)
    BY DEF OpexInv, OpexTyped
  <2>2. IsFiniteSet(1..Len(opexRow))
    BY <2>1, FS_Interval
  <2>3. DOMAIN rows \subseteq 1..Len(opexRow)
    BY <1>1, <2>1 DEF RowsOfMarket, Seen, Used
  <2> QED BY <2>2, <2>3, FS_Subset
<1>3. \A i \in DOMAIN rows : /\ i \in Used /\ opexRow[i].live /\ opexRow[i].table = t
                             /\ opexRow[i].market = m
  BY <1>1 DEF RowsOfMarket, Seen
<1>4. \A i \in DOMAIN rows : DOMAIN opexRow[i] = OpexFields
  BY <1>3 DEF OpexInv, OpexTyped
<1>5. ASSUME NEW i \in DOMAIN rows
      PROVE  /\ DOMAIN rows[i] = OpexFields /\ rows[i].table = t /\ rows[i].live
             /\ rows[i].market = Pair(r).target /\ rows[i].from = <<r, Pair(r).target>>
             /\ rows[i].open = r /\ rows[i].key = opexRow[i].key
  <2>1. PICK to : to = Pair(r).target
    OBVIOUS
  <2>2. rows[i] = [opexRow[i] EXCEPT !.market = to, !.from = <<r, to>>, !.open = r]
    BY <1>1, <2>1 DEF Cloned
  <2>3. DOMAIN opexRow[i] = OpexFields /\ opexRow[i].live /\ opexRow[i].table = t
    BY <1>3, <1>4
  <2> QED BY ONLY <2>1, <2>2, <2>3 DEF OpexFields
<1>6. \A i, j \in DOMAIN rows : rows[i].key = rows[j].key /\ rows[i].key # None => i = j
  <2>1. ASSUME NEW i \in DOMAIN rows, NEW j \in DOMAIN rows, rows[i].key = rows[j].key,
               rows[i].key # None
        PROVE  i = j
    <3>1. opexRow[i].key = opexRow[j].key /\ opexRow[i].key # None
      BY <1>5, <2>1
    <3>2. j \in Twins(opexRow[i]) /\ opexRow[i].live
      BY <1>3, <3>1 DEF Twins
    <3> QED BY <1>3, <3>2 DEF OpexInv, RowsAreUnique
  <2> QED BY <2>1
<1> QED BY <1>1, <1>2, <1>5, <1>6

LEMMA ReadLookalikeInv ==
    ASSUME OpexInv, NEW r \in DOMAIN OpexAsks, ReadLookalike(r)
    PROVE  OpexInv'
<1>1. errand[r].at = "read" /\ UNCHANGED <<opexRow, marketRow, crossed, spoiled>>
  BY DEF ReadLookalike
<1>2. CASE ~BothTables(r, Pair(r).source)
  <2>1. NextPair(r, 400)
    BY <1>2 DEF ReadLookalike
  <2> QED BY <1>1, <2>1, Refused
<1>3. CASE BothTables(r, Pair(r).source)
  <2> DEFINE rows(t) == Cloned(RowsOfMarket(r, t, Pair(r).source), r)
             both == [t \in OpexTableNames |-> rows(t)]
  <2>1. errand' = [errand EXCEPT ![r].at = "bedrooms", ![r].copy = both]
    BY <1>3 DEF ReadLookalike
  <2>2. \A t \in OpexTableNames : both[t] = rows(t)
    OBVIOUS
  <2> HIDE DEF rows, both
  <2>3. /\ DOMAIN errand = DOMAIN OpexAsks
        /\ DOMAIN errand[r] = {"at", "market", "left", "copy", "seen", "skipped", "reply"}
    BY DEF OpexInv, OpexTyped
  <2>4. PICK q : q = [errand[r] EXCEPT !.at = "bedrooms", !.copy = both]
    OBVIOUS
  <2>5. errand' = [errand EXCEPT ![r] = q]
    BY <2>1, <2>3, <2>4
  <2>6. DOMAIN q = {"at", "market", "left", "copy", "seen", "skipped", "reply"}
        /\ q.at = "bedrooms" /\ q.copy = both /\ q.left = errand[r].left
    BY <2>3, <2>4
  <2>7. errand'[r] = q
    BY <2>3, <2>5
  <2>8. Pair(r)' = Pair(r)
    BY <2>6, <2>7 DEF Pair
  <2>9. ASSUME NEW t \in OpexTableNames
        PROVE  CloneKept(r, t)'
    <3>1. errand'[r].copy[t] = rows(t)
      BY <2>2, <2>6, <2>7
    <3>2. rows(t) = Cloned(RowsOfMarket(r, t, Pair(r).source), r)
      BY DEF rows
    <3>3. /\ DOMAIN rows(t) = RowsOfMarket(r, t, Pair(r).source) /\ IsFiniteSet(DOMAIN rows(t))
          /\ \A i \in DOMAIN rows(t) :
                 /\ DOMAIN rows(t)[i] = OpexFields /\ rows(t)[i].table = t /\ rows(t)[i].live
                 /\ rows(t)[i].market = Pair(r).target /\ rows(t)[i].from = <<r, Pair(r).target>>
                 /\ rows(t)[i].open = r
          /\ \A i, j \in DOMAIN rows(t) :
                rows(t)[i].key = rows(t)[j].key /\ rows(t)[i].key # None => i = j
      <4>1. Pair(r).source # None
        BY <1>1 DEF OpexInv, ErrandKept, Seeding
      <4> QED BY <3>2, <4>1, ClonesApart
    <3>4. DOMAIN rows(t) # {}
      BY <1>3, <3>3 DEF BothTables
    <3> QED BY <2>8, <3>1, <3>3, <3>4 DEF CloneKept
  <2>10. r \notin crossed => Open(Pair(r).target)' /\ NoneInTheWay(r)'
    BY <1>1, <2>8 DEF Open, LiveMarket, OpexInv, ErrandKept, Seeding, NoneInTheWay, Used
  <2>11. ErrandKept(r)'
    <3>1. Pair(r)'.source # None
      BY <1>1, <2>8 DEF OpexInv, ErrandKept, Seeding
    <3> QED BY <1>1, <2>6, <2>7, <2>9, <2>10, <3>1 DEF ErrandKept
  <2> QED BY <1>1, <2>5, <2>6, <2>11, OpexLooking
<1> QED BY <1>2, <1>3

\* A request that moves on without writing.
LEMMA OpexMoves ==
    ASSUME OpexInv, NEW r \in DOMAIN OpexAsks, NEW q, errand' = [errand EXCEPT ![r] = q],
           UNCHANGED <<opexRow, marketRow, crossed, spoiled>>, errand[r].at # "size",
           DOMAIN q = {"at", "market", "left", "copy", "seen", "skipped", "reply"},
           q.at \in {"row", "done"}
    PROVE  OpexInv'
<1>1. errand'[r] = q
  BY DEF OpexInv, OpexTyped
<1>2. ErrandKept(r)'
  BY <1>1, NothingKept
<1> QED BY <1>2, OpexLooking

LEMMA ResolveSlugInv ==
    ASSUME OpexInv, NEW r \in DOMAIN OpexAsks, ResolveSlug(r)
    PROVE  OpexInv'
<1> DEFINE found == IF Errand(r).slug = None THEN {Errand(r).market} ELSE MarketBySlug(Errand(r).slug)
<1>1. errand[r].at = "start" /\ UNCHANGED <<opexRow, marketRow, crossed, spoiled>>
  BY DEF ResolveSlug, Starts
<1>2. CASE found = {}
  <2>1. EndErrand(r, 404)
    BY <1>2 DEF ResolveSlug
  <2> QED BY <1>1, <2>1, Refused
<1>3. CASE found # {}
  <2>1. PICK m : errand' = [errand EXCEPT ![r].at = "row", ![r].market = m]
    BY <1>3 DEF ResolveSlug
  <2>2. /\ DOMAIN errand = DOMAIN OpexAsks
        /\ DOMAIN errand[r] = {"at", "market", "left", "copy", "seen", "skipped", "reply"}
    BY DEF OpexInv, OpexTyped
  <2>3. PICK q : q = [errand[r] EXCEPT !.at = "row", !.market = m]
    OBVIOUS
  <2>4. errand' = [errand EXCEPT ![r] = q]
    BY <2>1, <2>2, <2>3
  <2>5. DOMAIN q = {"at", "market", "left", "copy", "seen", "skipped", "reply"} /\ q.at = "row"
    BY <2>2, <2>3
  <2> QED BY <1>1, <2>4, <2>5, OpexMoves
<1> QED BY <1>2, <1>3

LEMMA FindRowInv ==
    ASSUME OpexInv, NEW r \in DOMAIN OpexAsks, FindRow(r)
    PROVE  OpexInv'
<1> DEFINE found == {id \in RowsOfMarket(r, Errand(r).table, errand[r].market) :
                        errand[r].market # None /\ opexRow[id].key = Errand(r).key}
<1>1. errand[r].at = "row" /\ UNCHANGED <<opexRow, marketRow, crossed, spoiled>>
  BY DEF FindRow
<1>2. CASE found = {}
  <2>1. EndErrand(r, 404)
    BY <1>2 DEF FindRow
  <2> QED BY <1>1, <2>1, Refused
<1>3. CASE found # {}
  <2>1. PICK one : one = CHOOSE id \in found : TRUE
    OBVIOUS
  <2>2. errand' = [errand EXCEPT ![r].at = "done", ![r].reply = 200, ![r].copy = one]
    BY <1>3, <2>1 DEF FindRow
  <2>3. /\ DOMAIN errand = DOMAIN OpexAsks
        /\ DOMAIN errand[r] = {"at", "market", "left", "copy", "seen", "skipped", "reply"}
    BY DEF OpexInv, OpexTyped
  <2>4. PICK q : q = [errand[r] EXCEPT !.at = "done", !.reply = 200, !.copy = one]
    OBVIOUS
  <2>5. errand' = [errand EXCEPT ![r] = q]
    BY <2>2, <2>3, <2>4
  <2>6. DOMAIN q = {"at", "market", "left", "copy", "seen", "skipped", "reply"} /\ q.at = "done"
    BY <2>3, <2>4
  <2> QED BY <1>1, <2>5, <2>6, OpexMoves
<1> QED BY <1>2, <1>3

LEMMA LoadRowInv ==
    ASSUME OpexInv, NEW r \in DOMAIN OpexAsks, LoadRow(r)
    PROVE  OpexInv'
<1>1. /\ errand[r].at = "row" /\ UNCHANGED <<opexRow, marketRow, crossed, spoiled>>
  BY DEF LoadRow
<1>2. CASE Errand(r).on \notin Seen(r)
  <2>1. EndErrand(r, 404)
    BY <1>2 DEF LoadRow
  <2> QED BY <1>1, <2>1, Refused
<1>3. CASE Errand(r).on \in Seen(r)
  <2>1. PICK row : row = opexRow[Errand(r).on]
    OBVIOUS
  <2>2. errand' = [errand EXCEPT ![r].at = "patch", ![r].copy = row]
    BY <1>3, <2>1 DEF LoadRow
  <2>3. /\ DOMAIN errand = DOMAIN OpexAsks
        /\ DOMAIN errand[r] = {"at", "market", "left", "copy", "seen", "skipped", "reply"}
    BY DEF OpexInv, OpexTyped
  <2>4. PICK q : q = [errand[r] EXCEPT !.at = "patch", !.copy = row]
    OBVIOUS
  <2>5. errand' = [errand EXCEPT ![r] = q]
    BY <2>2, <2>3, <2>4
  <2>6. DOMAIN q = {"at", "market", "left", "copy", "seen", "skipped", "reply"} /\ q.at = "patch"
    BY <2>3, <2>4
  <2>7. errand'[r] = q
    BY <2>3, <2>5
  <2>8. Errand(r).on \in Used /\ opexRow[Errand(r).on].open = None
    BY <1>1, <1>3 DEF Seen, OpexInv, OpenRowsAreSeeds
  <2>9. ErrandKept(r)'
    BY <1>1, <2>6, <2>7, <2>8 DEF ErrandKept, Used, Seeding
  <2> QED BY <1>1, <2>5, <2>6, <2>9, OpexLooking
<1> QED BY <1>2, <1>3

LEMMA ReadMarketsInv ==
    ASSUME OpexInv, NEW r \in DOMAIN OpexAsks, ReadMarkets(r)
    PROVE  OpexInv'
<1>1. errand[r].at = "start" /\ UNCHANGED <<opexRow, marketRow, crossed, spoiled>>
  BY DEF ReadMarkets, Starts
<1> DEFINE bad == \E l \in Errand(r).lines : \E c \in DOMAIN l.cells : Values(l)[c] = BadCell
<1>2. CASE EndErrand(r, 2)
  BY <1>1, <1>2, Refused
<1>3. CASE ~EndErrand(r, 2)
  <2>1. ~bad
    BY <1>3 DEF ReadMarkets
  <2>2. PICK id : errand' = [errand EXCEPT ![r].at = "lines", ![r].market = id]
    BY <1>3, <2>1 DEF ReadMarkets
  <2>3. /\ DOMAIN errand = DOMAIN OpexAsks
        /\ DOMAIN errand[r] = {"at", "market", "left", "copy", "seen", "skipped", "reply"}
    BY DEF OpexInv, OpexTyped
  <2>4. PICK q : q = [errand[r] EXCEPT !.at = "lines", !.market = id]
    OBVIOUS
  <2>5. errand' = [errand EXCEPT ![r] = q]
    BY <2>2, <2>3, <2>4
  <2>6. DOMAIN q = {"at", "market", "left", "copy", "seen", "skipped", "reply"} /\ q.at = "lines"
    BY <2>3, <2>4
  <2>7. errand'[r] = q
    BY <2>3, <2>5
  <2>8. ErrandKept(r)'
    BY <2>1, <2>6, <2>7 DEF ErrandKept, Seeding
  <2> QED BY <1>1, <2>5, <2>6, <2>8, OpexLooking
<1> QED BY <1>2, <1>3

\* What a cell of a CSV says is nothing, or one value, unless it is bad.
LEMMA OneValue ==
    ASSUME NEW cell, NEW column, ParseCell(cell, column) # BadCell, ParseCell(cell, column) # <<>>
    PROVE  ParseCell(cell, column) = <<ParseCell(cell, column)[1]>>
<1> DEFINE v == IF cell[1] = "percent" THEN cell[2] ELSE 100 * cell[2]
<1>1. \/ ParseCell(cell, column) = <<None>>
      \/ ParseCell(cell, column) = <<v>>
  <2>1. CASE cell = <<"blank">>
    BY <2>1 DEF ParseCell
  <2>2. CASE cell = <<"null">>
    BY <2>2 DEF ParseCell
  <2>3. CASE cell # <<"blank">> /\ cell # <<"null">>
    BY <2>3 DEF ParseCell
  <2> QED BY <2>1, <2>2, <2>3
<1> HIDE DEF v
<1> QED BY <1>1

LEMMA ReadCsvInv ==
    ASSUME OpexInv, NEW r \in DOMAIN OpexAsks, ReadCsv(r)
    PROVE  OpexInv'
<1> DEFINE lines == Errand(r).lines
           RowsNamed(l) == {id \in Seen(r) : /\ opexRow[id].table = Errand(r).table
                                            /\ opexRow[id].key = l.key
                                            /\ errand[r].market[l.market] # None
                                            /\ opexRow[id].market = errand[r].market[l.market]}
           pairs == {x \in lines \X Used : x[2] \in RowsNamed(x[1])}
           edits == UNION {{[on |-> x[2], cell |-> c, value |-> Values(x[1])[c][1]] :
                               c \in DiffRow(opexRow[x[2]], Values(x[1]))} : x \in pairs}
<1>1. errand[r].at = "lines" /\ UNCHANGED <<opexRow, marketRow, crossed, spoiled>>
  BY DEF ReadCsv
<1>2. PICK skipped : errand' = [errand EXCEPT ![r].at = "write", ![r].skipped = skipped,
                                              ![r].seen = opexRow, ![r].copy = edits]
  BY Zenon DEF ReadCsv
<1>3. \A l \in lines : \A c \in DOMAIN l.cells : Values(l)[c] # BadCell
  BY <1>1 DEF OpexInv, ErrandKept
<1>4. ASSUME NEW e \in edits
      PROVE  opexRow[e.on].cells[e.cell] # e.value
  <2>1. PICK x \in pairs : \E c \in DiffRow(opexRow[x[2]], Values(x[1])) :
                              e = [on |-> x[2], cell |-> c, value |-> Values(x[1])[c][1]]
    BY <1>4
  <2>2. PICK l, id : l = x[1] /\ id = x[2]
    OBVIOUS
  <2>3. l \in lines
    BY <2>1, <2>2
  <2> HIDE DEF pairs, edits
  <2>4. PICK c \in DiffRow(opexRow[id], Values(l)) :
          e = [on |-> id, cell |-> c, value |-> Values(l)[c][1]]
    BY <2>1, <2>2
  <2>5. c \in DOMAIN l.cells /\ Values(l)[c] = ParseCell(l.cells[c], c)
    BY <2>4 DEF DiffRow, Values
  <2>6. Values(l)[c] # <<>> /\ Values(l)[c] # <<opexRow[id].cells[c]>> /\ Values(l)[c] # BadCell
    BY <1>3, <2>3, <2>4, <2>5 DEF DiffRow
  <2>7. Values(l)[c] = <<Values(l)[c][1]>>
    BY <2>5, <2>6, OneValue
  <2>8. e.on = id /\ e.cell = c /\ e.value = Values(l)[c][1]
    BY <2>4
  <2> QED BY <2>6, <2>7, <2>8
<1> HIDE DEF edits
<1>5. /\ DOMAIN errand = DOMAIN OpexAsks
      /\ DOMAIN errand[r] = {"at", "market", "left", "copy", "seen", "skipped", "reply"}
  BY DEF OpexInv, OpexTyped
<1>6. PICK q : q = [errand[r] EXCEPT !.at = "write", !.skipped = skipped, !.seen = opexRow,
                                     !.copy = edits]
  OBVIOUS
<1>7. errand' = [errand EXCEPT ![r] = q]
  BY <1>2, <1>5, <1>6
<1>8. DOMAIN q = {"at", "market", "left", "copy", "seen", "skipped", "reply"} /\ q.at = "write"
      /\ q.seen = opexRow /\ q.copy = edits
  BY <1>5, <1>6
<1>9. errand'[r] = q
  BY <1>5, <1>7
<1>10. ErrandKept(r)'
  BY <1>4, <1>8, <1>9 DEF ErrandKept, Seeding
<1> QED BY <1>1, <1>7, <1>8, <1>10, OpexLooking

\* A step that writes rows.
LEMMA OpexWritten ==
    ASSUME OpexInv, NEW r \in DOMAIN OpexAsks, UNCHANGED marketRow,
           opexRow' \in Seq(ToSet(opexRow')),
           \A id \in Used' : DOMAIN opexRow'[id] = OpexFields /\ opexRow'[id].table \in OpexTableNames,
           RowsAreUnique', SeedsAreWhole', OpenRowsAreSeeds',
           spoiled' \subseteq crossed', crossed \subseteq crossed',
           DOMAIN errand' = DOMAIN OpexAsks,
           DOMAIN errand'[r] = {"at", "market", "left", "copy", "seen", "skipped", "reply"},
           \A s \in DOMAIN OpexAsks : s # r => errand'[s] = errand[s],
           ErrandKept(r)',
           \A id \in Used : /\ id \in Used'
                            /\ opexRow[id].open # r => opexRow'[id].open = opexRow[id].open,
           \A s \in DOMAIN OpexAsks :
              s # r /\ Seeding(s) /\ s \notin crossed' /\ NoneInTheWay(s) => NoneInTheWay(s)'
    PROVE  OpexInv'
<1>1. OpexTyped'
  BY DEF OpexInv, OpexTyped
<1>2. SlugsAreUnique'
  BY DEF OpexInv, SlugsAreUnique, LiveMarket
<1>3. OnlyRacesSpoilSeeds'
  BY DEF OnlyRacesSpoilSeeds
<1>4. ASSUME NEW s \in DOMAIN OpexAsks, s # r
      PROVE  ErrandKept(s)'
  <2>1. errand'[s] = errand[s]
    BY <1>4
  <2>2. Open(Pair(s).target) => Open(Pair(s).target)'
    BY <2>1 DEF Open, Pair, LiveMarket
  <2>3. \A id \in Used : /\ id \in Used'
                         /\ opexRow[id].open \in {None, s} => opexRow'[id].open = opexRow[id].open
    BY <1>4, OpexAssumption
  <2>4. s \in crossed /\ Seeding(s) => s \in crossed'
    OBVIOUS
  <2>5. Seeding(s) /\ s \notin crossed' /\ NoneInTheWay(s) => NoneInTheWay(s)'
    BY <1>4
  <2> QED BY ONLY OpexInv, s \in DOMAIN OpexAsks, <2>1, <2>2, <2>3, <2>4, <2>5, Undisturbed
<1> QED BY <1>1, <1>2, <1>3, <1>4 DEF OpexInv

\* Open rows stay what they are when a request that has none writes.
LEMMA OpenKept ==
    ASSUME OpexInv, NEW r \in DOMAIN OpexAsks, errand[r].at # "size",
           \A s \in DOMAIN OpexAsks : s # r => errand'[s] = errand[s],
           \A id \in Used' : opexRow'[id].open # None =>
              /\ id \in Used /\ opexRow[id].open = opexRow'[id].open
              /\ opexRow[id].live => opexRow'[id].live
              /\ opexRow[id].table = opexRow'[id].table /\ opexRow[id].market = opexRow'[id].market
              /\ opexRow[id].from = opexRow'[id].from
    PROVE  OpenRowsAreSeeds'
<1>1. ASSUME NEW id \in Used', opexRow'[id].open # None, NEW s, s = opexRow'[id].open
      PROVE  /\ s \in DOMAIN OpexAsks /\ errand'[s].at = "size" /\ errand'[s] = errand[s]
             /\ opexRow'[id].live /\ opexRow'[id].table = "bedrooms"
             /\ opexRow'[id].market = Pair(s).target /\ opexRow'[id].from = <<s, Pair(s).target>>
  <2>1. /\ s \in DOMAIN OpexAsks /\ errand[s].at = "size" /\ opexRow[id].live
        /\ opexRow[id].table = "bedrooms"
        /\ opexRow[id].market = Pair(s).target /\ opexRow[id].from = <<s, Pair(s).target>>
    BY <1>1 DEF OpexInv, OpenRowsAreSeeds
  <2> QED BY <1>1, <2>1
<1>2. \A s : errand'[s] = errand[s] => Pair(s)' = Pair(s)
  BY DEF Pair
<1> QED BY <1>1, <1>2 DEF OpenRowsAreSeeds

\* No seed becomes half while the committed rows keep where they come from.
LEMMA WholeKept ==
    ASSUME SeedsAreWhole,
           \A id \in Used' : opexRow'[id].from # None /\ opexRow'[id].open = None =>
              /\ id \in Used /\ opexRow[id].from = opexRow'[id].from /\ opexRow[id].open = None
              /\ opexRow[id].table = opexRow'[id].table,
           \A id \in Used : opexRow[id].from # None /\ opexRow[id].open = None =>
              /\ id \in Used' /\ opexRow[id].from = opexRow'[id].from /\ opexRow'[id].open = None
              /\ opexRow[id].table = opexRow'[id].table
    PROVE  SeedsAreWhole'
BY DEF SeedsAreWhole

\* New or changed rows stand beside the others when none of them clashes.
LEMMA UniqueKept ==
    ASSUME RowsAreUnique, NEW new,
           \A id \in Used' : id \notin new /\ opexRow'[id].live =>
              /\ id \in Used /\ opexRow[id].live /\ opexRow[id].table = opexRow'[id].table
              /\ opexRow[id].market = opexRow'[id].market /\ opexRow[id].key = opexRow'[id].key,
           \A a, b \in Used' :
              a \in new /\ opexRow'[a].live /\ opexRow'[b].live /\ opexRow'[a].table = opexRow'[b].table
                /\ opexRow'[a].market = opexRow'[b].market /\ opexRow'[a].key = opexRow'[b].key
                /\ None \notin {opexRow'[a].market, opexRow'[a].key} => a = b
    PROVE  RowsAreUnique'
<1>1. ASSUME NEW a \in Used', NEW b \in Used', opexRow'[a].live, opexRow'[b].live,
             opexRow'[a].table = opexRow'[b].table, opexRow'[a].market = opexRow'[b].market,
             opexRow'[a].key = opexRow'[b].key, None \notin {opexRow'[a].market, opexRow'[a].key}
      PROVE  a = b
  <2>1. CASE a \in new \/ b \in new
    BY <1>1, <2>1
  <2>2. CASE a \notin new /\ b \notin new
    <3>1. opexRow[a].live /\ b \in Twins(opexRow[a]) /\ a \in Used
      BY <1>1, <2>2 DEF Twins
    <3> QED BY <3>1 DEF RowsAreUnique, Twins
  <2> QED BY <2>1, <2>2
<1> QED BY <1>1 DEF RowsAreUnique, Twins

LEMMA FewerRows ==
    ASSUME RowsAreUnique,
           \A id \in Used' : opexRow'[id].live =>
              /\ id \in Used /\ opexRow[id].live /\ opexRow[id].table = opexRow'[id].table
              /\ opexRow[id].market = opexRow'[id].market /\ opexRow[id].key = opexRow'[id].key
    PROVE  RowsAreUnique'
BY DEF RowsAreUnique, Twins

LEMMA DeleteRowInv ==
    ASSUME OpexInv, NEW r \in DOMAIN OpexAsks, DeleteRow(r)
    PROVE  OpexInv'
<1>1. errand[r].at = "start" /\ UNCHANGED <<marketRow, crossed, spoiled>>
  BY DEF DeleteRow, Starts
<1>2. PICK id : id = Errand(r).on
  OBVIOUS
<1>3. CASE id \notin Seen(r)
  <2>1. EndErrand(r, 404) /\ UNCHANGED opexRow
    BY <1>2, <1>3 DEF DeleteRow
  <2> QED BY <1>1, <2>1, Refused
<1>4. CASE id \in Seen(r)
  <2>1. opexRow' = [opexRow EXCEPT ![id].live = FALSE] /\ EndErrand(r, 200)
    BY <1>2, <1>4 DEF DeleteRow
  <2>2. id \in Used /\ opexRow[id].open = None
    BY <1>1, <1>4 DEF Seen, OpexInv, OpenRowsAreSeeds
  <2>3. opexRow \in Seq(ToSet(opexRow)) /\ DOMAIN opexRow[id] = OpexFields
    BY <2>2 DEF OpexInv, OpexTyped
  <2>4. PICK row : row = [opexRow[id] EXCEPT !.live = FALSE]
    OBVIOUS
  <2>5. opexRow' = [opexRow EXCEPT ![id] = row]
    BY <2>1, <2>2, <2>4 DEF Used
  <2>6. /\ DOMAIN row = OpexFields /\ row.live = FALSE /\ row.table = opexRow[id].table
        /\ row.open = opexRow[id].open /\ row.from = opexRow[id].from
    BY <2>3, <2>4 DEF OpexFields
  <2>7. /\ opexRow' \in Seq(ToSet(opexRow')) /\ Used' = Used /\ opexRow'[id] = row
        /\ \A i \in Used : i # id => opexRow'[i] = opexRow[i]
    BY <2>2, <2>3, <2>5, Changed DEF Used
  <2>8. \A i \in Used' : /\ DOMAIN opexRow'[i] = OpexFields
                         /\ opexRow'[i].table = opexRow[i].table /\ opexRow'[i].open = opexRow[i].open
                         /\ opexRow'[i].from = opexRow[i].from
    BY <2>6, <2>7 DEF OpexInv, OpexTyped
  <2>9. \A i \in Used' : opexRow'[i].live => i # id /\ opexRow'[i] = opexRow[i]
    BY <2>6, <2>7
  <2>10. SeedsAreWhole'
    BY <2>7, <2>8, WholeKept DEF OpexInv
  <2>11. RowsAreUnique'
    <3>1. \A i \in Used' : opexRow'[i].live =>
              /\ i \in Used /\ opexRow[i].live /\ opexRow[i].table = opexRow'[i].table
              /\ opexRow[i].market = opexRow'[i].market /\ opexRow[i].key = opexRow'[i].key
      BY <2>7, <2>9
    <3> QED BY <3>1, FewerRows DEF OpexInv
  <2>12. /\ DOMAIN errand' = DOMAIN OpexAsks /\ ErrandKept(r)'
         /\ DOMAIN errand'[r] = {"at", "market", "left", "copy", "seen", "skipped", "reply"}
         /\ \A s \in DOMAIN OpexAsks : s # r => errand'[s] = errand[s]
    BY <2>1, OpexEnding
  <2>13. OpenRowsAreSeeds'
    <3>1. \A i \in Used' : opexRow'[i].open # None => i # id /\ opexRow'[i] = opexRow[i]
      BY <2>2, <2>7, <2>8
    <3> QED BY <1>1, <2>7, <2>12, <3>1, OpenKept
  <2>14. \A s \in DOMAIN OpexAsks : s # r /\ NoneInTheWay(s) => NoneInTheWay(s)'
    BY <2>7, <2>9, <2>12 DEF NoneInTheWay, Pair
  <2>15. spoiled' \subseteq crossed' /\ crossed \subseteq crossed' /\ UNCHANGED marketRow
    BY <1>1 DEF OpexInv, OnlyRacesSpoilSeeds
  <2>16. \A i \in Used' : opexRow'[i].table \in OpexTableNames
    BY <2>7, <2>8 DEF OpexInv, OpexTyped
  <2> QED BY <2>7, <2>8, <2>10, <2>11, <2>12, <2>13, <2>14, <2>15, <2>16, OpexWritten
<1> QED BY <1>3, <1>4

\* The CSV's cells, and nothing else of a row.
LEMMA CellsWritten ==
    ASSUME OpexInv, NEW r \in DOMAIN OpexAsks, WriteCsv(r)
    PROVE  /\ opexRow' \in Seq(ToSet(opexRow')) /\ Used' = Used
           /\ \A id \in Used :
                /\ DOMAIN opexRow'[id] = OpexFields
                /\ opexRow'[id].table = opexRow[id].table /\ opexRow'[id].market = opexRow[id].market
                /\ opexRow'[id].key = opexRow[id].key /\ opexRow'[id].live = opexRow[id].live
                /\ opexRow'[id].from = opexRow[id].from /\ opexRow'[id].open = opexRow[id].open
                /\ DOMAIN opexRow'[id].cells = DOMAIN opexRow[id].cells
                /\ \A c \in DOMAIN opexRow[id].cells :
                      \/ opexRow'[id].cells[c] = opexRow[id].cells[c]
                      \/ \E e \in errand[r].copy :
                            e.on = id /\ e.cell = c /\ opexRow'[id].cells[c] = e.value
<1> DEFINE cells(id) == [c \in DOMAIN opexRow[id].cells |->
                           IF CsvEdits(r, id, c) = {} THEN opexRow[id].cells[c]
                           ELSE (CHOOSE e \in CsvEdits(r, id, c) : TRUE).value]
           table == [id \in Used |-> [opexRow[id] EXCEPT !.cells = cells(id)]]
<1>1. opexRow' = table
  BY DEF WriteCsv
<1>2. opexRow \in Seq(ToSet(opexRow)) /\ \A id \in Used : DOMAIN opexRow[id] = OpexFields
  BY DEF OpexInv, OpexTyped
<1>3. \A id \in Used : table[id] = [opexRow[id] EXCEPT !.cells = cells(id)]
  OBVIOUS
<1>4. DOMAIN table = Used /\ table = [id \in Used |-> table[id]]
  OBVIOUS
<1>5. ASSUME NEW id \in Used
      PROVE  /\ DOMAIN cells(id) = DOMAIN opexRow[id].cells
             /\ \A c \in DOMAIN opexRow[id].cells :
                      \/ cells(id)[c] = opexRow[id].cells[c]
                      \/ \E e \in errand[r].copy : e.on = id /\ e.cell = c /\ cells(id)[c] = e.value
  <2>1. ASSUME NEW c \in DOMAIN opexRow[id].cells, CsvEdits(r, id, c) # {}
        PROVE  \E e \in errand[r].copy : e.on = id /\ e.cell = c /\ cells(id)[c] = e.value
    <3>1. PICK e : e = CHOOSE f \in CsvEdits(r, id, c) : TRUE
      OBVIOUS
    <3>2. e \in CsvEdits(r, id, c)
      BY <2>1, <3>1
    <3>3. cells(id)[c] = e.value
      BY <2>1, <3>1
    <3> HIDE DEF cells
    <3> QED BY <3>2, <3>3 DEF CsvEdits
  <2>2. \A c \in DOMAIN opexRow[id].cells :
           CsvEdits(r, id, c) = {} => cells(id)[c] = opexRow[id].cells[c]
    OBVIOUS
  <2>3. DOMAIN cells(id) = DOMAIN opexRow[id].cells
    OBVIOUS
  <2> HIDE DEF cells
  <2> QED BY <2>1, <2>2, <2>3
<1> HIDE DEF cells, table
<1>6. \A id \in Used : /\ DOMAIN table[id] = OpexFields /\ table[id].cells = cells(id)
                       /\ table[id].table = opexRow[id].table /\ table[id].market = opexRow[id].market
                       /\ table[id].key = opexRow[id].key /\ table[id].live = opexRow[id].live
                       /\ table[id].from = opexRow[id].from /\ table[id].open = opexRow[id].open
  BY <1>2, <1>3 DEF OpexFields
<1>7. table \in Seq(ToSet(table))
  BY <1>2, <1>4, SameLength DEF Used
<1> QED BY <1>1, <1>4, <1>5, <1>6, <1>7 DEF Used

LEMMA WriteCsvInv ==
    ASSUME OpexInv, NEW r \in DOMAIN OpexAsks, WriteCsv(r)
    PROVE  OpexInv' /\ KeepsLaterEdits(r)
<1>1. errand[r].at = "write" /\ UNCHANGED <<marketRow, crossed, spoiled>>
  BY DEF WriteCsv
<1>2. PICK code : EndErrand(r, code)
  BY DEF WriteCsv
<1>3. /\ DOMAIN errand' = DOMAIN OpexAsks /\ ErrandKept(r)'
      /\ DOMAIN errand'[r] = {"at", "market", "left", "copy", "seen", "skipped", "reply"}
      /\ \A s \in DOMAIN OpexAsks : s # r => errand'[s] = errand[s]
  BY <1>2, OpexEnding
<1>4. /\ opexRow' \in Seq(ToSet(opexRow')) /\ Used' = Used
      /\ \A id \in Used :
                /\ DOMAIN opexRow'[id] = OpexFields
                /\ opexRow'[id].table = opexRow[id].table /\ opexRow'[id].market = opexRow[id].market
                /\ opexRow'[id].key = opexRow[id].key /\ opexRow'[id].live = opexRow[id].live
                /\ opexRow'[id].from = opexRow[id].from /\ opexRow'[id].open = opexRow[id].open
  BY CellsWritten
<1>5. SeedsAreWhole'
  BY <1>4, WholeKept DEF OpexInv
<1>6. RowsAreUnique'
  BY <1>4, FewerRows DEF OpexInv
<1>7. OpenRowsAreSeeds'
  <2>1. \A id \in Used' : opexRow'[id].open # None =>
              /\ id \in Used /\ opexRow[id].open = opexRow'[id].open
              /\ opexRow[id].live => opexRow'[id].live
              /\ opexRow[id].table = opexRow'[id].table /\ opexRow[id].market = opexRow'[id].market
              /\ opexRow[id].from = opexRow'[id].from
    BY <1>4
  <2> QED BY <1>1, <1>3, <2>1, OpenKept
<1>8. \A s \in DOMAIN OpexAsks : s # r /\ NoneInTheWay(s) => NoneInTheWay(s)'
  BY <1>3, <1>4 DEF NoneInTheWay, Pair
<1>9. spoiled' \subseteq crossed' /\ crossed \subseteq crossed' /\ UNCHANGED marketRow
  BY <1>1 DEF OpexInv, OnlyRacesSpoilSeeds
<1>10. \A id \in Used' : opexRow'[id].table \in OpexTableNames
  BY <1>4 DEF OpexInv, OpexTyped
<1>11. OpexInv'
  BY <1>3, <1>4, <1>5, <1>6, <1>7, <1>8, <1>9, <1>10, OpexWritten
<1>12. KeepsLaterEdits(r)
  <2>1. \A e \in errand[r].copy : errand[r].seen[e.on].cells[e.cell] # e.value
    BY <1>1 DEF OpexInv, ErrandKept
  <2>2. \A id \in Used : \A c \in DOMAIN opexRow[id].cells :
           \/ opexRow'[id].cells[c] = opexRow[id].cells[c]
           \/ \E e \in errand[r].copy : e.on = id /\ e.cell = c /\ opexRow'[id].cells[c] = e.value
    BY CellsWritten
  <2> QED BY <2>1, <2>2 DEF KeepsLaterEdits
<1> QED BY <1>11, <1>12

LEMMA AddMarketInv ==
    ASSUME OpexInv, NEW r \in DOMAIN OpexAsks, AddMarket(r)
    PROVE  OpexInv'
<1>1. errand[r].at = "start" /\ UNCHANGED <<opexRow, crossed, spoiled>>
  BY DEF AddMarket, Starts
<1>2. PICK row : row = [slug |-> Errand(r).slug, name |-> Errand(r).name, status |-> Errand(r).status,
                        live |-> TRUE]
  OBVIOUS
<1>3. DOMAIN row = MarketFields /\ row.slug = Errand(r).slug
  BY <1>2 DEF MarketFields
<1>4. CASE MarketBySlug(row.slug) # {}
  <2>1. EndErrand(r, 500) /\ UNCHANGED marketRow
    BY <1>2, <1>4 DEF AddMarket
  <2> QED BY <1>1, <2>1, Refused
<1>5. CASE MarketBySlug(row.slug) = {}
  <2>1. marketRow' = Append(marketRow, row) /\ EndErrand(r, 201)
    BY <1>2, <1>5 DEF AddMarket
  <2>2. marketRow \in Seq(ToSet(marketRow)) /\ \A m \in DOMAIN marketRow : DOMAIN marketRow[m] = MarketFields
    BY DEF OpexInv, OpexTyped
  <2>3. PICK n : n = Len(marketRow) + 1
    OBVIOUS
  <2>4. /\ marketRow' \in Seq(ToSet(marketRow')) /\ DOMAIN marketRow \subseteq DOMAIN marketRow'
        /\ n \in DOMAIN marketRow' /\ marketRow'[n] = row
        /\ \A m \in DOMAIN marketRow' : m \in DOMAIN marketRow \/ m = n
        /\ \A m \in DOMAIN marketRow : marketRow'[m] = marketRow[m]
    BY <2>1, <2>2, <2>3, Appended
  <2>5. SlugsAreUnique'
    <3>1. \A m \in DOMAIN marketRow : ~(LiveMarket(m) /\ marketRow[m].slug = row.slug)
      BY <1>5 DEF MarketBySlug
    <3>2. \A m \in DOMAIN marketRow' : LiveMarket(m)' /\ m # n =>
             m \in DOMAIN marketRow /\ LiveMarket(m) /\ marketRow'[m] = marketRow[m]
      BY <2>4 DEF LiveMarket
    <3> QED BY <2>4, <3>1, <3>2 DEF OpexInv, SlugsAreUnique
  <2>6. /\ DOMAIN errand' = DOMAIN OpexAsks /\ ErrandKept(r)'
        /\ DOMAIN errand'[r] = {"at", "market", "left", "copy", "seen", "skipped", "reply"}
        /\ \A s \in DOMAIN OpexAsks : s # r => errand'[s] = errand[s]
    BY <2>1, OpexEnding
  <2>7. OpexTyped'
    BY <1>1, <1>3, <2>2, <2>4, <2>6 DEF OpexInv, OpexTyped, Used
  <2>8. RowsAreUnique' /\ SeedsAreWhole' /\ OnlyRacesSpoilSeeds'
    BY <1>1 DEF OpexInv, RowsAreUnique, SeedsAreWhole, Used, Twins, OnlyRacesSpoilSeeds
  <2>9. OpenRowsAreSeeds'
    BY <1>1, <2>6, OpenKept DEF Used
  <2>10. ASSUME NEW s \in DOMAIN OpexAsks, s # r
         PROVE  ErrandKept(s)'
    <3>1. NoneInTheWay(s) => NoneInTheWay(s)'
      BY <1>1, <2>6, <2>10 DEF NoneInTheWay, Pair, Used
    <3>2. Open(Pair(s).target) => Open(Pair(s).target)'
      BY <2>4, <2>6, <2>10 DEF Open, Pair, LiveMarket
    <3> QED BY <1>1, <2>6, <2>10, <3>1, <3>2, Undisturbed DEF Used
  <2> QED BY <2>5, <2>6, <2>7, <2>8, <2>9, <2>10 DEF OpexInv
<1> QED BY <1>4, <1>5

LEMMA WriteMarketInv ==
    ASSUME OpexInv, NEW r \in DOMAIN OpexAsks, WriteMarket(r)
    PROVE  OpexInv'
<1>1. errand[r].at = "start" /\ Errand(r).op = "market" /\ UNCHANGED <<opexRow, spoiled>>
  BY DEF WriteMarket, Starts
<1>2. PICK m : m = Errand(r).on
  OBVIOUS
<1>3. CASE ~LiveMarket(m)
  <2>1. EndErrand(r, 404) /\ UNCHANGED <<marketRow, crossed>>
    BY <1>2, <1>3 DEF WriteMarket
  <2> QED BY <1>1, <2>1, Refused
<1>4. CASE LiveMarket(m)
  <2>1. /\ marketRow' = [marketRow EXCEPT ![m].status = Errand(r).status, ![m].live = Errand(r).live]
        /\ EndErrand(r, 200) /\ Crossing(r, m)
    BY <1>2, <1>4 DEF WriteMarket
  <2>2. /\ m \in DOMAIN marketRow /\ DOMAIN marketRow[m] = MarketFields
        /\ marketRow \in Seq(ToSet(marketRow))
    BY <1>4 DEF LiveMarket, OpexInv, OpexTyped
  <2>3. PICK row : row = [marketRow[m] EXCEPT !.status = Errand(r).status, !.live = Errand(r).live]
    OBVIOUS
  <2>4. marketRow' = [marketRow EXCEPT ![m] = row]
    BY <2>1, <2>2, <2>3
  <2>5. DOMAIN row = MarketFields /\ row.slug = marketRow[m].slug
    BY <2>2, <2>3 DEF MarketFields
  <2>6. /\ marketRow' \in Seq(ToSet(marketRow')) /\ DOMAIN marketRow' = DOMAIN marketRow
        /\ marketRow'[m] = row /\ \A n \in DOMAIN marketRow : n # m => marketRow'[n] = marketRow[n]
    BY <2>2, <2>4, Changed
  <2>7. SlugsAreUnique'
    <3>1. \A n \in DOMAIN marketRow' : LiveMarket(n)' =>
             LiveMarket(n) /\ n \in DOMAIN marketRow /\ marketRow'[n].slug = marketRow[n].slug
      BY <1>4, <2>5, <2>6 DEF LiveMarket
    <3> QED BY <2>6, <3>1 DEF OpexInv, SlugsAreUnique
  <2>8. /\ DOMAIN errand' = DOMAIN OpexAsks /\ ErrandKept(r)'
        /\ DOMAIN errand'[r] = {"at", "market", "left", "copy", "seen", "skipped", "reply"}
        /\ \A s \in DOMAIN OpexAsks : s # r => errand'[s] = errand[s]
    BY <2>1, OpexEnding
  <2>9. OpexTyped'
    <3>1. \A n \in DOMAIN marketRow' : DOMAIN marketRow'[n] = MarketFields
      BY <2>5, <2>6 DEF OpexInv, OpexTyped
    <3> QED BY <1>1, <2>6, <2>8, <3>1 DEF OpexInv, OpexTyped, Used
  <2>10. RowsAreUnique' /\ SeedsAreWhole'
    BY <1>1 DEF OpexInv, RowsAreUnique, SeedsAreWhole, Used, Twins
  <2>11. OnlyRacesSpoilSeeds'
    BY <1>1, <2>1 DEF OpexInv, OnlyRacesSpoilSeeds, Crossing
  <2>12. OpenRowsAreSeeds'
    BY <1>1, <2>8, OpenKept DEF Used
  <2>13. ASSUME NEW s \in DOMAIN OpexAsks, s # r
         PROVE  ErrandKept(s)'
    <3>1. NoneInTheWay(s) => NoneInTheWay(s)'
      BY <1>1, <2>8, <2>13 DEF NoneInTheWay, Pair, Used
    <3>2. Seeding(s) /\ s \notin crossed' => Pair(s).target # m
      BY <2>1, <2>13 DEF Crossing
    <3>3. Seeding(s) /\ s \notin crossed' /\ Open(Pair(s).target) => Open(Pair(s).target)'
      BY <2>6, <2>8, <2>13, <3>2 DEF Open, Pair, LiveMarket
    <3>4. s \in crossed => s \in crossed'
      BY <2>1 DEF Crossing
    <3> QED BY <1>1, <2>8, <2>13, <3>1, <3>3, <3>4, Undisturbed DEF Used
  <2> QED BY <2>7, <2>8, <2>9, <2>10, <2>11, <2>12, <2>13 DEF OpexInv
<1> QED BY <1>3, <1>4

\* A table to which a statement added one row for each of these, and in which it changed none.
Lengthened(table, rows) ==
    /\ table \in Seq(ToSet(table)) /\ Used \subseteq DOMAIN table
    /\ \A id \in Used : table[id] = opexRow[id]
    /\ \E source \in [DOMAIN table \ Used -> DOMAIN rows] :
          /\ \A a \in DOMAIN table \ Used : table[a] = rows[source[a]]
          /\ \A a, b \in DOMAIN table \ Used : source[a] = source[b] => a = b
          /\ \A i \in DOMAIN rows : \E a \in DOMAIN table \ Used : source[a] = i

LEMMA RowsInserted ==
    ASSUME OpexInv, NEW rows, IsFiniteSet(DOMAIN rows), NEW table, table = Inserted(rows)
    PROVE  Lengthened(table, rows)
<1>1. PICK order : order = SetToSeq(DOMAIN rows)
  OBVIOUS
<1>2. /\ order \in Seq(DOMAIN rows) /\ ToSet(order) = DOMAIN rows
      /\ \A i, j \in DOMAIN order : order[i] = order[j] => i = j
  BY <1>1, InSomeOrder
<1>3. PICK more : more = [i \in DOMAIN order |-> rows[order[i]]]
  OBVIOUS
<1>4. more \in Seq(ToSet(more)) /\ DOMAIN more = DOMAIN order
  <2>1. order \in Seq(ToSet(order))
    BY <1>2
  <2>2. DOMAIN more = DOMAIN order /\ more = [i \in DOMAIN order |-> more[i]]
    BY <1>3
  <2> QED BY <2>1, <2>2, SameLength
<1>5. table = opexRow \o more /\ opexRow \in Seq(ToSet(opexRow))
  BY <1>1, <1>3 DEF Inserted, OpexInv, OpexTyped
<1>6. PICK n \in Nat : n = Len(opexRow) /\ Used = 1..n
  BY <1>5 DEF Used
<1>7. /\ table \in Seq(ToSet(table)) /\ Used \subseteq DOMAIN table
      /\ \A id \in Used : table[id] = opexRow[id]
      /\ \A i \in DOMAIN more : n + i \in DOMAIN table /\ table[n + i] = more[i]
      /\ \A a \in DOMAIN table : a \in Used \/ \E j \in DOMAIN more : a = n + j
  <2>1. /\ opexRow \o more \in Seq(ToSet(opexRow \o more)) /\ Used \subseteq DOMAIN (opexRow \o more)
        /\ \A i \in Used : (opexRow \o more)[i] = opexRow[i]
        /\ \A i \in DOMAIN more : /\ Len(opexRow) + i \in DOMAIN (opexRow \o more)
                                  /\ (opexRow \o more)[Len(opexRow) + i] = more[i]
        /\ \A i \in DOMAIN (opexRow \o more) :
              i \in Used \/ \E j \in DOMAIN more : i = Len(opexRow) + j
    BY <1>4, <1>5, Extended, Zenon DEF Used
  <2>2. table = opexRow \o more /\ n = Len(opexRow)
    BY <1>5, <1>6
  <2> QED BY <2>1, <2>2, Zenon
<1>8. DOMAIN more \subseteq Nat \ {0}
  BY <1>4
<1>9. \A a \in DOMAIN table \ Used : a - n \in DOMAIN order /\ table[a] = rows[order[a - n]]
  <2>1. ASSUME NEW a \in DOMAIN table \ Used
        PROVE  a - n \in DOMAIN order /\ table[a] = rows[order[a - n]]
    <3>1. PICK j \in DOMAIN more : a = n + j
      BY <1>7, <2>1
    <3>2. j \in Nat /\ a - n = j
      BY <1>8, <3>1
    <3>3. table[a] = more[j]
      BY <1>7, <3>1
    <3> QED BY <1>3, <1>4, <3>2, <3>3
  <2> QED BY <2>1
<1>10. \A i \in DOMAIN order : n + i \in DOMAIN table \ Used /\ (n + i) - n = i
  BY <1>4, <1>6, <1>7, <1>8
<1>11. PICK source : source = [a \in DOMAIN table \ Used |-> order[a - n]]
  OBVIOUS
<1>12. \A i \in DOMAIN order : order[i] \in DOMAIN rows
  BY <1>2
<1>13. /\ source \in [DOMAIN table \ Used -> DOMAIN rows]
       /\ \A a \in DOMAIN table \ Used : source[a] = order[a - n] /\ table[a] = rows[source[a]]
  BY <1>9, <1>11, <1>12
<1>14. \A a, b \in DOMAIN table \ Used : source[a] = source[b] => a = b
  <2>1. ASSUME NEW a \in DOMAIN table \ Used, NEW b \in DOMAIN table \ Used, source[a] = source[b]
        PROVE  a = b
    <3>1. a - n = b - n
      BY <1>2, <1>9, <1>13, <2>1
    <3>2. a \in Int /\ b \in Int
      BY <1>7, <2>1
    <3> QED BY <3>1, <3>2
  <2> QED BY <2>1
<1>15. \A i \in DOMAIN rows : \E a \in DOMAIN table \ Used : source[a] = i
  <2>1. ASSUME NEW i \in DOMAIN rows
        PROVE  \E a \in DOMAIN table \ Used : source[a] = i
    <3>1. PICK j \in DOMAIN order : order[j] = i
      BY <1>2 DEF ToSet
    <3>2. n + j \in DOMAIN table \ Used /\ source[n + j] = i
      BY <1>10, <1>13, <3>1
    <3> QED BY <3>2
  <2> QED BY <2>1
<1> QED BY <1>7, <1>13, <1>14, <1>15 DEF Lengthened

LEMMA CreateRowInv ==
    ASSUME OpexInv, NEW r \in DOMAIN OpexAsks, CreateRow(r)
    PROVE  OpexInv'
<1>1. errand[r].at = "row" /\ Errand(r).op = "create" /\ UNCHANGED <<marketRow, spoiled>>
  BY DEF CreateRow
<1>2. PICK row : row = [table |-> Errand(r).table, market |-> errand[r].market, key |-> Errand(r).key,
                        cells |-> Errand(r).cells, live |-> TRUE, from |-> None, open |-> None]
  OBVIOUS
<1>3. /\ DOMAIN row = OpexFields /\ row.table \in OpexTableNames /\ row.live
      /\ row.from = None /\ row.open = None
  BY <1>1, <1>2, OpexAssumption DEF OpexFields
<1>4. /\ ~MustWait(r, <<row>>)
      /\ IF Rejected(r, <<row>>) \/ NoSuchMarket(row.market)
         THEN EndErrand(r, 500) /\ UNCHANGED <<opexRow, crossed>>
         ELSE opexRow' = Inserted(<<row>>) /\ EndErrand(r, 201) /\ Crossing(r, row.market)
  BY <1>2 DEF CreateRow
<1> HIDE DEF OpexFields
<1>5. CASE Rejected(r, <<row>>) \/ NoSuchMarket(row.market)
  BY <1>1, <1>4, <1>5, Refused
<1>6. CASE ~(Rejected(r, <<row>>) \/ NoSuchMarket(row.market))
  <2>1. opexRow' = Inserted(<<row>>) /\ EndErrand(r, 201) /\ Crossing(r, row.market)
    BY <1>4, <1>6
  <2>2. DOMAIN <<row>> = {1} /\ <<row>>[1] = row
    OBVIOUS
  <2>3. Twins(row) = {}
    <3>1. \A id \in Twins(row) : opexRow[id].open \in {None, r} /\ opexRow[id].open \notin {None, r}
      BY <1>4, <1>6, <2>2 DEF MustWait, Rejected
    <3> QED BY <3>1
  <2>4. IsFiniteSet(DOMAIN <<row>>)
    BY <2>2, FS_Singleton
  <2>5. /\ opexRow' \in Seq(ToSet(opexRow')) /\ Used \subseteq Used'
        /\ \A id \in Used : opexRow'[id] = opexRow[id]
        /\ \A id \in Used' \ Used : opexRow'[id] = row
        /\ \A a, b \in Used' \ Used : a = b
    <3>1. PICK rows : rows = <<row>>
      OBVIOUS
    <3>2. DOMAIN rows = {1} /\ rows[1] = row /\ IsFiniteSet(DOMAIN rows)
      BY <2>2, <2>4, <3>1
    <3>3. PICK table : table = Inserted(rows)
      OBVIOUS
    <3>4. Lengthened(table, rows)
      BY <3>2, <3>3, RowsInserted
    <3>5. PICK source \in [DOMAIN table \ Used -> DOMAIN rows] :
                 /\ \A a \in DOMAIN table \ Used : table[a] = rows[source[a]]
                 /\ \A a, b \in DOMAIN table \ Used : source[a] = source[b] => a = b
      BY <3>4 DEF Lengthened
    <3>6. \A a \in DOMAIN table \ Used : source[a] = 1
      BY <3>2, <3>5
    <3>7. \A a \in DOMAIN table \ Used : table[a] = row
      BY <3>2, <3>5, <3>6, Zenon
    <3>8. \A a, b \in DOMAIN table \ Used : a = b
      BY <3>5, <3>6, Zenon
    <3>9. Used' = DOMAIN table /\ opexRow' = table
      BY <2>1, <3>1, <3>3 DEF Used
    <3>10. /\ table \in Seq(ToSet(table)) /\ Used \subseteq DOMAIN table
           /\ \A id \in Used : table[id] = opexRow[id]
      BY <3>4 DEF Lengthened
    <3> QED BY <3>7, <3>8, <3>9, <3>10, Zenon
  <2>6. \A id \in Used' : DOMAIN opexRow'[id] = OpexFields /\ opexRow'[id].table \in OpexTableNames
    BY <1>3, <2>5 DEF OpexInv, OpexTyped
  <2>7. \A id \in Used' : opexRow'[id].from # None \/ opexRow'[id].open # None =>
           id \in Used /\ opexRow'[id] = opexRow[id]
    BY <1>3, <2>5
  <2>8. SeedsAreWhole'
    BY <2>5, <2>7, WholeKept DEF OpexInv
  <2>9. RowsAreUnique'
    <3>1. PICK new : new = Used' \ Used
      OBVIOUS
    <3>2. \A id \in Used' : id \notin new /\ opexRow'[id].live =>
              /\ id \in Used /\ opexRow[id].live /\ opexRow[id].table = opexRow'[id].table
              /\ opexRow[id].market = opexRow'[id].market /\ opexRow[id].key = opexRow'[id].key
      BY <2>5, <3>1
    <3>3. ASSUME NEW a \in Used', NEW b \in Used', a \in new, opexRow'[b].live,
                 opexRow'[a].table = opexRow'[b].table, opexRow'[a].market = opexRow'[b].market,
                 opexRow'[a].key = opexRow'[b].key, None \notin {opexRow'[a].market, opexRow'[a].key}
          PROVE  a = b
      <4>1. CASE b \in new
        BY <2>5, <3>1, <3>3, <4>1
      <4>2. CASE b \notin new
        <5>1. b \in Used /\ opexRow'[b] = opexRow[b] /\ opexRow'[a] = row
          BY <2>5, <3>1, <3>3, <4>2
        <5>2. b \in Twins(row)
          BY <3>3, <5>1 DEF Twins
        <5> QED BY <2>3, <5>2
      <4> QED BY <4>1, <4>2
    <3>4. RowsAreUnique
      BY DEF OpexInv
    <3> QED BY <3>2, <3>3, <3>4, UniqueKept
  <2>10. /\ DOMAIN errand' = DOMAIN OpexAsks /\ ErrandKept(r)'
         /\ DOMAIN errand'[r] = {"at", "market", "left", "copy", "seen", "skipped", "reply"}
         /\ \A s \in DOMAIN OpexAsks : s # r => errand'[s] = errand[s]
    BY <2>1, OpexEnding, ZenonT(30)
  <2>11. OpenRowsAreSeeds'
    <3>1. \A id \in Used' : opexRow'[id].open # None => id \in Used /\ opexRow'[id] = opexRow[id]
      BY <2>7
    <3>2. errand[r].at # "size"
      BY <1>1
    <3> QED BY <2>10, <3>1, <3>2, OpenKept
  <2>12. ASSUME NEW s \in DOMAIN OpexAsks, s # r, Seeding(s), s \notin crossed', NoneInTheWay(s)
         PROVE  NoneInTheWay(s)'
    <3>1. Pair(s).target # row.market
      BY <2>1, <2>12 DEF Crossing
    <3>2. Pair(s)' = Pair(s)
      BY <2>10, <2>12 DEF Pair
    <3> QED BY <2>5, <2>12, <3>1, <3>2 DEF NoneInTheWay
  <2>13. spoiled' \subseteq crossed' /\ crossed \subseteq crossed' /\ UNCHANGED marketRow
    BY <1>1, <2>1 DEF OpexInv, OnlyRacesSpoilSeeds, Crossing
  <2>14. \A id \in Used : id \in Used' /\ opexRow'[id].open = opexRow[id].open
    BY <2>5
  <2> QED BY <2>5, <2>6, <2>8, <2>9, <2>10, <2>11, <2>12, <2>13, <2>14, OpexWritten
<1> QED BY <1>5, <1>6

LEMMA PatchRowInv ==
    ASSUME OpexInv, NEW r \in DOMAIN OpexAsks, PatchRow(r)
    PROVE  OpexInv'
<1>1. errand[r].at = "patch" /\ UNCHANGED <<marketRow, spoiled>>
  BY DEF PatchRow
<1>2. PICK id : id = Errand(r).on
  OBVIOUS
<1>3. PICK row : row = WithChanges(r, opexRow[id])
  OBVIOUS
<1>4. PICK clash : clash = IF row.live THEN Twins(row) \ {id} ELSE {}
  OBVIOUS
<1>5. IF clash # {} \/ NoSuchMarket(row.market)
      THEN EndErrand(r, 500) /\ UNCHANGED <<opexRow, crossed>>
      ELSE /\ opexRow' = [opexRow EXCEPT ![id] = row]
           /\ EndErrand(r, 200)
           /\ IF row.live /\ row.market # opexRow[id].market
              THEN Crossing(r, row.market) ELSE UNCHANGED crossed
  BY <1>2, <1>3, <1>4 DEF PatchRow
<1>6. id \in Used /\ opexRow[id].open = None
  BY <1>1, <1>2 DEF OpexInv, ErrandKept
<1>7. DOMAIN opexRow[id] = OpexFields /\ opexRow \in Seq(ToSet(opexRow))
  BY <1>6 DEF OpexInv, OpexTyped
<1>8. /\ DOMAIN row = OpexFields /\ row.table = opexRow[id].table /\ row.live = opexRow[id].live
      /\ row.from = opexRow[id].from /\ row.open = None
  BY <1>3, <1>6, <1>7 DEF WithChanges, OpexFields
<1>9. CASE clash # {} \/ NoSuchMarket(row.market)
  BY <1>1, <1>5, <1>9, Refused
<1>10. CASE ~(clash # {} \/ NoSuchMarket(row.market))
  <2>1. /\ opexRow' = [opexRow EXCEPT ![id] = row]
        /\ EndErrand(r, 200)
        /\ IF row.live /\ row.market # opexRow[id].market
           THEN Crossing(r, row.market) ELSE UNCHANGED crossed
    BY <1>5, <1>10
  <2>2. /\ opexRow' \in Seq(ToSet(opexRow')) /\ Used' = Used /\ opexRow'[id] = row
        /\ \A i \in Used : i # id => opexRow'[i] = opexRow[i]
    BY <1>6, <1>7, <2>1, Changed DEF Used
  <2>3. \A i \in Used' : /\ DOMAIN opexRow'[i] = OpexFields
                         /\ opexRow'[i].table = opexRow[i].table /\ opexRow'[i].open = opexRow[i].open
                         /\ opexRow'[i].from = opexRow[i].from
                         /\ opexRow'[i].live = opexRow[i].live
    BY <1>6, <1>8, <2>2 DEF OpexInv, OpexTyped
  <2>4. SeedsAreWhole'
    BY <2>2, <2>3, WholeKept DEF OpexInv
  <2>5. RowsAreUnique'
    <3>1. \A i \in Used' : i \notin {id} /\ opexRow'[i].live =>
              /\ i \in Used /\ opexRow[i].live /\ opexRow[i].table = opexRow'[i].table
              /\ opexRow[i].market = opexRow'[i].market /\ opexRow[i].key = opexRow'[i].key
      BY <2>2
    <3>2. ASSUME NEW a \in Used', NEW b \in Used', a \in {id}, opexRow'[a].live, opexRow'[b].live,
                 opexRow'[a].table = opexRow'[b].table, opexRow'[a].market = opexRow'[b].market,
                 opexRow'[a].key = opexRow'[b].key, None \notin {opexRow'[a].market, opexRow'[a].key}
          PROVE  a = b
      <4>1. opexRow'[a] = row /\ a = id
        BY <2>2, <3>2
      <4>2. ASSUME b # id
            PROVE  FALSE
        <5>1. b \in Used /\ opexRow'[b] = opexRow[b]
          BY <2>2, <3>2, <4>2
        <5>2. b \in Twins(row) \ {id}
          BY <3>2, <4>1, <4>2, <5>1 DEF Twins
        <5>3. row.live
          BY <3>2, <4>1
        <5> QED BY <1>4, <1>10, <5>2, <5>3
      <4> QED BY <4>1, <4>2
    <3>3. RowsAreUnique
      BY DEF OpexInv
    <3> QED BY <3>1, <3>2, <3>3, UniqueKept
  <2>6. /\ DOMAIN errand' = DOMAIN OpexAsks /\ ErrandKept(r)'
        /\ DOMAIN errand'[r] = {"at", "market", "left", "copy", "seen", "skipped", "reply"}
        /\ \A s \in DOMAIN OpexAsks : s # r => errand'[s] = errand[s]
    BY <2>1, OpexEnding
  <2>7. OpenRowsAreSeeds'
    <3>1. \A i \in Used' : opexRow'[i].open # None => i # id /\ opexRow'[i] = opexRow[i] /\ i \in Used
      BY <1>8, <2>2
    <3>2. errand[r].at # "size"
      BY <1>1
    <3> QED BY <2>6, <3>1, <3>2, OpenKept
  <2>8. ASSUME NEW s \in DOMAIN OpexAsks, s # r, Seeding(s), s \notin crossed', NoneInTheWay(s)
        PROVE  NoneInTheWay(s)'
    <3>1. row.live => Pair(s).target # row.market
      <4>1. CASE row.market = opexRow[id].market
        BY <1>6, <1>8, <2>8, <4>1 DEF NoneInTheWay
      <4>2. CASE row.market # opexRow[id].market
        BY <2>1, <2>8, <4>2 DEF Crossing
      <4> QED BY <4>1, <4>2
    <3>2. Pair(s)' = Pair(s)
      BY <2>6, <2>8 DEF Pair
    <3> QED BY <2>2, <2>8, <3>1, <3>2 DEF NoneInTheWay
  <2>9. spoiled' \subseteq crossed' /\ crossed \subseteq crossed' /\ UNCHANGED marketRow
    BY <1>1, <2>1 DEF OpexInv, OnlyRacesSpoilSeeds, Crossing
  <2>10. \A i \in Used' : opexRow'[i].table \in OpexTableNames
    BY <2>2, <2>3 DEF OpexInv, OpexTyped
  <2> QED BY <2>2, <2>3, <2>4, <2>5, <2>6, <2>7, <2>8, <2>9, <2>10, OpexWritten
<1> QED BY <1>9, <1>10

\* A seed that fails takes back what its transaction wrote.
LEMMA TakenBack ==
    ASSUME OpexInv, NEW r \in DOMAIN OpexAsks, Fails(r), errand[r].at \in {"bedrooms", "size"},
           UNCHANGED <<marketRow, crossed, spoiled>>
    PROVE  OpexInv'
<1>1. opexRow' = Forgotten(r, opexRow) /\ NextPair(r, 500)
  BY DEF Fails
<1>2. opexRow \in Seq(ToSet(opexRow)) /\ \A id \in Used : DOMAIN opexRow[id] = OpexFields
  BY DEF OpexInv, OpexTyped
<1>3. PICK table : table = Forgotten(r, opexRow)
  OBVIOUS
<1>4. /\ DOMAIN table = Used /\ table = [id \in Used |-> table[id]]
      /\ \A id \in Used :
           table[id] = IF opexRow[id].open = r
                       THEN [opexRow[id] EXCEPT !.live = FALSE, !.from = None, !.open = None]
                       ELSE opexRow[id]
  BY <1>3 DEF Forgotten, Used
<1>5. table \in Seq(ToSet(table))
  BY <1>2, <1>4, SameLength DEF Used
<1>6. Used' = Used /\ opexRow' = table
  BY <1>1, <1>3, <1>4 DEF Used
<1>7. \A id \in Used : opexRow[id].open # r => opexRow'[id] = opexRow[id]
  BY <1>4, <1>6
<1>8. \A id \in Used : opexRow[id].open = r =>
         /\ DOMAIN opexRow'[id] = OpexFields /\ opexRow'[id].table = opexRow[id].table
         /\ opexRow'[id].live = FALSE /\ opexRow'[id].from = None /\ opexRow'[id].open = None
  BY <1>2, <1>4, <1>6, ZenonT(30) DEF OpexFields
<1>9. r # None
  BY OpexAssumption
<1>10. \A id \in Used' : DOMAIN opexRow'[id] = OpexFields /\ opexRow'[id].table \in OpexTableNames
  BY <1>2, <1>6, <1>7, <1>8 DEF OpexInv, OpexTyped
<1>11. SeedsAreWhole'
  BY <1>6, <1>7, <1>8, <1>9, WholeKept DEF OpexInv
<1>12. RowsAreUnique'
  <2>1. \A id \in Used' : opexRow'[id].live => id \in Used /\ opexRow'[id] = opexRow[id]
    BY <1>6, <1>7, <1>8
  <2> QED BY <2>1, FewerRows DEF OpexInv
<1>13. PICK q : /\ DOMAIN errand' = DOMAIN OpexAsks /\ errand'[r] = q
                /\ DOMAIN q = {"at", "market", "left", "copy", "seen", "skipped", "reply"}
                /\ ErrandKept(r)'
                /\ \A s \in DOMAIN OpexAsks : s # r => errand'[s] = errand[s]
  BY <1>1, NextPairMoves
<1>14. OpenRowsAreSeeds'
  <2>1. ASSUME NEW id \in Used', opexRow'[id].open # None, NEW s, s = opexRow'[id].open
        PROVE  /\ s \in DOMAIN OpexAsks /\ errand'[s].at = "size"
               /\ opexRow'[id].live /\ opexRow'[id].table = "bedrooms"
               /\ opexRow'[id].market = Pair(s)'.target /\ opexRow'[id].from = <<s, Pair(s)'.target>>
    <3>1. id \in Used /\ opexRow'[id] = opexRow[id] /\ s # r
      BY <1>6, <1>7, <1>8, <2>1
    <3>2. /\ s \in DOMAIN OpexAsks /\ errand[s].at = "size" /\ opexRow[id].live
          /\ opexRow[id].table = "bedrooms"
          /\ opexRow[id].market = Pair(s).target /\ opexRow[id].from = <<s, Pair(s).target>>
      BY <2>1, <3>1 DEF OpexInv, OpenRowsAreSeeds
    <3>3. errand'[s] = errand[s]
      BY <1>13, <3>1, <3>2
    <3>4. Pair(s)' = Pair(s)
      BY <3>3 DEF Pair
    <3> QED BY <3>1, <3>2, <3>3, <3>4
  <2> QED BY <2>1 DEF OpenRowsAreSeeds
<1>15. \A s \in DOMAIN OpexAsks : s # r /\ NoneInTheWay(s) => NoneInTheWay(s)'
  BY <1>6, <1>7, <1>8, <1>13 DEF NoneInTheWay, Pair
<1>16. spoiled' \subseteq crossed' /\ crossed \subseteq crossed' /\ UNCHANGED marketRow
  BY DEF OpexInv, OnlyRacesSpoilSeeds
<1>17. \A id \in Used : /\ id \in Used'
                        /\ opexRow[id].open # r => opexRow'[id].open = opexRow[id].open
  BY <1>6, <1>7
<1>18. opexRow' \in Seq(ToSet(opexRow'))
  BY <1>5, <1>6
<1> QED BY <1>10, <1>11, <1>12, <1>13, <1>14, <1>15, <1>16, <1>17, <1>18, OpexWritten

\* Copies that wait for nobody and clash with nothing stand beside the rows that are there.
LEMMA ClonesStand ==
    ASSUME OpexInv, NEW r \in DOMAIN OpexAsks, NEW t, CloneKept(r, t),
           NEW rows, rows = errand[r].copy[t], ~MustWait(r, rows), ~Rejected(r, rows),
           NEW table, Lengthened(table, rows)
    PROVE  /\ \A a \in DOMAIN table \ Used :
                 /\ DOMAIN table[a] = OpexFields /\ table[a].table = t /\ table[a].live
                 /\ table[a].market = Pair(r).target /\ table[a].from = <<r, Pair(r).target>>
                 /\ table[a].open = r
           /\ DOMAIN table \ Used # {}
           /\ \A a \in DOMAIN table \ Used : \A b \in DOMAIN table :
                 table[b].live /\ table[a].table = table[b].table
                   /\ table[a].market = table[b].market /\ table[a].key = table[b].key
                   /\ None \notin {table[a].market, table[a].key} => a = b
<1>1. \A id \in Used : table[id] = opexRow[id]
  BY DEF Lengthened
<1>2. PICK source \in [DOMAIN table \ Used -> DOMAIN rows] :
          /\ \A a \in DOMAIN table \ Used : table[a] = rows[source[a]]
          /\ \A a, b \in DOMAIN table \ Used : source[a] = source[b] => a = b
          /\ \A i \in DOMAIN rows : \E a \in DOMAIN table \ Used : source[a] = i
  BY DEF Lengthened
<1>3. /\ DOMAIN rows # {}
      /\ \A i \in DOMAIN rows :
            /\ DOMAIN rows[i] = OpexFields /\ rows[i].table = t /\ rows[i].live
            /\ rows[i].market = Pair(r).target /\ rows[i].from = <<r, Pair(r).target>>
            /\ rows[i].open = r
      /\ \A i, j \in DOMAIN rows : rows[i].key = rows[j].key /\ rows[i].key # None => i = j
  BY DEF CloneKept
<1>4. \A a \in DOMAIN table \ Used : source[a] \in DOMAIN rows /\ table[a] = rows[source[a]]
  BY <1>2
<1>5. \A i \in DOMAIN rows : Twins(rows[i]) = {}
  <2>1. ASSUME NEW i \in DOMAIN rows, NEW id \in Twins(rows[i])
        PROVE  FALSE
    <3>1. opexRow[id].open \in {None, r}
      BY <2>1 DEF MustWait
    <3>2. opexRow[id].open \notin {None, r}
      BY <2>1 DEF Rejected
    <3> QED BY <3>1, <3>2
  <2> QED BY <2>1
<1>6. ASSUME NEW a \in DOMAIN table \ Used, NEW b \in DOMAIN table,
             table[b].live, table[a].table = table[b].table,
             table[a].market = table[b].market, table[a].key = table[b].key,
             None \notin {table[a].market, table[a].key}
      PROVE  a = b
  <2>1. CASE b \in Used
    <3>1. opexRow[b] = table[b] /\ source[a] \in DOMAIN rows /\ table[a] = rows[source[a]]
      BY <1>1, <1>4, <2>1
    <3>2. b \in Twins(rows[source[a]])
      BY <1>6, <2>1, <3>1 DEF Twins
    <3> QED BY <1>5, <3>1, <3>2
  <2>2. CASE b \notin Used
    <3>1. source[a] = source[b]
      BY <1>3, <1>4, <1>6, <2>2
    <3> QED BY <1>2, <2>2, <3>1
  <2> QED BY <2>1, <2>2
<1>7. DOMAIN table \ Used # {}
  BY <1>2, <1>3
<1>8. \A a \in DOMAIN table \ Used :
                 /\ DOMAIN table[a] = OpexFields /\ table[a].table = t /\ table[a].live
                 /\ table[a].market = Pair(r).target /\ table[a].from = <<r, Pair(r).target>>
                 /\ table[a].open = r
  BY <1>3, <1>4
<1> QED BY <1>6, <1>7, <1>8

LEMMA SeedBedroomsInv ==
    ASSUME OpexInv, NEW r \in DOMAIN OpexAsks, SeedBedrooms(r)
    PROVE  OpexInv'
<1>1. errand[r].at = "bedrooms" /\ UNCHANGED <<marketRow, crossed, spoiled>>
  BY DEF SeedBedrooms
<1>2. PICK rows : rows = errand[r].copy["bedrooms"]
  OBVIOUS
<1>3. /\ ~MustWait(r, rows)
      /\ IF Rejected(r, rows) THEN Fails(r)
         ELSE opexRow' = Inserted(rows) /\ GoTo(r, "size")
  BY <1>2 DEF SeedBedrooms, LeftOpen
<1>4. CASE Rejected(r, rows)
  BY <1>1, <1>3, <1>4, TakenBack
<1>5. CASE ~Rejected(r, rows)
  <2>1. PICK table : table = Inserted(rows)
    OBVIOUS
  <2>2. opexRow' = table /\ Used' = DOMAIN table /\ GoTo(r, "size")
    BY <1>3, <1>5, <2>1 DEF Used
  <2>3. ErrandKept(r) /\ \A t \in OpexTableNames : CloneKept(r, t)
    BY <1>1 DEF OpexInv, ErrandKept
  <2>4. CloneKept(r, "bedrooms") /\ IsFiniteSet(DOMAIN rows)
    BY <1>2, <2>3 DEF OpexTableNames, CloneKept
  <2>5. Lengthened(table, rows)
    BY <2>1, <2>4, RowsInserted
  <2>6. /\ table \in Seq(ToSet(table)) /\ Used \subseteq DOMAIN table
        /\ \A id \in Used : table[id] = opexRow[id]
    BY <2>5 DEF Lengthened
  <2>7. /\ \A a \in DOMAIN table \ Used :
              /\ DOMAIN table[a] = OpexFields /\ table[a].table = "bedrooms" /\ table[a].live
              /\ table[a].market = Pair(r).target /\ table[a].from = <<r, Pair(r).target>>
              /\ table[a].open = r
        /\ DOMAIN table \ Used # {}
    BY <1>2, <1>3, <1>5, <2>4, <2>5, ClonesStand
  <2>8. \A a \in DOMAIN table \ Used : \A b \in DOMAIN table :
              table[b].live /\ table[a].table = table[b].table
                /\ table[a].market = table[b].market /\ table[a].key = table[b].key
                /\ None \notin {table[a].market, table[a].key} => a = b
    BY <1>2, <1>3, <1>5, <2>4, <2>5, ClonesStand
  <2>9. r # None
    BY OpexAssumption
  <2>10. \A id \in Used' : DOMAIN opexRow'[id] = OpexFields /\ opexRow'[id].table \in OpexTableNames
    BY <2>2, <2>6, <2>7 DEF OpexInv, OpexTyped, OpexTableNames
  <2>11. \A id \in Used' : opexRow'[id].open # r => id \in Used /\ opexRow'[id] = opexRow[id]
    BY <2>2, <2>6, <2>7
  <2>12. \A id \in Used : id \in Used' /\ opexRow'[id] = opexRow[id]
    BY <2>2, <2>6
  <2>13. SeedsAreWhole'
    BY <2>9, <2>11, <2>12, WholeKept DEF OpexInv
  <2>14. RowsAreUnique'
    <3>1. PICK new : new = DOMAIN table \ Used
      OBVIOUS
    <3>2. \A id \in Used' : id \notin new /\ opexRow'[id].live =>
              /\ id \in Used /\ opexRow[id].live /\ opexRow[id].table = opexRow'[id].table
              /\ opexRow[id].market = opexRow'[id].market /\ opexRow[id].key = opexRow'[id].key
      BY <2>2, <2>6, <3>1
    <3>3. \A a, b \in Used' :
              a \in new /\ opexRow'[a].live /\ opexRow'[b].live /\ opexRow'[a].table = opexRow'[b].table
                /\ opexRow'[a].market = opexRow'[b].market /\ opexRow'[a].key = opexRow'[b].key
                /\ None \notin {opexRow'[a].market, opexRow'[a].key} => a = b
      BY <2>2, <2>8, <3>1
    <3>4. RowsAreUnique
      BY DEF OpexInv
    <3> QED BY <3>2, <3>3, <3>4, UniqueKept
  <2>15. /\ DOMAIN errand' = DOMAIN OpexAsks
         /\ DOMAIN errand'[r] = {"at", "market", "left", "copy", "seen", "skipped", "reply"}
         /\ errand'[r].at = "size" /\ errand'[r].left = errand[r].left
         /\ errand'[r].copy = errand[r].copy
         /\ \A s \in DOMAIN OpexAsks : s # r => errand'[s] = errand[s]
    BY <2>2, Places
  <2>16. Pair(r)' = Pair(r)
    BY <2>15 DEF Pair
  <2>17. OpenRowsAreSeeds'
    <3>1. ASSUME NEW id \in Used', opexRow'[id].open # None, NEW s, s = opexRow'[id].open
          PROVE  /\ s \in DOMAIN OpexAsks /\ errand'[s].at = "size"
                 /\ opexRow'[id].live /\ opexRow'[id].table = "bedrooms"
                 /\ opexRow'[id].market = Pair(s)'.target /\ opexRow'[id].from = <<s, Pair(s)'.target>>
      <4>1. CASE id \in Used
        <5>1. opexRow'[id] = opexRow[id]
          BY <2>12, <4>1
        <5>2. /\ s \in DOMAIN OpexAsks /\ errand[s].at = "size" /\ opexRow[id].live
              /\ opexRow[id].table = "bedrooms"
              /\ opexRow[id].market = Pair(s).target /\ opexRow[id].from = <<s, Pair(s).target>>
          BY <3>1, <4>1, <5>1 DEF OpexInv, OpenRowsAreSeeds
        <5>3. s # r
          BY <1>1, <5>2
        <5>4. errand'[s] = errand[s]
          BY <2>15, <5>2, <5>3
        <5>5. Pair(s)' = Pair(s)
          BY <5>4 DEF Pair
        <5> QED BY <5>1, <5>2, <5>4, <5>5
      <4>2. CASE id \notin Used
        <5>1. /\ opexRow'[id].live /\ opexRow'[id].table = "bedrooms" /\ s = r
              /\ opexRow'[id].market = Pair(r).target /\ opexRow'[id].from = <<r, Pair(r).target>>
          BY <2>2, <2>7, <3>1, <4>2
        <5> QED BY <2>15, <2>16, <5>1
      <4> QED BY <4>1, <4>2
    <3> QED BY <3>1 DEF OpenRowsAreSeeds
  <2>18. \A s \in DOMAIN OpexAsks : Pair(s)' = Pair(s) /\ NoneInTheWay(s) => NoneInTheWay(s)'
    BY <2>9, <2>11 DEF NoneInTheWay
  <2>19. ErrandKept(r)'
    <3>1. \E id \in Used' : opexRow'[id].open = r
      BY <2>2, <2>7
    <3>2. \A t \in OpexTableNames : CloneKept(r, t)'
      BY <2>3, <2>15, <2>16 DEF CloneKept
    <3>3. Pair(r)'.source # None
      BY <1>1, <2>3, <2>16 DEF ErrandKept, Seeding
    <3>4. r \notin crossed' => Open(Pair(r).target)'
      BY <1>1, <2>3, <2>16 DEF ErrandKept, Seeding, Open, LiveMarket
    <3>5. r \notin crossed' => NoneInTheWay(r)'
      BY <1>1, <2>3, <2>16, <2>18 DEF ErrandKept
    <3> QED BY <2>15, <3>1, <3>2, <3>3, <3>4, <3>5 DEF ErrandKept
  <2>20. \A s \in DOMAIN OpexAsks : s # r /\ NoneInTheWay(s) => NoneInTheWay(s)'
    <3>1. \A s \in DOMAIN OpexAsks : s # r => Pair(s)' = Pair(s)
      BY <2>15 DEF Pair
    <3> QED BY <2>18, <3>1
  <2>21. spoiled' \subseteq crossed' /\ crossed \subseteq crossed' /\ UNCHANGED marketRow
    BY <1>1 DEF OpexInv, OnlyRacesSpoilSeeds
  <2>22. opexRow' \in Seq(ToSet(opexRow'))
    BY <2>2, <2>6
  <2> QED BY <2>10, <2>12, <2>13, <2>14, <2>15, <2>17, <2>19, <2>20, <2>21, <2>22, OpexWritten
<1> QED BY <1>4, <1>5

\* What a commit does to a table: the rows of the transaction are everybody's.
LEMMA RowsSettled ==
    ASSUME NEW table, table \in Seq(ToSet(table)), NEW r, NEW after, after = Settled(r, table),
           \A id \in DOMAIN table : DOMAIN table[id] = OpexFields
    PROVE  /\ after \in Seq(ToSet(after)) /\ DOMAIN after = DOMAIN table
           /\ \A id \in DOMAIN table :
                 /\ DOMAIN after[id] = OpexFields /\ after[id].table = table[id].table
                 /\ after[id].market = table[id].market /\ after[id].key = table[id].key
                 /\ after[id].live = table[id].live /\ after[id].from = table[id].from
                 /\ after[id].open = IF table[id].open = r THEN None ELSE table[id].open
           /\ \A id \in DOMAIN table : table[id].open # r => after[id] = table[id]
<1>1. /\ DOMAIN after = DOMAIN table /\ after = [id \in DOMAIN table |-> after[id]]
      /\ \A id \in DOMAIN table :
            after[id] = IF table[id].open = r THEN [table[id] EXCEPT !.open = None] ELSE table[id]
  BY DEF Settled
<1>2. after \in Seq(ToSet(after))
  BY <1>1, SameLength
<1>3. ASSUME NEW id \in DOMAIN table
      PROVE  /\ DOMAIN after[id] = OpexFields /\ after[id].table = table[id].table
             /\ after[id].market = table[id].market /\ after[id].key = table[id].key
             /\ after[id].live = table[id].live /\ after[id].from = table[id].from
             /\ after[id].open = IF table[id].open = r THEN None ELSE table[id].open
  <2>1. PICK row : row = table[id] /\ DOMAIN row = OpexFields
    OBVIOUS
  <2>2. CASE row.open = r
    <3>1. after[id] = [row EXCEPT !.open = None]
      BY <1>1, <2>1, <2>2
    <3> QED BY ONLY <2>1, <2>2, <3>1 DEF OpexFields
  <2>3. CASE row.open # r
    BY <1>1, <2>1, <2>3
  <2> QED BY <2>2, <2>3
<1> QED BY <1>1, <1>2, <1>3

LEMMA SeedSizesInv ==
    ASSUME OpexInv, NEW r \in DOMAIN OpexAsks, SeedSizes(r)
    PROVE  OpexInv'
<1>1. errand[r].at = "size" /\ UNCHANGED marketRow
  BY DEF SeedSizes
<1>2. PICK rows : rows = errand[r].copy["size"]
  OBVIOUS
<1>3. PICK m : m = Pair(r).target
  OBVIOUS
<1>4. PICK others : others = {id \in Used : /\ opexRow[id].live /\ opexRow[id].open = None
                                           /\ opexRow[id].market = m}
  OBVIOUS
<1>5. /\ ~MustWait(r, rows)
      /\ IF Rejected(r, rows) THEN Fails(r) /\ UNCHANGED <<crossed, spoiled>>
         ELSE /\ opexRow' = Settled(r, Inserted(rows)) /\ NextPair(r, 201) /\ Crossing(r, m)
              /\ spoiled' = IF others # {} \/ ~Open(m) THEN spoiled \cup {r} ELSE spoiled
  BY <1>2, <1>3, <1>4 DEF SeedSizes
<1>6. CASE Rejected(r, rows)
  BY <1>1, <1>5, <1>6, TakenBack
<1>7. CASE ~Rejected(r, rows)
  <2>1. PICK table : table = Inserted(rows)
    OBVIOUS
  <2>2. /\ opexRow' = Settled(r, table) /\ NextPair(r, 201) /\ Crossing(r, m)
        /\ spoiled' = IF others # {} \/ ~Open(m) THEN spoiled \cup {r} ELSE spoiled
    BY <1>5, <1>7, <2>1
  <2>3. ErrandKept(r)
    BY DEF OpexInv
  <2>4. CloneKept(r, "size") /\ IsFiniteSet(DOMAIN rows)
    BY <1>1, <1>2, <2>3 DEF ErrandKept, OpexTableNames, CloneKept
  <2>5. Lengthened(table, rows)
    BY <2>1, <2>4, RowsInserted
  <2>6. /\ table \in Seq(ToSet(table)) /\ Used \subseteq DOMAIN table
        /\ \A id \in Used : table[id] = opexRow[id]
    BY <2>5 DEF Lengthened
  <2>7. /\ \A a \in DOMAIN table \ Used :
              /\ DOMAIN table[a] = OpexFields /\ table[a].table = "size" /\ table[a].live
              /\ table[a].market = m /\ table[a].from = <<r, m>> /\ table[a].open = r
        /\ DOMAIN table \ Used # {}
    BY <1>2, <1>3, <1>5, <1>7, <2>4, <2>5, ClonesStand
  <2>8. \A a \in DOMAIN table \ Used : \A b \in DOMAIN table :
              table[b].live /\ table[a].table = table[b].table
                /\ table[a].market = table[b].market /\ table[a].key = table[b].key
                /\ None \notin {table[a].market, table[a].key} => a = b
    BY <1>2, <1>5, <1>7, <2>4, <2>5, ClonesStand
  <2>9. r # None
    BY OpexAssumption
  <2>10. \A id \in DOMAIN table : DOMAIN table[id] = OpexFields /\ table[id].table \in OpexTableNames
    BY <2>6, <2>7 DEF OpexInv, OpexTyped, OpexTableNames
  <2>11. /\ opexRow' \in Seq(ToSet(opexRow')) /\ Used' = DOMAIN table
         /\ \A id \in Used' :
              /\ DOMAIN opexRow'[id] = OpexFields /\ opexRow'[id].table = table[id].table
              /\ opexRow'[id].market = table[id].market /\ opexRow'[id].key = table[id].key
              /\ opexRow'[id].live = table[id].live /\ opexRow'[id].from = table[id].from
              /\ opexRow'[id].open = IF table[id].open = r THEN None ELSE table[id].open
         /\ \A id \in Used' : table[id].open # r => opexRow'[id] = table[id]
    <3>1. PICK after : after = Settled(r, table)
      OBVIOUS
    <3>2. /\ after \in Seq(ToSet(after)) /\ DOMAIN after = DOMAIN table
          /\ \A id \in DOMAIN table :
                 /\ DOMAIN after[id] = OpexFields /\ after[id].table = table[id].table
                 /\ after[id].market = table[id].market /\ after[id].key = table[id].key
                 /\ after[id].live = table[id].live /\ after[id].from = table[id].from
                 /\ after[id].open = IF table[id].open = r THEN None ELSE table[id].open
          /\ \A id \in DOMAIN table : table[id].open # r => after[id] = table[id]
      BY <2>6, <2>10, <3>1, RowsSettled
    <3>3. opexRow' = after /\ Used' = DOMAIN after
      BY <2>2, <3>1 DEF Used
    <3> QED BY <3>2, <3>3
  <2>12. \A id \in Used' : opexRow'[id].table \in OpexTableNames
    BY <2>10, <2>11
  <2>13. \A id \in Used : /\ id \in Used' /\ opexRow'[id].live = opexRow[id].live
                          /\ opexRow'[id].table = opexRow[id].table
                          /\ opexRow'[id].market = opexRow[id].market
                          /\ opexRow'[id].key = opexRow[id].key
                          /\ opexRow'[id].from = opexRow[id].from
                          /\ opexRow[id].open # r => opexRow'[id] = opexRow[id]
                          /\ opexRow[id].open = r => opexRow'[id].open = None
    BY <2>6, <2>11
  <2>14. \A id \in Used' \ Used :
            /\ opexRow'[id].table = "size" /\ opexRow'[id].live /\ opexRow'[id].market = m
            /\ opexRow'[id].from = <<r, m>> /\ opexRow'[id].open = None
    BY <2>7, <2>11
  <2>15. \A id \in Used : opexRow[id].open = r =>
            /\ opexRow[id].table = "bedrooms" /\ opexRow[id].market = m
            /\ opexRow[id].from = <<r, m>>
    BY <1>3, <2>9 DEF OpexInv, OpenRowsAreSeeds
  <2>16. SeedsAreWhole'
    <3>1. PICK bed \in Used : opexRow[bed].open = r
      BY <1>1, <2>3 DEF ErrandKept
    <3>2. /\ bed \in Used' /\ opexRow'[bed].table = "bedrooms" /\ opexRow'[bed].from = <<r, m>>
          /\ opexRow'[bed].open = None
      BY <2>13, <2>15, <3>1
    <3>3. PICK size \in Used' \ Used : TRUE
      BY <2>7, <2>11
    <3>4. /\ size \in Used' /\ opexRow'[size].table = "size" /\ opexRow'[size].from = <<r, m>>
          /\ opexRow'[size].open = None
      BY <2>14, <3>3
    <3>5. ASSUME NEW id \in Used', opexRow'[id].from # None, opexRow'[id].open = None
          PROVE  \E other \in Used' : /\ opexRow'[other].table # opexRow'[id].table
                                      /\ opexRow'[other].from = opexRow'[id].from
                                      /\ opexRow'[other].open = None
      <4>1. CASE id \notin Used
        BY <2>14, <3>2, <3>5, <4>1
      <4>2. CASE id \in Used /\ opexRow[id].open = r
        <5>1. opexRow'[id].table = "bedrooms" /\ opexRow'[id].from = <<r, m>>
          BY <2>13, <2>15, <4>2
        <5> QED BY <3>4, <5>1
      <4>3. CASE id \in Used /\ opexRow[id].open # r
        <5>1. opexRow'[id] = opexRow[id]
          BY <2>13, <4>3
        <5>2. PICK other \in Used : /\ opexRow[other].table # opexRow[id].table
                                   /\ opexRow[other].from = opexRow[id].from
                                   /\ opexRow[other].open = None
          BY <3>5, <4>3, <5>1 DEF OpexInv, SeedsAreWhole
        <5>3. other \in Used' /\ opexRow'[other] = opexRow[other]
          BY <2>9, <2>13, <5>2
        <5> QED BY <5>1, <5>2, <5>3
      <4> QED BY <4>1, <4>2, <4>3
    <3> QED BY <3>5 DEF SeedsAreWhole
  <2>17. RowsAreUnique'
    <3>1. PICK new : new = DOMAIN table \ Used
      OBVIOUS
    <3>2. \A id \in Used' : id \notin new /\ opexRow'[id].live =>
              /\ id \in Used /\ opexRow[id].live /\ opexRow[id].table = opexRow'[id].table
              /\ opexRow[id].market = opexRow'[id].market /\ opexRow[id].key = opexRow'[id].key
      BY <2>11, <2>13, <3>1
    <3>3. \A a, b \in Used' :
              a \in new /\ opexRow'[a].live /\ opexRow'[b].live /\ opexRow'[a].table = opexRow'[b].table
                /\ opexRow'[a].market = opexRow'[b].market /\ opexRow'[a].key = opexRow'[b].key
                /\ None \notin {opexRow'[a].market, opexRow'[a].key} => a = b
      BY <2>8, <2>11, <3>1
    <3>4. RowsAreUnique
      BY DEF OpexInv
    <3> QED BY <3>2, <3>3, <3>4, UniqueKept
  <2>18. PICK q : /\ DOMAIN errand' = DOMAIN OpexAsks /\ errand'[r] = q
                  /\ DOMAIN q = {"at", "market", "left", "copy", "seen", "skipped", "reply"}
                  /\ ErrandKept(r)'
                  /\ \A s \in DOMAIN OpexAsks : s # r => errand'[s] = errand[s]
    BY <2>2, NextPairMoves
  <2>19. OpenRowsAreSeeds'
    <3>1. ASSUME NEW id \in Used', opexRow'[id].open # None, NEW s, s = opexRow'[id].open
          PROVE  /\ s \in DOMAIN OpexAsks /\ errand'[s].at = "size"
                 /\ opexRow'[id].live /\ opexRow'[id].table = "bedrooms"
                 /\ opexRow'[id].market = Pair(s)'.target /\ opexRow'[id].from = <<s, Pair(s)'.target>>
      <4>1. id \in Used /\ opexRow'[id] = opexRow[id] /\ s # r
        BY <2>13, <2>14, <3>1
      <4>2. /\ s \in DOMAIN OpexAsks /\ errand[s].at = "size" /\ opexRow[id].live
            /\ opexRow[id].table = "bedrooms"
            /\ opexRow[id].market = Pair(s).target /\ opexRow[id].from = <<s, Pair(s).target>>
        BY <3>1, <4>1 DEF OpexInv, OpenRowsAreSeeds
      <4>3. errand'[s] = errand[s]
        BY <2>18, <4>1, <4>2
      <4>4. Pair(s)' = Pair(s)
        BY <4>3 DEF Pair
      <4> QED BY <4>1, <4>2, <4>3, <4>4
    <3> QED BY <3>1 DEF OpenRowsAreSeeds
  <2>20. ASSUME NEW s \in DOMAIN OpexAsks, s # r, Seeding(s), s \notin crossed', NoneInTheWay(s)
         PROVE  NoneInTheWay(s)'
    <3>1. Pair(s).target # m
      BY <2>2, <2>20 DEF Crossing
    <3>2. Pair(s)' = Pair(s)
      BY <2>18, <2>20 DEF Pair
    <3>3. ASSUME NEW id \in Used', opexRow'[id].live, opexRow'[id].open = None
          PROVE  opexRow'[id].market # Pair(s).target
      <4>1. CASE id \notin Used
        BY <2>14, <3>1, <4>1
      <4>2. CASE id \in Used /\ opexRow[id].open = r
        BY <2>13, <2>15, <3>1, <4>2
      <4>3. CASE id \in Used /\ opexRow[id].open # r
        BY <2>13, <2>20, <3>3, <4>3 DEF NoneInTheWay
      <4> QED BY <4>1, <4>2, <4>3
    <3> QED BY <3>2, <3>3 DEF NoneInTheWay
  <2>21. crossed \subseteq crossed'
    BY <2>2 DEF Crossing
  <2>22. spoiled' \subseteq crossed'
    <3>1. r \notin crossed => Open(m) /\ others = {}
      BY <1>1, <1>3, <1>4, <2>3 DEF ErrandKept, Seeding, NoneInTheWay
    <3>2. spoiled \subseteq crossed
      BY DEF OpexInv, OnlyRacesSpoilSeeds
    <3> QED BY <2>2, <2>21, <3>1, <3>2
  <2>23. \A id \in Used : /\ id \in Used'
                          /\ opexRow[id].open # r => opexRow'[id].open = opexRow[id].open
    BY <2>13
  <2>24. \A id \in Used' : DOMAIN opexRow'[id] = OpexFields /\ opexRow'[id].table \in OpexTableNames
    BY <2>11, <2>12
  <2>25. opexRow' \in Seq(ToSet(opexRow'))
    BY <2>11
  <2> QED BY <1>1, <2>16, <2>17, <2>18, <2>19, <2>20, <2>21, <2>22, <2>23, <2>24, <2>25, OpexWritten
<1> QED BY <1>6, <1>7

LEMMA OpexStart == OpexInit => OpexInv
<1> SUFFICES ASSUME OpexInit PROVE OpexInv
  OBVIOUS
<1>1. opexRow = OpexRowsBefore /\ marketRow = MarketsBefore /\ crossed = {} /\ spoiled = {}
  BY DEF OpexInit
<1>2. /\ DOMAIN errand = DOMAIN OpexAsks
      /\ \A r \in DOMAIN OpexAsks :
            /\ DOMAIN errand[r] = {"at", "market", "left", "copy", "seen", "skipped", "reply"}
            /\ errand[r].at \in {"absent", "start"}
  <2>1. PICK crowd \in OpexCrowds : errand =
         [r \in DOMAIN OpexAsks |->
            [at |-> IF r \in crowd THEN "start" ELSE "absent", market |-> None,
             copy |-> None, seen |-> None,
             left |-> IF Errand(r).op \in {"seed", "batch"} THEN Errand(r).pairs ELSE <<>>,
             skipped |-> FALSE, reply |-> None]]
    BY DEF OpexInit
  <2>2. ASSUME NEW r \in DOMAIN OpexAsks
        PROVE  /\ DOMAIN errand[r] = {"at", "market", "left", "copy", "seen", "skipped", "reply"}
               /\ errand[r].at \in {"absent", "start"}
    <3>1. PICK left : left = IF Errand(r).op \in {"seed", "batch"} THEN Errand(r).pairs ELSE <<>>
      OBVIOUS
    <3>2. PICK at \in {"absent", "start"} : at = IF r \in crowd THEN "start" ELSE "absent"
      OBVIOUS
    <3>3. errand[r] = [at |-> at, market |-> None, copy |-> None, seen |-> None, left |-> left,
                       skipped |-> FALSE, reply |-> None]
      BY <2>1, <3>1, <3>2, Zenon
    <3> QED BY ONLY <3>2, <3>3
  <2>3. DOMAIN errand = DOMAIN OpexAsks
    BY <2>1, Zenon
  <2> QED BY <2>2, <2>3
<1>3. OpexTyped
  <2>1. opexRow \in Seq(ToSet(opexRow)) /\ marketRow \in Seq(ToSet(marketRow))
    BY <1>1, OpexAssumption, Zenon
  <2>2. /\ \A id \in Used : DOMAIN opexRow[id] = OpexFields /\ opexRow[id].table \in OpexTableNames
        /\ \A m \in DOMAIN marketRow : DOMAIN marketRow[m] = MarketFields
    BY <1>1, OpexAssumption, Zenon DEF Used
  <2> QED BY <1>2, <2>1, <2>2 DEF OpexTyped
<1>4. RowsAreUnique
  BY <1>1, OpexAssumption DEF RowsAreUnique, Twins, Used
<1>5. SlugsAreUnique
  BY <1>1, OpexAssumption DEF SlugsAreUnique, LiveMarket
<1>6. OpenRowsAreSeeds /\ SeedsAreWhole
  BY <1>1, OpexAssumption DEF OpenRowsAreSeeds, SeedsAreWhole, Used
<1>7. OnlyRacesSpoilSeeds
  BY <1>1 DEF OnlyRacesSpoilSeeds
<1>8. \A r \in DOMAIN OpexAsks : ErrandKept(r)
  BY <1>2 DEF ErrandKept, Seeding
<1> QED BY <1>3, <1>4, <1>5, <1>6, <1>7, <1>8 DEF OpexInv

LEMMA OpexSteps == OpexInv /\ [OpexNext]_opexVars => OpexInv'
<1> SUFFICES ASSUME OpexInv, [OpexNext]_opexVars PROVE OpexInv'
  OBVIOUS
<1>1. ASSUME NEW r \in DOMAIN OpexAsks,
             \/ PlanSeeds(r) \/ CheckSeed(r) \/ LookForRows(r) \/ ReadLookalike(r)
             \/ SeedBedrooms(r) \/ SeedSizes(r)
             \/ ResolveSlug(r) \/ CreateRow(r) \/ LoadRow(r) \/ PatchRow(r) \/ DeleteRow(r) \/ FindRow(r)
             \/ AddMarket(r) \/ WriteMarket(r) \/ ReadMarkets(r) \/ ReadCsv(r) \/ WriteCsv(r)
      PROVE  OpexInv'
  BY ONLY OpexInv, r \in DOMAIN OpexAsks, <1>1, PlanSeedsInv, CheckSeedInv, LookForRowsInv,
     ReadLookalikeInv, SeedBedroomsInv, SeedSizesInv, ResolveSlugInv, CreateRowInv, LoadRowInv,
     PatchRowInv, DeleteRowInv, FindRowInv, AddMarketInv, WriteMarketInv, ReadMarketsInv, ReadCsvInv,
     WriteCsvInv, Zenon
<1>2. CASE UNCHANGED opexVars
  <2>1. UNCHANGED <<opexRow, marketRow, errand, crossed, spoiled>>
    BY <1>2 DEF opexVars
  <2>2. OpexTyped' /\ RowsAreUnique' /\ SlugsAreUnique' /\ OpenRowsAreSeeds'
        /\ SeedsAreWhole' /\ OnlyRacesSpoilSeeds'
    BY <2>1 DEF OpexInv, OpexTyped, RowsAreUnique, SlugsAreUnique, OpenRowsAreSeeds, SeedsAreWhole,
       OnlyRacesSpoilSeeds, Used, Twins, LiveMarket, Pair
  <2>3. ASSUME NEW s \in DOMAIN OpexAsks
        PROVE  ErrandKept(s)'
    <3>1. NoneInTheWay(s) => NoneInTheWay(s)'
      BY <2>1 DEF NoneInTheWay, Pair, Used
    <3>2. Open(Pair(s).target) => Open(Pair(s).target)'
      BY <2>1 DEF Open, Pair, LiveMarket
    <3> QED BY <2>1, <3>1, <3>2, Undisturbed DEF Used
  <2> QED BY <2>2, <2>3 DEF OpexInv
<1> QED BY <1>1, <1>2 DEF OpexNext

\* The rows of the opex tables, the requests and scripts that touch them, and what each of
\* them relies on between two statements, are as the inductive invariant says.
\* (OpexSeedService, OpexByBedroomsService, update_opex_from_csv)
THEOREM OpexInvariant == OpexSpec => []OpexInv
<1> QED BY OpexStart, OpexSteps, PTL DEF OpexSpec

LEMMA LookupsFollow == OpexInv => LookupsAreUnambiguous
<1> SUFFICES ASSUME OpexInv PROVE LookupsAreUnambiguous
  OBVIOUS
<1>1. \A m \in DOMAIN marketRow : LiveMarket(m) => MarketBySlug(marketRow[m].slug) = {m}
  BY DEF OpexInv, SlugsAreUnique, MarketBySlug
<1>2. \A a, b \in Used : opexRow[a].live /\ b \in Twins(opexRow[a]) => a = b
  BY DEF OpexInv, RowsAreUnique
<1> QED BY <1>1, <1>2 DEF LookupsAreUnambiguous, Twins

\* Only the write of a CSV takes a request from "write" to its end.
LEMMA CsvStep ==
    ASSUME OpexInv, [OpexNext]_opexVars, NEW s \in DOMAIN OpexAsks,
           errand[s].at = "write", errand'[s].at = "done"
    PROVE  KeepsLaterEdits(s)
<1>1. ASSUME UNCHANGED opexVars
      PROVE  FALSE
  BY <1>1 DEF opexVars
<1>2. OpexNext
  BY <1>1
<1>3. PICK r \in DOMAIN OpexAsks :
         \/ PlanSeeds(r) \/ CheckSeed(r) \/ LookForRows(r) \/ ReadLookalike(r)
         \/ SeedBedrooms(r) \/ SeedSizes(r)
         \/ ResolveSlug(r) \/ CreateRow(r) \/ LoadRow(r) \/ PatchRow(r) \/ DeleteRow(r) \/ FindRow(r)
         \/ AddMarket(r) \/ WriteMarket(r) \/ ReadMarkets(r) \/ ReadCsv(r) \/ WriteCsv(r)
  BY <1>2 DEF OpexNext
<1>4. DOMAIN errand = DOMAIN OpexAsks
  BY DEF OpexInv, OpexTyped
<1>5. ASSUME NEW q, errand' = [errand EXCEPT ![r] = q]
      PROVE  r = s
  BY <1>4, <1>5
<1>6. \A code : EndErrand(r, code) => r = s
  BY <1>4 DEF EndErrand
<1>7. \A where : GoTo(r, where) => r = s
  BY <1>4 DEF GoTo
<1>8. \A code : NextPair(r, code) => r = s
  BY <1>5 DEF NextPair
<1>9. r = s
  <2>1. CASE PlanSeeds(r)
    BY <1>4, <1>6, <2>1 DEF PlanSeeds
  <2>2. CASE CheckSeed(r) \/ LookForRows(r)
    BY <1>7, <1>8, <2>2 DEF CheckSeed, LookForRows
  <2>3. CASE ReadLookalike(r)
    BY <1>4, <1>8, <2>3 DEF ReadLookalike
  <2>4. CASE SeedBedrooms(r) \/ SeedSizes(r)
    BY <1>7, <1>8, <2>4 DEF SeedBedrooms, SeedSizes, Fails
  <2>5. CASE ResolveSlug(r)
    BY <1>4, <1>6, <2>5 DEF ResolveSlug
  <2>6. CASE CreateRow(r) \/ PatchRow(r) \/ DeleteRow(r) \/ AddMarket(r) \/ WriteMarket(r)
    BY <1>6, <2>6, ZenonT(30) DEF CreateRow, PatchRow, DeleteRow, AddMarket, WriteMarket
  <2>7. CASE LoadRow(r) \/ FindRow(r)
    BY <1>4, <1>6, <2>7 DEF LoadRow, FindRow
  <2>8. CASE ReadMarkets(r)
    BY <1>4, <1>6, <2>8 DEF ReadMarkets
  <2>9. CASE ReadCsv(r)
    BY <1>4, <2>9, Zenon DEF ReadCsv
  <2>10. CASE WriteCsv(r)
    BY <1>6, <2>10 DEF WriteCsv
  <2> QED BY <1>3, <2>1, <2>2, <2>3, <2>4, <2>5, <2>6, <2>7, <2>8, <2>9, <2>10
<1>10. WriteCsv(s)
  BY <1>3, <1>9, Zenon DEF PlanSeeds, CheckSeed, LookForRows, ReadLookalike, SeedBedrooms, SeedSizes,
     ResolveSlug, CreateRow, LoadRow, PatchRow, DeleteRow, FindRow, AddMarket, WriteMarket,
     ReadMarkets, ReadCsv, Starts
<1> QED BY <1>10, WriteCsvInv

\* Seeds are whole or absent and spoilt by races only, lookups find one row and one market,
\* and the CSV update keeps the edits made meanwhile.
\* (OpexSeedService.seed_from_lookalike, the repositories' scalar_one_or_none, diff_row)
THEOREM OpexIsSafe == OpexSpec => OpexSafety
<1>1. OpexInv => SeedsAreWhole /\ OnlyRacesSpoilSeeds /\ LookupsAreUnambiguous
  BY LookupsFollow DEF OpexInv
<1>2. OpexInv /\ [OpexNext]_opexVars =>
        [\A r \in DOMAIN OpexAsks :
           errand[r].at = "write" /\ errand'[r].at = "done" => KeepsLaterEdits(r)]_opexVars
  BY CsvStep
<1>3. OpexSpec => CsvKeepsLaterEdits
  BY <1>2, OpexInvariant, PTL DEF OpexSpec, CsvKeepsLaterEdits
<1> QED BY <1>1, <1>3, OpexInvariant, PTL DEF OpexSafety

\* Opex tables, markets and realtors together, for any markets, rows and requests.
\* (everything OpexSafety and RecordSafety name)
THEOREM MarketsAreSafe == OpexSpec /\ RecordSpec => MarketSafety
<1> QED BY OpexIsSafe, RecordsAreSafe, PTL DEF MarketSafety

\* The key a name is matched to is that of a row of this name.
LEMMA FirstMatches ==
    ASSUME NEW rows, rows \in Seq(ToSet(rows)), NEW name, Matching(rows, name) # {}
    PROVE  \E i \in Matching(rows, name) : FirstId(rows, name) = rows[i].id
<1> DEFINE T == Matching(rows, name)
           First(i) == \A j \in T : i <= j
           Less == OpToRel(<, Nat)
<1>1. T \subseteq Nat /\ T # {}
  <2>1. DOMAIN rows = 1 .. Len(rows) /\ Len(rows) \in Nat
    OBVIOUS
  <2> QED BY <2>1 DEF Matching
<1>2. PICK x \in T : \A y \in T : ~(<<y, x>> \in Less)
  BY <1>1, NatLessThanWellFounded, WFMin
<1>3. First(x)
  <2> SUFFICES ASSUME NEW y \in T PROVE x <= y
    OBVIOUS
  <2>1. x \in Nat /\ y \in Nat /\ ~(<<y, x>> \in Less)
    BY <1>1, <1>2
  <2> HIDE DEF T
  <2>2. y < x => <<y, x>> \in Less
    BY <2>1 DEF OpToRel
  <2> HIDE DEF Less
  <2> QED BY <2>1, <2>2
<1>4. (CHOOSE i \in T : First(i)) \in T
  BY <1>3
<1> QED BY <1>1, <1>4 DEF FirstId

\* Whom a PUT inserts gets keys nobody ever had, each its own; the others stay who they are.
LEMMA Upserted ==
    ASSUME lastId \in Nat, NEW list, list \in Seq(ToSet(list)),
           \A i \in DOMAIN list : DOMAIN list[i] = {"id", "name", "amount"},
           Upsert(list)
    PROVE  /\ lastId' \in Nat /\ lastId <= lastId'
           /\ DOMAIN expenses' = DOMAIN list /\ expenses' \in Seq(ToSet(expenses'))
           /\ \A i \in DOMAIN list :
                 /\ DOMAIN expenses'[i] = {"id", "name", "amount"}
                 /\ expenses'[i].name = list[i].name /\ expenses'[i].amount = list[i].amount
                 /\ list[i].id \in Ids(expenses) => expenses'[i] = list[i]
                 /\ list[i].id \notin Ids(expenses) =>
                       expenses'[i].id \in lastId + 1 .. lastId'
           /\ \A i, j \in DOMAIN list :
                 /\ list[i].id \notin Ids(expenses) /\ list[j].id \notin Ids(expenses)
                 /\ expenses'[i].id = expenses'[j].id
                 => i = j
<1> DEFINE n == Len(list)
           U == Unowned(list)
           P(i) == U \cap 1 .. i
<1>1. n \in Nat /\ DOMAIN list = 1 .. n
  OBVIOUS
<1>2. U \subseteq 1 .. n /\ P(n) = U
  BY <1>1 DEF Unowned
<1>3. IsFiniteSet(1 .. n)
  BY <1>1, FS_Interval
<1>4. ASSUME NEW S, S \subseteq 1 .. n
      PROVE  IsFiniteSet(S)
  BY <1>3, <1>4, FS_Subset
<1>5. \A i \in 0 .. n : IsFiniteSet(P(i)) /\ Cardinality(P(i)) \in Nat
  BY <1>2, <1>4, FS_CardinalityType
<1>6. ASSUME NEW S, NEW T, S \subseteq T, T \subseteq 1 .. n
      PROVE  /\ Cardinality(S) \in Nat /\ Cardinality(T) \in Nat
             /\ Cardinality(S) <= Cardinality(T)
             /\ S # T => Cardinality(S) < Cardinality(T)
  <2>1. IsFiniteSet(T) /\ IsFiniteSet(S)
    BY <1>4, <1>6
  <2>2. Cardinality(S) \in Nat /\ Cardinality(T) \in Nat
    BY <2>1, FS_CardinalityType
  <2>3. Cardinality(S) <= Cardinality(T) /\ (Cardinality(S) = Cardinality(T) => S = T)
    BY <2>1, <1>6, FS_Subset
  <2> QED BY <2>2, <2>3
<1>7. /\ expenses' = [i \in DOMAIN list |->
                        IF i \in U THEN [list[i] EXCEPT !.id = lastId + Cardinality(P(i))] ELSE list[i]]
      /\ lastId' = lastId + Cardinality(U)
  BY <1>2 DEF Upsert, FreshId
<1>8. Cardinality(U) \in Nat /\ lastId' \in Nat /\ lastId <= lastId'
  BY <1>2, <1>6, <1>7
<1>9. \A i \in DOMAIN list :
         /\ i \in U <=> list[i].id \notin Ids(expenses)
         /\ i \in U => Cardinality(P(i)) \in 1 .. Cardinality(U)
  <2> SUFFICES ASSUME NEW i \in DOMAIN list
               PROVE  /\ i \in U <=> list[i].id \notin Ids(expenses)
                      /\ i \in U => Cardinality(P(i)) \in 1 .. Cardinality(U)
    OBVIOUS
  <2>1. i \in U <=> list[i].id \notin Ids(expenses)
    BY DEF Unowned
  <2>2. ASSUME i \in U
        PROVE  Cardinality(P(i)) \in 1 .. Cardinality(U)
    <3>1. i \in P(i) /\ P(i) \subseteq U
      BY <1>1, <2>2
    <3>2. Cardinality(P(i)) \in Nat /\ Cardinality(P(i)) <= Cardinality(U)
      BY <3>1, <1>2, <1>6
    <3>3. {} # P(i) /\ {} \subseteq P(i) /\ P(i) \subseteq 1 .. n
      BY <3>1, <1>2
    <3> HIDE DEF P
    <3>4. Cardinality({}) < Cardinality(P(i)) /\ Cardinality({}) \in Nat
      BY <3>3, <1>6
    <3> QED BY <3>2, <3>4, <1>8
  <2> QED BY <2>1, <2>2
<1>10. \A i, j \in DOMAIN list : i \in U /\ j \in U /\ Cardinality(P(i)) = Cardinality(P(j)) => i = j
  <2>1. ASSUME NEW i \in DOMAIN list, NEW j \in DOMAIN list, i \in U, j \in U, i < j
        PROVE  Cardinality(P(i)) < Cardinality(P(j))
    <3>1. P(i) \subseteq P(j) /\ P(j) \subseteq 1 .. n
      BY <2>1, <1>1, <1>2
    <3>2. j \in P(j) /\ j \notin P(i)
      BY <2>1, <1>1
    <3> HIDE DEF P
    <3> QED BY <3>1, <3>2, <1>6
  <2>2. \A i \in DOMAIN list : i \in Nat /\ Cardinality(P(i)) \in Nat
    <3>1. \A i \in DOMAIN list : i \in Nat /\ i \in 0 .. n
      BY <1>1
    <3> HIDE DEF P
    <3> QED BY <3>1, <1>5
  <2> HIDE DEF P, U
  <2> SUFFICES ASSUME NEW i \in DOMAIN list, NEW j \in DOMAIN list, i \in U, j \in U,
                      Cardinality(P(i)) = Cardinality(P(j)), i # j
               PROVE  FALSE
    OBVIOUS
  <2>3. i < j \/ j < i
    BY <2>2
  <2>4. Cardinality(P(i)) < Cardinality(P(j)) \/ Cardinality(P(j)) < Cardinality(P(i))
    BY <2>1, <2>3
  <2> QED BY <2>2, <2>4
<1> HIDE DEF U, P
<1>11. DOMAIN expenses' = DOMAIN list /\ expenses' \in Seq(ToSet(expenses'))
  <2>1. DOMAIN expenses' = DOMAIN list /\ expenses' = [i \in DOMAIN list |-> expenses'[i]]
    BY <1>7
  <2> QED BY <2>1, SameLength
<1>12. ASSUME NEW i \in DOMAIN list
       PROVE  /\ DOMAIN expenses'[i] = {"id", "name", "amount"}
              /\ expenses'[i].name = list[i].name /\ expenses'[i].amount = list[i].amount
              /\ i \in U => expenses'[i].id = lastId + Cardinality(P(i))
              /\ i \notin U => expenses'[i] = list[i]
  BY <1>7
<1>13. \A i \in DOMAIN list : i \in U => expenses'[i].id \in lastId + 1 .. lastId'
  BY <1>7, <1>8, <1>9, <1>12
<1>14. \A i, j \in DOMAIN list : i \in U /\ j \in U /\ expenses'[i].id = expenses'[j].id => i = j
  <2>1. \A i \in DOMAIN list : i \in U => Cardinality(P(i)) \in Nat
    BY <1>8, <1>9
  <2> QED BY <1>10, <1>12, <2>1
<1> QED BY <1>8, <1>9, <1>11, <1>12, <1>13, <1>14

\* The catalog has a row of each name.
LEMMA CatalogPlaces ==
    /\ DOMAIN OpexRows = 1 .. 7 /\ Len(OpexRows) = 7
    /\ \A i, j \in DOMAIN OpexRows : OpexRows[i] = OpexRows[j] => i = j
<1>1. DOMAIN OpexRows = 1 .. 7 /\ Len(OpexRows) = 7
  BY DEF OpexRows
<1>2. \A i \in 1 .. 7 : i = 1 \/ i = 2 \/ i = 3 \/ i = 4 \/ i = 5 \/ i = 6 \/ i = 7
  OBVIOUS
<1>3. /\ OpexRows[1] = "internet" /\ OpexRows[2] = "pool_hot_tub" /\ OpexRows[3] = "cleaning"
      /\ OpexRows[4] = "property_taxes" /\ OpexRows[5] = "insurance" /\ OpexRows[6] = "misc"
      /\ OpexRows[7] = "project_loan"
  BY DEF OpexRows
<1> QED BY <1>1, <1>2, <1>3

\* What is sent as a list is what there was, each once.
LEMMA Sent ==
    ASSUME NEW updates, IsFiniteSet(DOMAIN updates)
    PROVE  LET order == SetToSeq(DOMAIN updates)
           IN  /\ AsList(updates) \in Seq(ToSet(AsList(updates)))
               /\ \A i \in DOMAIN AsList(updates) :
                     order[i] \in DOMAIN updates /\ AsList(updates)[i] = updates[order[i]]
               /\ \A i, j \in DOMAIN AsList(updates) : order[i] = order[j] => i = j
               /\ \A u \in DOMAIN updates : \E i \in DOMAIN AsList(updates) : order[i] = u
<1> DEFINE order == SetToSeq(DOMAIN updates)
           list == AsList(updates)
<1>1. /\ order \in Seq(DOMAIN updates) /\ ToSet(order) = DOMAIN updates
      /\ \A i, j \in DOMAIN order : order[i] = order[j] => i = j
  BY InSomeOrder
<1>2. list = [i \in DOMAIN order |-> updates[order[i]]]
  BY DEF AsList
<1> HIDE DEF list
<1>3. DOMAIN list = DOMAIN order /\ list = [i \in DOMAIN order |-> list[i]]
  BY <1>2
<1> HIDE DEF order
<1>4. order \in Seq(ToSet(order))
  BY <1>1
<1>5. list \in Seq(ToSet(list))
  BY <1>3, <1>4, SameLength
<1>6. \A i \in DOMAIN order : order[i] \in DOMAIN updates
  BY <1>1 DEF ToSet
<1>7. \A u \in DOMAIN updates : \E i \in DOMAIN order : order[i] = u
  BY <1>1 DEF ToSet
<1> QED BY <1>1, <1>2, <1>3, <1>5, <1>6, <1>7 DEF order, list

\* A name is matched to the key of a stored row of this name, or to none.
LEMMA Matched ==
    ASSUME StoredKept, NEW name
    PROVE  \/ FirstId(expenses, name) = NoId /\ \A j \in DOMAIN expenses : expenses[j].name # name
           \/ \E j \in DOMAIN expenses : expenses[j].name = name /\ FirstId(expenses, name) = expenses[j].id
<1>1. CASE Matching(expenses, name) = {}
  BY <1>1 DEF Matching, FirstId
<1>2. CASE Matching(expenses, name) # {}
  <2>1. expenses \in Seq(ToSet(expenses))
    BY DEF StoredKept, ExpenseList
  <2>2. \E i \in Matching(expenses, name) : FirstId(expenses, name) = expenses[i].id
    BY <1>2, <2>1, FirstMatches
  <2> QED BY <2>2 DEF Matching
<1> QED BY <1>1, <1>2

\* A key of the deal is the key of one row.
LEMMA KeyIsKnown ==
    ASSUME StoredKept, NEW row, NEW j \in DOMAIN expenses,
           row.id = expenses[j].id, row.name = expenses[j].name
    PROVE  KeyKnown(row) /\ row.id # NoId
<1>1. row.id \in 1 .. lastId /\ lastId \in Nat
  BY DEF StoredKept
<1>2. row.id # NoId
  BY <1>1, ExpensesAssumption
<1>3. \A i \in DOMAIN expenses : row.id = expenses[i].id => row.name = expenses[i].name
  BY <1>2 DEF StoredKept, ExpenseList
<1> QED BY <1>1, <1>2, <1>3 DEF KeyKnown

\* Figures matched to the rows of the deal carry their keys.
LEMMA UpdatesFit ==
    ASSUME StoredKept, NEW options, DOMAIN options \subseteq DOMAIN OpexRows,
           \A i \in DOMAIN options : options[i].name = OpexRows[i]
    PROVE  UpdatesKept(OpexUpdates(options, expenses))
<1> DEFINE updates == OpexUpdates(options, expenses)
<1>1. /\ DOMAIN updates \subseteq DOMAIN OpexRows
      /\ \A u \in DOMAIN updates :
            /\ DOMAIN updates[u] = {"id", "name", "amount"} /\ updates[u].name = OpexRows[u]
            /\ updates[u].id = FirstId(expenses, OpexRows[u])
  BY DEF OpexUpdates, Priced
<1> HIDE DEF updates
<1>2. ASSUME NEW u \in DOMAIN updates, updates[u].id # NoId
      PROVE  \E j \in DOMAIN expenses : expenses[j].name = OpexRows[u] /\ updates[u].id = expenses[j].id
  BY <1>1, <1>2, Matched
<1>3. ASSUME NEW u \in DOMAIN updates
      PROVE  updates[u].id = NoId \/ KeyKnown(updates[u])
  BY <1>1, <1>2, KeyIsKnown
<1>4. ASSUME NEW u \in DOMAIN updates, NEW v \in DOMAIN updates,
             updates[u].id = updates[v].id, updates[u].id # NoId
      PROVE  u = v
  <2>1. PICK j \in DOMAIN expenses : expenses[j].name = OpexRows[u] /\ updates[u].id = expenses[j].id
    BY <1>2, <1>4
  <2>2. PICK k \in DOMAIN expenses : expenses[k].name = OpexRows[v] /\ updates[v].id = expenses[k].id
    BY <1>2, <1>4
  <2>3. j = k
    BY <2>1, <2>2, <1>4 DEF StoredKept, ExpenseList
  <2> QED BY <2>1, <2>2, <2>3, <1>1, CatalogPlaces
<1> QED BY <1>1, <1>3, <1>4 DEF UpdatesKept, updates

\* A context is part of the catalog, matched to the rows of the deal.
LEMMA ContextFits ==
    ASSUME StoredKept, NEW b
    PROVE  UpdatesKept(BedroomContext(b, expenses))
<1> DEFINE options == KeyedOnBedrooms(OpexOptions(BedroomRows[b], NoRow))
<1>1. DOMAIN options \subseteq DOMAIN OpexRows /\ \A i \in DOMAIN options : options[i].name = OpexRows[i]
  BY DEF KeyedOnBedrooms, Restrict, OpexOptions
<1> HIDE DEF options
<1>2. UpdatesKept(OpexUpdates(options, expenses))
  BY <1>1, UpdatesFit
<1> QED BY <1>2 DEF BedroomContext, options

\* A list a PUT may carry: every key it has was given to a row of this name, and only once.
LEMMA RowsKept ==
    ASSUME StoredKept, NEW list, list \in Seq(ToSet(list)),
           \A i \in DOMAIN list : DOMAIN list[i] = {"id", "name", "amount"},
           \A i \in DOMAIN list : list[i].id = NoId \/ KeyKnown(list[i]),
           \A i, j \in DOMAIN list : list[i].id = list[j].id /\ list[i].id # NoId => i = j,
           Upsert(list)
    PROVE  /\ StoredKept' /\ lastId <= lastId' /\ DOMAIN expenses' = DOMAIN list
           /\ \A i \in DOMAIN list : expenses'[i].name = list[i].name /\ expenses'[i].amount = list[i].amount
           /\ \A i \in DOMAIN list : list[i].id \in Ids(expenses) => expenses'[i] = list[i]
           /\ \A i \in DOMAIN list : list[i].id \notin Ids(expenses) => expenses'[i].id \in lastId + 1 .. lastId'
<1>1. lastId \in Nat /\ \A i \in DOMAIN expenses : expenses[i].id \in 1 .. lastId
  BY DEF StoredKept
<1>2. /\ lastId' \in Nat /\ lastId <= lastId'
      /\ DOMAIN expenses' = DOMAIN list /\ expenses' \in Seq(ToSet(expenses'))
      /\ \A i \in DOMAIN list :
            /\ DOMAIN expenses'[i] = {"id", "name", "amount"}
            /\ expenses'[i].name = list[i].name /\ expenses'[i].amount = list[i].amount
            /\ list[i].id \in Ids(expenses) => expenses'[i] = list[i]
            /\ list[i].id \notin Ids(expenses) => expenses'[i].id \in lastId + 1 .. lastId'
      /\ \A i, j \in DOMAIN list :
            /\ list[i].id \notin Ids(expenses) /\ list[j].id \notin Ids(expenses)
            /\ expenses'[i].id = expenses'[j].id
            => i = j
  BY <1>1, Upserted
<1>3. \A id \in Ids(expenses) : id \in 1 .. lastId /\ id # NoId
  BY <1>1, ExpensesAssumption DEF Ids
<1>4. \A i \in DOMAIN expenses' : expenses'[i].id \in 1 .. lastId'
  BY <1>1, <1>2, <1>3
<1>5. ASSUME NEW i \in DOMAIN list, NEW j \in DOMAIN list, expenses'[i].id = expenses'[j].id
      PROVE  i = j
  <2>1. CASE list[i].id \in Ids(expenses) /\ list[j].id \in Ids(expenses)
    BY <2>1, <1>2, <1>3, <1>5
  <2>2. CASE list[i].id \notin Ids(expenses) /\ list[j].id \notin Ids(expenses)
    BY <2>2, <1>2, <1>5
  <2>3. CASE list[i].id \in Ids(expenses) /\ list[j].id \notin Ids(expenses)
    <3>1. expenses'[i].id \in 1 .. lastId /\ expenses'[j].id \in lastId + 1 .. lastId'
      BY <2>3, <1>2, <1>3
    <3> QED BY <3>1, <1>1, <1>2, <1>5
  <2>4. CASE list[i].id \notin Ids(expenses) /\ list[j].id \in Ids(expenses)
    <3>1. expenses'[j].id \in 1 .. lastId /\ expenses'[i].id \in lastId + 1 .. lastId'
      BY <2>4, <1>2, <1>3
    <3> QED BY <3>1, <1>1, <1>2, <1>5
  <2> QED BY <2>1, <2>2, <2>3, <2>4
<1>6. ExpenseList(expenses)'
  BY <1>2, <1>5 DEF ExpenseList
<1> QED BY <1>2, <1>4, <1>6 DEF StoredKept

\* A key that was known keeps its name, whatever is put.
LEMMA KeyStays ==
    ASSUME StoredKept, NEW list,
           \A i \in DOMAIN list : list[i].id = NoId \/ KeyKnown(list[i]),
           lastId' \in Nat, lastId <= lastId', DOMAIN expenses' = DOMAIN list,
           \A i \in DOMAIN list : list[i].id \in Ids(expenses) => expenses'[i] = list[i],
           \A i \in DOMAIN list : list[i].id \notin Ids(expenses) => expenses'[i].id \in lastId + 1 .. lastId',
           NEW row, KeyKnown(row)
    PROVE  KeyKnown(row)'
<1>1. lastId \in Nat /\ row.id \in 1 .. lastId
  BY DEF StoredKept, KeyKnown
<1>2. ASSUME NEW j \in DOMAIN list, row.id = expenses'[j].id
      PROVE  row.name = expenses'[j].name
  <2>1. list[j].id \in Ids(expenses) /\ expenses'[j] = list[j]
    BY <1>1, <1>2
  <2>2. PICK k \in DOMAIN expenses : expenses[k].id = list[j].id
    BY <2>1 DEF Ids
  <2>3. list[j].id # NoId
    BY <2>2, ExpensesAssumption DEF StoredKept
  <2>4. list[j].name = expenses[k].name /\ row.name = expenses[k].name
    BY <1>2, <2>1, <2>2, <2>3 DEF KeyKnown
  <2> QED BY <2>1, <2>4
<1>3. row.id \in 1 .. lastId'
  BY <1>1
<1> QED BY <1>2, <1>3 DEF KeyKnown

\* What is stored after a PUT is new, or was there under its name.
LEMMA NothingReturns ==
    ASSUME StoredKept, NEW list,
           \A i \in DOMAIN list : list[i].id = NoId \/ KeyKnown(list[i]),
           DOMAIN expenses' = DOMAIN list, lastId' \in Nat,
           \A i \in DOMAIN list : list[i].id \in Ids(expenses) => expenses'[i] = list[i],
           \A i \in DOMAIN list : list[i].id \notin Ids(expenses) => expenses'[i].id \in lastId + 1 .. lastId'
    PROVE  \A j \in DOMAIN expenses' :
              \/ expenses'[j].id > lastId
              \/ \E i \in DOMAIN expenses :
                    <<expenses[i].id, expenses[i].name>> = <<expenses'[j].id, expenses'[j].name>>
<1> SUFFICES ASSUME NEW j \in DOMAIN list
             PROVE  \/ expenses'[j].id > lastId
                    \/ \E i \in DOMAIN expenses :
                          <<expenses[i].id, expenses[i].name>> = <<expenses'[j].id, expenses'[j].name>>
  OBVIOUS
<1>1. lastId \in Nat
  BY DEF StoredKept
<1>2. CASE list[j].id \notin Ids(expenses)
  BY <1>1, <1>2
<1>3. CASE list[j].id \in Ids(expenses)
  <2>1. PICK k \in DOMAIN expenses : expenses[k].id = list[j].id
    BY <1>3 DEF Ids
  <2>2. list[j].id # NoId
    BY <2>1, ExpensesAssumption DEF StoredKept
  <2>3. list[j].name = expenses[k].name
    BY <2>1, <2>2 DEF KeyKnown
  <2> QED BY <1>3, <2>1, <2>3
<1> QED BY <1>2, <1>3

\* A list a client may put: its keys were given to rows of these names, each but once.
Sendable(list) ==
    /\ ExpenseList(list)
    /\ \A i \in DOMAIN list : list[i].id = NoId \/ KeyKnown(list[i])
\* No two rows share a label.
OwnLabels(rows) == \A i, j \in DOMAIN rows : rows[i].name = rows[j].name => i = j
\* What a step stores is new, or was there under its name.
NoKeyReturns ==
    \A j \in DOMAIN expenses' :
        \/ expenses'[j].id > lastId
        \/ \E i \in DOMAIN expenses :
            <<expenses[i].id, expenses[i].name>> = <<expenses'[j].id, expenses'[j].name>>

\* What a PUT writes keeps the keys apart, and the labels if the list does.
LEMMA PutStores ==
    ASSUME StoredKept, NEW list, Sendable(list), Upsert(list)
    PROVE  /\ StoredKept' /\ lastId <= lastId' /\ NoKeyReturns
           /\ \A row : KeyKnown(row) => KeyKnown(row)'
           /\ OwnLabels(list) => OwnLabels(expenses')
           /\ DOMAIN expenses' = DOMAIN list
           /\ \A i \in DOMAIN list : expenses'[i].name = list[i].name /\ expenses'[i].amount = list[i].amount
           /\ \A i \in DOMAIN list : list[i].id \in Ids(expenses) => expenses'[i] = list[i]
<1>1. /\ StoredKept' /\ lastId <= lastId' /\ DOMAIN expenses' = DOMAIN list
      /\ \A i \in DOMAIN list : expenses'[i].name = list[i].name /\ expenses'[i].amount = list[i].amount
      /\ \A i \in DOMAIN list : list[i].id \in Ids(expenses) => expenses'[i] = list[i]
      /\ \A i \in DOMAIN list : list[i].id \notin Ids(expenses) => expenses'[i].id \in lastId + 1 .. lastId'
  BY RowsKept DEF Sendable, ExpenseList
<1>2. lastId' \in Nat
  BY <1>1 DEF StoredKept
<1>3. NoKeyReturns
  BY <1>1, <1>2, NothingReturns DEF NoKeyReturns, Sendable
<1>4. ASSUME NEW row, KeyKnown(row)
      PROVE  KeyKnown(row)'
  BY <1>1, <1>2, <1>4, KeyStays DEF Sendable
<1>5. OwnLabels(list) => OwnLabels(expenses')
  BY <1>1 DEF OwnLabels
<1> QED BY <1>1, <1>3, <1>4, <1>5

\* A form that a step of another leaves open keeps what it knows.
LEMMA FormStays ==
    ASSUME NEW d, FormKept(d), form'[d] = form[d], alone'[d] = FALSE,
           \A row : KeyKnown(row) => KeyKnown(row)', lastId' = 0 => lastId = 0
    PROVE  FormKept(d)'
<1> DEFINE f == form[d]
<1>1. /\ DOMAIN f = DOMAIN ClosedForm /\ ExpenseList(f.rows)
      /\ \A i \in DOMAIN f.rows : KeyKnown(f.rows[i])
      /\ f.at = "closed" => f.rows = <<>>
      /\ lastId = 0 => f.at = "closed"
      /\ f.at = "fetched" => UpdatesKept(f.updates)
  BY DEF FormKept
<1>2. ASSUME NEW i \in DOMAIN f.rows
      PROVE  KeyKnown(f.rows[i])'
  BY <1>1 DEF KeyKnown
<1>3. ASSUME f.at = "fetched"
      PROVE  UpdatesKept(f.updates)'
  <2>1. UpdatesKept(f.updates) /\ f' = f
    BY <1>1, <1>3
  <2> HIDE DEF f
  <2> QED BY <2>1 DEF UpdatesKept
<1>4. f' = f /\ ExpenseList(f.rows)'
  BY <1>1 DEF ExpenseList
<1> QED BY <1>1, <1>2, <1>3, <1>4 DEF FormKept

\* The empty form.
LEMMA ClosedFits ==
    /\ DOMAIN ClosedForm = {"at", "rows", "bedrooms", "updates"}
    /\ ClosedForm.at = "closed" /\ ClosedForm.rows = <<>>
    /\ ExpenseList(<<>>) /\ DOMAIN <<>> = {}
<1>1. ToSet(<<>>) = {} /\ <<>> \in Seq({})
  BY DEF ToSet
<1> QED BY <1>1 DEF ClosedForm, ExpenseList

\* A form a step closes.
LEMMA FormCloses ==
    ASSUME NEW d, form'[d] = ClosedForm
    PROVE  FormKept(d)'
<1>1. ClosedForm' = ClosedForm
  BY DEF ClosedForm
<1>2. form'[d].rows = <<>> /\ form'[d].at = "closed" /\ DOMAIN form'[d] = DOMAIN ClosedForm
  BY ClosedFits
<1>3. ExpenseList(form'[d].rows)
  BY <1>2, ClosedFits
<1>4. ExpenseList(form[d].rows)'
  BY <1>3 DEF ExpenseList
<1> QED BY <1>1, <1>2, <1>4, ClosedFits DEF FormKept

\* A PUT keeps the invariant, and gives no key twice.
LEMMA PutKeeps ==
    ASSUME ExpensesInv, NEW c \in Clients, NEW list, Sendable(list),
           alone[c] /\ ~raced => OwnLabels(list), Put(c, list)
    PROVE  ExpensesInv' /\ NoKeyReturns
<1> USE DEF Put
<1>1. StoredKept /\ lastId \in Nat
  BY DEF ExpensesInv, StoredKept
<1>2. /\ StoredKept' /\ lastId <= lastId' /\ NoKeyReturns
      /\ \A row : KeyKnown(row) => KeyKnown(row)'
      /\ OwnLabels(list) => OwnLabels(expenses')
  BY <1>1, PutStores
<1>3. /\ raced' \in BOOLEAN /\ DOMAIN form' = Clients /\ alone' \in [Clients -> BOOLEAN]
      /\ form'[c] = ClosedForm
      /\ \A d \in Clients \ {c} : form'[d] = form[d]
      /\ \A d \in Clients : alone'[d] = FALSE
  BY DEF ExpensesInv
<1>4. ASSUME NEW d \in Clients
      PROVE  FormKept(d)'
  <2>1. CASE d = c
    BY <2>1, <1>3, FormCloses
  <2>2. CASE d # c
    <3>1. FormKept(d)
      BY DEF ExpensesInv
    <3>2. lastId' \in Nat /\ (lastId' = 0 => lastId = 0)
      BY <1>1, <1>2 DEF StoredKept
    <3> QED BY <2>2, <3>1, <3>2, <1>2, <1>3, FormStays
  <2> QED BY <2>1, <2>2
<1>5. ASSUME ~raced' PROVE OwnLabels(expenses')
  <2>1. alone[c] \in BOOLEAN /\ raced \in BOOLEAN
    BY DEF ExpensesInv
  <2>2. alone[c] /\ ~raced
    BY <2>1, <1>5
  <2> QED BY <2>2, <1>2
<1>6. SharedLabelsComeFromRaces'
  BY <1>5 DEF SharedLabelsComeFromRaces, OwnLabels
<1> QED BY <1>2, <1>3, <1>4, <1>6 DEF ExpensesInv

\* What the market supplies is finite, and no label comes twice.
LEMMA SeedSendable ==
    ASSUME NEW opex, DOMAIN opex.absolute \subseteq AbsoluteColumns
    PROVE  Sendable(ExpenseRows(opex)) /\ OwnLabels(ExpenseRows(opex))
<1> DEFINE names == UnplacedColumns(opex)
           first == [i \in DOMAIN OpexRows |->
                        [id |-> NoId, name |-> OpexRows[i], amount |-> AmountOf(Amounts(opex), OpexRows[i])]]
           rest == [i \in DOMAIN names |->
                        [id |-> NoId, name |-> names[i], amount |-> opex.absolute[names[i]]]]
           C == {c \in DOMAIN opex.absolute \ ToSet(OpexRows) : opex.absolute[c] # NoAmount}
           rows == ExpenseRows(opex)
<1>1. IsFiniteSet(C)
  <2>1. IsFiniteSet(AbsoluteColumns)
    <3>1. IsFiniteSet({}) /\ AbsoluteColumns = (({} \cup {"insurance"}) \cup {"new_column"}) \cup {"internet"}
      BY FS_EmptySet DEF AbsoluteColumns
    <3> HIDE DEF AbsoluteColumns
    <3>2. IsFiniteSet({} \cup {"insurance"})
      BY <3>1, FS_AddElement
    <3>3. IsFiniteSet(({} \cup {"insurance"}) \cup {"new_column"})
      BY <3>2, FS_AddElement
    <3> QED BY <3>1, <3>3, FS_AddElement
  <2>2. C \subseteq AbsoluteColumns
    OBVIOUS
  <2> HIDE DEF C
  <2> QED BY <2>1, <2>2, FS_Subset
<1>2. names \in Seq(ToSet(names)) /\ ToSet(names) \cap ToSet(OpexRows) = {}
      /\ \A i, j \in DOMAIN names : names[i] = names[j] => i = j
  <2>1. names = SetToSeq(C)
    BY DEF UnplacedColumns
  <2>2. C \cap ToSet(OpexRows) = {}
    OBVIOUS
  <2> HIDE DEF C, names
  <2> QED BY <1>1, <2>1, <2>2, InSomeOrder
<1>3. OpexRows \in Seq(ToSet(OpexRows))
  BY DEF OpexRows, ToSet
<1> HIDE DEF names
<1>4. /\ DOMAIN first = DOMAIN OpexRows /\ first = [i \in DOMAIN OpexRows |-> first[i]]
      /\ DOMAIN rest = DOMAIN names /\ rest = [i \in DOMAIN names |-> rest[i]]
      /\ \A i \in DOMAIN OpexRows : /\ first[i].id = NoId /\ first[i].name = OpexRows[i]
                                    /\ DOMAIN first[i] = {"id", "name", "amount"}
      /\ \A i \in DOMAIN names : /\ rest[i].id = NoId /\ rest[i].name = names[i]
                                 /\ DOMAIN rest[i] = {"id", "name", "amount"}
  OBVIOUS
<1>5. rows = first \o rest
  BY DEF ExpenseRows, names
<1> HIDE DEF first, rest, rows
<1>6. first \in Seq(ToSet(first)) /\ rest \in Seq(ToSet(rest))
  BY <1>2, <1>3, <1>4, SameLength
<1>7. /\ rows \in Seq(ToSet(rows))
      /\ \A i \in DOMAIN first : rows[i] = first[i]
      /\ \A i \in DOMAIN rest : rows[Len(first) + i] = rest[i]
      /\ \A i \in DOMAIN rows : i \in DOMAIN first \/ \E j \in DOMAIN rest : i = Len(first) + j
  BY <1>5, <1>6, Extended
<1>8. ASSUME NEW i \in DOMAIN rows
      PROVE  rows[i].id = NoId /\ DOMAIN rows[i] = {"id", "name", "amount"}
  <2>1. CASE i \in DOMAIN first
    BY <2>1, <1>4, <1>7
  <2>2. CASE i \notin DOMAIN first
    <3>1. PICK j \in DOMAIN rest : i = Len(first) + j
      BY <2>2, <1>7
    <3>2. rows[i] = rest[j]
      BY <3>1, <1>7
    <3> QED BY <3>2, <1>4
  <2> QED BY <2>1, <2>2
<1>9. ASSUME NEW i \in DOMAIN rows, NEW j \in DOMAIN rows, rows[i].name = rows[j].name
      PROVE  i = j
  <2>1. \A k \in DOMAIN OpexRows : OpexRows[k] \in ToSet(OpexRows)
    BY DEF ToSet
  <2>2. \A k \in DOMAIN names : names[k] \in ToSet(names)
    BY DEF ToSet
  <2>3. CASE i \in DOMAIN first /\ j \in DOMAIN first
    BY <2>3, <1>4, <1>7, <1>9, CatalogPlaces
  <2>4. CASE i \in DOMAIN first /\ j \notin DOMAIN first
    <3>1. PICK k \in DOMAIN rest : j = Len(first) + k
      BY <2>4, <1>7
    <3>2. rows[i].name \in ToSet(OpexRows) /\ rows[j].name \in ToSet(names)
      BY <2>1, <2>2, <2>4, <3>1, <1>4, <1>7
    <3> QED BY <3>2, <1>2, <1>9
  <2>5. CASE i \notin DOMAIN first /\ j \in DOMAIN first
    <3>1. PICK k \in DOMAIN rest : i = Len(first) + k
      BY <2>5, <1>7
    <3>2. rows[j].name \in ToSet(OpexRows) /\ rows[i].name \in ToSet(names)
      BY <2>1, <2>2, <2>5, <3>1, <1>4, <1>7
    <3> QED BY <3>2, <1>2, <1>9
  <2>6. CASE i \notin DOMAIN first /\ j \notin DOMAIN first
    <3>1. PICK k \in DOMAIN rest : i = Len(first) + k
      BY <2>6, <1>7
    <3>2. PICK l \in DOMAIN rest : j = Len(first) + l
      BY <2>6, <1>7
    <3>3. names[k] = names[l]
      BY <3>1, <3>2, <1>4, <1>7, <1>9
    <3> QED BY <3>1, <3>2, <3>3, <1>2, <1>4
  <2> QED BY <2>3, <2>4, <2>5, <2>6
<1> QED BY <1>7, <1>8, <1>9 DEF Sendable, ExpenseList, OwnLabels, rows

\* Seeding the rows of a new deal keeps the invariant.
LEMMA SeedKeeps ==
    ASSUME ExpensesInv, NEW opex, DOMAIN opex.absolute \subseteq AbsoluteColumns, SeedExpenses(opex)
    PROVE  ExpensesInv' /\ NoKeyReturns
<1> DEFINE list == ExpenseRows(opex)
<1>1. StoredKept /\ lastId = 0 /\ Sendable(list) /\ OwnLabels(list) /\ Upsert(list)
  BY SeedSendable DEF ExpensesInv, SeedExpenses
<1> HIDE DEF list
<1>2. StoredKept' /\ NoKeyReturns /\ OwnLabels(expenses')
  BY <1>1, PutStores
<1>3. UNCHANGED <<form, alone, raced>>
  BY DEF SeedExpenses
<1>4. ASSUME NEW d \in Clients
      PROVE  FormKept(d)'
  <2>1. /\ DOMAIN form[d] = DOMAIN ClosedForm /\ form[d].at = "closed" /\ form[d].rows = <<>>
    BY <1>1 DEF ExpensesInv, FormKept
  <2>2. ExpenseList(form[d].rows)'
    BY <1>3, <2>1, ClosedFits DEF ExpenseList
  <2> QED BY <1>3, <2>1, <2>2, ClosedFits DEF FormKept
<1>5. SharedLabelsComeFromRaces'
  BY <1>2 DEF SharedLabelsComeFromRaces, OwnLabels
<1> QED BY <1>2, <1>3, <1>4, <1>5 DEF ExpensesInv

\* The update that the i-th item of a merged list was appended for.
AppendedFor(rows, updates, i) == SetToSeq(DOMAIN Missing(rows, updates))[i - Len(rows)]

\* A merged list: the rows in their places, each once with its update, then the rest.
LEMMA MergedParts ==
    ASSUME NEW rows, rows \in Seq(ToSet(rows)), NEW updates, IsFiniteSet(DOMAIN updates)
    PROVE  LET m == Merged(rows, updates)
           IN  /\ m \in Seq(ToSet(m))
               /\ \A i \in DOMAIN rows :
                     /\ i \in DOMAIN m
                     /\ Meant(rows[i], updates) = {} => m[i] = rows[i]
                     /\ Meant(rows[i], updates) # {} => \E u \in Meant(rows[i], updates) : m[i] = updates[u]
               /\ \A i \in DOMAIN m \ DOMAIN rows :
                     /\ AppendedFor(rows, updates, i) \in DOMAIN updates
                     /\ m[i] = updates[AppendedFor(rows, updates, i)] /\ m[i].id \notin Ids(rows)
               /\ \A i, j \in DOMAIN m \ DOMAIN rows :
                     AppendedFor(rows, updates, i) = AppendedFor(rows, updates, j) => i = j
               /\ \A u \in DOMAIN updates :
                     updates[u].id \notin Ids(rows) => \E i \in DOMAIN m : m[i] = updates[u]
<1> DEFINE first == [i \in DOMAIN rows |->
                        IF Meant(rows[i], updates) = {} THEN rows[i]
                        ELSE updates[CHOOSE u \in Meant(rows[i], updates) : TRUE]]
           missing == Missing(rows, updates)
           more == AsList(missing)
           order == SetToSeq(DOMAIN missing)
           m == Merged(rows, updates)
<1>1. /\ DOMAIN missing = {u \in DOMAIN updates : updates[u].id \notin Ids(rows)}
      /\ \A u \in DOMAIN missing : missing[u] = updates[u]
  BY DEF Missing, Restrict
<1>2. IsFiniteSet(DOMAIN missing)
  <2>1. DOMAIN missing \subseteq DOMAIN updates
    BY <1>1
  <2> HIDE DEF missing
  <2> QED BY <2>1, FS_Subset
<1>3. DOMAIN first = DOMAIN rows /\ first = [i \in DOMAIN rows |-> first[i]]
      /\ \A i \in DOMAIN rows :
            /\ Meant(rows[i], updates) = {} => first[i] = rows[i]
            /\ Meant(rows[i], updates) # {} => \E u \in Meant(rows[i], updates) : first[i] = updates[u]
  <2> SUFFICES ASSUME NEW i \in DOMAIN rows
               PROVE  /\ Meant(rows[i], updates) = {} => first[i] = rows[i]
                      /\ Meant(rows[i], updates) # {} => \E u \in Meant(rows[i], updates) : first[i] = updates[u]
    OBVIOUS
  <2> DEFINE T == Meant(rows[i], updates)
             c == CHOOSE u \in T : TRUE
  <2>1. first[i] = IF T = {} THEN rows[i] ELSE updates[c]
    OBVIOUS
  <2>2. T # {} => c \in T
    OBVIOUS
  <2> HIDE DEF first, c
  <2> QED BY <2>1, <2>2
<1>4. m = first \o more
  BY DEF Merged
<1>5. \A i : AppendedFor(rows, updates, i) = order[i - Len(rows)]
  BY DEF AppendedFor
<1> HIDE DEF first, missing, m
<1>6. /\ more \in Seq(ToSet(more))
      /\ \A i \in DOMAIN more : order[i] \in DOMAIN missing /\ more[i] = missing[order[i]]
      /\ \A i, j \in DOMAIN more : order[i] = order[j] => i = j
      /\ \A u \in DOMAIN missing : \E i \in DOMAIN more : order[i] = u
  BY <1>2, Sent
<1> HIDE DEF more, order
<1>7. first \in Seq(ToSet(first)) /\ Len(first) = Len(rows) /\ Len(rows) \in Nat
      /\ DOMAIN rows = 1 .. Len(rows)
  <2>1. first \in Seq(ToSet(first))
    BY <1>3, SameLength
  <2> QED BY <2>1, <1>3
<1>8. /\ m \in Seq(ToSet(m))
      /\ \A i \in DOMAIN rows : i \in DOMAIN m /\ m[i] = first[i]
      /\ \A i \in DOMAIN more : Len(rows) + i \in DOMAIN m /\ m[Len(rows) + i] = more[i]
      /\ \A i \in DOMAIN m : i \in DOMAIN rows \/ \E j \in DOMAIN more : i = Len(rows) + j
  <2>1. DOMAIN first = DOMAIN rows /\ Len(first) = Len(rows)
    BY <1>3, <1>7
  <2>2. first \in Seq(ToSet(first)) /\ more \in Seq(ToSet(more))
    BY <1>6, <1>7
  <2>3. /\ m \in Seq(ToSet(m)) /\ DOMAIN first \subseteq DOMAIN m
        /\ \A i \in DOMAIN first : m[i] = first[i]
        /\ \A i \in DOMAIN more : Len(first) + i \in DOMAIN m /\ m[Len(first) + i] = more[i]
        /\ \A i \in DOMAIN m : i \in DOMAIN first \/ \E j \in DOMAIN more : i = Len(first) + j
    <3>1. /\ first \o more \in Seq(ToSet(first \o more)) /\ DOMAIN first \subseteq DOMAIN (first \o more)
          /\ \A i \in DOMAIN first : (first \o more)[i] = first[i]
          /\ \A i \in DOMAIN more : /\ Len(first) + i \in DOMAIN (first \o more)
                                    /\ (first \o more)[Len(first) + i] = more[i]
          /\ \A i \in DOMAIN (first \o more) : i \in DOMAIN first \/ \E j \in DOMAIN more : i = Len(first) + j
      BY <2>2, Extended, Zenon
    <3> QED BY <1>4, <3>1, Zenon
  <2> QED BY <2>1, <2>3
<1>9. \A j \in DOMAIN more : j \in Nat
  BY <1>6
<1>10. ASSUME NEW i \in DOMAIN m \ DOMAIN rows
       PROVE  /\ i - Len(rows) \in DOMAIN more /\ i \in Nat
              /\ m[i] = more[i - Len(rows)]
  <2>1. PICK j \in DOMAIN more : i = Len(rows) + j
    BY <1>8
  <2>2. i - Len(rows) = j /\ i \in Nat
    BY <2>1, <1>7, <1>9
  <2> QED BY <2>1, <2>2, <1>8
<1>11. ASSUME NEW i \in DOMAIN m \ DOMAIN rows
       PROVE  /\ AppendedFor(rows, updates, i) \in DOMAIN updates
              /\ m[i] = updates[AppendedFor(rows, updates, i)] /\ m[i].id \notin Ids(rows)
  <2>1. /\ AppendedFor(rows, updates, i) \in DOMAIN missing
        /\ m[i] = missing[AppendedFor(rows, updates, i)]
    BY <1>5, <1>6, <1>10
  <2> QED BY <2>1, <1>1
<1>12. ASSUME NEW i \in DOMAIN m \ DOMAIN rows, NEW j \in DOMAIN m \ DOMAIN rows,
              AppendedFor(rows, updates, i) = AppendedFor(rows, updates, j)
       PROVE  i = j
  <2>1. i - Len(rows) = j - Len(rows)
    BY <1>5, <1>6, <1>10, <1>12
  <2> QED BY <2>1, <1>7, <1>10
<1>13. ASSUME NEW u \in DOMAIN updates, updates[u].id \notin Ids(rows)
       PROVE  \E i \in DOMAIN m : m[i] = updates[u]
  <2>1. u \in DOMAIN missing /\ missing[u] = updates[u]
    BY <1>1, <1>13
  <2>2. PICK i \in DOMAIN more : order[i] = u
    BY <2>1, <1>6
  <2>3. Len(rows) + i \in DOMAIN m /\ m[Len(rows) + i] = updates[u]
    BY <2>1, <2>2, <1>6, <1>8
  <2> QED BY <2>3
<1> QED BY <1>3, <1>8, <1>11, <1>12, <1>13 DEF m

\* A part of the catalog is finite.
LEMMA UpdatesFinite ==
    ASSUME NEW updates, DOMAIN updates \subseteq DOMAIN OpexRows
    PROVE  IsFiniteSet(DOMAIN updates)
<1>1. \A n \in Nat : IsFiniteSet(1 .. n)
  BY FS_Interval
<1>2. IsFiniteSet(1 .. 7)
  BY <1>1
<1> QED BY <1>2, CatalogPlaces, FS_Subset

\* A form with a context merged into it is a list a client may put, and every figure of the
\* context is in it.
LEMMA MergedSendable ==
    ASSUME StoredKept, NEW rows, ExpenseList(rows), \A i \in DOMAIN rows : KeyKnown(rows[i]),
           NEW updates, UpdatesKept(updates)
    PROVE  /\ Sendable(Merged(rows, updates))
           /\ \A u \in DOMAIN updates : \E i \in DOMAIN Merged(rows, updates) : Merged(rows, updates)[i] = updates[u]
<1> DEFINE m == Merged(rows, updates)
           For(i) == AppendedFor(rows, updates, i)
<1>0. rows \in Seq(ToSet(rows)) /\ IsFiniteSet(DOMAIN updates)
  BY UpdatesFinite DEF ExpenseList, UpdatesKept
<1>1. /\ \A u \in DOMAIN updates : /\ DOMAIN updates[u] = {"id", "name", "amount"}
                                   /\ updates[u].id = NoId \/ KeyKnown(updates[u])
      /\ \A u, v \in DOMAIN updates : updates[u].id = updates[v].id /\ updates[u].id # NoId => u = v
  BY DEF UpdatesKept
<1>2. /\ m \in Seq(ToSet(m))
      /\ \A i \in DOMAIN rows :
            /\ i \in DOMAIN m
            /\ Meant(rows[i], updates) = {} => m[i] = rows[i]
            /\ Meant(rows[i], updates) # {} => \E u \in Meant(rows[i], updates) : m[i] = updates[u]
      /\ \A i \in DOMAIN m \ DOMAIN rows :
            For(i) \in DOMAIN updates /\ m[i] = updates[For(i)] /\ m[i].id \notin Ids(rows)
      /\ \A i, j \in DOMAIN m \ DOMAIN rows : For(i) = For(j) => i = j
      /\ \A u \in DOMAIN updates : updates[u].id \notin Ids(rows) => \E i \in DOMAIN m : m[i] = updates[u]
  BY <1>0, MergedParts
<1> HIDE DEF m, For
<1>3. ASSUME NEW i \in DOMAIN rows
      PROVE  /\ m[i].id = rows[i].id /\ rows[i].id \in Ids(rows) /\ rows[i].id # NoId
             /\ DOMAIN m[i] = {"id", "name", "amount"}
             /\ m[i].id = NoId \/ KeyKnown(m[i])
  <2>1. rows[i].id \in Ids(rows) /\ DOMAIN rows[i] = {"id", "name", "amount"}
    BY DEF Ids, ExpenseList
  <2>2. rows[i].id # NoId
    BY ExpensesAssumption DEF KeyKnown, StoredKept
  <2>3. CASE Meant(rows[i], updates) = {}
    BY <2>1, <2>2, <2>3, <1>2
  <2>4. CASE Meant(rows[i], updates) # {}
    <3>1. PICK u \in Meant(rows[i], updates) : m[i] = updates[u]
      BY <2>4, <1>2
    <3>2. u \in DOMAIN updates /\ updates[u].id = rows[i].id
      BY <3>1 DEF Meant
    <3> QED BY <3>1, <3>2, <2>1, <2>2, <1>1
  <2> QED BY <2>3, <2>4
<1>4. ASSUME NEW i \in DOMAIN m
      PROVE  DOMAIN m[i] = {"id", "name", "amount"} /\ (m[i].id = NoId \/ KeyKnown(m[i]))
  <2>1. CASE i \in DOMAIN rows
    BY <2>1, <1>3
  <2>2. CASE i \notin DOMAIN rows
    BY <2>2, <1>1, <1>2
  <2> QED BY <2>1, <2>2
<1>5. ASSUME NEW i \in DOMAIN m, NEW j \in DOMAIN m, m[i].id = m[j].id, m[i].id # NoId
      PROVE  i = j
  <2>1. CASE i \in DOMAIN rows /\ j \in DOMAIN rows
    BY <2>1, <1>3, <1>5 DEF ExpenseList
  <2>2. CASE i \in DOMAIN rows /\ j \notin DOMAIN rows
    BY <2>2, <1>2, <1>3, <1>5
  <2>3. CASE i \notin DOMAIN rows /\ j \in DOMAIN rows
    BY <2>3, <1>2, <1>3, <1>5
  <2>4. CASE i \notin DOMAIN rows /\ j \notin DOMAIN rows
    BY <2>4, <1>1, <1>2, <1>5
  <2> QED BY <2>1, <2>2, <2>3, <2>4
<1>6. ASSUME NEW u \in DOMAIN updates
      PROVE  \E i \in DOMAIN m : m[i] = updates[u]
  <2>1. CASE updates[u].id \notin Ids(rows)
    BY <2>1, <1>2
  <2>2. CASE updates[u].id \in Ids(rows)
    <3>1. PICK i \in DOMAIN rows : updates[u].id = rows[i].id
      BY <2>2 DEF Ids
    <3>2. u \in Meant(rows[i], updates)
      BY <3>1 DEF Meant
    <3>3. PICK v \in Meant(rows[i], updates) : m[i] = updates[v]
      BY <3>2, <1>2
    <3>4. v \in DOMAIN updates /\ updates[v].id = rows[i].id
      BY <3>3 DEF Meant
    <3>5. v = u
      BY <3>1, <3>4, <1>1, <1>3
    <3> QED BY <3>3, <3>5, <1>2
  <2> QED BY <2>1, <2>2
<1> QED BY <1>2, <1>4, <1>5, <1>6 DEF Sendable, ExpenseList, m

\* Nobody wrote since the form was loaded, and no label is shared: merged with the figures
\* of the catalog, it shares none.
LEMMA MergedLabels ==
    ASSUME StoredKept, OwnLabels(expenses), NEW rows, ExpenseList(rows), \A i \in DOMAIN rows : KeyKnown(rows[i]),
           \A i \in DOMAIN rows : \E j \in DOMAIN expenses : rows[i] = expenses[j],
           NEW options, DOMAIN options \subseteq DOMAIN OpexRows,
           \A i \in DOMAIN options : options[i].name = OpexRows[i]
    PROVE  OwnLabels(Merged(rows, OpexUpdates(options, expenses)))
<1> DEFINE updates == OpexUpdates(options, expenses)
           m == Merged(rows, updates)
           For(i) == AppendedFor(rows, updates, i)
<1>1. UpdatesKept(updates)
  BY UpdatesFit
<1>2. \A u \in DOMAIN updates : updates[u].name = OpexRows[u] /\ updates[u].id = FirstId(expenses, OpexRows[u])
  BY DEF OpexUpdates, Priced
<1> HIDE DEF updates
<1>3. rows \in Seq(ToSet(rows)) /\ IsFiniteSet(DOMAIN updates) /\ DOMAIN updates \subseteq DOMAIN OpexRows
  BY <1>1, UpdatesFinite DEF ExpenseList, UpdatesKept
<1>4. /\ \A i \in DOMAIN rows :
            /\ i \in DOMAIN m
            /\ Meant(rows[i], updates) = {} => m[i] = rows[i]
            /\ Meant(rows[i], updates) # {} => \E u \in Meant(rows[i], updates) : m[i] = updates[u]
      /\ \A i \in DOMAIN m \ DOMAIN rows :
            For(i) \in DOMAIN updates /\ m[i] = updates[For(i)] /\ m[i].id \notin Ids(rows)
      /\ \A i, j \in DOMAIN m \ DOMAIN rows : For(i) = For(j) => i = j
  BY <1>3, MergedParts
<1> HIDE DEF m, For
<1>5. ASSUME NEW u \in DOMAIN updates, NEW i \in DOMAIN rows, updates[u].id = rows[i].id
      PROVE  updates[u].name = rows[i].name
  <2>1. PICK j \in DOMAIN expenses : rows[i] = expenses[j]
    OBVIOUS
  <2>2. updates[u].id # NoId
    BY <1>5, <2>1, ExpensesAssumption DEF StoredKept
  <2> QED BY <1>1, <1>5, <2>1, <2>2 DEF UpdatesKept, KeyKnown
<1>6. ASSUME NEW i \in DOMAIN rows
      PROVE  m[i].name = rows[i].name
  <2>1. CASE Meant(rows[i], updates) = {}
    BY <2>1, <1>4
  <2>2. CASE Meant(rows[i], updates) # {}
    <3>1. PICK u \in Meant(rows[i], updates) : m[i] = updates[u]
      BY <2>2, <1>4
    <3> QED BY <3>1, <1>5 DEF Meant
  <2> QED BY <2>1, <2>2
<1>7. ASSUME NEW i \in DOMAIN rows, NEW j \in DOMAIN rows, rows[i].name = rows[j].name
      PROVE  i = j
  <2>1. PICK k \in DOMAIN expenses : rows[i] = expenses[k]
    OBVIOUS
  <2>2. PICK l \in DOMAIN expenses : rows[j] = expenses[l]
    OBVIOUS
  <2>3. k = l
    BY <1>7, <2>1, <2>2 DEF OwnLabels
  <2>4. rows[i].id # NoId
    BY <2>1, ExpensesAssumption DEF StoredKept
  <2> QED BY <2>1, <2>2, <2>3, <2>4 DEF ExpenseList
<1>8. ASSUME NEW i \in DOMAIN rows, NEW j \in DOMAIN m \ DOMAIN rows
      PROVE  m[i].name # m[j].name
  <2>1. PICK k \in DOMAIN expenses : rows[i] = expenses[k]
    OBVIOUS
  <2>2. PICK u \in DOMAIN updates : m[j] = updates[u] /\ updates[u].id \notin Ids(rows)
    BY <1>4
  <2>3. SUFFICES ASSUME rows[i].name = OpexRows[u] PROVE FALSE
    BY <1>2, <1>6, <2>2
  <2>4. PICK l \in DOMAIN expenses : expenses[l].name = OpexRows[u] /\ updates[u].id = expenses[l].id
    BY <1>2, <2>1, <2>3, Matched
  <2>5. k = l
    BY <2>1, <2>3, <2>4 DEF OwnLabels
  <2> QED BY <2>1, <2>2, <2>4, <2>5 DEF Ids
<1>9. ASSUME NEW i \in DOMAIN m \ DOMAIN rows, NEW j \in DOMAIN m \ DOMAIN rows, m[i].name = m[j].name
      PROVE  i = j
  <2>1. OpexRows[For(i)] = OpexRows[For(j)] /\ For(i) \in DOMAIN OpexRows /\ For(j) \in DOMAIN OpexRows
    BY <1>2, <1>3, <1>4, <1>9
  <2>2. For(i) = For(j)
    BY <2>1, CatalogPlaces
  <2> QED BY <2>2, <1>4
<1>10. ASSUME NEW i \in DOMAIN m, NEW j \in DOMAIN m, m[i].name = m[j].name
       PROVE  i = j
  <2>1. CASE i \in DOMAIN rows /\ j \in DOMAIN rows
    BY <2>1, <1>6, <1>7, <1>10
  <2>2. CASE i \in DOMAIN rows /\ j \notin DOMAIN rows
    BY <2>2, <1>8, <1>10
  <2>3. CASE i \notin DOMAIN rows /\ j \in DOMAIN rows
    BY <2>3, <1>8, <1>10
  <2>4. CASE i \notin DOMAIN rows /\ j \notin DOMAIN rows
    BY <2>4, <1>9, <1>10
  <2> QED BY <2>1, <2>2, <2>3, <2>4
<1> QED BY <1>10 DEF OwnLabels, m, updates

\* A figure of the catalog for each label, none twice: it may be put as it came.
LEMMA ContextSendable ==
    ASSUME NEW updates, UpdatesKept(updates)
    PROVE  Sendable(AsList(updates)) /\ OwnLabels(AsList(updates))
<1> DEFINE list == AsList(updates)
           order == SetToSeq(DOMAIN updates)
<1>1. /\ DOMAIN updates \subseteq DOMAIN OpexRows
      /\ \A u \in DOMAIN updates :
            /\ DOMAIN updates[u] = {"id", "name", "amount"} /\ updates[u].name = OpexRows[u]
            /\ updates[u].id = NoId \/ KeyKnown(updates[u])
      /\ \A u, v \in DOMAIN updates : updates[u].id = updates[v].id /\ updates[u].id # NoId => u = v
  BY DEF UpdatesKept
<1>2. IsFiniteSet(DOMAIN updates)
  BY <1>1, UpdatesFinite
<1>3. /\ list \in Seq(ToSet(list))
      /\ \A i \in DOMAIN list : order[i] \in DOMAIN updates /\ list[i] = updates[order[i]]
      /\ \A i, j \in DOMAIN list : order[i] = order[j] => i = j
  BY <1>2, Sent
<1> HIDE DEF list, order
<1>4. \A i \in DOMAIN list : /\ DOMAIN list[i] = {"id", "name", "amount"}
                             /\ list[i].id = NoId \/ KeyKnown(list[i])
  BY <1>1, <1>3
<1>5. \A i, j \in DOMAIN list : list[i].id = list[j].id /\ list[i].id # NoId => i = j
  BY <1>1, <1>3
<1>6. ASSUME NEW i \in DOMAIN list, NEW j \in DOMAIN list, list[i].name = list[j].name
      PROVE  i = j
  <2>1. OpexRows[order[i]] = OpexRows[order[j]] /\ order[i] \in DOMAIN OpexRows /\ order[j] \in DOMAIN OpexRows
    BY <1>1, <1>3, <1>6
  <2> QED BY <2>1, <1>3, CatalogPlaces
<1> QED BY <1>3, <1>4, <1>5, <1>6 DEF Sendable, ExpenseList, OwnLabels, list

\* Before anybody wrote, the rows of a form are rows of the deal, each with its own label.
LEMMA FormLabels ==
    ASSUME StoredKept, OwnLabels(expenses), NEW rows, ExpenseList(rows),
           \A i \in DOMAIN rows : \E j \in DOMAIN expenses : rows[i] = expenses[j]
    PROVE  OwnLabels(rows)
<1>1. ASSUME NEW i \in DOMAIN rows, NEW j \in DOMAIN rows, rows[i].name = rows[j].name
      PROVE  i = j
  <2>1. PICK k \in DOMAIN expenses : rows[i] = expenses[k]
    OBVIOUS
  <2>2. PICK l \in DOMAIN expenses : rows[j] = expenses[l]
    OBVIOUS
  <2>3. k = l
    BY <1>1, <2>1, <2>2 DEF OwnLabels
  <2>4. rows[i].id # NoId
    BY <2>1, ExpensesAssumption DEF StoredKept
  <2> QED BY <2>1, <2>2, <2>3, <2>4 DEF ExpenseList
<1> QED BY <1>1 DEF OwnLabels

\* The figures a context may hold are those of a part of the catalog.
LEMMA ContextOptions ==
    ASSUME NEW b
    PROVE  LET options == KeyedOnBedrooms(OpexOptions(BedroomRows[b], NoRow))
           IN  /\ DOMAIN options \subseteq DOMAIN OpexRows
               /\ \A i \in DOMAIN options : options[i].name = OpexRows[i]
BY DEF KeyedOnBedrooms, Restrict, OpexOptions

\* A client puts its form, with or without a context, or the context.
LEMMA ClientPuts ==
    ASSUME ExpensesInv, NEW c \in Clients, PutForm(c) \/ PutContext(c)
    PROVE  ExpensesInv' /\ NoKeyReturns
<1> DEFINE f == form[c]
<1>1. StoredKept /\ FormKept(c)
  BY DEF ExpensesInv
<1>2. /\ ExpenseList(f.rows) /\ \A i \in DOMAIN f.rows : KeyKnown(f.rows[i])
      /\ f.at = "fetched" => UpdatesKept(f.updates)
      /\ alone[c] => \A i \in DOMAIN f.rows : \E j \in DOMAIN expenses : f.rows[i] = expenses[j]
      /\ alone[c] /\ f.at = "fetched" => f.updates = BedroomContext(f.bedrooms, expenses)
  BY <1>1 DEF FormKept
<1>3. ~raced => OwnLabels(expenses)
  BY DEF ExpensesInv, SharedLabelsComeFromRaces, OwnLabels
<1> HIDE DEF f
<1>4. CASE Put(c, f.rows)
  <2>1. Sendable(f.rows)
    BY <1>2 DEF Sendable
  <2>2. alone[c] /\ ~raced => OwnLabels(f.rows)
    BY <1>1, <1>2, <1>3, FormLabels
  <2> QED BY <1>4, <2>1, <2>2, PutKeeps
<1>5. CASE f.at = "fetched" /\ Put(c, Merged(f.rows, f.updates))
  <2>1. Sendable(Merged(f.rows, f.updates))
    BY <1>1, <1>2, <1>5, MergedSendable
  <2>2. ASSUME alone[c], ~raced
        PROVE  OwnLabels(Merged(f.rows, f.updates))
    <3> DEFINE options == KeyedOnBedrooms(OpexOptions(BedroomRows[f.bedrooms], NoRow))
    <3>1. /\ DOMAIN options \subseteq DOMAIN OpexRows
          /\ \A i \in DOMAIN options : options[i].name = OpexRows[i]
      BY ContextOptions
    <3>2. f.updates = OpexUpdates(options, expenses)
      BY <1>2, <1>5, <2>2 DEF BedroomContext
    <3> HIDE DEF options
    <3>3. OwnLabels(Merged(f.rows, OpexUpdates(options, expenses)))
      BY <1>1, <1>2, <1>3, <2>2, <3>1, MergedLabels
    <3> QED BY <3>2, <3>3
  <2> QED BY <1>5, <2>1, <2>2, PutKeeps
<1>6. CASE f.at = "fetched" /\ Put(c, AsList(f.updates))
  <2>1. Sendable(AsList(f.updates)) /\ OwnLabels(AsList(f.updates))
    BY <1>2, <1>6, ContextSendable
  <2> QED BY <1>6, <2>1, PutKeeps
<1> QED BY <1>4, <1>5, <1>6 DEF PutForm, PutContext, f

\* A form keeps what it knows when nothing is written.
LEMMA FormUntouched ==
    ASSUME NEW d, FormKept(d), form'[d] = form[d], alone'[d] = alone[d], UNCHANGED <<expenses, lastId>>
    PROVE  FormKept(d)'
<1>1. UNCHANGED <<form[d], alone[d]>>
  OBVIOUS
<1>2. ExpenseList(form[d].rows)' <=> ExpenseList(form[d].rows)
  BY <1>1
<1>3. (form[d].updates = BedroomContext(form[d].bedrooms, expenses))'
         <=> form[d].updates = BedroomContext(form[d].bedrooms, expenses)
  BY <1>1
<1> QED BY <1>1, <1>2, <1>3 DEF FormKept, KeyKnown, UpdatesKept

\* The rows of a list but one, in order.
LEMMA Removed ==
    ASSUME NEW s, s \in Seq(ToSet(s)), NEW i \in DOMAIN s
    PROVE  /\ RemoveAt(s, i) \in Seq(ToSet(RemoveAt(s, i)))
           /\ \A k \in DOMAIN RemoveAt(s, i) :
                 /\ (IF k < i THEN k ELSE k + 1) \in DOMAIN s /\ k \in Nat
                 /\ RemoveAt(s, i)[k] = s[IF k < i THEN k ELSE k + 1]
<1> DEFINE S == ToSet(s)
           n == Len(s)
           a == SubSeq(s, 1, i - 1)
           b == SubSeq(s, i + 1, n)
           t == a \o b
<1>1. n \in Nat /\ DOMAIN s = 1 .. n /\ i \in 1 .. n /\ s \in Seq(S)
  OBVIOUS
<1>2. a \in Seq(S) /\ Len(a) = i - 1 /\ \A k \in 1 .. i - 1 : a[k] = s[k]
  <2>1. a = [k \in 1 .. i - 1 |-> s[k]]
    BY <1>1
  <2> HIDE DEF a, S
  <2>2. \A k \in 1 .. i - 1 : s[k] \in S
    BY <1>1
  <2>3. a \in Seq(S)
    BY <1>1, <2>1, <2>2, SeqDef
  <2> QED BY <1>1, <2>1, <2>3
<1>3. b \in Seq(S) /\ Len(b) = n - i /\ \A k \in 1 .. n - i : b[k] = s[k + i]
  <2>1. b = [k \in 1 .. n - i |-> s[k + i]]
    BY <1>1
  <2> HIDE DEF b, S
  <2>2. \A k \in 1 .. n - i : s[k + i] \in S
    BY <1>1
  <2>3. b \in Seq(S)
    BY <1>1, <2>1, <2>2, SeqDef
  <2> QED BY <1>1, <2>1, <2>3
<1> HIDE DEF a, b, S
<1>4. /\ t \in Seq(S) /\ Len(t) = n - 1
      /\ \A k \in 1 .. n - 1 : t[k] = IF k <= i - 1 THEN a[k] ELSE b[k - (i - 1)]
  <2>1. /\ t \in Seq(S) /\ Len(t) = Len(a) + Len(b)
        /\ \A k \in 1 .. Len(a) + Len(b) : t[k] = IF k <= Len(a) THEN a[k] ELSE b[k - Len(a)]
    BY <1>2, <1>3, ConcatProperties
  <2>2. Len(a) = i - 1 /\ Len(b) = n - i /\ Len(a) + Len(b) = n - 1
    BY <1>1, <1>2, <1>3
  <2> HIDE DEF t
  <2> QED BY <2>1, <2>2
<1> HIDE DEF t
<1>5. DOMAIN t = 1 .. n - 1 /\ t = [k \in 1 .. n - 1 |-> t[k]]
  BY <1>1, <1>4
<1>6. t \in Seq(ToSet(t))
  <2>1. \A k \in 1 .. n - 1 : t[k] \in ToSet(t)
    BY <1>5 DEF ToSet
  <2> QED BY <1>1, <1>5, <2>1, SeqDef
<1>7. ASSUME NEW k \in 1 .. n - 1
      PROVE  /\ (IF k < i THEN k ELSE k + 1) \in 1 .. n /\ k \in Nat
             /\ t[k] = s[IF k < i THEN k ELSE k + 1]
  <2>1. CASE k < i
    BY <1>1, <1>2, <1>4, <2>1
  <2>2. CASE ~(k < i)
    <3>1. k - (i - 1) \in 1 .. n - i /\ (k - (i - 1)) + i = k + 1
      BY <1>1, <2>2
    <3>2. b[k - (i - 1)] = s[k + 1]
      BY <1>3, <3>1
    <3> QED BY <1>1, <1>4, <2>2, <3>2
  <2> QED BY <2>1, <2>2
<1>8. RemoveAt(s, i) = t
  BY Zenon DEF RemoveAt, t, a, b
<1> QED BY <1>1, <1>5, <1>6, <1>7, <1>8

\* An analyst removes a row of the form.
LEMMA RemoveKeeps ==
    ASSUME ExpensesInv, NEW c \in Clients, NEW i \in DOMAIN form[c].rows, RemoveRow(c, i)
    PROVE  ExpensesInv'
<1> DEFINE rows == form[c].rows
           kept == RemoveAt(rows, i)
           At(k) == IF k < i THEN k ELSE k + 1
<1>1. /\ FormKept(c) /\ UNCHANGED <<expenses, lastId, alone, raced>>
      /\ form'[c] = [form[c] EXCEPT !.rows = kept] /\ DOMAIN form' = Clients
      /\ \A d \in Clients \ {c} : form'[d] = form[d]
  BY DEF ExpensesInv, RemoveRow
<1>2. /\ DOMAIN form[c] = DOMAIN ClosedForm /\ ExpenseList(rows)
      /\ \A k \in DOMAIN rows : KeyKnown(rows[k])
      /\ form[c].at = "closed" => rows = <<>>
      /\ lastId = 0 => form[c].at = "closed"
      /\ form[c].at = "fetched" => UpdatesKept(form[c].updates)
      /\ alone[c] => \A k \in DOMAIN rows : \E j \in DOMAIN expenses : rows[k] = expenses[j]
      /\ alone[c] /\ form[c].at = "fetched" => /\ BedroomRows[form[c].bedrooms] # NoRow
                                              /\ form[c].updates = BedroomContext(form[c].bedrooms, expenses)
  BY <1>1 DEF FormKept
<1>3. /\ kept \in Seq(ToSet(kept))
      /\ \A k \in DOMAIN kept : At(k) \in DOMAIN rows /\ k \in Nat /\ kept[k] = rows[At(k)]
  BY <1>2, Removed DEF ExpenseList
<1>4. rows # <<>> /\ DOMAIN rows = 1 .. Len(rows) /\ Len(rows) \in Nat
  BY <1>2 DEF ExpenseList
<1>5. /\ form'[c].rows = kept /\ form'[c].at = form[c].at /\ form'[c].bedrooms = form[c].bedrooms
      /\ form'[c].updates = form[c].updates /\ DOMAIN form'[c] = DOMAIN ClosedForm
  <2>1. DOMAIN form[c] = {"at", "rows", "bedrooms", "updates"}
    BY <1>2, ClosedFits
  <2> HIDE DEF kept
  <2> QED BY <1>1, <1>2, <2>1
<1>6. \A k, l \in DOMAIN kept : At(k) = At(l) => k = l
  <2>1. i \in Nat
    BY <1>4
  <2> HIDE DEF kept
  <2> QED BY <1>3, <2>1
<1> HIDE DEF kept, At
<1>7. ExpenseList(kept)
  <2>1. ASSUME NEW k \in DOMAIN kept PROVE DOMAIN kept[k] = {"id", "name", "amount"}
    <3>1. At(k) \in DOMAIN rows /\ kept[k] = rows[At(k)]
      BY <1>3
    <3> HIDE DEF rows
    <3> QED BY <1>2, <3>1 DEF ExpenseList
  <2>2. \A k, l \in DOMAIN kept : kept[k].id = kept[l].id /\ kept[k].id # NoId => k = l
    BY <1>2, <1>3, <1>6 DEF ExpenseList
  <2> QED BY <1>3, <2>1, <2>2 DEF ExpenseList
<1>8. \A k \in DOMAIN kept : KeyKnown(kept[k])
  BY <1>2, <1>3
<1>9. alone[c] => \A k \in DOMAIN kept : \E j \in DOMAIN expenses : kept[k] = expenses[j]
  BY <1>2, <1>3
<1>10. form[c].at # "closed"
  BY <1>2, <1>4
<1>11. FormKept(c)'
  <2>1. ExpenseList(form[c].rows)'
    BY <1>5, <1>7
  <2>2. (form[c].updates = BedroomContext(form[c].bedrooms, expenses))'
           <=> form[c].updates = BedroomContext(form[c].bedrooms, expenses)
    BY <1>1, <1>5
  <2>3. \A k \in DOMAIN form'[c].rows : KeyKnown(form[c].rows[k])'
    BY <1>1, <1>5, <1>8 DEF KeyKnown
  <2>4. form[c].at = "fetched" => UpdatesKept(form[c].updates)'
    BY <1>1, <1>2, <1>5 DEF UpdatesKept, KeyKnown
  <2>5. alone'[c] => \A k \in DOMAIN form'[c].rows : \E j \in DOMAIN expenses' : form'[c].rows[k] = expenses'[j]
    BY <1>1, <1>5, <1>9
  <2>6. ClosedForm' = ClosedForm
    BY DEF ClosedForm
  <2> QED BY <1>1, <1>2, <1>5, <1>10, <2>1, <2>2, <2>3, <2>4, <2>5, <2>6 DEF FormKept
<1>12. ASSUME NEW d \in Clients
       PROVE  FormKept(d)'
  <2>1. CASE d # c
    BY <1>1, <2>1, FormUntouched DEF ExpensesInv
  <2> QED BY <1>11, <2>1
<1> QED BY <1>1, <1>12 DEF ExpensesInv, StoredKept, SharedLabelsComeFromRaces

\* A client loads the rows of the deal.
LEMMA OpenKeeps ==
    ASSUME ExpensesInv, NEW c \in Clients, OpenForm(c)
    PROVE  ExpensesInv'
<1>1. /\ FormKept(c) /\ StoredKept /\ lastId > 0 /\ form[c].at = "closed"
      /\ UNCHANGED <<expenses, lastId, raced>>
      /\ form' = [form EXCEPT ![c].at = "open", ![c].rows = expenses]
      /\ alone' = [alone EXCEPT ![c] = TRUE] /\ DOMAIN form = Clients /\ alone \in [Clients -> BOOLEAN]
  BY DEF ExpensesInv, OpenForm
<1>2. DOMAIN form[c] = DOMAIN ClosedForm /\ DOMAIN form[c] = {"at", "rows", "bedrooms", "updates"}
  BY <1>1, ClosedFits DEF FormKept
<1>3. /\ form'[c].at = "open" /\ form'[c].rows = expenses /\ DOMAIN form'[c] = DOMAIN ClosedForm
      /\ \A d \in Clients \ {c} : form'[d] = form[d] /\ alone'[d] = alone[d]
      /\ DOMAIN form' = Clients /\ alone' \in [Clients -> BOOLEAN]
  BY <1>1, <1>2
<1>4. \A i \in DOMAIN expenses : KeyKnown(expenses[i])
  BY <1>1, KeyIsKnown
<1>5. ExpenseList(expenses) /\ lastId # 0
  BY <1>1 DEF StoredKept
<1>6. FormKept(c)'
  <2>1. ExpenseList(form[c].rows)'
    BY <1>3, <1>5
  <2>2. \A i \in DOMAIN form'[c].rows : KeyKnown(form[c].rows[i])'
    BY <1>1, <1>3, <1>4 DEF KeyKnown
  <2>3. ClosedForm' = ClosedForm
    BY DEF ClosedForm
  <2> QED BY <1>1, <1>3, <1>5, <2>1, <2>2, <2>3 DEF FormKept
<1>7. ASSUME NEW d \in Clients
      PROVE  FormKept(d)'
  <2>1. CASE d # c
    BY <1>1, <1>3, <2>1, FormUntouched DEF ExpensesInv
  <2> QED BY <1>6, <2>1
<1> QED BY <1>1, <1>3, <1>7 DEF ExpensesInv, StoredKept, SharedLabelsComeFromRaces

\* A client fetches what the market says of a bedroom count.
LEMMA FetchKeeps ==
    ASSUME ExpensesInv, NEW c \in Clients, NEW b, FetchContext(c, b)
    PROVE  ExpensesInv'
<1> DEFINE context == BedroomContext(b, expenses)
<1>1. /\ FormKept(c) /\ StoredKept /\ form[c].at = "open" /\ BedroomRows[b] # NoRow
      /\ UNCHANGED <<expenses, lastId, alone, raced>> /\ DOMAIN form = Clients
      /\ form' = [form EXCEPT ![c].at = "fetched", ![c].bedrooms = b, ![c].updates = context]
  BY DEF ExpensesInv, FetchContext
<1>2. UpdatesKept(context)
  BY <1>1, ContextFits
<1>3. context' = context
  BY <1>1
<1>4. /\ DOMAIN form[c] = DOMAIN ClosedForm /\ DOMAIN form[c] = {"at", "rows", "bedrooms", "updates"}
      /\ ExpenseList(form[c].rows) /\ \A i \in DOMAIN form[c].rows : KeyKnown(form[c].rows[i])
      /\ lastId # 0
      /\ alone[c] => \A i \in DOMAIN form[c].rows : \E j \in DOMAIN expenses : form[c].rows[i] = expenses[j]
  BY <1>1, ClosedFits DEF FormKept
<1> HIDE DEF context
<1>5. /\ form'[c].at = "fetched" /\ form'[c].bedrooms = b /\ form'[c].updates = context
      /\ form'[c].rows = form[c].rows /\ DOMAIN form'[c] = DOMAIN ClosedForm
      /\ \A d \in Clients \ {c} : form'[d] = form[d]
      /\ DOMAIN form' = Clients
  BY <1>1, <1>4
<1>6. FormKept(c)'
  <2>1. ExpenseList(form[c].rows)'
    BY <1>4, <1>5
  <2>2. \A i \in DOMAIN form'[c].rows : KeyKnown(form[c].rows[i])'
    BY <1>1, <1>4, <1>5 DEF KeyKnown
  <2>3. ClosedForm' = ClosedForm
    BY DEF ClosedForm
  <2>4. UpdatesKept(form[c].updates)'
    BY <1>1, <1>2, <1>5 DEF UpdatesKept, KeyKnown
  <2>5. (form[c].updates = BedroomContext(form[c].bedrooms, expenses))'
    BY <1>1, <1>5 DEF context
  <2>6. BedroomRows[form'[c].bedrooms] # NoRow
    BY <1>1, <1>5
  <2>7. alone'[c] => \A i \in DOMAIN form'[c].rows : \E j \in DOMAIN expenses' : form'[c].rows[i] = expenses'[j]
    BY <1>1, <1>4, <1>5
  <2> QED BY <1>1, <1>4, <1>5, <2>1, <2>2, <2>3, <2>4, <2>5, <2>6, <2>7 DEF FormKept
<1>7. ASSUME NEW d \in Clients
      PROVE  FormKept(d)'
  <2>1. CASE d # c
    BY <1>1, <1>5, <2>1, FormUntouched DEF ExpensesInv
  <2> QED BY <1>6, <2>1
<1> QED BY <1>1, <1>5, <1>7 DEF ExpensesInv, StoredKept, SharedLabelsComeFromRaces

\* The market's columns are those the code knows.
LEMMA SeededColumns ==
    ASSUME NEW bedroomRow, NEW sizeRow
    PROVE  LET opex == TransformOpexCosts(bedroomRow, sizeRow)
           IN  /\ DOMAIN opex.absolute \subseteq AbsoluteColumns
               /\ DOMAIN Template(opex).absolute \subseteq AbsoluteColumns
<1> DEFINE opex == TransformOpexCosts(bedroomRow, sizeRow)
<1>1. DOMAIN Absolute(bedroomRow) \subseteq AbsoluteColumns /\ DOMAIN Absolute(sizeRow) \subseteq AbsoluteColumns
  BY DEF Absolute
<1>2. opex.absolute = Overriding(Absolute(sizeRow), Absolute(bedroomRow))
  BY DEF TransformOpexCosts
<1>3. DOMAIN opex.absolute \subseteq AbsoluteColumns
  <2> HIDE DEF opex
  <2> QED BY <1>1, <1>2 DEF Overriding
<1>4. DOMAIN Template(opex).absolute = DOMAIN opex.absolute
  <2> HIDE DEF opex
  <2> QED BY DEF Template
<1> QED BY <1>3, <1>4

\* Before a deal has expenses.
LEMMA ExpensesStart == ExpensesInit => ExpensesInv
<1> SUFFICES ASSUME ExpensesInit PROVE ExpensesInv
  OBVIOUS
<1> USE DEF ExpensesInit
<1>1. StoredKept /\ SharedLabelsComeFromRaces /\ raced \in BOOLEAN
  BY ClosedFits DEF StoredKept, SharedLabelsComeFromRaces
<1>2. ASSUME NEW c \in Clients PROVE FormKept(c)
  <2>1. form[c] = ClosedForm
    OBVIOUS
  <2> QED BY <2>1, ClosedFits DEF FormKept
<1> QED BY <1>1, <1>2 DEF ExpensesInv

\* Every step of a client or of a seeding.
LEMMA ExpensesSteps ==
    ASSUME ExpensesInv, [ExpensesNext]_expenseVars
    PROVE  ExpensesInv' /\ (UNCHANGED expenses \/ NoKeyReturns)
<1>1. CASE \E b \in Bedrooms : SeedFromMarket(b)
  BY <1>1, SeedKeeps, SeededColumns DEF SeedFromMarket
<1>2. CASE \E b \in Bedrooms : SeedFromTemplate(b)
  BY <1>2, SeedKeeps, SeededColumns DEF SeedFromTemplate
<1>3. ASSUME NEW c \in Clients, OpenForm(c)
      PROVE  ExpensesInv' /\ UNCHANGED expenses
  BY <1>3, OpenKeeps DEF OpenForm
<1>4. ASSUME NEW c \in Clients, NEW i \in DOMAIN form[c].rows, RemoveRow(c, i)
      PROVE  ExpensesInv' /\ UNCHANGED expenses
  BY <1>4, RemoveKeeps DEF RemoveRow
<1>5. ASSUME NEW c \in Clients, NEW b \in Bedrooms, FetchContext(c, b)
      PROVE  ExpensesInv' /\ UNCHANGED expenses
  BY <1>5, FetchKeeps DEF FetchContext
<1>6. ASSUME NEW c \in Clients, PutForm(c) \/ PutContext(c)
      PROVE  ExpensesInv' /\ NoKeyReturns
  BY <1>6, ClientPuts
<1>7. CASE UNCHANGED expenseVars
  <2>1. ASSUME NEW d \in Clients PROVE FormKept(d)'
    BY <1>7, FormUntouched DEF expenseVars, ExpensesInv
  <2> QED BY <1>7, <2>1 DEF ExpensesInv, expenseVars, StoredKept, SharedLabelsComeFromRaces
<1> QED BY <1>1, <1>2, <1>3, <1>4, <1>5, <1>6, <1>7 DEF ExpensesNext

\* The invariant of the expenses of a deal.
THEOREM ExpensesInvariant == ExpensesSpec => []ExpensesInv
<1>1. ExpensesInv /\ [ExpensesNext]_expenseVars => ExpensesInv'
  BY ExpensesSteps
<1> QED BY <1>1, ExpensesStart, PTL DEF ExpensesSpec

\* A row that the bedroom count prices costs the same with and without the row by size.
LEMMA SizeIsElsewhere ==
    ASSUME NEW row, NEW key, key \notin SizeKeyedRows
    PROVE  AmountOf(Amounts(TransformOpexCosts(row, SizeRow)), key)
              = AmountOf(Amounts(TransformOpexCosts(row, NoRow)), key)
<1> DEFINE o == TransformOpexCosts(row, SizeRow)
           p == TransformOpexCosts(row, NoRow)
           Derived(x) == [cleaning |-> CleaningCost(x), pool_hot_tub |-> x.pool,
                          property_taxes |-> PropertyTaxes(x)]
<1>1. /\ o.fee = p.fee /\ o.turns = p.turns /\ o.pool = p.pool /\ o.taxPct = p.taxPct
      /\ o.absolute = Overriding(Absolute(SizeRow), Absolute(row))
      /\ p.absolute = Overriding(Absolute(NoRow), Absolute(row))
  BY DEF TransformOpexCosts
<1>2. key \notin DOMAIN Absolute(SizeRow) /\ key \notin DOMAIN Absolute(NoRow)
  <2>1. DOMAIN Absolute(NoRow) = {}
    BY ClosedFits DEF Absolute
  <2>2. CASE SizeRow = NoRow
    BY <2>1, <2>2
  <2>3. CASE SizeRow # NoRow
    BY <2>1, <2>3, ExpensesAssumption DEF Absolute
  <2> QED BY <2>2, <2>3
<1> HIDE DEF o, p
<1>3. /\ key \in DOMAIN o.absolute <=> key \in DOMAIN p.absolute
      /\ key \in DOMAIN o.absolute => o.absolute[key] = p.absolute[key]
  BY <1>1, <1>2 DEF Overriding
<1>4. Derived(o) = Derived(p)
  <2>1. CleaningCost(o) = CleaningCost(p) /\ PropertyTaxes(o) = PropertyTaxes(p)
    BY <1>1 DEF CleaningCost, PropertyTaxes
  <2> QED BY <1>1, <2>1
<1> HIDE DEF Derived
<1>5. /\ Amounts(o) = Overriding(Derived(o), Overriding(o.absolute, OpexRowDefaults))
      /\ Amounts(p) = Overriding(Derived(p), Overriding(p.absolute, OpexRowDefaults))
  BY DEF Amounts, Derived
<1>6. /\ key \in DOMAIN Overriding(o.absolute, OpexRowDefaults) <=> key \in DOMAIN Overriding(p.absolute, OpexRowDefaults)
      /\ key \in DOMAIN Overriding(o.absolute, OpexRowDefaults) =>
            Overriding(o.absolute, OpexRowDefaults)[key] = Overriding(p.absolute, OpexRowDefaults)[key]
  BY <1>3 DEF Overriding
<1>7. /\ key \in DOMAIN Amounts(o) <=> key \in DOMAIN Amounts(p)
      /\ key \in DOMAIN Amounts(o) => Amounts(o)[key] = Amounts(p)[key]
  BY <1>4, <1>5, <1>6 DEF Overriding
<1> QED BY <1>7 DEF AmountOf, o, p

\* What a context holds is what the market prices at that count.
LEMMA ContextIsMoved ==
    ASSUME NEW b, NEW rows
    PROVE  LET updates == BedroomContext(b, rows)
           IN  /\ DOMAIN updates = Moved(b)
               /\ \A u \in DOMAIN updates : /\ updates[u].name = MarketRows(b)[u].name
                                            /\ updates[u].amount = MarketRows(b)[u].amount
<1> DEFINE all == OpexOptions(BedroomRows[b], NoRow)
           market == MarketRows(b)
           some == KeyedOnBedrooms(all)
           updates == BedroomContext(b, rows)
<1>1. /\ DOMAIN all = DOMAIN OpexRows /\ DOMAIN market = DOMAIN OpexRows
      /\ \A i \in DOMAIN OpexRows :
            /\ all[i].name = OpexRows[i] /\ market[i].name = OpexRows[i]
            /\ all[i].keyedOn = KeyedOn(OpexRows[i]) /\ market[i].keyedOn = KeyedOn(OpexRows[i])
            /\ all[i].amount = AmountOf(Amounts(TransformOpexCosts(BedroomRows[b], NoRow)), OpexRows[i])
            /\ market[i].amount = AmountOf(Amounts(TransformOpexCosts(BedroomRows[b], SizeRow)), OpexRows[i])
  BY DEF MarketRows, OpexOptions
<1>2. Moved(b) = {i \in DOMAIN market : market[i].keyedOn = "bedrooms" /\ market[i].amount # NoAmount}
  BY DEF Moved
<1>3. updates = OpexUpdates(some, rows)
  BY DEF BedroomContext
<1> HIDE DEF all, market
<1>4. /\ DOMAIN some = {i \in DOMAIN OpexRows : all[i].keyedOn = "bedrooms"}
      /\ \A i \in DOMAIN some : some[i] = all[i]
  BY <1>1 DEF KeyedOnBedrooms, Restrict
<1> HIDE DEF some, updates
<1>5. /\ DOMAIN updates = {i \in DOMAIN some : some[i].amount # NoAmount}
      /\ \A u \in DOMAIN updates : updates[u].name = some[u].name /\ updates[u].amount = some[u].amount
  BY <1>3 DEF OpexUpdates, Priced
<1>6. ASSUME NEW i \in DOMAIN OpexRows, KeyedOn(OpexRows[i]) = "bedrooms"
      PROVE  all[i].amount = market[i].amount
  <2>1. OpexRows[i] \notin SizeKeyedRows
    BY <1>6 DEF KeyedOn
  <2> QED BY <1>1, <2>1, SizeIsElsewhere
<1>7. DOMAIN updates = Moved(b)
  BY <1>1, <1>2, <1>4, <1>5, <1>6
<1>8. \A u \in DOMAIN updates : updates[u].name = market[u].name /\ updates[u].amount = market[u].amount
  BY <1>1, <1>4, <1>5, <1>6
<1> QED BY <1>7, <1>8 DEF updates, market

\* A client that nobody disturbed and that puts its form with the context moves the rows
\* of the market, and those only.
LEMMA ReseedMoves ==
    ASSUME ExpensesInv, NEW c \in Clients, PutForm(c), alone[c], form[c].at = "fetched"
    PROVE  Reseeded(c)
<1> DEFINE rows == form[c].rows
           b == form[c].bedrooms
           updates == BedroomContext(b, expenses)
           list == Merged(rows, updates)
<1>1. /\ StoredKept /\ ExpenseList(rows) /\ \A i \in DOMAIN rows : KeyKnown(rows[i])
      /\ \A i \in DOMAIN rows : \E j \in DOMAIN expenses : rows[i] = expenses[j]
      /\ form[c].updates = updates
  BY DEF ExpensesInv, FormKept
<1>2. Put(c, list)
  BY <1>1 DEF PutForm
<1>3. Upsert(list)
  BY <1>2 DEF Put
<1>4. /\ DOMAIN updates = Moved(b)
      /\ \A u \in DOMAIN updates : /\ updates[u].name = MarketRows(b)[u].name
                                   /\ updates[u].amount = MarketRows(b)[u].amount
  BY ContextIsMoved
<1>5. UpdatesKept(updates)
  BY <1>1, ContextFits
<1> HIDE DEF rows, b, updates
<1>6. /\ Sendable(list)
      /\ \A u \in DOMAIN updates : \E i \in DOMAIN list : list[i] = updates[u]
  BY <1>1, <1>5, MergedSendable
<1>7. \A i \in DOMAIN rows : i \in DOMAIN list /\ (Meant(rows[i], updates) = {} => list[i] = rows[i])
  <2>1. rows \in Seq(ToSet(rows)) /\ IsFiniteSet(DOMAIN updates)
    BY <1>1, <1>5, UpdatesFinite DEF ExpenseList, UpdatesKept
  <2> QED BY <2>1, MergedParts
<1> HIDE DEF list
<1>8. /\ DOMAIN expenses' = DOMAIN list
      /\ \A i \in DOMAIN list : expenses'[i].name = list[i].name /\ expenses'[i].amount = list[i].amount
      /\ \A i \in DOMAIN list : list[i].id \in Ids(expenses) => expenses'[i] = list[i]
  BY <1>1, <1>3, <1>6, PutStores
<1>9. ASSUME NEW u \in Moved(b)
      PROVE  MarketRows(b)[u].amount \in StoredAmounts(expenses', MarketRows(b)[u].name)
  <2>1. PICK j \in DOMAIN list : list[j] = updates[u]
    BY <1>4, <1>6
  <2>2. /\ j \in DOMAIN expenses' /\ expenses'[j].name = MarketRows(b)[u].name
        /\ expenses'[j].amount = MarketRows(b)[u].amount
    BY <1>4, <1>8, <2>1
  <2> QED BY <2>2 DEF StoredAmounts, Matching
<1>10. ASSUME NEW i \in DOMAIN rows, rows[i].name \notin {MarketRows(b)[u].name : u \in Moved(b)}
       PROVE  \E j \in DOMAIN expenses' : expenses'[j] = rows[i]
  <2>1. PICK k \in DOMAIN expenses : rows[i] = expenses[k]
    BY <1>1
  <2>2. rows[i].id \in Ids(expenses) /\ rows[i].id # NoId
    BY <1>1, <2>1, ExpensesAssumption DEF Ids, StoredKept
  <2>3. ASSUME NEW u \in Meant(rows[i], updates)
        PROVE  FALSE
    <3>1. u \in DOMAIN updates /\ updates[u].id = expenses[k].id
      BY <2>1, <2>3 DEF Meant
    <3>2. updates[u].name = expenses[k].name
      BY <1>5, <2>1, <2>2, <3>1 DEF UpdatesKept, KeyKnown
    <3> QED BY <1>4, <1>10, <2>1, <3>1, <3>2
  <2>4. list[i] = rows[i] /\ i \in DOMAIN list
    BY <1>7, <2>3
  <2> QED BY <1>8, <2>2, <2>4
<1> QED BY <1>9, <1>10 DEF Reseeded, rows, b

\* What clients put back and markets reseed does to the expenses of a deal, whatever the
\* catalog holds and however many clients there are.
THEOREM ExpensesAreSafe == ExpensesSpec => ExpensesSafety
<1>1. ExpensesInv => SharedLabelsComeFromRaces
  BY DEF ExpensesInv
<1>2. ASSUME ExpensesInv, NEW c \in Clients, PutForm(c), alone[c], form[c].at = "fetched"
      PROVE  Reseeded(c)
  BY <1>2, ReseedMoves
<1>3. ASSUME ExpensesInv, [ExpensesNext]_expenseVars
      PROVE  NoKeyReturns
  <2>1. UNCHANGED expenses => NoKeyReturns
    BY DEF NoKeyReturns
  <2> QED BY <1>3, <2>1, ExpensesSteps
<1>4. ExpensesInv /\ [ExpensesNext]_expenseVars
         => [\A c \in Clients : PutForm(c) /\ alone[c] /\ form[c].at = "fetched" => Reseeded(c)]_expenseVars
  BY <1>2
<1>5. ExpensesInv /\ [ExpensesNext]_expenseVars
         => [\A j \in DOMAIN expenses' :
                \/ expenses'[j].id > lastId
                \/ \E i \in DOMAIN expenses :
                      <<expenses[i].id, expenses[i].name>> = <<expenses'[j].id, expenses'[j].name>>]_expenseVars
  BY <1>3 DEF NoKeyReturns
<1>6. ExpensesSpec => []SharedLabelsComeFromRaces
  BY <1>1, ExpensesInvariant, PTL
<1>7. ExpensesSpec => ReseedMovesOnlyMarketRows
  BY <1>4, ExpensesInvariant, PTL DEF ExpensesSpec, ReseedMovesOnlyMarketRows
<1>8. ExpensesSpec => DeletedIdsStayDeleted
  BY <1>5, ExpensesInvariant, PTL DEF ExpensesSpec, DeletedIdsStayDeleted
<1> QED BY <1>6, <1>7, <1>8 DEF ExpensesSafety
=============================================================================
