---------------------------- MODULE ServiceProofs ----------------------------
(***************************************************************************)
(* Proofs about the calls to other systems (Outbound), the cache of the    *)
(* tag options (ReferenceData), the requests of users (UserAccounts), the  *)
(* batch jobs (Jobs), the backfills (DataRepairs) and the daily run over   *)
(* prices and pending flags (PriceSync).                                   *)
(***************************************************************************)
EXTENDS Outbound, ReferenceData, UserAccounts, Jobs, DataRepairs, PriceSync,
        SequenceTheorems, FiniteSetTheorems, TLAPS
-----------------------------------------------------------------------------
\* Calls to other systems.

LEMMA Updating ==
    ASSUME NEW c, NEW fields, c \in DOMAIN call, Update(c, fields)
    PROVE  /\ DOMAIN call' = DOMAIN call
           /\ \A d \in DOMAIN call : d # c => call'[d] = call[d]
           /\ DOMAIN call'[c] = DOMAIN call[c]
           /\ \A f \in DOMAIN call[c] :
                call'[c][f] = IF f \in DOMAIN fields THEN fields[f] ELSE call[c][f]
BY DEF Update

LEMMA OutboundStart == OutboundInit => OutboundInv
<1> SUFFICES ASSUME OutboundInit PROVE OutboundInv
  OBVIOUS
<1>1. PICK calls \in Together : call = [c \in DOMAIN Calls |->
                  [at |-> IF c \in calls THEN "new" ELSE "done", tries |-> 0,
                   body |-> None, result |-> None, reply |-> None]]
  BY DEF OutboundInit
<1>2. OutboundTyped
  <2>1. <<>> \in Seq(Answers) /\ \A c \in DOMAIN Calls : <<>> \in Seq({Calls[c]})
    OBVIOUS
  <2> QED BY <1>1, <2>1 DEF OutboundInit, OutboundTyped
<1>3. ASSUME NEW c \in DOMAIN Calls PROVE CallKept(c) /\ PeerKept(c)
  <2>1. call[c].at \in {"new", "done"} /\ call[c].tries = 0 /\ call[c].reply = None
    BY <1>1
  <2>2. answers[c] = <<>> /\ received[c] = <<>> /\ Len(<<>>) = 0
    BY DEF OutboundInit
  <2>3. Tries(c) \in Nat
    BY OutboundAssumption DEF Tries, Client, IsEvent
  <2> QED BY <2>1, <2>2, <2>3 DEF CallKept, PeerKept, Unsettled
<1> QED BY <1>2, <1>3 DEF OutboundInv

\* A step of one call leaves what is known of the others.
LEMMA OthersCalls ==
    ASSUME OutboundInv, NEW c \in DOMAIN Calls, NEW d \in DOMAIN Calls, d # c,
           call'[d] = call[d], received'[d] = received[d], answers'[d] = answers[d]
    PROVE  CallKept(d)' /\ PeerKept(d)'
BY DEF OutboundInv, CallKept, PeerKept, Unsettled, IsEvent, Tries, Client, Verdict

\* A step that neither asks nor changes what is asked.
LEMMA NoAttempt ==
    ASSUME OutboundInv, NEW c \in DOMAIN Calls, NEW fields, Update(c, fields),
           UNCHANGED <<received, answers>>,
           DOMAIN fields \subseteq {"at", "body", "result", "reply"}, "at" \in DOMAIN fields,
           fields.at \in {"build", "send"} =>
              /\ call[c].at \in {"new", "build"}
              /\ (IF "body" \in DOMAIN fields THEN fields.body ELSE call[c].body) = Calls[c],
           fields.at \in {"build", "send", "reply", "done"},
           "reply" \in DOMAIN fields /\ IsEvent(c) => fields.reply = "ok"
    PROVE  OutboundInv'
<1>1. DOMAIN call = DOMAIN Calls
  BY DEF OutboundInv, OutboundTyped
<1>2. /\ DOMAIN call' = DOMAIN call
      /\ \A d \in DOMAIN call : d # c => call'[d] = call[d]
      /\ DOMAIN call'[c] = DOMAIN call[c]
      /\ \A f \in DOMAIN call[c] :
           call'[c][f] = IF f \in DOMAIN fields THEN fields[f] ELSE call[c][f]
  BY <1>1, Updating
<1>3. OutboundTyped'
  BY <1>1, <1>2 DEF OutboundInv, OutboundTyped
<1>4. /\ call'[c].tries = call[c].tries
      /\ call'[c].at = fields.at
      /\ call'[c].body = IF "body" \in DOMAIN fields THEN fields.body ELSE call[c].body
      /\ call'[c].reply = IF "reply" \in DOMAIN fields THEN fields.reply ELSE call[c].reply
  BY <1>1, <1>2 DEF OutboundInv, OutboundTyped
<1>5. CallKept(c) /\ PeerKept(c)
  BY DEF OutboundInv
<1>6. Tries(c) \in Nat \ {0}
  BY OutboundAssumption DEF Tries, Client, IsEvent
<1>7. CallKept(c)'
  <2>1. call[c].tries = Len(answers[c]) /\ call'[c].tries = Len(answers'[c])
    BY <1>4, <1>5 DEF CallKept
  <2>2. fields.at \in {"build", "send"} => answers[c] = <<>> /\ received[c] = <<>>
    BY <1>5 DEF CallKept
  <2>3. Len(<<>>) = 0 /\ DOMAIN <<>> = {}
    OBVIOUS
  <2>4. fields.at = "send" => call'[c].tries < Tries(c)
    BY <2>1, <2>2, <2>3, <1>4, <1>6
  <2>5. IsEvent(c) => call'[c].reply \in {None, "ok"}
    BY <1>4, <1>5 DEF CallKept
  <2> QED BY <1>4, <2>1, <2>2, <2>3, <2>4, <2>5 DEF CallKept, IsEvent, Tries, Client, Verdict
<1>8. PeerKept(c)'
  BY <1>4, <1>5 DEF PeerKept, CallKept, Unsettled, Tries, Client, IsEvent, Verdict
<1>9. ASSUME NEW d \in DOMAIN Calls, d # c PROVE CallKept(d)' /\ PeerKept(d)'
  BY <1>1, <1>2, <1>9, OthersCalls
<1> QED BY <1>3, <1>7, <1>8, <1>9 DEF OutboundInv

LEMMA CommitStatusInv ==
    ASSUME OutboundInv, NEW c \in DOMAIN Calls, CommitStatus(c)
    PROVE  OutboundInv'
<1>1. CASE status # Calls[c] /\ Calls[c] \in Announced
  <2>1. Update(c, [at |-> "build", body |-> Calls[c]])
    BY <1>1 DEF CommitStatus
  <2> QED BY <2>1, NoAttempt DEF CommitStatus
<1>2. CASE ~(status # Calls[c] /\ Calls[c] \in Announced)
  <2>1. Update(c, [at |-> "reply"])
    BY <1>2 DEF CommitStatus
  <2> QED BY <2>1, NoAttempt DEF CommitStatus
<1> QED BY <1>1, <1>2

LEMMA BuildBodyInv ==
    ASSUME OutboundInv, NEW c \in DOMAIN Calls, BuildBody(c)
    PROVE  OutboundInv'
<1>1. Built(c) = Calls[c] /\ call[c].body = Calls[c]
  BY DEF OutboundInv, CallKept, BuildBody, Built
<1>2. CASE Update(c, [at |-> IF Enabled THEN "send" ELSE "reply", body |-> Built(c)])
  BY <1>1, <1>2, NoAttempt DEF BuildBody
<1>3. CASE Update(c, [at |-> "reply", result |-> FALSE])
  BY <1>3, NoAttempt DEF BuildBody
<1> QED BY <1>2, <1>3 DEF BuildBody

LEMMA StartFetchInv ==
    ASSUME OutboundInv, NEW c \in DOMAIN Calls, StartFetch(c)
    PROVE  OutboundInv'
<1>1. Update(c, [at |-> "send", body |-> Calls[c]])
  BY DEF StartFetch
<1> QED BY <1>1, NoAttempt DEF StartFetch

LEMMA RespondInv ==
    ASSUME OutboundInv, NEW c \in DOMAIN Calls, Respond(c)
    PROVE  OutboundInv'
<1>1. Update(c, [at |-> "done", reply |-> IF IsEvent(c) \/ call[c].result = TRUE
                                          THEN "ok" ELSE "failed"])
  BY DEF Respond
<1> QED BY <1>1, NoAttempt DEF Respond

LEMMA AttemptInv ==
    ASSUME OutboundInv, NEW c \in DOMAIN Calls, Attempt(c)
    PROVE  OutboundInv'
<1>1. PICK answer \in Answers :
        /\ answers' = [answers EXCEPT ![c] = Append(@, answer)]
        /\ \/ answer # "401" /\ received' = [received EXCEPT ![c] = Append(@, call[c].body)]
           \/ answer \in {"timeout", "5xx", "401"} /\ UNCHANGED received
        /\ LET n == call[c].tries + 1
           IN  Update(c, IF Verdict(c, answer) \/ n = Tries(c)
                         THEN [at |-> "reply", tries |-> n, result |-> Result(c, answer)]
                         ELSE [tries |-> n])
  BY DEF Attempt
<1> DEFINE n == call[c].tries + 1
           last == Verdict(c, answer) \/ n = Tries(c)
<1>2. call[c].at = "send" /\ CallKept(c) /\ PeerKept(c) /\ DOMAIN call = DOMAIN Calls
  BY DEF Attempt, OutboundInv, OutboundTyped
<1>3. /\ DOMAIN call' = DOMAIN call
      /\ \A d \in DOMAIN call : d # c => call'[d] = call[d]
      /\ DOMAIN call'[c] = DOMAIN call[c]
      /\ call'[c].tries = n
      /\ call'[c].at = IF last THEN "reply" ELSE "send"
      /\ call'[c].body = call[c].body
      /\ call'[c].reply = call[c].reply
  <2>1. CASE last
    <3>1. Update(c, [at |-> "reply", tries |-> n, result |-> Result(c, answer)])
      BY <1>1, <2>1
    <3>2. DOMAIN call[c] = {"at", "tries", "body", "result", "reply"}
      BY DEF OutboundInv, OutboundTyped
    <3>3. /\ DOMAIN call' = DOMAIN call
          /\ \A d \in DOMAIN call : d # c => call'[d] = call[d]
          /\ DOMAIN call'[c] = DOMAIN call[c]
      BY <3>1, <1>2, Updating
    <3>4. /\ call'[c].tries = n
          /\ call'[c].at = "reply"
          /\ call'[c].body = call[c].body
          /\ call'[c].reply = call[c].reply
      BY <3>1, <3>2, <1>2 DEF Update
    <3> QED BY <3>3, <3>4, <2>1
  <2>2. CASE ~last
    <3>1. Update(c, [tries |-> n])
      BY <1>1, <2>2
    <3>2. DOMAIN call[c] = {"at", "tries", "body", "result", "reply"}
      BY DEF OutboundInv, OutboundTyped
    <3>3. /\ DOMAIN call' = DOMAIN call
          /\ \A d \in DOMAIN call : d # c => call'[d] = call[d]
          /\ DOMAIN call'[c] = DOMAIN call[c]
      BY <3>1, <1>2, Updating
    <3>4. /\ call'[c].tries = n
          /\ call'[c].at = "send"
          /\ call'[c].body = call[c].body
          /\ call'[c].reply = call[c].reply
      BY <3>1, <3>2, <1>2 DEF Update
    <3> QED BY <3>3, <3>4, <2>2
  <2> QED BY <2>1, <2>2
<1>4. /\ answers[c] \in Seq(Answers) /\ received[c] \in Seq({Calls[c]})
      /\ call[c].tries = Len(answers[c]) /\ call[c].tries < Tries(c) /\ Tries(c) \in Nat \ {0}
      /\ call[c].body = Calls[c]
  BY <1>2, OutboundAssumption DEF CallKept, OutboundInv, OutboundTyped, Tries, Client, IsEvent
<1>5. /\ answers'[c] = Append(answers[c], answer)
      /\ answers'[c] \in Seq(Answers)
      /\ Len(answers'[c]) = n
      /\ DOMAIN answers'[c] = 1 .. n
      /\ answers'[c][n] = answer
      /\ \A k \in 1 .. n : k # n => k \in DOMAIN answers[c] /\ answers'[c][k] = answers[c][k]
      /\ \A k \in DOMAIN answers[c] : k \in 1 .. n /\ answers'[c][k] = answers[c][k]
  BY <1>1, <1>4 DEF OutboundInv, OutboundTyped
<1>6. received'[c] \in {received[c], Append(received[c], Calls[c])}
  BY <1>1, <1>4 DEF OutboundInv, OutboundTyped
<1>7. /\ received'[c] \in Seq({Calls[c]})
      /\ Len(received'[c]) = Len(received[c]) \/ Len(received'[c]) = Len(received[c]) + 1
  <2>1. CASE received'[c] = received[c]
    BY <2>1, <1>4
  <2>2. CASE received'[c] = Append(received[c], Calls[c])
    BY <2>2, <1>4
  <2> QED BY <1>6, <2>1, <2>2
<1>8. \A d \in DOMAIN Calls : d # c => /\ answers'[d] = answers[d]
                                       /\ received'[d] = received[d]
  BY <1>1 DEF OutboundInv, OutboundTyped
<1>9. OutboundTyped'
  <2>1. DOMAIN answers' = DOMAIN Calls /\ DOMAIN received' = DOMAIN Calls
    BY <1>1 DEF OutboundInv, OutboundTyped
  <2>2. ASSUME NEW d \in DOMAIN Calls
        PROVE  /\ DOMAIN call'[d] = {"at", "tries", "body", "result", "reply"}
               /\ received'[d] \in Seq({Calls[d]})
               /\ answers'[d] \in Seq(Answers)
    BY <1>2, <1>3, <1>5, <1>7, <1>8 DEF OutboundInv, OutboundTyped
  <2> QED BY <1>2, <1>3, <2>1, <2>2 DEF OutboundTyped
<1>10. ~last => ~Verdict(c, answer) /\ n < Tries(c)
  BY <1>4
<1>11. \A k \in DOMAIN answers[c] : ~Verdict(c, answers[c][k])
  BY <1>2 DEF CallKept
<1>12. CallKept(c)'
  <2>1. ~last => \A k \in DOMAIN answers'[c] : ~Verdict(c, answers'[c][k])
    BY <1>5, <1>10, <1>11
  <2>2. IsEvent(c) => call'[c].reply \in {None, "ok"}
    BY <1>2, <1>3 DEF CallKept
  <2> QED BY <1>3, <1>4, <1>5, <1>10, <2>1, <2>2 DEF CallKept, IsEvent, Tries, Client, Verdict
<1>13. Unsettled(c) => Unsettled(c)'
  BY <1>5 DEF Unsettled
<1>14. ~last /\ ~Unsettled(c)' => received'[c] = <<>>
  <2>1. SUFFICES ASSUME ~last, ~Unsettled(c)' PROVE received'[c] = <<>>
    OBVIOUS
  <2>2. answer \notin {"timeout", "5xx", "empty"}
    BY <1>5, <2>1, <1>4 DEF Unsettled
  <2>3. answer # "ok"
    BY <1>10, <2>1, OutboundAssumption DEF Verdict, Client, IsEvent
  <2>4. received[c] = <<>>
    BY <1>2, <1>13, <2>1 DEF PeerKept
  <2>5. received'[c] = received[c]
    BY <1>1, <2>2, <2>3, OutboundAssumption
  <2> QED BY <2>4, <2>5
<1>15. Len(received'[c]) > 1 => Unsettled(c)'
  <2>1. CASE Unsettled(c)
    BY <2>1, <1>13
  <2>2. CASE ~Unsettled(c)
    <3>1. received[c] = <<>> /\ Len(received[c]) = 0
      BY <1>2, <2>2 DEF PeerKept
    <3>2. CASE Len(received'[c]) = 0
      BY <3>2
    <3>3. CASE Len(received'[c]) = 1
      BY <3>3
    <3> QED BY <3>1, <3>2, <3>3, <1>7
  <2> QED BY <2>1, <2>2
<1>16. PeerKept(c)'
  <2>1. Len(received'[c]) <= Len(answers'[c]) /\ Len(answers'[c]) <= Tries(c)
    BY <1>2, <1>4, <1>5, <1>7 DEF PeerKept
  <2>2. \A k \in DOMAIN answers'[c] : Verdict(c, answers'[c][k]) => k = Len(answers'[c])
    BY <1>5, <1>11
  <2>3. call'[c].at = "send" => ~last
    BY <1>3
  <2> QED BY <2>1, <2>2, <2>3, <1>14, <1>15 DEF PeerKept, Tries, Client, IsEvent, Verdict
<1>17. ASSUME NEW d \in DOMAIN Calls, d # c PROVE CallKept(d)' /\ PeerKept(d)'
  BY <1>2, <1>3, <1>8, <1>17, OthersCalls
<1> QED BY <1>9, <1>12, <1>16, <1>17 DEF OutboundInv

LEMMA CrashInv ==
    ASSUME OutboundInv, Crash
    PROVE  OutboundInv'
<1>1. /\ DOMAIN call' = DOMAIN Calls
      /\ \A c \in DOMAIN Calls :
           call'[c] = IF call[c].at = "new" THEN call[c] ELSE [call[c] EXCEPT !.at = "done"]
  BY DEF Crash, OutboundInv, OutboundTyped
<1>2. \A c \in DOMAIN Calls :
        /\ DOMAIN call'[c] = DOMAIN call[c]
        /\ call'[c].tries = call[c].tries /\ call'[c].reply = call[c].reply
        /\ call'[c] = call[c] \/ call'[c].at = "done"
  BY <1>1 DEF OutboundInv, OutboundTyped
<1>3. UNCHANGED <<received, answers>>
  BY DEF Crash
<1>4. OutboundTyped'
  BY <1>1, <1>2, <1>3 DEF OutboundInv, OutboundTyped
<1>5. ASSUME NEW c \in DOMAIN Calls PROVE CallKept(c)' /\ PeerKept(c)'
  <2>1. CallKept(c) /\ PeerKept(c)
    BY DEF OutboundInv
  <2> QED BY <1>2, <1>3, <2>1
      DEF CallKept, PeerKept, Unsettled, IsEvent, Tries, Client, Verdict
<1> QED BY <1>4, <1>5 DEF OutboundInv

LEMMA OutboundSteps == OutboundInv /\ [OutboundNext]_outboundVars => OutboundInv'
<1> SUFFICES ASSUME OutboundInv, [OutboundNext]_outboundVars PROVE OutboundInv'
  OBVIOUS
<1>1. CASE OutboundNext
  BY <1>1, CommitStatusInv, BuildBodyInv, StartFetchInv, AttemptInv, RespondInv, CrashInv
  DEF OutboundNext
<1>2. CASE UNCHANGED outboundVars
  <2>1. UNCHANGED <<call, received, answers>>
    BY <1>2 DEF outboundVars
  <2>2. OutboundTyped'
    BY <2>1 DEF OutboundInv, OutboundTyped
  <2>3. ASSUME NEW c \in DOMAIN Calls PROVE CallKept(c)' /\ PeerKept(c)'
    BY <2>1 DEF OutboundInv, CallKept, PeerKept, Unsettled, IsEvent, Tries, Client, Verdict
  <2> QED BY <2>2, <2>3 DEF OutboundInv
<1> QED BY <1>1, <1>2

\* Whatever is lost, refused or cut off by the end of the process, each call asks for what
\* it was made for, as often as it had an answer, and stops at a verdict.
THEOREM OutboundInvariant == OutboundSpec => []OutboundInv
  BY OutboundStart, OutboundSteps, PTL DEF OutboundSpec

\* Calls to other services: an event tells of its own move, is repeated after a lost answer
\* only and at most once, stops at a verdict, and never fails the request that committed.
THEOREM OutboundIsSafe == OutboundSpec => []OutboundSafety
<1>1. OutboundInv => OutboundSafety
  <2> SUFFICES ASSUME OutboundInv PROVE OutboundSafety
    OBVIOUS
  <2>1. EventsTellTheirMove
    <3>1. \A c \in DOMAIN Calls : received[c] \in Seq({Calls[c]})
      BY DEF OutboundInv, OutboundTyped
    <3>2. ASSUME NEW c \in DOMAIN Calls, NEW n \in DOMAIN received[c]
          PROVE  received[c][n] = Calls[c]
      <4>1. n \in 1 .. Len(received[c])
        BY <3>1
      <4>2. received[c] \in Seq({Calls[c]})
        BY <3>1
      <4>3. received[c][n] \in {Calls[c]}
        BY <4>1, <4>2
      <4> QED BY <4>3
    <3> QED BY <3>2 DEF EventsTellTheirMove
  <2>2. RepeatsFollowLostAnswers
    <3> SUFFICES ASSUME NEW c \in DOMAIN Calls
                 PROVE  /\ Len(received[c]) > 1 => Unsettled(c)
                        /\ IsEvent(c) => Len(received[c]) <= 2
      BY DEF RepeatsFollowLostAnswers, Unsettled
    <3>1. PeerKept(c) /\ received[c] \in Seq({Calls[c]}) /\ answers[c] \in Seq(Answers)
      BY DEF OutboundInv, OutboundTyped
    <3>2. IsEvent(c) => Tries(c) = 2
      BY OutboundAssumption DEF Tries, Client
    <3> QED BY <3>1, <3>2 DEF PeerKept
  <2>3. NoCallAfterAVerdict
    <3> SUFFICES ASSUME NEW c \in DOMAIN Calls, NEW k \in DOMAIN answers[c],
                        answers[c][k] \in {"ok"} \cup
                            (IF Client(c) = "scrape" THEN {"401", "empty"} ELSE {})
                 PROVE  k = Len(answers[c])
      BY DEF NoCallAfterAVerdict
    <3>1. Verdict(c, answers[c][k])
      BY OutboundAssumption DEF Verdict, Client, IsEvent
    <3> QED BY <3>1 DEF OutboundInv, PeerKept
  <2>4. CommitsAreReported
    BY DEF OutboundInv, CallKept, CommitsAreReported
  <2> QED BY <2>1, <2>2, <2>3, <2>4 DEF OutboundSafety
<1> QED BY <1>1, OutboundInvariant, PTL

-----------------------------------------------------------------------------
\* The cache of the tag options.

\* Filtering the cached table is the repository's WHERE clause.
LEMMA FiltersAgree ==
    ASSUME NEW table, NEW scope
    PROVE  SharedOptions(table, scope) = ListOptions(table, scope)
<1>1. ASSUME NEW k \in DOMAIN table
      PROVE  (/\ scope.domain = None \/ table[k].domain = scope.domain
              /\ scope.sets = {} \/ table[k].set \in scope.sets
              /\ scope.inactive \/ table[k].active)
             <=>
             (/\ scope.domain # None => table[k].domain = scope.domain
              /\ scope.sets # {} => table[k].set \in scope.sets
              /\ ~scope.inactive => table[k].active)
  OBVIOUS
<1>2. {k \in DOMAIN table : /\ scope.domain = None \/ table[k].domain = scope.domain
                            /\ scope.sets = {} \/ table[k].set \in scope.sets
                            /\ scope.inactive \/ table[k].active}
      = {k \in DOMAIN table : /\ scope.domain # None => table[k].domain = scope.domain
                              /\ scope.sets # {} => table[k].set \in scope.sets
                              /\ ~scope.inactive => table[k].active}
  BY <1>1
<1> QED BY <1>2 DEF SharedOptions, ListOptions

\* Within a domain the unique keys make every option in scope its own label.
LEMMA LabelsAgree ==
    ASSUME NEW table, KeysUnique(table), NEW scope, scope.domain # None,
           NEW o \in ListOptions(table, scope)
    PROVE  LabelFor(ListOptions(table, scope), o.set, o.key) = o.label
<1> DEFINE options == ListOptions(table, scope)
           found == {p \in options : p.set = o.set /\ p.key = o.key}
<1>1. ASSUME NEW p \in found PROVE p = o
  <2>1. PICK i \in DOMAIN table : p = table[i] /\ table[i].domain = scope.domain
    BY DEF ListOptions
  <2>2. PICK k \in DOMAIN table : o = table[k] /\ table[k].domain = scope.domain
    BY DEF ListOptions
  <2>3. i = k
    BY <2>1, <2>2 DEF KeysUnique
  <2> QED BY <2>1, <2>2, <2>3
<1>2. o \in found
  OBVIOUS
<1>3. (CHOOSE p \in found : TRUE) \in found
  BY <1>2
<1>4. (CHOOSE p \in found : TRUE) = o
  BY <1>1, <1>3
<1> QED BY <1>2, <1>4 DEF LabelFor

\* What every step leaves: the requests outside S, and what is committed.
Quiet(S) ==
    /\ \A q \in DOMAIN Requests \ S :
         /\ at'[q] = at[q] /\ held'[q] = held[q]
         /\ since'[q] = since[q] /\ reply'[q] = reply[q]
    /\ \A q \in S : at[q] # "done"
    /\ Newest <= Newest' /\ \A n \in 1 .. Newest : tables'[n] = tables[n]
    /\ now <= now'
    /\ CacheTyped'

LEMMA DoneStays ==
    ASSUME NEW S, Quiet(S), NEW f \in DOMAIN Requests, at[f] = "done"
    PROVE  at'[f] = "done" /\ held'[f] = held[f] /\ reply'[f] = reply[f] /\ since'[f] = since[f]
BY DEF Quiet

LEMMA FetchedStays ==
    ASSUME NEW S, Quiet(S), NEW i, NEW table, NEW time, NEW age, Fetched(i, table, time, age)
    PROVE  \E f \in DOMAIN Requests :
               /\ at'[f] = "done" /\ Requests[f].kind = "read" /\ On(f) = i
               /\ held'[f] = table /\ time - reply'[f].time \in 0 .. age
<1>1. PICK f \in DOMAIN Requests :
          IsRead(f) /\ On(f) = i /\ held[f] = table /\ time - reply[f].time \in 0 .. age
  BY DEF Fetched
<1>2. at'[f] = "done" /\ held'[f] = held[f] /\ reply'[f] = reply[f]
  BY <1>1, DoneStays DEF IsRead
<1> QED BY <1>1, <1>2 DEF IsRead

LEMMA QuietRequest ==
    ASSUME CacheInv, NEW S, Quiet(S), NEW q \in DOMAIN Requests, q \notin S
    PROVE  RequestKept(q)' /\ ReadKept(q)' /\ SeesWrites(q)' /\ SeesCommits(q)'
<1>1. /\ at'[q] = at[q] /\ held'[q] = held[q] /\ since'[q] = since[q] /\ reply'[q] = reply[q]
      /\ Newest \in Nat \ {0} /\ Newest' \in Nat \ {0} /\ Newest <= Newest'
  BY DEF Quiet, CacheInv, CacheTyped
<1>2. RequestKept(q) /\ ReadKept(q) /\ SeesWrites(q) /\ SeesCommits(q)
  BY DEF CacheInv
<1>3. RequestKept(q)'
  <2>1. \A p \in DOMAIN Requests : at[p] = "done" => at'[p] = "done"
    BY DoneStays
  <2>2. held'[q] \in 0 .. Newest' /\ since'[q].table \in 1 .. Newest'
    BY <1>1, <1>2 DEF RequestKept
  <2>3. at'[q] \in {"fetched", "committed"} => held'[q] \in 1 .. Newest'
    BY <1>1, <1>2 DEF RequestKept
  <2> QED BY <1>1, <1>2, <2>1, <2>2, <2>3 DEF RequestKept
<1>4. ReadKept(q)'
  <2>1. SUFFICES ASSUME IsRead(q)
                 PROVE  /\ reply'[q].table \in 1 .. Newest'
                        /\ reply'[q].time \in Nat
                        /\ \/ held'[q] = reply'[q].table
                           \/ Fetched(On(q), reply[q].table, reply[q].time, Ttl - 1)'
                        /\ reply'[q].options =
                               SharedOptions(tables'[reply'[q].table], Requests[q].scope)
    BY <1>1 DEF ReadKept, IsRead
  <2>2. /\ reply[q].table \in 1 .. Newest
        /\ reply[q].time \in Nat
        /\ \/ held[q] = reply[q].table
           \/ Fetched(On(q), reply[q].table, reply[q].time, Ttl - 1)
        /\ reply[q].options = SharedOptions(tables[reply[q].table], Requests[q].scope)
    BY <1>2, <2>1 DEF ReadKept
  <2>3. tables'[reply[q].table] = tables[reply[q].table]
    BY <2>2 DEF Quiet
  <2>4. CASE Fetched(On(q), reply[q].table, reply[q].time, Ttl - 1)
    <3>1. \E f \in DOMAIN Requests :
               /\ at'[f] = "done" /\ Requests[f].kind = "read" /\ On(f) = On(q)
               /\ held'[f] = reply[q].table /\ reply[q].time - reply'[f].time \in 0 .. Ttl - 1
      BY <2>4, FetchedStays
    <3>2. Fetched(On(q), reply[q].table, reply[q].time, Ttl - 1)'
      BY <3>1, <1>1 DEF Fetched, IsRead, On
    <3> QED BY <3>2, <1>1, <2>2, <2>3
  <2> QED BY <1>1, <2>2, <2>3, <2>4
<1>5. SeesWrites(q)'
  <2> SUFFICES ASSUME at[q] = "done", Requests[q].kind = "read", NEW w \in since[q].after,
                      at'[w] = "done", Requests[w].kind = "write", On(q) = On(w),
                      reply'[w].during = {}
               PROVE  reply[q].table >= held'[w]
    BY <1>1 DEF SeesWrites, IsRead, IsWrite, On
  <2>1. w \in DOMAIN Requests /\ at[w] = "done"
    BY <1>2 DEF RequestKept
  <2>2. held'[w] = held[w] /\ reply'[w] = reply[w]
    BY <2>1, DoneStays
  <2> QED BY <1>2, <2>1, <2>2 DEF SeesWrites, IsRead, IsWrite
<1>6. SeesCommits(q)'
  BY <1>1, <1>2 DEF SeesCommits
<1> QED BY <1>3, <1>4, <1>5, <1>6

LEMMA QuietCache ==
    ASSUME CacheInv, NEW S, Quiet(S), NEW i \in DOMAIN cache, cache'[i] = cache[i]
    PROVE  CacheKept(i)'
<1> SUFFICES ASSUME cache[i] # None
             PROVE  /\ cache[i].at \in 0 .. now'
                    /\ cache[i].table \in 1 .. Newest'
                    /\ Fetched(i, cache[i].table, cache[i].at, 0)'
  BY DEF CacheKept
<1>1. /\ cache[i].at \in 0 .. now /\ cache[i].table \in 1 .. Newest
      /\ Fetched(i, cache[i].table, cache[i].at, 0)
  BY DEF CacheInv, CacheKept
<1>2. /\ now \in Nat /\ now' \in Nat /\ now <= now'
      /\ Newest \in Nat /\ Newest' \in Nat /\ Newest <= Newest'
  BY DEF CacheInv, CacheTyped, Quiet
<1>3. \E f \in DOMAIN Requests :
           /\ at'[f] = "done" /\ Requests[f].kind = "read" /\ On(f) = i
           /\ held'[f] = cache[i].table /\ cache[i].at - reply'[f].time \in 0 .. 0
  BY <1>1, FetchedStays
<1>4. Fetched(i, cache[i].table, cache[i].at, 0)'
  BY <1>3 DEF Fetched, IsRead, On
<1> QED BY <1>1, <1>2, <1>4

\* A write that cleared its instance stays ahead of what is fetched and stored there.
LEMMA QuietCleared ==
    ASSUME CacheInv, NEW S, Quiet(S), NEW w \in DOMAIN Requests, at'[w] = "done" => at[w] = "done",
           \A f \in DOMAIN Requests : at'[f] = "fetched" =>
               (at[f] = "fetched" /\ held'[f] = held[f]) \/ held'[f] = Newest,
           \/ cache'[On(w)] = cache[On(w)]
           \/ cache'[On(w)] = None
           \/ \E f \in Fetching(On(w)) : cache'[On(w)].table = held[f]
    PROVE  ClearedFor(w)'
<1> SUFFICES ASSUME at'[w] = "done", Requests[w].kind = "write", reply'[w].during = {}
             PROVE  /\ cache'[On(w)] # None => cache'[On(w)].table >= held'[w]
                    /\ \A f \in DOMAIN Requests :
                         On(f) = On(w) /\ at'[f] = "fetched" => held'[f] >= held'[w]
  BY DEF ClearedFor, IsWrite, Fetching, On
<1>1. at[w] = "done" /\ held'[w] = held[w] /\ reply'[w] = reply[w]
  BY DoneStays
<1>2. /\ cache[On(w)] # None => cache[On(w)].table >= held[w]
      /\ \A f \in Fetching(On(w)) : held[f] >= held[w]
  BY <1>1 DEF CacheInv, ClearedFor, IsWrite
<1>3. Newest >= held[w]
  BY DEF CacheInv, RequestKept, CacheTyped
<1>4. \A f \in DOMAIN Requests : On(f) = On(w) /\ at'[f] = "fetched" => held'[f] >= held[w]
  BY <1>2, <1>3 DEF Fetching
<1> QED BY <1>1, <1>2, <1>4

\* A step of one request that is no write's answer and leaves the caches alone.
LEMMA OneRequest ==
    ASSUME CacheInv, NEW r \in DOMAIN Requests, Quiet({r}), cache' = cache,
           at'[r] = "done" => Requests[r].kind # "write",
           at'[r] = "fetched" => held'[r] = Newest,
           RequestKept(r)', ReadKept(r)', SeesWrites(r)', SeesCommits(r)'
    PROVE  CacheInv'
<1>1. CacheTyped'
  BY DEF Quiet
<1>2. ASSUME NEW i \in DOMAIN cache PROVE CacheKept(i)'
  BY QuietCache
<1>3. ASSUME NEW q \in DOMAIN Requests
      PROVE  (RequestKept(q) /\ ReadKept(q) /\ SeesWrites(q) /\ SeesCommits(q))'
  <2>1. CASE q = r
    BY <2>1
  <2>2. CASE q # r
    BY <2>2, QuietRequest
  <2> QED BY <2>1, <2>2
<1>4. ASSUME NEW w \in DOMAIN Requests PROVE ClearedFor(w)'
  <2>1. CASE at'[w] = "done" /\ at[w] # "done"
    <3>1. w = r
      BY <2>1 DEF Quiet
    <3> QED BY <2>1, <3>1 DEF ClearedFor, IsWrite
  <2>2. CASE at'[w] = "done" => at[w] = "done"
    <3>1. \A f \in DOMAIN Requests : at'[f] = "fetched" =>
              (at[f] = "fetched" /\ held'[f] = held[f]) \/ held'[f] = Newest
      BY DEF Quiet
    <3> QED BY <2>2, <3>1, QuietCleared
  <2> QED BY <2>1, <2>2
<1> QED BY <1>1, <1>2, <1>3, <1>4 DEF CacheInv

\* A step of one request that commits nothing is quiet elsewhere.
LEMMA MovesQuietly ==
    ASSUME CacheInv, NEW r \in DOMAIN Requests, NEW from, NEW to, Moves(r, from, to),
           from # "done", UNCHANGED <<now, tables>>,
           DOMAIN held' = DOMAIN Requests, DOMAIN since' = DOMAIN Requests,
           DOMAIN reply' = DOMAIN Requests, DOMAIN cache' = DOMAIN cache,
           \A q \in DOMAIN Requests \ {r} :
               held'[q] = held[q] /\ since'[q] = since[q] /\ reply'[q] = reply[q]
    PROVE  Quiet({r}) /\ at[r] = from /\ at'[r] = to /\ Newest' = Newest
<1>1. at[r] = from /\ at' = [at EXCEPT ![r] = to] /\ DOMAIN at = DOMAIN Requests
  BY DEF Moves, CacheInv, CacheTyped
<1>2. Newest' = Newest /\ Newest \in Nat \ {0} /\ now \in Nat /\ now' = now /\ tables' = tables
  BY DEF Newest, CacheInv, CacheTyped
<1>3. CacheTyped'
  BY <1>1, <1>2 DEF CacheInv, CacheTyped
<1> QED BY <1>1, <1>2, <1>3 DEF Quiet

LEMMA CacheStart == RefInit => CacheInv
<1> SUFFICES ASSUME RefInit PROVE CacheInv
  OBVIOUS
<1>1. tables = <<Options>> /\ Newest = 1 /\ tables[1] = Options
  BY DEF RefInit, Newest
<1>2. PICK cast \in Casts : at = [r \in DOMAIN Requests |-> IF r \in cast THEN "new" ELSE "absent"]
  BY DEF RefInit
<1>3. CacheTyped
  <2>1. \A n \in 1 .. Newest : n = 1
    BY <1>1
  <2>2. tables \in Seq({tables[n] : n \in 1 .. Newest})
    <3>1. Options \in {tables[n] : n \in 1 .. Newest}
      BY <1>1
    <3> QED BY <1>1, <3>1
  <2>3. \A n \in 1 .. Newest : KeysUnique(tables[n])
    BY <1>1, <2>1, ReferenceAssumption
  <2> QED BY <1>1, <1>2, <2>2, <2>3 DEF RefInit, CacheTyped
<1>4. ASSUME NEW i \in DOMAIN cache PROVE CacheKept(i)
  BY DEF RefInit, CacheKept
<1>5. ASSUME NEW r \in DOMAIN Requests
      PROVE  RequestKept(r) /\ ReadKept(r) /\ ClearedFor(r) /\ SeesWrites(r) /\ SeesCommits(r)
  <2>1. at[r] \in {"new", "absent"}
    BY <1>2
  <2>2. held[r] = 0 /\ since[r].table = 1 /\ since[r].after = {}
    BY DEF RefInit
  <2> QED BY <1>1, <2>1, <2>2
      DEF RequestKept, ReadKept, ClearedFor, SeesWrites, SeesCommits, IsRead, IsWrite
<1> QED BY <1>3, <1>4, <1>5 DEF CacheInv

LEMMA BeginRequestInv ==
    ASSUME CacheInv, NEW r \in DOMAIN Requests, BeginRequest(r)
    PROVE  CacheInv'
<1> DEFINE began == [table |-> Newest, after |-> {q \in DOMAIN Requests : at[q] = "done"}]
<1>1. since' = [since EXCEPT ![r] = began] /\ UNCHANGED <<now, tables, cache, held, reply>>
  BY DEF BeginRequest
<1>2. DOMAIN since = DOMAIN Requests /\ Newest \in Nat \ {0}
  BY DEF CacheInv, CacheTyped
<1>3. Moves(r, "new", Requests[r].kind)
  BY DEF BeginRequest
<1>4. Quiet({r}) /\ at[r] = "new" /\ at'[r] = Requests[r].kind /\ Newest' = Newest
  BY <1>1, <1>2, <1>3, MovesQuietly DEF CacheInv, CacheTyped
<1>5. Requests[r].kind \in {"read", "write", "validate"}
  BY ReferenceAssumption
<1>6. RequestKept(r)'
  <2>1. since'[r].table = Newest /\ since'[r].after = {q \in DOMAIN Requests : at[q] = "done"}
    BY <1>1, <1>2
  <2>2. \A q \in DOMAIN Requests : at[q] = "done" => at'[q] = "done"
    BY <1>4, DoneStays
  <2>3. held'[r] \in 0 .. Newest
    BY <1>1 DEF CacheInv, RequestKept
  <2> QED BY <1>2, <1>4, <1>5, <2>1, <2>2, <2>3 DEF RequestKept
<1>7. (ReadKept(r) /\ SeesWrites(r) /\ SeesCommits(r))'
  BY <1>4, <1>5 DEF ReadKept, SeesWrites, SeesCommits, IsRead
<1> QED BY <1>1, <1>4, <1>5, <1>6, <1>7, OneRequest

LEMMA ReadCachedInv ==
    ASSUME CacheInv, NEW r \in DOMAIN Requests, ReadCached(r)
    PROVE  CacheInv'
<1> DEFINE entry == cache[On(r)]
           shown == [table |-> entry.table, time |-> now,
                     options |-> SharedOptions(tables[entry.table], Requests[r].scope)]
<1>1. /\ Moves(r, "read", "done") /\ UNCHANGED <<now, tables, cache, held, since>>
      /\ reply' = [reply EXCEPT ![r] = shown]
      /\ entry # None /\ now - entry.at < Ttl
  BY DEF ReadCached, Replies, Fresh
<1>2. DOMAIN reply = DOMAIN Requests /\ Newest \in Nat \ {0} /\ now \in Nat
  BY DEF CacheInv, CacheTyped
<1>3. Quiet({r}) /\ at[r] = "read" /\ at'[r] = "done" /\ Newest' = Newest
  BY <1>1, <1>2, MovesQuietly DEF CacheInv, CacheTyped
<1>4. RequestKept(r) /\ Requests[r].kind = "read"
  BY <1>3 DEF CacheInv, RequestKept
<1>5. /\ entry.at \in 0 .. now /\ entry.table \in 1 .. Newest
      /\ Fetched(On(r), entry.table, entry.at, 0)
  BY <1>1 DEF CacheInv, CacheTyped, CacheKept
<1>6. reply'[r] = shown
  BY <1>1, <1>2
<1>7. RequestKept(r)'
  <2>1. \A q \in DOMAIN Requests : at[q] = "done" => at'[q] = "done"
    BY <1>3, DoneStays
  <2> QED BY <1>1, <1>3, <1>4, <2>1 DEF RequestKept
<1>8. ReadKept(r)'
  <2>1. PICK f \in DOMAIN Requests :
             /\ at[f] = "done" /\ Requests[f].kind = "read" /\ On(f) = On(r)
             /\ held[f] = entry.table /\ entry.at - reply[f].time \in 0 .. 0
    BY <1>5 DEF Fetched, IsRead
  <2>2. at'[f] = "done" /\ held'[f] = held[f] /\ reply'[f] = reply[f]
    BY <1>3, <2>1, DoneStays
  <2>3. reply[f].time \in Nat
    BY <2>1 DEF CacheInv, ReadKept, IsRead
  <2>4. now - reply[f].time \in 0 .. Ttl - 1
    <3>1. entry.at = reply[f].time
      BY <2>1, <2>3, <1>5
    <3> QED BY <3>1, <1>1, <1>2, <1>5, ReferenceAssumption
  <2>5. reply'[r].table = entry.table /\ reply'[r].time = now
        /\ reply'[r].options = SharedOptions(tables[entry.table], Requests[r].scope)
    BY <1>6
  <2>6. Fetched(On(r), reply[r].table, reply[r].time, Ttl - 1)'
    BY <2>1, <2>2, <2>4, <2>5 DEF Fetched, IsRead, On
  <2>7. tables' = tables
    BY <1>1
  <2> QED BY <1>2, <1>3, <1>5, <2>5, <2>6, <2>7 DEF ReadKept
<1>9. SeesWrites(r)'
  <2> SUFFICES ASSUME NEW w \in since[r].after,
                      at'[w] = "done", Requests[w].kind = "write", On(r) = On(w),
                      reply'[w].during = {}
               PROVE  entry.table >= held[w]
    BY <1>1, <1>6 DEF SeesWrites, IsRead, IsWrite, On
  <2>1. w \in DOMAIN Requests /\ at[w] = "done"
    BY <1>4 DEF RequestKept
  <2>2. reply'[w] = reply[w]
    BY <1>3, <2>1, DoneStays
  <2>3. ClearedFor(w)
    BY <2>1 DEF CacheInv
  <2> QED BY <1>1, <2>1, <2>2, <2>3 DEF ClearedFor, IsWrite
<1>10. SeesCommits(r)'
  BY <1>4 DEF SeesCommits
<1> QED BY <1>1, <1>3, <1>4, <1>7, <1>8, <1>9, <1>10, OneRequest

LEMMA FetchTableInv ==
    ASSUME CacheInv, NEW r \in DOMAIN Requests, FetchTable(r)
    PROVE  CacheInv'
<1>1. /\ Moves(r, "read", "fetched") /\ held' = [held EXCEPT ![r] = Newest]
      /\ UNCHANGED <<now, tables, cache, since, reply>>
  BY DEF FetchTable
<1>2. DOMAIN held = DOMAIN Requests /\ Newest \in Nat \ {0}
  BY DEF CacheInv, CacheTyped
<1>3. Quiet({r}) /\ at[r] = "read" /\ at'[r] = "fetched" /\ Newest' = Newest
  BY <1>1, <1>2, MovesQuietly DEF CacheInv, CacheTyped
<1>4. RequestKept(r) /\ Requests[r].kind = "read"
  BY <1>3 DEF CacheInv, RequestKept
<1>5. held'[r] = Newest
  BY <1>1, <1>2
<1>6. RequestKept(r)'
  <2>1. \A q \in DOMAIN Requests : at[q] = "done" => at'[q] = "done"
    BY <1>3, DoneStays
  <2> QED BY <1>1, <1>2, <1>3, <1>4, <1>5, <2>1 DEF RequestKept
<1>7. (ReadKept(r) /\ SeesWrites(r) /\ SeesCommits(r))'
  BY <1>3 DEF ReadKept, SeesWrites, SeesCommits, IsRead
<1> QED BY <1>1, <1>3, <1>5, <1>6, <1>7, OneRequest

LEMMA StoreTableInv ==
    ASSUME CacheInv, NEW r \in DOMAIN Requests, StoreTable(r)
    PROVE  CacheInv'
<1> DEFINE shown == [table |-> held[r], time |-> now,
                     options |-> SharedOptions(tables[held[r]], Requests[r].scope)]
<1>1. /\ Moves(r, "fetched", "done") /\ UNCHANGED <<now, tables, held, since>>
      /\ reply' = [reply EXCEPT ![r] = shown]
      /\ cache' = [cache EXCEPT ![On(r)] = [at |-> now, table |-> held[r]]]
  BY DEF StoreTable, Replies
<1>2. /\ DOMAIN reply = DOMAIN Requests /\ Newest \in Nat \ {0} /\ now \in Nat
      /\ On(r) \in DOMAIN cache
  BY DEF CacheInv, CacheTyped
<1>3. Quiet({r}) /\ at[r] = "fetched" /\ at'[r] = "done" /\ Newest' = Newest
  BY <1>1, <1>2, MovesQuietly DEF CacheInv, CacheTyped
<1>4. RequestKept(r) /\ Requests[r].kind = "read" /\ held[r] \in 1 .. Newest
  BY <1>3 DEF CacheInv, RequestKept
<1>5. /\ reply'[r].table = held[r] /\ reply'[r].time = now
      /\ reply'[r].options = SharedOptions(tables[held[r]], Requests[r].scope)
      /\ cache'[On(r)].table = held[r] /\ cache'[On(r)].at = now
  BY <1>1, <1>2
<1>6. CacheTyped'
  BY <1>3 DEF Quiet
<1>7. ASSUME NEW i \in DOMAIN cache PROVE CacheKept(i)'
  <2>1. CASE i # On(r)
    <3>1. cache'[i] = cache[i]
      BY <1>1, <2>1
    <3> QED BY <1>3, <3>1, QuietCache
  <2>2. CASE i = On(r)
    <3>1. Fetched(i, cache[i].table, cache[i].at, 0)'
      BY <1>1, <1>2, <1>3, <1>4, <1>5, <2>2 DEF Fetched, IsRead, On
    <3> QED BY <1>1, <1>2, <1>3, <1>4, <1>5, <2>2, <3>1 DEF CacheKept
  <2> QED BY <2>1, <2>2
<1>8. RequestKept(r)'
  <2>1. \A q \in DOMAIN Requests : at[q] = "done" => at'[q] = "done"
    BY <1>3, DoneStays
  <2> QED BY <1>1, <1>3, <1>4, <2>1 DEF RequestKept
<1>9. ReadKept(r)'
  BY <1>1, <1>2, <1>3, <1>4, <1>5 DEF ReadKept
<1>10. SeesWrites(r)'
  <2> SUFFICES ASSUME NEW w \in since[r].after,
                      at'[w] = "done", Requests[w].kind = "write", On(r) = On(w),
                      reply'[w].during = {}
               PROVE  held[r] >= held[w]
    BY <1>1, <1>5 DEF SeesWrites, IsRead, IsWrite, On
  <2>1. w \in DOMAIN Requests /\ at[w] = "done"
    BY <1>4 DEF RequestKept
  <2>2. reply'[w] = reply[w]
    BY <1>3, <2>1, DoneStays
  <2>3. ClearedFor(w)
    BY <2>1 DEF CacheInv
  <2> QED BY <1>3, <2>1, <2>2, <2>3 DEF ClearedFor, IsWrite, Fetching
<1>11. SeesCommits(r)'
  BY <1>4 DEF SeesCommits
<1>12. ASSUME NEW q \in DOMAIN Requests
       PROVE  (RequestKept(q) /\ ReadKept(q) /\ SeesWrites(q) /\ SeesCommits(q))'
  <2>1. CASE q = r
    BY <2>1, <1>8, <1>9, <1>10, <1>11
  <2>2. CASE q # r
    BY <2>2, <1>3, QuietRequest
  <2> QED BY <2>1, <2>2
<1>13. ASSUME NEW w \in DOMAIN Requests PROVE ClearedFor(w)'
  <2>1. CASE w = r
    BY <1>4, <2>1 DEF ClearedFor, IsWrite
  <2>2. CASE w # r
    <3>1. at'[w] = "done" => at[w] = "done"
      BY <1>3, <2>2 DEF Quiet
    <3>2. \A f \in DOMAIN Requests : at'[f] = "fetched" =>
              (at[f] = "fetched" /\ held'[f] = held[f]) \/ held'[f] = Newest
      BY <1>1, <1>3 DEF Quiet
    <3>3. \/ cache'[On(w)] = cache[On(w)]
          \/ \E f \in Fetching(On(w)) : cache'[On(w)].table = held[f]
      BY <1>1, <1>2, <1>3, <1>5 DEF Fetching, CacheInv, CacheTyped
    <3> QED BY <1>3, <3>1, <3>2, <3>3, QuietCleared
  <2> QED BY <2>1, <2>2
<1>14. DOMAIN cache' = DOMAIN cache
  BY <1>1
<1> QED BY <1>6, <1>7, <1>12, <1>13, <1>14 DEF CacheInv

LEMMA ValidateTagsInv ==
    ASSUME CacheInv, NEW r \in DOMAIN Requests, ValidateTags(r)
    PROVE  CacheInv'
<1>1. /\ Moves(r, "validate", "done") /\ UNCHANGED <<now, tables, cache, held, since>>
      /\ reply' = [reply EXCEPT ![r] = [table |-> Newest, ok |-> Valid(tables[Newest], Requests[r])]]
  BY DEF ValidateTags, Replies
<1>2. DOMAIN reply = DOMAIN Requests /\ Newest \in Nat \ {0}
  BY DEF CacheInv, CacheTyped
<1>3. Quiet({r}) /\ at[r] = "validate" /\ at'[r] = "done" /\ Newest' = Newest
  BY <1>1, <1>2, MovesQuietly DEF CacheInv, CacheTyped
<1>4. RequestKept(r) /\ Requests[r].kind = "validate"
  BY <1>3 DEF CacheInv, RequestKept
<1>5. RequestKept(r)'
  <2>1. \A q \in DOMAIN Requests : at[q] = "done" => at'[q] = "done"
    BY <1>3, DoneStays
  <2> QED BY <1>1, <1>3, <1>4, <2>1 DEF RequestKept
<1>6. SeesCommits(r)'
  <2>1. reply'[r].table = Newest /\ since'[r].table = since[r].table
    BY <1>1, <1>2
  <2> QED BY <1>2, <1>4, <2>1 DEF SeesCommits, RequestKept
<1>7. (ReadKept(r) /\ SeesWrites(r))'
  BY <1>4 DEF ReadKept, SeesWrites, IsRead
<1> QED BY <1>1, <1>3, <1>4, <1>5, <1>6, <1>7, OneRequest

LEMMA WriteOptionInv ==
    ASSUME CacheInv, NEW r \in DOMAIN Requests, WriteOption(r)
    PROVE  CacheInv'
<1> DEFINE table == Written(tables[Newest], Requests[r].write)
<1>1. /\ KeysUnique(table)
      /\ Moves(r, "write", "committed")
      /\ tables' = Append(tables, table)
      /\ held' = [held EXCEPT ![r] = Newest + 1]
      /\ UNCHANGED <<now, cache, since, reply>>
  BY DEF WriteOption
<1> HIDE DEF table
<1>2. /\ Newest \in Nat \ {0} /\ tables \in Seq({tables[n] : n \in 1 .. Newest})
      /\ Newest = Len(tables) /\ DOMAIN held = DOMAIN Requests /\ now \in Nat
      /\ at[r] = "write" /\ at' = [at EXCEPT ![r] = "committed"] /\ DOMAIN at = DOMAIN Requests
  BY <1>1 DEF CacheInv, CacheTyped, Newest, Moves
<1>3. /\ Newest' = Newest + 1
      /\ \A n \in 1 .. Newest : tables'[n] = tables[n]
      /\ tables'[Newest + 1] = table
  BY <1>1, <1>2 DEF Newest
<1>4. tables' \in Seq({tables'[n] : n \in 1 .. Newest'})
  <2> DEFINE S == {tables'[n] : n \in 1 .. Newest + 1}
  <2>1. \A n \in 1 .. Newest : tables[n] \in S
    BY <1>2, <1>3
  <2>2. {tables[n] : n \in 1 .. Newest} \subseteq S
    BY <2>1
  <2>3. table \in S
    BY <1>2, <1>3
  <2> HIDE DEF S
  <2>4. tables \in Seq(S)
    BY <1>2, <2>2
  <2>5. tables' \in Seq(S)
    BY <1>1, <2>3, <2>4
  <2>6. S = {tables'[n] : n \in 1 .. Newest'}
    BY <1>3 DEF S
  <2> QED BY <2>5, <2>6
<1>5. CacheTyped'
  <2>1. \A n \in 1 .. Newest' : KeysUnique(tables'[n])
    <3>1. ASSUME NEW n \in 1 .. Newest' PROVE KeysUnique(tables'[n])
      <4>1. CASE n \in 1 .. Newest
        BY <4>1, <1>3 DEF CacheInv, CacheTyped
      <4>2. CASE n = Newest + 1
        BY <4>2, <1>1, <1>3
      <4> QED BY <4>1, <4>2, <1>2, <1>3
    <3> QED BY <3>1
  <2>2. /\ now' \in Nat /\ Newest' \in Nat \ {0}
        /\ DOMAIN cache' = {On(q) : q \in DOMAIN Requests}
        /\ DOMAIN at' = DOMAIN Requests /\ DOMAIN held' = DOMAIN Requests
        /\ DOMAIN since' = DOMAIN Requests /\ DOMAIN reply' = DOMAIN Requests
    BY <1>1, <1>2, <1>3 DEF CacheInv, CacheTyped
  <2> QED BY <1>4, <2>1, <2>2 DEF CacheTyped, On
<1>6. Quiet({r})
  BY <1>1, <1>2, <1>3, <1>5 DEF Quiet
<1>7. at'[r] = "committed" /\ RequestKept(r) /\ Requests[r].kind = "write"
  BY <1>2 DEF CacheInv, RequestKept
<1>8. RequestKept(r)'
  <2>1. \A q \in DOMAIN Requests : at[q] = "done" => at'[q] = "done"
    BY <1>6, DoneStays
  <2>2. held'[r] = Newest + 1
    BY <1>1, <1>2
  <2> QED BY <1>1, <1>2, <1>3, <1>7, <2>1, <2>2 DEF RequestKept
<1>9. (ReadKept(r) /\ SeesWrites(r) /\ SeesCommits(r))'
  BY <1>7 DEF ReadKept, SeesWrites, SeesCommits, IsRead
<1> QED BY <1>1, <1>6, <1>7, <1>8, <1>9, OneRequest

LEMMA RefuseOptionInv ==
    ASSUME CacheInv, NEW r \in DOMAIN Requests, RefuseOption(r)
    PROVE  CacheInv'
<1>1. Moves(r, "write", "refused") /\ UNCHANGED <<now, tables, cache, held, since, reply>>
  BY DEF RefuseOption
<1>2. Quiet({r}) /\ at[r] = "write" /\ at'[r] = "refused" /\ Newest' = Newest
  BY <1>1, MovesQuietly DEF CacheInv, CacheTyped
<1>3. RequestKept(r) /\ Requests[r].kind = "write"
  BY <1>2 DEF CacheInv, RequestKept
<1>4. RequestKept(r)'
  <2>1. \A q \in DOMAIN Requests : at[q] = "done" => at'[q] = "done"
    BY <1>2, DoneStays
  <2> QED BY <1>1, <1>2, <1>3, <2>1 DEF RequestKept
<1>5. (ReadKept(r) /\ SeesWrites(r) /\ SeesCommits(r))'
  BY <1>2 DEF ReadKept, SeesWrites, SeesCommits, IsRead
<1> QED BY <1>1, <1>2, <1>4, <1>5, OneRequest

LEMMA ClearCachesInv ==
    ASSUME CacheInv, NEW r \in DOMAIN Requests, ClearCaches(r)
    PROVE  CacheInv'
<1>1. /\ Moves(r, "committed", "done") /\ UNCHANGED <<now, tables, held, since>>
      /\ cache' = [cache EXCEPT ![On(r)] = None]
      /\ reply' = [reply EXCEPT ![r] = [table |-> held[r], during |-> Fetching(On(r))]]
  BY DEF ClearCaches, Replies
<1>2. DOMAIN reply = DOMAIN Requests /\ On(r) \in DOMAIN cache
  BY DEF CacheInv, CacheTyped
<1>3. Quiet({r}) /\ at[r] = "committed" /\ at'[r] = "done" /\ Newest' = Newest
  BY <1>1, <1>2, MovesQuietly DEF CacheInv, CacheTyped
<1>4. RequestKept(r) /\ Requests[r].kind = "write"
  BY <1>3 DEF CacheInv, RequestKept
<1>5. CacheTyped' /\ cache'[On(r)] = None /\ reply'[r].during = Fetching(On(r))
  BY <1>1, <1>2, <1>3 DEF Quiet
<1>6. ASSUME NEW i \in DOMAIN cache PROVE CacheKept(i)'
  <2>1. CASE i # On(r)
    <3>1. cache'[i] = cache[i]
      BY <1>1, <2>1
    <3> QED BY <1>3, <3>1, QuietCache
  <2>2. CASE i = On(r)
    BY <1>5, <2>2 DEF CacheKept
  <2> QED BY <2>1, <2>2
<1>7. RequestKept(r)'
  <2>1. \A q \in DOMAIN Requests : at[q] = "done" => at'[q] = "done"
    BY <1>3, DoneStays
  <2> QED BY <1>1, <1>3, <1>4, <2>1 DEF RequestKept
<1>8. ASSUME NEW q \in DOMAIN Requests
      PROVE  (RequestKept(q) /\ ReadKept(q) /\ SeesWrites(q) /\ SeesCommits(q))'
  <2>1. CASE q = r
    BY <2>1, <1>4, <1>7 DEF ReadKept, SeesWrites, SeesCommits, IsRead
  <2>2. CASE q # r
    BY <2>2, <1>3, QuietRequest
  <2> QED BY <2>1, <2>2
<1>9. \A f \in DOMAIN Requests : at'[f] = "fetched" => at[f] = "fetched" /\ held'[f] = held[f]
  BY <1>1, <1>3 DEF Quiet
<1>10. ASSUME NEW w \in DOMAIN Requests PROVE ClearedFor(w)'
  <2>1. CASE w = r
    <3>1. reply'[r].during = {} => Fetching(On(r))' = {}
      BY <1>5, <1>9 DEF Fetching, On
    <3> QED BY <2>1, <3>1, <1>5 DEF ClearedFor, On
  <2>2. CASE w # r
    <3>1. at'[w] = "done" => at[w] = "done"
      BY <1>3, <2>2 DEF Quiet
    <3>2. cache'[On(w)] = cache[On(w)] \/ cache'[On(w)] = None
      BY <1>1, <1>2 DEF CacheInv, CacheTyped
    <3> QED BY <1>3, <1>9, <3>1, <3>2, QuietCleared
  <2> QED BY <2>1, <2>2
<1>11. DOMAIN cache' = DOMAIN cache
  BY <1>1
<1> QED BY <1>5, <1>6, <1>8, <1>10, <1>11 DEF CacheInv

\* Time passes, or nothing happens.
LEMMA NoRequest ==
    ASSUME CacheInv, UNCHANGED <<tables, cache, at, held, since, reply>>,
           now' = now \/ now' = now + 1
    PROVE  CacheInv'
<1>1. Newest' = Newest /\ Newest \in Nat \ {0} /\ now \in Nat /\ now' \in Nat /\ now <= now'
  BY DEF Newest, CacheInv, CacheTyped
<1>2. CacheTyped'
  BY <1>1 DEF CacheInv, CacheTyped
<1>3. Quiet({})
  BY <1>1, <1>2 DEF Quiet
<1>4. ASSUME NEW i \in DOMAIN cache PROVE CacheKept(i)'
  BY <1>3, QuietCache
<1>5. ASSUME NEW q \in DOMAIN Requests
      PROVE  (RequestKept(q) /\ ReadKept(q) /\ SeesWrites(q) /\ SeesCommits(q))'
  BY <1>3, QuietRequest
<1>6. ASSUME NEW w \in DOMAIN Requests PROVE ClearedFor(w)'
  <2>1. \A f \in DOMAIN Requests : at'[f] = "fetched" => at[f] = "fetched" /\ held'[f] = held[f]
    OBVIOUS
  <2> QED BY <1>3, <2>1, QuietCleared
<1> QED BY <1>2, <1>4, <1>5, <1>6 DEF CacheInv

LEMMA CacheSteps == CacheInv /\ [RefNext]_refVars => CacheInv'
<1> SUFFICES ASSUME CacheInv, [RefNext]_refVars PROVE CacheInv'
  OBVIOUS
<1>1. CASE TickRef
  BY <1>1, NoRequest DEF TickRef
<1>2. CASE UNCHANGED refVars
  BY <1>2, NoRequest DEF refVars
<1>3. ASSUME NEW r \in DOMAIN Requests,
             \/ BeginRequest(r) \/ ReadCached(r) \/ FetchTable(r) \/ StoreTable(r)
             \/ ValidateTags(r) \/ WriteOption(r) \/ RefuseOption(r) \/ ClearCaches(r)
      PROVE  CacheInv'
  BY <1>3, BeginRequestInv, ReadCachedInv, FetchTableInv, StoreTableInv, ValidateTagsInv,
     WriteOptionInv, RefuseOptionInv, ClearCachesInv
<1> QED BY <1>1, <1>2, <1>3 DEF RefNext

\* However requests of the instances interleave, what a cache holds was fetched there by an
\* answered read, and nothing in an instance that a write cleared quietly is older than it.
THEOREM CacheInvariant == RefSpec => []CacheInv
  BY CacheStart, CacheSteps, PTL DEF RefSpec

\* The shared cache of options: nothing it answers is older than its time to live, a writer
\* reads its own write, validation reads the table, and filtering the cache is filtering the
\* table.
THEOREM CacheIsSafe == RefSpec => []CacheSafety
<1>1. CacheInv => CacheSafety
  <2> SUFFICES ASSUME CacheInv PROVE CacheSafety
    OBVIOUS
  <2>1. StaleAtMostTtl
    <3> SUFFICES ASSUME NEW r \in DOMAIN Requests, IsRead(r)
                 PROVE  \E f \in DOMAIN Requests :
                          /\ IsRead(f) /\ On(f) = On(r) /\ held[f] = reply[r].table
                          /\ f = r \/ reply[r].time - reply[f].time \in 0 .. Ttl - 1
      BY DEF StaleAtMostTtl
    <3>1. \/ held[r] = reply[r].table
          \/ Fetched(On(r), reply[r].table, reply[r].time, Ttl - 1)
      BY DEF CacheInv, ReadKept
    <3> QED BY <3>1 DEF Fetched
  <2>2. WriterSeesItsWrite /\ ValidationSeesCommits
    BY DEF CacheInv, WriterSeesItsWrite, ValidationSeesCommits
  <2>3. CacheFiltersAgree
    <3> SUFFICES ASSUME NEW r \in DOMAIN Requests, IsRead(r)
                 PROVE  LET same == ListOptions(tables[reply[r].table], Requests[r].scope)
                        IN  /\ reply[r].options = same
                            /\ Requests[r].scope.domain # None =>
                                 \A o \in same : LabelFor(reply[r].options, o.set, o.key) = o.label
      BY DEF CacheFiltersAgree
    <3>1. /\ reply[r].options = SharedOptions(tables[reply[r].table], Requests[r].scope)
          /\ reply[r].table \in 1 .. Newest
      BY DEF CacheInv, ReadKept
    <3>2. KeysUnique(tables[reply[r].table])
      BY <3>1 DEF CacheInv, CacheTyped
    <3>3. reply[r].options = ListOptions(tables[reply[r].table], Requests[r].scope)
      BY <3>1, FiltersAgree
    <3> QED BY <3>2, <3>3, LabelsAgree
  <2> QED BY <2>1, <2>2, <2>3 DEF CacheSafety
<1> QED BY <1>1, CacheInvariant, PTL

-----------------------------------------------------------------------------
\* Requests of users.

LEMMA LargestId ==
    ASSUME NEW T, IsFiniteSet(T), T \subseteq Nat, T # {}
    PROVE  Max(T) \in T /\ \A y \in T : y <= Max(T)
<1> DEFINE below(x) == {y \in T : y < x}
           rank == [x \in T |-> Cardinality(below(x)) + 1]
           n == Cardinality(T)
<1>1. n \in Nat \ {0} /\ IsFiniteSet(1 .. n) /\ Cardinality(1 .. n) = n
  <2>1. n \in Nat /\ n # 0
    BY FS_CardinalityType, FS_EmptySet
  <2> QED BY <2>1, FS_Interval
<1>2. ASSUME NEW x \in T
      PROVE  /\ IsFiniteSet(below(x)) /\ Cardinality(below(x)) \in Nat
             /\ Cardinality(below(x)) < n
  <2>1. below(x) \in SUBSET T /\ below(x) # T
    OBVIOUS
  <2>2. /\ IsFiniteSet(below(x)) /\ Cardinality(below(x)) <= n
        /\ Cardinality(below(x)) # n
    BY <2>1, FS_Subset
  <2> QED BY <1>1, <2>2, FS_CardinalityType
<1>3. ASSUME NEW x \in T, NEW y \in T, x < y
      PROVE  rank[x] < rank[y]
  <2>3. x \in Nat /\ y \in Nat /\ \A z \in T : z \in Nat
    OBVIOUS
  <2>4. \A z \in T : z < x => z < y
    BY <1>3, <2>3
  <2>5. x \in below(y) /\ x \notin below(x)
    BY <1>3, <2>3
  <2>1. below(x) \in SUBSET below(y) /\ below(x) # below(y)
    BY <2>4, <2>5
  <2>2. Cardinality(below(x)) <= Cardinality(below(y))
        /\ Cardinality(below(x)) # Cardinality(below(y))
    BY <1>2, <2>1, FS_Subset
  <2> HIDE DEF below
  <2> QED BY <1>2, <2>2
<1>4. rank \in [T -> 1 .. n]
  <2> HIDE DEF below, n
  <2> QED BY <1>1, <1>2
<1> HIDE DEF below, rank, n
<1>5. rank \in Injection(T, 1 .. n)
  BY <1>3, <1>4 DEF Injection, IsInjective
<1>6. rank \in Surjection(T, 1 .. n)
  BY <1>1, <1>5, FS_Injection DEF n
<1>7. PICK x \in T : rank[x] = n
  BY <1>1, <1>6 DEF Surjection
<1>8. \A y \in T : y <= x
  <2>1. ASSUME NEW y \in T, x < y PROVE FALSE
    <3>1. rank[x] < rank[y] /\ rank[y] \in 1 .. n
      BY <1>3, <1>4, <2>1
    <3> QED BY <1>1, <1>7, <3>1
  <2> QED BY <2>1
<1> QED BY <1>8 DEF Max

\* What a step does to a search is its user's doing, and a PATCH merges.
OwnStep ==
    \A v \in DOMAIN visit :
      visit'[v] # visit[v] =>
        /\ \A id \in SearchIds : searches'[id] # searches[id] =>
              \A row \in {searches[id], searches'[id]} \ {None} : row.user = visit[v].user
        /\ visit'[v].row \in Kept => searches[visit'[v].row].user = visit'[v].user

MergeStep ==
    \A v \in DOMAIN visit : Ask(v).op = "patch" /\ visit'[v].wrote # visit[v].wrote =>
      \A f \in {"name", "filters"} \ DOMAIN Ask(v).fields :
          searches'[visit[v].row][f] = searches[visit[v].row][f]

\* A request that stands like this has come with good credentials and tells what it wrote.
Sound(v, q) ==
    /\ ~ (q.at = "done" /\ q.reply = 401) =>
         /\ Ask(v).key # None => Ask(v).key \notin barred[v].keys
         /\ q.at # "user" => q.user \notin barred[v].users
    /\ q.at \notin {"refresh", "done"} => q.wrote = FALSE
    /\ q.at = "refresh" => q.wrote = TRUE
    /\ q.at = "expired" => Ask(v).op = "patch"
    /\ q.at = "done" =>
         /\ q.reply = 200 => q.wrote = TRUE
         /\ q.reply \in {401, 404, 409} => q.wrote = FALSE
         /\ q.reply = 500 => IF q.wrote = TRUE THEN q.row \notin Kept ELSE Ask(v).op = "patch"

LEMMA AccountStart == AccountInit => AccountInv
<1> SUFFICES ASSUME AccountInit PROVE AccountInv
  OBVIOUS
<1>1. AccountTyped
  BY AccountAssumption DEF AccountInit, AccountTyped, Kept
<1>2. NamesAreUnique
  BY AccountAssumption DEF AccountInit, NamesAreUnique, Clash, SameName, Kept
<1>3. ASSUME NEW v \in DOMAIN visit PROVE RowKept(v) /\ CredentialKept(v) /\ WriteKept(v)
  BY <1>3, AccountAssumption DEF AccountInit, RowKept, CredentialKept, Admitted, WriteKept, Kept
<1> QED BY <1>1, <1>2, <1>3 DEF AccountInv

\* A step of a request that writes no search.
LEMMA Answering ==
    ASSUME AccountInv, NEW v \in DOMAIN Visits, NEW q,
           visit' = [visit EXCEPT ![v] = q], DOMAIN q = DOMAIN visit[v],
           UNCHANGED <<searches, barred>>,
           revoked \subseteq revoked', removed \subseteq removed',
           visit[v].at \notin {"absent", "new"}, q.at \notin {"absent", "new", "key"},
           q.row \in Kept => searches[q.row].user = q.user,
           q.at = "write" => q.row \in SearchIds,
           q.wrote = visit[v].wrote,
           Sound(v, q)
    PROVE  AccountInv' /\ OwnStep /\ MergeStep
<1>1. /\ DOMAIN visit = DOMAIN Visits /\ DOMAIN visit' = DOMAIN visit
      /\ visit'[v] = q /\ \A w \in DOMAIN visit : w # v => visit'[w] = visit[w]
  BY DEF AccountInv, AccountTyped
<1>2. Kept' = Kept
  BY DEF Kept
<1>3. AccountTyped'
  BY <1>1, <1>2 DEF AccountInv, AccountTyped
<1>4. NamesAreUnique'
  BY <1>2 DEF AccountInv, NamesAreUnique, Clash, SameName
<1>5. ASSUME NEW w \in DOMAIN visit PROVE RowKept(w)' /\ CredentialKept(w)' /\ WriteKept(w)'
  <2>1. CASE w = v
    <3>1. RowKept(w)'
      BY <1>1, <1>2, <2>1 DEF RowKept
    <3>2. barred[v].keys \subseteq revoked /\ barred[v].users \subseteq removed
      BY <1>1 DEF AccountInv, CredentialKept
    <3>3. CredentialKept(w)'
      BY <1>1, <2>1, <3>2 DEF CredentialKept, Admitted, Sound
    <3>4. WriteKept(w)'
      BY <1>1, <1>2, <2>1 DEF WriteKept, Tells, Sound
    <3> QED BY <3>1, <3>3, <3>4
  <2>2. CASE w # v
    <3>1. RowKept(w) /\ CredentialKept(w) /\ WriteKept(w) /\ visit'[w] = visit[w]
      BY <1>1, <2>2 DEF AccountInv
    <3>2. RowKept(w)' /\ WriteKept(w)'
      BY <1>2, <3>1 DEF RowKept, WriteKept, Tells
    <3>3. CredentialKept(w)'
      BY <3>1 DEF CredentialKept, Admitted
    <3> QED BY <3>2, <3>3
  <2> QED BY <2>1, <2>2
<1>6. OwnStep
  BY <1>1 DEF OwnStep
<1>7. MergeStep
  BY <1>1 DEF MergeStep
<1> QED BY <1>1, <1>3, <1>4, <1>5, <1>6, <1>7 DEF AccountInv

LEMMA BeginInv ==
    ASSUME AccountInv, NEW v \in DOMAIN Visits, Begin(v)
    PROVE  AccountInv' /\ OwnStep /\ MergeStep
<1> DEFINE q == [visit[v] EXCEPT !.at = "key"]
<1>1. /\ DOMAIN visit = DOMAIN Visits /\ DOMAIN barred = DOMAIN Visits
      /\ DOMAIN visit[v] = {"at", "user", "row", "copy", "reply", "wrote"}
      /\ RowKept(v) /\ visit[v].row = None /\ visit[v].wrote = FALSE
  BY DEF AccountInv, AccountTyped, Begin, RowKept, WriteKept
<1>2. /\ DOMAIN visit' = DOMAIN visit
      /\ visit'[v] = q /\ \A w \in DOMAIN visit : w # v => visit'[w] = visit[w]
      /\ barred'[v].keys = revoked /\ barred'[v].users = removed
      /\ \A w \in DOMAIN visit : w # v => barred'[w] = barred[w]
      /\ DOMAIN barred' = DOMAIN barred
  BY <1>1 DEF Begin, Proceed
<1>3. q.at = "key" /\ q.row = None /\ q.wrote = visit[v].wrote /\ DOMAIN q = DOMAIN visit[v]
  BY <1>1
<1> HIDE DEF q
<1>4. UNCHANGED <<searches, revoked, removed>> /\ Kept' = Kept
  BY DEF Begin, Kept
<1>5. AccountTyped'
  BY <1>1, <1>2, <1>3, <1>4 DEF AccountInv, AccountTyped
<1>6. NamesAreUnique'
  BY <1>4 DEF AccountInv, NamesAreUnique, Clash, SameName
<1>7. ASSUME NEW w \in DOMAIN visit PROVE RowKept(w)' /\ CredentialKept(w)' /\ WriteKept(w)'
  <2>1. CASE w = v
    <3>1. RowKept(w)'
      BY <1>2, <1>3, <1>4, <2>1, AccountAssumption DEF RowKept, Kept
    <3>2. CredentialKept(w)'
      BY <1>2, <1>3, <1>4, <2>1 DEF CredentialKept, Admitted
    <3>3. WriteKept(w)'
      BY <1>1, <1>2, <1>3, <2>1 DEF WriteKept
    <3> QED BY <3>1, <3>2, <3>3
  <2>2. CASE w # v
    <3>1. /\ RowKept(w) /\ CredentialKept(w) /\ WriteKept(w)
          /\ visit'[w] = visit[w] /\ barred'[w] = barred[w]
      BY <1>2, <2>2 DEF AccountInv
    <3>2. RowKept(w)' /\ WriteKept(w)'
      BY <1>4, <3>1 DEF RowKept, WriteKept, Tells
    <3>3. CredentialKept(w)'
      BY <1>4, <3>1 DEF CredentialKept, Admitted
    <3> QED BY <3>2, <3>3
  <2> QED BY <2>1, <2>2
<1>8. OwnStep
  BY <1>2, <1>3, <1>4, AccountAssumption DEF OwnStep, Kept
<1>9. MergeStep
  BY <1>2, <1>3 DEF MergeStep
<1> QED BY <1>2, <1>5, <1>6, <1>7, <1>8, <1>9 DEF AccountInv

LEMMA VisitKnown ==
    ASSUME AccountInv, NEW v \in DOMAIN Visits
    PROVE  /\ v \in DOMAIN visit /\ RowKept(v) /\ CredentialKept(v) /\ WriteKept(v)
           /\ DOMAIN visit[v] = {"at", "user", "row", "copy", "reply", "wrote"}
BY DEF AccountInv, AccountTyped

\* A request gets past its key only while nobody has revoked it.
LEMMA ResolveKeyInv ==
    ASSUME AccountInv, NEW v \in DOMAIN Visits, ResolveKey(v)
    PROVE  AccountInv' /\ OwnStep /\ MergeStep
<1>1. /\ v \in DOMAIN visit /\ RowKept(v) /\ CredentialKept(v) /\ WriteKept(v)
      /\ DOMAIN visit[v] = {"at", "user", "row", "copy", "reply", "wrote"}
  BY VisitKnown
<1>2. /\ visit[v].at = "key" /\ visit[v].row = None /\ visit[v].wrote = FALSE
      /\ barred[v].keys \subseteq revoked
      /\ UNCHANGED <<searches, revoked, removed, barred>>
  BY <1>1 DEF ResolveKey, RowKept, CredentialKept, WriteKept
<1>3. CASE Ask(v).key # None /\ ~ActiveKey(Ask(v).key)
  <2> DEFINE q == [visit[v] EXCEPT !.at = "done", !.reply = 401]
  <2>1. visit' = [visit EXCEPT ![v] = q]
    BY <1>1, <1>3 DEF ResolveKey, Reply
  <2>2. /\ DOMAIN q = DOMAIN visit[v] /\ q.at = "done" /\ q.reply = 401
        /\ q.row = None /\ q.wrote = visit[v].wrote
    BY <1>1, <1>2
  <2>3. q.row \notin Kept
    BY <2>2, AccountAssumption DEF Kept
  <2> HIDE DEF q
  <2>4. Sound(v, q)
    BY <1>2, <2>2 DEF Sound
  <2> QED BY <1>2, <2>1, <2>2, <2>3, <2>4, Answering
<1>4. CASE ~(Ask(v).key # None /\ ~ActiveKey(Ask(v).key))
  <2>1. PICK owner : visit' = [visit EXCEPT ![v].at = "user", ![v].user = owner]
    BY <1>4 DEF ResolveKey
  <2> DEFINE q == [visit[v] EXCEPT !.at = "user", !.user = owner]
  <2>2. visit' = [visit EXCEPT ![v] = q]
    BY <1>1, <2>1
  <2>3. /\ DOMAIN q = DOMAIN visit[v] /\ q.at = "user"
        /\ q.row = None /\ q.wrote = visit[v].wrote
    BY <1>1, <1>2
  <2>5. q.row \notin Kept
    BY <2>3, AccountAssumption DEF Kept
  <2> HIDE DEF q
  <2>4. Sound(v, q)
    BY <1>2, <1>4, <2>3 DEF ActiveKey, Sound
  <2> QED BY <1>2, <2>2, <2>3, <2>4, <2>5, Answering
<1> QED BY <1>3, <1>4

\* A request that only moves on, or ends.
LEMMA MovingOn ==
    ASSUME AccountInv, NEW v \in DOMAIN Visits, NEW place,
           visit' = [visit EXCEPT ![v].at = place],
           visit[v].at \notin {"absent", "new", "key", "refresh", "done"},
           place \notin {"absent", "new", "key", "user", "write", "refresh", "done"},
           visit[v].at = "user" => visit[v].user \notin barred[v].users,
           place = "expired" => Ask(v).op = "patch",
           UNCHANGED <<searches, barred>>, revoked \subseteq revoked', removed \subseteq removed'
    PROVE  AccountInv' /\ OwnStep /\ MergeStep
<1>1. /\ v \in DOMAIN visit /\ RowKept(v) /\ CredentialKept(v) /\ WriteKept(v)
      /\ DOMAIN visit[v] = {"at", "user", "row", "copy", "reply", "wrote"}
  BY VisitKnown
<1>2. visit[v].row \in Kept => searches[visit[v].row].user = visit[v].user
  BY <1>1 DEF RowKept
<1>3. /\ Ask(v).key # None => Ask(v).key \notin barred[v].keys
      /\ visit[v].user \notin barred[v].users /\ visit[v].wrote = FALSE
  BY <1>1 DEF CredentialKept, Admitted, WriteKept
<1> DEFINE q == [visit[v] EXCEPT !.at = place]
<1>4. visit' = [visit EXCEPT ![v] = q]
  BY <1>1
<1>5. /\ DOMAIN q = DOMAIN visit[v] /\ q.at = place /\ q.row = visit[v].row
      /\ q.user = visit[v].user /\ q.wrote = visit[v].wrote
  BY <1>1
<1>6. q.row \in Kept => searches[q.row].user = q.user
  BY <1>2, <1>5
<1>7. /\ q.at \notin {"absent", "new", "key"} /\ q.wrote = visit[v].wrote
      /\ DOMAIN q = DOMAIN visit[v] /\ q.at # "write"
  BY <1>5
<1> HIDE DEF q
<1>8. Sound(v, q)
  BY <1>3, <1>5 DEF Sound
<1> QED BY <1>4, <1>6, <1>7, <1>8, Answering

\* The answers a request may end with where it stands.
MayEnd(v, code) ==
    /\ visit[v].at = "user" => code = 401
    /\ code = 200 => visit[v].at = "refresh"
    /\ code \in {401, 404, 409} => visit[v].at # "refresh"
    /\ code = 500 => IF visit[v].at = "refresh" THEN visit[v].row \notin Kept
                     ELSE Ask(v).op = "patch"

LEMMA Ending ==
    ASSUME AccountInv, NEW v \in DOMAIN Visits, NEW code,
           Reply(v, code),
           visit[v].at \notin {"absent", "new", "key", "done"},
           MayEnd(v, code),
           UNCHANGED <<searches, barred>>, revoked \subseteq revoked', removed \subseteq removed'
    PROVE  AccountInv' /\ OwnStep /\ MergeStep
<1>1. /\ v \in DOMAIN visit /\ RowKept(v) /\ CredentialKept(v) /\ WriteKept(v)
      /\ DOMAIN visit[v] = {"at", "user", "row", "copy", "reply", "wrote"}
  BY VisitKnown
<1>2. visit[v].row \in Kept => searches[visit[v].row].user = visit[v].user
  BY <1>1 DEF RowKept
<1>3. /\ code # 401 => /\ Ask(v).key # None => Ask(v).key \notin barred[v].keys
                       /\ visit[v].user \notin barred[v].users
      /\ IF visit[v].at = "refresh" THEN visit[v].wrote = TRUE ELSE visit[v].wrote = FALSE
  BY <1>1 DEF CredentialKept, Admitted, WriteKept, MayEnd
<1> DEFINE q == [visit[v] EXCEPT !.at = "done", !.reply = code]
<1>4. visit' = [visit EXCEPT ![v] = q]
  BY <1>1 DEF Reply
<1>5. /\ DOMAIN q = DOMAIN visit[v] /\ q.at = "done" /\ q.reply = code /\ q.row = visit[v].row
      /\ q.user = visit[v].user /\ q.wrote = visit[v].wrote
  <2>1. DOMAIN visit[v] = {"at", "user", "row", "copy", "reply", "wrote"}
    BY <1>1
  <2> QED BY ONLY <2>1 DEF q
<1>6. q.row \in Kept => searches[q.row].user = q.user
  BY <1>2, <1>5
<1>7. /\ q.at \notin {"absent", "new", "key"} /\ q.wrote = visit[v].wrote
      /\ DOMAIN q = DOMAIN visit[v] /\ q.at # "write"
  BY <1>5
<1> HIDE DEF q
<1>8. Sound(v, q)
  BY <1>2, <1>3, <1>5 DEF Sound, MayEnd
<1> QED BY <1>4, <1>6, <1>7, <1>8, Answering

LEMMA ResolveUserInv ==
    ASSUME AccountInv, NEW v \in DOMAIN Visits, ResolveUser(v)
    PROVE  AccountInv' /\ OwnStep /\ MergeStep
<1>1. visit[v].at = "user" /\ UNCHANGED <<searches, revoked, removed, barred>>
  BY DEF ResolveUser
<1>2. CASE IsRemoved(visit[v].user)
  <2>1. Reply(v, 401)
    BY <1>2 DEF ResolveUser
  <2>2. MayEnd(v, 401)
    BY <1>1 DEF MayEnd
  <2> QED BY <1>1, <2>1, <2>2, Ending
<1>3. CASE ~IsRemoved(visit[v].user)
  <2>1. visit[v].user \notin barred[v].users
    BY <1>1, <1>3, VisitKnown DEF CredentialKept, IsRemoved
  <2>2. visit' = [visit EXCEPT ![v].at = "op"]
    BY <1>3 DEF ResolveUser, Proceed
  <2> QED BY <1>1, <2>1, <2>2, MovingOn
<1> QED BY <1>2, <1>3

LEMMA LoseRowInv ==
    ASSUME AccountInv, NEW v \in DOMAIN Visits, LoseRow(v)
    PROVE  AccountInv' /\ OwnStep /\ MergeStep
<1>1. /\ visit[v].at = "expired" /\ UNCHANGED <<searches, revoked, removed, barred>>
      /\ Reply(v, 500) /\ Ask(v).op = "patch"
  BY VisitKnown DEF LoseRow, WriteKept
<1>2. MayEnd(v, 500)
  BY <1>1 DEF MayEnd
<1> QED BY <1>1, <1>2, Ending

LEMMA RefreshSearchInv ==
    ASSUME AccountInv, NEW v \in DOMAIN Visits, RefreshSearch(v)
    PROVE  AccountInv' /\ OwnStep /\ MergeStep
<1>1. visit[v].at = "refresh" /\ UNCHANGED <<searches, revoked, removed, barred>>
  BY DEF RefreshSearch
<1>2. CASE visit[v].row \in Kept
  <2>1. Reply(v, 200) /\ MayEnd(v, 200)
    BY <1>1, <1>2 DEF RefreshSearch, MayEnd
  <2> QED BY <1>1, <2>1, Ending
<1>3. CASE visit[v].row \notin Kept
  <2>1. Reply(v, 500) /\ MayEnd(v, 500)
    BY <1>1, <1>3 DEF RefreshSearch, MayEnd
  <2> QED BY <1>1, <2>1, Ending
<1> QED BY <1>2, <1>3

LEMMA RevokeKeyInv ==
    ASSUME AccountInv, NEW v \in DOMAIN Visits, RevokeKey(v)
    PROVE  AccountInv' /\ OwnStep /\ MergeStep
<1>1. visit[v].at = "op" /\ UNCHANGED <<searches, removed, barred>>
  BY DEF RevokeKey, AtOp
<1>2. PICK code \in {204, 404} : Reply(v, code)
  BY DEF RevokeKey
<1>3. revoked \subseteq revoked'
  BY DEF RevokeKey
<1>4. MayEnd(v, code)
  BY <1>1, <1>2 DEF MayEnd
<1> QED BY <1>1, <1>2, <1>3, <1>4, Ending

\* The name is looked up among the searches of the request's own user.
LEMMA NameHolderInv ==
    ASSUME AccountInv, NEW v \in DOMAIN Visits, NameHolder(v)
    PROVE  AccountInv' /\ OwnStep /\ MergeStep
<1>1. /\ v \in DOMAIN visit /\ CredentialKept(v) /\ WriteKept(v)
      /\ DOMAIN visit[v] = {"at", "user", "row", "copy", "reply", "wrote"}
  BY VisitKnown
<1> DEFINE sought == [user |-> visit[v].user, resource |-> Ask(v).fields.resource,
                      name |-> Ask(v).fields.name]
           holders == SameName(sought)
           row == IF holders = {} THEN None ELSE CHOOSE id \in holders : TRUE
           q == [visit[v] EXCEPT !.at = "done", !.reply = 409, !.row = row]
<1>2. /\ visit[v].at = "clash" /\ UNCHANGED <<searches, revoked, removed, barred>>
      /\ visit' = [visit EXCEPT ![v].at = "done", ![v].reply = 409, ![v].row = row]
  BY DEF NameHolder
<1>3. row \in Kept => searches[row].user = visit[v].user
  <2>1. holders = {} => row \notin Kept
    BY AccountAssumption DEF Kept
  <2>2. holders # {} => row \in holders
    OBVIOUS
  <2>3. \A id \in holders : searches[id].user = visit[v].user
    BY DEF SameName
  <2> QED BY <2>1, <2>2, <2>3
<1> HIDE DEF row
<1>6. visit' = [visit EXCEPT ![v] = q]
  <2>1. v \in DOMAIN visit
    BY <1>1
  <2>2. visit' = [visit EXCEPT ![v].at = "done", ![v].reply = 409, ![v].row = row]
    BY <1>2
  <2> QED BY ONLY <2>1, <2>2, ZenonT(60) DEF q
<1>4. /\ DOMAIN q = DOMAIN visit[v] /\ q.at = "done" /\ q.reply = 409 /\ q.row = row
      /\ q.user = visit[v].user /\ q.wrote = visit[v].wrote
  BY <1>1
<1>5. /\ Ask(v).key # None => Ask(v).key \notin barred[v].keys
      /\ visit[v].user \notin barred[v].users /\ visit[v].wrote = FALSE
  BY <1>1, <1>2 DEF CredentialKept, Admitted, WriteKept
<1> HIDE DEF q
<1>7. q.row \in Kept => searches[q.row].user = q.user
  BY <1>3, <1>4
<1>8. /\ q.at \notin {"absent", "new", "key"} /\ q.wrote = visit[v].wrote
      /\ DOMAIN q = DOMAIN visit[v] /\ q.at # "write"
  BY <1>4
<1>9. Sound(v, q)
  BY <1>4, <1>5 DEF Sound
<1> QED BY <1>2, <1>6, <1>7, <1>8, <1>9, Answering

LEMMA LoadSearchInv ==
    ASSUME AccountInv, NEW v \in DOMAIN Visits, LoadSearch(v)
    PROVE  AccountInv' /\ OwnStep /\ MergeStep
<1>1. /\ v \in DOMAIN visit /\ CredentialKept(v) /\ WriteKept(v)
      /\ DOMAIN visit[v] = {"at", "user", "row", "copy", "reply", "wrote"}
  BY VisitKnown
<1>2. visit[v].at = "op" /\ UNCHANGED <<searches, revoked, removed, barred>>
  BY DEF LoadSearch, AtOp
<1>3. CASE Owned(Ask(v).on, visit[v].user)
  <2> DEFINE q == [visit[v] EXCEPT !.at = "write", !.row = Ask(v).on,
                                   !.copy = searches[Ask(v).on]]
  <2>1. visit' = [visit EXCEPT ![v] = q]
    BY <1>1, <1>3 DEF LoadSearch
  <2>2. /\ DOMAIN q = DOMAIN visit[v] /\ q.at = "write" /\ q.row = Ask(v).on
        /\ q.user = visit[v].user /\ q.wrote = visit[v].wrote
    BY <1>1
  <2>3. /\ Ask(v).key # None => Ask(v).key \notin barred[v].keys
        /\ visit[v].user \notin barred[v].users /\ visit[v].wrote = FALSE
    BY <1>1, <1>2 DEF CredentialKept, Admitted, WriteKept
  <2>4. Ask(v).on \in SearchIds /\ searches[Ask(v).on].user = visit[v].user
    BY <1>3 DEF Owned, Kept
  <2> HIDE DEF q
  <2>5. Sound(v, q)
    BY <2>2, <2>3 DEF Sound
  <2> QED BY <1>2, <2>1, <2>2, <2>4, <2>5, Answering
<1>4. CASE ~Owned(Ask(v).on, visit[v].user)
  <2>1. Reply(v, 404)
    BY <1>4 DEF LoadSearch
  <2>2. MayEnd(v, 404)
    BY <1>2 DEF MayEnd
  <2> QED BY <1>2, <2>1, <2>2, Ending
<1> QED BY <1>3, <1>4

\* A request that writes a search of its user, under a name nobody else has.
LEMMA Writing ==
    ASSUME AccountInv, NEW v \in DOMAIN Visits, NEW q, NEW id \in SearchIds, NEW row,
           visit' = [visit EXCEPT ![v] = q], searches' = [searches EXCEPT ![id] = row],
           UNCHANGED <<revoked, removed, barred>>,
           visit[v].at \notin {"absent", "new", "key", "done"},
           q.at \notin {"absent", "new", "key", "write"}, DOMAIN q = DOMAIN visit[v],
           q.user = visit[v].user, q.row = id, Sound(v, q), q.at = "done" => q.reply = 204,
           id \in Kept => searches[id].user = visit[v].user,
           row # None => /\ row.user = visit[v].user /\ DOMAIN row = SearchFields
                         /\ SameName(row) \ {id} = {}
                         /\ \A w \in DOMAIN visit : w # v /\ visit[w].row = id => id \in Kept,
           Ask(v).op = "patch" =>
              /\ id = visit[v].row
              /\ \A f \in {"name", "filters"} \ DOMAIN Ask(v).fields : row[f] = searches[id][f]
    PROVE  AccountInv' /\ OwnStep /\ MergeStep
<1>1. /\ DOMAIN visit = DOMAIN Visits /\ DOMAIN visit' = DOMAIN visit
      /\ visit'[v] = q /\ \A w \in DOMAIN visit : w # v => visit'[w] = visit[w]
      /\ RowKept(v) /\ CredentialKept(v) /\ WriteKept(v)
  BY DEF AccountInv, AccountTyped
<1>2. /\ DOMAIN searches' = SearchIds /\ searches'[id] = row
      /\ \A i \in SearchIds : i # id => searches'[i] = searches[i]
  BY DEF AccountInv, AccountTyped
<1>3. /\ id \in Kept' <=> row # None
      /\ \A i \in SearchIds : i # id => (i \in Kept' <=> i \in Kept)
      /\ Kept \subseteq SearchIds /\ Kept' \subseteq SearchIds
  BY <1>2 DEF Kept
<1>4. AccountTyped'
  BY <1>1, <1>2, <1>3 DEF AccountInv, AccountTyped
<1>5. NamesAreUnique'
  <2>1. ASSUME NEW i \in Kept', NEW k \in Kept',
               searches'[k].user = searches'[i].user,
               searches'[k].resource = searches'[i].resource,
               searches'[k].name = searches'[i].name
        PROVE  i = k
    <3>1. CASE i # id /\ k # id
      <4>1. i \in Kept /\ k \in Kept /\ searches'[i] = searches[i] /\ searches'[k] = searches[k]
        BY <1>2, <1>3, <3>1
      <4>2. k \in SameName(searches[i]) /\ SameName(searches[i]) = {i}
        BY <2>1, <4>1 DEF SameName, AccountInv, NamesAreUnique
      <4> QED BY <4>2
    <3>2. CASE i = id /\ k # id
      <4>1. k \in SameName(row) \ {id}
        BY <1>2, <1>3, <2>1, <3>2 DEF SameName
      <4> QED BY <1>3, <3>2, <4>1
    <3>3. CASE i # id /\ k = id
      <4>1. i \in SameName(row) \ {id}
        BY <1>2, <1>3, <2>1, <3>3 DEF SameName
      <4> QED BY <1>3, <3>3, <4>1
    <3> QED BY <3>1, <3>2, <3>3
  <2> QED BY <2>1 DEF NamesAreUnique, Clash, SameName
<1>6. ASSUME NEW w \in DOMAIN visit PROVE RowKept(w)' /\ CredentialKept(w)' /\ WriteKept(w)'
  <2>1. CASE w = v
    <3>1. RowKept(w)'
      BY <1>1, <1>2, <1>3, <2>1 DEF RowKept
    <3>2. barred[v].keys \subseteq revoked /\ barred[v].users \subseteq removed
      BY <1>1 DEF CredentialKept
    <3>3. CredentialKept(w)'
      BY <1>1, <2>1, <3>2 DEF CredentialKept, Admitted, Sound
    <3>4. WriteKept(w)'
      BY <1>1, <2>1 DEF WriteKept, Tells, Sound
    <3> QED BY <3>1, <3>3, <3>4
  <2>2. CASE w # v
    <3>1. RowKept(w) /\ CredentialKept(w) /\ WriteKept(w) /\ visit'[w] = visit[w]
      BY <1>1, <2>2 DEF AccountInv
    <3>2. RowKept(w)'
      <4>1. CASE visit[w].row = id
        BY <1>2, <1>3, <2>2, <3>1, <4>1 DEF RowKept
      <4>2. CASE visit[w].row # id
        BY <1>2, <1>3, <3>1, <4>2 DEF RowKept
      <4> QED BY <4>1, <4>2
    <3>3. CredentialKept(w)'
      BY <3>1 DEF CredentialKept, Admitted
    <3>4. visit[w].row \notin Kept => visit[w].row \notin Kept'
      BY <1>1, <1>3, <2>2
    <3>5. WriteKept(w)'
      BY <3>1, <3>4 DEF WriteKept, Tells
    <3> QED BY <3>2, <3>3, <3>5
  <2> QED BY <2>1, <2>2
<1>7. OwnStep
  <2>1. ASSUME NEW i \in SearchIds, searches'[i] # searches[i],
               NEW other \in {searches[i], searches'[i]} \ {None}
        PROVE  other.user = visit[v].user
    <3>1. i = id
      BY <1>2, <2>1
    <3>2. CASE other = row
      BY <2>1, <3>2
    <3>3. CASE other = searches[id]
      <4>1. id \in Kept
        BY <2>1, <3>3 DEF Kept
      <4> QED BY <3>3, <4>1
    <3> QED BY <1>2, <2>1, <3>1, <3>2, <3>3
  <2>2. q.row \in Kept => searches[q.row].user = q.user
    OBVIOUS
  <2> QED BY <1>1, <2>1, <2>2 DEF OwnStep
<1>8. MergeStep
  BY <1>1, <1>2 DEF MergeStep
<1> QED BY <1>1, <1>4, <1>5, <1>6, <1>7, <1>8 DEF AccountInv

\* A new search takes an id that nothing refers to.
LEMMA CreateSearchInv ==
    ASSUME AccountInv, NEW v \in DOMAIN Visits, CreateSearch(v)
    PROVE  AccountInv' /\ OwnStep /\ MergeStep
<1>1. /\ v \in DOMAIN visit
      /\ DOMAIN visit[v] = {"at", "user", "row", "copy", "reply", "wrote"}
  BY VisitKnown
<1> DEFINE row == [user |-> visit[v].user, resource |-> Ask(v).fields.resource,
                   name |-> Ask(v).fields.name, filters |-> Ask(v).fields.filters]
           taken == {k \in SearchIds : k \in Kept \/ \E w \in DOMAIN visit : visit[w].row = k}
           id == Max({0} \cup taken) + 1
           q == [visit[v] EXCEPT !.at = "refresh", !.row = id, !.wrote = TRUE]
<1>2. /\ visit[v].at = "op" /\ Ask(v).op = "create"
      /\ UNCHANGED <<revoked, removed, barred>>
  BY DEF CreateSearch, AtOp
<1>3. CASE Clash(id, row)
  <2>1. PICK place \in {"clash"} :
           UNCHANGED searches /\ visit' = [visit EXCEPT ![v].at = place]
    BY <1>2, <1>3 DEF CreateSearch, Proceed, AfterClash
  <2>3. place \notin {"absent", "new", "key", "user", "write", "expired", "refresh", "done"}
    OBVIOUS
  <2>2. UNCHANGED <<searches, revoked, removed, barred>>
    BY <1>2, <2>1
  <2> HIDE DEF row, taken, id, q
  <2> QED BY <1>2, <2>1, <2>2, <2>3, MovingOn
<1>4. CASE ~Clash(id, row)
  <2>1. /\ id \in SearchIds /\ searches' = [searches EXCEPT ![id] = row]
        /\ visit' = [visit EXCEPT ![v] = q]
    BY <1>1, <1>4 DEF CreateSearch
  <2>2. id \notin {0} \cup taken
    <3>1. IsFiniteSet({0} \cup taken) /\ {0} \cup taken \subseteq Nat
      <4>1. taken \in SUBSET SearchIds /\ IsFiniteSet(SearchIds) /\ SearchIds \subseteq Nat
        BY AccountAssumption
      <4> HIDE DEF taken
      <4>2. IsFiniteSet(taken)
        BY <4>1, FS_Subset
      <4>3. IsFiniteSet(taken \cup {0}) /\ {0} \cup taken = taken \cup {0}
        BY <4>2, FS_AddElement
      <4> QED BY <4>1, <4>3
    <3>2. \A k \in {0} \cup taken : k <= Max({0} \cup taken)
      BY <3>1, LargestId
    <3>3. Max({0} \cup taken) \in Nat
      BY <3>1, LargestId
    <3> QED BY <3>1, <3>2, <3>3
  <2>3. id \notin Kept /\ \A w \in DOMAIN visit : visit[w].row # id
    BY <2>1, <2>2
  <2> HIDE DEF taken, id
  <2>4. /\ row.user = visit[v].user /\ DOMAIN row = SearchFields
        /\ SameName(row) \ {id} = {}
    BY <1>4 DEF Clash, SearchFields
  <2>5. /\ DOMAIN q = DOMAIN visit[v] /\ q.at = "refresh" /\ q.row = id
        /\ q.user = visit[v].user /\ q.wrote = TRUE
    BY <1>1
  <2> HIDE DEF row, q
  <2>6. Sound(v, q)
    BY <1>1, <1>2, <2>5, VisitKnown DEF Sound, CredentialKept, Admitted
  <2> QED BY <1>2, <2>1, <2>3, <2>4, <2>5, <2>6, Writing
<1> QED BY <1>3, <1>4

\* The fields of the PATCH go over the row as it is by then.
LEMMA PatchSearchInv ==
    ASSUME AccountInv, NEW v \in DOMAIN Visits, PatchSearch(v)
    PROVE  AccountInv' /\ OwnStep /\ MergeStep
<1>1. /\ v \in DOMAIN visit /\ RowKept(v)
      /\ DOMAIN visit[v] = {"at", "user", "row", "copy", "reply", "wrote"}
  BY VisitKnown
<1> DEFINE id == visit[v].row
           row == Patched(v, searches[id])
           q == [visit[v] EXCEPT !.at = "refresh", !.wrote = TRUE]
<1>2. /\ visit[v].at = "write" /\ Ask(v).op = "patch" /\ id \in SearchIds
      /\ UNCHANGED <<revoked, removed, barred>>
  BY <1>1 DEF PatchSearch, RowKept
<1>3. CASE id \notin Kept
  <2>1. UNCHANGED searches /\ Reply(v, 500)
    BY <1>3 DEF PatchSearch
  <2>2. MayEnd(v, 500)
    BY <1>2 DEF MayEnd
  <2>3. visit[v].at = "write" /\ UNCHANGED <<searches, revoked, removed, barred>>
    BY <1>2, <2>1
  <2> QED BY <2>1, <2>2, <2>3, Ending
<1>4. CASE id \in Kept /\ Clash(id, row)
  <2>1. PICK place \in {"expired"} :
           UNCHANGED searches /\ visit' = [visit EXCEPT ![v].at = place]
    BY <1>2, <1>4 DEF PatchSearch, Proceed, AfterClash
  <2>3. place \notin {"absent", "new", "key", "user", "write", "refresh", "done"}
    OBVIOUS
  <2>2. /\ UNCHANGED <<searches, revoked, removed, barred>>
        /\ visit[v].at = "write" /\ Ask(v).op = "patch"
    BY <1>2, <2>1
  <2> HIDE DEF row, q
  <2> QED BY <2>1, <2>2, <2>3, MovingOn
<1>5. CASE id \in Kept /\ ~Clash(id, row)
  <2>1. DOMAIN searches = SearchIds /\ DOMAIN searches[id] = SearchFields
    BY <1>5 DEF AccountInv, AccountTyped
  <2>2. /\ searches' = [searches EXCEPT ![id] = row]
        /\ visit' = [visit EXCEPT ![v] = q]
    BY <1>1, <1>2, <1>5, <2>1 DEF PatchSearch
  <2>3. DOMAIN Ask(v).fields \subseteq {"name", "filters"}
    BY <1>2, AccountAssumption
  <2>4. /\ DOMAIN row = SearchFields
        /\ row.user = searches[id].user
        /\ \A f \in {"name", "filters"} \ DOMAIN Ask(v).fields : row[f] = searches[id][f]
    BY <2>1, <2>3 DEF Patched, SearchFields
  <2>5. searches[id].user = visit[v].user /\ SameName(row) \ {id} = {}
    BY <1>1, <1>5 DEF RowKept, Clash
  <2>6. /\ DOMAIN q = DOMAIN visit[v] /\ q.at = "refresh" /\ q.row = id
        /\ q.user = visit[v].user /\ q.wrote = TRUE
    BY <1>1
  <2> HIDE DEF row, q
  <2>7. Sound(v, q)
    BY <1>1, <1>2, <2>6, VisitKnown DEF Sound, CredentialKept, Admitted
  <2> QED BY <1>2, <1>5, <2>2, <2>4, <2>5, <2>6, <2>7, Writing
<1> QED BY <1>3, <1>4, <1>5

LEMMA DeleteSearchInv ==
    ASSUME AccountInv, NEW v \in DOMAIN Visits, DeleteSearch(v)
    PROVE  AccountInv' /\ OwnStep /\ MergeStep
<1>1. /\ v \in DOMAIN visit /\ RowKept(v)
      /\ DOMAIN visit[v] = {"at", "user", "row", "copy", "reply", "wrote"}
  BY VisitKnown
<1> DEFINE id == visit[v].row
           q == [visit[v] EXCEPT !.at = "done", !.reply = 204, !.wrote = TRUE]
<1>2. /\ visit[v].at = "write" /\ Ask(v).op = "delete" /\ id \in SearchIds
      /\ UNCHANGED <<revoked, removed, barred>>
      /\ searches' = [searches EXCEPT ![id] = None]
      /\ visit' = [visit EXCEPT ![v] = q]
  BY <1>1 DEF DeleteSearch, RowKept
<1>3. id \in Kept => searches[id].user = visit[v].user
  BY <1>1 DEF RowKept
<1>4. /\ DOMAIN q = DOMAIN visit[v] /\ q.at = "done" /\ q.reply = 204 /\ q.row = id
      /\ q.user = visit[v].user
  BY <1>1
<1> HIDE DEF q
<1>5. Sound(v, q)
  BY <1>1, <1>2, <1>4, VisitKnown DEF Sound, CredentialKept, Admitted
<1> QED BY <1>2, <1>3, <1>4, <1>5, Writing

LEMMA AccountSteps ==
    ASSUME AccountInv, [AccountNext]_accountVars
    PROVE  AccountInv' /\ OwnStep /\ MergeStep
<1>1. ASSUME NEW v \in DOMAIN Visits,
             \/ Begin(v) \/ ResolveKey(v) \/ ResolveUser(v) \/ CreateSearch(v) \/ NameHolder(v)
             \/ LoadSearch(v) \/ PatchSearch(v) \/ LoseRow(v) \/ DeleteSearch(v)
             \/ RefreshSearch(v) \/ RevokeKey(v)
      PROVE  AccountInv' /\ OwnStep /\ MergeStep
  BY <1>1, BeginInv, ResolveKeyInv, ResolveUserInv, CreateSearchInv, NameHolderInv,
     LoadSearchInv, PatchSearchInv, LoseRowInv, DeleteSearchInv, RefreshSearchInv, RevokeKeyInv
<1>2. CASE UNCHANGED <<searches, revoked, visit, barred>> /\ removed \subseteq removed'
  <2>1. Kept' = Kept
    BY <1>2 DEF Kept
  <2>2. AccountTyped' /\ NamesAreUnique'
    BY <1>2, <2>1 DEF AccountInv, AccountTyped, NamesAreUnique, Clash, SameName
  <2>3. ASSUME NEW v \in DOMAIN visit PROVE RowKept(v)' /\ CredentialKept(v)' /\ WriteKept(v)'
    <3>1. RowKept(v)' /\ WriteKept(v)'
      BY <1>2, <2>1 DEF AccountInv, RowKept, WriteKept, Tells
    <3>2. CredentialKept(v)'
      BY <1>2 DEF AccountInv, CredentialKept, Admitted
    <3> QED BY <3>1, <3>2
  <2> QED BY <1>2, <2>2, <2>3 DEF AccountInv, OwnStep, MergeStep
<1>3. ASSUME NEW u \in Removables, RemoveUser(u)
      PROVE  UNCHANGED <<searches, revoked, visit, barred>> /\ removed \subseteq removed'
  BY <1>3 DEF RemoveUser
<1> QED BY <1>1, <1>2, <1>3 DEF AccountNext, accountVars

\* However requests of users overlap, a request works on searches of its user, which have
\* unique names, came with a key and a user that were good when it began, and has written
\* when its answer says so.
THEOREM AccountInvariant == AccountSpec => []AccountInv
<1>1. AccountInv /\ [AccountNext]_accountVars => AccountInv'
  BY AccountSteps
<1> QED BY AccountStart, <1>1, PTL DEF AccountSpec

\* Requests of users that race: saved searches keep unique names and merge patches, rows are
\* changed by their owners alone, a revoked key or a removed user opens nothing, and an answer
\* tells what was written.
THEOREM AccountsAreSafe == AccountSpec => AccountSafety
<1>1. AccountInv => NamesAreUnique /\ AnswersTell
  BY DEF AccountInv, AnswersTell, WriteKept
<1>2. AccountInv /\ [AccountNext]_accountVars =>
        [\A v \in DOMAIN visit :
           visit'[v] # visit[v] =>
             /\ \A id \in SearchIds : searches'[id] # searches[id] =>
                   \A row \in {searches[id], searches'[id]} \ {None} : row.user = visit[v].user
             /\ visit'[v].row \in Kept => searches[visit'[v].row].user = visit'[v].user]_accountVars
  BY AccountSteps DEF OwnStep
<1>3. AccountInv /\ [AccountNext]_accountVars =>
        [\A v \in DOMAIN visit : Ask(v).op = "patch" /\ visit'[v].wrote # visit[v].wrote =>
           \A f \in {"name", "filters"} \ DOMAIN Ask(v).fields :
               searches'[visit[v].row][f] = searches[visit[v].row][f]]_accountVars
  BY AccountSteps DEF MergeStep
<1>4. AccountInv /\ AccountInv' =>
        [\A v \in DOMAIN visit : visit'[v] # visit[v] => Admitted(v)']_accountVars
  BY DEF AccountInv, AccountTyped, CredentialKept
<1> QED BY <1>1, <1>2, <1>3, <1>4, AccountInvariant, PTL
        DEF AccountSpec, AccountSafety, OwnersAlone, PatchesMerge, RevocationHolds

-----------------------------------------------------------------------------
\* Jobs: what a batch finds.

LEMMA NewerOrders ==
    ASSUME NEW x \in Listings, NEW y \in Listings
    PROVE  /\ x # y => Newer(x, y) \/ Newer(y, x)
           /\ ~(Newer(x, y) /\ Newer(y, x)) /\ ~Newer(x, x)
           /\ \A z \in Listings : Newer(x, y) /\ Newer(y, z) => Newer(x, z)
BY JobsAssumption DEF Newer

LEMMA RankInRange ==
    ASSUME NEW j \in DOMAIN Triggers, NEW x \in Sought(j)
    PROVE  /\ Sought(j) \subseteq Listings /\ IsFiniteSet(Sought(j))
           /\ Cardinality(Sought(j)) \in Nat
           /\ Rank(j, x) \in 0 .. Cardinality(Sought(j)) - 1
<1> DEFINE before == {y \in Sought(j) : Newer(y, x)}
<1>1. Sought(j) \subseteq Listings
  BY DEF Sought
<1>2. IsFiniteSet(Sought(j)) /\ Cardinality(Sought(j)) \in Nat
  BY <1>1, JobsAssumption, FS_Subset, FS_CardinalityType
<1>3. before \subseteq Sought(j) /\ x \notin before
  BY <1>1, NewerOrders
<1>4. IsFiniteSet(before) /\ Cardinality(before) \in Nat
      /\ Cardinality(before) <= Cardinality(Sought(j))
  BY <1>2, <1>3, FS_Subset, FS_CardinalityType
<1>5. Cardinality(before) # Cardinality(Sought(j))
  BY <1>2, <1>3, FS_Subset
<1> QED BY <1>1, <1>2, <1>4, <1>5 DEF Rank

LEMMA RankFollowsAge ==
    ASSUME NEW j \in DOMAIN Triggers, NEW x \in Sought(j), NEW y \in Sought(j), Newer(x, y)
    PROVE  Rank(j, x) < Rank(j, y)
<1> DEFINE before(z) == {w \in Sought(j) : Newer(w, z)}
<1>1. Sought(j) \subseteq Listings /\ IsFiniteSet(Sought(j))
  BY RankInRange
<1>2. before(x) \subseteq before(y) /\ x \in before(y) /\ x \notin before(x)
  BY <1>1, NewerOrders
<1>3. IsFiniteSet(before(y)) /\ IsFiniteSet(before(x))
  BY <1>1, FS_Subset
<1>4. Cardinality(before(x)) <= Cardinality(before(y))
      /\ Cardinality(before(x)) # Cardinality(before(y))
  BY <1>2, <1>3, FS_Subset
<1>5. Cardinality(before(x)) \in Nat /\ Cardinality(before(y)) \in Nat
  BY <1>3, FS_CardinalityType
<1> HIDE DEF before
<1>6. Cardinality(before(x)) < Cardinality(before(y))
  BY <1>4, <1>5
<1> QED BY <1>6 DEF Rank, before

\* A batch works through listings, each of its kind and all different.
LEMMA FoundIsSought ==
    ASSUME NEW j \in DOMAIN Triggers
    PROVE  /\ FoundBy(j) \in Seq(Sought(j)) /\ Len(FoundBy(j)) \in Nat
           /\ \A i \in DOMAIN FoundBy(j) : Rank(j, FoundBy(j)[i]) = i - 1
<1> DEFINE n == Cardinality(Sought(j))
           f == [x \in Sought(j) |-> Rank(j, x)]
           limit == Triggers[j].limit
           count == IF limit = None \/ n <= limit THEN n ELSE limit
<1>1. IsFiniteSet(Sought(j)) /\ n \in Nat
  <2>1. Sought(j) \subseteq Listings
    BY DEF Sought
  <2> QED BY <2>1, JobsAssumption, FS_Subset, FS_CardinalityType
<1>2. f \in [Sought(j) -> 0 .. n - 1]
  BY RankInRange
<1>3. ASSUME NEW x \in Sought(j), NEW y \in Sought(j), f[x] = f[y]
      PROVE  x = y
  <2>1. x \in Listings /\ y \in Listings
    BY DEF Sought
  <2>2. Rank(j, x) = Rank(j, y) /\ Rank(j, x) \in Int
    BY <1>3, RankInRange
  <2>3. ~Newer(x, y) /\ ~Newer(y, x)
    BY <2>2, RankFollowsAge
  <2> QED BY <2>1, <2>3, NewerOrders
<1>4. f \in Injection(Sought(j), 0 .. n - 1)
  BY <1>2, <1>3 DEF Injection, IsInjective
<1>5. IsFiniteSet(0 .. n - 1) /\ Cardinality(0 .. n - 1) = n
  BY <1>1, FS_Interval
<1>6. f \in Surjection(Sought(j), 0 .. n - 1)
  BY <1>1, <1>4, <1>5, FS_Injection
<1>7. \A k \in 0 .. n - 1 : \E x \in Sought(j) : Rank(j, x) = k
  BY <1>6 DEF Surjection
<1>8. count \in Nat /\ count <= n
  BY <1>1, JobsAssumption
<1> HIDE DEF n, count
<1>9. ASSUME NEW i \in 1 .. count
      PROVE  LET x == CHOOSE x \in Sought(j) : Rank(j, x) = i - 1
             IN  x \in Sought(j) /\ Rank(j, x) = i - 1
  <2>1. i - 1 \in 0 .. n - 1
    BY <1>1, <1>8
  <2> QED BY <1>7, <2>1
<1>10. FoundBy(j) = [i \in 1 .. count |-> CHOOSE x \in Sought(j) : Rank(j, x) = i - 1]
  BY DEF FoundBy, count, n
<1>11. FoundBy(j) \in [1 .. count -> Sought(j)]
  BY <1>9, <1>10
<1>12. \A i \in 1 .. count : Rank(j, FoundBy(j)[i]) = i - 1
  BY <1>9, <1>10
<1> QED BY <1>8, <1>11, <1>12

-----------------------------------------------------------------------------
\* Jobs: the invariant.

\* What an entry tells stays true, for a deal once committed stays.
LEMMA ToldStays ==
    ASSUME NEW j, NEW i, NEW entry, saved \subseteq saved', Told(j, i, entry)
    PROVE  Told(j, i, entry)'
BY DEF Told, ExistingFor

\* A report that ended true.
ReportTrue(j) ==
    Ended(j) /\ jobs[j].status = "succeeded" =>
        /\ Len(jobs[j].results) = jobs[j].found
        /\ \A i \in DOMAIN jobs[j].results : Told(j, i, jobs[j].results[i])

\* No task loses a rate it has.
RateKept == \A j \in DOMAIN task :
    task[j].rate = "set" /\ task[j].at \notin {"gone"} /\ task'[j].at \notin {"gone"}
        => task'[j].rate = "set"

\* The row and the task of a job it leaves alone.
LEMMA OtherJobs ==
    ASSUME NEW k, RowFollows(k), ReportSoFar(k), ReportTrue(k),
           jobs'[k] = jobs[k], task'[k] = task[k],
           saved \subseteq saved', lost \subseteq lost', k \in lost' => k \in lost
    PROVE  RowFollows(k)' /\ ReportSoFar(k)' /\ ReportTrue(k)'
<1>1. RowFollows(k)'
  BY DEF RowFollows, Ended
<1>2. ReportSoFar(k)'
  BY ToldStays DEF ReportSoFar
<1>3. ReportTrue(k)'
  BY ToldStays DEF ReportTrue, Ended
<1> QED BY <1>1, <1>2, <1>3

\* A step of one task, which may write its row and commit deals of its job.
LEMMA OneTask ==
    ASSUME JobsInv, NEW j \in DOMAIN Triggers, NEW t, Set(j, t),
           DOMAIN t = DOMAIN Idle, t.pending = {},
           task[j].rate = "set" /\ t.at # "gone" => t.rate = "set",
           DOMAIN jobs' = DOMAIN jobs,
           \A k \in DOMAIN Triggers \ {j} : jobs'[k] = jobs[k],
           jobs'[j] \in JobRow \cup {None},
           saved \subseteq saved', \A d \in saved' \ saved : d.by = j,
           lost \subseteq lost', lost' \subseteq lost \cup {j},
           RowFollows(j)', ReportSoFar(j)', ReportTrue(j)',
           \/ jobs'[j] # None /\ jobs'[j].status # "queued"
           \/ saved' = saved /\ (jobs[j] = None \/ jobs[j].status = "queued")
    PROVE  JobsInv' /\ RateKept
<1>1. /\ DOMAIN jobs = DOMAIN Triggers /\ DOMAIN task = DOMAIN Triggers
      /\ task' = [task EXCEPT ![j] = t]
  BY DEF JobsInv, JobsTyped, Set
<1>2. task'[j] = t /\ \A k \in DOMAIN Triggers \ {j} : task'[k] = task[k]
  BY <1>1
<1>3. JobsTyped'
  BY <1>1, <1>2 DEF JobsInv, JobsTyped
<1>4. ASSUME NEW k \in DOMAIN Triggers
      PROVE  RowFollows(k)' /\ ReportSoFar(k)' /\ ReportTrue(k)'
  <2>1. RowFollows(k) /\ ReportSoFar(k) /\ ReportTrue(k)
    BY <1>1 DEF JobsInv, ReportsAreTrue, ReportTrue
  <2>2. CASE k = j
    BY <2>2
  <2>3. CASE k # j
    BY <2>1, <2>3, <1>2, OtherJobs
  <2> QED BY <2>2, <2>3
<1>5. ReportsAreTrue'
  BY <1>1, <1>4 DEF ReportsAreTrue, ReportTrue
<1>6. \A d \in (saved \ Underwritten)' : d.by \in DOMAIN Triggers
  BY DEF JobsInv
<1>7. DealsComeFromBegunJobs'
  <2> SUFFICES ASSUME NEW d \in (saved \ Underwritten)'
               PROVE  jobs'[d.by] # None /\ jobs'[d.by].status # "queued"
    BY DEF DealsComeFromBegunJobs
  <2>1. CASE d.by = j
    BY <2>1 DEF JobsInv, DealsComeFromBegunJobs
  <2>2. CASE d.by # j
    BY <2>2, <1>6 DEF JobsInv, DealsComeFromBegunJobs
  <2> QED BY <2>1, <2>2
<1>8. RateKept
  BY <1>1, <1>2 DEF RateKept
<1> QED BY <1>3, <1>4, <1>5, <1>6, <1>7, <1>8 DEF JobsInv

LEMMA JobsStart == JobsInit => JobsInv
<1> SUFFICES ASSUME JobsInit PROVE JobsInv
  OBVIOUS
<1>1. \A j \in DOMAIN Triggers : jobs[j] = None /\ task[j] = Idle
  BY DEF JobsInit
<1>2. JobsTyped
  BY <1>1 DEF JobsInit, JobsTyped, Idle
<1>3. \A j \in DOMAIN Triggers : RowFollows(j) /\ ReportSoFar(j)
  BY <1>1 DEF JobsInit, RowFollows, ReportSoFar, Idle, Working
<1>4. ReportsAreTrue
  BY <1>1 DEF JobsInit, ReportsAreTrue, Ended
<1> QED BY <1>2, <1>3, <1>4 DEF JobsInit, JobsInv, DealsComeFromBegunJobs

\* A step that leaves the row, the deals and the report of the job as they were.
LEMMA Quietly ==
    ASSUME JobsInv, NEW j \in DOMAIN Triggers, NEW t, Set(j, t), UNCHANGED <<jobs, saved, lost>>,
           task[j].at \notin {"none", "start", "gone"}, t.at \notin {"none", "start", "gone"},
           DOMAIN t = DOMAIN Idle, t.pending = {}, task[j].rate = "set" => t.rate = "set",
           t.at \in {"warm", "list"} => t.results = <<>>,
           t.at \in Working =>
             /\ task[j].at \in Working
             /\ t.results = task[j].results /\ t.todo = task[j].todo,
           t.at \in Working \ {"look"} => t.todo # <<>>
    PROVE  JobsInv' /\ RateKept
<1>1. /\ DOMAIN jobs = DOMAIN Triggers /\ DOMAIN task = DOMAIN Triggers
      /\ jobs[j] \in JobRow \cup {None}
      /\ RowFollows(j) /\ ReportSoFar(j) /\ ReportTrue(j)
  BY DEF JobsInv, JobsTyped, ReportsAreTrue, ReportTrue
<1>2. task'[j] = t
  BY <1>1 DEF Set
<1>3. jobs[j] # None /\ jobs[j].status = "running"
  BY <1>1 DEF RowFollows
<1>4. RowFollows(j)' /\ ReportTrue(j)'
  BY <1>1, <1>2, <1>3 DEF RowFollows, ReportTrue, Ended
<1>5. ReportSoFar(j)'
  <2>1. CASE t.at \in Working
    <3>1. task[j].at \in Working /\ task'[j].results = task[j].results
          /\ task'[j].todo = task[j].todo /\ t.at \notin {"none", "start", "warm", "list"}
      BY <2>1, <1>2 DEF Working
    <3>2. ASSUME NEW i \in DOMAIN task[j].results
          PROVE  Told(j, i, task[j].results[i])'
      <4>1. Told(j, i, task[j].results[i])
        BY <3>1, <1>1 DEF ReportSoFar
      <4> QED BY <4>1, <3>1 DEF Told, ExistingFor
    <3> QED BY <1>1, <1>2, <3>1, <3>2 DEF ReportSoFar
  <2>2. CASE t.at \notin Working
    BY <2>2, <1>2 DEF ReportSoFar
  <2> QED BY <2>1, <2>2
<1> QED BY <1>1, <1>3, <1>4, <1>5, OneTask

LEMMA Extending ==
    ASSUME NEW done, NEW todo, NEW found, NEW outcome, NEW e, Continues(done, todo, found),
           todo # <<>>, e = Entry(Head(todo), outcome),
           outcome \in EntryStatuses
    PROVE  /\ Continues(Append(done, e), Tail(todo), found)
           /\ Head(todo) = found[Len(done) + 1]
           /\ DOMAIN Append(done, e) = DOMAIN done \cup {Len(done) + 1}
           /\ Append(done, e)[Len(done) + 1] = e
           /\ \A i \in DOMAIN done : Append(done, e)[i] = done[i]
<1> DEFINE S == [zpid : Int, status : EntryStatuses]
           more == Append(done, e)
<1>1. done \in Seq(S) /\ todo \in Seq(Listings) /\ Len(done) + Len(todo) = Len(found)
      /\ \A i \in DOMAIN todo : todo[i] = found[Len(done) + i]
  BY DEF Continues, Report
<1>2. /\ Len(done) \in Nat /\ Len(todo) \in Nat \ {0}
      /\ DOMAIN done = 1 .. Len(done) /\ DOMAIN todo = 1 .. Len(todo)
  <2> HIDE DEF S
  <2> QED BY <1>1
<1>3. e \in S
  <2>1. Head(todo) \in Listings
    BY <1>1, <1>2
  <2> QED BY <2>1, JobsAssumption DEF Entry
<1> HIDE DEF S
<1>4. /\ more \in Seq(S) /\ Len(more) = Len(done) + 1
      /\ \A i \in 1 .. Len(done) : more[i] = done[i]
      /\ more[Len(done) + 1] = e
  BY <1>1, <1>3
<1>5. /\ DOMAIN more = 1 .. Len(done) + 1
      /\ DOMAIN more = DOMAIN done \cup {Len(done) + 1}
  BY <1>2, <1>4
<1> HIDE DEF more
<1>6. more \in Report
  BY <1>4 DEF Report, S
<1>7. /\ Tail(todo) \in Seq(Listings) /\ Len(Tail(todo)) = Len(todo) - 1
      /\ \A i \in 1 .. Len(todo) - 1 : Tail(todo)[i] = todo[i + 1]
  BY <1>1
<1>8. Continues(more, Tail(todo), found)
  <2>1. Len(more) + Len(Tail(todo)) = Len(found) /\ DOMAIN Tail(todo) = 1 .. Len(todo) - 1
    BY <1>1, <1>2, <1>4, <1>7
  <2>2. ASSUME NEW i \in DOMAIN Tail(todo)
        PROVE  Tail(todo)[i] = found[Len(more) + i]
    <3>1. i \in 1 .. Len(todo) - 1 /\ i + 1 \in DOMAIN todo
      BY <2>1, <1>2
    <3>2. Len(done) + (i + 1) = Len(more) + i
      BY <3>1, <1>2, <1>4
    <3>3. Tail(todo)[i] = todo[i + 1] /\ todo[i + 1] = found[Len(done) + (i + 1)]
      BY <3>1, <1>1, <1>7
    <3> QED BY <3>2, <3>3
  <2> QED BY <1>6, <1>7, <2>1, <2>2 DEF Continues
<1>9. Head(todo) = found[Len(done) + 1]
  BY <1>1, <1>2
<1> QED BY <1>2, <1>4, <1>5, <1>8, <1>9 DEF more

\* A step that is done with a listing and notes how.
LEMMA Advancing ==
    ASSUME JobsInv, NEW j \in DOMAIN Triggers, NEW t, NEW x, NEW outcome, Set(j, t),
           UNCHANGED <<jobs, lost>>, saved \subseteq saved', \A d \in saved' \ saved : d.by = j,
           task[j].at \in Working, task[j].todo # <<>>, x = Head(task[j].todo),
           t.at = "look", t.todo = Tail(task[j].todo),
           t.results = Append(task[j].results, Entry(x, outcome)),
           DOMAIN t = DOMAIN Idle, t.pending = {}, task[j].rate = "set" => t.rate = "set",
           outcome \in EntryStatuses,
           outcome = "saved" => \E d \in saved' : d.zpid = x.zpid /\ d.by = j,
           outcome = "skipped_existing" => ExistingFor(x)' # {}
    PROVE  JobsInv' /\ RateKept
<1>1. /\ DOMAIN jobs = DOMAIN Triggers /\ DOMAIN task = DOMAIN Triggers
      /\ jobs[j] \in JobRow \cup {None}
      /\ RowFollows(j) /\ ReportSoFar(j) /\ ReportTrue(j)
  BY DEF JobsInv, JobsTyped, ReportsAreTrue, ReportTrue
<1>2. task'[j] = t
  BY <1>1 DEF Set
<1>3. task[j].at \notin {"none", "start", "gone"}
  BY DEF Working
<1>4. jobs[j] # None /\ jobs[j].status = "running"
  BY <1>1, <1>3 DEF RowFollows
<1>5. RowFollows(j)' /\ ReportTrue(j)'
  BY <1>1, <1>2, <1>3, <1>4 DEF RowFollows, ReportTrue, Ended
<1>6. PICK done, todo : done = task[j].results /\ todo = task[j].todo
  OBVIOUS
<1>7. PICK n, e, more : n = Len(done) + 1 /\ e = Entry(x, outcome) /\ more = Append(done, e)
  OBVIOUS
<1>8. /\ Continues(done, todo, FoundBy(j)) /\ todo # <<>>
      /\ \A i \in DOMAIN done : Told(j, i, done[i])
  BY <1>1, <1>6 DEF ReportSoFar
<1>9. /\ Continues(more, Tail(todo), FoundBy(j)) /\ x = FoundBy(j)[n]
      /\ DOMAIN more = DOMAIN done \cup {n} /\ more[n] = e
      /\ \A i \in DOMAIN done : more[i] = done[i]
  <2>1. PICK found : found = FoundBy(j)
    OBVIOUS
  <2>2. /\ Continues(done, todo, found) /\ todo # <<>> /\ e = Entry(Head(todo), outcome)
        /\ outcome \in EntryStatuses
    BY <1>6, <1>7, <1>8, <2>1
  <2>3. /\ Continues(Append(done, e), Tail(todo), found)
        /\ Head(todo) = found[Len(done) + 1]
        /\ DOMAIN Append(done, e) = DOMAIN done \cup {Len(done) + 1}
        /\ Append(done, e)[Len(done) + 1] = e
        /\ \A i \in DOMAIN done : Append(done, e)[i] = done[i]
    BY ONLY <2>2, Extending
  <2>4. x = Head(todo)
    BY <1>6
  <2> QED BY <1>7, <2>1, <2>4, <2>3, Zenon
<1>10. e.zpid = x.zpid /\ e.status = outcome
  BY <1>7 DEF Entry
<1>11. ASSUME NEW i \in DOMAIN more
       PROVE  Told(j, i, more[i])'
  <2>1. CASE i = n
    BY <2>1, <1>9, <1>10 DEF Told
  <2>2. CASE i \in DOMAIN done
    <3>1. more[i] = done[i] /\ Told(j, i, done[i])
      BY <2>2, <1>8, <1>9
    <3> QED BY <3>1, ToldStays
  <2> QED BY <2>1, <2>2, <1>9
<1>12. task'[j].results = more /\ task'[j].todo = Tail(todo) /\ task'[j].at = "look"
  BY <1>2, <1>6, <1>7
<1>13. ReportSoFar(j)'
  BY <1>9, <1>11, <1>12 DEF ReportSoFar
<1> QED BY <1>1, <1>4, <1>5, <1>13, OneTask

LEMMA JobKnown ==
    ASSUME JobsInv, NEW j \in DOMAIN Triggers
    PROVE  /\ DOMAIN jobs = DOMAIN Triggers /\ DOMAIN task = DOMAIN Triggers
           /\ DOMAIN task[j] = DOMAIN Idle /\ task[j].pending = {}
           /\ jobs[j] \in JobRow \cup {None}
           /\ RowFollows(j) /\ ReportSoFar(j) /\ ReportTrue(j)
BY DEF JobsInv, JobsTyped, ReportsAreTrue, ReportTrue

\* An UPDATE changes the fields it names, of the one row.
LEMMA Marking ==
    ASSUME JobsInv, NEW j \in DOMAIN Triggers, NEW fields, Mark(j, fields), jobs[j] # None,
           \A row \in JobRow : [f \in DOMAIN row |-> IF f \in DOMAIN fields THEN fields[f]
                                                                      ELSE row[f]] \in JobRow
    PROVE  /\ DOMAIN jobs' = DOMAIN jobs /\ \A k \in DOMAIN Triggers \ {j} : jobs'[k] = jobs[k]
           /\ jobs'[j] \in JobRow /\ jobs'[j] # None
           /\ \A f \in DOMAIN jobs[j] :
                jobs'[j][f] = IF f \in DOMAIN fields THEN fields[f] ELSE jobs[j][f]
<1> DEFINE row == [f \in DOMAIN jobs[j] |-> IF f \in DOMAIN fields THEN fields[f] ELSE jobs[j][f]]
<1>1. DOMAIN jobs = DOMAIN Triggers /\ jobs[j] \in JobRow
  BY JobKnown
<1>2. jobs' = [jobs EXCEPT ![j] = row]
  BY DEF Mark
<1>3. jobs'[j] = row /\ \A k \in DOMAIN Triggers \ {j} : jobs'[k] = jobs[k]
  BY <1>1, <1>2
<1>4. row \in JobRow /\ row # None
  BY <1>1, JobsAssumption
<1> QED BY <1>1, <1>2, <1>3, <1>4

LEMMA EnqueueInv ==
    ASSUME JobsInv, NEW j \in DOMAIN Triggers, Enqueue(j), UNCHANGED <<saved, lost>>
    PROVE  JobsInv' /\ RateKept
<1> DEFINE row == [status |-> "queued", found |-> 0, results |-> <<>>, error |-> None]
           t == [task[j] EXCEPT !.at = "start"]
<1>1. /\ DOMAIN jobs = DOMAIN Triggers /\ DOMAIN task = DOMAIN Triggers
      /\ DOMAIN task[j] = DOMAIN Idle /\ task[j].pending = {} /\ RowFollows(j) /\ ReportSoFar(j)
  BY JobKnown
<1>2. jobs[j] = None /\ jobs' = [jobs EXCEPT ![j] = row] /\ Set(j, t)
  BY DEF Enqueue
<1>3. row \in JobRow /\ row # None
  <2>1. <<>> \in Report
    BY DEF Report
  <2> QED BY <2>1, JobsAssumption DEF JobRow
<1>4. jobs'[j] = row /\ \A k \in DOMAIN Triggers \ {j} : jobs'[k] = jobs[k]
  BY <1>1, <1>2
<1>5. /\ DOMAIN t = DOMAIN Idle /\ t.pending = {} /\ t.at = "start" /\ t.rate = task[j].rate
      /\ t.results = task[j].results
  BY <1>1 DEF Idle
<1>6. task'[j] = t
  BY <1>1, <1>2 DEF Set
<1>7. task[j].at = "none" /\ j \notin lost /\ task[j].results = <<>>
  BY <1>1, <1>2 DEF RowFollows, ReportSoFar
<1>8. RowFollows(j)' /\ ReportSoFar(j)' /\ ReportTrue(j)'
  <2> HIDE DEF t
  <2>1. jobs'[j] # None /\ jobs'[j].status = "queued"
    BY <1>3, <1>4
  <2> QED BY <1>5, <1>6, <1>7, <2>1 DEF RowFollows, ReportSoFar, ReportTrue, Ended, Working
<1> HIDE DEF t, row
<1>9. DOMAIN jobs' = DOMAIN jobs /\ jobs'[j] \in JobRow \cup {None}
  BY <1>2, <1>3, <1>4
<1> QED BY <1>2, <1>4, <1>5, <1>8, <1>9, OneTask

\* A task ends and leaves its row behind.
LEMMA Leaving ==
    ASSUME JobsInv, NEW j \in DOMAIN Triggers, Set(j, [Idle EXCEPT !.at = "gone"]),
           task[j].at \notin {"none", "gone"}, UNCHANGED saved,
           DOMAIN jobs' = DOMAIN jobs, \A k \in DOMAIN Triggers \ {j} : jobs'[k] = jobs[k],
           jobs'[j] \in JobRow \cup {None}, jobs'[j] # None,
           jobs'[j].status = "queued" => jobs[j].status = "queued",
           lost \subseteq lost', lost' \subseteq lost \cup {j}, ~Ended(j)' => j \in lost',
           ReportTrue(j)'
    PROVE  JobsInv' /\ RateKept
<1>1. /\ DOMAIN jobs = DOMAIN Triggers /\ DOMAIN task = DOMAIN Triggers
      /\ RowFollows(j)
  BY JobKnown
<1>2. PICK t : t = [Idle EXCEPT !.at = "gone"]
  OBVIOUS
<1>3. Set(j, t) /\ DOMAIN t = DOMAIN Idle /\ t.at = "gone" /\ t.pending = {}
  BY <1>2 DEF Idle
<1>4. task'[j] = t
  BY <1>1, <1>3 DEF Set
<1>5. RowFollows(j)' /\ ReportSoFar(j)'
  BY <1>3, <1>4 DEF RowFollows, ReportSoFar, Working
<1>6. \/ jobs'[j] # None /\ jobs'[j].status # "queued"
      \/ saved' = saved /\ (jobs[j] = None \/ jobs[j].status = "queued")
  OBVIOUS
<1> QED BY <1>3, <1>5, <1>6, OneTask

LEMMA StartInv ==
    ASSUME JobsInv, NEW j \in DOMAIN Triggers, Start(j), UNCHANGED saved
    PROVE  JobsInv' /\ RateKept
<1>1. /\ DOMAIN jobs = DOMAIN Triggers /\ DOMAIN task = DOMAIN Triggers
      /\ DOMAIN task[j] = DOMAIN Idle /\ task[j].pending = {} /\ jobs[j] \in JobRow \cup {None}
      /\ RowFollows(j) /\ ReportSoFar(j) /\ ReportTrue(j)
  BY JobKnown
<1>2. task[j].at = "start" /\ jobs[j] # None /\ jobs[j].status = "queued"
  BY <1>1 DEF Start, RowFollows
<1>3. CASE /\ Mark(j, [status |-> "running"]) /\ Set(j, [task[j] EXCEPT !.at = "warm"])
           /\ UNCHANGED lost
  <2>1. PICK fields : fields = [status |-> "running"]
    OBVIOUS
  <2>2. PICK t : t = [task[j] EXCEPT !.at = "warm"]
    OBVIOUS
  <2>3. \A row \in JobRow : [f \in DOMAIN row |-> IF f \in DOMAIN fields THEN fields[f]
                                                                     ELSE row[f]] \in JobRow
    BY <2>1 DEF JobRow
  <2>4. /\ DOMAIN jobs' = DOMAIN jobs /\ \A k \in DOMAIN Triggers \ {j} : jobs'[k] = jobs[k]
        /\ jobs'[j] \in JobRow /\ jobs'[j] # None
        /\ \A f \in DOMAIN jobs[j] :
             jobs'[j][f] = IF f \in DOMAIN fields THEN fields[f] ELSE jobs[j][f]
    BY <1>2, <1>3, <2>1, <2>3, Marking
  <2>5. jobs'[j].status = "running"
    BY <1>1, <1>2, <2>1, <2>4 DEF JobRow
  <2>6. /\ DOMAIN t = DOMAIN Idle /\ t.pending = {} /\ t.at = "warm" /\ t.rate = task[j].rate
        /\ t.results = task[j].results
    BY <1>1, <2>2 DEF Idle
  <2>7. Set(j, t) /\ task'[j] = t
    BY <1>1, <1>3, <2>2 DEF Set
  <2>8. RowFollows(j)' /\ ReportSoFar(j)' /\ ReportTrue(j)'
    <3>1. j \notin lost /\ task[j].results = <<>>
      BY <1>1, <1>2 DEF RowFollows, ReportSoFar
    <3> QED BY <1>3, <2>4, <2>5, <2>6, <2>7, <3>1
            DEF RowFollows, ReportSoFar, ReportTrue, Ended, Working
  <2> QED BY <1>3, <2>4, <2>5, <2>6, <2>7, <2>8, OneTask
<1>4. CASE Set(j, [Idle EXCEPT !.at = "gone"]) /\ lost' = lost \cup {j} /\ UNCHANGED jobs
  <2>1. ReportTrue(j)'
    BY <1>2, <1>4 DEF ReportTrue, Ended
  <2> QED BY <1>1, <1>2, <1>4, <2>1, Leaving
<1> QED BY <1>3, <1>4 DEF Start

LEMMA WarmInv ==
    ASSUME JobsInv, NEW j \in DOMAIN Triggers, Warm(j), UNCHANGED saved
    PROVE  JobsInv' /\ RateKept
<1>1. /\ DOMAIN task[j] = DOMAIN Idle /\ task[j].pending = {} /\ ReportSoFar(j)
  BY JobKnown
<1>2. PICK rate \in RateAfter(task[j].rate) :
        Set(j, [task[j] EXCEPT !.at = "list", !.rate = rate])
  BY DEF Warm
<1>3. PICK t : t = [task[j] EXCEPT !.at = "list", !.rate = rate]
  OBVIOUS
<1>4. /\ DOMAIN t = DOMAIN Idle /\ t.pending = {} /\ t.at = "list"
      /\ t.results = <<>> /\ (task[j].rate = "set" => t.rate = "set")
  BY <1>1, <1>2, <1>3 DEF Idle, RateAfter, Warm, ReportSoFar
<1>5. Set(j, t) /\ UNCHANGED <<jobs, saved, lost>> /\ task[j].at = "warm"
  BY <1>2, <1>3 DEF Warm
<1> QED BY <1>4, <1>5, Quietly DEF Working

\* A statement that fails leaves the task to the handler of the batch, or of the listing.
LEMMA Faulting ==
    ASSUME JobsInv, NEW j \in DOMAIN Triggers, NEW place \in {"raised", "failed"},
           Set(j, [task[j] EXCEPT !.at = place, !.conn = "aborted"]),
           UNCHANGED <<jobs, saved, lost>>, task[j].at \notin {"none", "start", "gone"},
           place = "failed" => task[j].at \in Working /\ task[j].todo # <<>>
    PROVE  JobsInv' /\ RateKept
<1>1. /\ DOMAIN task[j] = DOMAIN Idle /\ task[j].pending = {}
  BY JobKnown
<1>2. PICK t : t = [task[j] EXCEPT !.at = place, !.conn = "aborted"]
  OBVIOUS
<1>3. /\ DOMAIN t = DOMAIN Idle /\ t.pending = {} /\ t.at = place /\ t.rate = task[j].rate
      /\ t.results = task[j].results /\ t.todo = task[j].todo
  BY <1>1, <1>2 DEF Idle
<1>4. Set(j, t)
  BY <1>2
<1> QED BY <1>3, <1>4, Quietly DEF Working

LEMMA ListListingsInv ==
    ASSUME JobsInv, NEW j \in DOMAIN Triggers, ListListings(j), UNCHANGED saved
    PROVE  JobsInv' /\ RateKept
<1>1. /\ DOMAIN jobs = DOMAIN Triggers /\ DOMAIN task = DOMAIN Triggers
      /\ DOMAIN task[j] = DOMAIN Idle /\ task[j].pending = {} /\ jobs[j] \in JobRow \cup {None}
      /\ RowFollows(j) /\ ReportSoFar(j) /\ ReportTrue(j)
  BY JobKnown
<1>2. task[j].at = "list" /\ UNCHANGED <<jobs, saved, lost>>
  BY DEF ListListings
<1>3. CASE Set(j, [task[j] EXCEPT !.at = "look", !.conn = "open", !.todo = FoundBy(j)])
  <2>1. PICK t : t = [task[j] EXCEPT !.at = "look", !.conn = "open", !.todo = FoundBy(j)]
    OBVIOUS
  <2>2. /\ DOMAIN t = DOMAIN Idle /\ t.pending = {} /\ t.at = "look" /\ t.rate = task[j].rate
        /\ t.results = <<>> /\ t.todo = FoundBy(j)
    BY <1>1, <1>2, <2>1 DEF Idle, ReportSoFar
  <2>3. Set(j, t) /\ task'[j] = t
    BY <1>1, <1>3, <2>1 DEF Set
  <2>4. Continues(<<>>, FoundBy(j), FoundBy(j))
    <3>1. FoundBy(j) \in Seq(Listings) /\ Len(FoundBy(j)) \in Nat
      <4>1. FoundBy(j) \in Seq(Sought(j)) /\ Len(FoundBy(j)) \in Nat /\ Sought(j) \subseteq Listings
        BY FoundIsSought DEF Sought
      <4>2. PICK found, sought : found = FoundBy(j) /\ sought = Sought(j)
        OBVIOUS
      <4>3. found \in Seq(Listings) /\ Len(found) \in Nat
        BY <4>1, <4>2
      <4> QED BY <4>2, <4>3
    <3>2. <<>> \in Report /\ Len(<<>>) = 0
      BY DEF Report
    <3>3. \A i \in DOMAIN FoundBy(j) : 0 + i = i
      BY <3>1
    <3> QED BY <3>1, <3>2, <3>3 DEF Continues
  <2>5. jobs[j] # None /\ jobs[j].status = "running" /\ j \notin lost
    BY <1>1, <1>2 DEF RowFollows
  <2>6. RowFollows(j)' /\ ReportTrue(j)'
    BY <1>1, <1>2, <2>2, <2>3, <2>5 DEF RowFollows, ReportTrue, Ended
  <2>7. ReportSoFar(j)'
    BY <2>2, <2>3, <2>4 DEF ReportSoFar, Working
  <2> QED BY <1>1, <1>2, <2>2, <2>3, <2>5, <2>6, <2>7, OneTask
<1>4. CASE Set(j, [task[j] EXCEPT !.at = "raised", !.conn = "aborted"])
  <2>1. PICK place \in {"raised", "failed"} : place = "raised"
    OBVIOUS
  <2> QED BY <1>2, <1>4, <2>1, Faulting
<1> QED BY <1>3, <1>4 DEF ListListings

LEMMA LookUpInv ==
    ASSUME JobsInv, NEW j \in DOMAIN Triggers, LookUp(j), UNCHANGED saved
    PROVE  JobsInv' /\ RateKept
<1>1. /\ DOMAIN task[j] = DOMAIN Idle /\ task[j].pending = {}
  BY JobKnown
<1>2. task[j].at = "look" /\ task[j].todo # <<>> /\ UNCHANGED <<jobs, saved, lost>>
  BY DEF LookUp
<1>3. PICK x : x = Head(task[j].todo)
  OBVIOUS
<1>4. CASE /\ ExistingFor(x) # {}
           /\ Set(j, [NextListing(j, "skipped_existing") EXCEPT !.conn = "open"])
  <2>1. PICK t : t = [NextListing(j, "skipped_existing") EXCEPT !.conn = "open"]
    OBVIOUS
  <2>2. /\ DOMAIN t = DOMAIN Idle /\ t.pending = {} /\ t.rate = task[j].rate
        /\ t.at = "look" /\ t.todo = Tail(task[j].todo)
        /\ t.results = Append(task[j].results, Entry(x, "skipped_existing"))
    BY <1>1, <1>3, <2>1 DEF NextListing, Idle
  <2>3. ExistingFor(x)' # {}
    BY <1>2, <1>4 DEF ExistingFor
  <2>4. PICK outcome \in EntryStatuses : outcome = "skipped_existing"
    BY DEF EntryStatuses
  <2>5. t.results = Append(task[j].results, Entry(x, outcome)) /\ outcome # "saved"
    BY <2>2, <2>4
  <2>6. Set(j, t) /\ task[j].at \in Working
    BY <1>2, <1>4, <2>1 DEF Working
  <2> QED BY <1>2, <1>3, <2>2, <2>3, <2>5, <2>6, Advancing
<1>5. CASE Set(j, [[task[j] EXCEPT !.conn = "open"] EXCEPT !.at = "prepare"])
  <2>1. PICK t : t = [[task[j] EXCEPT !.conn = "open"] EXCEPT !.at = "prepare"]
    OBVIOUS
  <2>2. /\ DOMAIN t = DOMAIN Idle /\ t.pending = {} /\ t.rate = task[j].rate
        /\ t.at = "prepare" /\ t.todo = task[j].todo /\ t.results = task[j].results
    BY <1>1, <2>1 DEF Idle
  <2>3. Set(j, t)
    BY <1>5, <2>1
  <2> QED BY <1>2, <2>2, <2>3, Quietly DEF Working
<1>6. CASE Set(j, [[task[j] EXCEPT !.conn = "open"] EXCEPT !.at = "failed", !.conn = "aborted"])
  <2>1. PICK t : t = [[task[j] EXCEPT !.conn = "open"] EXCEPT !.at = "failed", !.conn = "aborted"]
    OBVIOUS
  <2>2. /\ DOMAIN t = DOMAIN Idle /\ t.pending = {} /\ t.rate = task[j].rate
        /\ t.at = "failed" /\ t.todo = task[j].todo /\ t.results = task[j].results
    BY <1>1, <2>1 DEF Idle
  <2>3. Set(j, t)
    BY <1>6, <2>1
  <2> QED BY <1>2, <2>2, <2>3, Quietly DEF Working
<1> QED BY <1>3, <1>4, <1>5, <1>6 DEF LookUp

LEMMA PrepareInv ==
    ASSUME JobsInv, NEW j \in DOMAIN Triggers, Prepare(j), UNCHANGED saved
    PROVE  JobsInv' /\ RateKept
<1>1. /\ DOMAIN task[j] = DOMAIN Idle /\ task[j].pending = {} /\ ReportSoFar(j)
  BY JobKnown
<1>2. task[j].at = "prepare" /\ UNCHANGED <<jobs, saved, lost>>
  BY DEF Prepare
<1>3. task[j].todo # <<>> /\ task[j].at \in Working
  BY <1>1, <1>2 DEF ReportSoFar, Working
<1>4. PICK x : x = Head(task[j].todo)
  OBVIOUS
<1>5. PICK rate \in RateAfter(task[j].rate) :
        Set(j, CASE x.data = "broken"   -> [task[j] EXCEPT !.at = "failed", !.rate = rate]
                 [] x.data = "unpriced" -> [NextListing(j, "skipped_no_purchase_price")
                                               EXCEPT !.rate = rate]
                 [] OTHER               -> [task[j] EXCEPT !.at = "save", !.rate = rate])
  BY <1>4 DEF Prepare
<1>6. task[j].rate = "set" => rate = "set"
  BY <1>5 DEF RateAfter
<1>7. CASE x.data = "unpriced"
  <2>1. PICK t : t = [NextListing(j, "skipped_no_purchase_price") EXCEPT !.rate = rate]
    OBVIOUS
  <2>2. Set(j, t)
    BY <1>5, <1>7, <2>1
  <2>3. PICK outcome \in EntryStatuses : outcome = "skipped_no_purchase_price"
    BY DEF EntryStatuses
  <2>4. /\ DOMAIN t = DOMAIN Idle /\ t.pending = {} /\ t.rate = rate
        /\ t.at = "look" /\ t.todo = Tail(task[j].todo)
        /\ t.results = Append(task[j].results, Entry(x, outcome))
    BY <1>1, <1>4, <2>1, <2>3 DEF NextListing, Idle
  <2>5. outcome # "saved" /\ outcome # "skipped_existing"
    BY <2>3
  <2> QED BY <1>2, <1>3, <1>4, <1>6, <2>2, <2>4, <2>5, Advancing
<1>8. CASE x.data # "unpriced"
  <2>1. PICK place \in {"failed", "save"} :
          Set(j, [task[j] EXCEPT !.at = place, !.rate = rate])
    <3>1. CASE x.data = "broken"
      BY <1>5, <3>1
    <3>2. CASE x.data # "broken"
      BY <1>5, <1>8, <3>2
    <3> QED BY <3>1, <3>2
  <2>2. PICK t : t = [task[j] EXCEPT !.at = place, !.rate = rate]
    OBVIOUS
  <2>3. /\ DOMAIN t = DOMAIN Idle /\ t.pending = {} /\ t.rate = rate
        /\ t.at = place /\ t.todo = task[j].todo /\ t.results = task[j].results
    BY <1>1, <2>2 DEF Idle
  <2>4. Set(j, t)
    BY <2>1, <2>2
  <2> QED BY <1>2, <1>3, <1>6, <2>3, <2>4, Quietly
<1> QED BY <1>7, <1>8

LEMMA SaveListingInv ==
    ASSUME JobsInv, NEW j \in DOMAIN Triggers, SaveListing(j)
    PROVE  JobsInv' /\ RateKept
<1>1. /\ DOMAIN task[j] = DOMAIN Idle /\ task[j].pending = {} /\ ReportSoFar(j)
  BY JobKnown
<1>2. task[j].at = "save" /\ UNCHANGED <<jobs, lost>>
  BY DEF SaveListing
<1>3. task[j].todo # <<>> /\ task[j].at \in Working
  BY <1>1, <1>2 DEF ReportSoFar, Working
<1>4. PICK x : x = Head(task[j].todo)
  OBVIOUS
<1>5. CASE /\ saved' = saved \cup task[j].pending
                             \cup {[zpid |-> x.zpid, url |-> x.url, by |-> j]}
           /\ Set(j, Unpinned(NextListing(j, "saved")))
  <2>1. PICK t : t = Unpinned(NextListing(j, "saved"))
    OBVIOUS
  <2>2. PICK outcome \in EntryStatuses : outcome = "saved"
    BY DEF EntryStatuses
  <2>3. /\ DOMAIN t = DOMAIN Idle /\ t.pending = {} /\ t.rate = task[j].rate
        /\ t.at = "look" /\ t.todo = Tail(task[j].todo)
        /\ t.results = Append(task[j].results, Entry(x, outcome))
    BY <1>1, <1>4, <2>1, <2>2 DEF NextListing, Idle, Unpinned, RolledBack
  <2>4. PICK deal : deal = [zpid |-> x.zpid, url |-> x.url, by |-> j]
    OBVIOUS
  <2>5. /\ saved \subseteq saved' /\ \A d \in saved' \ saved : d.by = j
        /\ \E d \in saved' : d.zpid = x.zpid /\ d.by = j
    <3>1. saved' = saved \cup {deal}
      BY <1>1, <1>5, <2>4
    <3>2. deal.zpid = x.zpid /\ deal.by = j
      BY <2>4
    <3> QED BY <3>1, <3>2
  <2>6. outcome # "skipped_existing" /\ Set(j, t)
    BY <1>5, <2>1, <2>2
  <2> QED BY <1>2, <1>3, <1>4, <2>3, <2>5, <2>6, Advancing
<1>6. CASE /\ Set(j, [task[j] EXCEPT !.at = "failed", !.conn = "aborted"]) /\ UNCHANGED saved
  <2>1. PICK place \in {"raised", "failed"} : place = "failed"
    OBVIOUS
  <2>2. UNCHANGED <<jobs, saved, lost>>
    BY <1>2, <1>6
  <2> QED BY <1>2, <1>3, <1>6, <2>1, <2>2, Faulting
<1> QED BY <1>4, <1>5, <1>6 DEF SaveListing

LEMMA FailListingInv ==
    ASSUME JobsInv, NEW j \in DOMAIN Triggers, FailListing(j), UNCHANGED saved
    PROVE  JobsInv' /\ RateKept
<1>1. /\ DOMAIN task[j] = DOMAIN Idle /\ task[j].pending = {} /\ ReportSoFar(j)
  BY JobKnown
<1>2. task[j].at = "failed" /\ UNCHANGED <<jobs, saved, lost>>
  BY DEF FailListing
<1>3. task[j].todo # <<>> /\ task[j].at \in Working
  BY <1>1, <1>2 DEF ReportSoFar, Working
<1>4. CASE Set(j, RolledBack(NextListing(j, "failed")))
  <2>1. PICK t, x : t = RolledBack(NextListing(j, "failed")) /\ x = Head(task[j].todo)
    OBVIOUS
  <2>2. PICK outcome \in EntryStatuses : outcome = "failed"
    BY DEF EntryStatuses
  <2>3. /\ DOMAIN t = DOMAIN Idle /\ t.pending = {} /\ t.rate = task[j].rate
        /\ t.at = "look" /\ t.todo = Tail(task[j].todo)
        /\ t.results = Append(task[j].results, Entry(x, outcome))
    BY <1>1, <2>1, <2>2 DEF NextListing, Idle, RolledBack
  <2>4. outcome # "saved" /\ outcome # "skipped_existing" /\ Set(j, t) /\ x = Head(task[j].todo)
    BY <1>4, <2>1, <2>2
  <2> QED BY <1>2, <1>3, <2>3, <2>4, Advancing
<1>5. CASE Set(j, [RolledBack(task[j]) EXCEPT !.at = "expired"])
  <2>1. PICK t : t = [RolledBack(task[j]) EXCEPT !.at = "expired"]
    OBVIOUS
  <2>2. /\ DOMAIN t = DOMAIN Idle /\ t.pending = {} /\ t.rate = task[j].rate
        /\ t.at = "expired" /\ Set(j, t)
    BY <1>1, <1>5, <2>1 DEF Idle, RolledBack
  <2> QED BY <1>2, <2>2, Quietly DEF Working
<1> QED BY <1>4, <1>5 DEF FailListing

LEMMA SucceedInv ==
    ASSUME JobsInv, NEW j \in DOMAIN Triggers, Succeed(j)
    PROVE  JobsInv' /\ RateKept
<1>1. /\ task[j].pending = {} /\ jobs[j] \in JobRow \cup {None}
      /\ RowFollows(j) /\ ReportSoFar(j)
  BY JobKnown
<1>2. task[j].at = "look" /\ task[j].todo = <<>> /\ lost' = lost
  BY DEF Succeed
<1>3. jobs[j] # None /\ jobs[j] \in JobRow
  BY <1>1, <1>2 DEF RowFollows
<1>4. CASE /\ Mark(j, [status |-> "succeeded", found |-> Len(FoundBy(j)),
                       results |-> task[j].results])
           /\ saved' = saved \cup task[j].pending
           /\ Set(j, [Idle EXCEPT !.at = "gone"])
  <2>1. PICK done, n : done = task[j].results /\ n = Len(FoundBy(j))
    OBVIOUS
  <2>2. /\ Continues(done, task[j].todo, FoundBy(j)) /\ \A i \in DOMAIN done : Told(j, i, done[i])
    BY <1>1, <1>2, <2>1 DEF ReportSoFar, Working
  <2>3. done \in Report /\ Len(done) = n /\ n \in Nat
    <3>1. done \in Report /\ Len(done) \in Nat
      BY <2>2 DEF Continues, Report
    <3>2. Len(done) + 0 = n
      BY <1>2, <2>1, <2>2 DEF Continues
    <3> QED BY <3>1, <3>2
  <2>4. PICK fields : fields = [status |-> "succeeded", found |-> n, results |-> done]
    OBVIOUS
  <2>5. \A row \in JobRow : [f \in DOMAIN row |-> IF f \in DOMAIN fields THEN fields[f]
                                                                     ELSE row[f]] \in JobRow
    BY <2>3, <2>4 DEF JobRow
  <2>6. /\ DOMAIN jobs' = DOMAIN jobs /\ \A k \in DOMAIN Triggers \ {j} : jobs'[k] = jobs[k]
        /\ jobs'[j] \in JobRow /\ jobs'[j] # None
        /\ \A f \in DOMAIN jobs[j] :
             jobs'[j][f] = IF f \in DOMAIN fields THEN fields[f] ELSE jobs[j][f]
    <3>1. fields = [status |-> "succeeded", found |-> Len(FoundBy(j)),
                    results |-> task[j].results]
      BY <2>1, <2>4
    <3>2. Mark(j, fields)
      BY <1>4, <3>1
    <3> QED BY <1>3, <2>5, <3>2, Marking
  <2>7. jobs'[j].status = "succeeded" /\ jobs'[j].found = n /\ jobs'[j].results = done
    BY <1>3, <2>4, <2>6 DEF JobRow
  <2>8. UNCHANGED saved
    BY <1>1, <1>4
  <2>9. ReportTrue(j)'
    <3>1. \A i \in DOMAIN done : Told(j, i, done[i])'
      BY <2>2, <2>8, ToldStays
    <3> QED BY <2>3, <2>7, <3>1 DEF ReportTrue
  <2>10. Ended(j)'
    BY <2>6, <2>7 DEF Ended
  <2> QED BY <1>2, <1>4, <2>6, <2>7, <2>8, <2>9, <2>10, Leaving
<1>5. CASE /\ Set(j, [task[j] EXCEPT !.at = "raised", !.conn = "aborted"])
           /\ UNCHANGED <<jobs, saved>>
  <2>1. PICK place \in {"raised", "failed"} : place = "raised"
    OBVIOUS
  <2> QED BY <1>2, <1>5, <2>1, Faulting
<1> QED BY <1>4, <1>5 DEF Succeed

LEMMA FailInv ==
    ASSUME JobsInv, NEW j \in DOMAIN Triggers, Fail(j), UNCHANGED saved
    PROVE  JobsInv' /\ RateKept
<1>1. jobs[j] \in JobRow \cup {None} /\ RowFollows(j) /\ DOMAIN jobs = DOMAIN Triggers
  BY JobKnown
<1>2. task[j].at \in {"raised", "expired"} /\ Set(j, [Idle EXCEPT !.at = "gone"])
  BY DEF Fail
<1>3. jobs[j] # None /\ jobs[j] \in JobRow /\ jobs[j].status = "running"
  BY <1>1, <1>2 DEF RowFollows
<1>4. CASE Mark(j, [status |-> "failed", error |-> task[j].at]) /\ lost' = lost
  <2>1. PICK error \in {"raised", "expired"} : error = task[j].at
    BY <1>2
  <2>2. PICK fields : fields = [status |-> "failed", error |-> error]
    OBVIOUS
  <2>3. \A row \in JobRow : [f \in DOMAIN row |-> IF f \in DOMAIN fields THEN fields[f]
                                                                     ELSE row[f]] \in JobRow
    BY <2>2 DEF JobRow
  <2>4. /\ DOMAIN jobs' = DOMAIN jobs /\ \A k \in DOMAIN Triggers \ {j} : jobs'[k] = jobs[k]
        /\ jobs'[j] \in JobRow /\ jobs'[j] # None
        /\ \A f \in DOMAIN jobs[j] :
             jobs'[j][f] = IF f \in DOMAIN fields THEN fields[f] ELSE jobs[j][f]
    BY <1>3, <1>4, <2>1, <2>2, <2>3, Marking
  <2>5. jobs'[j].status = "failed"
    BY <1>3, <2>2, <2>4 DEF JobRow
  <2>6. Ended(j)' /\ ReportTrue(j)'
    BY <2>4, <2>5 DEF Ended, ReportTrue
  <2> QED BY <1>2, <1>4, <2>4, <2>5, <2>6, Leaving
<1>5. CASE lost' = lost \cup {j} /\ UNCHANGED jobs
  <2>1. ReportTrue(j)'
    BY <1>3, <1>5 DEF ReportTrue
  <2> QED BY <1>1, <1>2, <1>3, <1>5, <2>1, Leaving
<1> QED BY <1>4, <1>5 DEF Fail

LEMMA RestartInv ==
    ASSUME JobsInv, Restart
    PROVE  JobsInv' /\ RateKept
<1>1. /\ DOMAIN jobs = DOMAIN Triggers /\ DOMAIN task = DOMAIN Triggers
      /\ UNCHANGED <<jobs, saved>>
      /\ lost' = lost \cup {j \in DOMAIN task : task[j].at \notin {"none", "gone"}}
      /\ task' = [j \in DOMAIN task |->
                     IF j \in lost' THEN [Idle EXCEPT !.at = "gone"] ELSE task[j]]
  BY DEF JobsInv, JobsTyped, Restart
<1>2. PICK ended : ended = [Idle EXCEPT !.at = "gone"]
  OBVIOUS
<1>3. ended.at = "gone" /\ ended.pending = {} /\ DOMAIN ended = DOMAIN Idle
  BY <1>2 DEF Idle
<1>4. ASSUME NEW j \in DOMAIN Triggers
      PROVE  /\ DOMAIN task'[j] = DOMAIN Idle /\ task'[j].pending = {}
             /\ jobs'[j] \in JobRow \cup {None}
             /\ RowFollows(j)' /\ ReportSoFar(j)' /\ ReportTrue(j)'
             /\ task[j].rate = "set" /\ task'[j].at # "gone" => task'[j].rate = "set"
  <2>1. /\ DOMAIN task[j] = DOMAIN Idle /\ task[j].pending = {} /\ jobs[j] \in JobRow \cup {None}
        /\ RowFollows(j) /\ ReportSoFar(j) /\ ReportTrue(j)
    BY JobKnown
  <2>2. CASE j \in lost'
    <3>1. task'[j] = ended
      BY <1>1, <1>2, <2>2
    <3>2. task[j].at # "none"
      BY <1>1, <2>1, <2>2 DEF RowFollows
    <3>3. RowFollows(j)' /\ ReportSoFar(j)'
      BY <1>1, <1>3, <2>1, <2>2, <3>1, <3>2 DEF RowFollows, ReportSoFar, Working
    <3>4. ReportTrue(j)'
      BY <1>1, <2>1 DEF ReportTrue, Ended, Told, ExistingFor
    <3> QED BY <1>1, <1>3, <2>1, <3>1, <3>3, <3>4
  <2>3. CASE j \notin lost'
    <3>1. task'[j] = task[j] /\ j \notin lost
      BY <1>1, <2>3
    <3>2. RowFollows(j)' /\ ReportSoFar(j)' /\ ReportTrue(j)'
      BY <1>1, <2>1, <2>3, <3>1, OtherJobs
    <3> QED BY <1>1, <2>1, <3>1, <3>2
  <2> QED BY <2>2, <2>3
<1>5. DOMAIN jobs' = DOMAIN Triggers /\ DOMAIN task' = DOMAIN Triggers
  BY <1>1
<1>6. JobsTyped' /\ ReportsAreTrue' /\ RateKept
  BY <1>1, <1>4, <1>5 DEF JobsTyped, ReportsAreTrue, ReportTrue, RateKept
<1>7. DealsComeFromBegunJobs' /\ \A d \in (saved \ Underwritten)' : d.by \in DOMAIN Triggers
  BY <1>1 DEF JobsInv, DealsComeFromBegunJobs
<1> QED BY <1>4, <1>6, <1>7 DEF JobsInv

LEMMA JobsSteps ==
    ASSUME JobsInv, [JobsNext]_jobVars
    PROVE  JobsInv' /\ RateKept
<1>1. ASSUME NEW j \in DOMAIN Triggers,
             \/ Enqueue(j) /\ UNCHANGED <<saved, faults, lost, restarts>>
             \/ TaskStep(j) /\ UNCHANGED restarts
      PROVE  JobsInv' /\ RateKept
  <2>1. CASE Enqueue(j) /\ UNCHANGED <<saved, faults, lost, restarts>>
    BY <2>1, EnqueueInv
  <2>2. CASE TaskStep(j)
    BY <2>2, SaveListingInv, SucceedInv, StartInv, WarmInv, ListListingsInv, LookUpInv,
       PrepareInv, FailListingInv, FailInv DEF TaskStep
  <2> QED BY <1>1, <2>1, <2>2
<1>2. CASE UNCHANGED jobVars
  <2>1. /\ DOMAIN jobs = DOMAIN Triggers /\ DOMAIN task = DOMAIN Triggers
        /\ UNCHANGED <<jobs, task, saved, lost>>
    BY <1>2 DEF JobsInv, JobsTyped, jobVars
  <2>2. \A j \in DOMAIN Triggers : RowFollows(j)' /\ ReportSoFar(j)' /\ ReportTrue(j)'
    BY <2>1, JobKnown, OtherJobs
  <2>3. JobsTyped' /\ ReportsAreTrue' /\ RateKept /\ DealsComeFromBegunJobs'
    BY <2>1, <2>2 DEF JobsInv, JobsTyped, ReportsAreTrue, ReportTrue, RateKept,
       DealsComeFromBegunJobs
  <2> QED BY <2>1, <2>2, <2>3 DEF JobsInv
<1> QED BY <1>1, <1>2, RestartInv DEF JobsNext

\* Whatever statement fails and whenever the process restarts, a job's row follows its task,
\* and the report it is building is true of the deals committed.
THEOREM JobsInvariant == JobsSpec => []JobsInv
<1>1. JobsInv /\ [JobsNext]_jobVars => JobsInv'
  BY JobsSteps
<1> QED BY JobsStart, <1>1, PTL DEF JobsSpec

\* A job's row and its deals tell the same story, whatever fails and whenever the process
\* restarts, and the rate is fetched once.
THEOREM BatchesAreSafe == JobsSpec => BatchSafety
<1>1. JobsInv => ReportsAreTrue /\ OnlyLostJobsStick /\ DealsComeFromBegunJobs
  BY DEF JobsInv, JobsTyped, OnlyLostJobsStick, RowFollows
<1>2. JobsInv /\ [JobsNext]_jobVars =>
        [\A j \in DOMAIN task :
           task[j].rate = "set" /\ task[j].at \notin {"gone"} /\ task'[j].at \notin {"gone"}
              => task'[j].rate = "set"]_task
  BY JobsSteps DEF RateKept
<1> QED BY <1>1, <1>2, JobsInvariant, PTL DEF JobsSpec, BatchSafety, RateIsKept
-----------------------------------------------------------------------------
\* Backfills.

LEMMA RepairNames ==
    /\ Updatable("zpids") = {i \in DOMAIN oldDeal : MissingZpid(oldDeal[i])}
    /\ Updatable("rooms") = {i \in DOMAIN oldDeal : MissingRooms(oldDeal[i])}
    /\ Updatable("year") = {i \in DOMAIN oldDeal : MissingYear(oldDeal[i])}
    /\ Updatable("legacy zpids") = {i \in DOMAIN oldDeal :
          /\ oldDeal[i].legacy /\ oldDeal[i].zpid = None /\ oldDeal[i].url # None
          /\ LinkZpid[oldDeal[i].url] \in DOMAIN scrapedHome}
BY DEF Updatable

\* The report of the rooms counts what the update is to write.
LEMMA ReportsAgree ==
    ASSUME NEW name \in Repairs
    PROVE  Resolvable(name) = Updatable(name)
<1>1. ASSUME NEW i \in DOMAIN oldDeal
      PROVE  RoomsReported(oldDeal[i]) <=> MissingRooms(oldDeal[i])
  BY DEF RoomsReported, MissingRooms, RoomsFilled, First
<1> QED BY <1>1, RepairNames DEF Resolvable, Repairs

LEMMA RepairStart == RepairInit => RepairInv
<1> SUFFICES ASSUME RepairInit PROVE RepairInv
  OBVIOUS
<1>1. RepairTyped
  BY RepairAssumption DEF RepairInit, RepairTyped
<1>2. ZpidsAreScraped
  BY RepairAssumption DEF RepairInit, ZpidsAreScraped
<1> QED BY <1>1, <1>2 DEF RepairInit, RepairInv, ReportHolds, AgainIsSettled, WarnsOnlyOfRaces

LEMMA ReportRepairInv ==
    ASSUME RepairInv, NEW name \in Repairs, NEW dry \in BOOLEAN, ReportRepair(name, dry)
    PROVE  RepairInv'
<1> DEFINE found == Cardinality(Resolvable(name))
           chosen == IF name = "legacy zpids" /\ ~ dry
                     THEN [i \in Resolvable(name) |-> LinkZpid[oldDeal[i].url]] ELSE <<>>
<1>1. /\ repair' = [repair EXCEPT !.name = name, !.at = IF dry THEN "idle" ELSE "write",
            !.found = found, !.updated = IF dry THEN 0 ELSE None,
            !.again = ~ dry /\ name \in settled, !.chosen = chosen]
      /\ ~ meddled' /\ UNCHANGED <<oldDeal, scrapedHome, settled>>
  BY DEF ReportRepair
<1>2. DOMAIN repair = {"name", "at", "found", "chosen", "updated", "again"}
  BY DEF RepairInv, RepairTyped
<1>3. /\ repair'.name = name /\ repair'.at = (IF dry THEN "idle" ELSE "write")
      /\ repair'.found = found /\ repair'.updated = (IF dry THEN 0 ELSE None)
      /\ repair'.again = (~ dry /\ name \in settled) /\ repair'.chosen = chosen
      /\ DOMAIN repair' = DOMAIN repair
  BY <1>1, <1>2
<1>4. /\ \A n : Updatable(n)' = Updatable(n) /\ Resolvable(n)' = Resolvable(n)
      /\ \A d, f : RoomsFilled(d, f)' = RoomsFilled(d, f)
  BY <1>1 DEF Updatable, Resolvable, MissingZpid, MissingRooms, MissingYear, RoomsReported,
     CandidateZpid, RoomsFilled, Listing
<1>5. RepairTyped' /\ ZpidsAreScraped' /\ settled' \subseteq Repairs
  BY <1>1, <1>2, <1>3 DEF RepairInv, RepairTyped, ZpidsAreScraped
<1>6. \A n \in settled : Exhausted(n)'
  BY <1>1, <1>4 DEF RepairInv, Exhausted
<1>7. ReportHolds'
  <2> SUFFICES ASSUME ~ dry
               PROVE  ReportHolds'
    BY <1>3 DEF ReportHolds
  <2>1. name = "legacy zpids" => chosen = [i \in Updatable(name) |-> LinkZpid[oldDeal[i].url]]
                                 /\ DOMAIN chosen = Resolvable(name)
    BY ReportsAgree
  <2>2. CASE name # "legacy zpids"
    BY <1>1, <1>3, <1>4, <2>2 DEF ReportHolds
  <2>3. CASE name = "legacy zpids"
    <3>1. [i \in Updatable("legacy zpids") |-> LinkZpid[oldDeal[i].url]]'
            = [i \in Updatable("legacy zpids") |-> LinkZpid[oldDeal[i].url]]
      BY <1>1, <1>4
    <3>2. repair'.chosen = [i \in Updatable("legacy zpids") |-> LinkZpid[oldDeal[i].url]]'
          /\ repair'.found = Cardinality(DOMAIN repair'.chosen)
      BY <1>3, <2>1, <2>3, <3>1
    <3>3. repair'.found = Cardinality(Resolvable(repair.name))'
      BY <1>3, <1>4
    <3>4. repair'.name \in Repairs /\ repair'.updated = None
      BY <1>3
    <3> QED BY <3>2, <3>3, <3>4 DEF ReportHolds
  <2> QED BY <2>2, <2>3
<1>8. AgainIsSettled'
  <2>1. repair'.again => ~ dry /\ name \in settled
    BY <1>3, Zenon
  <2> SUFFICES ASSUME ~ dry, name \in settled, name # "rooms"
               PROVE  found = 0
    BY <1>1, <1>3, <2>1 DEF AgainIsSettled
  <2>2. Resolvable(name) = {}
    BY ReportsAgree DEF RepairInv, Exhausted
  <2> QED BY <2>2, FS_EmptySet
<1>9. WarnsOnlyOfRaces'
  BY <1>3 DEF WarnsOnlyOfRaces
<1> QED BY <1>1, <1>5, <1>6, <1>7, <1>8, <1>9 DEF RepairInv

\* What the scripts read of deals and listings that did not change is as it was.
LEMMA RepairsUnread ==
    ASSUME UNCHANGED <<oldDeal, scrapedHome>>
    PROVE  \A n : /\ Updatable(n)' = Updatable(n) /\ Resolvable(n)' = Resolvable(n)
                  /\ Exhausted(n)' = Exhausted(n)
<1>1. \A n : Updatable(n)' = Updatable(n) /\ Resolvable(n)' = Resolvable(n)
  BY DEF Updatable, Resolvable, MissingZpid, MissingRooms, MissingYear, RoomsReported,
     CandidateZpid, RoomsFilled, Listing
<1>2. \A d, f : RoomsFilled(d, f)' = RoomsFilled(d, f)
  BY DEF RoomsFilled, Listing
<1>3. ASSUME NEW n
      PROVE  Exhausted(n)' = Exhausted(n)
  <2>1. CASE n = "rooms"
    BY <1>1, <1>2, <2>1 DEF Exhausted
  <2>2. CASE n # "rooms"
    BY <1>1, <2>2 DEF Exhausted
  <2> QED BY <2>1, <2>2
<1> QED BY <1>1, <1>3

\* The UPDATE of a script, which ends it.
LEMMA RepairEnds ==
    ASSUME RepairInv, NEW rows, repair.at = "write", Ends(rows), RepairTyped', ZpidsAreScraped',
           ~ meddled => Exhausted(repair.name)',
           ~ meddled => Cardinality(rows) = repair.found
    PROVE  RepairInv'
<1>1. /\ repair' = [repair EXCEPT !.at = "idle", !.updated = Cardinality(rows), !.chosen = <<>>]
      /\ settled' = (IF meddled THEN {} ELSE {repair.name}) \cup {s \in settled : oldDeal' = oldDeal}
      /\ UNCHANGED <<scrapedHome, meddled>>
  BY DEF Ends
<1>2. DOMAIN repair = {"name", "at", "found", "chosen", "updated", "again"}
  BY DEF RepairInv, RepairTyped
<1>3. /\ repair'.name = repair.name /\ repair'.at = "idle" /\ repair'.found = repair.found
      /\ repair'.updated = Cardinality(rows) /\ repair'.again = repair.again
  BY <1>1, <1>2
<1>4. repair.name \in Repairs
  BY DEF RepairInv, ReportHolds
<1>5. settled' \subseteq Repairs
  BY <1>1, <1>4 DEF RepairInv
<1>6. ASSUME NEW n \in settled'
      PROVE  Exhausted(n)'
  <2>1. CASE ~ meddled /\ n = repair.name
    <3>1. n = repair'.name /\ Exhausted(repair.name)'
      BY <1>3, <2>1
    <3> QED BY <3>1, Zenon
  <2>2. CASE n \in settled /\ oldDeal' = oldDeal
    <3>1. UNCHANGED <<oldDeal, scrapedHome>>
      BY <1>1, <2>2
    <3> QED BY <2>2, <3>1, RepairsUnread DEF RepairInv
  <2> QED BY <1>1, <2>1, <2>2
<1>7. AgainIsSettled'
  BY <1>1, <1>3 DEF RepairInv, AgainIsSettled
<1>8. ReportHolds' /\ WarnsOnlyOfRaces'
  BY <1>1, <1>3 DEF ReportHolds, WarnsOnlyOfRaces
<1> QED BY <1>5, <1>6, <1>7, <1>8 DEF RepairInv

\* The script that runs, and what it is to write.
LEMMA RepairKnown ==
    ASSUME RepairInv
    PROVE  /\ None \notin DOMAIN scrapedHome
           /\ DOMAIN repair = {"name", "at", "found", "chosen", "updated", "again"}
           /\ \A i \in DOMAIN oldDeal :
                /\ DOMAIN oldDeal[i] = DealColumns /\ IsSnapshot(oldDeal[i].stored)
                /\ oldDeal[i].zpid \in DOMAIN scrapedHome \cup {None}
           /\ repair.at = "write" /\ ~ meddled =>
                repair.found = Cardinality(Updatable(repair.name))
BY ReportsAgree DEF RepairInv, RepairTyped, ZpidsAreScraped, ReportHolds

LEMMA EndingTyped ==
    ASSUME RepairInv, NEW rows, Ends(rows), DOMAIN oldDeal' = DOMAIN oldDeal,
           \A i \in DOMAIN oldDeal :
              /\ DOMAIN oldDeal'[i] = DealColumns /\ IsSnapshot(oldDeal'[i].stored)
              /\ oldDeal'[i].zpid \in DOMAIN scrapedHome \cup {None}
    PROVE  RepairTyped' /\ ZpidsAreScraped'
<1>1. /\ DOMAIN repair' = DOMAIN repair /\ repair'.at = "idle" /\ scrapedHome' = scrapedHome
  BY RepairKnown DEF Ends
<1> QED BY <1>1, RepairKnown DEF RepairTyped, ZpidsAreScraped, IsSnapshot

\* The room counts an analyst approved and the zpid of a deal.
Approved == \A i \in DOMAIN oldDeal : \A f \in {"zpid", "beds", "baths"} :
    oldDeal[i][f] # None => oldDeal'[i][f] = oldDeal[i][f]

LEMMA WriteZpidsInv ==
    ASSUME RepairInv, WriteZpids
    PROVE  RepairInv' /\ Approved
<1> DEFINE rows == Updatable("zpids")
<1>1. /\ repair.at = "write" /\ repair.name = "zpids" /\ Ends(rows)
      /\ oldDeal' = [i \in DOMAIN oldDeal |->
                        IF i \in rows THEN WithZpid(oldDeal[i]) ELSE oldDeal[i]]
  BY DEF WriteZpids, Updates
<1>2. rows = {i \in DOMAIN oldDeal : MissingZpid(oldDeal[i])}
  BY RepairNames
<1> HIDE DEF rows
<1>3. scrapedHome' = scrapedHome /\ DOMAIN oldDeal' = DOMAIN oldDeal
  BY <1>1 DEF Ends
<1>4. ASSUME NEW i \in DOMAIN oldDeal
      PROVE  /\ DOMAIN oldDeal'[i] = DealColumns /\ IsSnapshot(oldDeal'[i].stored)
             /\ oldDeal'[i].zpid \in DOMAIN scrapedHome \cup {None}
             /\ ~ MissingZpid(oldDeal'[i])
             /\ \A f \in {"zpid", "beds", "baths"} :
                  oldDeal[i][f] # None => oldDeal'[i][f] = oldDeal[i][f]
  <2>1. CASE i \in rows
    <3>1. oldDeal'[i] = WithZpid(oldDeal[i]) /\ MissingZpid(oldDeal[i])
      BY <1>1, <1>2, <2>1
    <3>2. /\ DOMAIN oldDeal'[i] = DealColumns /\ oldDeal'[i].stored = oldDeal[i].stored
          /\ oldDeal'[i].zpid = CandidateZpid(oldDeal[i])
          /\ oldDeal'[i].beds = oldDeal[i].beds /\ oldDeal'[i].baths = oldDeal[i].baths
      BY <3>1, RepairKnown DEF WithZpid, DealColumns
    <3> QED BY <3>1, <3>2, RepairKnown DEF MissingZpid
  <2>2. CASE i \notin rows
    BY <1>1, <1>2, <2>2, RepairKnown
  <2> QED BY <2>1, <2>2
<1>5. RepairTyped' /\ ZpidsAreScraped'
  BY <1>1, <1>3, <1>4, EndingTyped
<1>6. Exhausted("zpids")'
  <2>1. \A i \in DOMAIN oldDeal : ~ MissingZpid(oldDeal[i])'
    BY <1>3, <1>4 DEF MissingZpid, CandidateZpid
  <2> QED BY <1>3, <2>1, RepairNames DEF Exhausted, Updatable
<1>7. Exhausted(repair.name)'
  <2>1. repair'.name = "zpids"
    BY <1>1, RepairKnown DEF Ends
  <2> QED BY <1>6, <2>1
<1>8. ~ meddled => Cardinality(rows) = repair.found
  BY <1>1, RepairKnown DEF rows
<1>9. RepairInv'
  BY <1>1, <1>5, <1>7, <1>8, RepairEnds
<1> QED BY <1>4, <1>9 DEF Approved

LEMMA WriteRoomsInv ==
    ASSUME RepairInv, WriteRooms
    PROVE  RepairInv' /\ Approved
<1> DEFINE rows == Updatable("rooms")
<1>1. /\ repair.at = "write" /\ repair.name = "rooms" /\ Ends(rows)
      /\ oldDeal' = [i \in DOMAIN oldDeal |->
                        IF i \in rows THEN WithRooms(oldDeal[i]) ELSE oldDeal[i]]
  BY DEF WriteRooms, Updates
<1>2. rows = {i \in DOMAIN oldDeal : MissingRooms(oldDeal[i])}
  BY RepairNames
<1> HIDE DEF rows
<1>3. scrapedHome' = scrapedHome /\ DOMAIN oldDeal' = DOMAIN oldDeal
  BY <1>1 DEF Ends
<1>4. ASSUME NEW i \in DOMAIN oldDeal
      PROVE  /\ DOMAIN oldDeal'[i] = DealColumns /\ IsSnapshot(oldDeal'[i].stored)
             /\ oldDeal'[i].zpid \in DOMAIN scrapedHome \cup {None}
             /\ MissingRooms(oldDeal'[i]) =>
                  \E f \in {"beds", "baths"} : RoomsFilled(oldDeal'[i], f) = None
             /\ \A f \in {"zpid", "beds", "baths"} :
                  oldDeal[i][f] # None => oldDeal'[i][f] = oldDeal[i][f]
  <2>1. CASE i \in rows
    <3>1. oldDeal'[i] = WithRooms(oldDeal[i])
      BY <1>1, <1>2, <2>1
    <3>2. /\ DOMAIN oldDeal'[i] = DealColumns /\ oldDeal'[i].stored = oldDeal[i].stored
          /\ oldDeal'[i].zpid = oldDeal[i].zpid
          /\ oldDeal'[i].beds = RoomsFilled(oldDeal[i], "beds")
          /\ oldDeal'[i].baths = RoomsFilled(oldDeal[i], "baths")
      BY <3>1, RepairKnown DEF WithRooms, DealColumns
    <3>3. \A f \in {"beds", "baths"} : oldDeal[i][f] # None =>
             RoomsFilled(oldDeal[i], f) = oldDeal[i][f]
      BY DEF RoomsFilled, First
    <3>4. \A f \in {"beds", "baths"} : RoomsFilled(oldDeal[i], f) = None =>
             RoomsFilled(oldDeal'[i], f) = None
      BY <3>2 DEF RoomsFilled, First, Snapshot
    <3>5. MissingRooms(oldDeal'[i]) =>
             \E f \in {"beds", "baths"} : RoomsFilled(oldDeal[i], f) = None
      BY <3>2 DEF MissingRooms
    <3> QED BY <3>2, <3>3, <3>4, <3>5, RepairKnown
  <2>2. CASE i \notin rows
    BY <1>1, <1>2, <2>2, RepairKnown
  <2> QED BY <2>1, <2>2
<1>5. RepairTyped' /\ ZpidsAreScraped'
  BY <1>1, <1>3, <1>4, EndingTyped
<1>6. Exhausted("rooms")'
  <2> SUFFICES ASSUME NEW i \in Resolvable("rooms")'
               PROVE  (\E f \in {"beds", "baths"} : RoomsFilled(oldDeal[i], f) = None)'
    BY DEF Exhausted
  <2>1. i \in DOMAIN oldDeal /\ RoomsReported(oldDeal'[i])
    BY <1>3 DEF Resolvable, RoomsReported, RoomsFilled, Listing
  <2>2. MissingRooms(oldDeal'[i])
    BY <2>1 DEF RoomsReported, MissingRooms, RoomsFilled, First
  <2> QED BY <1>3, <1>4, <2>1, <2>2 DEF RoomsFilled, Listing
<1>7. Exhausted(repair.name)'
  <2>1. repair'.name = "rooms"
    BY <1>1, RepairKnown DEF Ends
  <2> QED BY <1>6, <2>1
<1>8. ~ meddled => Cardinality(rows) = repair.found
  BY <1>1, RepairKnown DEF rows
<1>9. RepairInv'
  BY <1>1, <1>5, <1>7, <1>8, RepairEnds
<1> QED BY <1>4, <1>9 DEF Approved

LEMMA WriteYearsInv ==
    ASSUME RepairInv, WriteYears
    PROVE  RepairInv' /\ Approved
<1> DEFINE rows == Updatable("year")
<1>1. /\ repair.at = "write" /\ repair.name = "year" /\ Ends(rows)
      /\ oldDeal' = [i \in DOMAIN oldDeal |->
                        IF i \in rows THEN WithYear(oldDeal[i]) ELSE oldDeal[i]]
  BY DEF WriteYears, Updates
<1>2. rows = {i \in DOMAIN oldDeal : MissingYear(oldDeal[i])}
  BY RepairNames
<1> HIDE DEF rows
<1>3. scrapedHome' = scrapedHome /\ DOMAIN oldDeal' = DOMAIN oldDeal
  BY <1>1 DEF Ends
<1>4. ASSUME NEW i \in DOMAIN oldDeal
      PROVE  /\ DOMAIN oldDeal'[i] = DealColumns /\ IsSnapshot(oldDeal'[i].stored)
             /\ oldDeal'[i].zpid \in DOMAIN scrapedHome \cup {None}
             /\ ~ MissingYear(oldDeal'[i])
             /\ \A f \in {"zpid", "beds", "baths"} : oldDeal'[i][f] = oldDeal[i][f]
  <2>1. CASE i \in rows
    <3>1. oldDeal'[i] = WithYear(oldDeal[i]) /\ MissingYear(oldDeal[i])
      BY <1>1, <1>2, <2>1
    <3>2. oldDeal[i].stored # None /\ DOMAIN oldDeal[i].stored = SnapshotColumns
      BY <3>1, RepairKnown DEF MissingYear, IsSnapshot
    <3>3. /\ DOMAIN oldDeal'[i] = DealColumns /\ DOMAIN oldDeal'[i].stored = SnapshotColumns
          /\ oldDeal'[i].zpid = oldDeal[i].zpid
          /\ oldDeal'[i].beds = oldDeal[i].beds /\ oldDeal'[i].baths = oldDeal[i].baths
          /\ oldDeal'[i].stored.year = Listing(oldDeal[i].zpid, "year")
      BY <3>1, <3>2, RepairKnown DEF WithYear, DealColumns, SnapshotColumns
    <3>4. ~ MissingYear(oldDeal'[i])
      BY <3>1, <3>3 DEF MissingYear, Snapshot
    <3> QED BY <3>3, <3>4, RepairKnown DEF IsSnapshot
  <2>2. CASE i \notin rows
    BY <1>1, <1>2, <2>2, RepairKnown
  <2> QED BY <2>1, <2>2
<1>5. RepairTyped' /\ ZpidsAreScraped'
  BY <1>1, <1>3, <1>4, EndingTyped
<1>6. Exhausted("year")'
  <2>1. \A i \in DOMAIN oldDeal : ~ MissingYear(oldDeal[i])'
    BY <1>3, <1>4 DEF MissingYear, Listing, Snapshot
  <2> QED BY <1>3, <2>1 DEF Exhausted, Updatable
<1>7. Exhausted(repair.name)'
  <2>1. repair'.name = "year"
    BY <1>1, RepairKnown DEF Ends
  <2> QED BY <1>6, <2>1
<1>8. ~ meddled => Cardinality(rows) = repair.found
  BY <1>1, RepairKnown DEF rows
<1>9. RepairInv'
  BY <1>1, <1>5, <1>7, <1>8, RepairEnds
<1> QED BY <1>4, <1>9 DEF Approved

LEMMA WriteLegacyZpidsInv ==
    ASSUME RepairInv, WriteLegacyZpids
    PROVE  RepairInv'
<1> DEFINE name == "legacy zpids"
<1>1. PICK chosen, rows : chosen = repair.chosen /\ rows = DOMAIN repair.chosen
  OBVIOUS
<1>2. /\ repair.at = "write" /\ repair.name = name /\ repair.found = Cardinality(rows)
      /\ ~ meddled => chosen = [i \in Updatable(name) |-> LinkZpid[oldDeal[i].url]]
  BY <1>1 DEF WriteLegacyZpids, RepairInv, ReportHolds
<1>3. CASE \E i \in rows : chosen[i] \notin DOMAIN scrapedHome
  <2>1. /\ repair' = [repair EXCEPT !.at = "idle", !.updated = 0, !.chosen = <<>>]
        /\ UNCHANGED <<oldDeal, scrapedHome>> /\ UNCHANGED <<meddled, settled>>
    BY <1>1, <1>3 DEF WriteLegacyZpids
  <2>2. /\ repair'.name = repair.name /\ repair'.at = "idle" /\ repair'.found = repair.found
        /\ repair'.updated = 0 /\ repair'.again = repair.again /\ DOMAIN repair' = DOMAIN repair
    BY <2>1, RepairKnown
  <2>3. RepairTyped' /\ ZpidsAreScraped' /\ ReportHolds' /\ AgainIsSettled' /\ WarnsOnlyOfRaces'
    BY <2>1, <2>2 DEF RepairInv, RepairTyped, ZpidsAreScraped, ReportHolds, AgainIsSettled,
       WarnsOnlyOfRaces
  <2>4. \A n \in settled' : Exhausted(n)'
    BY <2>1, RepairsUnread DEF RepairInv
  <2> QED BY <2>1, <2>3, <2>4 DEF RepairInv
<1>4. CASE \A i \in rows : chosen[i] \in DOMAIN scrapedHome
  <2>1. /\ Ends(rows)
        /\ oldDeal' = [i \in DOMAIN oldDeal |->
              IF i \in rows THEN [oldDeal[i] EXCEPT !.zpid = chosen[i]] ELSE oldDeal[i]]
    BY <1>1, <1>4 DEF WriteLegacyZpids
  <2>2. scrapedHome' = scrapedHome /\ DOMAIN oldDeal' = DOMAIN oldDeal
    BY <2>1 DEF Ends
  <2>3. ASSUME NEW i \in DOMAIN oldDeal
        PROVE  /\ DOMAIN oldDeal'[i] = DealColumns /\ IsSnapshot(oldDeal'[i].stored)
               /\ oldDeal'[i].zpid \in DOMAIN scrapedHome \cup {None}
               /\ i \in rows => oldDeal'[i].zpid # None
               /\ i \notin rows => oldDeal'[i] = oldDeal[i]
    <3>1. CASE i \in rows
      <4>1. oldDeal'[i] = [oldDeal[i] EXCEPT !.zpid = chosen[i]]
        BY <2>1, <3>1
      <4>2. /\ DOMAIN oldDeal'[i] = DealColumns /\ oldDeal'[i].stored = oldDeal[i].stored
            /\ oldDeal'[i].zpid = chosen[i]
        BY <4>1, RepairKnown DEF DealColumns
      <4> QED BY <1>4, <3>1, <4>2, RepairKnown
    <3>2. CASE i \notin rows
      BY <2>1, <3>2, RepairKnown
    <3> QED BY <3>1, <3>2
  <2>4. RepairTyped' /\ ZpidsAreScraped'
    BY <2>1, <2>2, <2>3, EndingTyped
  <2>5. ASSUME ~ meddled
        PROVE  Exhausted(name)' /\ Cardinality(rows) = repair.found
    <3>1. rows = Updatable(name)
      BY <1>1, <1>2, <2>5
    <3>2. ASSUME NEW i \in DOMAIN oldDeal
          PROVE  ~ /\ oldDeal'[i].legacy /\ oldDeal'[i].zpid = None /\ oldDeal'[i].url # None
                   /\ LinkZpid[oldDeal'[i].url] \in DOMAIN scrapedHome'
      BY <2>2, <2>3, <3>1, RepairNames
    <3> QED BY <1>2, <2>2, <3>2 DEF Exhausted, Updatable
  <2>6. ~ meddled => Exhausted(repair.name)'
    <3>1. repair'.name = name
      BY <1>2, <2>1, RepairKnown DEF Ends
    <3> QED BY <2>5, <3>1
  <2> QED BY <1>2, <2>1, <2>4, <2>5, <2>6, RepairEnds
<1> QED BY <1>3, <1>4

\* An edit or a scrape between the statements of a script, after which no report counts.
LEMMA MeddlingInv ==
    ASSUME RepairInv, meddled' = TRUE, settled' = {}, repair' = repair,
           None \notin DOMAIN scrapedHome',
           \A i \in DOMAIN oldDeal' :
              /\ DOMAIN oldDeal'[i] = DealColumns /\ IsSnapshot(oldDeal'[i].stored)
              /\ oldDeal'[i].zpid \in DOMAIN scrapedHome' \cup {None}
    PROVE  RepairInv'
<1>1. RepairTyped' /\ ZpidsAreScraped'
  BY DEF RepairInv, RepairTyped, ZpidsAreScraped, IsSnapshot
<1>2. ReportHolds' /\ AgainIsSettled' /\ WarnsOnlyOfRaces'
  BY DEF RepairInv, ReportHolds, AgainIsSettled, WarnsOnlyOfRaces
<1> QED BY <1>1, <1>2 DEF RepairInv

LEMMA EditOldDealInv ==
    ASSUME RepairInv, NEW e \in RowEdits, EditOldDeal(e)
    PROVE  RepairInv'
<1>1. /\ meddled' = TRUE /\ settled' = {} /\ repair' = repair /\ scrapedHome' = scrapedHome
      /\ "zpid" \in DOMAIN e.set => e.set.zpid \in DOMAIN scrapedHome \cup {None}
      /\ oldDeal' = [oldDeal EXCEPT ![e.on] =
            [c \in DOMAIN oldDeal[e.on] |-> IF c \in DOMAIN e.set THEN e.set[c] ELSE oldDeal[e.on][c]]]
  BY DEF EditOldDeal, Meddles
<1>2. ASSUME NEW i \in DOMAIN oldDeal'
      PROVE  /\ DOMAIN oldDeal'[i] = DealColumns /\ IsSnapshot(oldDeal'[i].stored)
             /\ oldDeal'[i].zpid \in DOMAIN scrapedHome \cup {None}
  <2>1. i \in DOMAIN oldDeal
    BY <1>1
  <2>2. CASE i = e.on
    <3>1. oldDeal'[i] = [c \in DOMAIN oldDeal[i] |->
                            IF c \in DOMAIN e.set THEN e.set[c] ELSE oldDeal[i][c]]
      BY <1>1, <2>1, <2>2
    <3>2. "stored" \in DealColumns /\ "zpid" \in DealColumns
      BY DEF DealColumns
    <3>3. "stored" \in DOMAIN e.set => IsSnapshot(e.set.stored)
      BY RepairAssumption
    <3> QED BY <1>1, <2>1, <3>1, <3>2, <3>3, RepairKnown
  <2>3. CASE i # e.on
    BY <1>1, <2>1, <2>3, RepairKnown
  <2> QED BY <2>2, <2>3
<1> QED BY <1>1, <1>2, RepairKnown, MeddlingInv

LEMMA AddHomeInv ==
    ASSUME RepairInv, NEW z \in DOMAIN MoreListings, AddHome(z)
    PROVE  RepairInv'
<1>1. /\ meddled' = TRUE /\ settled' = {} /\ repair' = repair /\ oldDeal' = oldDeal
      /\ DOMAIN scrapedHome' = DOMAIN scrapedHome \cup {z}
  BY DEF AddHome, Meddles
<1> QED BY <1>1, RepairKnown, RepairAssumption, MeddlingInv

LEMMA DropHomeInv ==
    ASSUME RepairInv, NEW z \in DOMAIN scrapedHome, DropHome(z)
    PROVE  RepairInv'
<1>1. /\ meddled' = TRUE /\ settled' = {} /\ repair' = repair
      /\ DOMAIN scrapedHome' = DOMAIN scrapedHome \ {z}
      /\ oldDeal' = [i \in DOMAIN oldDeal |->
            [oldDeal[i] EXCEPT !.zpid = IF oldDeal[i].zpid = z THEN None ELSE oldDeal[i].zpid]]
  BY DEF DropHome, Meddles
<1>2. ASSUME NEW i \in DOMAIN oldDeal'
      PROVE  /\ DOMAIN oldDeal'[i] = DealColumns /\ IsSnapshot(oldDeal'[i].stored)
             /\ oldDeal'[i].zpid \in DOMAIN scrapedHome' \cup {None}
  <2>1. i \in DOMAIN oldDeal /\ DOMAIN oldDeal[i] = DealColumns
    BY <1>1, RepairKnown
  <2>2. /\ DOMAIN oldDeal'[i] = DealColumns /\ oldDeal'[i].stored = oldDeal[i].stored
        /\ oldDeal'[i].zpid = IF oldDeal[i].zpid = z THEN None ELSE oldDeal[i].zpid
    BY <1>1, <2>1 DEF DealColumns
  <2> QED BY <1>1, <2>1, <2>2, RepairKnown
<1> QED BY <1>1, <1>2, RepairKnown, MeddlingInv

LEMMA RepairSteps ==
    ASSUME RepairInv, [RepairNext]_repairVars
    PROVE  /\ RepairInv'
           /\ WriteZpids \/ WriteRooms \/ WriteYears => Approved
<1>1. WriteZpids \/ WriteRooms \/ WriteYears => Approved
  BY WriteZpidsInv, WriteRoomsInv, WriteYearsInv
<1>2. CASE UNCHANGED repairVars
  <2>1. UNCHANGED <<oldDeal, scrapedHome>> /\ UNCHANGED <<repair, meddled, settled>>
    BY <1>2 DEF repairVars
  <2>2. \A n : Updatable(n)' = Updatable(n) /\ Resolvable(n)' = Resolvable(n)
               /\ Exhausted(n)' = Exhausted(n)
    BY <2>1, RepairsUnread
  <2>3. RepairTyped' /\ ZpidsAreScraped' /\ AgainIsSettled' /\ WarnsOnlyOfRaces'
    BY <2>1 DEF RepairInv, RepairTyped, ZpidsAreScraped, AgainIsSettled, WarnsOnlyOfRaces
  <2>4. ReportHolds'
    <3>1. [i \in Updatable("legacy zpids") |-> LinkZpid[oldDeal[i].url]]'
            = [i \in Updatable("legacy zpids") |-> LinkZpid[oldDeal[i].url]]
      BY <2>1, <2>2
    <3>2. Resolvable(repair.name)' = Resolvable(repair.name)
      BY <2>1, <2>2
    <3> QED BY <2>1, <3>1, <3>2 DEF RepairInv, ReportHolds
  <2>5. settled' \subseteq Repairs /\ \A n \in settled' : Exhausted(n)'
    <3>1. settled' = settled
      BY <2>1
    <3>2. ASSUME NEW n \in settled
          PROVE  Exhausted(n)'
      <4>1. Exhausted(n) /\ UNCHANGED <<oldDeal, scrapedHome>>
        BY <2>1 DEF RepairInv
      <4> QED BY <4>1, RepairsUnread
    <3> QED BY <3>1, <3>2 DEF RepairInv
  <2> QED BY <1>1, <2>3, <2>4, <2>5 DEF RepairInv
<1>3. ASSUME NEW name \in Repairs, NEW dry \in BOOLEAN, ReportRepair(name, dry)
      PROVE  RepairInv'
  BY <1>3, ReportRepairInv
<1>4. CASE RepairNext
  BY <1>3, <1>4, WriteZpidsInv, WriteRoomsInv, WriteYearsInv, WriteLegacyZpidsInv,
     EditOldDealInv, AddHomeInv, DropHomeInv DEF RepairNext
<1> QED BY <1>1, <1>2, <1>4

\* Whatever analysts and the scraper do between the two statements of a script, its report
\* still holds or it is known not to, and a script that ran undisturbed has nothing left to do.
THEOREM RepairInvariant == RepairSpec => []RepairInv
<1>1. RepairInv /\ [RepairNext]_repairVars => RepairInv'
  BY RepairSteps
<1> QED BY RepairStart, <1>1, PTL DEF RepairSpec

\* The backfills add what is missing and no more: they keep what is there, find nothing the
\* second time, warn of races only and store zpids of scraped listings.
THEOREM RepairsAreSafe == RepairSpec => RepairSafety
<1>1. RepairInv => WarnsOnlyOfRaces /\ RerunsFindNothing /\ ZpidsAreScraped
  BY DEF RepairInv, RerunsFindNothing, AgainIsSettled, Exhausted
<1>2. RepairInv /\ [RepairNext]_repairVars =>
        [\A i \in DOMAIN oldDeal :
           WriteZpids \/ WriteRooms \/ WriteYears =>
             \A f \in {"zpid", "beds", "baths"} :
                oldDeal[i][f] # None => oldDeal'[i][f] = oldDeal[i][f]]_repairVars
  BY RepairSteps DEF Approved
<1> QED BY <1>1, <1>2, RepairInvariant, PTL DEF RepairSpec, RepairSafety, RepairsKeepWhatIsThere

-----------------------------------------------------------------------------
\* The daily run over prices and pending flags.

LEMMA Listed ==
    ASSUME NEW S, NEW t \in Seq(S)
    PROVE  t \in Seq(ToSet(t))
<1>1. Len(t) \in Nat /\ t \in [1 .. Len(t) -> S] /\ DOMAIN t = 1 .. Len(t)
  BY LenProperties
<1>2. t \in [1 .. Len(t) -> ToSet(t)]
  BY <1>1 DEF ToSet
<1> QED BY <1>1, <1>2

LEMMA Appended ==
    ASSUME NEW s, s \in Seq(ToSet(s)), NEW x
    PROVE  /\ Append(s, x) \in Seq(ToSet(Append(s, x)))
           /\ Len(s) \in Nat /\ DOMAIN s = 1 .. Len(s)
           /\ Len(Append(s, x)) = Len(s) + 1
           /\ DOMAIN Append(s, x) = 1 .. Len(s) + 1
           /\ \A n \in DOMAIN s : Append(s, x)[n] = s[n]
           /\ Append(s, x)[Len(s) + 1] = x
<1> DEFINE S == ToSet(s) \cup {x}
<1>1. s \in Seq(S) /\ x \in S
  <2>1. Len(s) \in Nat /\ s \in [1 .. Len(s) -> ToSet(s)]
    BY LenProperties
  <2>2. s \in [1 .. Len(s) -> S]
    BY <2>1
  <2> QED BY <2>1, <2>2
<1> HIDE DEF S
<1>2. /\ Append(s, x) \in Seq(S) /\ Len(Append(s, x)) = Len(s) + 1
      /\ \A i \in 1 .. Len(s) : Append(s, x)[i] = s[i]
      /\ Append(s, x)[Len(s) + 1] = x
  BY <1>1, AppendProperties
<1>3. Len(s) \in Nat /\ DOMAIN s = 1 .. Len(s)
  BY <1>1, LenProperties
<1>4. DOMAIN Append(s, x) = 1 .. Len(Append(s, x))
  BY <1>2, LenProperties
<1> QED BY <1>2, <1>3, <1>4, Listed

LEMMA Rest ==
    ASSUME NEW s, s \in Seq(ToSet(s)), s # <<>>
    PROVE  Tail(s) \in Seq(ToSet(Tail(s))) /\ Len(Tail(s)) = Len(s) - 1
<1>1. Tail(s) \in Seq(ToSet(s)) /\ Len(Tail(s)) = Len(s) - 1
  BY HeadTailProperties
<1> QED BY <1>1, Listed

LEMMA Adding ==
    ASSUME NEW A, NEW B, IsFiniteSet(A), IsFiniteSet(B), A \cap B = {}
    PROVE  /\ IsFiniteSet(A \cup B)
           /\ Cardinality(A \cup B) = Cardinality(A) + Cardinality(B)
           /\ Cardinality(A) \in Nat /\ Cardinality(B) \in Nat
<1>1. /\ IsFiniteSet(A \cup B)
      /\ Cardinality(A \cup B) = Cardinality(A) + Cardinality(B) - Cardinality(A \cap B)
  BY FS_Union
<1>2. Cardinality(A) \in Nat /\ Cardinality(B) \in Nat /\ Cardinality(A \cap B) = 0
  BY FS_CardinalityType, FS_EmptySet
<1> QED BY <1>1, <1>2

LEMMA Earliest ==
    ASSUME NEW T, IsFiniteSet(T), T \subseteq Nat, T # {}
    PROVE  Min(T) \in T /\ \A y \in T : Min(T) <= y
<1> DEFINE m == Max(T)
           U == {m - x : x \in T}
<1>1. m \in T /\ \A y \in T : y <= m
  BY LargestId
<1>2. U \subseteq Nat /\ U # {} /\ \A u \in U : u <= m
  <2> HIDE DEF m
  <2> QED BY <1>1
<1> HIDE DEF m
<1>3. IsFiniteSet(U)
  BY <1>1, <1>2, FS_BoundedSetOfNaturals
<1>4. Max(U) \in U /\ \A u \in U : u <= Max(U)
  <2> HIDE DEF U
  <2> QED BY <1>2, <1>3, LargestId
<1>5. PICK x \in T : Max(U) = m - x
  BY <1>4
<1>6. \A y \in T : x <= y
  <2> TAKE y \in T
  <2>1. m - y \in U
    OBVIOUS
  <2>2. m - y <= m - x
    BY <1>4, <1>5, <2>1
  <2> QED BY <1>1, <2>2
<1> QED BY <1>6 DEF Min

LEMMA BookFinite == IsFiniteSet(DOMAIN Book) /\ DOMAIN Book \subseteq Nat
<1>1. Len(Book) \in Nat /\ DOMAIN Book = 1 .. Len(Book)
  BY PriceAssumption, LenProperties
<1> QED BY <1>1, FS_Interval

LEMMA ZpidsGrow ==
    ASSUME NEW R, R \in Seq(ToSet(R)), NEW x, NEW s
    PROVE  /\ Cardinality(ZpidsEnding(R, s)) \in Nat
           /\ Cardinality(ZpidsEnding(Append(R, x), s))
                = Cardinality(ZpidsEnding(R, s)) + (IF x.status = s THEN 1 ELSE 0)
<1> DEFINE T == Append(R, x)
           n == Len(R) + 1
<1>1. /\ Len(R) \in Nat /\ DOMAIN R = 1 .. Len(R) /\ DOMAIN T = 1 .. n
      /\ (\A k \in DOMAIN R : T[k] = R[k]) /\ T[n] = x
  BY Appended
<1>2. IsFiniteSet(ZpidsEnding(R, s)) /\ n \notin ZpidsEnding(R, s)
  <2>1. ZpidsEnding(R, s) \in SUBSET DOMAIN R /\ IsFiniteSet(DOMAIN R) /\ n \notin DOMAIN R
    BY <1>1, FS_Interval DEF ZpidsEnding
  <2> QED BY <2>1, FS_Subset
<1>3. ZpidsEnding(T, s) = IF x.status = s THEN ZpidsEnding(R, s) \cup {n} ELSE ZpidsEnding(R, s)
  <2>1. DOMAIN T = DOMAIN R \cup {n}
    BY <1>1
  <2> HIDE DEF T, n
  <2>2. \A k \in DOMAIN R : (k \in ZpidsEnding(T, s)) <=> (k \in ZpidsEnding(R, s))
    BY <1>1, <2>1 DEF ZpidsEnding
  <2>3. (n \in ZpidsEnding(T, s)) <=> (x.status = s)
    BY <1>1, <2>1 DEF ZpidsEnding
  <2>4. ZpidsEnding(T, s) \subseteq DOMAIN R \cup {n} /\ ZpidsEnding(R, s) \subseteq DOMAIN R
    BY <2>1 DEF ZpidsEnding
  <2>5. CASE x.status = s
    <3>1. \A k : (k \in ZpidsEnding(T, s)) <=> (k \in ZpidsEnding(R, s) \/ k = n)
      BY <2>2, <2>3, <2>4, <2>5
    <3> QED BY <2>5, <3>1
  <2>6. CASE x.status # s
    <3>1. \A k : (k \in ZpidsEnding(T, s)) <=> (k \in ZpidsEnding(R, s))
      BY <1>2, <2>2, <2>3, <2>4, <2>6
    <3> QED BY <2>6, <3>1
  <2> QED BY <2>5, <2>6
<1> QED BY <1>2, <1>3, FS_AddElement, FS_CardinalityType

LEMMA RowsGrow ==
    ASSUME NEW R, R \in Seq(ToSet(R)), NEW x, NEW s,
           NEW rows, rows = x.rows, DOMAIN rows \subseteq DOMAIN Book
    PROVE  /\ Cardinality(RowsEnding(R, s)) \in Nat
           /\ Cardinality(Marked(rows, s)) \in Nat
           /\ Cardinality(RowsEnding(Append(R, x), s))
                = Cardinality(RowsEnding(R, s)) + Cardinality(Marked(rows, s))
<1> DEFINE T == Append(R, x)
           n == Len(R) + 1
           C == Marked(rows, s)
           B == {<<n, i>> : i \in C}
<1>1. /\ Len(R) \in Nat /\ DOMAIN R = 1 .. Len(R) /\ DOMAIN T = 1 .. n
      /\ (\A k \in DOMAIN R : T[k] = R[k]) /\ T[n] = x
  BY Appended
<1>2. DOMAIN T = DOMAIN R \cup {n} /\ n \notin DOMAIN R
  BY <1>1
<1>3. IsFiniteSet(RowsEnding(R, s))
  <2>1. IsFiniteSet(DOMAIN R)
    BY <1>1, FS_Interval
  <2>2. IsFiniteSet((DOMAIN R) \X (DOMAIN Book))
    BY <2>1, BookFinite, FS_Product
  <2>3. RowsEnding(R, s) \in SUBSET ((DOMAIN R) \X (DOMAIN Book))
    BY DEF RowsEnding, Marked
  <2> QED BY <2>2, <2>3, FS_Subset
<1>4. IsFiniteSet(C) /\ C \subseteq DOMAIN Book
  <2>1. C \in SUBSET DOMAIN Book
    BY DEF Marked
  <2> QED BY <2>1, BookFinite, FS_Subset
<1>5. IsFiniteSet(B) /\ Cardinality(B) = Cardinality(C)
  <2> DEFINE f == [i \in C |-> <<n, i>>]
  <2>1. f \in Bijection(C, B)
    <3>1. f \in [C -> B] /\ \A i, j \in C : f[i] = f[j] => i = j
      OBVIOUS
    <3>2. \A b \in B : \E i \in C : f[i] = b
      OBVIOUS
    <3> HIDE DEF f, B, C
    <3> QED BY <3>1, <3>2 DEF Bijection, Injection, Surjection, IsInjective
  <2>2. ExistsBijection(C, B)
    BY <2>1 DEF ExistsBijection
  <2> HIDE DEF B, C
  <2> QED BY <1>4, <2>2, FS_Bijection
<1>6. RowsEnding(T, s) = RowsEnding(R, s) \cup B
  <2> HIDE DEF T, n
  <2>1. ASSUME NEW k \in DOMAIN R, NEW i \in DOMAIN Book
        PROVE  <<k, i>> \in RowsEnding(T, s) <=> <<k, i>> \in RowsEnding(R, s)
    BY <1>1, <1>2 DEF RowsEnding, Marked
  <2>2. ASSUME NEW i \in DOMAIN Book
        PROVE  <<n, i>> \in RowsEnding(T, s) <=> i \in C
    BY <1>1, <1>2 DEF RowsEnding, Marked
  <2>3. /\ RowsEnding(T, s) \subseteq (DOMAIN T) \X (DOMAIN Book)
        /\ RowsEnding(R, s) \subseteq (DOMAIN R) \X (DOMAIN Book)
    BY DEF RowsEnding, Marked
  <2>4. ASSUME NEW p \in RowsEnding(T, s)
        PROVE  p \in RowsEnding(R, s) \cup B
    <3>1. PICK k \in DOMAIN T, i \in DOMAIN Book : p = <<k, i>>
      BY <2>3
    <3> QED BY <1>2, <2>1, <2>2, <3>1
  <2>5. ASSUME NEW p \in RowsEnding(R, s)
        PROVE  p \in RowsEnding(T, s)
    <3>1. PICK k \in DOMAIN R, i \in DOMAIN Book : p = <<k, i>>
      BY <2>3
    <3> QED BY <2>1, <3>1
  <2>6. ASSUME NEW p \in B
        PROVE  p \in RowsEnding(T, s)
    BY <1>4, <2>2
  <2> QED BY <2>4, <2>5, <2>6
<1>7. RowsEnding(R, s) \cap B = {}
  BY <1>2 DEF RowsEnding, Marked
<1> QED
  <2> HIDE DEF B, C
  <2>1. Cardinality(RowsEnding(R, s) \cup B) = Cardinality(RowsEnding(R, s)) + Cardinality(C)
        /\ Cardinality(RowsEnding(R, s)) \in Nat /\ Cardinality(C) \in Nat
    BY <1>3, <1>5, <1>7, Adding
  <2> QED BY <1>6, <2>1 DEF C

LEMMA PriceStart == PriceInit => PriceInv
<1> SUFFICES ASSUME PriceInit PROVE PriceInv
  OBVIOUS
<1>1. /\ batch.at = "next" /\ batch.todo = Changed /\ batch.plan = <<>> /\ batch.results = <<>>
      /\ DOMAIN batch = {"at", "todo", "loaded", "plan", "results", "counts", "rowCounts"}
      /\ batch.counts = [s \in Outcomes |-> 0] /\ batch.rowCounts = [s \in Outcomes |-> 0]
      /\ failures = 0 /\ touches = 0 /\ newsFor = DOMAIN feed
  BY DEF PriceInit
<1>2. DOMAIN <<>> = {} /\ <<>> \in Seq(ToSet(<<>>)) /\ Len(<<>>) = 0
  BY EmptySeq
<1>3. stored = [i \in DOMAIN Book |-> [price |-> 1, terms |-> 1, metrics |-> MetricsOf(1, 1),
                                       closed |-> Book[i].closed, pending |-> FALSE]]
  BY DEF PriceInit
<1>4. PriceTyped
  BY <1>1, <1>2, <1>3, PriceAssumption DEF PriceTyped
<1>5. PlanKept
  BY <1>1 DEF PlanKept
<1>6. PlannedFailures /\ FailuresStayInTheirRow
  <2>1. {i \in DOMAIN batch.plan : batch.plan[i].status = "failed" /\ Book[i].complete} = {}
    BY <1>1, <1>2
  <2> QED BY <1>1, <1>2, <2>1, FS_EmptySet DEF PlannedFailures, FailuresStayInTheirRow
<1>7. OnlyRacesSkewMetrics
  BY <1>3 DEF OnlyRacesSkewMetrics, Consistent
<1>8. ReportsAddUp
  <2>1. Len(Changed) \in Nat
    BY PriceAssumption, LenProperties
  <2>2. ASSUME NEW s \in Outcomes
        PROVE  ZpidsEnding(batch.results, s) = {} /\ RowsEnding(batch.results, s) = {}
    BY <1>1, <1>2 DEF ZpidsEnding, RowsEnding
  <2> QED BY <1>1, <1>2, <2>1, <2>2, FS_EmptySet DEF ReportsAddUp
<1>9. FlagsTrailTheScrape
  BY <1>1 DEF FlagsTrailTheScrape
<1> QED BY <1>4, <1>5, <1>6, <1>7, <1>8, <1>9 DEF PriceInv

\* The failures among rows are finitely many.
LEMMA FewFailures ==
    ASSUME NEW rows, DOMAIN rows \subseteq DOMAIN Book
    PROVE  /\ IsFiniteSet(Broken(rows))
           /\ Cardinality(Broken(rows)) \in Nat
<1>1. Broken(rows) \in SUBSET DOMAIN Book
  BY DEF Broken
<1> QED BY <1>1, BookFinite, FS_Subset, FS_CardinalityType

\* The end of a zpid, whatever its status.
LEMMA Closing ==
    ASSUME PriceInv, batch.at \in {"loaded", "apply"}, NEW ended \in Outcomes, NEW rows,
           DOMAIN rows \subseteq DOMAIN Book, \A i \in DOMAIN rows : rows[i] \in Outcomes,
           (\E i \in DOMAIN rows : rows[i] = "failed") => ended = "failed",
           failures' \in Nat, failures' >= failures,
           Cardinality(Broken(rows)) <= failures,
           UNCHANGED <<stored, feed, touches, outrun, newsFor>>,
           DOMAIN batch' = DOMAIN batch, batch'.at = "next", batch'.plan = <<>>,
           batch'.todo = Tail(batch.todo),
           batch'.results =
             Append(batch.results, [zpid |-> Head(batch.todo), status |-> ended, rows |-> rows]),
           batch'.counts = Counted(batch.counts, ended),
           batch'.rowCounts = [s \in Outcomes |-> batch.rowCounts[s]
                                 + Cardinality(Marked(rows, s))]
    PROVE  PriceInv'
<1> DEFINE x == [zpid |-> Head(batch.todo), status |-> ended, rows |-> rows]
           n == Len(batch.results) + 1
<1>1. batch.todo # <<>> /\ batch.todo \in Seq(ToSet(batch.todo))
      /\ batch.results \in Seq(ToSet(batch.results))
  BY DEF PriceInv, PriceTyped, PlanKept
<1>2. batch'.todo \in Seq(ToSet(batch'.todo)) /\ Len(batch'.todo) = Len(batch.todo) - 1
  BY <1>1, Rest
<1>3. x.status = ended /\ x.rows = rows
  OBVIOUS
<1>4. /\ batch'.results \in Seq(ToSet(batch'.results))
      /\ Len(batch.results) \in Nat /\ DOMAIN batch.results = 1 .. Len(batch.results)
      /\ Len(batch'.results) = n /\ DOMAIN batch'.results = 1 .. n
      /\ (\A k \in DOMAIN batch.results : batch'.results[k] = batch.results[k])
      /\ batch'.results[n] = x
  <2> HIDE DEF x
  <2> QED BY <1>1, Appended DEF x
<1>5. DOMAIN batch'.results = DOMAIN batch.results \cup {n}
  BY <1>4
<1>6. ASSUME NEW s \in Outcomes
      PROVE  /\ batch'.counts[s] = batch.counts[s] + (IF ended = s THEN 1 ELSE 0)
             /\ batch'.counts[s] = Cardinality(ZpidsEnding(batch'.results, s))
             /\ batch'.rowCounts[s] = Cardinality(RowsEnding(batch'.results, s))
             /\ batch'.counts[s] \in Nat /\ batch'.rowCounts[s] \in Nat
  <2>1. /\ batch.counts \in [Outcomes -> Nat] /\ batch.rowCounts \in [Outcomes -> Nat]
        /\ batch.counts[s] = Cardinality(ZpidsEnding(batch.results, s))
        /\ batch.rowCounts[s] = Cardinality(RowsEnding(batch.results, s))
    BY DEF PriceInv, PriceTyped, ReportsAddUp
  <2>2. batch'.counts[s] = batch.counts[s] + (IF ended = s THEN 1 ELSE 0)
    BY <2>1 DEF Counted
  <2> HIDE DEF x
  <2>3. /\ Cardinality(ZpidsEnding(batch.results, s)) \in Nat
        /\ Cardinality(ZpidsEnding(Append(batch.results, x), s))
             = Cardinality(ZpidsEnding(batch.results, s)) + (IF x.status = s THEN 1 ELSE 0)
    BY <1>1, ZpidsGrow
  <2>5. /\ Cardinality(RowsEnding(batch.results, s)) \in Nat
        /\ Cardinality(Marked(rows, s)) \in Nat
        /\ Cardinality(RowsEnding(Append(batch.results, x), s))
             = Cardinality(RowsEnding(batch.results, s))
               + Cardinality(Marked(rows, s))
    BY <1>1, <1>3, RowsGrow
  <2>6. batch'.results = Append(batch.results, x)
    BY DEF x
  <2>7. batch'.rowCounts[s] = batch.rowCounts[s]
                                + Cardinality(Marked(rows, s))
    OBVIOUS
  <2>8. batch'.counts[s] = Cardinality(ZpidsEnding(batch'.results, s)) /\ batch'.counts[s] \in Nat
    BY <1>3, <2>1, <2>2, <2>3, <2>6
  <2>9. batch'.rowCounts[s] = Cardinality(RowsEnding(batch'.results, s))
        /\ batch'.rowCounts[s] \in Nat
    BY <2>1, <2>5, <2>6, <2>7
  <2> QED BY <2>2, <2>8, <2>9
<1> HIDE DEF x, n
<1>7. PriceTyped'
  <2>1. batch'.counts \in [Outcomes -> Nat] /\ batch'.rowCounts \in [Outcomes -> Nat]
    <3>1. DOMAIN batch'.counts = Outcomes /\ batch'.counts = [s \in Outcomes |-> batch'.counts[s]]
      BY DEF Counted, PriceInv, PriceTyped
    <3> QED BY <1>6, <3>1
  <2>2. \A k \in DOMAIN batch'.results : DOMAIN batch'.results[k].rows \subseteq DOMAIN Book
    BY <1>3, <1>4, <1>5 DEF PriceInv, PriceTyped
  <2> QED BY <1>2, <1>4, <2>1, <2>2 DEF PriceInv, PriceTyped
<1>8. PlanKept'
  BY DEF PlanKept
<1>9. PlannedFailures'
  <2>1. DOMAIN batch'.plan = {}
    BY EmptySeq
  <2>2. {i \in DOMAIN batch'.plan : batch'.plan[i].status = "failed" /\ Book[i].complete} = {}
    BY <2>1
  <2> QED BY <2>2, FS_EmptySet DEF PlannedFailures
<1>10. OnlyRacesSkewMetrics' /\ FlagsTrailTheScrape'
  BY DEF PriceInv, OnlyRacesSkewMetrics, FlagsTrailTheScrape, Consistent
<1>11. FailuresStayInTheirRow'
  <2>1. ASSUME NEW k \in DOMAIN batch'.results, NEW these, these = batch'.results[k].rows
        PROVE  Cardinality(Broken(these))
                 <= failures'
    <3>1. failures \in Nat /\ DOMAIN these \subseteq DOMAIN Book
      BY <1>7, <2>1 DEF PriceInv, PriceTyped
    <3>2. Cardinality(Broken(these)) <= failures
      <4>1. CASE k \in DOMAIN batch.results
        <5>1. these = batch.results[k].rows
          BY <1>4, <2>1, <4>1
        <5> QED BY <4>1, <5>1 DEF PriceInv, FailuresStayInTheirRow
      <4>2. CASE k = n
        <5>1. these = rows
          BY <1>3, <1>4, <2>1, <4>2
        <5> QED BY <5>1
      <4> QED BY <1>5, <2>1, <4>1, <4>2
    <3> QED BY <3>1, <3>2, FewFailures
  <2> QED BY <2>1 DEF FailuresStayInTheirRow
<1>12. ReportsAddUp'
  <2>1. Len(batch'.results) + Len(batch'.todo) = Len(Changed)
    <3>1. Len(batch.results) + Len(batch.todo) = Len(Changed) /\ Len(batch.todo) \in Nat
      BY <1>1, LenProperties DEF PriceInv, ReportsAddUp
    <3>2. Len(batch'.results) = Len(batch.results) + 1 /\ Len(batch.results) \in Nat
      BY <1>4 DEF n
    <3>3. Len(batch'.todo) = Len(batch.todo) - 1
      BY <1>2
    <3>4. Len(Changed) \in Nat
      BY PriceAssumption, LenProperties
    <3> DEFINE a == Len(batch.results)  t == Len(batch.todo)
               b == Len(batch'.results)  u == Len(batch'.todo)  c == Len(Changed)
    <3>5. a \in Nat /\ t \in Nat /\ c \in Nat /\ a + t = c /\ b = a + 1 /\ u = t - 1
      BY <3>1, <3>2, <3>3, <3>4
    <3> HIDE DEF a, t, b, u, c
    <3>6. b + u = c
      BY ONLY <3>5
    <3> QED BY <3>6 DEF b, u, c
  <2>2. ASSUME NEW k \in DOMAIN batch'.results
        PROVE  LET r == batch'.results[k]
               IN  /\ {r.status} \cup {r.rows[i] : i \in DOMAIN r.rows} \subseteq Outcomes
                   /\ (\E i \in DOMAIN r.rows : r.rows[i] = "failed") => r.status = "failed"
    <3>1. CASE k \in DOMAIN batch.results
      BY <1>4, <3>1 DEF PriceInv, ReportsAddUp
    <3>2. CASE k = n
      BY <1>3, <1>4, <3>2
    <3> QED BY <1>5, <3>1, <3>2
  <2> QED BY <1>6, <2>1, <2>2 DEF ReportsAddUp
<1> QED BY <1>7, <1>8, <1>9, <1>10, <1>11, <1>12 DEF PriceInv

\* A step between the ends of zpids changes no report.
LEMMA SameReports ==
    ASSUME PriceInv, failures' \in Nat, failures' >= failures,
           batch'.todo = batch.todo, batch'.results = batch.results,
           batch'.counts = batch.counts, batch'.rowCounts = batch.rowCounts
    PROVE  ReportsAddUp' /\ FailuresStayInTheirRow'
<1>1. ReportsAddUp'
  BY DEF PriceInv, ReportsAddUp
<1>2. FailuresStayInTheirRow'
  <2>1. ASSUME NEW k \in DOMAIN batch.results, NEW these, these = batch.results[k].rows
        PROVE  Cardinality(Broken(these))
                 <= failures'
    <3>1. failures \in Nat /\ DOMAIN these \subseteq DOMAIN Book
      BY <2>1 DEF PriceInv, PriceTyped
    <3>2. Cardinality(Broken(these)) <= failures
      BY <2>1 DEF PriceInv, FailuresStayInTheirRow
    <3> QED BY <3>1, <3>2, FewFailures
  <2> QED BY <2>1 DEF FailuresStayInTheirRow
<1> QED BY <1>1, <1>2

\* A step of the run that ends no zpid and writes no deal.
LEMMA Between ==
    ASSUME PriceInv, UNCHANGED <<stored, feed, touches, outrun, newsFor>>,
           DOMAIN batch' = DOMAIN batch, batch'.at \in {"next", "loaded", "apply", "done"},
           batch'.todo = batch.todo, batch'.results = batch.results,
           batch'.counts = batch.counts, batch'.rowCounts = batch.rowCounts,
           failures' \in Nat, failures' >= failures, PlanKept', PlannedFailures'
    PROVE  PriceInv'
<1>1. PriceTyped'
  BY DEF PriceInv, PriceTyped
<1>2. OnlyRacesSkewMetrics' /\ FlagsTrailTheScrape'
  BY DEF PriceInv, OnlyRacesSkewMetrics, FlagsTrailTheScrape, Consistent
<1>3. ReportsAddUp' /\ FailuresStayInTheirRow'
  BY SameReports
<1> QED BY <1>1, <1>2, <1>3 DEF PriceInv

LEMMA NoPlanNoFailure ==
    ASSUME NEW plan, plan = <<>>
    PROVE  Cardinality({i \in DOMAIN plan : plan[i].status = "failed" /\ Book[i].complete}) = 0
<1>1. DOMAIN plan = {}
  BY EmptySeq
<1>2. {i \in DOMAIN plan : plan[i].status = "failed" /\ Book[i].complete} = {}
  BY <1>1
<1> QED BY <1>2, FS_EmptySet

LEMMA LoadDealsInv ==
    ASSUME PriceInv, LoadDeals
    PROVE  PriceInv'
<1>1. /\ batch.at = "next" /\ batch.todo # <<>> /\ batch.plan = <<>>
      /\ DOMAIN batch = {"at", "todo", "loaded", "plan", "results", "counts", "rowCounts"}
      /\ failures \in Nat
  BY DEF LoadDeals, PriceInv, PriceTyped, PlanKept
<1>2. /\ DOMAIN batch' = DOMAIN batch /\ batch'.at = "loaded"
      /\ batch'.loaded = [i \in DealsOf(Head(batch.todo)) |-> stored[i]]
      /\ batch'.todo = batch.todo /\ batch'.plan = <<>> /\ batch'.results = batch.results
      /\ batch'.counts = batch.counts /\ batch'.rowCounts = batch.rowCounts
  BY <1>1 DEF LoadDeals
<1>3. UNCHANGED <<stored, feed, touches, outrun, newsFor>> /\ failures' = failures
  BY DEF LoadDeals
<1>4. PlanKept'
  BY <1>1, <1>2, <1>3 DEF PlanKept, Unmoved, DealsOf
<1>5. PlannedFailures'
  BY <1>1, <1>2, <1>3, NoPlanNoFailure DEF PlannedFailures
<1> QED BY <1>1, <1>2, <1>3, <1>4, <1>5, Between

LEMMA FailZpidInv ==
    ASSUME PriceInv, FailZpid
    PROVE  PriceInv'
<1>1. /\ batch.at = "loaded" /\ batch.plan = <<>>
      /\ DOMAIN batch = {"at", "todo", "loaded", "plan", "results", "counts", "rowCounts"}
      /\ batch.rowCounts \in [Outcomes -> Nat] /\ failures \in Nat
  BY DEF FailZpid, PriceInv, PriceTyped, PlanKept
<1>2. /\ DOMAIN batch' = DOMAIN batch /\ batch'.at = "next" /\ batch'.plan = <<>>
      /\ batch'.todo = Tail(batch.todo)
      /\ batch'.results = Append(batch.results,
            [zpid |-> Head(batch.todo), status |-> "failed", rows |-> <<>>])
      /\ batch'.counts = Counted(batch.counts, "failed") /\ batch'.rowCounts = batch.rowCounts
      /\ failures' = failures + 1 /\ UNCHANGED <<stored, feed, touches, outrun, newsFor>>
  BY <1>1 DEF FailZpid
<1>3. PICK rows : rows = <<>>
  OBVIOUS
<1>4. DOMAIN rows = {}
  BY <1>3, EmptySeq
<1>5. Broken(rows) = {} /\ \A s : Marked(rows, s) = {}
  BY <1>4 DEF Broken, Marked
<1>6. Cardinality(Broken(rows)) <= failures /\ \A s : Cardinality(Marked(rows, s)) = 0
  BY <1>1, <1>5, FS_EmptySet
<1>7. batch'.rowCounts = [s \in Outcomes |-> batch.rowCounts[s] + Cardinality(Marked(rows, s))]
  BY <1>1, <1>2, <1>6
<1>8. "failed" \in Outcomes
  BY DEF Outcomes
<1> QED BY <1>1, <1>2, <1>3, <1>4, <1>6, <1>7, <1>8, Closing

LEMMA PlanRowsInv ==
    ASSUME PriceInv, PlanRows
    PROVE  PriceInv'
<1> DEFINE z == Head(batch.todo)
           price == IF z \in DOMAIN feed THEN PriceOf(feed[z]) ELSE None
<1>1. /\ batch.at = "loaded" /\ batch.plan = <<>> /\ batch.todo # <<>>
      /\ DOMAIN batch = {"at", "todo", "loaded", "plan", "results", "counts", "rowCounts"}
      /\ DOMAIN batch.loaded = DealsOf(z)
      /\ (\A i \in DOMAIN batch.loaded \ outrun : Unmoved(i))
      /\ DealsOf(z) \subseteq DOMAIN Book /\ failures \in Nat
  BY DEF PlanRows, PriceInv, PriceTyped, PlanKept, DealsOf
<1>2. UNCHANGED <<stored, feed, touches, failures, outrun, newsFor>>
  BY DEF PlanRows
<1>3. ASSUME NEW ended \in Outcomes, ended # "failed", NEW rows, Finish(ended, rows),
             DOMAIN rows \subseteq DOMAIN Book, \A i \in DOMAIN rows : rows[i] = ended
      PROVE  PriceInv'
  <2>1. /\ DOMAIN batch' = DOMAIN batch /\ batch'.at = "next" /\ batch'.plan = <<>>
        /\ batch'.todo = Tail(batch.todo)
        /\ batch'.results =
             Append(batch.results, [zpid |-> Head(batch.todo), status |-> ended, rows |-> rows])
        /\ batch'.counts = Counted(batch.counts, ended)
        /\ batch'.rowCounts = [s \in Outcomes |-> batch.rowCounts[s] + Cardinality(Marked(rows, s))]
    BY <1>1, <1>3 DEF Finish
  <2>2. Broken(rows) = {}
    BY <1>3 DEF Broken
  <2>3. Cardinality(Broken(rows)) <= failures
    BY <1>1, <2>2, FS_EmptySet
  <2> QED BY <1>1, <1>2, <1>3, <2>1, <2>3, Closing
<1>4. CASE DealsOf(z) = {}
  <2>1. Finish("skipped_no_underwriting", <<>>)
    BY <1>4 DEF PlanRows
  <2>2. DOMAIN <<>> = {} /\ "skipped_no_underwriting" \in Outcomes
    BY EmptySeq DEF Outcomes
  <2> QED BY <1>3, <2>1, <2>2
<1>5. CASE DealsOf(z) # {} /\ price = None
  <2>1. PICK rows : rows = [i \in DealsOf(z) |-> "skipped_no_purchase_price"]
    OBVIOUS
  <2>2. Finish("skipped_no_purchase_price", rows)
    BY <1>5, <2>1 DEF PlanRows
  <2>3. "skipped_no_purchase_price" \in Outcomes
    BY DEF Outcomes
  <2> QED BY <1>1, <1>3, <2>1, <2>2, <2>3
<1>6. CASE DealsOf(z) # {} /\ price # None
  <2>1. batch' = [batch EXCEPT !.at = "apply", !.plan =
                    [i \in DealsOf(z) |->
                        [price |-> price, terms |-> batch.loaded[i].terms,
                         status |-> PlanStatus(i, batch.loaded[i], price)]]]
    BY <1>6 DEF PlanRows
  <2> HIDE DEF price
  <2>2. /\ DOMAIN batch' = DOMAIN batch /\ batch'.at = "apply" /\ batch'.loaded = batch.loaded
        /\ batch'.todo = batch.todo /\ batch'.results = batch.results
        /\ batch'.counts = batch.counts /\ batch'.rowCounts = batch.rowCounts
        /\ batch'.plan = [i \in DealsOf(z) |->
                        [price |-> price, terms |-> batch.loaded[i].terms,
                         status |-> PlanStatus(i, batch.loaded[i], price)]]
    BY <1>1, <2>1
  <2>3. ASSUME NEW i \in DealsOf(z)
        PROVE  /\ DOMAIN batch'.plan[i] = {"price", "terms", "status"}
               /\ batch'.plan[i].terms = batch.loaded[i].terms
               /\ batch'.plan[i].status = PlanStatus(i, batch.loaded[i], price)
               /\ batch'.plan[i].status \in RowOutcomes \cup {"todo"}
    BY <2>2 DEF PlanStatus, RowOutcomes
  <2>4. ASSUME NEW i \in DealsOf(z), batch'.plan[i].status = "todo", i \notin outrun
        PROVE  batch'.plan[i].terms = stored[i].terms /\ ~ stored[i].closed /\ Unmoved(i)
    <3>1. Unmoved(i)
      BY <1>1, <2>4
    <3>2. ~ batch.loaded[i].closed
      BY <2>3, <2>4 DEF PlanStatus
    <3> QED BY <2>3, <3>1, <3>2 DEF Unmoved
  <2>5. Unmoved(1)' = Unmoved(1) /\ \A i : Unmoved(i)' = Unmoved(i)
    BY <1>2, <2>2 DEF Unmoved
  <2>6. PlanKept'
    <3>1. DOMAIN batch'.plan = DealsOf(z) /\ DealsOf(z)' = DealsOf(z)
      BY <2>2 DEF DealsOf
    <3>2. ToApply' = {i \in DealsOf(z) : batch'.plan[i].status = "todo"}
      BY <3>1 DEF ToApply
    <3>3. \A i \in (ToApply \ outrun)' :
             /\ batch'.plan[i].terms = stored'[i].terms /\ ~ stored'[i].closed /\ Unmoved(i)'
      BY <1>2, <2>4, <2>5, <3>2
    <3> QED BY <1>1, <1>2, <2>2, <2>3, <3>1, <3>3 DEF PlanKept
  <2>7. PlannedFailures'
    <3>1. ASSUME NEW i \in DealsOf(z), batch'.plan[i].status = "failed"
          PROVE  ~ Book[i].complete
      <4>1. PlanStatus(i, batch.loaded[i], price) = "failed"
        BY <2>3, <3>1
      <4>2. Book[i].complete => PlanStatus(i, batch.loaded[i], price)
                \in {"skipped_terminal_status", "skipped_same_price", "todo"}
        BY DEF PlanStatus
      <4> QED BY <4>1, <4>2
    <3>2. {i \in DOMAIN batch'.plan : batch'.plan[i].status = "failed" /\ Book[i].complete} = {}
      BY <2>2, <3>1
    <3>3. Cardinality({}) <= failures'
      BY <1>1, <1>2, FS_EmptySet
    <3> QED BY <3>2, <3>3 DEF PlannedFailures
  <2> QED BY <1>1, <1>2, <2>2, <2>6, <2>7, Between
<1> QED BY <1>4, <1>5, <1>6

\* The row whose turn it is.
LEMMA NextRow ==
    ASSUME PriceInv, batch.at = "apply", ToApply # {}
    PROVE  /\ Min(ToApply) \in ToApply /\ ToApply \subseteq DOMAIN batch.plan
           /\ DOMAIN batch.plan \subseteq DOMAIN Book
<1>1. DOMAIN batch.plan \subseteq DOMAIN Book
  BY DEF PriceInv, PlanKept, DealsOf
<1>2. ToApply \in SUBSET DOMAIN Book /\ ToApply \subseteq DOMAIN batch.plan
  BY <1>1 DEF ToApply
<1>3. IsFiniteSet(ToApply) /\ ToApply \subseteq Nat
  BY <1>2, BookFinite, FS_Subset
<1> QED BY <1>1, <1>2, <1>3, Earliest

LEMMA ApplyRowInv ==
    ASSUME PriceInv, ApplyRow
    PROVE  /\ PriceInv'
           /\ \A i \in DOMAIN stored :
                stored[i].closed /\ stored'[i].price # stored[i].price => i \in outrun
<1>1. PICK k \in ToApply : k = Min(ToApply)
  BY NextRow DEF ApplyRow
<1>2. /\ batch.at = "apply" /\ batch.todo # <<>> /\ k \in DOMAIN batch.plan /\ k \in DOMAIN Book
      /\ batch.plan[k].status = "todo"
      /\ DOMAIN batch = {"at", "todo", "loaded", "plan", "results", "counts", "rowCounts"}
      /\ DOMAIN batch.plan = DOMAIN batch.loaded /\ DOMAIN batch.loaded = DealsOf(Head(batch.todo))
      /\ DOMAIN stored = DOMAIN Book /\ failures \in Nat
  BY <1>1, NextRow DEF ApplyRow, PriceInv, PriceTyped, PlanKept, ToApply
<1>3. /\ stored' = [stored EXCEPT ![k] = Flushed(stored[k], Instance(k), NewValues(batch.plan[k]))]
      /\ batch' = [batch EXCEPT !.plan[k].status = "updated"]
      /\ UNCHANGED <<feed, touches, failures, outrun, newsFor>>
  BY <1>1 DEF ApplyRow
<1>4. /\ DOMAIN batch' = DOMAIN batch /\ batch'.at = "apply" /\ batch'.loaded = batch.loaded
      /\ batch'.todo = batch.todo /\ batch'.results = batch.results
      /\ batch'.counts = batch.counts /\ batch'.rowCounts = batch.rowCounts
      /\ batch'.plan = [batch.plan EXCEPT ![k].status = "updated"]
  BY <1>2, <1>3
<1>5. /\ DOMAIN stored' = DOMAIN stored
      /\ \A i \in DOMAIN stored : i # k => stored'[i] = stored[i]
      /\ stored'[k] = Flushed(stored[k], Instance(k), NewValues(batch.plan[k]))
  BY <1>2, <1>3
<1>6. DOMAIN stored[k] = {"price", "terms", "metrics", "closed", "pending"}
      /\ stored[k].closed \in BOOLEAN
  BY <1>2 DEF PriceInv, PriceTyped
<1>7. /\ DOMAIN stored'[k] = DOMAIN stored[k]
      /\ stored'[k].closed = stored[k].closed /\ stored'[k].pending = stored[k].pending
  BY <1>5, <1>6 DEF Flushed, NewValues
<1>8. /\ DOMAIN batch'.plan = DOMAIN batch.plan
      /\ \A i \in DOMAIN batch.plan : i # k => batch'.plan[i] = batch.plan[i]
      /\ DOMAIN batch'.plan[k] = DOMAIN batch.plan[k] /\ batch'.plan[k].status = "updated"
  <2>1. DOMAIN batch.plan[k] = {"price", "terms", "status"}
    BY <1>2 DEF PriceInv, PlanKept
  <2> QED BY <1>2, <1>4, <2>1
<1>9. PriceTyped'
  BY <1>2, <1>3, <1>4, <1>5, <1>6, <1>7 DEF PriceInv, PriceTyped
<1>10. ToApply' = ToApply \ {k}
  BY <1>2, <1>8 DEF ToApply
<1>11. PlanKept'
  <2>1. ASSUME NEW i \in ToApply \ {k}, i \notin outrun
        PROVE  /\ batch'.plan[i].terms = stored'[i].terms /\ ~ stored'[i].closed
               /\ batch'.loaded[i] = None \/ Unmoved(i)'
    <3>1. i \in DOMAIN batch.plan /\ i \in DOMAIN stored /\ i # k
      BY <1>2, <2>1, NextRow DEF ToApply
    <3>2. batch'.plan[i] = batch.plan[i] /\ stored'[i] = stored[i]
      BY <1>5, <1>8, <3>1
    <3> QED BY <1>2, <1>4, <2>1, <3>2 DEF PriceInv, PlanKept, Unmoved
  <2>2. ASSUME NEW i \in DOMAIN batch'.plan
        PROVE  /\ DOMAIN batch'.plan[i] = {"price", "terms", "status"}
               /\ batch'.plan[i].status \in RowOutcomes \cup {"todo"}
    BY <1>2, <1>8 DEF PriceInv, PlanKept, RowOutcomes
  <2> QED BY <1>2, <1>3, <1>4, <1>8, <1>10, <2>1, <2>2 DEF PlanKept, DealsOf
<1>12. PlannedFailures'
  <2>1. {i \in DOMAIN batch'.plan : batch'.plan[i].status = "failed" /\ Book[i].complete}
          = {i \in DOMAIN batch.plan : batch.plan[i].status = "failed" /\ Book[i].complete}
    BY <1>2, <1>8
  <2> QED BY <1>3, <2>1 DEF PriceInv, PlannedFailures
<1>13. k \notin outrun => stored'[k].metrics = MetricsOf(stored'[k].price, stored'[k].terms)
                          /\ ~ stored[k].closed
  <2> SUFFICES ASSUME k \notin outrun
               PROVE  stored'[k].metrics = MetricsOf(stored'[k].price, stored'[k].terms)
                      /\ ~ stored[k].closed
    OBVIOUS
  <2>1. /\ batch.plan[k].terms = stored[k].terms /\ ~ stored[k].closed
        /\ batch.loaded[k] = None \/ Unmoved(k)
    BY <1>1, <1>2 DEF PriceInv, PlanKept
  <2>2. \A f \in {"price", "terms", "metrics"} : Instance(k)[f] = stored[k][f]
    BY <2>1 DEF Instance, Unmoved
  <2> DEFINE new == NewValues(batch.plan[k])
  <2>3. DOMAIN new = {"price", "terms", "metrics"}
    BY DEF NewValues
  <2> HIDE DEF new
  <2>4. \A f \in {"price", "terms", "metrics"} : stored'[k][f] = new[f]
    BY <1>5, <1>6, <2>2, <2>3 DEF Flushed, new
  <2>5. new.metrics = MetricsOf(new.price, new.terms)
    BY DEF new, NewValues
  <2> QED BY <2>1, <2>4, <2>5
<1>14. OnlyRacesSkewMetrics'
  <2>1. ASSUME NEW i \in DOMAIN stored
        PROVE  Consistent(stored'[i]) \/ i \in outrun
    BY <1>5, <1>13 DEF PriceInv, OnlyRacesSkewMetrics, Consistent
  <2> QED BY <1>3, <1>5, <2>1 DEF OnlyRacesSkewMetrics, Consistent
<1>15. FlagsTrailTheScrape'
  BY <1>3, <1>5, <1>7 DEF PriceInv, FlagsTrailTheScrape
<1>16. ReportsAddUp' /\ FailuresStayInTheirRow'
  BY <1>2, <1>3, <1>4, SameReports
<1>17. \A i \in DOMAIN stored :
         stored[i].closed /\ stored'[i].price # stored[i].price => i \in outrun
  BY <1>5, <1>13
<1> QED BY <1>9, <1>11, <1>12, <1>14, <1>15, <1>16, <1>17 DEF PriceInv

LEMMA FailRowInv ==
    ASSUME PriceInv, FailRow
    PROVE  PriceInv'
<1>1. PICK k \in ToApply : k = Min(ToApply)
  BY NextRow DEF FailRow
<1>2. /\ batch.at = "apply" /\ batch.todo # <<>> /\ k \in DOMAIN batch.plan /\ k \in DOMAIN Book
      /\ batch.plan[k].status = "todo"
      /\ DOMAIN batch = {"at", "todo", "loaded", "plan", "results", "counts", "rowCounts"}
      /\ DOMAIN batch.plan = DOMAIN batch.loaded /\ DOMAIN batch.loaded = DealsOf(Head(batch.todo))
      /\ DOMAIN batch.plan \subseteq DOMAIN Book /\ failures \in Nat
  BY <1>1, NextRow DEF FailRow, PriceInv, PriceTyped, PlanKept, ToApply
<1>3. /\ batch' = [batch EXCEPT !.plan[k].status = "failed",
                      !.loaded = [i \in DOMAIN batch.loaded |-> None]]
      /\ failures' = failures + 1 /\ UNCHANGED <<stored, feed, touches, outrun, newsFor>>
  BY <1>1 DEF FailRow
<1>4. /\ DOMAIN batch' = DOMAIN batch /\ batch'.at = "apply"
      /\ batch'.loaded = [i \in DOMAIN batch.loaded |-> None]
      /\ batch'.todo = batch.todo /\ batch'.results = batch.results
      /\ batch'.counts = batch.counts /\ batch'.rowCounts = batch.rowCounts
      /\ batch'.plan = [batch.plan EXCEPT ![k].status = "failed"]
  BY <1>2, <1>3
<1>5. /\ DOMAIN batch'.plan = DOMAIN batch.plan
      /\ \A i \in DOMAIN batch.plan : i # k => batch'.plan[i] = batch.plan[i]
      /\ DOMAIN batch'.plan[k] = DOMAIN batch.plan[k] /\ batch'.plan[k].status = "failed"
  <2>1. DOMAIN batch.plan[k] = {"price", "terms", "status"}
    BY <1>2 DEF PriceInv, PlanKept
  <2> QED BY <1>2, <1>4, <2>1
<1>6. ToApply' = ToApply \ {k}
  BY <1>2, <1>5 DEF ToApply
<1>7. PlanKept'
  <2>1. ASSUME NEW i \in ToApply \ {k}, i \notin outrun
        PROVE  /\ batch'.plan[i].terms = stored'[i].terms /\ ~ stored'[i].closed
               /\ batch'.loaded[i] = None
    <3>1. i \in DOMAIN batch.plan /\ i # k
      BY <2>1, NextRow DEF ToApply
    <3>2. batch'.plan[i] = batch.plan[i]
      BY <1>5, <3>1
    <3> QED BY <1>2, <1>3, <1>4, <2>1, <3>1, <3>2 DEF PriceInv, PlanKept
  <2>2. ASSUME NEW i \in DOMAIN batch'.plan
        PROVE  /\ DOMAIN batch'.plan[i] = {"price", "terms", "status"}
               /\ batch'.plan[i].status \in RowOutcomes \cup {"todo"}
    BY <1>2, <1>5 DEF PriceInv, PlanKept, RowOutcomes
  <2> QED BY <1>2, <1>3, <1>4, <1>5, <1>6, <2>1, <2>2 DEF PlanKept, DealsOf
<1>8. PlannedFailures'
  <2> DEFINE bad == {i \in DOMAIN batch.plan : batch.plan[i].status = "failed" /\ Book[i].complete}
             worse == {i \in DOMAIN batch'.plan :
                          batch'.plan[i].status = "failed" /\ Book[i].complete}
  <2>1. bad \in SUBSET DOMAIN Book /\ worse \subseteq bad \cup {k}
    BY <1>2, <1>5
  <2>2. Cardinality(bad) <= failures
    BY DEF PriceInv, PlannedFailures
  <2> HIDE DEF bad, worse
  <2>3. IsFiniteSet(bad) /\ Cardinality(bad) \in Nat
    BY <2>1, BookFinite, FS_Subset, FS_CardinalityType
  <2>4. IsFiniteSet(bad \cup {k}) /\ Cardinality(bad \cup {k}) <= Cardinality(bad) + 1
    <3>1. /\ IsFiniteSet(bad \cup {k})
          /\ Cardinality(bad \cup {k}) = IF k \in bad THEN Cardinality(bad) ELSE Cardinality(bad) + 1
      BY <2>3, FS_AddElement
    <3> QED BY ONLY <2>3, <3>1
  <2>5. Cardinality(worse) <= Cardinality(bad \cup {k}) /\ IsFiniteSet(worse)
    BY <2>1, <2>4, FS_Subset
  <2>6. Cardinality(worse) \in Nat /\ Cardinality(bad \cup {k}) \in Nat
    BY <2>4, <2>5, FS_CardinalityType
  <2>7. Cardinality(worse) <= failures'
    BY <1>2, <1>3, <2>2, <2>3, <2>4, <2>5, <2>6
  <2> QED BY <2>7 DEF PlannedFailures, worse
<1>9. failures' \in Nat /\ failures' >= failures
  BY <1>2, <1>3
<1> QED BY <1>2, <1>3, <1>4, <1>7, <1>8, <1>9, Between

\* Worst news first: a failed row is news of the zpid.
LEMMA WorstNews ==
    ASSUME NEW statuses, statuses \subseteq RowOutcomes
    PROVE  /\ AggregateStatus(statuses) \in RowOutcomes
           /\ "failed" \in statuses => AggregateStatus(statuses) = "failed"
<1> DEFINE order == <<"failed", "updated", "skipped_same_price", "skipped_terminal_status">>
           said == {n \in DOMAIN order : order[n] \in statuses}
<1>1. AggregateStatus(statuses) = IF said = {} THEN "skipped_same_price" ELSE order[Min(said)]
  BY DEF AggregateStatus
<1>2. /\ DOMAIN order = 1 .. 4 /\ order[1] = "failed"
      /\ \A n \in 1 .. 4 : order[n] \in RowOutcomes
  BY DEF RowOutcomes
<1>3. CASE said = {}
  <2>1. "failed" \notin statuses
    BY <1>2, <1>3
  <2> QED BY <1>1, <1>3, <2>1 DEF RowOutcomes
<1>4. CASE said # {}
  <2>1. said \in SUBSET (1 .. 4) /\ said \subseteq Nat
    BY <1>2
  <2>2. IsFiniteSet(said)
    BY <2>1, FS_Interval, FS_Subset
  <2>3. "failed" \in statuses => 1 \in said
    BY <1>2
  <2> HIDE DEF said
  <2>4. Min(said) \in said /\ \A y \in said : Min(said) <= y
    BY <1>4, <2>1, <2>2, Earliest
  <2>5. Min(said) \in 1 .. 4 /\ (1 \in said => Min(said) = 1)
    <3>1. PICK m \in said : m = Min(said)
      BY <2>4
    <3>2. m \in 1 .. 4 /\ (1 \in said => m <= 1)
      BY <2>1, <2>4, <3>1
    <3>3. m \in 1 .. 4 /\ (1 \in said => m = 1)
      BY ONLY <3>2
    <3> QED BY <3>1, <3>3
  <2> HIDE DEF order
  <2> QED BY <1>1, <1>2, <1>4, <2>3, <2>5
<1> QED BY <1>3, <1>4

LEMMA FinishZpidInv ==
    ASSUME PriceInv, FinishZpid
    PROVE  PriceInv'
<1>1. PICK rows : rows = [i \in DOMAIN batch.plan |-> batch.plan[i].status]
  OBVIOUS
<1>2. PICK ended : ended = AggregateStatus({rows[i] : i \in DOMAIN rows})
  OBVIOUS
<1>3. /\ batch.at = "apply" /\ ToApply = {} /\ Finish(ended, rows) /\ failures \in Nat
      /\ DOMAIN batch = {"at", "todo", "loaded", "plan", "results", "counts", "rowCounts"}
      /\ DOMAIN rows \subseteq DOMAIN Book /\ DOMAIN rows = DOMAIN batch.plan
      /\ UNCHANGED <<stored, feed, touches, failures, outrun, newsFor>>
  BY <1>1, <1>2 DEF FinishZpid, PriceInv, PriceTyped, PlanKept, DealsOf
<1>4. \A i \in DOMAIN rows : rows[i] = batch.plan[i].status /\ rows[i] \in RowOutcomes
  BY <1>1, <1>3 DEF PriceInv, PlanKept, ToApply
<1>5. /\ ended \in RowOutcomes
      /\ (\E i \in DOMAIN rows : rows[i] = "failed") => ended = "failed"
  <2>1. {rows[i] : i \in DOMAIN rows} \subseteq RowOutcomes
    BY <1>4
  <2> QED BY <1>2, <2>1, WorstNews
<1>6. RowOutcomes \subseteq Outcomes
  BY DEF RowOutcomes, Outcomes
<1>7. Cardinality(Broken(rows)) <= failures
  <2>1. Broken(rows) = {i \in DOMAIN batch.plan : batch.plan[i].status = "failed" /\ Book[i].complete}
    BY <1>3, <1>4 DEF Broken
  <2> QED BY <2>1 DEF PriceInv, PlannedFailures
<1>8. /\ DOMAIN batch' = DOMAIN batch /\ batch'.at = "next" /\ batch'.plan = <<>>
      /\ batch'.todo = Tail(batch.todo)
      /\ batch'.results =
           Append(batch.results, [zpid |-> Head(batch.todo), status |-> ended, rows |-> rows])
      /\ batch'.counts = Counted(batch.counts, ended)
      /\ batch'.rowCounts = [s \in Outcomes |-> batch.rowCounts[s] + Cardinality(Marked(rows, s))]
  BY <1>3 DEF Finish
<1> QED BY <1>3, <1>4, <1>5, <1>6, <1>7, <1>8, Closing

\* Writing pending flags disturbs nothing else.
LEMMA Flagging ==
    ASSUME PriceInv, UNCHANGED <<feed, touches, failures, outrun>>,
           DOMAIN stored' = DOMAIN stored,
           \A i \in DOMAIN stored :
             /\ DOMAIN stored'[i] = DOMAIN stored[i]
             /\ \A f \in {"price", "terms", "metrics", "closed"} : stored'[i][f] = stored[i][f],
           DOMAIN batch' = DOMAIN batch,
           batch'.at \in {"next", "loaded", "apply", "done"},
           batch'.at = batch.at \/ (batch'.at = "done" /\ batch.at = "next"),
           batch'.todo = batch.todo, batch'.results = batch.results,
           batch'.counts = batch.counts, batch'.rowCounts = batch.rowCounts,
           batch'.plan = batch.plan, batch'.loaded = batch.loaded,
           FlagsTrailTheScrape'
    PROVE  PriceInv'
<1>1. PriceTyped'
  BY DEF PriceInv, PriceTyped
<1>2. DOMAIN stored = DOMAIN Book
  BY DEF PriceInv, PriceTyped
<1>3. PlanKept'
  <2>1. ToApply' = ToApply
    BY DEF ToApply
  <2>2. DealsOf(Head(batch.todo)) \subseteq DOMAIN stored
    BY <1>2 DEF DealsOf
  <2>3. ASSUME NEW i \in DOMAIN stored
        PROVE  Unmoved(i)' <=> Unmoved(i)
    BY <2>3 DEF Unmoved
  <2>4. batch.at = "loaded" => \A i \in DOMAIN batch.loaded \ outrun : Unmoved(i)'
    BY <2>2, <2>3 DEF PriceInv, PlanKept
  <2>5. batch.at = "apply" =>
          \A i \in ToApply \ outrun :
             /\ batch.plan[i].terms = stored'[i].terms /\ ~ stored'[i].closed
             /\ batch.loaded[i] = None \/ Unmoved(i)'
    <3>1. batch.at = "apply" => ToApply \subseteq DOMAIN stored
      BY <2>2 DEF PriceInv, PlanKept, ToApply
    <3> QED BY <2>3, <3>1 DEF PriceInv, PlanKept
  <2> QED BY <2>1, <2>4, <2>5 DEF PriceInv, PlanKept, DealsOf
<1>4. PlannedFailures'
  BY DEF PriceInv, PlannedFailures
<1>5. OnlyRacesSkewMetrics'
  BY DEF PriceInv, OnlyRacesSkewMetrics, Consistent
<1>6. ReportsAddUp' /\ FailuresStayInTheirRow'
  <2>1. failures' \in Nat /\ failures' >= failures
    BY DEF PriceInv, PriceTyped
  <2> QED BY <2>1, SameReports
<1> QED BY <1>1, <1>3, <1>4, <1>5, <1>6 DEF PriceInv

LEMMA SyncPendingInv ==
    ASSUME PriceInv, SyncPending
    PROVE  PriceInv' /\ \A i \in DOMAIN stored : stored'[i].price = stored[i].price
<1>1. /\ batch.at = "next"
      /\ DOMAIN batch = {"at", "todo", "loaded", "plan", "results", "counts", "rowCounts"}
      /\ DOMAIN stored = DOMAIN Book
      /\ \A i \in DOMAIN stored :
            DOMAIN stored[i] = {"price", "terms", "metrics", "closed", "pending"}
  BY DEF SyncPending, PriceInv, PriceTyped
<1>2. /\ batch' = [batch EXCEPT !.at = "done"] /\ newsFor' = {}
      /\ stored' = [i \in DOMAIN stored |->
            IF Book[i].zpid \notin DOMAIN feed THEN stored[i]
            ELSE [stored[i] EXCEPT !.pending = PendingFor(feed[Book[i].zpid].home)]]
      /\ UNCHANGED <<feed, touches, failures, outrun>>
  BY DEF SyncPending
<1>3. /\ DOMAIN batch' = DOMAIN batch /\ batch'.at = "done" /\ batch'.todo = batch.todo
      /\ batch'.results = batch.results /\ batch'.counts = batch.counts
      /\ batch'.rowCounts = batch.rowCounts
      /\ batch'.plan = batch.plan /\ batch'.loaded = batch.loaded
  BY <1>1, <1>2
<1>4. DOMAIN stored' = DOMAIN stored /\ \A i \in DOMAIN stored :
        /\ DOMAIN stored'[i] = DOMAIN stored[i]
        /\ \A f \in {"price", "terms", "metrics", "closed"} : stored'[i][f] = stored[i][f]
        /\ Book[i].zpid \in DOMAIN feed =>
              stored'[i].pending = PendingFor(feed[Book[i].zpid].home)
  BY <1>1, <1>2
<1>5. FlagsTrailTheScrape'
  <2>1. \A home : PendingFor(home) = (home = None \/ home \notin {"FOR_SALE", "OTHER"})
    BY PriceAssumption DEF PendingFor
  <2>2. ASSUME NEW i \in DOMAIN stored, Book[i].zpid \in DOMAIN feed
        PROVE  stored'[i].pending =
                 (\/ feed[Book[i].zpid].home = None
                  \/ feed[Book[i].zpid].home \notin {"FOR_SALE", "OTHER"})
    BY <1>4, <2>1, <2>2
  <2>3. DOMAIN stored' = DOMAIN stored /\ feed' = feed
    BY <1>2, <1>4
  <2> QED BY <2>2, <2>3 DEF FlagsTrailTheScrape
<1> QED BY <1>1, <1>2, <1>3, <1>4, <1>5, Flagging

LEMMA ClearOtherInv ==
    ASSUME PriceInv, ClearOther
    PROVE  PriceInv' /\ \A i \in DOMAIN stored : stored'[i].price = stored[i].price
<1>1. /\ DOMAIN stored = DOMAIN Book
      /\ batch.at \in {"next", "loaded", "apply", "done"}
      /\ \A i \in DOMAIN stored :
            DOMAIN stored[i] = {"price", "terms", "metrics", "closed", "pending"}
  BY DEF PriceInv, PriceTyped
<1>2. /\ batch' = batch /\ newsFor' = {z \in newsFor : feed[z].home # "OTHER"}
      /\ stored' = [i \in DOMAIN stored |->
            IF Book[i].zpid \in DOMAIN feed /\ feed[Book[i].zpid].home = "OTHER"
            THEN [stored[i] EXCEPT !.pending = FALSE] ELSE stored[i]]
      /\ UNCHANGED <<feed, touches, failures, outrun>>
  BY DEF ClearOther
<1>3. DOMAIN stored' = DOMAIN stored /\ \A i \in DOMAIN stored :
        /\ DOMAIN stored'[i] = DOMAIN stored[i]
        /\ \A f \in {"price", "terms", "metrics", "closed"} : stored'[i][f] = stored[i][f]
        /\ IF Book[i].zpid \in DOMAIN feed /\ feed[Book[i].zpid].home = "OTHER"
           THEN stored'[i].pending = FALSE ELSE stored'[i].pending = stored[i].pending
  BY <1>1, <1>2
<1>4. FlagsTrailTheScrape'
  <2>1. ASSUME NEW i \in DOMAIN stored, Book[i].zpid \in DOMAIN feed,
               Book[i].zpid \notin newsFor'
        PROVE  stored'[i].pending =
                 (\/ feed[Book[i].zpid].home = None
                  \/ feed[Book[i].zpid].home \notin {"FOR_SALE", "OTHER"})
    <3>1. CASE feed[Book[i].zpid].home = "OTHER"
      <4>1. stored'[i].pending = FALSE
        BY <1>3, <2>1, <3>1
      <4>2. ~ (\/ feed[Book[i].zpid].home = None
               \/ feed[Book[i].zpid].home \notin {"FOR_SALE", "OTHER"})
        BY <3>1, PriceAssumption
      <4> QED BY <4>1, <4>2
    <3>2. CASE feed[Book[i].zpid].home # "OTHER"
      <4>1. Book[i].zpid \notin newsFor /\ stored'[i].pending = stored[i].pending
        BY <1>2, <1>3, <2>1, <3>2
      <4> QED BY <2>1, <4>1 DEF PriceInv, FlagsTrailTheScrape
    <3> QED BY <3>1, <3>2
  <2>2. DOMAIN stored' = DOMAIN stored /\ feed' = feed
    BY <1>2, <1>3
  <2> QED BY <2>1, <2>2 DEF FlagsTrailTheScrape
<1>5. DOMAIN batch' = DOMAIN batch /\ batch'.at = batch.at /\ batch'.todo = batch.todo
      /\ batch'.results = batch.results /\ batch'.counts = batch.counts
      /\ batch'.rowCounts = batch.rowCounts
      /\ batch'.plan = batch.plan /\ batch'.loaded = batch.loaded
  BY <1>2
<1>6. /\ DOMAIN stored' = DOMAIN stored
      /\ \A i \in DOMAIN stored :
            /\ DOMAIN stored'[i] = DOMAIN stored[i]
            /\ \A f \in {"price", "terms", "metrics", "closed"} : stored'[i][f] = stored[i][f]
      /\ UNCHANGED <<feed, touches, failures, outrun>>
  BY <1>2, <1>3
<1>7. batch'.at \in {"next", "loaded", "apply", "done"}
      /\ (batch'.at = batch.at \/ (batch'.at = "done" /\ batch.at = "next"))
  BY <1>1, <1>5
<1>8. PriceInv
  OBVIOUS
<1>9. PriceInv'
  BY ONLY <1>4, <1>5, <1>6, <1>7, <1>8, Flagging
<1> QED BY <1>3, <1>9

LEMMA TouchInv ==
    ASSUME PriceInv, NEW i \in DOMAIN stored, NEW row, Touch(i, row), Consistent(row) \/ i \in outrun,
           DOMAIN row = DOMAIN stored[i], row.pending = stored[i].pending, row.closed \in BOOLEAN
    PROVE  PriceInv' /\ touches' # touches
<1>1. /\ touches' = touches + 1 /\ stored' = [stored EXCEPT ![i] = row]
      /\ UNCHANGED <<feed, batch, failures, newsFor>> /\ touches \in Nat /\ failures \in Nat
      /\ outrun' = IF \/ batch.at = "loaded" /\ Book[i].zpid = Head(batch.todo)
                      \/ i \in ToApply
                   THEN outrun \cup {i} ELSE outrun
      /\ DOMAIN stored = DOMAIN Book
  BY DEF Touch, PriceInv, PriceTyped
<1>2. /\ DOMAIN stored' = DOMAIN stored /\ stored'[i] = row
      /\ \A k \in DOMAIN stored : k # i => stored'[k] = stored[k]
  BY <1>1
<1>3. PriceTyped'
  BY <1>1, <1>2 DEF PriceInv, PriceTyped
<1>4. OnlyRacesSkewMetrics'
  <2>1. ASSUME NEW k \in DOMAIN stored
        PROVE  Consistent(stored'[k]) \/ k \in outrun'
    BY <1>1, <1>2 DEF PriceInv, OnlyRacesSkewMetrics
  <2> QED BY <1>2, <2>1 DEF OnlyRacesSkewMetrics, Consistent
<1>5. ToApply' = ToApply
  BY <1>1 DEF ToApply
<1>6. PlanKept'
  <2>1. ASSUME NEW k, k # i, k \in DOMAIN stored
        PROVE  Unmoved(k)' <=> Unmoved(k)
    BY <1>1, <1>2, <2>1 DEF Unmoved
  <2>2. batch.at = "loaded" => \A k \in DOMAIN batch.loaded \ outrun' :
                                   k # i /\ k \in DOMAIN stored /\ k \notin outrun
    BY <1>1 DEF PriceInv, PlanKept, DealsOf
  <2>3. batch.at = "apply" => \A k \in ToApply \ outrun' :
                                   k # i /\ k \in DOMAIN stored /\ k \notin outrun
    BY <1>1 DEF PriceInv, PlanKept, DealsOf, ToApply
  <2>4. batch.at = "loaded" => \A k \in DOMAIN batch.loaded \ outrun' : Unmoved(k)'
    BY <2>1, <2>2 DEF PriceInv, PlanKept
  <2>5. batch.at = "apply" => \A k \in ToApply \ outrun' :
             /\ batch.plan[k].terms = stored'[k].terms /\ ~ stored'[k].closed
             /\ batch.loaded[k] = None \/ Unmoved(k)'
    BY <1>2, <2>1, <2>3 DEF PriceInv, PlanKept
  <2> QED BY <1>1, <1>5, <2>4, <2>5 DEF PriceInv, PlanKept, DealsOf
<1>7. PlannedFailures'
  BY <1>1 DEF PriceInv, PlannedFailures
<1>8. FlagsTrailTheScrape'
  BY <1>1, <1>2 DEF PriceInv, FlagsTrailTheScrape
<1>9. ReportsAddUp' /\ FailuresStayInTheirRow'
  BY <1>1, SameReports
<1> QED BY <1>1, <1>3, <1>4, <1>6, <1>7, <1>8, <1>9 DEF PriceInv

LEMMA RepriceDealInv ==
    ASSUME PriceInv, NEW i \in DOMAIN stored, RepriceDeal(i)
    PROVE  PriceInv' /\ touches' # touches
<1>1. PICK price \in {1, 2, 3}, terms \in {1, 2, 3} :
        Touch(i, [stored[i] EXCEPT !.price = price, !.terms = terms,
                                   !.metrics = MetricsOf(price, terms)])
  BY DEF RepriceDeal
<1>2. PICK row : row = [stored[i] EXCEPT !.price = price, !.terms = terms,
                                         !.metrics = MetricsOf(price, terms)]
  OBVIOUS
<1>3. DOMAIN stored[i] = {"price", "terms", "metrics", "closed", "pending"}
      /\ stored[i].closed \in BOOLEAN
  BY DEF PriceInv, PriceTyped
<1>4. /\ Touch(i, row) /\ DOMAIN row = DOMAIN stored[i] /\ row.pending = stored[i].pending
      /\ row.closed \in BOOLEAN /\ Consistent(row)
  BY <1>1, <1>2, <1>3 DEF Consistent
<1> QED BY <1>4, TouchInv

LEMMA CloseDealRowInv ==
    ASSUME PriceInv, NEW i \in DOMAIN stored, CloseDealRow(i)
    PROVE  PriceInv' /\ touches' # touches
<1>1. PICK row : row = [stored[i] EXCEPT !.closed = TRUE]
  OBVIOUS
<1>2. DOMAIN stored[i] = {"price", "terms", "metrics", "closed", "pending"}
  BY DEF PriceInv, PriceTyped
<1>3. Consistent(stored[i]) \/ i \in outrun
  BY DEF PriceInv, OnlyRacesSkewMetrics
<1>4. /\ Touch(i, row) /\ DOMAIN row = DOMAIN stored[i] /\ row.pending = stored[i].pending
      /\ row.closed \in BOOLEAN /\ (Consistent(row) \/ i \in outrun)
  BY <1>1, <1>2, <1>3 DEF Consistent, CloseDealRow
<1> QED BY <1>4, TouchInv

LEMMA ScrapeInv ==
    ASSUME PriceInv, NEW z \in DOMAIN Scrapes, Scrape(z)
    PROVE  PriceInv'
<1>1. PICK listing : feed' = [feed EXCEPT ![z] = listing]
  BY DEF Scrape
<1>2. newsFor' = newsFor \cup {z} /\ UNCHANGED <<stored, batch, touches, failures, outrun>>
      /\ failures \in Nat
  BY DEF Scrape, PriceInv, PriceTyped
<1>3. FlagsTrailTheScrape'
  BY <1>1, <1>2 DEF PriceInv, FlagsTrailTheScrape
<1>4. PriceTyped'
  BY <1>2 DEF PriceInv, PriceTyped
<1>5. PlanKept' /\ PlannedFailures'
  BY <1>2 DEF PriceInv, PlanKept, PlannedFailures, ToApply, Unmoved, DealsOf
<1>6. OnlyRacesSkewMetrics'
  BY <1>2 DEF PriceInv, OnlyRacesSkewMetrics, Consistent
<1>7. ReportsAddUp' /\ FailuresStayInTheirRow'
  BY <1>2, SameReports
<1> QED BY <1>3, <1>4, <1>5, <1>6, <1>7 DEF PriceInv

LEMMA PriceSteps ==
    ASSUME PriceInv, [PriceNext]_priceVars
    PROVE  /\ PriceInv'
           /\ \A i \in DOMAIN stored :
                stored[i].closed /\ stored'[i].price # stored[i].price /\ touches' = touches =>
                    i \in outrun
<1>1. CASE UNCHANGED priceVars
  <2>1. UNCHANGED <<stored, feed, batch, touches, failures, outrun, newsFor>>
    BY <1>1 DEF priceVars
  <2>2. PriceTyped'
    BY <2>1 DEF PriceInv, PriceTyped
  <2>5. PlanKept'
    BY <2>1 DEF PriceInv, PlanKept, ToApply, Unmoved, DealsOf
  <2>6. PlannedFailures'
    BY <2>1 DEF PriceInv, PlannedFailures
  <2>3. OnlyRacesSkewMetrics' /\ FlagsTrailTheScrape'
    BY <2>1 DEF PriceInv, OnlyRacesSkewMetrics, FlagsTrailTheScrape, Consistent
  <2>4. ReportsAddUp' /\ FailuresStayInTheirRow'
    <3>1. failures' \in Nat /\ failures' >= failures
      BY <2>1 DEF PriceInv, PriceTyped
    <3>2. batch'.todo = batch.todo /\ batch'.results = batch.results
          /\ batch'.counts = batch.counts /\ batch'.rowCounts = batch.rowCounts
      BY <2>1
    <3> QED BY <3>1, <3>2, SameReports
  <2> QED BY <2>1, <2>2, <2>3, <2>4, <2>5, <2>6 DEF PriceInv
<1>2. CASE LoadDeals
  BY <1>2, LoadDealsInv DEF LoadDeals
<1>3. CASE PlanRows
  BY <1>3, PlanRowsInv DEF PlanRows
<1>4. CASE FailZpid
  BY <1>4, FailZpidInv DEF FailZpid
<1>5. CASE ApplyRow
  BY <1>5, ApplyRowInv
<1>6. CASE FailRow
  BY <1>6, FailRowInv DEF FailRow
<1>7. CASE FinishZpid
  BY <1>7, FinishZpidInv DEF FinishZpid
<1>8. CASE SyncPending \/ ClearOther
  BY <1>8, SyncPendingInv, ClearOtherInv
<1>9. ASSUME NEW i \in DOMAIN stored, RepriceDeal(i) \/ CloseDealRow(i)
      PROVE  PriceInv' /\ touches' # touches
  BY <1>9, RepriceDealInv, CloseDealRowInv
<1>10. ASSUME NEW z \in DOMAIN Scrapes, Scrape(z)
       PROVE  PriceInv' /\ stored' = stored
  BY <1>10, ScrapeInv DEF Scrape
<1> QED BY <1>1, <1>2, <1>3, <1>4, <1>5, <1>6, <1>7, <1>8, <1>9, <1>10 DEF PriceNext

\* The inductive invariant of the daily run holds, whatever fails and however analysts and
\* the scraper interleave with it.
THEOREM PriceInvariant == PriceSpec => []PriceInv
<1>1. PriceInv /\ [PriceNext]_priceVars => PriceInv'
  BY PriceSteps
<1> QED BY PriceStart, <1>1, PTL DEF PriceSpec

\* The price reconciliation and the pending sync: races alone skew metrics and reprice closed
\* deals, a failure stays in its row, reports add up, flags are no older than the scrape.
THEOREM PricesAreSafe == PriceSpec => PriceSafety
<1>1. PriceInv => /\ OnlyRacesSkewMetrics /\ FailuresStayInTheirRow
                  /\ ReportsAddUp /\ FlagsTrailTheScrape
  BY DEF PriceInv
<1>2. PriceInv /\ [PriceNext]_priceVars =>
        [\A i \in DOMAIN stored :
           stored[i].closed /\ stored'[i].price # stored[i].price /\ touches' = touches =>
               i \in outrun]_priceVars
  BY PriceSteps
<1> QED BY <1>1, <1>2, PriceInvariant, PTL
        DEF PriceSpec, PriceSafety, OnlyRacesRepriceClosedDeals
=============================================================================
