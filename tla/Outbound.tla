------------------------------- MODULE Outbound -------------------------------
(***************************************************************************)
(* The calls to other systems: the n8n events of a status change, sent     *)
(* after its commit and with no lock held, the property scrape and the     *)
(* mortgage rate.  The peer may act on a request whose answer is lost, and *)
(* every client tries again a bounded number of times.                     *)
(***************************************************************************)
EXTENDS Nulls, Sequences, Integers
CONSTANTS
    Calls,       \* call -> its client, or for an event the status its PATCH asks for
    Together,    \* the sets of calls that may be under way together
    Patience,    \* client -> [tries, final]: what it takes for a verdict
    Answers,     \* what a request may come to
    Announced,   \* the statuses with a webhook
    Enabled,     \* whether the webhooks are switched on
    Crashes      \* bound: ends of the process

\* The retries of the clients and the answers that end them.
ASSUME OutboundAssumption ==
    /\ \A k \in DOMAIN Patience : Patience[k].tries \in Nat \ {0} /\ "ok" \in Patience[k].final
    /\ {"n8n", "scrape"} \subseteq DOMAIN Patience
    /\ Patience["n8n"].tries = 2
    /\ {"401", "empty"} \subseteq Patience["scrape"].final
    /\ Answers \subseteq {"ok", "empty", "5xx", "401", "timeout"}

VARIABLES
    status,      \* the deal_status of the deal
    call,        \* each call: [at, tries, body, result, reply]
    received,    \* what the peer of each call was given, in order
    answers,     \* history: the answers of each call, in order
    crashed

outboundVars == <<status, call, received, answers, crashed>>
----------------------------------------------------------------------------
IsEvent(c) == Calls[c] \notin DOMAIN Patience
Client(c) == IF IsEvent(c) THEN "n8n" ELSE Calls[c]
Tries(c) == Patience[Client(c)].tries

\* n8n takes any 2xx; a fetch is answered by 200 with data, by 200 without (the scrape
\* client stops there, the rate client asks again), or refused for good by 401 and 403.
Verdict_RetryAll(c, answer) == answer = "ok"
Verdict_Never(c, answer) == FALSE
Verdict(c, answer) == answer \in Patience[Client(c)].final
Result(c, answer) == answer = "ok" \/ (IsEvent(c) /\ answer = "empty")

OutboundInit ==
    /\ status = "analyst_started"
    /\ \E calls \in Together : call = [c \in DOMAIN Calls |->
                  [at |-> IF c \in calls THEN "new" ELSE "done", tries |-> 0,
                   body |-> None, result |-> None, reply |-> None]]
    /\ received = [c \in DOMAIN Calls |-> <<>>]
    /\ answers = [c \in DOMAIN Calls |-> <<>>]
    /\ crashed = 0

Update(c, fields) ==
    call' = [call EXCEPT ![c] = [f \in DOMAIN @ |-> IF f \in DOMAIN fields THEN fields[f] ELSE @[f]]]
----------------------------------------------------------------------------
\* update_deal_status commits; only a real change to an announced status has an event.
CommitStatus(c) ==
    /\ IsEvent(c) /\ call[c].at = "new"
    /\ status' = Calls[c]
    /\ Update(c, IF status # Calls[c] /\ Calls[c] \in Announced
                 THEN [at |-> "build", body |-> Calls[c]] ELSE [at |-> "reply"])
    /\ UNCHANGED <<received, answers, crashed>>

Built_Reread(c) == status
\* underwriting_document: the row as this session committed it.
Built(c) == call[c].body

\* _trigger_n8n_webhook, up to the send: users, realtors and the listing are read, and any
\* failure is swallowed with the event.
BuildBody(c) ==
    /\ call[c].at = "build"
    /\ \/ Update(c, [at |-> IF Enabled THEN "send" ELSE "reply", body |-> Built(c)])
       \/ Update(c, [at |-> "reply", result |-> FALSE])
    /\ UNCHANGED <<status, received, answers, crashed>>

StartFetch(c) ==
    /\ ~IsEvent(c) /\ call[c].at = "new"
    /\ Update(c, [at |-> "send", body |-> Calls[c]])
    /\ UNCHANGED <<status, received, answers, crashed>>

\* One attempt.  A timeout leaves open whether the peer acted.
Attempt(c) ==
    /\ call[c].at = "send"
    /\ \E answer \in Answers :
         /\ answers' = [answers EXCEPT ![c] = Append(@, answer)]
         /\ \/ answer # "401" /\ received' = [received EXCEPT ![c] = Append(@, call[c].body)]
            \/ answer \in {"timeout", "5xx", "401"} /\ UNCHANGED received
         /\ LET n == call[c].tries + 1
            IN  Update(c, IF Verdict(c, answer) \/ n = Tries(c)
                          THEN [at |-> "reply", tries |-> n, result |-> Result(c, answer)]
                          ELSE [tries |-> n])
    /\ UNCHANGED <<status, crashed>>

Respond_Raises(c) ==
    /\ call[c].at = "reply"
    /\ Update(c, [at |-> "done", reply |-> IF call[c].result = FALSE THEN "failed" ELSE "ok"])
    /\ UNCHANGED <<status, received, answers, crashed>>
\* The caller goes on: a status change is reported done whatever became of its event; a
\* fetch without a result is reported as failed.
Respond(c) ==
    /\ call[c].at = "reply"
    /\ Update(c, [at |-> "done", reply |-> IF IsEvent(c) \/ call[c].result = TRUE
                                           THEN "ok" ELSE "failed"])
    /\ UNCHANGED <<status, received, answers, crashed>>

\* The process ends: calls under way are forgotten, commits are not.
Crash ==
    /\ crashed < Crashes /\ crashed' = crashed + 1
    /\ call' = [c \in DOMAIN call |->
                   IF call[c].at = "new" THEN call[c] ELSE [call[c] EXCEPT !.at = "done"]]
    /\ UNCHANGED <<status, received, answers>>

OutboundNext ==
    \/ Crash
    \/ \E c \in DOMAIN Calls :
         CommitStatus(c) \/ BuildBody(c) \/ StartFetch(c) \/ Attempt(c) \/ Respond(c)

OutboundSpec == OutboundInit /\ [][OutboundNext]_outboundVars
----------------------------------------------------------------------------
\* What n8n is told is what the PATCH committed, though later PATCHes of the same deal may
\* have moved it on by the time the body is built and sent.
EventsTellTheirMove == \A c \in DOMAIN Calls :
    IsEvent(c) => \A n \in DOMAIN received[c] : received[c][n] = Calls[c]

\* A peer acts twice on one call only when its first answer was no verdict: it was lost, or
\* it said that the request had failed.  An event is never delivered a third time.
RepeatsFollowLostAnswers == \A c \in DOMAIN Calls :
    /\ Len(received[c]) > 1 =>
          \E k \in DOMAIN answers[c] : answers[c][k] \in {"timeout", "5xx", "empty"}
    /\ IsEvent(c) => Len(received[c]) <= 2

\* After a verdict a client sends nothing more: a rejected key is not tried again.
NoCallAfterAVerdict == \A c \in DOMAIN Calls : \A k \in DOMAIN answers[c] :
    answers[c][k] \in ({"ok"} \cup IF Client(c) = "scrape" THEN {"401", "empty"} ELSE {}) =>
        k = Len(answers[c])

\* A committed status change is never reported as failed: an outage of n8n, or a body that
\* cannot be built, stays out of the answer.
CommitsAreReported == \A c \in DOMAIN Calls :
    IsEvent(c) /\ call[c].reply # None => call[c].reply = "ok"

\* The answers that may hide a request that was acted upon, or deny it.
Unsettled(c) == \E k \in DOMAIN answers[c] : answers[c][k] \in {"timeout", "5xx", "empty"}

\* What a call asks is what it was made for, and it is asked as often as answered.
CallKept(c) ==
    /\ call[c].tries = Len(answers[c])
    /\ call[c].at \in {"new", "build"} => answers[c] = <<>> /\ received[c] = <<>>
    /\ call[c].at \in {"build", "send"} => call[c].body = Calls[c]
    /\ call[c].at = "send" =>
         /\ call[c].tries < Tries(c)
         /\ \A k \in DOMAIN answers[c] : ~Verdict(c, answers[c][k])
    /\ IsEvent(c) => call[c].reply \in {None, "ok"}

\* Before a verdict, a request that no answer left open was not acted upon.
PeerKept(c) ==
    /\ Len(received[c]) <= Len(answers[c]) /\ Len(answers[c]) <= Tries(c)
    /\ \A k \in DOMAIN answers[c] : Verdict(c, answers[c][k]) => k = Len(answers[c])
    /\ Len(received[c]) > 1 => Unsettled(c)
    /\ call[c].at = "send" /\ ~Unsettled(c) => received[c] = <<>>

OutboundTyped ==
    /\ DOMAIN call = DOMAIN Calls
    /\ DOMAIN received = DOMAIN Calls /\ DOMAIN answers = DOMAIN Calls
    /\ \A c \in DOMAIN Calls :
         /\ DOMAIN call[c] = {"at", "tries", "body", "result", "reply"}
         /\ received[c] \in Seq({Calls[c]})
         /\ answers[c] \in Seq(Answers)

\* The inductive invariant of the calls.
OutboundInv ==
    /\ OutboundTyped
    /\ \A c \in DOMAIN Calls : CallKept(c) /\ PeerKept(c)

\* Calls to other services: an event tells of its own move, is repeated after a lost answer
\* only and at most once, stops at a verdict, and never fails the request that committed.
\* (N8nWebhookService, ZillowPropertyService, ExternalApiService)
OutboundSafety ==
    /\ EventsTellTheirMove
    /\ RepeatsFollowLostAnswers
    /\ NoCallAfterAVerdict
    /\ CommitsAreReported
=============================================================================
