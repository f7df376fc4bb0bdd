----------------------------- MODULE Discussions -----------------------------
(***************************************************************************)
(* Comments on underwritings: the lazily created thread of a deal and the  *)
(* counters stored on it (app/core/discussions and iron_bank's             *)
(* underwriting_discussion_service).                                       *)
(*                                                                         *)
(*   create  POST   /underwritings/{id}/comments                           *)
(*   edit    PATCH  /comments/{id}                                         *)
(*   delete  DELETE /comments/{id}, a soft delete                          *)
(*                                                                         *)
(* Each request is one transaction, committed once by its controller.  Its *)
(* steps are its statements; what it has written is in its op record until *)
(* the commit.  A statement that needs a row or a key another transaction  *)
(* holds waits for that transaction to end (Blockers).                     *)
(***************************************************************************)
EXTENDS Integers, FiniteSets

CONSTANTS
    Deals,         \* underwriting ids
    Users,
    Txs,           \* database sessions, one request at a time
    MaxRequests,   \* bound: requests served
    None           \* NULL

VARIABLES
    links,         \* underwriting_threads: the general thread of each deal
    threads,       \* committed rows of threads
    comments,      \* committed rows of comments
    nextThread,    \* identity sequences: never rolled back
    nextComment,
    clock,         \* the latest transaction start
    op,            \* the request each session serves
    requests       \* requests begun so far

sequences == <<nextThread, nextComment, clock, requests>>
tables == <<links, threads, comments>>
vars == <<tables, sequences, op>>

\* Thread and comment ids: a request creates at most one of each.
Ids == 1 .. MaxRequests

\* comment_count and last_comment_id; last_comment_at goes with the latter.
Thread == [count : Nat, last : Ids \cup {None}]
NewThread == [count |-> 0, last |-> None]

Comment == [thread  : Ids,
            author  : Users,
            at      : Nat,          \* created_at
            edited  : BOOLEAN,      \* edited_at is set
            deleted : BOOLEAN]      \* deleted_at is set

ASSUME DiscussionAssumption ==
    /\ MaxRequests \in Nat
    /\ None \notin Deals /\ None \notin Users /\ None \notin Nat
    /\ None \notin Thread /\ None \notin Comment

OpPc == {"idle", "committing",
         "finding", "linking", "rereading", "gone", "commenting", "counting",
         "locking", "deleting", "uncounting", "referencing"}

Op == [pc      : OpPc,
       kind    : {"create", "edit", "delete"},
       deal    : Deals \cup {None},
       user    : Users \cup {None},
       at      : Nat,                   \* start of the transaction
       fresh   : Ids \cup {None},       \* the thread this request created
       thread  : Ids \cup {None},
       comment : Ids \cup {None},
       newest  : Ids \cup {None},       \* what the subquery of a delete found
       row     : Thread \cup {None}]    \* the thread as this request updated it

NoOp == [pc |-> "idle", kind |-> "create", deal |-> None, user |-> None,
         at |-> 0, fresh |-> None, thread |-> None, comment |-> None,
         newest |-> None, row |-> None]

\* comment_count >= 0 is ck_threads_comment_count_nonneg: no update ever hits
\* the CHECK.
TypeOK ==
    /\ links \in [Deals -> Ids \cup {None}]
    /\ threads \in [Ids -> Thread \cup {None}]
    /\ comments \in [Ids -> Comment \cup {None}]
    /\ nextThread \in Nat \ {0}
    /\ nextComment \in Nat \ {0}
    /\ clock \in Nat
    /\ op \in [Txs -> Op]
    /\ requests \in 0 .. MaxRequests

Init ==
    /\ links = [d \in Deals |-> None]
    /\ threads = [t \in Ids |-> None]
    /\ comments = [c \in Ids |-> None]
    /\ nextThread = 1
    /\ nextComment = 1
    /\ clock = 0
    /\ op = [tx \in Txs |-> NoOp]
    /\ requests = 0

-----------------------------------------------------------------------------
(***************************************************************************)
(* What a transaction holds until it ends, and who waits for whom.         *)
(***************************************************************************)

\* An uncommitted link of deal d.
HoldsLink(tx, d) ==
    op[tx].deal = d /\ op[tx].thread # None /\ op[tx].thread = op[tx].fresh

\* The row lock of an UPDATE of thread t.
HoldsThread(tx, t) == op[tx].row # None /\ op[tx].thread = t

\* SELECT ... FOR UPDATE of comment c.
HoldsComment(tx, c) ==
    op[tx].kind # "create" /\ op[tx].pc # "locking" /\ op[tx].comment = c

\* The KEY SHARE lock the foreign key of last_comment_id took on comment c.
SharesComment(tx, c) ==
    /\ op[tx].kind = "delete" /\ op[tx].pc = "committing"
    /\ op[tx].row.last = c
    /\ op[tx].row.last # threads[op[tx].thread].last

Blockers(tx) ==
    LET o == op[tx]
    IN {other \in Txs \ {tx} :
          \/ o.pc = "linking" /\ HoldsLink(other, o.deal)
          \/ o.pc \in {"counting", "uncounting"} /\ HoldsThread(other, o.thread)
          \/ o.pc = "locking" /\ (\/ HoldsComment(other, o.comment)
                                  \/ SharesComment(other, o.comment))
          \/ o.pc = "referencing" /\ HoldsComment(other, o.row.last)}

\* The transactions of a minimal circle of waits: Postgres aborts one of them.
Circles ==
    LET Circular(S) == S # {} /\ \A tx \in S : Blockers(tx) \cap S # {}
    IN {S \in SUBSET Txs :
          Circular(S) /\ \A R \in SUBSET S : Circular(R) => R = S}

\* The request of a session goes on as o.
Goes(tx, o) == op' = [op EXCEPT ![tx] = o]

-----------------------------------------------------------------------------
(***************************************************************************)
(* Arrivals.                                                               *)
(***************************************************************************)

\* A free session takes up a request.
Begin(tx, o) ==
    /\ op[tx].pc = "idle"
    /\ requests < MaxRequests
    /\ requests' = requests + 1
    /\ Goes(tx, o)
    /\ clock' = o.at
    /\ UNCHANGED <<tables, nextThread, nextComment>>

\* created_at will be the start of the transaction; starts can coincide.
RequestCreate(tx, d, user) ==
    \E at \in {clock, clock + 1} :
      Begin(tx, [NoOp EXCEPT !.pc = "finding", !.deal = d, !.user = user, !.at = at])

\* Of a comment some page showed, which may be deleted by now.
RequestChange(tx, kind, c, user) ==
    /\ comments[c] # None
    /\ Begin(tx, [NoOp EXCEPT !.pc = "locking", !.kind = kind, !.comment = c,
                              !.user = user, !.at = clock])

-----------------------------------------------------------------------------
(***************************************************************************)
(* create_comment.                                                         *)
(***************************************************************************)

\* _get_or_create_thread: use the link, or create a thread to be linked.
FindThread(tx) ==
    LET existing == links[op[tx].deal]
    IN /\ op[tx].pc = "finding"
       /\ IF existing # None
          THEN /\ Goes(tx, [op[tx] EXCEPT !.pc = "commenting", !.thread = existing])
               /\ UNCHANGED nextThread
          ELSE /\ nextThread \in Ids
               /\ Goes(tx, [op[tx] EXCEPT !.pc = "linking", !.fresh = nextThread])
               /\ nextThread' = nextThread + 1
       /\ UNCHANGED <<tables, nextComment, clock, requests>>

\* insert_link: ON CONFLICT DO NOTHING, after the other inserter has ended.
InsertLink(tx) ==
    /\ op[tx].pc = "linking"
    /\ Blockers(tx) = {}
    /\ Goes(tx, IF links[op[tx].deal] = None
                THEN [op[tx] EXCEPT !.pc = "commenting", !.thread = op[tx].fresh]
                ELSE [op[tx] EXCEPT !.pc = "rereading"])
    /\ UNCHANGED <<tables, sequences>>

\* Mutant: the losing thread is not deleted.
Reread_Orphans(tx) ==
    /\ op[tx].pc = "rereading"
    /\ Goes(tx, [op[tx] EXCEPT !.pc = "commenting",
                               !.thread = links[op[tx].deal]])
    /\ UNCHANGED <<tables, sequences>>

\* Mutant: what FindThread read is used again.
Reread_Remembers(tx) ==
    /\ op[tx].pc = "rereading"
    /\ Goes(tx, [op[tx] EXCEPT !.pc = "gone", !.fresh = None])
    /\ UNCHANGED <<tables, sequences>>

\* A concurrent first comment won: discard the thread, use the winner's.
Reread(tx) ==
    LET winner == links[op[tx].deal]
    IN /\ op[tx].pc = "rereading"
       /\ Goes(tx, [op[tx] EXCEPT !.pc = IF winner = None THEN "gone" ELSE "commenting",
                                  !.fresh = None,
                                  !.thread = winner])
       /\ UNCHANGED <<tables, sequences>>

InsertComment(tx) ==
    /\ op[tx].pc = "commenting"
    /\ nextComment \in Ids
    /\ Goes(tx, [op[tx] EXCEPT !.pc = "counting", !.comment = nextComment])
    /\ nextComment' = nextComment + 1
    /\ UNCHANGED <<tables, nextThread, clock, requests>>

\* (at, c) > (last_comment_at, last_comment_id), or there is no last comment.
IsNewer(at, c, last) ==
    \/ last = None
    \/ at > comments[last].at
    \/ at = comments[last].at /\ c > last

\* Mutant: the latest UPDATE wins.
Counted_Latest(o, thread) == [count |-> thread.count + 1, last |-> o.comment]

\* The values record_comment_created writes to a thread.
Counted(o, thread) ==
    [count |-> thread.count + 1,
     last  |-> IF IsNewer(o.at, o.comment, thread.last) THEN o.comment ELSE thread.last]

\* The thread as the request's statements see it.
ThreadOf(o) == IF o.thread = o.fresh THEN NewThread ELSE threads[o.thread]

\* Mutant: the counters are computed from a thread loaded without a lock.
CountComment_Loaded(tx) ==
    /\ op[tx].pc = "counting"
    /\ Goes(tx, [op[tx] EXCEPT !.pc = "committing",
                               !.row = Counted(op[tx], ThreadOf(op[tx]))])
    /\ UNCHANGED <<tables, sequences>>

\* record_comment_created: the UPDATE waits for the row and computes the
\* counters from its latest version.
CountComment(tx) ==
    /\ op[tx].pc = "counting"
    /\ Blockers(tx) = {}
    /\ Goes(tx, [op[tx] EXCEPT !.pc = "committing",
                               !.row = Counted(op[tx], ThreadOf(op[tx]))])
    /\ UNCHANGED <<tables, sequences>>

\* Thread, link, comment and counters become visible at once.
CommitCreate(tx) ==
    LET o == op[tx]
    IN /\ o.kind = "create" /\ o.pc = "committing"
       /\ links' = [links EXCEPT ![o.deal] = o.thread]
       /\ threads' = [t \in Ids |-> CASE t = o.thread -> o.row
                                      [] t = o.fresh /\ t # o.thread -> NewThread
                                      [] OTHER -> threads[t]]
       /\ comments' = [comments EXCEPT ![o.comment] =
                         [thread |-> o.thread, author |-> o.user, at |-> o.at,
                          edited |-> FALSE, deleted |-> FALSE]]
       /\ Goes(tx, NoOp)
       /\ UNCHANGED sequences

-----------------------------------------------------------------------------
(***************************************************************************)
(* edit_comment and delete_comment.                                        *)
(***************************************************************************)

\* What _get_own_live_comment leads to: an answer of 404 or 403 ends it.
OwnLiveComment(tx) ==
    LET o == op[tx]
    IN IF comments[o.comment].deleted \/ comments[o.comment].author # o.user
       THEN NoOp
       ELSE [o EXCEPT !.pc = IF o.kind = "edit" THEN "committing" ELSE "deleting",
                      !.thread = comments[o.comment].thread]

\* Mutant: the comment is loaded without FOR UPDATE.
LockComment_Unlocked(tx) ==
    /\ op[tx].pc = "locking"
    /\ Goes(tx, OwnLiveComment(tx))
    /\ UNCHANGED <<tables, sequences>>

\* Wait for the comment, lock it and re-read it.
LockComment(tx) ==
    /\ op[tx].pc = "locking"
    /\ Blockers(tx) = {}
    /\ Goes(tx, OwnLiveComment(tx))
    /\ UNCHANGED <<tables, sequences>>

CommitEdit(tx) ==
    /\ op[tx].kind = "edit" /\ op[tx].pc = "committing"
    /\ comments' = [comments EXCEPT ![op[tx].comment].edited = TRUE]
    /\ Goes(tx, NoOp)
    /\ UNCHANGED <<links, threads, sequences>>

\* The committed comments of thread t that are not deleted.
Live(t) == {c \in Ids : /\ comments[c] # None
                        /\ comments[c].thread = t /\ ~comments[c].deleted}

\* ORDER BY created_at DESC, id DESC LIMIT 1
Newest(S) ==
    LET IsFirst(c) == \A d \in S \ {c} : IsNewer(comments[c].at, c, d)
    IN IF \E c \in S : IsFirst(c) THEN CHOOSE c \in S : IsFirst(c) ELSE None

\* The soft delete, and the start of record_comment_deleted: its subquery sees
\* what is committed now, less the comment.
SoftDelete(tx) ==
    LET o == op[tx]
    IN /\ o.pc = "deleting"
       /\ Goes(tx, [op[tx] EXCEPT !.pc = "uncounting",
                                  !.newest = Newest(Live(o.thread) \ {o.comment})])
       /\ UNCHANGED <<tables, sequences>>

\* Once the thread's row is free, the UPDATE goes on with the row's latest
\* version and the result of the subquery.
UncountComment(tx) ==
    LET o == op[tx]
        thread == threads[o.thread]
        row == [count |-> thread.count - 1,
                last  |-> IF thread.last = o.comment THEN o.newest ELSE thread.last]
    IN /\ o.pc = "uncounting"
       /\ Blockers(tx) = {}
       /\ Goes(tx, [o EXCEPT !.pc = IF row.last \in {thread.last, None}
                                    THEN "committing" ELSE "referencing",
                             !.row = row])
       /\ UNCHANGED <<tables, sequences>>

\* The foreign key check of a changed last_comment_id.
ReferenceComment(tx) ==
    /\ op[tx].pc = "referencing"
    /\ Blockers(tx) = {}
    /\ Goes(tx, [op[tx] EXCEPT !.pc = "committing"])
    /\ UNCHANGED <<tables, sequences>>

CommitDelete(tx) ==
    LET o == op[tx]
    IN /\ o.kind = "delete" /\ o.pc = "committing"
       /\ threads' = [threads EXCEPT ![o.thread] = o.row]
       /\ comments' = [comments EXCEPT ![o.comment].deleted = TRUE]
       /\ Goes(tx, NoOp)
       /\ UNCHANGED <<links, sequences>>

-----------------------------------------------------------------------------
\* Mutant: the failed request's session is not closed.
Abort_Leaks(tx) ==
    /\ op[tx].pc \notin {"idle", "gone"}
    /\ Goes(tx, [op[tx] EXCEPT !.pc = "gone"])
    /\ UNCHANGED <<tables, sequences>>

\* A body that fails validation, a 404, a disconnect, a deadlock or a crash
\* before the commit: the session closes and its transaction is rolled back.
Abort(tx) ==
    /\ op[tx].pc # "idle"
    /\ Goes(tx, NoOp)
    /\ UNCHANGED <<tables, sequences>>

\* The next statement of an open request.
Step(tx) ==
    \/ FindThread(tx) \/ InsertLink(tx) \/ Reread(tx)
    \/ InsertComment(tx) \/ CountComment(tx) \/ CommitCreate(tx)
    \/ LockComment(tx) \/ CommitEdit(tx)
    \/ SoftDelete(tx) \/ UncountComment(tx) \/ ReferenceComment(tx) \/ CommitDelete(tx)

Arrive(tx) ==
    \E user \in Users :
      \/ \E d \in Deals : RequestCreate(tx, d, user)
      \/ \E kind \in {"edit", "delete"}, c \in Ids : RequestChange(tx, kind, c, user)

Next == \E tx \in Txs : Arrive(tx) \/ Step(tx) \/ Abort(tx)

Spec == Init /\ [][Next]_vars

(***************************************************************************)
(* An open request goes on; one that failed is answered; Postgres aborts a *)
(* transaction of a circle of waits.  Requests need not come, and nobody   *)
(* is bound to disconnect.                                                 *)
(***************************************************************************)
Proceed(tx) ==
    \/ Step(tx)
    \/ op[tx].pc = "gone" /\ Abort(tx)
    \/ tx \in UNION Circles /\ Abort(tx)

FairSpec == Spec /\ \A tx \in Txs : WF_vars(Proceed(tx))

-----------------------------------------------------------------------------
(***************************************************************************)
(* Properties.                                                             *)
(***************************************************************************)

\* comment_count is the number of comments that are not deleted, however
\* creations, deletes and repeated deletes of one comment overlap or fail.
CountIsLive ==
    \A t \in Ids : threads[t] # None => threads[t].count = Cardinality(Live(t))

\* First comments that race leave a deal one thread: every thread is some
\* deal's, no two deals share one, and no comment is left in another.
OneThread ==
    /\ \A d, e \in Deals : links[d] = links[e] /\ links[d] # None => d = e
    /\ {t \in Ids : threads[t] # None} = {links[d] : d \in Deals} \ {None}
    /\ \A c \in Ids : comments[c] # None => threads[comments[c].thread] # None

\* A request that lost the race for the link finds the winner's: the 404 of
\* _get_or_create_thread is left to deals that vanish.
LoserFindsLink == \A tx \in Txs : op[tx].pc # "gone"

\* The comments committed to thread t, and whether none of them was deleted.
Posted(t) == {c \in Ids : comments[c] # None /\ comments[c].thread = t}
Undeleted(t) == \A c \in Posted(t) : ~comments[c].deleted

\* Posts reach the UPDATE of the thread out of order; the last comment of a
\* thread from which none was deleted is the newest by (created_at, id).
LastMovesForward ==
    \A t \in Ids :
      threads[t] # None /\ Undeleted(t) => threads[t].last = Newest(Posted(t))

\* A deleted comment is never edited, restored or moved, even by an edit that
\* loaded it before the delete.
DeletedIsFinal ==
    [][\A c \in Ids : comments[c] # None =>
         (comments[c].deleted => comments'[c] = comments[c])]_vars

\* Every request is answered: link, thread and comment locks may close a
\* circle of waits between two deletes, and the abort of one frees the other.
RequestsAnswered == \A tx \in Txs : op[tx].pc # "idle" ~> op[tx].pc = "idle"

(***************************************************************************)
(* The inductive invariant: what a request in progress knows of the tables *)
(* and of the other requests.                                              *)
(***************************************************************************)

\* A creation: its thread is its own and unlinked, or the deal's; its comment
\* is unknown to others; its counters follow the row it has locked.
CreateOK(o) ==
    /\ o.pc \in {"finding", "linking", "rereading", "commenting", "counting",
                 "committing"}
    /\ o.deal \in Deals /\ o.user \in Users
    /\ o.pc = "finding" => o.fresh = None
    /\ o.pc \in {"linking", "rereading"} => o.fresh # None
    /\ o.pc = "rereading" => links[o.deal] # None
    /\ o.thread = None <=> o.pc \in {"finding", "linking", "rereading"}
    /\ o.thread # None => \/ o.fresh = o.thread /\ links[o.deal] = None
                          \/ o.fresh = None /\ links[o.deal] = o.thread
    /\ o.fresh # None => threads[o.fresh] = None
    /\ o.comment # None <=> o.pc \in {"counting", "committing"}
    /\ o.comment # None => comments[o.comment] = None
    /\ o.row # None <=> o.pc = "committing"
    /\ o.row # None => o.row.count = ThreadOf(o).count + 1

\* An edit or a delete: once it holds the comment, the comment is live.
ChangeOK(o) ==
    /\ o.pc \in {"locking", "deleting", "uncounting", "referencing", "committing"}
    /\ o.kind = "edit" => o.pc \in {"locking", "committing"}
    /\ o.deal = None /\ o.fresh = None
    /\ o.comment \in Ids /\ comments[o.comment] # None
    /\ o.pc = "locking" => o.thread = None
    /\ o.pc # "locking" => /\ o.thread = comments[o.comment].thread
                           /\ ~comments[o.comment].deleted
    /\ o.row # None <=> o.kind = "delete" /\ o.pc \in {"referencing", "committing"}
    /\ o.row # None => o.row.count = threads[o.thread].count - 1

OpOK(o) == \/ o = NoOp
           \/ o.kind = "create" /\ CreateOK(o)
           \/ o.kind # "create" /\ ChangeOK(o)

\* Two requests: nothing is created, linked or locked by both.
Apart(o, p) ==
    /\ o.fresh # None => o.fresh # p.fresh
    /\ o.kind = "create" /\ p.kind = "create" /\ o.comment # None =>
         o.comment # p.comment
    /\ o.thread # None /\ o.thread = o.fresh /\ p.thread # None /\ p.thread = p.fresh =>
         o.deal # p.deal
    /\ o.row # None /\ p.row # None => o.thread # p.thread
    /\ o.kind # "create" /\ o.pc # "locking" /\ p.kind # "create" /\ p.pc # "locking" =>
         o.comment # p.comment

\* Ids in use come from the sequences.
IdsDrawn ==
    /\ \A t \in Ids : threads[t] # None => t < nextThread
    /\ \A c \in Ids : comments[c] # None => c < nextComment
    /\ \A tx \in Txs : /\ op[tx].fresh # None => op[tx].fresh < nextThread
                       /\ op[tx].comment # None => op[tx].comment < nextComment

\* The counters and links are right, and stay right whichever open requests
\* commit: the invariant that is proved.
DiscussionInv ==
    /\ TypeOK
    /\ CountIsLive
    /\ OneThread
    /\ IdsDrawn
    /\ \A tx \in Txs : OpOK(op[tx])
    /\ \A tx, other \in Txs : tx # other => Apart(op[tx], op[other])

\* Comment c is the newest of thread t by (created_at, id).
Leads(c, t) ==
    c \in Posted(t) /\ \A d \in Posted(t) \ {c} : IsNewer(comments[c].at, c, d)

\* A creation about to commit leaves its thread with the newest comment last,
\* its own or the one that led before.
LeaderKept(o) ==
    o.kind = "create" /\ o.row # None /\ Undeleted(o.thread) =>
      \/ /\ o.row.last = o.comment
         /\ \A d \in Posted(o.thread) : IsNewer(o.at, o.comment, d)
      \/ /\ Leads(o.row.last, o.thread)
         /\ ~IsNewer(o.at, o.comment, o.row.last)

\* The last comments are right, whichever open requests commit.
LastInv ==
    /\ DiscussionInv
    /\ \A t \in Ids : threads[t] # None /\ Undeleted(t) => Leads(threads[t].last, t)
    /\ \A tx \in Txs : LeaderKept(op[tx])

(***************************************************************************)
(* What the repository says and the code does not do.                      *)
(***************************************************************************)

\* "If it was the last comment, recompute from the newest non-deleted one (or
\* NULL)."
LastIsNewest ==
    \A t \in Ids : threads[t] # None => threads[t].last = Newest(Live(t))

=============================================================================
