--------------------------- MODULE DiscussionsProofs ---------------------------
(***************************************************************************)
(* Proofs about Discussions: DiscussionInv is an invariant for any number  *)
(* of deals, users, sessions and requests, and with it the counters and    *)
(* the links; LastInv adds the last comment of each thread.                *)
(*                                                                         *)
(* A step of one request changes its own op record (OwnStep) or commits    *)
(* it.  Commits keep the other requests' records right because no two      *)
(* requests hold the same thread, comment or link (Apart), and keep the    *)
(* counters right because the row a request has locked is still the one    *)
(* it counted from.                                                        *)
(***************************************************************************)
EXTENDS Discussions, FiniteSetTheorems, TLAPS

-----------------------------------------------------------------------------
(***************************************************************************)
(* Facts about sets of comments.                                           *)
(***************************************************************************)

LEMMA IdsFacts == /\ IsFiniteSet(Ids)
                  /\ Ids \subseteq Nat
                  /\ None \notin Ids
<1>1. IsFiniteSet(Ids)
  BY DiscussionAssumption, FS_Interval DEF Ids
<1>2. Ids \subseteq Nat
  BY DiscussionAssumption DEF Ids
<1> QED BY <1>1, <1>2, DiscussionAssumption

LEMMA LiveFinite ==
    ASSUME NEW t
    PROVE  IsFiniteSet(Live(t)) /\ Cardinality(Live(t)) \in Nat
<1>1. Live(t) \subseteq Ids
  BY DEF Live
<1>2. IsFiniteSet(Live(t))
  BY <1>1, IdsFacts, FS_Subset
<1> QED BY <1>2, FS_CardinalityType

\* A set with one element more counts one more, and the other way round.
LEMMA CountAdded ==
    ASSUME NEW S, NEW T, NEW c, IsFiniteSet(S), c \notin S, T = S \cup {c}
    PROVE  Cardinality(T) = Cardinality(S) + 1
  BY FS_AddElement

LEMMA CountRemoved ==
    ASSUME NEW S, NEW T, NEW c, IsFiniteSet(S), c \in S, T = S \ {c}
    PROVE  Cardinality(T) = Cardinality(S) - 1
  BY FS_RemoveElement

LEMMA NewestTyped ==
    ASSUME NEW S, S \subseteq Ids
    PROVE  Newest(S) \in Ids \cup {None}
  BY DEF Newest

\* An id below a sequence stays below it.
LEMMA BelowLater ==
    ASSUME NEW i \in Ids \cup {None}, NEW n \in Nat, NEW m \in Nat, m >= n,
           i # None => i < n
    PROVE  i # None => i < m
<1> SUFFICES ASSUME i # None PROVE i < m
  OBVIOUS
<1>1. i \in Nat
  BY IdsFacts
<1> QED BY <1>1

-----------------------------------------------------------------------------
(***************************************************************************)
(* Steps that change one request only.                                     *)
(***************************************************************************)

LEMMA ApartSymmetric ==
    ASSUME NEW o, NEW p, Apart(o, p)
    PROVE  Apart(p, o)
  BY DEF Apart

LEMMA ApartNoOp ==
    ASSUME NEW o
    PROVE  Apart(o, NoOp) /\ Apart(NoOp, o)
  BY DEF Apart, NoOp

LEMMA NoOpTyped == NoOp \in Op
  BY DiscussionAssumption DEF NoOp, Op, OpPc

\* A transaction goes from one op record to another; the tables stay.
LEMMA OwnStep ==
    ASSUME DiscussionInv,
           NEW tx \in Txs,
           NEW o \in Op, Goes(tx, o),
           UNCHANGED tables,
           nextThread' \in Nat, nextThread' >= nextThread,
           nextComment' \in Nat, nextComment' >= nextComment,
           clock' \in Nat, requests' \in 0 .. MaxRequests,
           o.fresh # None => o.fresh < nextThread',
           o.comment # None => o.comment < nextComment',
           OpOK(o),
           \A u \in Txs \ {tx} : Apart(o, op[u])
    PROVE  DiscussionInv'
<1>1. op'[tx] = o /\ \A u \in Txs \ {tx} : op'[u] = op[u]
  BY DEF DiscussionInv, TypeOK, Goes
<1>2. TypeOK'
  BY DEF DiscussionInv, TypeOK, tables, Goes
<1>3. CountIsLive' /\ OneThread'
  BY DEF DiscussionInv, CountIsLive, OneThread, Live, tables
<1>4. IdsDrawn'
  <2>1. nextThread \in Nat /\ nextComment \in Nat
    BY DEF DiscussionInv, TypeOK
  <2>2. \A u \in Txs : op[u].fresh \in Ids \cup {None} /\ op[u].comment \in Ids \cup {None}
    BY DEF DiscussionInv, TypeOK, Op
  <2>4. ASSUME NEW u \in Txs
        PROVE  /\ op'[u].fresh # None => op'[u].fresh < nextThread'
               /\ op'[u].comment # None => op'[u].comment < nextComment'
    <3>1. CASE u = tx
      BY <1>1, <3>1
    <3>2. CASE u # tx
      <4>1. /\ op[u].fresh # None => op[u].fresh < nextThread
            /\ op[u].comment # None => op[u].comment < nextComment
        BY DEF DiscussionInv, IdsDrawn
      <4>2. op'[u] = op[u]
        BY <1>1, <3>2
      <4>3. op[u].fresh # None => op[u].fresh < nextThread'
        BY <2>1, <2>2, <4>1, BelowLater
      <4>4. op[u].comment # None => op[u].comment < nextComment'
        BY <2>1, <2>2, <4>1, BelowLater
      <4> QED BY <4>2, <4>3, <4>4
    <3> QED BY <3>1, <3>2
  <2>5. ASSUME NEW i \in Ids
        PROVE  /\ threads[i] # None => i < nextThread'
               /\ comments[i] # None => i < nextComment'
    <3>1. /\ threads[i] # None => i < nextThread
          /\ comments[i] # None => i < nextComment
      BY DEF DiscussionInv, IdsDrawn
    <3>2. i # None
      BY IdsFacts
    <3> QED BY <2>1, <3>1, <3>2, BelowLater
  <2>6. (\A t \in Ids : threads[t] # None => t < nextThread)'
    BY <2>5 DEF tables
  <2>7. (\A c \in Ids : comments[c] # None => c < nextComment)'
    BY <2>5 DEF tables
  <2>8. (\A u \in Txs : /\ op[u].fresh # None => op[u].fresh < nextThread
                        /\ op[u].comment # None => op[u].comment < nextComment)'
    BY <2>4
  <2> QED BY <2>6, <2>7, <2>8 DEF IdsDrawn
<1>5. ASSUME NEW u \in Txs PROVE OpOK(op[u])'
  <2>1. OpOK(op'[u])
    BY <1>1 DEF DiscussionInv
  <2> QED BY <2>1 DEF OpOK, CreateOK, ChangeOK, ThreadOf, tables
<1>6. ASSUME NEW u \in Txs, NEW v \in Txs, u # v PROVE Apart(op[u], op[v])'
  <2>1. Apart(op'[u], op'[v])
    <3>1. CASE u = tx
      BY <1>1, <1>6, <3>1
    <3>2. CASE v = tx
      BY <1>1, <1>6, <3>2, ApartSymmetric
    <3>3. CASE u # tx /\ v # tx
      BY <1>1, <1>6, <3>3 DEF DiscussionInv
    <3> QED BY <3>1, <3>2, <3>3
  <2> QED BY <2>1 DEF Apart
<1> QED BY <1>2, <1>3, <1>4, <1>5, <1>6 DEF DiscussionInv

\* What the invariant says of one request.
LEMMA Requests ==
    ASSUME DiscussionInv, NEW tx \in Txs
    PROVE  /\ op[tx] \in Op /\ OpOK(op[tx])
           /\ op[tx].fresh # None => op[tx].fresh < nextThread
           /\ op[tx].comment # None => op[tx].comment < nextComment
           /\ \A u \in Txs \ {tx} : Apart(op[tx], op[u])
  BY DEF DiscussionInv, TypeOK, IdsDrawn

LEMMA Kinds ==
    ASSUME NEW o \in Op, OpOK(o)
    PROVE  /\ o.pc \in {"finding", "linking", "rereading", "commenting", "counting"}
                => o.kind = "create" /\ CreateOK(o)
           /\ o.pc \in {"locking", "deleting", "uncounting", "referencing"}
                => o.kind # "create" /\ ChangeOK(o)
           /\ o.pc = "committing"
                => \/ o.kind = "create" /\ CreateOK(o)
                   \/ o.kind # "create" /\ ChangeOK(o)
  BY DEF OpOK, NoOp, CreateOK, ChangeOK

\* A step within the transaction draws no id.
LEMMA QuietStep ==
    ASSUME DiscussionInv,
           NEW tx \in Txs,
           NEW o \in Op, Goes(tx, o),
           UNCHANGED <<tables, sequences>>,
           o.fresh \in {op[tx].fresh, None},
           o.comment \in {op[tx].comment, None},
           OpOK(o),
           \A u \in Txs \ {tx} : Apart(o, op[u])
    PROVE  DiscussionInv'
<1>1. /\ nextThread' \in Nat /\ nextThread' >= nextThread /\ nextThread' = nextThread
      /\ nextComment' \in Nat /\ nextComment' >= nextComment /\ nextComment' = nextComment
      /\ clock' \in Nat /\ requests' \in 0 .. MaxRequests
  BY DEF sequences, DiscussionInv, TypeOK
<1>2. /\ o.fresh # None => o.fresh < nextThread'
      /\ o.comment # None => o.comment < nextComment'
  BY <1>1, Requests
<1> QED
  BY <1>1, <1>2, OwnStep

LEMMA AbortInv ==
    ASSUME DiscussionInv, NEW tx \in Txs, Abort(tx)
    PROVE  DiscussionInv'
<1>1. OpOK(NoOp) /\ NoOp.fresh = None /\ NoOp.comment = None
  BY DEF OpOK, NoOp
<1>2. \A u \in Txs \ {tx} : Apart(NoOp, op[u])
  BY ApartNoOp
<1> QED
  BY <1>1, <1>2, NoOpTyped, QuietStep DEF Abort

LEMMA FindThreadInv ==
    ASSUME DiscussionInv, NEW tx \in Txs, FindThread(tx)
    PROVE  DiscussionInv'
<1> DEFINE o == op[tx]
<1>1. o \in Op /\ o.pc = "finding" /\ o.kind = "create" /\ CreateOK(o)
  BY Requests, Kinds DEF FindThread
<1>2. CASE links[o.deal] # None
  <2> DEFINE n == [o EXCEPT !.pc = "commenting", !.thread = links[o.deal]]
  <2>1. n \in Op
    BY <1>1, <1>2 DEF Op, OpPc, CreateOK, DiscussionInv, TypeOK
  <2>2. OpOK(n)
    BY <1>1, <1>2 DEF OpOK, CreateOK, Op
  <2>3. \A u \in Txs \ {tx} : Apart(n, op[u])
    BY <1>1, <1>2, Requests DEF Apart, CreateOK, Op
  <2> QED
    BY <1>1, <1>2, <2>1, <2>2, <2>3, QuietStep DEF FindThread, sequences, Op
<1>3. CASE links[o.deal] = None
  <2> DEFINE n == [o EXCEPT !.pc = "linking", !.fresh = nextThread]
  <2>1. nextThread \in Ids /\ nextThread \in Nat /\ nextThread' = nextThread + 1
        /\ threads[nextThread] = None
    BY <1>1, <1>3, IdsFacts DEF FindThread, DiscussionInv, IdsDrawn
  <2>2. n \in Op
    BY <1>1, <2>1 DEF Op, OpPc
  <2>3. OpOK(n)
    BY <1>1, <2>1, IdsFacts DEF OpOK, CreateOK, Op
  <2>4. ASSUME NEW u \in Txs \ {tx} PROVE Apart(n, op[u])
    <3>1. op[u].fresh # nextThread
      BY <2>1, IdsFacts, Requests
    <3> QED BY <1>1, <3>1, Requests DEF Apart, CreateOK, Op
  <2>5. /\ Goes(tx, n) /\ UNCHANGED tables
        /\ n.fresh < nextThread' /\ n.comment = None
    BY <1>1, <1>3, <2>1 DEF FindThread, CreateOK, Op
  <2>6. /\ nextThread' \in Nat /\ nextThread' >= nextThread
        /\ nextComment' \in Nat /\ nextComment' >= nextComment
        /\ clock' \in Nat /\ requests' \in 0 .. MaxRequests
    BY <2>1 DEF FindThread, DiscussionInv, TypeOK
  <2> QED
    BY <2>2, <2>3, <2>4, <2>5, <2>6, OwnStep
<1> QED BY <1>2, <1>3

LEMMA InsertLinkInv ==
    ASSUME DiscussionInv, NEW tx \in Txs, InsertLink(tx)
    PROVE  DiscussionInv'
<1> DEFINE o == op[tx]
<1>1. o \in Op /\ o.pc = "linking" /\ o.kind = "create" /\ CreateOK(o)
  BY Requests, Kinds DEF InsertLink
<1>2. CASE links[o.deal] = None
  <2> DEFINE n == [o EXCEPT !.pc = "commenting", !.thread = o.fresh]
  <2>1. n \in Op
    BY <1>1 DEF Op, OpPc
  <2>2. OpOK(n)
    BY <1>1, <1>2 DEF OpOK, CreateOK, Op
  <2>3. ASSUME NEW u \in Txs \ {tx} PROVE Apart(n, op[u])
    <3>1. ~HoldsLink(u, o.deal)
      BY <1>1 DEF InsertLink, Blockers
    <3> QED BY <1>1, <3>1, Requests DEF Apart, CreateOK, Op, HoldsLink
  <2> QED
    BY <1>1, <1>2, <2>1, <2>2, <2>3, QuietStep DEF InsertLink, Op
<1>3. CASE links[o.deal] # None
  <2> DEFINE n == [o EXCEPT !.pc = "rereading"]
  <2>1. n \in Op
    BY <1>1 DEF Op, OpPc
  <2>2. OpOK(n)
    BY <1>1, <1>3 DEF OpOK, CreateOK, Op
  <2>3. \A u \in Txs \ {tx} : Apart(n, op[u])
    BY <1>1, Requests DEF Apart, CreateOK, Op
  <2> QED
    BY <1>1, <1>3, <2>1, <2>2, <2>3, QuietStep DEF InsertLink, Op
<1> QED BY <1>2, <1>3

LEMMA RereadInv ==
    ASSUME DiscussionInv, NEW tx \in Txs, Reread(tx)
    PROVE  DiscussionInv'
<1> DEFINE o == op[tx]
           n == [o EXCEPT !.pc = "commenting", !.fresh = None,
                          !.thread = links[o.deal]]
<1>1. o \in Op /\ o.pc = "rereading" /\ o.kind = "create" /\ CreateOK(o)
  BY Requests, Kinds DEF Reread
<1>2. links[o.deal] \in Ids
  BY <1>1 DEF CreateOK, DiscussionInv, TypeOK
<1>3. n \in Op
  BY <1>1, <1>2 DEF Op, OpPc
<1>4. OpOK(n)
  BY <1>1, <1>2, IdsFacts DEF OpOK, CreateOK, Op
<1>5. \A u \in Txs \ {tx} : Apart(n, op[u])
  BY <1>1, <1>2, IdsFacts, Requests DEF Apart, CreateOK, Op
<1>6. Goes(tx, n)
  BY <1>2, IdsFacts DEF Reread
<1> QED
  BY <1>1, <1>3, <1>4, <1>5, <1>6, QuietStep DEF Reread, Op

LEMMA InsertCommentInv ==
    ASSUME DiscussionInv, NEW tx \in Txs, InsertComment(tx)
    PROVE  DiscussionInv'
<1> DEFINE o == op[tx]
           n == [o EXCEPT !.pc = "counting", !.comment = nextComment]
<1>1. o \in Op /\ o.pc = "commenting" /\ o.kind = "create" /\ CreateOK(o)
  BY Requests, Kinds DEF InsertComment
<1>2. nextComment \in Ids /\ nextComment \in Nat /\ nextComment' = nextComment + 1
      /\ comments[nextComment] = None /\ nextComment # None
  <2>1. nextComment \in Ids /\ nextComment' = nextComment + 1
    BY DEF InsertComment
  <2>2. comments[nextComment] # None => nextComment < nextComment
    BY <2>1 DEF DiscussionInv, IdsDrawn
  <2> QED BY <2>1, <2>2, IdsFacts
<1>3. n \in Op
  <2>1. nextComment \in Ids
    BY <1>2
  <2> QED BY <1>1, <2>1 DEF Op, OpPc
<1>4. OpOK(n)
  BY <1>1, <1>2 DEF OpOK, CreateOK, ThreadOf, Op
<1>5. ASSUME NEW u \in Txs \ {tx} PROVE Apart(n, op[u])
  <2>1. op[u].comment # nextComment
    BY <1>2, Requests
  <2> QED BY <1>1, <2>1, Requests DEF Apart, CreateOK, Op
<1>6. /\ Goes(tx, n) /\ UNCHANGED tables
      /\ n.comment < nextComment' /\ (n.fresh # None => n.fresh < nextThread')
  BY <1>1, <1>2, Requests DEF InsertComment, Op
<1>7. /\ nextThread' \in Nat /\ nextThread' >= nextThread
      /\ nextComment' \in Nat /\ nextComment' >= nextComment
      /\ clock' \in Nat /\ requests' \in 0 .. MaxRequests
  BY <1>2 DEF InsertComment, DiscussionInv, TypeOK
<1> QED
  BY <1>3, <1>4, <1>5, <1>6, <1>7, OwnStep

\* The thread a request knows: committed, or its own.
LEMMA ThreadTyped ==
    ASSUME DiscussionInv, NEW tx \in Txs, op[tx].thread # None
    PROVE  ThreadOf(op[tx]) \in Thread
<1>1. NewThread \in Thread
  BY DEF NewThread, Thread
<1>2. ASSUME op[tx].thread # op[tx].fresh PROVE threads[op[tx].thread] \in Thread
  <2>1. op[tx] \in Op /\ OpOK(op[tx]) /\ op[tx].thread \in Ids
    BY Requests DEF Op
  <2>2. threads[op[tx].thread] # None
    <3>1. CASE op[tx].kind = "create" /\ CreateOK(op[tx])
      BY <1>2, <2>1, <3>1 DEF CreateOK, DiscussionInv, OneThread
    <3>2. CASE op[tx].kind # "create" /\ ChangeOK(op[tx])
      BY <1>2, <2>1, <3>2 DEF ChangeOK, DiscussionInv, OneThread
    <3> QED BY <2>1, <3>1, <3>2 DEF OpOK, NoOp
  <2> QED BY <2>1, <2>2 DEF DiscussionInv, TypeOK
<1> QED BY <1>1, <1>2 DEF ThreadOf

LEMMA CountCommentInv ==
    ASSUME DiscussionInv, NEW tx \in Txs, CountComment(tx)
    PROVE  DiscussionInv'
<1> DEFINE o == op[tx]
           row == Counted(o, ThreadOf(o))
           n == [o EXCEPT !.pc = "committing", !.row = row]
<1>1. o \in Op /\ o.pc = "counting" /\ o.kind = "create" /\ CreateOK(o)
  BY Requests, Kinds DEF CountComment
<1>2. o.thread \in Ids /\ o.comment \in Ids /\ ThreadOf(o) \in Thread
  BY <1>1, ThreadTyped DEF CreateOK, Op
<1>3. row \in Thread /\ row # None /\ row.count = ThreadOf(o).count + 1
  BY <1>2, DiscussionAssumption DEF Counted, Thread
<1>4. n \in Op
  BY <1>1, <1>3 DEF Op, OpPc
<1>5. OpOK(n)
  <2>1. ThreadOf(n) = ThreadOf(o)
    BY <1>1 DEF ThreadOf, Op
  <2> QED BY <1>1, <1>2, <1>3, <2>1, IdsFacts DEF OpOK, CreateOK, Op
<1>6. ASSUME NEW u \in Txs \ {tx} PROVE Apart(n, op[u])
  <2>1. ~HoldsThread(u, o.thread)
    BY <1>1 DEF CountComment, Blockers
  <2> QED BY <1>1, <2>1, Requests DEF Apart, CreateOK, Op, HoldsThread
<1> QED
  BY <1>1, <1>4, <1>5, <1>6, QuietStep DEF CountComment, Op

LEMMA BeginInv ==
    ASSUME DiscussionInv, NEW tx \in Txs, NEW n \in Op, Begin(tx, n),
           OpOK(n), n.fresh = None, n.row = None, n.thread = None,
           n.kind = "create" => n.comment = None,
           n.kind # "create" => n.pc = "locking" /\ comments[n.comment] # None
    PROVE  DiscussionInv'
<1>1. \A u \in Txs \ {tx} : Apart(n, op[u])
  BY DEF Apart
<1>2. n.comment # None => n.comment \in Ids /\ n.comment < nextComment'
  BY DEF Op, Begin, DiscussionInv, IdsDrawn
<1>3. /\ nextThread' \in Nat /\ nextThread' >= nextThread
      /\ nextComment' \in Nat /\ nextComment' >= nextComment
      /\ clock' \in Nat /\ requests' \in 0 .. MaxRequests
  BY DiscussionAssumption DEF Begin, DiscussionInv, TypeOK, Op
<1> QED
  BY <1>1, <1>2, <1>3, OwnStep DEF Begin

LEMMA ArriveInv ==
    ASSUME DiscussionInv, NEW tx \in Txs, Arrive(tx)
    PROVE  DiscussionInv'
<1>1. clock \in Nat
  BY DEF DiscussionInv, TypeOK
<1>2. ASSUME NEW user \in Users, NEW d \in Deals, RequestCreate(tx, d, user)
      PROVE  DiscussionInv'
  <2>1. PICK at \in {clock, clock + 1} :
          Begin(tx, [NoOp EXCEPT !.pc = "finding", !.deal = d, !.user = user, !.at = at])
    BY <1>2 DEF RequestCreate
  <2> DEFINE n == [NoOp EXCEPT !.pc = "finding", !.deal = d, !.user = user, !.at = at]
  <2>2. n \in Op
    <3>1. at \in Nat
      BY <1>1
    <3> QED BY <3>1 DEF NoOp, Op, OpPc
  <2>3. OpOK(n)
    BY DEF NoOp, OpOK, CreateOK
  <2>4. n.fresh = None /\ n.row = None /\ n.thread = None /\ n.kind = "create"
        /\ n.comment = None
    BY DEF NoOp
  <2> QED BY <2>1, <2>2, <2>3, <2>4, BeginInv
<1>3. ASSUME NEW user \in Users, NEW kind \in {"edit", "delete"}, NEW c \in Ids,
             RequestChange(tx, kind, c, user)
      PROVE  DiscussionInv'
  <2> DEFINE n == [NoOp EXCEPT !.pc = "locking", !.kind = kind, !.comment = c,
                               !.user = user, !.at = clock]
  <2>1. Begin(tx, n) /\ comments[c] # None
    BY <1>3 DEF RequestChange
  <2>2. n \in Op
    BY <1>1 DEF NoOp, Op, OpPc
  <2>3. OpOK(n)
    BY <2>1 DEF NoOp, OpOK, ChangeOK
  <2>4. /\ n.fresh = None /\ n.row = None /\ n.thread = None /\ n.kind # "create"
        /\ n.pc = "locking" /\ n.comment = c
    BY DEF NoOp
  <2> QED BY <2>1, <2>2, <2>3, <2>4, BeginInv
<1> QED BY <1>2, <1>3 DEF Arrive

LEMMA LockCommentInv ==
    ASSUME DiscussionInv, NEW tx \in Txs, LockComment(tx)
    PROVE  DiscussionInv'
<1> DEFINE o == op[tx]
<1>1. o \in Op /\ o.pc = "locking" /\ o.kind # "create" /\ ChangeOK(o)
  BY Requests, Kinds DEF LockComment
<1>2. CASE OwnLiveComment(tx) = NoOp
  BY <1>1, <1>2, AbortInv DEF LockComment, Abort
<1>3. CASE OwnLiveComment(tx) # NoOp
  <2> DEFINE n == [o EXCEPT !.pc = IF o.kind = "edit" THEN "committing" ELSE "deleting",
                            !.thread = comments[o.comment].thread]
  <2>1. OwnLiveComment(tx) = n /\ ~comments[o.comment].deleted
    BY <1>3 DEF OwnLiveComment
  <2>2. comments[o.comment].thread \in Ids
    BY <1>1 DEF ChangeOK, DiscussionInv, TypeOK, Comment
  <2>3. n \in Op
    <3>1. n.pc \in OpPc
      BY <1>1 DEF Op, OpPc
    <3> HIDE DEF n
    <3>2. n = [o EXCEPT !.pc = n.pc, !.thread = comments[o.comment].thread]
      BY <1>1 DEF n, Op
    <3> QED BY <1>1, <2>2, <3>1, <3>2 DEF Op
  <2>4. n.row = None
    BY <1>1 DEF ChangeOK, Op
  <2>5. OpOK(n)
    BY <1>1, <2>1, <2>4 DEF OpOK, ChangeOK, Op
  <2>6. ASSUME NEW u \in Txs \ {tx} PROVE Apart(n, op[u])
    <3>1. ~HoldsComment(u, o.comment)
      BY <1>1 DEF LockComment, Blockers
    <3> QED BY <1>1, <2>4, <3>1 DEF Apart, ChangeOK, Op, HoldsComment
  <2>7. /\ Goes(tx, n) /\ UNCHANGED <<tables, sequences>>
        /\ n.fresh = o.fresh /\ n.comment = o.comment
    BY <1>1, <2>1 DEF LockComment, Op
  <2> QED BY <2>3, <2>5, <2>6, <2>7, QuietStep
<1> QED BY <1>2, <1>3

\* A change that keeps its comment, its thread and its row.
LEMMA HoldingStep ==
    ASSUME DiscussionInv, NEW tx \in Txs, NEW n \in Op, Goes(tx, n),
           UNCHANGED <<tables, sequences>>,
           op[tx].kind # "create", op[tx].pc # "locking",
           n.kind = op[tx].kind, n.pc # "locking",
           n.deal = op[tx].deal, n.fresh = op[tx].fresh, n.thread = op[tx].thread,
           n.comment = op[tx].comment, n.row = op[tx].row,
           OpOK(n)
    PROVE  DiscussionInv'
<1>1. \A u \in Txs \ {tx} : Apart(n, op[u])
  BY Requests DEF Apart
<1> QED BY <1>1, QuietStep

LEMMA SoftDeleteInv ==
    ASSUME DiscussionInv, NEW tx \in Txs, SoftDelete(tx)
    PROVE  DiscussionInv'
<1> DEFINE o == op[tx]
           found == Newest(Live(o.thread) \ {o.comment})
           n == [o EXCEPT !.pc = "uncounting", !.newest = found]
<1>1. o \in Op /\ o.pc = "deleting" /\ o.kind # "create" /\ ChangeOK(o)
  BY Requests, Kinds DEF SoftDelete
<1>2. found \in Ids \cup {None}
  BY NewestTyped DEF Live
<1> HIDE DEF found
<1>3. n \in Op
  BY <1>1, <1>2 DEF Op, OpPc
<1>4. OpOK(n)
  BY <1>1 DEF OpOK, ChangeOK, Op
<1>5. Goes(tx, n)
  BY DEF SoftDelete, found
<1> QED
  BY <1>1, <1>3, <1>4, <1>5, HoldingStep DEF SoftDelete, Op

LEMMA ReferenceCommentInv ==
    ASSUME DiscussionInv, NEW tx \in Txs, ReferenceComment(tx)
    PROVE  DiscussionInv'
<1> DEFINE o == op[tx]
           n == [o EXCEPT !.pc = "committing"]
<1>1. o \in Op /\ o.pc = "referencing" /\ o.kind # "create" /\ ChangeOK(o)
  BY Requests, Kinds DEF ReferenceComment
<1>2. n \in Op
  BY <1>1 DEF Op, OpPc
<1>3. OpOK(n)
  BY <1>1 DEF OpOK, ChangeOK, Op
<1> QED
  BY <1>1, <1>2, <1>3, HoldingStep DEF ReferenceComment, Op

LEMMA UncountCommentInv ==
    ASSUME DiscussionInv, NEW tx \in Txs, UncountComment(tx)
    PROVE  DiscussionInv'
<1> DEFINE o == op[tx]
           thread == threads[o.thread]
           row == [count |-> thread.count - 1,
                   last  |-> IF thread.last = o.comment THEN o.newest ELSE thread.last]
           pc == IF row.last \in {thread.last, None} THEN "committing" ELSE "referencing"
           n == [o EXCEPT !.pc = pc, !.row = row]
<1>1. o \in Op /\ o.pc = "uncounting" /\ o.kind # "create" /\ ChangeOK(o)
  BY Requests, Kinds DEF UncountComment
<1>2. o.kind = "delete" /\ o.row = None
  BY <1>1 DEF ChangeOK, Op
<1>3. o.thread \in Ids /\ thread \in Thread
  <2>1. o.thread \in Ids /\ o.thread # None /\ o.fresh = None
    BY <1>1, IdsFacts DEF ChangeOK, DiscussionInv, TypeOK, Comment
  <2> QED BY <2>1, ThreadTyped DEF ThreadOf
<1>4. thread.count \in Nat /\ thread.count >= 1
  <2>1. o.comment \in Live(o.thread)
    BY <1>1 DEF ChangeOK, Live
  <2>2. thread.count = Cardinality(Live(o.thread)) /\ thread.count \in Nat
    BY <1>3, DiscussionAssumption DEF DiscussionInv, CountIsLive, Thread
  <2>3. Cardinality(Live(o.thread)) # 0
    BY <2>1, LiveFinite, FS_EmptySet
  <2> QED BY <2>2, <2>3
<1>5. row \in Thread /\ row # None
  <2>1. thread.count - 1 \in Nat
    BY <1>4
  <2>2. row.last \in Ids \cup {None}
    BY <1>1, <1>3 DEF Thread, Op
  <2> QED BY <2>1, <2>2, DiscussionAssumption DEF Thread
<1>6. pc \in {"committing", "referencing"}
  OBVIOUS
<1>7. row.count = thread.count - 1
  OBVIOUS
<1>8. Goes(tx, n) /\ UNCHANGED <<tables, sequences>>
  BY DEF UncountComment
<1> HIDE DEF pc, row
<1>9. n \in Op
  <2>1. pc \in OpPc
    BY <1>6 DEF OpPc
  <2> QED BY <1>1, <1>5, <2>1 DEF Op
<1>10. /\ n.kind = o.kind /\ n.deal = o.deal /\ n.fresh = o.fresh
       /\ n.thread = o.thread /\ n.comment = o.comment /\ n.pc = pc /\ n.row = row
  BY <1>1 DEF Op
<1> HIDE DEF n
<1>11. OpOK(n)
  BY <1>1, <1>2, <1>5, <1>6, <1>7, <1>10 DEF OpOK, ChangeOK
<1>12. ASSUME NEW u \in Txs \ {tx} PROVE Apart(n, op[u])
  <2>1. ~HoldsThread(u, o.thread)
    BY <1>1 DEF UncountComment, Blockers
  <2> QED BY <1>1, <1>6, <1>10, <2>1, Requests DEF Apart, ChangeOK, HoldsThread
<1> QED
  BY <1>8, <1>9, <1>10, <1>11, <1>12, QuietStep

-----------------------------------------------------------------------------
(***************************************************************************)
(* Commits.                                                                *)
(***************************************************************************)

\* What the other requests say is about other rows.
LEMMA OthersApart ==
    ASSUME DiscussionInv, NEW tx \in Txs, Goes(tx, NoOp)
    PROVE  /\ op'[tx] = NoOp
           /\ \A u \in Txs \ {tx} : op'[u] = op[u]
           /\ op' \in [Txs -> Op]
           /\ (\A u, v \in Txs : u # v => Apart(op[u], op[v]))'
<1>1. op'[tx] = NoOp /\ \A u \in Txs \ {tx} : op'[u] = op[u]
  BY DEF DiscussionInv, TypeOK, Goes
<1>2. op' \in [Txs -> Op]
  BY NoOpTyped DEF DiscussionInv, TypeOK, Goes
<1>3. ASSUME NEW u \in Txs, NEW v \in Txs, u # v PROVE Apart(op[u], op[v])'
  <2>1. Apart(op'[u], op'[v])
    <3>1. CASE u = tx \/ v = tx
      BY <1>1, <3>1, ApartNoOp
    <3>2. CASE u # tx /\ v # tx
      BY <1>1, <1>3, <3>2 DEF DiscussionInv
    <3> QED BY <3>1, <3>2
  <2> QED BY <2>1 DEF Apart
<1> QED BY <1>1, <1>2, <1>3

LEMMA CommitEditInv ==
    ASSUME DiscussionInv, NEW tx \in Txs, CommitEdit(tx)
    PROVE  DiscussionInv'
<1> DEFINE o == op[tx]
<1>1. o \in Op /\ o.pc = "committing" /\ o.kind = "edit" /\ ChangeOK(o)
  BY Requests, Kinds DEF CommitEdit
<1>2. /\ op'[tx] = NoOp /\ \A u \in Txs \ {tx} : op'[u] = op[u]
      /\ op' \in [Txs -> Op]
      /\ (\A u, v \in Txs : u # v => Apart(op[u], op[v]))'
  BY OthersApart DEF CommitEdit
<1>3. comments' \in [Ids -> Comment \cup {None}]
  BY <1>1 DEF CommitEdit, ChangeOK, DiscussionInv, TypeOK, Comment
<1>4. ASSUME NEW c \in Ids
      PROVE  /\ comments'[c] = None <=> comments[c] = None
             /\ comments[c] # None => /\ comments'[c].thread = comments[c].thread
                                      /\ comments'[c].deleted = comments[c].deleted
  <2>1. CASE c = o.comment
    <3>1. comments[c] \in Comment /\ comments'[c] = [comments[c] EXCEPT !.edited = TRUE]
      BY <1>1, <2>1 DEF CommitEdit, ChangeOK, DiscussionInv, TypeOK
    <3>2. comments'[c] \in Comment
      BY <3>1 DEF Comment
    <3> QED BY <3>1, <3>2, DiscussionAssumption DEF Comment
  <2>2. CASE c # o.comment
    BY <1>1, <2>2 DEF CommitEdit, DiscussionInv, TypeOK
  <2> QED BY <2>1, <2>2
<1>5. TypeOK'
  BY <1>2, <1>3 DEF CommitEdit, sequences, DiscussionInv, TypeOK
<1>6. ASSUME NEW t PROVE Live(t)' = Live(t)
  BY <1>4 DEF Live
<1>7. CountIsLive'
  BY <1>6 DEF CommitEdit, DiscussionInv, CountIsLive
<1>8. OneThread'
  BY <1>4 DEF CommitEdit, DiscussionInv, OneThread
<1>9. IdsDrawn'
  BY <1>2, <1>4 DEF CommitEdit, sequences, DiscussionInv, IdsDrawn, NoOp
<1>10. ASSUME NEW u \in Txs PROVE OpOK(op[u])'
  <2>1. CASE u = tx
    BY <1>2, <2>1 DEF OpOK
  <2>2. CASE u # tx
    <3>1. op[u] \in Op /\ OpOK(op[u]) /\ op'[u] = op[u]
      BY <1>2, <2>2, Requests
    <3>2. op[u].comment # None => op[u].comment \in Ids
      BY <3>1 DEF Op
    <3> QED BY <1>4, <3>1, <3>2 DEF CommitEdit, OpOK, CreateOK, ChangeOK, ThreadOf
  <2> QED BY <2>1, <2>2
<1> QED BY <1>2, <1>5, <1>7, <1>8, <1>9, <1>10 DEF DiscussionInv

LEMMA CommitDeleteInv ==
    ASSUME DiscussionInv, NEW tx \in Txs, CommitDelete(tx)
    PROVE  DiscussionInv'
<1> DEFINE o == op[tx]
<1>1. o \in Op /\ o.pc = "committing" /\ o.kind = "delete" /\ ChangeOK(o)
  BY Requests, Kinds DEF CommitDelete
<1>2. /\ op'[tx] = NoOp /\ \A u \in Txs \ {tx} : op'[u] = op[u]
      /\ op' \in [Txs -> Op]
      /\ (\A u, v \in Txs : u # v => Apart(op[u], op[v]))'
  BY OthersApart DEF CommitDelete
<1>3. /\ comments[o.comment] \in Comment /\ o.thread \in Ids
      /\ o.row \in Thread /\ o.row # None
      /\ o.row.count = threads[o.thread].count - 1
      /\ threads[o.thread] # None /\ o.comment \in Live(o.thread)
  <2>1. comments[o.comment] \in Comment /\ o.thread \in Ids
    BY <1>1 DEF ChangeOK, DiscussionInv, TypeOK, Comment
  <2>2. o.row \in Thread /\ o.row # None
    BY <1>1 DEF ChangeOK, Op
  <2> QED BY <1>1, <2>1, <2>2 DEF ChangeOK, DiscussionInv, OneThread, Live
<1>4. comments' \in [Ids -> Comment \cup {None}]
  BY <1>1, <1>3 DEF CommitDelete, DiscussionInv, TypeOK, Comment
<1>5. ASSUME NEW c \in Ids
      PROVE  /\ comments'[c] = None <=> comments[c] = None
             /\ comments[c] # None => comments'[c].thread = comments[c].thread
             /\ c # o.comment => comments'[c] = comments[c]
             /\ c = o.comment => comments'[c].deleted
  <2>1. CASE c = o.comment
    <3>1. comments'[c] = [comments[c] EXCEPT !.deleted = TRUE]
      BY <1>1, <2>1 DEF CommitDelete, ChangeOK, DiscussionInv, TypeOK
    <3>2. comments'[c] \in Comment
      BY <1>3, <2>1, <3>1 DEF Comment
    <3> QED BY <1>3, <2>1, <3>1, <3>2, DiscussionAssumption DEF Comment
  <2>2. CASE c # o.comment
    BY <1>1, <2>2 DEF CommitDelete, DiscussionInv, TypeOK
  <2> QED BY <2>1, <2>2
<1>6. ASSUME NEW t \in Ids
      PROVE  threads'[t] = IF t = o.thread THEN o.row ELSE threads[t]
  BY <1>3 DEF CommitDelete, DiscussionInv, TypeOK
<1>7. TypeOK'
  BY <1>2, <1>3, <1>4 DEF CommitDelete, sequences, DiscussionInv, TypeOK
<1>8. CountIsLive'
  <2> SUFFICES ASSUME NEW t \in Ids, threads'[t] # None
               PROVE  threads'[t].count = Cardinality(Live(t)')
    BY DEF CountIsLive
  <2>1. CASE t = o.thread
    <3>1. Live(t)' = Live(t) \ {o.comment}
      BY <1>5 DEF Live
    <3>2. Cardinality(Live(t)') = Cardinality(Live(t)) - 1
      BY <1>3, <2>1, <3>1, CountRemoved, LiveFinite
    <3>3. threads[t].count = Cardinality(Live(t))
      BY <1>3, <2>1 DEF DiscussionInv, CountIsLive
    <3> QED BY <1>3, <1>6, <2>1, <3>2, <3>3
  <2>2. CASE t # o.thread
    <3>1. Live(t)' = Live(t)
      BY <1>1, <1>5, <2>2 DEF Live, ChangeOK
    <3> QED BY <1>6, <2>2, <3>1 DEF DiscussionInv, CountIsLive
  <2> QED BY <2>1, <2>2
<1>9. OneThread'
  <2>1. \A t \in Ids : threads'[t] = None <=> threads[t] = None
    BY <1>3, <1>6
  <2>2. \A c \in Ids : comments'[c] # None => threads'[comments'[c].thread] # None
    <3> SUFFICES ASSUME NEW c \in Ids, comments'[c] # None
                 PROVE  threads'[comments'[c].thread] # None
      OBVIOUS
    <3>1. comments[c] # None /\ comments'[c].thread = comments[c].thread
      BY <1>5
    <3>2. comments[c].thread \in Ids
      BY <3>1 DEF DiscussionInv, TypeOK, Comment
    <3> QED BY <2>1, <3>1, <3>2 DEF DiscussionInv, OneThread
  <2> QED BY <2>1, <2>2 DEF CommitDelete, DiscussionInv, OneThread
<1>10. IdsDrawn'
  <2>1. \A t \in Ids : threads'[t] # None => t < nextThread
    BY <1>3, <1>6 DEF DiscussionInv, IdsDrawn
  <2> QED BY <1>2, <1>5, <2>1 DEF CommitDelete, sequences, DiscussionInv, IdsDrawn, NoOp
<1>11. ASSUME NEW u \in Txs PROVE OpOK(op[u])'
  <2>1. CASE u = tx
    BY <1>2, <2>1 DEF OpOK
  <2>2. CASE u # tx
    <3>1. op[u] \in Op /\ OpOK(op[u]) /\ op'[u] = op[u] /\ Apart(o, op[u])
      BY <1>2, <2>2, Requests
    <3>2. CASE op[u] = NoOp
      BY <3>1, <3>2 DEF OpOK
    <3>3. CASE op[u].kind = "create" /\ CreateOK(op[u])
      <4>1. op[u].fresh # None => op[u].fresh \in Ids /\ op[u].fresh # o.thread
        BY <1>3, <3>1, <3>3 DEF CreateOK, Op
      <4>2. op[u].thread # None => op[u].thread \in Ids
        BY <3>1 DEF Op
      <4>3. op[u].row # None => op[u].thread # o.thread
        BY <1>3, <3>1 DEF Apart
      <4>4. op[u].comment # None => op[u].comment \in Ids
        BY <3>1 DEF Op
      <4>5. op[u].row # None => (op[u].row.count = ThreadOf(op[u]).count + 1)'
        BY <1>6, <3>1, <3>3, <4>1, <4>2, <4>3 DEF CreateOK, ThreadOf
      <4> QED BY <1>5, <1>6, <3>1, <3>3, <4>1, <4>4, <4>5
              DEF CommitDelete, OpOK, CreateOK
    <3>4. CASE op[u].kind # "create" /\ ChangeOK(op[u])
      <4>1. op[u].row # None => op[u].thread # o.thread
        BY <1>3, <3>1 DEF Apart
      <4>2. op[u].pc # "locking" => op[u].comment # o.comment
        BY <1>1, <3>1, <3>4 DEF Apart
      <4>3. op[u].thread # None => op[u].thread \in Ids
        BY <3>1 DEF Op
      <4> QED BY <1>5, <1>6, <3>1, <3>4, <4>1, <4>2, <4>3
              DEF CommitDelete, OpOK, ChangeOK
    <3> QED BY <3>1, <3>2, <3>3, <3>4 DEF OpOK
  <2> QED BY <2>1, <2>2
<1> QED BY <1>2, <1>7, <1>8, <1>9, <1>10, <1>11 DEF DiscussionInv

\* What a creation that is about to commit has, and what the commit makes of
\* the tables.
LEMMA CreatedRows ==
    ASSUME DiscussionInv, NEW tx \in Txs, CommitCreate(tx)
    PROVE  LET o == op[tx]
           IN /\ o \in Op /\ o.kind = "create" /\ CreateOK(o)
              /\ o.thread \in Ids /\ o.comment \in Ids
              /\ o.row \in Thread /\ o.row # None
              /\ o.row.count = ThreadOf(o).count + 1
              /\ \A t \in Ids : threads'[t] = IF t = o.thread THEN o.row ELSE threads[t]
              /\ comments[o.comment] = None
              /\ comments'[o.comment] \in Comment /\ comments'[o.comment] # None
              /\ comments'[o.comment].thread = o.thread
              /\ ~comments'[o.comment].deleted
              /\ \A c \in Ids \ {o.comment} : comments'[c] = comments[c]
              /\ comments' \in [Ids -> Comment \cup {None}]
              /\ links'[o.deal] = o.thread
              /\ \A d \in Deals \ {o.deal} : links'[d] = links[d]
<1> DEFINE o == op[tx]
           new == [thread |-> o.thread, author |-> o.user, at |-> o.at,
                   edited |-> FALSE, deleted |-> FALSE]
<1>1. o \in Op /\ o.pc = "committing" /\ o.kind = "create" /\ CreateOK(o)
  BY Requests, Kinds DEF CommitCreate
<1>2. /\ o.thread \in Ids /\ o.comment \in Ids
      /\ o.row \in Thread /\ o.row # None
      /\ o.row.count = ThreadOf(o).count + 1
      /\ comments[o.comment] = None
      /\ o.deal \in Deals /\ o.user \in Users /\ o.at \in Nat
  BY <1>1 DEF CreateOK, Op
<1>3. \A t \in Ids : threads'[t] = IF t = o.thread THEN o.row ELSE threads[t]
  BY <1>1, <1>2, IdsFacts DEF CommitCreate, CreateOK
<1>4. new \in Comment /\ new # None
  <2>1. /\ new.thread \in Ids /\ new.author \in Users /\ new.at \in Nat
        /\ new.edited \in BOOLEAN /\ new.deleted \in BOOLEAN
    BY <1>2
  <2>2. new \in Comment
    BY <2>1 DEF Comment
  <2> QED BY <2>2, DiscussionAssumption
<1>5. /\ comments'[o.comment] = new
      /\ \A c \in Ids \ {o.comment} : comments'[c] = comments[c]
      /\ comments' \in [Ids -> Comment \cup {None}]
  BY <1>2, <1>4 DEF CommitCreate, DiscussionInv, TypeOK
<1>6. /\ links'[o.deal] = o.thread
      /\ \A d \in Deals \ {o.deal} : links'[d] = links[d]
  BY <1>2 DEF CommitCreate, DiscussionInv, TypeOK
<1> QED BY <1>1, <1>2, <1>3, <1>4, <1>5, <1>6

LEMMA CreatedCounts ==
    ASSUME DiscussionInv, NEW tx \in Txs, CommitCreate(tx)
    PROVE  CountIsLive'
<1> DEFINE o == op[tx]
<1>1. /\ o \in Op /\ CreateOK(o)
      /\ o.thread \in Ids /\ o.comment \in Ids
      /\ o.row.count = ThreadOf(o).count + 1
      /\ \A t \in Ids : threads'[t] = IF t = o.thread THEN o.row ELSE threads[t]
      /\ comments[o.comment] = None
      /\ comments'[o.comment] # None /\ comments'[o.comment].thread = o.thread
      /\ ~comments'[o.comment].deleted
      /\ \A c \in Ids \ {o.comment} : comments'[c] = comments[c]
  BY CreatedRows
<1> SUFFICES ASSUME NEW t \in Ids, threads'[t] # None
             PROVE  threads'[t].count = Cardinality(Live(t)')
  BY DEF CountIsLive
<1>2. CASE t = o.thread
  <2>1. Live(t)' = Live(t) \cup {o.comment} /\ o.comment \notin Live(t)
    BY <1>1, <1>2 DEF Live
  <2>2. Cardinality(Live(t)') = Cardinality(Live(t)) + 1
    BY <2>1, CountAdded, LiveFinite
  <2>3. ThreadOf(o).count = Cardinality(Live(t))
    <3>1. CASE o.fresh = o.thread
      <4>1. threads[t] = None
        BY <1>1, <1>2, <3>1, IdsFacts DEF CreateOK
      <4>2. Live(t) = {}
        BY <4>1 DEF Live, DiscussionInv, OneThread
      <4> QED BY <3>1, <4>2, FS_EmptySet DEF ThreadOf, NewThread
    <3>2. CASE o.fresh # o.thread
      <4>1. threads[t] # None
        BY <1>1, <1>2, <3>2, IdsFacts DEF CreateOK, DiscussionInv, OneThread
      <4> QED BY <1>2, <3>2, <4>1 DEF ThreadOf, DiscussionInv, CountIsLive
    <3> QED BY <3>1, <3>2
  <2> QED BY <1>1, <1>2, <2>2, <2>3
<1>3. CASE t # o.thread
  <2>1. Live(t)' = Live(t)
    BY <1>1, <1>3 DEF Live
  <2> QED BY <1>1, <1>3, <2>1 DEF DiscussionInv, CountIsLive
<1> QED BY <1>2, <1>3

LEMMA CreatedLinks ==
    ASSUME DiscussionInv, NEW tx \in Txs, CommitCreate(tx)
    PROVE  OneThread'
<1> DEFINE o == op[tx]
<1>1. /\ o \in Op /\ CreateOK(o)
      /\ o.thread \in Ids /\ o.comment \in Ids /\ o.row # None
      /\ \A t \in Ids : threads'[t] = IF t = o.thread THEN o.row ELSE threads[t]
      /\ comments'[o.comment].thread = o.thread
      /\ \A c \in Ids \ {o.comment} : comments'[c] = comments[c]
      /\ links'[o.deal] = o.thread /\ o.deal \in Deals
      /\ \A d \in Deals \ {o.deal} : links'[d] = links[d]
  BY CreatedRows DEF CreateOK
<1>2. links[o.deal] \in {None, o.thread}
  BY <1>1, IdsFacts DEF CreateOK
<1>3. \A d \in Deals : links[d] = o.thread => d = o.deal
  <2>1. CASE o.fresh = o.thread
    <3>1. threads[o.thread] = None
      BY <1>1, <2>1, IdsFacts DEF CreateOK
    <3> QED BY <1>1, <3>1, IdsFacts DEF DiscussionInv, OneThread
  <2>2. CASE o.fresh # o.thread
    <3>1. links[o.deal] = o.thread
      BY <1>1, <2>2, IdsFacts DEF CreateOK
    <3> QED BY <1>1, <3>1, IdsFacts DEF DiscussionInv, OneThread
  <2> QED BY <2>1, <2>2
<1>4. \A d, e \in Deals : links'[d] = links'[e] /\ links'[d] # None => d = e
  BY <1>1, <1>3 DEF DiscussionInv, OneThread
<1>5. {t \in Ids : threads'[t] # None} = {links'[d] : d \in Deals} \ {None}
  <2>1. \A t \in Ids : threads[t] # None <=> \E d \in Deals : links[d] = t
    BY IdsFacts DEF DiscussionInv, OneThread
  <2>2. \A d \in Deals : links'[d] # None => links'[d] \in Ids
    BY <1>1 DEF DiscussionInv, TypeOK
  <2>3. ASSUME NEW t \in Ids
        PROVE  threads'[t] # None <=> \E d \in Deals : links'[d] = t
    <3>1. CASE t = o.thread
      BY <1>1, <3>1
    <3>2. CASE t # o.thread
      <4>1. \A d \in Deals : links'[d] = t <=> links[d] = t
        BY <1>1, <1>2, <3>2, IdsFacts
      <4> QED BY <1>1, <2>1, <3>2, <4>1
    <3> QED BY <3>1, <3>2
  <2> QED BY <2>2, <2>3, IdsFacts
<1>6. \A c \in Ids : comments'[c] # None => threads'[comments'[c].thread] # None
  <2> SUFFICES ASSUME NEW c \in Ids, comments'[c] # None
               PROVE  threads'[comments'[c].thread] # None
    OBVIOUS
  <2>1. CASE c = o.comment
    BY <1>1, <2>1
  <2>2. CASE c # o.comment
    <3>1. comments[c] # None /\ comments'[c].thread = comments[c].thread
      BY <1>1, <2>2
    <3>2. comments[c].thread \in Ids /\ threads[comments[c].thread] # None
      BY <3>1 DEF DiscussionInv, TypeOK, Comment, OneThread
    <3> QED BY <1>1, <3>1, <3>2
  <2> QED BY <2>1, <2>2
<1> QED BY <1>4, <1>5, <1>6 DEF OneThread

LEMMA CommitCreateInv ==
    ASSUME DiscussionInv, NEW tx \in Txs, CommitCreate(tx)
    PROVE  DiscussionInv'
<1> DEFINE o == op[tx]
<1>1. /\ op'[tx] = NoOp /\ \A u \in Txs \ {tx} : op'[u] = op[u]
      /\ op' \in [Txs -> Op]
      /\ (\A u, v \in Txs : u # v => Apart(op[u], op[v]))'
  BY OthersApart DEF CommitCreate
<1>2. /\ o \in Op /\ o.kind = "create" /\ CreateOK(o)
      /\ o.thread \in Ids /\ o.comment \in Ids /\ o.row \in Thread /\ o.row # None
      /\ \A t \in Ids : threads'[t] = IF t = o.thread THEN o.row ELSE threads[t]
      /\ comments[o.comment] = None /\ comments'[o.comment] # None
      /\ \A c \in Ids \ {o.comment} : comments'[c] = comments[c]
      /\ comments' \in [Ids -> Comment \cup {None}]
      /\ links'[o.deal] = o.thread /\ o.deal \in Deals
      /\ \A d \in Deals \ {o.deal} : links'[d] = links[d]
  BY CreatedRows DEF CreateOK
<1>3. TypeOK'
  <2>1. threads' \in [Ids -> Thread \cup {None}]
    BY <1>2 DEF CommitCreate, DiscussionInv, TypeOK
  <2>2. links' \in [Deals -> Ids \cup {None}]
    BY <1>2 DEF CommitCreate, DiscussionInv, TypeOK
  <2> QED BY <1>1, <1>2, <2>1, <2>2 DEF CommitCreate, sequences, DiscussionInv, TypeOK
<1>4. IdsDrawn'
  <2>1. o.comment < nextComment /\ (threads[o.thread] = None => o.thread < nextThread)
    BY <1>2, IdsFacts, Requests DEF CreateOK, DiscussionInv, OneThread
  <2>2. \A t \in Ids : threads'[t] # None => t < nextThread
    BY <1>2, <2>1 DEF DiscussionInv, IdsDrawn
  <2>3. \A c \in Ids : comments'[c] # None => c < nextComment
    BY <1>2, <2>1 DEF DiscussionInv, IdsDrawn
  <2> QED BY <1>1, <2>2, <2>3 DEF CommitCreate, sequences, DiscussionInv, IdsDrawn, NoOp
<1>5. ASSUME NEW u \in Txs PROVE OpOK(op[u])'
  <2>1. CASE u = tx
    BY <1>1, <2>1 DEF OpOK
  <2>2. CASE u # tx
    <3>1. op[u] \in Op /\ OpOK(op[u]) /\ op'[u] = op[u] /\ Apart(o, op[u])
      BY <1>1, <2>2, Requests
    <3>2. CASE op[u] = NoOp
      BY <3>1, <3>2 DEF OpOK
    <3>3. CASE op[u].kind = "create" /\ CreateOK(op[u])
      <4>1. op[u].fresh # None => op[u].fresh \in Ids /\ op[u].fresh # o.thread
        <5> SUFFICES ASSUME op[u].fresh # None, op[u].fresh = o.thread PROVE FALSE
          BY <3>1 DEF Op
        <5>1. threads[o.thread] = None
          BY <3>3 DEF CreateOK
        <5>2. o.fresh = o.thread
          BY <1>2, <5>1, IdsFacts DEF CreateOK, DiscussionInv, OneThread
        <5> QED BY <1>2, <3>1, <5>2, IdsFacts DEF Apart
      <4>2. op[u].thread # None => op[u].thread \in Ids
        BY <3>1 DEF Op
      <4>3. op[u].row # None => op[u].thread # o.thread
        BY <1>2, <3>1 DEF Apart
      <4>4. op[u].comment # None => op[u].comment \in Ids \ {o.comment}
        BY <1>2, <3>1, <3>3, IdsFacts DEF Apart, Op
      <4>5. op[u].row # None => (op[u].row.count = ThreadOf(op[u]).count + 1)'
        BY <1>2, <3>1, <3>3, <4>1, <4>2, <4>3 DEF CreateOK, ThreadOf
      <4>6. links[op[u].deal] # None => links'[op[u].deal] = links[op[u].deal]
        BY <1>2, <3>3, IdsFacts DEF CreateOK
      <4>7. op[u].thread # None /\ op[u].fresh = op[u].thread => op[u].deal # o.deal \/ o.fresh = None
        BY <1>2, <3>1, IdsFacts DEF Apart, CreateOK
      <4>8. op[u].thread # None => \/ op[u].fresh = op[u].thread /\ links'[op[u].deal] = None
                                   \/ op[u].fresh = None /\ links'[op[u].deal] = op[u].thread
        BY <1>2, <3>3, <4>6, <4>7, IdsFacts DEF CreateOK
      <4>9. CreateOK(op[u])'
        BY <1>2, <3>1, <3>3, <4>1, <4>4, <4>5, <4>6, <4>8 DEF CreateOK
      <4> QED BY <3>1, <3>3, <4>9 DEF OpOK
    <3>4. CASE op[u].kind # "create" /\ ChangeOK(op[u])
      <4>1. op[u].comment # o.comment
        BY <1>2, <3>4 DEF ChangeOK
      <4>2. op[u].row # None => op[u].thread # o.thread /\ op[u].thread \in Ids
        BY <1>2, <3>1, <3>4, IdsFacts DEF Apart, ChangeOK, DiscussionInv, TypeOK, Comment
      <4> QED BY <1>2, <3>1, <3>4, <4>1, <4>2 DEF OpOK, ChangeOK
    <3> QED BY <3>1, <3>2, <3>3, <3>4 DEF OpOK
  <2> QED BY <2>1, <2>2
<1> QED BY <1>1, <1>3, <1>4, <1>5, CreatedCounts, CreatedLinks DEF DiscussionInv

-----------------------------------------------------------------------------
(***************************************************************************)
(* Every step.                                                             *)
(***************************************************************************)

LEMMA InitInv == Init => DiscussionInv
<1> SUFFICES ASSUME Init PROVE DiscussionInv
  OBVIOUS
<1>1. TypeOK
  BY NoOpTyped, DiscussionAssumption DEF Init, TypeOK
<1>2. CountIsLive /\ OneThread
  BY DEF Init, CountIsLive, OneThread
<1>3. IdsDrawn
  BY DEF Init, IdsDrawn, NoOp
<1>4. \A tx \in Txs : OpOK(op[tx])
  BY DEF Init, OpOK
<1>5. \A tx, other \in Txs : tx # other => Apart(op[tx], op[other])
  BY ApartNoOp DEF Init
<1> QED BY <1>1, <1>2, <1>3, <1>4, <1>5 DEF DiscussionInv

LEMMA StutterInv ==
    ASSUME DiscussionInv, UNCHANGED vars
    PROVE  DiscussionInv'
  BY DEF vars, tables, sequences, DiscussionInv, TypeOK, CountIsLive, Live, OneThread,
         IdsDrawn, OpOK, CreateOK, ChangeOK, ThreadOf, Apart

LEMMA NextInv == DiscussionInv /\ [Next]_vars => DiscussionInv'
<1> SUFFICES ASSUME DiscussionInv, [Next]_vars PROVE DiscussionInv'
  OBVIOUS
<1>1. ASSUME NEW tx \in Txs, Arrive(tx) PROVE DiscussionInv'
  BY <1>1, ArriveInv
<1>2. ASSUME NEW tx \in Txs, Step(tx) PROVE DiscussionInv'
  BY <1>2, FindThreadInv, InsertLinkInv, RereadInv, InsertCommentInv, CountCommentInv,
     CommitCreateInv, LockCommentInv, CommitEditInv, SoftDeleteInv, UncountCommentInv,
     ReferenceCommentInv, CommitDeleteInv
  DEF Step
<1>3. ASSUME NEW tx \in Txs, Abort(tx) PROVE DiscussionInv'
  BY <1>3, AbortInv
<1>4. CASE UNCHANGED vars
  BY <1>4, StutterInv
<1> QED BY <1>1, <1>2, <1>3, <1>4 DEF Next

-----------------------------------------------------------------------------
(***************************************************************************)
(* The last comment of a thread.  Only creations move it while no comment  *)
(* is deleted; a creation decides under the lock of the thread's row, so   *)
(* what it found newest is newest still when it commits (LeaderKept).      *)
(***************************************************************************)

\* Comments of a thread are committed, with the time of their transaction.
LEMMA PostedTyped ==
    ASSUME DiscussionInv, NEW t
    PROVE  /\ Posted(t) \subseteq Ids
           /\ \A c \in Posted(t) : /\ comments[c] \in Comment /\ comments[c].at \in Nat
                                   /\ c \in Nat /\ c # None
  BY IdsFacts DEF Posted, DiscussionInv, TypeOK, Comment

\* Of two comments one is newer: the order is that of (created_at, id).
LEMMA NewerOrder ==
    ASSUME DiscussionInv, NEW at \in Nat, NEW c \in Nat, NEW t,
           NEW d \in Posted(t), NEW e \in Posted(t)
    PROVE  /\ IsNewer(at, c, d) /\ IsNewer(comments[d].at, d, e) => IsNewer(at, c, e)
           /\ c # d /\ ~IsNewer(at, c, d) =>
                comments[d].at > at \/ (comments[d].at = at /\ d > c)
  BY PostedTyped DEF IsNewer

\* The tables as they are: only the request's own record can say more.
LEMMA LastOwnStep ==
    ASSUME LastInv, DiscussionInv', NEW tx \in Txs, NEW o, Goes(tx, o),
           UNCHANGED tables, LeaderKept(o)
    PROVE  LastInv'
<1>1. op'[tx] = o /\ \A u \in Txs \ {tx} : op'[u] = op[u]
  BY DEF LastInv, DiscussionInv, TypeOK, Goes
<1>2. \A u \in Txs : LeaderKept(op'[u])
  BY <1>1 DEF LastInv
<1>3. ASSUME NEW u \in Txs PROVE LeaderKept(op[u])'
  BY <1>2 DEF LeaderKept, Leads, Undeleted, Posted, IsNewer, tables
<1>4. (\A t \in Ids : threads[t] # None /\ Undeleted(t) => Leads(threads[t].last, t))'
  BY DEF LastInv, Leads, Undeleted, Posted, IsNewer, tables
<1> QED BY <1>3, <1>4 DEF LastInv

LEMMA CountCommentLast ==
    ASSUME LastInv, NEW tx \in Txs, CountComment(tx)
    PROVE  LastInv'
<1> DEFINE o == op[tx]
           row == Counted(o, ThreadOf(o))
           n == [o EXCEPT !.pc = "committing", !.row = row]
<1>0. DiscussionInv /\ DiscussionInv'
  BY CountCommentInv DEF LastInv
<1>1. o \in Op /\ o.pc = "counting" /\ o.kind = "create" /\ CreateOK(o)
  BY <1>0, Requests, Kinds DEF CountComment
<1>2. /\ o.thread \in Ids /\ o.comment \in Ids /\ o.comment \in Nat /\ o.at \in Nat
      /\ ThreadOf(o) \in Thread /\ comments[o.comment] = None
  BY <1>0, <1>1, ThreadTyped, IdsFacts DEF CreateOK, Op
<1>3. n.kind = "create" /\ n.thread = o.thread /\ n.comment = o.comment /\ n.at = o.at
      /\ n.row = row
  BY <1>1 DEF Op
<1>4. row.last = IF IsNewer(o.at, o.comment, ThreadOf(o).last) THEN o.comment
                 ELSE ThreadOf(o).last
  BY DEF Counted
<1> HIDE DEF n, row
<1>5. o.comment \notin Posted(o.thread)
  BY <1>2 DEF Posted
<1>6. LeaderKept(n)
  <2> SUFFICES ASSUME Undeleted(o.thread)
               PROVE  \/ /\ row.last = o.comment
                         /\ \A d \in Posted(o.thread) : IsNewer(o.at, o.comment, d)
                      \/ /\ Leads(row.last, o.thread)
                         /\ ~IsNewer(o.at, o.comment, row.last)
    BY <1>3 DEF LeaderKept
  <2>1. CASE o.thread = o.fresh
    <3>1. threads[o.thread] = None
      BY <1>1, <1>2, <2>1, IdsFacts DEF CreateOK
    <3>2. Posted(o.thread) = {}
      BY <1>0, <3>1 DEF Posted, DiscussionInv, OneThread
    <3>3. ThreadOf(o).last = None
      BY <2>1 DEF ThreadOf, NewThread
    <3> QED BY <1>4, <3>2, <3>3 DEF IsNewer
  <2>2. CASE o.thread # o.fresh
    <3>1. ThreadOf(o) = threads[o.thread] /\ threads[o.thread] # None
      BY <1>2, <2>2, DiscussionAssumption DEF ThreadOf
    <3> DEFINE l == threads[o.thread].last
    <3>2. Leads(l, o.thread)
      BY <1>2, <3>1 DEF LastInv
    <3>3. l \in Posted(o.thread) /\ o.comment # l
      BY <1>5, <3>2 DEF Leads
    <3>4. CASE IsNewer(o.at, o.comment, l)
      <4>1. row.last = o.comment
        BY <1>4, <3>1, <3>4
      <4>2. ASSUME NEW d \in Posted(o.thread) PROVE IsNewer(o.at, o.comment, d)
        <5>1. CASE d = l
          BY <3>4, <5>1
        <5>2. CASE d # l
          <6>1. IsNewer(comments[l].at, l, d)
            BY <3>2, <5>2 DEF Leads
          <6> QED BY <1>0, <1>2, <3>3, <3>4, <6>1, NewerOrder
        <5> QED BY <5>1, <5>2
      <4> QED BY <4>1, <4>2
    <3>5. CASE ~IsNewer(o.at, o.comment, l)
      BY <1>4, <3>1, <3>2, <3>5
    <3> QED BY <3>4, <3>5
  <2> QED BY <2>1, <2>2
<1>7. Goes(tx, n) /\ UNCHANGED tables
  BY DEF CountComment, n, row
<1> QED BY <1>0, <1>6, <1>7, LastOwnStep

\* A thread whose comments keep their times and stay deleted keeps its leader.
LEMMA SameLeader ==
    ASSUME NEW t,
           Posted(t)' = Posted(t),
           \A c \in Posted(t) : /\ comments'[c].at = comments[c].at
                                /\ comments[c].deleted => comments'[c].deleted,
           Undeleted(t)'
    PROVE  /\ Undeleted(t)
           /\ \A c : Leads(c, t) => Leads(c, t)'
<1>1. Undeleted(t)
  BY DEF Undeleted
<1>2. ASSUME NEW c, Leads(c, t)
      PROVE  Leads(c, t)'
  BY <1>2 DEF Leads, IsNewer
<1> QED BY <1>1, <1>2

\* A request ends and its commit touches only threads outside T: the threads
\* in T and the requests that have locked one stay right.
LEMMA LastCommit ==
    ASSUME LastInv, DiscussionInv', NEW tx \in Txs, Goes(tx, NoOp),
           NEW T \in SUBSET Ids,
           \A t \in T : /\ threads'[t] = threads[t] /\ Posted(t)' = Posted(t)
                        /\ \A c \in Posted(t) :
                             /\ comments'[c].at = comments[c].at
                             /\ comments[c].deleted => comments'[c].deleted,
           \A u \in Txs \ {tx} :
             op[u].kind = "create" /\ op[u].row # None => op[u].thread \in T,
           \A t \in Ids \ T : (threads[t] # None /\ Undeleted(t) =>
                                 Leads(threads[t].last, t))'
    PROVE  LastInv'
<1>1. op'[tx] = NoOp /\ \A u \in Txs \ {tx} : op'[u] = op[u]
  BY DEF LastInv, DiscussionInv, TypeOK, Goes
<1>2. ASSUME NEW t \in T, Undeleted(t)'
      PROVE  Undeleted(t) /\ \A c : Leads(c, t) => Leads(c, t)'
  BY <1>2, SameLeader
<1>3. ASSUME NEW t \in Ids
      PROVE  (threads[t] # None /\ Undeleted(t) => Leads(threads[t].last, t))'
  <2>1. CASE t \in T
    <3> SUFFICES ASSUME threads'[t] # None, Undeleted(t)'
                 PROVE  Leads(threads[t].last, t)'
      OBVIOUS
    <3>1. PICK c : c = threads[t].last
      OBVIOUS
    <3>2. Leads(c, t)'
      BY <1>2, <2>1, <3>1 DEF LastInv
    <3>3. c = threads'[t].last
      BY <2>1, <3>1
    <3> QED BY <3>2, <3>3 DEF Leads, IsNewer, Posted
  <2>2. CASE t \notin T
    BY <2>2
  <2> QED BY <2>1, <2>2
<1>4. ASSUME NEW u \in Txs PROVE LeaderKept(op[u])'
  <2>1. CASE u = tx
    BY <1>1, <2>1 DEF LeaderKept, NoOp
  <2>2. CASE u # tx
    <3>1. PICK o : o = op[u]
      OBVIOUS
    <3>2. LeaderKept(o) /\ o = op'[u]
      BY <1>1, <2>2, <3>1 DEF LastInv
    <3>3. LeaderKept(o)'
      <4> SUFFICES ASSUME o.kind = "create", o.row # None, Undeleted(o.thread)'
                   PROVE  \/ /\ o.row.last = o.comment
                             /\ \A d \in Posted(o.thread)' : IsNewer(o.at, o.comment, d)'
                          \/ /\ Leads(o.row.last, o.thread)'
                             /\ ~IsNewer(o.at, o.comment, o.row.last)'
        BY DEF LeaderKept
      <4>1. o.thread \in T
        BY <2>2, <3>1
      <4>2. Undeleted(o.thread) /\ \A c : Leads(c, o.thread) => Leads(c, o.thread)'
        BY <1>2, <4>1
      <4>3. CASE /\ o.row.last = o.comment
                 /\ \A d \in Posted(o.thread) : IsNewer(o.at, o.comment, d)
        BY <4>1, <4>3 DEF IsNewer
      <4>4. CASE /\ Leads(o.row.last, o.thread)
                 /\ ~IsNewer(o.at, o.comment, o.row.last)
        <5>1. ~IsNewer(o.at, o.comment, o.row.last)'
          BY <4>1, <4>4 DEF Leads, IsNewer
        <5> QED BY <4>2, <4>4, <5>1
      <4> QED BY <3>2, <4>2, <4>3, <4>4 DEF LeaderKept
    <3> QED BY <3>2, <3>3 DEF LeaderKept, Leads, Undeleted, Posted, IsNewer
  <2> QED BY <2>1, <2>2
<1> QED BY <1>3, <1>4 DEF LastInv

LEMMA CommitEditLast ==
    ASSUME LastInv, NEW tx \in Txs, CommitEdit(tx)
    PROVE  LastInv'
<1> DEFINE o == op[tx]
<1>0. DiscussionInv /\ DiscussionInv'
  BY CommitEditInv DEF LastInv
<1>1. o \in Op /\ o.pc = "committing" /\ o.kind = "edit" /\ ChangeOK(o)
  BY <1>0, Requests, Kinds DEF CommitEdit
<1>2. ASSUME NEW c \in Ids
      PROVE  /\ comments'[c] = None <=> comments[c] = None
             /\ comments[c] # None => /\ comments'[c].thread = comments[c].thread
                                      /\ comments'[c].at = comments[c].at
                                      /\ comments'[c].deleted = comments[c].deleted
  <2>1. CASE c = o.comment
    <3>1. comments[c] \in Comment /\ comments'[c] = [comments[c] EXCEPT !.edited = TRUE]
      BY <1>0, <1>1, <2>1 DEF CommitEdit, ChangeOK, DiscussionInv, TypeOK
    <3>2. comments'[c] \in Comment
      BY <3>1 DEF Comment
    <3> QED BY <3>1, <3>2, DiscussionAssumption DEF Comment
  <2>2. CASE c # o.comment
    BY <1>0, <1>1, <2>2 DEF CommitEdit, DiscussionInv, TypeOK
  <2> QED BY <2>1, <2>2
<1>3. \A t \in Ids : /\ threads'[t] = threads[t] /\ Posted(t)' = Posted(t)
                     /\ \A c \in Posted(t) :
                          /\ comments'[c].at = comments[c].at
                          /\ comments[c].deleted => comments'[c].deleted
  BY <1>2 DEF Posted, CommitEdit
<1>4. \A u \in Txs \ {tx} :
        op[u].kind = "create" /\ op[u].row # None => op[u].thread \in Ids
  BY <1>0, Requests, DiscussionAssumption DEF OpOK, CreateOK, NoOp, Op
<1>5. Goes(tx, NoOp) /\ Ids \in SUBSET Ids
  BY DEF CommitEdit
<1> QED BY <1>0, <1>3, <1>4, <1>5, LastCommit

\* A request that has locked its thread's row is the only one.
LEMMA RowsApart ==
    ASSUME DiscussionInv, NEW tx \in Txs, op[tx].row # None
    PROVE  \A u \in Txs \ {tx} :
             op[u].kind = "create" /\ op[u].row # None => op[u].thread \in Ids \ {op[tx].thread}
  BY Requests DEF Apart, OpOK, CreateOK, NoOp, Op

LEMMA CommitDeleteLast ==
    ASSUME LastInv, NEW tx \in Txs, CommitDelete(tx)
    PROVE  LastInv'
<1> DEFINE o == op[tx]
<1>0. DiscussionInv /\ DiscussionInv'
  BY CommitDeleteInv DEF LastInv
<1>1. /\ o \in Op /\ o.pc = "committing" /\ o.kind = "delete" /\ ChangeOK(o)
      /\ o.comment \in Ids /\ comments[o.comment] # None
      /\ o.thread = comments[o.comment].thread /\ o.row # None
  BY <1>0, Requests, Kinds DEF CommitDelete, ChangeOK
<1>2. ASSUME NEW c \in Ids
      PROVE  /\ comments'[c] = None <=> comments[c] = None
             /\ comments[c] # None => comments'[c].thread = comments[c].thread
             /\ c # o.comment => comments'[c] = comments[c]
             /\ c = o.comment => comments'[c].deleted
  <2>1. CASE c = o.comment
    <3>1. comments[c] \in Comment /\ comments'[c] = [comments[c] EXCEPT !.deleted = TRUE]
      BY <1>0, <1>1, <2>1 DEF CommitDelete, DiscussionInv, TypeOK
    <3>2. comments'[c] \in Comment
      BY <3>1 DEF Comment
    <3> QED BY <2>1, <3>1, <3>2, DiscussionAssumption DEF Comment
  <2>2. CASE c # o.comment
    BY <1>0, <1>1, <2>2 DEF CommitDelete, DiscussionInv, TypeOK
  <2> QED BY <2>1, <2>2
<1>3. ASSUME NEW t \in Ids \ {o.thread}
      PROVE  /\ threads'[t] = threads[t] /\ Posted(t)' = Posted(t)
             /\ \A c \in Posted(t) :
                  /\ comments'[c].at = comments[c].at
                  /\ comments[c].deleted => comments'[c].deleted
  <2>1. threads'[t] = threads[t]
    BY <1>0 DEF CommitDelete, DiscussionInv, TypeOK
  <2>2. Posted(t)' = Posted(t)
    BY <1>2 DEF Posted
  <2>3. \A c \in Posted(t) : c \in Ids /\ c # o.comment
    BY <1>1 DEF Posted
  <2> QED BY <1>2, <2>1, <2>2, <2>3
<1>4. ASSUME NEW t \in Ids \ (Ids \ {o.thread})
      PROVE  ~Undeleted(t)'
  <2>1. t = o.thread
    OBVIOUS
  <2>2. o.comment \in Posted(t)'
    BY <1>1, <1>2, <2>1 DEF Posted
  <2> QED BY <1>1, <1>2, <2>2 DEF Undeleted
<1>5. /\ Goes(tx, NoOp) /\ Ids \ {o.thread} \in SUBSET Ids
      /\ \A u \in Txs \ {tx} :
           op[u].kind = "create" /\ op[u].row # None => op[u].thread \in Ids \ {o.thread}
  BY <1>0, <1>1, RowsApart DEF CommitDelete
<1>6. \A t \in Ids \ (Ids \ {o.thread}) :
        (threads[t] # None /\ Undeleted(t) => Leads(threads[t].last, t))'
  BY <1>4
<1> QED BY <1>0, <1>3, <1>5, <1>6, LastCommit

LEMMA CommitCreateLast ==
    ASSUME LastInv, NEW tx \in Txs, CommitCreate(tx)
    PROVE  LastInv'
<1> DEFINE o == op[tx]
<1>0. DiscussionInv /\ DiscussionInv'
  BY CommitCreateInv DEF LastInv
<1>1. /\ o \in Op /\ o.kind = "create" /\ CreateOK(o)
      /\ o.thread \in Ids /\ o.comment \in Ids
      /\ o.row \in Thread /\ o.row # None
      /\ \A t \in Ids : threads'[t] = IF t = o.thread THEN o.row ELSE threads[t]
      /\ comments[o.comment] = None
      /\ comments'[o.comment] # None
      /\ comments'[o.comment].thread = o.thread
      /\ \A c \in Ids \ {o.comment} : comments'[c] = comments[c]
  BY <1>0, CreatedRows
<1>2. comments'[o.comment].at = o.at
  BY <1>0, <1>1 DEF CommitCreate, DiscussionInv, TypeOK
<1>3. \A t \in Ids \ {o.thread} :
        /\ threads'[t] = threads[t] /\ Posted(t)' = Posted(t)
        /\ \A c \in Posted(t) : /\ comments'[c].at = comments[c].at
                                /\ comments[c].deleted => comments'[c].deleted
  BY <1>1 DEF Posted
<1>4. ASSUME NEW t \in Ids \ (Ids \ {o.thread})
      PROVE  (threads[t] # None /\ Undeleted(t) => Leads(threads[t].last, t))'
  <2> SUFFICES ASSUME Undeleted(t)' PROVE Leads(threads[t].last, t)'
    OBVIOUS
  <2>1. t = o.thread
    OBVIOUS
  <2>2. Posted(t)' = Posted(t) \cup {o.comment} /\ o.comment \notin Posted(t)
    BY <1>1, <2>1 DEF Posted
  <2>3. \A c \in Posted(t) : c \in Ids \ {o.comment} /\ comments'[c] = comments[c]
    BY <1>1, <2>2 DEF Posted
  <2>4. Undeleted(o.thread)
    BY <2>1, <2>2, <2>3 DEF Undeleted
  <2>5. PICK l : l = o.row.last
    OBVIOUS
  <2>6. /\ o.at \in Nat /\ o.comment \in Nat
        /\ \A c \in Posted(t) : comments[c].at \in Nat /\ c \in Nat /\ c # None
    BY <1>0, <1>1, PostedTyped, IdsFacts DEF Op
  <2>7. \/ /\ l = o.comment
           /\ \A d \in Posted(t) : IsNewer(o.at, o.comment, d)
        \/ /\ l \in Posted(t) /\ \A d \in Posted(t) \ {l} : IsNewer(comments[l].at, l, d)
           /\ ~IsNewer(o.at, o.comment, l)
    BY <1>1, <2>1, <2>4, <2>5 DEF LastInv, LeaderKept, Leads
  <2>8. l \in Posted(t)' /\ \A d \in Posted(t)' \ {l} : IsNewer(comments[l].at, l, d)'
    BY <1>2, <2>2, <2>3, <2>6, <2>7 DEF IsNewer
  <2>9. l = threads'[t].last
    BY <1>1, <2>1, <2>5
  <2> QED BY <2>8, <2>9 DEF Leads, IsNewer
<1>5. /\ Goes(tx, NoOp) /\ Ids \ {o.thread} \in SUBSET Ids
      /\ \A u \in Txs \ {tx} :
           op[u].kind = "create" /\ op[u].row # None => op[u].thread \in Ids \ {o.thread}
  BY <1>0, <1>1, RowsApart DEF CommitCreate
<1> QED BY <1>0, <1>3, <1>4, <1>5, LastCommit

\* A step of a request that has computed no counters.
LEMMA LastQuietStep ==
    ASSUME LastInv, DiscussionInv', NEW tx \in Txs, NEW o, Goes(tx, o),
           UNCHANGED tables, o.kind = "create" => o.row = None
    PROVE  LastInv'
<1>1. LeaderKept(o)
  BY DEF LeaderKept
<1> QED BY <1>1, LastOwnStep

LEMMA CreatingLast ==
    ASSUME LastInv, NEW tx \in Txs,
           FindThread(tx) \/ InsertLink(tx) \/ Reread(tx) \/ InsertComment(tx)
    PROVE  LastInv'
<1> DEFINE o == op[tx]
<1>0. DiscussionInv /\ DiscussionInv'
  BY FindThreadInv, InsertLinkInv, RereadInv, InsertCommentInv DEF LastInv
<1>1. o \in Op /\ CreateOK(o) /\ o.row = None
  BY <1>0, Requests, Kinds
  DEF FindThread, InsertLink, Reread, InsertComment, CreateOK, Op
<1>2. UNCHANGED tables
  BY DEF FindThread, InsertLink, Reread, InsertComment
<1>3. op' = [op EXCEPT ![tx] = op'[tx]] /\ op'[tx].row = None
  <2>1. op \in [Txs -> Op]
    BY <1>0 DEF DiscussionInv, TypeOK
  <2>2. CASE FindThread(tx)
    <3>1. CASE links[o.deal] # None
      <4>1. Goes(tx, [o EXCEPT !.pc = "commenting", !.thread = links[o.deal]])
        BY <2>2, <3>1 DEF FindThread
      <4> QED BY <1>1, <2>1, <4>1 DEF Goes, Op
    <3>2. CASE links[o.deal] = None
      <4>1. Goes(tx, [o EXCEPT !.pc = "linking", !.fresh = nextThread])
        BY <2>2, <3>2 DEF FindThread
      <4> QED BY <1>1, <2>1, <4>1 DEF Goes, Op
    <3> QED BY <3>1, <3>2
  <2>3. CASE InsertLink(tx)
    BY <1>1, <2>1, <2>3 DEF InsertLink, Goes, Op
  <2>4. CASE Reread(tx)
    BY <1>1, <2>1, <2>4 DEF Reread, Goes, Op
  <2>5. CASE InsertComment(tx)
    BY <1>1, <2>1, <2>5 DEF InsertComment, Goes, Op
  <2> QED BY <2>2, <2>3, <2>4, <2>5
<1>4. PICK n : n = op'[tx]
  OBVIOUS
<1>5. Goes(tx, n) /\ n.row = None
  BY <1>3, <1>4 DEF Goes
<1> QED BY <1>0, <1>2, <1>5, LastQuietStep

LEMMA ChangingLast ==
    ASSUME LastInv, NEW tx \in Txs,
           LockComment(tx) \/ SoftDelete(tx) \/ UncountComment(tx) \/ ReferenceComment(tx)
    PROVE  LastInv'
<1> DEFINE o == op[tx]
<1>0. DiscussionInv /\ DiscussionInv'
  BY LockCommentInv, SoftDeleteInv, UncountCommentInv, ReferenceCommentInv DEF LastInv
<1>1. o \in Op /\ o.kind # "create"
  BY <1>0, Requests, Kinds DEF LockComment, SoftDelete, UncountComment, ReferenceComment
<1>2. UNCHANGED tables
  BY DEF LockComment, SoftDelete, UncountComment, ReferenceComment
<1>3. op' = [op EXCEPT ![tx] = op'[tx]] /\ (op'[tx].kind # "create" \/ op'[tx] = NoOp)
  <2>1. op \in [Txs -> Op]
    BY <1>0 DEF DiscussionInv, TypeOK
  <2>2. CASE LockComment(tx)
    BY <1>1, <2>1, <2>2 DEF LockComment, OwnLiveComment, Goes, Op
  <2>3. CASE SoftDelete(tx)
    BY <1>1, <2>1, <2>3 DEF SoftDelete, Goes, Op
  <2>4. CASE UncountComment(tx)
    BY <1>1, <2>1, <2>4 DEF UncountComment, Goes, Op
  <2>5. CASE ReferenceComment(tx)
    BY <1>1, <2>1, <2>5 DEF ReferenceComment, Goes, Op
  <2> QED BY <2>2, <2>3, <2>4, <2>5
<1>4. PICK n : n = op'[tx]
  OBVIOUS
<1>5. Goes(tx, n) /\ (n.kind = "create" => n.row = None)
  BY <1>3, <1>4 DEF Goes, NoOp
<1> QED BY <1>0, <1>2, <1>5, LastQuietStep

LEMMA ArriveLast ==
    ASSUME LastInv, NEW tx \in Txs, Arrive(tx)
    PROVE  LastInv'
<1>0. DiscussionInv'
  BY ArriveInv DEF LastInv
<1>1. PICK n : Begin(tx, n) /\ n.row = None
  <2>1. CASE \E d \in Deals, user \in Users : RequestCreate(tx, d, user)
    <3>1. PICK d \in Deals, user \in Users, at \in {clock, clock + 1} :
            Begin(tx, [NoOp EXCEPT !.pc = "finding", !.deal = d, !.user = user, !.at = at])
      BY <2>1 DEF RequestCreate
    <3> WITNESS [NoOp EXCEPT !.pc = "finding", !.deal = d, !.user = user, !.at = at]
    <3> QED BY <3>1 DEF NoOp
  <2>2. CASE \E kind \in {"edit", "delete"}, c \in Ids, user \in Users :
               RequestChange(tx, kind, c, user)
    <3>1. PICK kind \in {"edit", "delete"}, c \in Ids, user \in Users :
            RequestChange(tx, kind, c, user)
      BY <2>2
    <3> WITNESS [NoOp EXCEPT !.pc = "locking", !.kind = kind, !.comment = c,
                             !.user = user, !.at = clock]
    <3> QED BY <3>1 DEF RequestChange, NoOp
  <2> QED BY <2>1, <2>2 DEF Arrive
<1> QED BY <1>0, <1>1, LastQuietStep DEF Begin

LEMMA NextLast == LastInv /\ [Next]_vars => LastInv'
<1> SUFFICES ASSUME LastInv, [Next]_vars PROVE LastInv'
  OBVIOUS
<1>1. ASSUME NEW tx \in Txs, Arrive(tx) PROVE LastInv'
  BY <1>1, ArriveLast
<1>2. ASSUME NEW tx \in Txs, Step(tx) PROVE LastInv'
  BY <1>2, CreatingLast, CountCommentLast, CommitCreateLast, ChangingLast,
     CommitEditLast, CommitDeleteLast
  DEF Step
<1>3. ASSUME NEW tx \in Txs, Abort(tx) PROVE LastInv'
  <2>1. DiscussionInv' /\ Goes(tx, NoOp) /\ UNCHANGED tables /\ NoOp.row = None
    BY <1>3, AbortInv DEF LastInv, Abort, NoOp
  <2> QED BY <2>1, LastQuietStep
<1>4. CASE UNCHANGED vars
  <2>1. DiscussionInv'
    BY <1>4, StutterInv DEF LastInv
  <2> QED BY <1>4, <2>1 DEF vars, tables, LastInv, LeaderKept, Leads, Undeleted, Posted, IsNewer
<1> QED BY <1>1, <1>2, <1>3, <1>4 DEF Next

\* The newest of the comments of a thread is the one that leads it.
LEMMA LeaderIsNewest ==
    ASSUME DiscussionInv, NEW t, NEW c, Leads(c, t)
    PROVE  c = Newest(Posted(t))
<1> DEFINE First(d) == \A e \in Posted(t) \ {d} : IsNewer(comments[d].at, d, e)
<1>1. c \in Posted(t) /\ First(c)
  BY DEF Leads
<1>2. ASSUME NEW d \in Posted(t), First(d) PROVE d = c
  <2> SUFFICES ASSUME d # c PROVE FALSE
    OBVIOUS
  <2>1. IsNewer(comments[d].at, d, c) /\ IsNewer(comments[c].at, c, d)
    BY <1>1, <1>2
  <2> QED BY <1>1, <2>1, PostedTyped DEF IsNewer
<1>3. Newest(Posted(t)) = CHOOSE d \in Posted(t) : First(d)
  BY <1>1 DEF Newest
<1> QED BY <1>1, <1>2, <1>3

-----------------------------------------------------------------------------
(***************************************************************************)
(* The theorems.                                                           *)
(***************************************************************************)

\* However requests overlap, wait, fail and commit, counters, links and what
\* each request knows of them stay right.
THEOREM DiscussionInvariant == Spec => []DiscussionInv
  BY InitInv, NextInv, PTL DEF Spec

\* Tables keep their types; no update of comment_count meets its CHECK.
THEOREM DiscussionTypeCorrect == Spec => []TypeOK
<1>1. DiscussionInv => TypeOK
  BY DEF DiscussionInv
<1> QED BY <1>1, DiscussionInvariant, PTL

\* comment_count is the number of comments that are not deleted.
THEOREM CountersAreExact == Spec => []CountIsLive
<1>1. DiscussionInv => CountIsLive
  BY DEF DiscussionInv
<1> QED BY <1>1, DiscussionInvariant, PTL

\* First comments that race leave one thread per deal and no other.
THEOREM ThreadsAreUnique == Spec => []OneThread
<1>1. DiscussionInv => OneThread
  BY DEF DiscussionInv
<1> QED BY <1>1, DiscussionInvariant, PTL

\* The loser of the race for the link always finds the winner's thread.
THEOREM LosersFindLinks == Spec => []LoserFindsLink
<1>1. DiscussionInv => LoserFindsLink
  BY DEF DiscussionInv, LoserFindsLink, OpOK, CreateOK, ChangeOK, NoOp
<1> QED BY <1>1, DiscussionInvariant, PTL

\* The last comments stay right, and would be whichever open requests commit.
THEOREM LastInvariant == Spec => []LastInv
<1>1. Init => LastInv
  <2> SUFFICES ASSUME Init PROVE LastInv
    OBVIOUS
  <2>1. \A tx \in Txs : op[tx].row = None
    BY DEF Init, NoOp
  <2>2. \A tx \in Txs : LeaderKept(op[tx])
    BY <2>1 DEF LeaderKept
  <2>3. \A t \in Ids : threads[t] = None
    BY DEF Init
  <2> QED BY <2>2, <2>3, InitInv DEF LastInv
<1> QED BY <1>1, NextLast, PTL DEF Spec

\* Out of order posts never move the last comment of a thread back: while none
\* was deleted it is the newest by (created_at, id).
THEOREM LastNeverGoesBack == Spec => []LastMovesForward
<1>1. LastInv => LastMovesForward
  BY LeaderIsNewest DEF LastInv, LastMovesForward
<1> QED BY <1>1, LastInvariant, PTL

\* A deleted comment is never edited, restored or moved.
THEOREM DeletesAreFinal == Spec => DeletedIsFinal
<1> DEFINE Final == \A c \in Ids : comments[c] # None =>
                      (comments[c].deleted => comments'[c] = comments[c])
<1>1. DiscussionInv /\ [Next]_vars => [Final]_vars
  <2> SUFFICES ASSUME DiscussionInv, Next PROVE Final
    OBVIOUS
  <2>1. PICK tx \in Txs : Arrive(tx) \/ Step(tx) \/ Abort(tx)
    BY DEF Next
  <2>2. CASE CommitCreate(tx)
    BY <2>2, CreatedRows
  <2>3. CASE CommitEdit(tx) \/ CommitDelete(tx)
    <3>1. /\ op[tx].comment \in Ids /\ comments[op[tx].comment] # None
          /\ ~comments[op[tx].comment].deleted
      BY <2>3, Requests, Kinds DEF CommitEdit, CommitDelete, ChangeOK
    <3>2. \A c \in Ids \ {op[tx].comment} : comments'[c] = comments[c]
      BY <2>3 DEF CommitEdit, CommitDelete, DiscussionInv, TypeOK
    <3> QED BY <3>1, <3>2
  <2>4. CASE UNCHANGED comments
    BY <2>4
  <2> QED BY <2>1, <2>2, <2>3, <2>4
      DEF Arrive, RequestCreate, RequestChange, Begin, Step, Abort, tables, FindThread,
          InsertLink, Reread, InsertComment, CountComment, LockComment, SoftDelete,
          UncountComment, ReferenceComment
<1> QED BY <1>1, DiscussionInvariant, PTL DEF Spec, DeletedIsFinal

=============================================================================
