--------------------------- MODULE StatusAnalytics ---------------------------
(***************************************************************************)
(* The metrics read from the deal-status log: StatusHistoryAnalytics-      *)
(* Repository and its service.  Deals change status through the log (two   *)
(* requests may hold one deal's row in turn, and a row of the log carries  *)
(* the time its transaction began), before the log was shipped, or past    *)
(* it by SQL; the backfill seeds a head for each deal with none.           *)
(***************************************************************************)
EXTENDS Tables

CONSTANTS
    StatusOptions,  \* the statuses in workflow order
    Onward,         \* DEAL_STATUS_TRANSITIONS
    AgeBounds,      \* the bounds of BACKLOG_AGE_BUCKETS, in days
    Tracked,        \* the deals
    FirstStatuses,  \* the statuses a deal may begin with
    Targets,        \* user -> the statuses they ask for
    InFlight,       \* requests that may be under way at once
    Span,           \* the range of days every report is asked for
    LastDay, MaxRows, MaxStrays \* bounds: days, rows of a deal, changes past the log

VARIABLES
    day,        \* the clock, in days
    shipped,    \* the log is in use
    tracked,    \* deal -> its columns
    log,        \* the transitions in id order
    moving,     \* the open requests: deal, target, actor and when each began
    truth,      \* ghost: deal -> what really happened to it
    backlog     \* the backlog report being read

analyticsVars == <<day, shipped, tracked, log, moving, truth, backlog>>
----------------------------------------------------------------------------
Shown == "present_to_clients"
Completed == "analyst_completed"
Staff == DOMAIN Targets
Presented == {Shown, "client_under_contract"}
Deleted == {"delete_zillow", "delete_deal"}

\* LIVE_STATUSES: those a deal can still move out of.
Live == {s \in Range(StatusOptions) : Onward[s] # {}}

NoReport == [step |-> "idle", overall |-> None, grouped |-> None, raced |-> FALSE]

AnalyticsInit ==
    /\ day = 0
    /\ shipped = FALSE
    /\ \E s \in [Tracked -> FirstStatuses] :
         tracked = [d \in Tracked |->
                      [status |-> s[d], added |-> 0, approved |-> None, updated |-> None]]
    /\ log = <<>>
    /\ moving = {}
    /\ truth = [d \in Tracked |-> [entered |-> 0, shown |-> None, strays |-> 0,
                                   adrift |-> FALSE, early |-> FALSE, raced |-> FALSE]]
    /\ backlog = NoReport

Tick ==
    /\ day < LastDay
    /\ day' = day + 1
    /\ UNCHANGED <<shipped, tracked, log, moving, truth, backlog>>

Line(d, to, at, source, actor, approved) ==
    [deal |-> d, to |-> to, at |-> at, source |-> source, actor |-> actor,
     approved |-> approved]

RowsFor(d) == {i \in DOMAIN log : log[i].deal = d}

\* backlog_age: the latest row counts only if it matches the current status.
InStep(d) == RowsFor(d) # {} /\ log[Max(RowsFor(d))].to = tracked[d].status

\* A deal takes a status, and a date of its presentation, at a time.
Enter(d, to, at, approved) ==
    /\ backlog.step # "read"
    /\ tracked' = [tracked EXCEPT ![d].status = to, ![d].updated = at, ![d].approved = approved]
    /\ ~backlog.raced
    /\ backlog' = [backlog EXCEPT !.raced = @ \/ backlog.step = "overall"]

SawStatus(d, to, at) ==
    [truth[d] EXCEPT !.entered = at,
                     !.shown = IF to = Shown /\ @ = None THEN at ELSE @]

\* A change from before the log, or past it: SQL, or a script.
ChangePastTheLog(d, to, stamps) ==
    /\ to # tracked[d].status
    /\ truth[d].strays < MaxStrays
    /\ stamps => to = Shown
    /\ Enter(d, to, day, IF stamps THEN day ELSE tracked[d].approved)
    /\ truth' = [truth EXCEPT ![d] =
                   [SawStatus(d, to, day) EXCEPT !.strays = @ + 1, !.adrift = shipped]]
    /\ UNCHANGED <<day, shipped, log, moving>>

\* An edit of other columns touches updated_at; bound: only where that is read.
EditOtherColumns(d) ==
    /\ backlog.step = "idle"
    /\ ~InStep(d)
    /\ tracked[d].updated # day
    /\ tracked' = [tracked EXCEPT ![d].updated = day]
    /\ UNCHANGED <<day, shipped, log, moving, truth, backlog>>

ShipTheLog ==
    /\ backlog.step = "idle"
    /\ ~shipped
    /\ shipped' = TRUE
    /\ UNCHANGED <<day, tracked, log, moving, truth, backlog>>

\* head_seed_for: one head for a deal that has none.
SeedHead(d) ==
    LET t == tracked[d]
        dated == t.status \in Presented /\ t.approved # None
        at == IF dated THEN t.approved ELSE IF t.updated # None THEN t.updated ELSE t.added
    IN  /\ backlog.step = "idle"
        /\ shipped
        /\ RowsFor(d) = {}
        /\ log' = Append(log, Line(d, t.status, at, "backfill", None, t.approved))
        /\ truth' = [truth EXCEPT ![d].adrift = FALSE]
        /\ UNCHANGED <<day, shipped, tracked, moving, backlog>>

BeginMove(d, to, actor) ==
    /\ backlog.step = "idle"
    /\ shipped
    /\ Cardinality(moving) < InFlight
    /\ \A m \in moving : m.actor # actor
    /\ Cardinality(RowsFor(d)) < MaxRows
    /\ moving' = moving \cup {[deal |-> d, to |-> to, actor |-> actor, began |-> day]}
    /\ UNCHANGED <<day, shipped, tracked, log, truth, backlog>>

\* The request has the row lock.  A repeated status is no transition, but presenting a deal
\* again stamps it again; a move is logged, after a repair row when the log missed the status
\* the deal has.  (update_deal_status, record_transition)
FinishMove(m) ==
    LET d == m.deal
        from == tracked[d].status
        mine == RowsFor(d)
        drift == mine = {} \/ log[Max(mine)].to # from
        repair == IF drift THEN <<Line(d, from, m.began, "system", None, None)>> ELSE <<>>
        approved == IF m.to = Shown THEN day ELSE tracked[d].approved
        late == truth[d].raced \/ m.began < truth[d].entered
    IN  /\ m \in moving
        /\ backlog.step = "idle" \/ m.to # from
        /\ moving' = moving \ {m}
        /\ \/ /\ m.to = from /\ m.to # Shown
              /\ UNCHANGED <<tracked, log, truth, backlog>>
           \/ /\ m.to = from /\ m.to = Shown
              /\ tracked' = [tracked EXCEPT ![d].approved = day, ![d].updated = m.began]
              /\ truth' = [truth EXCEPT ![d].raced = late]
              /\ UNCHANGED <<log, backlog>>
           \/ /\ m.to # from
              /\ Enter(d, m.to, m.began, approved)
              /\ log' = log \o repair \o <<Line(d, m.to, m.began, "api", m.actor, approved)>>
              /\ truth' = [truth EXCEPT ![d] =
                   [SawStatus(d, m.to, m.began) EXCEPT
                      !.adrift = FALSE,
                      !.early = @ \/ (mine = {} /\ truth[d].shown # None),
                      !.raced = late]]
        /\ UNCHANGED <<day, shipped>>
----------------------------------------------------------------------------
\* Mutant: rows the backfill seeded are taken for changes.
Observed_Any(i) == TRUE

\* observed: a logged change, not a seed of the backfill.
Observed(i) == log[i].source # "backfill"

ObservedMoves(d, status) == {i \in RowsFor(d) : Observed(i) /\ log[i].to = status}

\* Mutant: the latest row is taken whether or not the deal is still there.
Since_AnyRow(d) ==
    IF RowsFor(d) # {} THEN log[Max(RowsFor(d))].at
    ELSE IF tracked[d].updated # None THEN tracked[d].updated ELSE tracked[d].added

Since(d) ==
    IF InStep(d) THEN log[Max(RowsFor(d))].at
    ELSE IF tracked[d].updated # None THEN tracked[d].updated ELSE tracked[d].added

\* Mutant: both ends of a bucket are inclusive.
InBucket_Closed(age, b) ==
    /\ b > 1 => age >= AgeBounds[b - 1]
    /\ b <= Len(AgeBounds) => age <= AgeBounds[b]

InBucket(age, b) ==
    /\ b > 1 => age >= AgeBounds[b - 1]
    /\ b <= Len(AgeBounds) => age < AgeBounds[b]

BacklogRow(deals) ==
    [deals |-> Cardinality(deals),
     ages |-> [b \in 1 .. Len(AgeBounds) + 1 |->
                 Cardinality({d \in deals : InBucket(day - Since(d), b)})],
     observed |-> Cardinality({d \in deals : InStep(d) /\ Observed(Max(RowsFor(d)))})]

\* The deals no bucket holds, which the row shows as having no date.
Undated(row) == row.deals - Tally(row.ages)

Waiting == {d \in Tracked : tracked[d].status \in Live}

\* The two statements of get_backlog_age; bound: reports are read on the last
\* day, with at most one change of status between the two.
ReadOverall ==
    /\ day = LastDay
    /\ backlog.step = "idle"
    /\ backlog' = [step |-> "overall", overall |-> BacklogRow(Waiting), grouped |-> None,
                   raced |-> FALSE]
    /\ UNCHANGED <<day, shipped, tracked, log, moving, truth>>

\* Mutant: the grouped statement asks for every status.
ReadGrouped_EveryStatus ==
    /\ backlog.step = "overall"
    /\ backlog' = [backlog EXCEPT !.step = "read", !.grouped =
                     [s \in Range(StatusOptions) |->
                        BacklogRow({d \in Tracked : tracked[d].status = s})]]
    /\ UNCHANGED <<day, shipped, tracked, log, moving, truth>>

ReadGrouped ==
    /\ backlog.step = "overall"
    /\ backlog' = [backlog EXCEPT !.step = "read", !.grouped =
                     [s \in Live |-> BacklogRow({d \in Waiting : tracked[d].status = s})]]
    /\ UNCHANGED <<day, shipped, tracked, log, moving, truth>>

CloseReport ==
    /\ backlog.step = "read"
    /\ backlog' = NoReport
    /\ UNCHANGED <<day, shipped, tracked, log, moving, truth>>
----------------------------------------------------------------------------
(* time_to_present *)

\* The deal_approved the backfill found, if it found one.
Backfilled(d) ==
    LET heads == {i \in RowsFor(d) : log[i].source = "backfill"}
    IN  IF heads = {} THEN None ELSE log[Min(heads)].approved

FirstLogged(d) ==
    LET at == {log[i].at : i \in ObservedMoves(d, Shown)}
    IN  IF at = {} THEN None ELSE Min(at)

WasObserved(d) == Backfilled(d) = None /\ FirstLogged(d) # None

\* Mutant: the current deal_approved is preferred over history.
PresentedAt_Current(d) ==
    IF tracked[d].approved # None THEN tracked[d].approved
    ELSE IF Backfilled(d) # None THEN Backfilled(d) ELSE FirstLogged(d)

PresentedAt(d) ==
    IF Backfilled(d) # None THEN Backfilled(d)
    ELSE IF WasObserved(d) THEN FirstLogged(d)
    ELSE tracked[d].approved
----------------------------------------------------------------------------
(* approval_outcomes, approval_wait and the output of the team *)

InSpan(i) == Between(log[i].at, Span)

\* Mutant: the latest completion is taken.
CompletedBy_Last(d) ==
    LET done == {i \in ObservedMoves(d, Completed) : InSpan(i)}
    IN  IF done = {} THEN None ELSE Max(done)

\* A deal counts under whoever first completed it in the range.
CompletedBy(d) ==
    LET done == {i \in ObservedMoves(d, Completed) : InSpan(i)}
    IN  IF done = {} THEN None ELSE Min(done)

Outcome(d) ==
    IF \E i \in RowsFor(d) : i > CompletedBy(d) /\ log[i].to \in Presented THEN "approved"
    ELSE IF tracked[d].status \in Deleted THEN "rejected"
    ELSE "pending"

Judged == {d \in Tracked : CompletedBy(d) # None}

ApprovalRow(actor) ==
    LET theirs == {d \in Judged : log[CompletedBy(d)].actor = actor}
        counts == Grouped(theirs, Outcome)
    IN  [completed |-> Cardinality(theirs),
         rate |-> Ratio(CountAt(counts, "approved"),
                        CountAt(counts, "approved") + CountAt(counts, "rejected"))]

\* moved_to_by_actor: distinct deals an actor moved to a status in the range.
MovedBy(actor, status) ==
    {d \in Tracked : \E i \in ObservedMoves(d, status) :
                        InSpan(i) /\ log[i].actor = actor}

\* moved_to_by_actor_and_period, and the shared periods of its series.
PresentedIn(actor) ==
    LET moves == {i \in DOMAIN log : Observed(i) /\ log[i].to = Shown /\ InSpan(i)}
        cells == {[by |-> log[i].actor, start |-> PeriodOf(log[i].at, "week"),
                   deal |-> log[i].deal] : i \in moves}
        theirs == Grouped({c \in cells : c.by = actor}, LAMBDA c : c.start)
    IN  [counts |-> theirs,
         series |-> Filled(theirs, FillPeriods({c.start : c \in cells}, Span, "week"))]

\* approval_wait: the last completion before the first presentation.
FirstShown(d) == LET p == ObservedMoves(d, Shown) IN IF p = {} THEN None ELSE Min(p)

\* Mutant: a completion after the presentation counts too.
ApprovalWait_AnyCompletion(d) ==
    IF FirstShown(d) = None \/ ObservedMoves(d, Completed) = {} THEN None
    ELSE log[FirstShown(d)].at - Max({log[i].at : i \in ObservedMoves(d, Completed)})

ApprovalWait(d) ==
    LET done == {i \in ObservedMoves(d, Completed) : i < FirstShown(d)}
    IN  IF FirstShown(d) = None \/ done = {} THEN None
        ELSE log[FirstShown(d)].at - Max({log[i].at : i \in done})
----------------------------------------------------------------------------
Move ==
    \/ \E d \in Tracked :
         \/ \E to \in Range(StatusOptions), stamps \in BOOLEAN : ChangePastTheLog(d, to, stamps)
         \/ \E actor \in Staff : \E to \in Targets[actor] : BeginMove(d, to, actor)
    \/ \E m \in moving : FinishMove(m)

AnalyticsNext ==
    \/ Tick
    \/ ShipTheLog
    \/ Move
    \/ \E d \in Tracked : EditOtherColumns(d) \/ SeedHead(d)
    \/ ReadOverall
    \/ ReadGrouped
    \/ CloseReport

AnalyticsSpec == AnalyticsInit /\ [][AnalyticsNext]_analyticsVars
----------------------------------------------------------------------------
\* The age of a deal in the backlog is never more than the time it has been in
\* its status, unless it left the latest logged status and came back past the
\* log, the backfill dated it by deal_approved, or requests overlapped; and a wait counted as
\* observed is exact but for such a return.
WaitsAreNotOverstated ==
    \A d \in Tracked :
      /\ Since(d) < truth[d].entered /\ ~truth[d].raced =>
           InStep(d) /\ (truth[d].adrift \/ ~Observed(Max(RowsFor(d))))
      /\ InStep(d) /\ Observed(Max(RowsFor(d))) /\ ~truth[d].adrift =>
           Since(d) = truth[d].entered

\* The first presentation a deal is measured by is never before the true one; an
\* observed one is exact, however often the deal is presented again, except
\* when requests overlapped, the status was changed past the log, or the deal
\* moved in the log before the backfill could save its earlier date.
PresentedWhenItWas ==
    \A d \in Tracked :
      PresentedAt(d) # None /\ ~truth[d].early /\ ~truth[d].raced =>
        /\ truth[d].shown # None /\ PresentedAt(d) >= truth[d].shown
        /\ WasObserved(d) /\ truth[d].strays = 0 => PresentedAt(d) = truth[d].shown

\* What a deal's first completion was credited to stays: its analyst, and an
\* approval once it was given, however the deal moves on.
ApprovalsStand ==
    [][\A d \in Tracked : CompletedBy(d) # None =>
         /\ CompletedBy(d)' = CompletedBy(d)
         /\ Outcome(d) = "approved" => Outcome(d)' = "approved"]_analyticsVars

\* A wait for approval is negative only where two requests on the deal
\* overlapped: rows are dated by the start of their transactions.
WaitsAreNegativeOnlyByRaces ==
    \A d \in Tracked : ~truth[d].raced /\ ApprovalWait(d) # None => ApprovalWait(d) >= 0

\* The two statements of the backlog report agree unless a status changed
\* between them, and every deal with a date is in exactly one bucket.
BacklogAddsUp ==
    backlog.step = "read" =>
      /\ \A row \in {backlog.overall} \cup Range(backlog.grouped) : Undated(row) = 0
      /\ ~backlog.raced => backlog.overall.deals =
           FoldSet(LAMBDA s, n : n + backlog.grouped[s].deals, 0, DOMAIN backlog.grouped)

\* Two reports agree on whose work was whose: no analyst is credited with more
\* completed deals by the approvals than by the output of the team, and no
\* presentation is lost when an approver's weeks are filled in.
CreditsAgree ==
    \A actor \in Staff \cup {None} :
      /\ ApprovalRow(actor).completed <= Cardinality(MovedBy(actor, Completed))
      /\ IsShare(ApprovalRow(actor).rate)
      /\ Tally(PresentedIn(actor).series) = Tally(PresentedIn(actor).counts)
      /\ Tally(PresentedIn(actor).counts) >= Cardinality(MovedBy(actor, Shown))

\* Reports on the status history agree with what happened: waits, presentations, backlog and
\* credit add up while moves overlap with them. (StatusHistoryAnalyticsService)
StatusReportsSafety ==
    /\ []WaitsAreNotOverstated
    /\ []PresentedWhenItWas
    /\ []WaitsAreNegativeOnlyByRaces
    /\ []BacklogAddsUp
    /\ []CreditsAgree
    /\ ApprovalsStand
=============================================================================
