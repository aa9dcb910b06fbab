------------------------------- MODULE Server -------------------------------
(***************************************************************************)
(* The server: the processes of StatusReports, OperatorRequests,           *)
(* LeaseRoute and Reaper over one MessageTable.  Every component action    *)
(* leaves the other components' handlers alone; they meet in the table.    *)
(***************************************************************************)
EXTENDS StatusReports, OperatorRequests, LeaseRoute, Reaper

vars == <<tableVars, reportVars, ops, pollVars, sweeps>>

TypeOK ==
  /\ TableTypeOK
  /\ ReportsTypeOK
  /\ OpsTypeOK
  /\ PollsTypeOK
  /\ SweepsTypeOK

Init == TableInit /\ ReportsInit /\ OpsInit /\ PollsInit /\ SweepsInit

\* A statement of another transaction may hold these rows locked.
Locked == LockedByOps \cup LockedBySweeps

TimePasses == Tick /\ UNCHANGED <<reportVars, ops, pollVars, sweeps>>

Reporting == \E h \in Reporters : ReportStep(h) /\ UNCHANGED <<ops, pollVars, sweeps>>

Operating ==
  /\ (\E o \in Operators : OpStep(o)) \/ ClearHistory \/ UpdateSettings
  /\ UNCHANGED <<reportVars, pollVars, sweeps>>

Polling == \E p \in Pollers : PollStep(p, Locked) /\ UNCHANGED <<reportVars, ops, sweeps>>

Sweeping == \E s \in Sweepers : SweepStep(s) /\ UNCHANGED <<reportVars, ops, pollVars>>

Next == TimePasses \/ Reporting \/ Operating \/ Polling \/ Sweeping

Spec == Init /\ [][Next]_vars

\* Time passes and every instance keeps sweeping: setInterval never stops, a
\* statement that starts returns, and a sweep that is tried again and again does
\* not fail every time (a failed one is only logged, and the next tick retries).
SweepsRun ==
  \A s \in Sweepers :
    /\ WF_vars(Sweeping /\ ReadExpired(s))
    /\ SF_vars(Sweeping /\ RequeueExpired(s))
    /\ SF_vars(Sweeping /\ ReadAbandoned(s))
    /\ SF_vars(Sweeping /\ (FailAbandoned(s) \/ SkipAbandoned(s)))

FairSpec == Spec /\ WF_vars(TimePasses) /\ SweepsRun

-----------------------------------------------------------------------------
(* Safety *)

\* What LeaseCoherence asks of one row.
Coherent(row) ==
  /\ row.status = "QUEUED" => row.token = Null /\ row.lease = Null
  /\ row.status \in InFlightStatuses \cup {"DELIVERED"} => row.token # Null /\ row.lease # Null
  /\ row.status \in {"RECEIVED", "FAILED"} => row.token # Null /\ row.lease = Null

\* The columns of a row agree about who holds the message: a queued row has no
\* token and no lease, a claimed one has both, and an attempt that has ended in
\* RECEIVED or FAILED has given its lease back.  Every write of QUEUED must clear
\* both columns and no late write may put an ended attempt's row back in flight
\* (claimNextMessage, applyOnce, reapExpiredLeases, retryMessage).
LeaseCoherence == \A m \in Messages : Coherent(rows[m])

\* An answered report is never undone by a racing one: while its attempt is
\* current the row's status is at least as far as the report said, or has
\* ended, and its timestamp column is filled (applyStatusReport: "of two racing
\* reports one wins and the other re-reads"; without it "a message could end at
\* DELIVERED with its read receipt recorded").
NoLostReport ==
  \A a \in acked :
    LET row == rows[a.msg] IN
    row.token = a.token =>
      /\ \/ row.status \in {"FAILED", "CANCELED"}
         \/ row.status = "RECEIVED" /\ a.status = "FAILED"
         \/ a.status # "FAILED" /\ ProgressRank[row.status] >= ProgressRank[a.status]
      /\ a.status \in StampStatuses => a.status \in row.stamps

\* The timeline explains the row: whatever status a gateway, the reaper or an
\* operator gave a message has its event, although retries delete FAILED events
\* and several transactions write the same message (recordEvent's callers).
\* QUEUED and DISPATCHING are left out: their events are written outside the
\* transaction and a crash loses them.
EventLogged ==
  \A m \in Messages :
    rows[m].status \in MessageStatuses \ {"QUEUED", "DISPATCHING"}
      => rows[m].status \in events[m]

\* An attempt belongs to one claim: no two messages carry one dispatch token, and
\* no two gateways were ever handed the same one, whatever polls race
\* (claimNextMessage; dispatchToken is @unique).  No run checks it: the proofs of what
\* the runs check rest on it.
AttemptsDistinct ==
  /\ \A m, n \in Messages : m # n /\ rows[m].token # Null => rows[m].token # rows[n].token
  /\ \A k, l \in granted : k.token = l.token => k = l

\* A cancellation is kept: nothing a gateway still reports and nothing a poll
\* claims brings a CANCELED message back, even when the cancel itself was a late
\* write over a claimed row (cancelMessage; "nothing leaves a terminal status").
\* What can is a late retry and a sweep's requeue, both by id alone.
CanceledStays ==
  [][\A m \in Messages :
       rows[m].status = "CANCELED" /\ UNCHANGED <<ops, sweeps>>
         => rows'[m].status \in {"CANCELED", "DELETED"}]_vars

\* The sequential meaning of a report: what applyOnce would do to row if it ran
\* alone, with the budget it read.
AppliedAlone(row, r) ==
  LET now_ == [r EXCEPT !.seen.guid = row.guid] IN
  IF ~CanTransition(row.status, r.status) THEN WithFacts(row, now_)
  ELSE IF r.status = "FAILED" /\ row.attempts < r.budget THEN Requeued(row)
  ELSE Advanced(row, now_)

\* The handler of a report writes the table in this step.
Writes(h) == reports'[h] # reports[h] /\ rows' # rows

\* The compare-and-set makes reports linearizable: a handler that read the row
\* long before it writes changes its own message only, only while its attempt is
\* current, and to exactly what the report would make of the row as it is now.
ReportsLinearize ==
  [][\A h \in Reporters : Writes(h) =>
       LET r == reports[h] IN
       /\ rows[r.msg].token = r.token
       /\ rows' = [rows EXCEPT ![r.msg] = AppliedAlone(@, r)]]_vars

\* Two claims of one poll through a due gate are an interval apart, whatever the
\* other polls, reports, sweeps and settings changes do in between: a poll's own
\* claim is in the table before its gate is read again.  (fixedIntervalLimiter,
\* a function of persisted state.  It takes that nothing erases a dispatchedAt,
\* so neither retry nor clear.)
PollsSpaced ==
  [][\A p \in Pollers :
       polls[p].pc = "claim" /\ polls'[p].pc = "respond" /\ polls[p].due
         => lastClaim[p] = Null \/ now - lastClaim[p] >= polls[p].interval]_vars

-----------------------------------------------------------------------------
(* Projected times *)

Projected == INSTANCE Eta WITH NoDispatch <- Null

\* lastDispatchedAt
LastDispatch(last) ==
  IF DispatchTimes = {} THEN last = Null
  ELSE last \in DispatchTimes /\ \A t \in DispatchTimes : t <= last

\* The times the queue shows are those at which the gate lets its messages go, if
\* nobody interferes: the head's is the first moment from now on at which the
\* gate is due on the table as it is, and each other message's the first at which it
\* is due after the one before has left (queueProjection, and the route's isDue;
\* eta.ts: "so an idle queue does not believe it owes a backlog of sends").
EtasAreReleaseTimes ==
  \A last \in DispatchTimes \cup {Null} :
    LastDispatch(last) =>
      LET interval == settings.interval
          eta(i) == Projected!ProjectEta(i, last, interval, now)
      IN  /\ eta(0) >= now /\ IsDue(eta(0), interval)
          /\ \A t \in now .. eta(0) - 1 : ~IsDue(t, interval)
          /\ \A i \in 1 .. Cardinality(Queued) - 1 :
               Projected!FirstDue(eta(i), eta(i - 1), eta(i - 1), interval)

-----------------------------------------------------------------------------
(* Refinement *)

\* What a message's life looks like from outside.
Life == INSTANCE Lifecycle WITH
          Attempts  <- 1 .. MaxClaims,
          NoAttempt <- Null,
          status    <- [m \in Messages |-> rows[m].status],
          attempt   <- [m \in Messages |-> rows[m].token],
          spent     <- 1 .. nextToken - 1

\* The handlers, with their reads apart from their writes, still give every
\* message the life Lifecycle describes: a status that only advances within an
\* attempt, attempts that are never used twice, no deletion before the end.
LivesAsSpecified == Life!LifecycleSpec

-----------------------------------------------------------------------------
(* Liveness *)

\* A claimed message nobody acknowledges does not stay claimed
\* (reapExpiredLeases).
DispatchEnds ==
  \A m \in Messages : rows[m].status = "DISPATCHING" ~> rows[m].status # "DISPATCHING"

AwaitingSend(m) == rows[m].status = "ACCEPTED" /\ rows[m].guid = Null

\* A send the gateway started and never finished reporting does not stay in
\* flight (failAbandonedSends: "it must not sit in flight forever").
AbandonedSendEnds == \A m \in Messages : AwaitingSend(m) ~> ~AwaitingSend(m)

-----------------------------------------------------------------------------
(* What the documentation says and the code does not do.  Each is refuted by *)
(* a run of its own.                                                         *)

\* docs/specs/02-server.md, what the reaper does per state: nothing but an
\* unacknowledged claim is ever requeued by a sweep.
SweepRequeuesOnlyDispatching ==
  [][\A m \in Messages :
       sweeps' # sweeps /\ rows'[m].status = "QUEUED" => rows[m].status \in {"DISPATCHING", "QUEUED"}]_vars

\* routes/messages.ts: cancelling "is only possible while the message is still
\* queued".
CancelOnlyQueued ==
  [][\A m \in Messages :
       rows'[m].status = "CANCELED" => rows[m].status \in {"QUEUED", "CANCELED"}]_vars
=============================================================================
