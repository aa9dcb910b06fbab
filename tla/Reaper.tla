------------------------------- MODULE Reaper -------------------------------
(***************************************************************************)
(* The recovery sweep (apps/server/src/scheduler/reaper.ts;                *)
(* reapExpiredLeases and failAbandonedSends of message-queue.ts).  Every   *)
(* server instance runs one, and overlapGuard keeps it to one at a time.   *)
(* A sweep reads the ids of the expired leases, requeues exactly those ids *)
(* whatever their rows have become, reads the ids of the abandoned sends,  *)
(* and fails them one by one, each with a compare-and-set.                 *)
(***************************************************************************)
EXTENDS MessageTable

CONSTANT Sweepers \* the server instances

VARIABLE sweeps   \* the sweep each instance is in the middle of

Sweep == [pc  : {"idle", "requeue", "scan", "fail"},
          at  : Nat,               \* the "now" of reapOnce
          ids : SUBSET Messages]

NoSweep == [pc |-> "idle", at |-> 0, ids |-> {}]

SweepsTypeOK == sweeps \in [Sweepers -> Sweep]

SweepsInit == sweeps = [s \in Sweepers |-> NoSweep]

\* leaseExpiresAt < now; NULL compares false.
Expired(m, at) == rows[m].lease # Null /\ rows[m].lease < at

\* A mutant: a sweep looks for live leases.
LiveLeases(at) ==
  {m \in Messages : rows[m].status = "DISPATCHING" /\ rows[m].lease # Null /\ rows[m].lease > at}

ExpiredLeases(at) == {m \in Messages : rows[m].status = "DISPATCHING" /\ Expired(m, at)}

AbandonedSends(at) ==
  {m \in Messages : rows[m].status = "ACCEPTED" /\ rows[m].guid = Null /\ Expired(m, at)}

\* reapExpiredLeases: the read.
ReadExpired(s) ==
  /\ sweeps[s].pc = "idle"
  /\ sweeps' = [sweeps EXCEPT ![s] =
                  [pc  |-> IF ExpiredLeases(now) = {} THEN "scan" ELSE "requeue",
                   at  |-> now,
                   ids |-> ExpiredLeases(now)]]
  /\ UNCHANGED tableVars

\* A mutant: the requeued row starts from scratch.
ReapedClean(row) == [row EXCEPT !.status = "QUEUED", !.token = Null, !.lease = Null, !.guid = Null]

\* The GUID survives.
Reaped(row) == [row EXCEPT !.status = "QUEUED", !.token = Null, !.lease = Null]

\* reapExpiredLeases: updateMany by id.
RequeueExpired(s) ==
  /\ sweeps[s].pc = "requeue"
  /\ rows' = [m \in Messages |->
                IF m \in sweeps[s].ids /\ Exists(m) THEN Reaped(rows[m]) ELSE rows[m]]
  /\ sweeps' = [sweeps EXCEPT ![s].pc = "scan", ![s].ids = {}]
  /\ UNCHANGED <<events, settings, now, nextToken, nextSeq, granted>>

\* failAbandonedSends: the read, with the same "now".
ReadAbandoned(s) ==
  /\ sweeps[s].pc = "scan"
  /\ sweeps' = [sweeps EXCEPT ![s] =
                  IF AbandonedSends(sweeps[s].at) = {} THEN NoSweep
                  ELSE [@ EXCEPT !.pc = "fail", !.ids = AbandonedSends(sweeps[s].at)]]
  /\ UNCHANGED tableVars

\* The WHERE of the write: a late report may have moved the row since the read.
StillAbandoned(m) == rows[m].status = "ACCEPTED" /\ rows[m].guid = Null

Abandoned(row) == [row EXCEPT !.status = "FAILED", !.error = "abandoned", !.lease = Null]

Advance(s, m) ==
  LET rest == sweeps[s].ids \ {m} IN
  sweeps' = [sweeps EXCEPT ![s] = IF rest = {} THEN NoSweep
                                  ELSE [sweeps[s] EXCEPT !.ids = rest]]

\* One id of failAbandonedSends: the write and its event, one commit.
FailAbandoned(s) ==
  /\ sweeps[s].pc = "fail"
  /\ \E m \in sweeps[s].ids :
       /\ StillAbandoned(m)
       /\ rows' = [rows EXCEPT ![m] = Abandoned(@)]
       /\ RecordEvent(m, "FAILED")
       /\ Advance(s, m)
  /\ UNCHANGED <<settings, now, nextToken, nextSeq, granted>>

\* One id whose row has moved: nothing to record.
SkipAbandoned(s) ==
  /\ sweeps[s].pc = "fail"
  /\ \E m \in sweeps[s].ids : ~StillAbandoned(m) /\ Advance(s, m)
  /\ UNCHANGED tableVars

\* The sweep throws or its server dies; reapOnce swallows the error.
AbortSweep(s) ==
  /\ sweeps[s].pc # "idle"
  /\ sweeps' = [sweeps EXCEPT ![s] = NoSweep]
  /\ UNCHANGED tableVars

SweepProgress(s) ==
  \/ ReadExpired(s) \/ RequeueExpired(s)
  \/ ReadAbandoned(s) \/ FailAbandoned(s) \/ SkipAbandoned(s)

SweepStep(s) == SweepProgress(s) \/ AbortSweep(s)

\* The rows a sweep's updateMany may hold locked.
LockedBySweeps == UNION {sweeps[s].ids : s \in {t \in Sweepers : sweeps[t].pc = "requeue"}}
=============================================================================
