--------------------------- MODULE OperatorRequests ---------------------------
(***************************************************************************)
(* What a person does from the dashboard: schedule, cancel, retry, send    *)
(* now, clear the history, change the settings                             *)
(* (apps/server/src/repositories/messages.ts, message-queue.ts             *)
(* forceDispatch, settings.ts).  Cancel, retry and send-now read the       *)
(* status, decide, and then update the row by its id alone: the write is a *)
(* step of its own and does not look at the status again.                  *)
(***************************************************************************)
EXTENDS MessageTable

CONSTANTS
  Operators,      \* the operator requests that may be in flight at once
  OpKinds         \* which requests operators make

ASSUME OpAssumption ==
  OpKinds \subseteq {"cancel", "retry", "send-now", "clear", "settings"}

VARIABLE ops      \* the handlers of operator requests in flight

\* A handler between its read and its write; "create" is one between the
\* insert of the row and the insert of its QUEUED event.
Op == [pc : {"idle", "write"}, kind : {"create", "cancel", "retry", "send-now"},
       msg : OrNull(Messages)]

NoOp == [pc |-> "idle", kind |-> "create", msg |-> Null]

OpsTypeOK ==
  /\ ops \in [Operators -> Op]
  /\ \A o \in Operators : ops[o].pc # "idle" => ops[o].msg \in Messages

OpsInit == ops = [o \in Operators |-> NoOp]

\* The handler returns, or throws: prisma.update on a row that is gone.
Return(o) == ops' = [ops EXCEPT ![o] = NoOp]

Pending(o, kind) == ops[o].pc = "write" /\ ops[o].kind = kind

\* createMessage: the row, and after it, outside a transaction, its event.
CreateMessage(o) ==
  /\ ops[o].pc = "idle"
  /\ \E m \in Messages :
       /\ rows[m].status = "NONE"
       /\ rows' = [rows EXCEPT ![m] = NewRow(nextSeq)]
       /\ ops' = [ops EXCEPT ![o] = [pc |-> "write", kind |-> "create", msg |-> m]]
  /\ nextSeq' = nextSeq + 1
  /\ UNCHANGED <<events, settings, now, nextToken, granted>>

CreateEvent(o) ==
  /\ Pending(o, "create")
  /\ Exists(ops[o].msg)
  /\ RecordEvent(ops[o].msg, "QUEUED")
  /\ Return(o)
  /\ UNCHANGED <<rows, settings, now, nextToken, nextSeq, granted>>

\* The check each request makes of the status it reads.
Allows(kind, status) ==
  CASE kind = "cancel"   -> CanTransition(status, "CANCELED")
    [] kind = "retry"    -> status = "FAILED"
    [] kind = "send-now" -> status = "QUEUED"

\* cancelMessage, retryMessage, forceDispatch: the read.  A request that is
\* refused writes nothing (404 or 409).
BeginRequest(o) ==
  /\ ops[o].pc = "idle"
  /\ \E k \in OpKinds \cap {"cancel", "retry", "send-now"}, m \in Messages :
       /\ Exists(m)
       /\ Allows(k, rows[m].status)
       /\ ops' = [ops EXCEPT ![o] = [pc |-> "write", kind |-> k, msg |-> m]]
  /\ UNCHANGED tableVars

CancelWrite(o) ==
  LET m == ops[o].msg IN
  /\ Pending(o, "cancel") /\ Exists(m)
  /\ rows' = [rows EXCEPT ![m].status = "CANCELED"]
  /\ RecordEvent(m, "CANCELED")
  /\ Return(o)
  /\ UNCHANGED <<settings, now, nextToken, nextSeq, granted>>

Retried(row) ==
  [row EXCEPT !.status = "QUEUED", !.token = Null, !.lease = Null, !.guid = Null,
              !.error = "none", !.dispatchedAt = Null]

\* The FAILED event is deleted; the QUEUED one collides with the first.
RetryWrite(o) ==
  LET m == ops[o].msg IN
  /\ Pending(o, "retry") /\ Exists(m)
  /\ rows' = [rows EXCEPT ![m] = Retried(@)]
  /\ events' = [events EXCEPT ![m] = (@ \ {"FAILED"}) \cup {"QUEUED"}]
  /\ Return(o)
  /\ UNCHANGED <<settings, now, nextToken, nextSeq, granted>>

ForceWrite(o) ==
  LET m == ops[o].msg IN
  /\ Pending(o, "send-now") /\ Exists(m)
  /\ rows' = [rows EXCEPT ![m].force = TRUE]
  /\ Return(o)
  /\ UNCHANGED <<events, settings, now, nextToken, nextSeq, granted>>

\* The handler fails before its commit, or its row is gone (500).
AbandonRequest(o) ==
  /\ ops[o].pc # "idle"
  /\ Return(o)
  /\ UNCHANGED tableVars

Clearable == {"DELIVERED", "RECEIVED", "FAILED", "CANCELED"}

\* clearHistory: one statement; the events go with the rows.
ClearHistory ==
  /\ "clear" \in OpKinds
  /\ \E m \in Messages : rows[m].status \in Clearable
  /\ rows' = [m \in Messages |->
                IF rows[m].status \in Clearable THEN Absent("DELETED") ELSE rows[m]]
  /\ events' = [m \in Messages |-> IF rows[m].status \in Clearable THEN {} ELSE events[m]]
  /\ UNCHANGED <<settings, now, nextToken, nextSeq, granted, ops>>

\* updateSettings: any part of the row.
UpdateSettings ==
  /\ "settings" \in OpKinds
  /\ settings' \in [interval : Intervals, paused : BOOLEAN, budget : Budgets]
  /\ settings' # settings
  /\ UNCHANGED <<rows, events, now, nextToken, nextSeq, granted, ops>>

OpStep(o) ==
  \/ CreateMessage(o) \/ CreateEvent(o)
  \/ BeginRequest(o) \/ CancelWrite(o) \/ RetryWrite(o) \/ ForceWrite(o)
  \/ AbandonRequest(o)

\* The rows an operator's open transaction may hold locked.
LockedByOps == {ops[o].msg : o \in {p \in Operators : ops[p].pc = "write" /\ ops[p].kind # "create"}}
=============================================================================
