----------------------------- MODULE ServerProofs -----------------------------
(***************************************************************************)
(* Theorems about Server, for every set of messages, handlers and          *)
(* instances and every value of the bounds.  First the types, with one     *)
(* lemma per component; then the coherence of a row's lease columns, from  *)
(* an invariant about what the report handlers remember.                   *)
(***************************************************************************)
EXTENDS Server, TLAPS

-----------------------------------------------------------------------------
(* Types: the operators that write a row return a row *)

\* An absent row and a new one are rows (schema.prisma defaults).
LEMMA AbsentTyped ==
  /\ \A s \in MessageStatuses \cup {"NONE", "DELETED"} : Absent(s) \in Row
  /\ \A q \in Nat : NewRow(q) \in Row
  BY DEF Absent, NewRow, Row, Errors, StampStatuses, MessageStatuses, OrNull

\* What a handler remembers of a row is well typed (applyOnce's select).
LEMMA SeenTyped ==
  ASSUME TableTypeOK, NEW m \in Messages, Exists(m)
  PROVE  SeenOf(m) \in Seen
<1>1. rows[m] \in Row
  BY DEF TableTypeOK
<1>2. QED
  BY <1>1 DEF Exists, SeenOf, Seen, Row

\* Every column set a report writes leaves a row (applyOnce).
LEMMA ReportedTyped ==
  ASSUME NEW row \in Row, NEW r \in Report
  PROVE  /\ WithFacts(row, r) \in Row
         /\ Requeued(row) \in Row
         /\ Advanced(row, r) \in Row
<1>1. WithFacts(row, r) \in Row
  <2>1. (IF r.guid # Null /\ r.seen.guid = Null THEN r.guid ELSE row.guid) \in OrNull(Nat)
    BY DEF Report, Row
  <2>2. row.stamps \cup ({r.status} \cap StampStatuses) \in SUBSET StampStatuses
    BY DEF Row
  <2>3. QED
    BY <2>1, <2>2 DEF WithFacts, Row
<1>2. Requeued(row) \in Row
  BY DEF Requeued, Row, Errors, MessageStatuses, OrNull
<1>3. \A w \in Row : \A e \in Errors, l \in OrNull(Nat), s \in MessageStatuses :
        [w EXCEPT !.status = s, !.error = e, !.lease = l] \in Row
  BY DEF Row
<1>4. Advanced(row, r) \in Row
  <2> DEFINE w == WithFacts(row, r)
             e == IF r.status = "FAILED" THEN "gateway" ELSE w.error
             l == IF IsTerminal(r.status) THEN Null ELSE w.lease
  <2>1. e \in Errors /\ l \in OrNull(Nat) /\ r.status \in MessageStatuses
    BY <1>1 DEF Row, Errors, OrNull, Report
  <2>2. Advanced(row, r) = [w EXCEPT !.status = r.status, !.error = e, !.lease = l]
    BY DEF Advanced
  <2>3. w \in Row
    BY <1>1
  <2>4. [w EXCEPT !.status = r.status, !.error = e, !.lease = l] \in Row
    BY <1>3, <2>1, <2>3
  <2>5. QED
    BY <2>2, <2>4
<1>5. QED
  BY <1>1, <1>2, <1>4

\* So do a claim, a reap, an abandonment and a retry.
LEMMA ClaimedTyped ==
  ASSUME NEW row \in Row, NEW t \in Nat, now \in Nat
  PROVE  Claimed(row, t) \in Row
<1>1. now \in OrNull(Nat) /\ t \in OrNull(Nat) /\ now + LeaseTime \in OrNull(Nat)
  BY LeaseAssumption DEF OrNull
<1>2. row.attempts + 1 \in Nat
  BY DEF Row
<1>3. "DISPATCHING" \in MessageStatuses \cup {"NONE", "DELETED"}
  BY DEF MessageStatuses
<1>4. QED
  BY <1>1, <1>2, <1>3 DEF Claimed, Row

LEMMA SweptTyped ==
  ASSUME NEW row \in Row
  PROVE  Reaped(row) \in Row /\ Abandoned(row) \in Row /\ Retried(row) \in Row
  BY DEF Reaped, Abandoned, Retried, Row, Errors, MessageStatuses, OrNull

-----------------------------------------------------------------------------
(* Types: the initial state and every step *)

\* The initial state is well typed.
LEMMA InitTyped == Init => TypeOK
<1> SUFFICES ASSUME Init PROVE TypeOK
  OBVIOUS
<1> USE DEF Init
<1>1. TableTypeOK
  <2>1. settings \in Settings
    BY IntervalAssumption, BudgetAssumption DEF TableInit, Settings
  <2>2. QED
    BY <2>1, AbsentTyped DEF TableInit, TableTypeOK
<1>2. ReportsTypeOK
  BY DEF ReportsInit, ReportsTypeOK
<1>3. OpsTypeOK
  BY DEF OpsInit, OpsTypeOK, NoOp, Op, OrNull
<1>4. PollsTypeOK
  BY DEF PollsInit, PollsTypeOK, NoPoll, Poll, OrNull
<1>5. SweepsTypeOK
  BY DEF SweepsInit, SweepsTypeOK, NoSweep, Sweep
<1>6. QED
  BY <1>1, <1>2, <1>3, <1>4, <1>5 DEF TypeOK

\* A report that arrives or starts over is well typed.
LEMMA IncomingTyped ==
  ASSUME TableTypeOK, ReportsTypeOK, NEW h \in Reporters, NEW r \in Incoming(h)
  PROVE  r \in Report
<1>1. NothingSeen \in Seen
  BY DEF NothingSeen, Seen, MessageStatuses, OrNull
<1>2. \A x \in Arrivals : x \in Report
  BY <1>1, ReportableAssumption DEF Arrivals, Report, TableTypeOK, Lease, GuidsOf, OrNull
<1>3. CASE reports[h].pc = "idle"
  BY <1>2, <1>3 DEF Incoming
<1>4. CASE reports[h].pc = "read"
  <2>1. reports[h] # NoReport
    BY <1>4 DEF NoReport
  <2>2. QED
    BY <1>4, <2>1 DEF Incoming, ReportsTypeOK
<1>5. CASE reports[h].pc \notin {"idle", "read"}
  BY <1>5 DEF Incoming
<1>6. QED
  BY <1>3, <1>4, <1>5

\* A handler that is not idle holds a report.
LEMMA BusyTyped ==
  ASSUME ReportsTypeOK, NEW h \in Reporters, reports[h].pc # "idle"
  PROVE  reports[h] \in Report
  BY DEF ReportsTypeOK, NoReport

\* Applying status reports keeps the types (every step of applyOnce).
LEMMA ReportTyped ==
  ASSUME TypeOK, NEW h \in Reporters, ReportStep(h)
  PROVE  TableTypeOK' /\ ReportsTypeOK'
<1> DEFINE r == reports[h]
<1> USE DEF TypeOK
<1>1. \A x \in Report \cup {NoReport} :
        [reports EXCEPT ![h] = x] \in [Reporters -> Report \cup {NoReport}]
  BY DEF ReportsTypeOK
<1>2. ASSUME Finish(h) PROVE reports' \in [Reporters -> Report \cup {NoReport}]
  BY <1>1, <1>2 DEF Finish
<1>3. ASSUME NEW x \in Report, Acknowledge(x) PROVE acked' \in SUBSET Acked
  BY <1>3 DEF Acknowledge, Report, Acked, ReportsTypeOK
<1>4. ASSUME NEW row \in Row, NEW m \in Messages
      PROVE  [rows EXCEPT ![m] = row] \in [Messages -> Row]
  BY DEF TableTypeOK
<1>5. ASSUME r.pc # "idle" PROVE r \in Report /\ r.msg \in Messages /\ rows[r.msg] \in Row
  BY <1>5, BusyTyped DEF Report, TableTypeOK
<1>6. CASE IgnoreStale(h)
  BY <1>2, <1>6 DEF IgnoreStale, tableVars, TableTypeOK, ReportsTypeOK
<1>7. CASE IgnoreReplay(h)
  BY <1>2, <1>3, <1>7, IncomingTyped DEF IgnoreReplay, tableVars, TableTypeOK, ReportsTypeOK
<1>8. CASE ReadRow(h)
  <2>1. PICK x \in Incoming(h) :
          /\ Exists(x.msg)
          /\ reports' = [reports EXCEPT ![h] =
               [x EXCEPT !.seen = SeenOf(x.msg),
                         !.pc = IF x.status = "FAILED" /\ CanTransition(rows[x.msg].status, x.status)
                                  THEN "budget" ELSE "cas"]]
    BY <1>8 DEF ReadRow
  <2>2. x \in Report
    BY IncomingTyped
  <2>3. SeenOf(x.msg) \in Seen
    BY <2>1, <2>2, SeenTyped DEF Report
  <2>4. \A y \in Seen, pc \in {"budget", "cas"} : [x EXCEPT !.seen = y, !.pc = pc] \in Report
    BY <2>2 DEF Report
  <2>5. reports' \in [Reporters -> Report \cup {NoReport}]
    BY <1>1, <2>1, <2>3, <2>4
  <2>6. QED
    BY <1>8, <2>5 DEF ReadRow, tableVars, TableTypeOK, ReportsTypeOK
<1>9. CASE ReadBudget(h)
  <2>1. r \in Report /\ settings.budget \in Nat
    BY <1>5, <1>9 DEF ReadBudget, TableTypeOK, Settings
  <2>2. [r EXCEPT !.pc = "cas", !.budget = settings.budget] \in Report
    BY <2>1 DEF Report
  <2>3. reports' = [reports EXCEPT ![h] = [r EXCEPT !.pc = "cas", !.budget = settings.budget]]
    BY <1>9 DEF ReadBudget, ReportsTypeOK
  <2>4. QED
    BY <1>1, <1>9, <2>2, <2>3 DEF ReadBudget, tableVars, TableTypeOK, ReportsTypeOK
<1>10. CASE PersistFacts(h)
  <2>1. rows' = [rows EXCEPT ![r.msg] = WithFacts(rows[r.msg], r)]
    BY <1>10 DEF PersistFacts
  <2>2. rows' \in [Messages -> Row]
    BY <1>4, <1>5, <1>10, <2>1, ReportedTyped DEF PersistFacts
  <2>3. QED
    BY <1>2, <1>3, <1>5, <1>10, <2>2 DEF PersistFacts, TableTypeOK, ReportsTypeOK
<1>11. CASE RequeueFailure(h)
  <2>1. rows' = [rows EXCEPT ![r.msg] = Requeued(rows[r.msg])]
    BY <1>11 DEF RequeueFailure
  <2>2. rows' \in [Messages -> Row]
    BY <1>4, <1>5, <1>11, <2>1, ReportedTyped DEF RequeueFailure
  <2>3. QED
    BY <1>2, <1>3, <1>5, <1>11, <2>2 DEF RequeueFailure, TableTypeOK, ReportsTypeOK
<1>12. CASE ApplyReport(h)
  <2>1. rows' = [rows EXCEPT ![r.msg] = Advanced(rows[r.msg], r)]
    BY <1>12 DEF ApplyReport
  <2>2. rows' \in [Messages -> Row]
    BY <1>4, <1>5, <1>12, <2>1, ReportedTyped DEF ApplyReport
  <2>3. events' \in [Messages -> SUBSET MessageStatuses]
    <3>1. r.status \in MessageStatuses /\ r.msg \in Messages
      BY <1>5, <1>12 DEF ApplyReport, Report
    <3>2. events' = [events EXCEPT ![r.msg] = events[r.msg] \cup {r.status}]
      BY <1>12 DEF ApplyReport, RecordEvent
    <3>3. QED
      BY <3>1, <3>2 DEF TableTypeOK
  <2>4. QED
    BY <1>2, <1>3, <1>5, <1>12, <2>2, <2>3 DEF ApplyReport, TableTypeOK, ReportsTypeOK
<1>13. CASE RetryReport(h)
  <2> DEFINE x == [r EXCEPT !.pc = "read", !.seen = NothingSeen, !.budget = 0, !.tries = @ + 1]
  <2>1. r \in Report
    BY <1>5, <1>13 DEF RetryReport
  <2>2. NothingSeen \in Seen
    BY DEF NothingSeen, Seen, MessageStatuses, OrNull
  <2>3. x \in Report
    <3>1. r.tries + 1 \in Nat
      BY <2>1 DEF Report
    <3>2. QED
      BY <2>1, <2>2, <3>1 DEF Report
  <2>4. reports' = [reports EXCEPT ![h] = x]
    BY <1>13 DEF RetryReport
  <2>5. QED
    BY <1>1, <1>13, <2>3, <2>4 DEF RetryReport, tableVars, TableTypeOK, ReportsTypeOK
<1>14. CASE LoseReport(h)
  BY <1>2, <1>14 DEF LoseReport, tableVars, TableTypeOK, ReportsTypeOK
<1>15. QED
  BY <1>6, <1>7, <1>8, <1>9, <1>10, <1>11, <1>12, <1>13, <1>14 DEF ReportStep

\* Recording an event keeps the type of the log.
LEMMA EventTyped ==
  ASSUME TableTypeOK, NEW m \in Messages, NEW s \in MessageStatuses, RecordEvent(m, s)
  PROVE  events' \in [Messages -> SUBSET MessageStatuses]
  BY DEF TableTypeOK, RecordEvent

\* A write of one row keeps the type of the table.
LEMMA RowTyped ==
  ASSUME TableTypeOK, NEW m \in Messages, NEW row \in Row, rows' = [rows EXCEPT ![m] = row]
  PROVE  rows' \in [Messages -> Row]
  BY DEF TableTypeOK

\* Operator requests keep the types (messages.ts, forceDispatch, updateSettings).
LEMMA OperatorTyped ==
  ASSUME TypeOK, (\E o \in Operators : OpStep(o)) \/ ClearHistory \/ UpdateSettings
  PROVE  TableTypeOK' /\ OpsTypeOK'
<1> USE DEF TypeOK
<1>1. ASSUME NEW o \in Operators, Return(o) PROVE OpsTypeOK'
  BY <1>1 DEF Return, OpsTypeOK, NoOp, Op, OrNull
<1>2. ASSUME NEW o \in Operators, ops[o].pc # "idle"
      PROVE  ops[o].msg \in Messages /\ rows[ops[o].msg] \in Row
  BY <1>2 DEF OpsTypeOK, TableTypeOK
<1>3. ASSUME NEW o \in Operators, NEW m \in Messages,
             NEW k \in {"create", "cancel", "retry", "send-now"},
             ops' = [ops EXCEPT ![o] = [pc |-> "write", kind |-> k, msg |-> m]]
      PROVE  OpsTypeOK'
  BY <1>3 DEF OpsTypeOK, Op, OrNull
<1>4. ASSUME NEW o \in Operators, CreateMessage(o) PROVE TableTypeOK' /\ OpsTypeOK'
  <2>1. PICK m \in Messages : /\ rows' = [rows EXCEPT ![m] = NewRow(nextSeq)]
                              /\ ops' = [ops EXCEPT ![o] = [pc |-> "write", kind |-> "create", msg |-> m]]
    BY <1>4 DEF CreateMessage
  <2>2. OpsTypeOK'
    BY <1>3, <2>1
  <2>3. rows' \in [Messages -> Row]
    BY <2>1, RowTyped, AbsentTyped DEF TableTypeOK
  <2>4. QED
    BY <1>4, <2>2, <2>3 DEF CreateMessage, TableTypeOK
<1>5. ASSUME NEW o \in Operators, CreateEvent(o) PROVE TableTypeOK' /\ OpsTypeOK'
  <2>1. events' \in [Messages -> SUBSET MessageStatuses]
    BY <1>2, <1>5, EventTyped DEF CreateEvent, Pending, MessageStatuses
  <2>2. QED
    BY <1>1, <1>5, <2>1 DEF CreateEvent, TableTypeOK
<1>6. ASSUME NEW o \in Operators, BeginRequest(o) PROVE TableTypeOK' /\ OpsTypeOK'
  <2>1. OpsTypeOK'
    BY <1>3, <1>6 DEF BeginRequest
  <2>2. QED
    BY <1>6, <2>1 DEF BeginRequest, tableVars, TableTypeOK
<1>7. ASSUME NEW o \in Operators, CancelWrite(o) PROVE TableTypeOK' /\ OpsTypeOK'
  <2>1. ops[o].msg \in Messages /\ rows[ops[o].msg] \in Row
    BY <1>2, <1>7 DEF CancelWrite, Pending
  <2>2. events' \in [Messages -> SUBSET MessageStatuses]
    BY <1>7, <2>1, EventTyped DEF CancelWrite, MessageStatuses
  <2>3. [rows[ops[o].msg] EXCEPT !.status = "CANCELED"] \in Row
    BY <2>1 DEF Row, MessageStatuses
  <2>4. rows' \in [Messages -> Row]
    BY <1>7, <2>1, <2>3, RowTyped DEF CancelWrite, TableTypeOK
  <2>5. QED
    BY <1>1, <1>7, <2>2, <2>4 DEF CancelWrite, TableTypeOK
<1>8. ASSUME NEW o \in Operators, RetryWrite(o) PROVE TableTypeOK' /\ OpsTypeOK'
  <2>1. ops[o].msg \in Messages /\ rows[ops[o].msg] \in Row
    BY <1>2, <1>8 DEF RetryWrite, Pending
  <2>2. events' \in [Messages -> SUBSET MessageStatuses]
    BY <1>8, <2>1 DEF RetryWrite, TableTypeOK, MessageStatuses
  <2>3. rows' \in [Messages -> Row]
    BY <1>8, <2>1, RowTyped, SweptTyped DEF RetryWrite
  <2>4. QED
    BY <1>1, <1>8, <2>2, <2>3 DEF RetryWrite, TableTypeOK
<1>9. ASSUME NEW o \in Operators, ForceWrite(o) PROVE TableTypeOK' /\ OpsTypeOK'
  <2>1. ops[o].msg \in Messages /\ rows[ops[o].msg] \in Row
    BY <1>2, <1>9 DEF ForceWrite, Pending
  <2>2. [rows[ops[o].msg] EXCEPT !.force = TRUE] \in Row
    BY <2>1 DEF Row
  <2>3. rows' \in [Messages -> Row]
    BY <1>9, <2>1, <2>2, RowTyped DEF ForceWrite, TableTypeOK
  <2>4. QED
    BY <1>1, <1>9, <2>3 DEF ForceWrite, TableTypeOK
<1>10. ASSUME NEW o \in Operators, AbandonRequest(o) PROVE TableTypeOK' /\ OpsTypeOK'
  BY <1>1, <1>10 DEF AbandonRequest, tableVars, TableTypeOK
<1>11. CASE ClearHistory
  BY <1>11, AbsentTyped DEF ClearHistory, TableTypeOK, OpsTypeOK
<1>12. CASE UpdateSettings
  BY <1>12, IntervalAssumption, BudgetAssumption
     DEF UpdateSettings, TableTypeOK, Settings, OpsTypeOK
<1>13. QED
  BY <1>4, <1>5, <1>6, <1>7, <1>8, <1>9, <1>10, <1>11, <1>12 DEF OpStep

\* The long polls keep the types (the lease route, claimNextMessage).
LEMMA PollTyped ==
  ASSUME TypeOK, NEW p \in Pollers, NEW locked, PollStep(p, locked)
  PROVE  TableTypeOK' /\ PollsTypeOK'
<1> DEFINE q == polls[p]
<1> USE DEF TypeOK
<1>1. ASSUME polls' = [polls EXCEPT ![p] = NoPoll], UNCHANGED lastClaim PROVE PollsTypeOK'
  BY <1>1 DEF PollsTypeOK, NoPoll, Poll, OrNull
<1>2. CASE BeginTurn(p)
  BY <1>2 DEF BeginTurn, PollsTypeOK, NoPoll, Poll, OrNull, tableVars, TableTypeOK, Settings
<1>3. CASE PassGate(p)
  <2>1. IsDue(q.at, q.interval) \in BOOLEAN
    BY DEF IsDue
  <2>2. QED
    BY <1>3, <2>1 DEF PassGate, PollsTypeOK, Poll, tableVars, TableTypeOK
<1>4. CASE EndTurn(p)
  BY <1>1, <1>4 DEF EndTurn, tableVars, TableTypeOK
<1>5. CASE Claim(p, locked)
  <2>1. PICK m \in Queued :
          /\ rows' = [rows EXCEPT ![m] = Claimed(rows[m], nextToken)]
          /\ polls' = [polls EXCEPT ![p].pc = "respond", ![p].msg = m, ![p].token = nextToken,
                                    ![p].guid = rows[m].guid]
    BY <1>5 DEF Claim
  <2>2. m \in Messages /\ rows[m] \in Row /\ nextToken \in Nat /\ now \in Nat
    BY DEF Queued, TableTypeOK
  <2>3. rows' \in [Messages -> Row]
    BY <2>1, <2>2, ClaimedTyped, RowTyped
  <2>4. polls' = [polls EXCEPT ![p] = [q EXCEPT !.pc = "respond", !.msg = m, !.token = nextToken,
                                                !.guid = rows[m].guid]]
    BY <2>1 DEF PollsTypeOK
  <2>5. [q EXCEPT !.pc = "respond", !.msg = m, !.token = nextToken, !.guid = rows[m].guid] \in Poll
    <3>1. q \in Poll
      BY DEF PollsTypeOK
    <3>2. m \in OrNull(Messages) /\ nextToken \in OrNull(Nat) /\ rows[m].guid \in OrNull(Nat)
      BY <2>2 DEF Row, OrNull
    <3>3. QED
      BY <3>1, <3>2 DEF Poll
  <2>6. lastClaim' \in [Pollers -> OrNull(Nat)]
    BY <1>5, <2>2 DEF Claim, PollsTypeOK, OrNull
  <2>7. PollsTypeOK'
    BY <2>2, <2>4, <2>5, <2>6 DEF PollsTypeOK, Poll
  <2>8. QED
    BY <1>5, <2>3, <2>7 DEF Claim, TableTypeOK
<1>6. CASE Respond(p)
  <2>1. q.msg \in Messages /\ q.token \in Nat /\ q.guid \in OrNull(Nat)
    BY <1>6 DEF Respond, PollsTypeOK, Poll
  <2>2. granted' \in SUBSET Lease
    BY <1>6, <2>1 DEF Respond, TableTypeOK, Lease
  <2>3. events' \in [Messages -> SUBSET MessageStatuses]
    BY <1>6, <2>1, EventTyped DEF Respond, MessageStatuses
  <2>4. PollsTypeOK'
    BY <1>1, <1>6 DEF Respond
  <2>5. QED
    BY <1>6, <2>2, <2>3, <2>4 DEF Respond, TableTypeOK
<1>7. CASE LoseLease(p)
  BY <1>1, <1>7 DEF LoseLease, tableVars, TableTypeOK
<1>8. QED
  BY <1>2, <1>3, <1>4, <1>5, <1>6, <1>7 DEF PollStep

\* The sweeps keep the types (reapExpiredLeases, failAbandonedSends).
LEMMA SweepTyped ==
  ASSUME TypeOK, NEW s \in Sweepers, SweepStep(s)
  PROVE  TableTypeOK' /\ SweepsTypeOK'
<1> DEFINE w == sweeps[s]
<1> USE DEF TypeOK
<1>1. NoSweep \in Sweep /\ w \in Sweep
  BY DEF SweepsTypeOK, NoSweep, Sweep
<1>2. ASSUME NEW x \in Sweep, sweeps' = [sweeps EXCEPT ![s] = x] PROVE SweepsTypeOK'
  BY <1>2 DEF SweepsTypeOK
<1>3. ASSUME NEW m \in Messages, Advance(s, m) PROVE SweepsTypeOK'
  <2>1. [w EXCEPT !.ids = w.ids \ {m}] \in Sweep
    BY <1>1 DEF Sweep
  <2>2. PICK x \in Sweep : sweeps' = [sweeps EXCEPT ![s] = x]
    BY <1>1, <1>3, <2>1 DEF Advance
  <2>3. QED
    BY <1>2, <2>2
<1>4. ASSUME w.pc = "fail", NEW m \in w.ids PROVE m \in Messages
  BY <1>1, <1>4 DEF Sweep
<1>5. CASE ReadExpired(s)
  <2> DEFINE x == [pc  |-> IF ExpiredLeases(now) = {} THEN "scan" ELSE "requeue",
                   at  |-> now,
                   ids |-> ExpiredLeases(now)]
  <2>1. ExpiredLeases(now) \in SUBSET Messages /\ now \in Nat
    BY DEF ExpiredLeases, TableTypeOK
  <2>2. x \in Sweep
    BY <2>1 DEF Sweep
  <2>3. sweeps' = [sweeps EXCEPT ![s] = x]
    BY <1>5 DEF ReadExpired
  <2>4. SweepsTypeOK'
    BY <1>2, <2>2, <2>3
  <2>5. QED
    BY <1>5, <2>4 DEF ReadExpired, tableVars, TableTypeOK
<1>6. CASE RequeueExpired(s)
  <2>1. rows' \in [Messages -> Row]
    <3>1. \A m \in Messages : rows[m] \in Row /\ Reaped(rows[m]) \in Row
      BY SweptTyped DEF TableTypeOK
    <3>2. rows' = [m \in Messages |-> IF m \in w.ids /\ Exists(m) THEN Reaped(rows[m]) ELSE rows[m]]
      BY <1>6 DEF RequeueExpired
    <3>3. QED
      BY <3>1, <3>2
  <2>2. sweeps' = [sweeps EXCEPT ![s] = [w EXCEPT !.pc = "scan", !.ids = {}]]
    BY <1>6 DEF RequeueExpired, SweepsTypeOK
  <2>3. [w EXCEPT !.pc = "scan", !.ids = {}] \in Sweep
    BY <1>1 DEF Sweep
  <2>4. SweepsTypeOK'
    BY <1>2, <2>2, <2>3
  <2>5. QED
    BY <1>6, <2>1, <2>4 DEF RequeueExpired, TableTypeOK
<1>7. CASE ReadAbandoned(s)
  <2>1. AbandonedSends(w.at) \in SUBSET Messages
    BY DEF AbandonedSends
  <2>2. [w EXCEPT !.pc = "fail", !.ids = AbandonedSends(w.at)] \in Sweep
    BY <1>1, <2>1 DEF Sweep
  <2>3. QED
    BY <1>1, <1>2, <1>7, <2>2 DEF ReadAbandoned, tableVars, TableTypeOK
<1>8. CASE FailAbandoned(s)
  <2>1. PICK m \in w.ids : /\ rows' = [rows EXCEPT ![m] = Abandoned(rows[m])]
                           /\ RecordEvent(m, "FAILED")
                           /\ Advance(s, m)
    BY <1>8 DEF FailAbandoned
  <2>2. m \in Messages
    BY <1>4, <1>8 DEF FailAbandoned
  <2>3. rows[m] \in Row
    BY <2>2 DEF TableTypeOK
  <2>4. rows' \in [Messages -> Row]
    BY <2>1, <2>2, <2>3, RowTyped, SweptTyped
  <2>5. events' \in [Messages -> SUBSET MessageStatuses]
    BY <2>1, <2>2, EventTyped DEF MessageStatuses
  <2>6. QED
    BY <1>3, <1>8, <2>1, <2>2, <2>4, <2>5 DEF FailAbandoned, TableTypeOK
<1>9. CASE SkipAbandoned(s)
  BY <1>3, <1>4, <1>9 DEF SkipAbandoned, tableVars, TableTypeOK
<1>10. CASE AbortSweep(s)
  BY <1>1, <1>2, <1>10 DEF AbortSweep, tableVars, TableTypeOK
<1>11. QED
  BY <1>5, <1>6, <1>7, <1>8, <1>9, <1>10 DEF SweepStep, SweepProgress

\* Every step of the server keeps the types.
LEMMA StepTyped == TypeOK /\ [Next]_vars => TypeOK'
<1> SUFFICES ASSUME TypeOK, [Next]_vars PROVE TypeOK'
  OBVIOUS
<1> USE DEF TypeOK
<1>1. CASE TimePasses
  <2>1. TableTypeOK'
    BY <1>1 DEF TimePasses, Tick, TableTypeOK
  <2>2. QED
    BY <1>1, <2>1 DEF TimePasses, reportVars, pollVars, ReportsTypeOK, OpsTypeOK,
                      PollsTypeOK, SweepsTypeOK
<1>2. CASE Reporting
  BY <1>2, ReportTyped DEF Reporting, pollVars, OpsTypeOK, PollsTypeOK, SweepsTypeOK
<1>3. CASE Operating
  BY <1>3, OperatorTyped DEF Operating, reportVars, pollVars, ReportsTypeOK, PollsTypeOK,
                             SweepsTypeOK
<1>4. CASE Polling
  BY <1>4, PollTyped DEF Polling, reportVars, ReportsTypeOK, OpsTypeOK, SweepsTypeOK
<1>5. CASE Sweeping
  BY <1>5, SweepTyped DEF Sweeping, reportVars, pollVars, ReportsTypeOK, OpsTypeOK, PollsTypeOK
<1>6. CASE UNCHANGED vars
  BY <1>6 DEF vars, tableVars, reportVars, pollVars, TableTypeOK, ReportsTypeOK, OpsTypeOK,
              PollsTypeOK, SweepsTypeOK
<1>7. QED
  BY <1>1, <1>2, <1>3, <1>4, <1>5, <1>6 DEF Next

\* The table, the event log and the memory of every handler keep their types,
\* whatever the processes of the server do.
THEOREM TypeCorrect == Spec => []TypeOK
<1>1. QED
  BY InitTyped, StepTyped, PTL DEF Spec

-----------------------------------------------------------------------------
(* Coherence of the lease columns *)

\* What makes the late write of a report safe: from its first read on, a handler
\* holds the token its report carries, so the row it matches is a claimed one.
HandlersCurrent ==
  \A h \in Reporters :
    reports[h].pc \in {"budget", "cas"} => reports[h].seen.token = reports[h].token

CoherenceInv == TypeOK /\ HandlersCurrent /\ LeaseCoherence

\* Row by row: each operator that writes a row leaves it coherent.
LEMMA WrittenCoherent ==
  ASSUME NEW row \in Row, Coherent(row)
  PROVE  /\ Coherent(Reaped(row))
         /\ Coherent(Retried(row))
         /\ Coherent(Requeued(row))
         /\ \A f \in BOOLEAN : Coherent([row EXCEPT !.force = f])
         /\ Coherent([row EXCEPT !.status = "CANCELED"])
         /\ row.status = "ACCEPTED" => Coherent(Abandoned(row))
  BY DEF Coherent, Reaped, Retried, Requeued, Abandoned, Row, InFlightStatuses

\* The rows that appear, disappear or are claimed are coherent.
LEMMA FreshCoherent ==
  /\ Coherent(Absent("NONE")) /\ Coherent(Absent("DELETED"))
  /\ \A q \in Nat : Coherent(NewRow(q))
  BY DEF Coherent, Absent, NewRow, InFlightStatuses

LEMMA ClaimedCoherent ==
  ASSUME NEW row \in Row, NEW t \in Nat, now \in Nat
  PROVE  Coherent(Claimed(row, t))
<1>1. now + LeaseTime \in Nat
  BY LeaseAssumption
<1>2. t # Null /\ now + LeaseTime # Null
  BY <1>1, NullAssumption
<1>3. QED
  BY <1>2 DEF Coherent, Claimed, Row, InFlightStatuses

\* The lease columns a report's facts and its advance leave behind.
LEMMA ReportedColumns ==
  ASSUME NEW row \in Row, NEW r \in Report
  PROVE  /\ WithFacts(row, r).status = row.status
         /\ WithFacts(row, r).token = row.token
         /\ WithFacts(row, r).lease = row.lease
         /\ Advanced(row, r).status = r.status
         /\ Advanced(row, r).token = row.token
         /\ Advanced(row, r).lease = IF IsTerminal(r.status) THEN Null ELSE row.lease
<1>1. WithFacts(row, r) \in Row
  BY ReportedTyped
<1>2. \A g, t : LET x == [row EXCEPT !.guid = g, !.stamps = t]
               IN  x.status = row.status /\ x.token = row.token /\ x.lease = row.lease
  BY DEF Row
<1>3. /\ WithFacts(row, r).status = row.status
      /\ WithFacts(row, r).token = row.token
      /\ WithFacts(row, r).lease = row.lease
  BY <1>2 DEF WithFacts
<1>4. QED
  BY <1>1, <1>3 DEF Advanced, Row

\* A report that matches a claimed row leaves it coherent: it can only advance
\* the status, and gives the lease back exactly when the attempt is over.
LEMMA ReportedCoherent ==
  ASSUME NEW row \in Row, Coherent(row), NEW r \in Report,
         row.token # Null, row.status \in MessageStatuses
  PROVE  /\ Coherent(WithFacts(row, r))
         /\ CanTransition(row.status, r.status) => Coherent(Advanced(row, r))
<1>2. Coherent(WithFacts(row, r))
  BY ReportedColumns DEF Coherent
<1>3. ASSUME CanTransition(row.status, r.status) PROVE Coherent(Advanced(row, r))
  <2> DEFINE a == Advanced(row, r)
  <2>1. /\ a.status = r.status
        /\ a.token = row.token
        /\ a.lease = IF IsTerminal(r.status) THEN Null ELSE row.lease
    BY ReportedColumns
  <2>2. row.status \in InFlightStatuses \cup {"DELIVERED"} => row.lease # Null
    BY DEF Coherent
  <2>3. row.status # "QUEUED"
    BY DEF Coherent
  <2>4. r.status # "QUEUED" /\ row.status \notin TerminalStatuses
    BY <1>3 DEF CanTransition, IsTerminal
  <2>5. row.status \in InFlightStatuses \cup {"DELIVERED"}
    BY <2>3, <2>4 DEF MessageStatuses, TerminalStatuses, InFlightStatuses
  <2>6. QED
    BY <2>1, <2>2, <2>4, <2>5
       DEF Coherent, IsTerminal, TerminalStatuses, InFlightStatuses
<1>4. QED
  BY <1>2, <1>3

\* The reports: every write of applyOnce is of the row the handler read.
LEMMA ReportCoherent ==
  ASSUME CoherenceInv, NEW h \in Reporters, ReportStep(h)
  PROVE  HandlersCurrent' /\ LeaseCoherence'
<1> DEFINE r == reports[h]
<1>1. TypeOK /\ HandlersCurrent /\ LeaseCoherence
  BY DEF CoherenceInv
<1>2. TableTypeOK /\ ReportsTypeOK
  BY <1>1 DEF TypeOK
<1>3. ASSUME Finish(h) PROVE HandlersCurrent'
  <2>1. reports'[h].pc = "idle"
    BY <1>2, <1>3 DEF Finish, ReportsTypeOK, NoReport
  <2>2. \A g \in Reporters \ {h} : reports'[g] = reports[g]
    BY <1>2, <1>3 DEF Finish, ReportsTypeOK
  <2>3. QED
    BY <1>1, <2>1, <2>2 DEF HandlersCurrent
<1>4. ASSUME UNCHANGED rows PROVE LeaseCoherence'
  BY <1>1, <1>4 DEF LeaseCoherence
<1>5. ASSUME NEW x, rows' = [rows EXCEPT ![r.msg] = x], Coherent(x) PROVE LeaseCoherence'
  BY <1>1, <1>2, <1>5 DEF LeaseCoherence, TableTypeOK
<1>6. ASSUME r.pc = "cas", Matches(r)
      PROVE  /\ r \in Report /\ r.msg \in Messages /\ rows[r.msg] \in Row
             /\ Coherent(rows[r.msg])
             /\ rows[r.msg].token # Null
             /\ rows[r.msg].status \in MessageStatuses
             /\ rows[r.msg].status = r.seen.status
  <2>1. r \in Report
    BY <1>2, <1>6, BusyTyped
  <2>2. r.msg \in Messages /\ r.token \in Nat /\ r.seen \in Seen
    BY <2>1 DEF Report
  <2>3. rows[r.msg] \in Row /\ Coherent(rows[r.msg])
    BY <1>1, <1>2, <2>2 DEF TableTypeOK, LeaseCoherence
  <2>4. rows[r.msg].token = r.token
    BY <1>1, <1>6 DEF Matches, HandlersCurrent
  <2>5. rows[r.msg].token # Null
    BY <2>2, <2>4, NullAssumption
  <2>6. rows[r.msg].status = r.seen.status /\ r.seen.status \in MessageStatuses
    BY <1>6, <2>2 DEF Matches, Seen
  <2>7. QED
    BY <2>1, <2>2, <2>3, <2>5, <2>6
<1>7. CASE IgnoreStale(h)
  BY <1>3, <1>4, <1>7 DEF IgnoreStale, tableVars
<1>8. CASE IgnoreReplay(h)
  BY <1>3, <1>4, <1>8 DEF IgnoreReplay, tableVars
<1>9. CASE ReadRow(h)
  <2>1. PICK x \in Incoming(h), pc \in {"budget", "cas"} :
          /\ TokenMatches(x)
          /\ reports' = [reports EXCEPT ![h] = [x EXCEPT !.seen = SeenOf(x.msg), !.pc = pc]]
    BY <1>9 DEF ReadRow
  <2>2. x \in Report
    BY <1>2, IncomingTyped
  <2>3. reports'[h].seen = SeenOf(x.msg) /\ reports'[h].token = x.token
    BY <1>2, <2>1, <2>2 DEF ReportsTypeOK, Report
  <2>4. reports'[h].seen.token = reports'[h].token
    BY <2>1, <2>3 DEF SeenOf, TokenMatches
  <2>5. \A g \in Reporters \ {h} : reports'[g] = reports[g]
    BY <1>2, <2>1 DEF ReportsTypeOK
  <2>6. HandlersCurrent'
    BY <1>1, <2>4, <2>5 DEF HandlersCurrent
  <2>7. QED
    BY <1>4, <1>9, <2>6 DEF ReadRow, tableVars
<1>10. CASE ReadBudget(h)
  <2>1. reports' = [reports EXCEPT ![h] = [r EXCEPT !.pc = "cas", !.budget = settings.budget]]
    BY <1>2, <1>10 DEF ReadBudget, ReportsTypeOK
  <2>2. r \in Report /\ r.seen.token = r.token
    BY <1>1, <1>2, <1>10, BusyTyped DEF ReadBudget, HandlersCurrent
  <2>3. reports'[h].seen = r.seen /\ reports'[h].token = r.token
    BY <1>2, <2>1, <2>2 DEF ReportsTypeOK, Report
  <2>4. \A g \in Reporters \ {h} : reports'[g] = reports[g]
    BY <1>2, <2>1 DEF ReportsTypeOK
  <2>5. HandlersCurrent'
    BY <1>1, <2>2, <2>3, <2>4 DEF HandlersCurrent
  <2>6. QED
    BY <1>4, <1>10, <2>5 DEF ReadBudget, tableVars
<1>11. CASE PersistFacts(h)
  <2>1. rows' = [rows EXCEPT ![r.msg] = WithFacts(rows[r.msg], r)]
    BY <1>11 DEF PersistFacts
  <2>2. Coherent(WithFacts(rows[r.msg], r))
    BY <1>6, <1>11, ReportedCoherent DEF PersistFacts
  <2>3. QED
    BY <1>3, <1>5, <1>11, <2>1, <2>2 DEF PersistFacts
<1>12. CASE RequeueFailure(h)
  <2>1. rows' = [rows EXCEPT ![r.msg] = Requeued(rows[r.msg])]
    BY <1>12 DEF RequeueFailure
  <2>2. Coherent(Requeued(rows[r.msg]))
    BY <1>6, <1>12, WrittenCoherent DEF RequeueFailure
  <2>3. QED
    BY <1>3, <1>5, <1>12, <2>1, <2>2 DEF RequeueFailure
<1>13. CASE ApplyReport(h)
  <2>1. rows' = [rows EXCEPT ![r.msg] = Advanced(rows[r.msg], r)]
    BY <1>13 DEF ApplyReport
  <2>2. CanTransition(rows[r.msg].status, r.status)
    BY <1>6, <1>13 DEF ApplyReport, Advances
  <2>3. Coherent(Advanced(rows[r.msg], r))
    BY <1>6, <1>13, <2>2, ReportedCoherent DEF ApplyReport
  <2>4. QED
    BY <1>3, <1>5, <1>13, <2>1, <2>3 DEF ApplyReport
<1>14. CASE RetryReport(h)
  <2>1. r \in Report
    BY <1>2, <1>14, BusyTyped DEF RetryReport
  <2>2. \A g \in Reporters \ {h} : reports'[g] = reports[g]
    BY <1>2, <1>14 DEF RetryReport, ReportsTypeOK
  <2>3. reports'[h].pc = "read"
    BY <1>2, <1>14, <2>1 DEF RetryReport, ReportsTypeOK, Report
  <2>4. HandlersCurrent'
    BY <1>1, <2>2, <2>3 DEF HandlersCurrent
  <2>5. QED
    BY <1>4, <1>14, <2>4 DEF RetryReport, tableVars
<1>15. CASE LoseReport(h)
  BY <1>3, <1>4, <1>15 DEF LoseReport, tableVars
<1>16. QED
  BY <1>7, <1>8, <1>9, <1>10, <1>11, <1>12, <1>13, <1>14, <1>15 DEF ReportStep

\* The operators: every unguarded write of a row resets both lease columns or
\* none (retryMessage, cancelMessage, forceDispatch, clearHistory).
LEMMA OperatorCoherent ==
  ASSUME TypeOK, LeaseCoherence,
         (\E o \in Operators : OpStep(o)) \/ ClearHistory \/ UpdateSettings
  PROVE  LeaseCoherence'
<1>1. TableTypeOK /\ OpsTypeOK
  BY DEF TypeOK
<1>2. ASSUME UNCHANGED rows PROVE LeaseCoherence'
  BY <1>2 DEF LeaseCoherence
<1>3. ASSUME NEW m \in Messages, NEW x, rows' = [rows EXCEPT ![m] = x], Coherent(x)
      PROVE  LeaseCoherence'
  BY <1>1, <1>3 DEF LeaseCoherence, TableTypeOK
<1>4. ASSUME NEW o \in Operators, NEW k, Pending(o, k)
      PROVE  /\ ops[o].msg \in Messages
             /\ rows[ops[o].msg] \in Row
             /\ Coherent(rows[ops[o].msg])
  BY <1>1, <1>4 DEF Pending, OpsTypeOK, TableTypeOK, LeaseCoherence
<1>5. ASSUME NEW o \in Operators, CreateMessage(o) PROVE LeaseCoherence'
  BY <1>1, <1>3, <1>5, FreshCoherent DEF CreateMessage, TableTypeOK
<1>6. ASSUME NEW o \in Operators, CancelWrite(o) PROVE LeaseCoherence'
  <2> DEFINE x == rows[ops[o].msg]
  <2>1. rows' = [rows EXCEPT ![ops[o].msg] = [x EXCEPT !.status = "CANCELED"]]
    BY <1>1, <1>6 DEF CancelWrite, TableTypeOK
  <2>2. Coherent([x EXCEPT !.status = "CANCELED"])
    BY <1>4, <1>6, WrittenCoherent DEF CancelWrite
  <2>3. QED
    BY <1>3, <1>4, <1>6, <2>1, <2>2 DEF CancelWrite
<1>7. ASSUME NEW o \in Operators, RetryWrite(o) PROVE LeaseCoherence'
  BY <1>3, <1>4, <1>7, WrittenCoherent DEF RetryWrite
<1>8. ASSUME NEW o \in Operators, ForceWrite(o) PROVE LeaseCoherence'
  <2> DEFINE x == rows[ops[o].msg]
  <2>1. rows' = [rows EXCEPT ![ops[o].msg] = [x EXCEPT !.force = TRUE]]
    BY <1>1, <1>8 DEF ForceWrite, TableTypeOK
  <2>2. Coherent([x EXCEPT !.force = TRUE])
    BY <1>4, <1>8, WrittenCoherent DEF ForceWrite
  <2>3. QED
    BY <1>3, <1>4, <1>8, <2>1, <2>2 DEF ForceWrite
<1>9. ASSUME NEW o \in Operators, CreateEvent(o) \/ BeginRequest(o) \/ AbandonRequest(o)
      PROVE  LeaseCoherence'
  BY <1>2, <1>9 DEF CreateEvent, BeginRequest, AbandonRequest, tableVars
<1>10. CASE ClearHistory
  BY <1>10, FreshCoherent DEF ClearHistory, LeaseCoherence
<1>11. CASE UpdateSettings
  BY <1>2, <1>11 DEF UpdateSettings
<1>12. QED
  BY <1>5, <1>6, <1>7, <1>8, <1>9, <1>10, <1>11 DEF OpStep

\* The polls: only the claim writes the table (claimNextMessage).
LEMMA PollCoherent ==
  ASSUME TypeOK, LeaseCoherence, NEW p \in Pollers, NEW locked, PollStep(p, locked)
  PROVE  LeaseCoherence'
<1>1. TableTypeOK
  BY DEF TypeOK
<1>2. CASE Claim(p, locked)
  <2>1. PICK m \in Messages : rows' = [rows EXCEPT ![m] = Claimed(rows[m], nextToken)]
    BY <1>2 DEF Claim, Queued
  <2>2. Coherent(Claimed(rows[m], nextToken))
    BY <1>1, ClaimedCoherent DEF TableTypeOK
  <2>3. QED
    BY <1>1, <2>1, <2>2 DEF LeaseCoherence, TableTypeOK
<1>3. CASE UNCHANGED rows
  BY <1>3 DEF LeaseCoherence
<1>4. QED
  BY <1>2, <1>3 DEF PollStep, BeginTurn, PassGate, EndTurn, Respond, LoseLease, tableVars

\* The sweeps: the blind requeue clears both columns, and the abandonment only
\* ever fails a claimed row (reapExpiredLeases, failAbandonedSends).
LEMMA SweepCoherent ==
  ASSUME TypeOK, LeaseCoherence, NEW s \in Sweepers, SweepStep(s)
  PROVE  LeaseCoherence'
<1>1. TableTypeOK /\ SweepsTypeOK
  BY DEF TypeOK
<1>2. \A m \in Messages : rows[m] \in Row /\ Coherent(rows[m])
  BY <1>1 DEF TableTypeOK, LeaseCoherence
<1>3. CASE RequeueExpired(s)
  <2>1. \A m \in Messages : rows'[m] \in {rows[m], Reaped(rows[m])}
    BY <1>3 DEF RequeueExpired
  <2>2. \A m \in Messages : Coherent(Reaped(rows[m]))
    BY <1>2, WrittenCoherent
  <2>3. QED
    BY <1>2, <2>1, <2>2 DEF LeaseCoherence
<1>4. CASE FailAbandoned(s)
  <2>1. PICK m \in sweeps[s].ids :
          StillAbandoned(m) /\ rows' = [rows EXCEPT ![m] = Abandoned(rows[m])]
    BY <1>4 DEF FailAbandoned
  <2>2. m \in Messages
    BY <1>1, <2>1 DEF SweepsTypeOK, Sweep
  <2>3. Coherent(Abandoned(rows[m]))
    BY <1>2, <2>1, <2>2, WrittenCoherent DEF StillAbandoned
  <2>4. QED
    BY <1>1, <1>2, <2>1, <2>2, <2>3 DEF LeaseCoherence, TableTypeOK
<1>5. CASE UNCHANGED rows
  BY <1>5 DEF LeaseCoherence
<1>6. QED
  BY <1>3, <1>4, <1>5
     DEF SweepStep, SweepProgress, ReadExpired, ReadAbandoned, SkipAbandoned, AbortSweep, tableVars

\* The initial state satisfies the invariant, and every step keeps it.
LEMMA InitCoherent == Init => CoherenceInv
<1> SUFFICES ASSUME Init PROVE CoherenceInv
  OBVIOUS
<1>1. HandlersCurrent
  BY DEF Init, ReportsInit, HandlersCurrent, NoReport
<1>2. LeaseCoherence
  BY FreshCoherent DEF Init, TableInit, LeaseCoherence
<1>3. QED
  BY <1>1, <1>2, InitTyped DEF CoherenceInv

LEMMA StepCoherent == CoherenceInv /\ [Next]_vars => CoherenceInv'
<1> SUFFICES ASSUME CoherenceInv, [Next]_vars PROVE HandlersCurrent' /\ LeaseCoherence'
  BY StepTyped DEF CoherenceInv
<1>1. TypeOK /\ HandlersCurrent /\ LeaseCoherence
  BY DEF CoherenceInv
<1>2. ASSUME UNCHANGED reports PROVE HandlersCurrent'
  BY <1>1, <1>2 DEF HandlersCurrent
<1>3. ASSUME UNCHANGED rows PROVE LeaseCoherence'
  BY <1>1, <1>3 DEF LeaseCoherence
<1>4. CASE TimePasses
  BY <1>2, <1>3, <1>4 DEF TimePasses, Tick, reportVars
<1>5. CASE Reporting
  BY <1>5, ReportCoherent DEF Reporting
<1>6. CASE Operating
  BY <1>1, <1>2, <1>6, OperatorCoherent DEF Operating, reportVars
<1>7. CASE Polling
  BY <1>1, <1>2, <1>7, PollCoherent DEF Polling, reportVars
<1>8. CASE Sweeping
  BY <1>1, <1>2, <1>8, SweepCoherent DEF Sweeping, reportVars
<1>9. CASE UNCHANGED vars
  BY <1>2, <1>3, <1>9 DEF vars, tableVars, reportVars
<1>10. QED
  BY <1>4, <1>5, <1>6, <1>7, <1>8, <1>9 DEF Next

\* Whatever reports, requests, polls and sweeps race, the status, token and lease
\* columns of every row agree (the writes of message-status.ts, messages.ts and
\* message-queue.ts).
THEOREM LeaseCoherent == Spec => []LeaseCoherence
<1>1. CoherenceInv => LeaseCoherence
  BY DEF CoherenceInv
<1>2. QED
  BY <1>1, InitCoherent, StepCoherent, PTL DEF Spec

-----------------------------------------------------------------------------
(* Attempts are distinct *)

\* A poll that has claimed and has not answered yet.
Responding(p) == polls[p].pc = "respond"

\* Every token in the system was issued before nextToken, and the lease a poll is
\* about to hand out is nobody else's.
TokensIssued ==
  /\ \A m \in Messages : rows[m].token # Null => rows[m].token < nextToken
  /\ \A p \in Pollers : Responding(p) => polls[p].token < nextToken
  /\ \A p, q \in Pollers :
       p # q /\ Responding(p) /\ Responding(q) => polls[p].token # polls[q].token
  /\ \A l \in granted :
       /\ l.token < nextToken
       /\ \A p \in Pollers : Responding(p) => l.token # polls[p].token

AttemptsInv == TypeOK /\ TokensIssued /\ AttemptsDistinct

\* A step keeps the tokens: a row keeps its own or loses it, and no lease is
\* claimed, handed out or taken back.
TokensKept ==
  /\ \A m \in Messages : rows'[m].token \in {rows[m].token, Null}
  /\ UNCHANGED <<nextToken, granted>>

\* Reports, requests and sweeps keep the tokens (applyOnce, messages.ts,
\* reapExpiredLeases, failAbandonedSends).
LEMMA ReportKeepsTokens ==
  ASSUME TypeOK, NEW h \in Reporters, ReportStep(h)
  PROVE  TokensKept
<1> DEFINE r == reports[h]
           row == rows[r.msg]
<1>1. TableTypeOK /\ ReportsTypeOK
  BY DEF TypeOK
<1>2. ASSUME r.pc = "cas" PROVE r \in Report /\ r.msg \in Messages /\ row \in Row
  BY <1>1, <1>2, BusyTyped DEF Report, TableTypeOK
<1>3. ASSUME NEW x, rows' = [rows EXCEPT ![r.msg] = x], x.token \in {row.token, Null}
      PROVE  \A m \in Messages : rows'[m].token \in {rows[m].token, Null}
  BY <1>1, <1>3 DEF TableTypeOK
<1>4. CASE PersistFacts(h)
  BY <1>2, <1>3, <1>4, ReportedColumns DEF PersistFacts, TokensKept
<1>5. CASE RequeueFailure(h)
  <2>1. Requeued(row).token = Null
    BY <1>2, <1>5 DEF RequeueFailure, Requeued, Row
  <2>2. QED
    BY <1>3, <1>5, <2>1 DEF RequeueFailure, TokensKept
<1>6. CASE ApplyReport(h)
  <2>1. Advanced(row, r).token = row.token
    BY <1>2, <1>6, BusyTyped, ReportedColumns DEF ApplyReport
  <2>2. QED
    BY <1>3, <1>6, <2>1 DEF ApplyReport, TokensKept
<1>7. CASE UNCHANGED tableVars
  BY <1>7 DEF tableVars, TokensKept
<1>8. QED
  BY <1>4, <1>5, <1>6, <1>7
     DEF ReportStep, IgnoreStale, IgnoreReplay, ReadRow, ReadBudget, RetryReport, LoseReport

LEMMA OperatorKeepsTokens ==
  ASSUME TypeOK, (\E o \in Operators : OpStep(o)) \/ ClearHistory \/ UpdateSettings
  PROVE  TokensKept
<1>1. TableTypeOK /\ OpsTypeOK
  BY DEF TypeOK
<1>2. ASSUME NEW m \in Messages, NEW x, rows' = [rows EXCEPT ![m] = x],
             x.token \in {rows[m].token, Null}, UNCHANGED <<nextToken, granted>>
      PROVE  TokensKept
  BY <1>1, <1>2 DEF TokensKept, TableTypeOK
<1>3. \A s \in {"NONE", "DELETED"} : Absent(s).token = Null
  BY DEF Absent
<1>4. ASSUME NEW o \in Operators, NEW k, Pending(o, k)
      PROVE  ops[o].msg \in Messages /\ rows[ops[o].msg] \in Row
  BY <1>1, <1>4 DEF Pending, OpsTypeOK, TableTypeOK
<1>5. ASSUME NEW o \in Operators, CreateMessage(o) PROVE TokensKept
  <2>1. NewRow(nextSeq).token = Null
    BY DEF NewRow, Absent
  <2>2. QED
    BY <1>2, <1>5, <2>1 DEF CreateMessage
<1>6. ASSUME NEW o \in Operators, CancelWrite(o) PROVE TokensKept
  <2> DEFINE x == rows[ops[o].msg]
  <2>1. rows' = [rows EXCEPT ![ops[o].msg] = [x EXCEPT !.status = "CANCELED"]]
    BY <1>1, <1>6 DEF CancelWrite, TableTypeOK
  <2>2. [x EXCEPT !.status = "CANCELED"].token = x.token
    BY <1>4, <1>6 DEF CancelWrite, Row
  <2>3. QED
    BY <1>2, <1>4, <1>6, <2>1, <2>2 DEF CancelWrite
<1>7. ASSUME NEW o \in Operators, RetryWrite(o) PROVE TokensKept
  <2>1. Retried(rows[ops[o].msg]).token = Null
    BY <1>4, <1>7 DEF RetryWrite, Retried, Row
  <2>2. QED
    BY <1>2, <1>4, <1>7, <2>1 DEF RetryWrite
<1>8. ASSUME NEW o \in Operators, ForceWrite(o) PROVE TokensKept
  <2> DEFINE x == rows[ops[o].msg]
  <2>1. rows' = [rows EXCEPT ![ops[o].msg] = [x EXCEPT !.force = TRUE]]
    BY <1>1, <1>8 DEF ForceWrite, TableTypeOK
  <2>2. [x EXCEPT !.force = TRUE].token = x.token
    BY <1>4, <1>8 DEF ForceWrite, Row
  <2>3. QED
    BY <1>2, <1>4, <1>8, <2>1, <2>2 DEF ForceWrite
<1>9. ASSUME NEW o \in Operators, CreateEvent(o) \/ BeginRequest(o) \/ AbandonRequest(o)
      PROVE  TokensKept
  BY <1>9 DEF CreateEvent, BeginRequest, AbandonRequest, tableVars, TokensKept
<1>10. CASE ClearHistory
  BY <1>3, <1>10 DEF ClearHistory, TokensKept
<1>11. CASE UpdateSettings
  BY <1>11 DEF UpdateSettings, TokensKept
<1>12. QED
  BY <1>5, <1>6, <1>7, <1>8, <1>9, <1>10, <1>11 DEF OpStep

LEMMA SweepKeepsTokens ==
  ASSUME TypeOK, NEW s \in Sweepers, SweepStep(s)
  PROVE  TokensKept
<1>1. TableTypeOK /\ SweepsTypeOK
  BY DEF TypeOK
<1>2. \A row \in Row : Reaped(row).token = Null /\ Abandoned(row).token = row.token
  BY DEF Reaped, Abandoned, Row
<1>3. CASE RequeueExpired(s)
  <2>1. \A m \in Messages : rows[m] \in Row /\ rows'[m] \in {rows[m], Reaped(rows[m])}
    BY <1>1, <1>3 DEF RequeueExpired, TableTypeOK
  <2>2. QED
    BY <1>2, <1>3, <2>1 DEF RequeueExpired, TokensKept
<1>4. CASE FailAbandoned(s)
  <2>1. PICK m \in sweeps[s].ids : rows' = [rows EXCEPT ![m] = Abandoned(rows[m])]
    BY <1>4 DEF FailAbandoned
  <2>2. m \in Messages /\ rows[m] \in Row
    BY <1>1, <2>1 DEF SweepsTypeOK, Sweep, TableTypeOK
  <2>3. QED
    BY <1>1, <1>2, <1>4, <2>1, <2>2 DEF FailAbandoned, TokensKept, TableTypeOK
<1>5. CASE UNCHANGED tableVars
  BY <1>5 DEF tableVars, TokensKept
<1>6. QED
  BY <1>3, <1>4, <1>5
     DEF SweepStep, SweepProgress, ReadExpired, ReadAbandoned, SkipAbandoned, AbortSweep

\* A step that keeps the tokens and starts no answer keeps the invariant.
LEMMA KeptDistinct ==
  ASSUME AttemptsInv, TokensKept,
         \A p \in Pollers : polls'[p].pc = "respond" => polls'[p] = polls[p]
  PROVE  TokensIssued' /\ AttemptsDistinct'
<1>1. TokensIssued /\ AttemptsDistinct
  BY DEF AttemptsInv
<1>2. TokensIssued'
  BY <1>1 DEF TokensIssued, TokensKept, Responding
<1>3. AttemptsDistinct'
  BY <1>1 DEF AttemptsDistinct, TokensKept
<1>4. QED
  BY <1>2, <1>3

\* A claim issues a fresh token, and an answer hands it over (claimNextMessage,
\* the lease route).
LEMMA PollDistinct ==
  ASSUME AttemptsInv, NEW p \in Pollers, NEW locked, PollStep(p, locked)
  PROVE  TokensIssued' /\ AttemptsDistinct'
<1>1. TypeOK /\ TokensIssued /\ AttemptsDistinct
  BY DEF AttemptsInv
<1>2. TableTypeOK /\ PollsTypeOK
  BY <1>1 DEF TypeOK
<1>3. \A q \in Pollers \ {p} : polls'[q] = polls[q]
  BY <1>2 DEF PollStep, BeginTurn, PassGate, EndTurn, Claim, Respond, LoseLease, PollsTypeOK
<1>4. \A q \in Pollers : Responding(q) => polls[q].token \in Nat /\ polls[q].token < nextToken
  BY <1>1, <1>2 DEF TokensIssued, Responding, PollsTypeOK
<1>5. CASE Claim(p, locked)
  <2>1. PICK m \in Messages :
          /\ rows' = [rows EXCEPT ![m] = Claimed(rows[m], nextToken)]
          /\ polls' = [polls EXCEPT ![p].pc = "respond", ![p].msg = m, ![p].token = nextToken,
                                    ![p].guid = rows[m].guid]
    BY <1>5 DEF Claim, Queued
  <2>2. Claimed(rows[m], nextToken).token = nextToken
    BY <1>2 DEF Claimed, TableTypeOK, Row
  <2>3. /\ rows'[m].token = nextToken
        /\ \A n \in Messages \ {m} : rows'[n] = rows[n]
    BY <1>2, <2>1, <2>2 DEF TableTypeOK
  <2>4. polls'[p].token = nextToken
    BY <1>2, <2>1 DEF PollsTypeOK, Poll
  <2>5. nextToken \in Nat /\ nextToken' = nextToken + 1 /\ granted' = granted
    BY <1>2, <1>5 DEF Claim, TableTypeOK
  <2>6. \A n \in Messages : rows[n].token # Null =>
          rows[n].token \in Nat /\ rows[n].token < nextToken
    BY <1>1, <1>2 DEF TokensIssued, TableTypeOK, Row, OrNull
  <2>7. \A l \in granted : l.token \in Nat /\ l.token < nextToken
    BY <1>1, <1>2 DEF TokensIssued, TableTypeOK, Lease
  <2>8. \A t \in Nat : t < nextToken => t < nextToken + 1 /\ t # nextToken
    BY <2>5
  <2>9. \A n \in Messages : rows'[n].token # Null => rows'[n].token < nextToken'
    BY <2>3, <2>5, <2>6, <2>8
  <2>10. \A q \in Pollers : Responding(q)' => polls'[q].token < nextToken'
    BY <1>3, <1>4, <2>4, <2>5, <2>8 DEF Responding
  <2>11. \A q, u \in Pollers :
           q # u /\ Responding(q)' /\ Responding(u)' => polls'[q].token # polls'[u].token
    BY <1>1, <1>3, <1>4, <2>4, <2>8 DEF TokensIssued, Responding
  <2>12. \A l \in granted' :
           /\ l.token < nextToken'
           /\ \A q \in Pollers : Responding(q)' => l.token # polls'[q].token
    BY <1>1, <1>3, <2>4, <2>5, <2>7, <2>8 DEF TokensIssued, Responding
  <2>13. TokensIssued'
    BY <2>9, <2>10, <2>11, <2>12 DEF TokensIssued
  <2>14. AttemptsDistinct'
    BY <1>1, <2>3, <2>5, <2>6, <2>8 DEF AttemptsDistinct
  <2>15. QED
    BY <2>13, <2>14
<1>6. CASE Respond(p)
  <2> DEFINE q == polls[p]
             l == [msg |-> q.msg, token |-> q.token, guid |-> q.guid]
  <2>1. UNCHANGED <<rows, nextToken>> /\ granted' = granted \cup {l} /\ Responding(p)
    BY <1>6 DEF Respond, Responding
  <2>2. ~Responding(p)'
    BY <1>2, <1>6 DEF Respond, Responding, PollsTypeOK, NoPoll
  <2>3. l.token = q.token
    OBVIOUS
  <2>4. \A u \in Pollers : Responding(u)' => u # p /\ Responding(u) /\ polls'[u] = polls[u]
    BY <1>3, <2>2 DEF Responding
  <2>5. \A k \in granted' :
          /\ k.token < nextToken'
          /\ \A u \in Pollers : Responding(u)' => k.token # polls'[u].token
    BY <1>1, <2>1, <2>3, <2>4 DEF TokensIssued
  <2>6. TokensIssued'
    BY <1>1, <2>1, <2>4, <2>5 DEF TokensIssued
  <2>7. \A k, j \in granted' : k.token = j.token => k = j
    BY <1>1, <2>1, <2>3 DEF TokensIssued, AttemptsDistinct
  <2>8. QED
    BY <1>1, <2>1, <2>6, <2>7 DEF AttemptsDistinct
<1>7. CASE BeginTurn(p) \/ PassGate(p) \/ EndTurn(p) \/ LoseLease(p)
  <2>1. TokensKept
    BY <1>7 DEF BeginTurn, PassGate, EndTurn, LoseLease, tableVars, TokensKept
  <2>2. polls'[p].pc # "respond"
    <3>1. NoPoll.pc = "idle" /\ [NoPoll EXCEPT !.pc = "gate", !.at = now,
                                               !.interval = settings.interval].pc = "gate"
      BY DEF NoPoll
    <3>2. CASE BeginTurn(p)
      BY <1>2, <3>1, <3>2 DEF BeginTurn, PollsTypeOK
    <3>3. CASE PassGate(p)
      <4>1. polls[p] \in Poll
        BY <1>2 DEF PollsTypeOK
      <4>2. polls'[p].pc = "claim"
        BY <1>2, <3>3, <4>1 DEF PassGate, PollsTypeOK, Poll
      <4>3. QED
        BY <4>2
    <3>4. CASE EndTurn(p) \/ LoseLease(p)
      BY <1>2, <3>1, <3>4 DEF EndTurn, LoseLease, PollsTypeOK
    <3>5. QED
      BY <1>7, <3>2, <3>3, <3>4
  <2>3. QED
    BY <1>3, <2>1, <2>2, KeptDistinct
<1>8. QED
  BY <1>5, <1>6, <1>7 DEF PollStep

LEMMA InitDistinct == Init => AttemptsInv
<1> SUFFICES ASSUME Init PROVE TokensIssued /\ AttemptsDistinct
  BY InitTyped DEF AttemptsInv
<1>1. \A m \in Messages : rows[m].token = Null
  BY DEF Init, TableInit, Absent
<1>2. granted = {} /\ \A p \in Pollers : ~Responding(p)
  BY DEF Init, TableInit, PollsInit, NoPoll, Responding
<1>3. QED
  BY <1>1, <1>2 DEF TokensIssued, AttemptsDistinct

LEMMA StepDistinct == AttemptsInv /\ [Next]_vars => AttemptsInv'
<1> SUFFICES ASSUME AttemptsInv, [Next]_vars PROVE TokensIssued' /\ AttemptsDistinct'
  BY StepTyped DEF AttemptsInv
<1>1. TypeOK
  BY DEF AttemptsInv
<1>2. ASSUME TokensKept, UNCHANGED polls PROVE TokensIssued' /\ AttemptsDistinct'
  BY <1>2, KeptDistinct
<1>3. CASE TimePasses
  BY <1>2, <1>3 DEF TimePasses, Tick, pollVars, TokensKept
<1>4. CASE Reporting
  BY <1>1, <1>2, <1>4, ReportKeepsTokens DEF Reporting, pollVars
<1>5. CASE Operating
  BY <1>1, <1>2, <1>5, OperatorKeepsTokens DEF Operating, pollVars
<1>6. CASE Polling
  BY <1>6, PollDistinct DEF Polling
<1>7. CASE Sweeping
  BY <1>1, <1>2, <1>7, SweepKeepsTokens DEF Sweeping, pollVars
<1>8. CASE UNCHANGED vars
  BY <1>2, <1>8 DEF vars, tableVars, pollVars, TokensKept
<1>9. QED
  BY <1>3, <1>4, <1>5, <1>6, <1>7, <1>8 DEF Next

\* No two messages, and no two gateways, ever share an attempt, however many
\* polls claim at once (claimNextMessage; dispatchToken is @unique).
THEOREM DistinctAttempts == Spec => []AttemptsDistinct
<1>1. AttemptsInv => AttemptsDistinct
  BY DEF AttemptsInv
<1>2. QED
  BY <1>1, InitDistinct, StepDistinct, PTL DEF Spec
=============================================================================
