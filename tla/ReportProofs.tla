---------------------------- MODULE ReportProofs ----------------------------
(***************************************************************************)
(* What becomes of the reports: each status has its event, no answered     *)
(* report is undone, a late write has the effect the report would have had *)
(* alone, and a canceled message stays canceled.  For every set of         *)
(* messages, handlers and instances.                                       *)
(***************************************************************************)
EXTENDS ServerProofs

-----------------------------------------------------------------------------
(* The event log *)

\* The statuses that need no event.
Unlogged == {"NONE", "DELETED", "QUEUED", "DISPATCHING"}

\* A step that loses no event and gives a row a new status only with its event.
LEMMA EventsGrow ==
  ASSUME EventLogged,
         \A m \in Messages : events[m] \subseteq events'[m],
         \A m \in Messages : \/ rows'[m].status = rows[m].status
                             \/ rows'[m].status \in Unlogged \cup events'[m]
  PROVE  EventLogged'
  BY DEF EventLogged, Unlogged, MessageStatuses

\* recordEvent adds one event.
LEMMA Recorded ==
  ASSUME TypeOK, NEW m \in Messages, NEW s, RecordEvent(m, s)
  PROVE  s \in events'[m] /\ \A n \in Messages : events[n] \subseteq events'[n]
  BY DEF TypeOK, TableTypeOK, RecordEvent

\* The reports: the new status and its event are written together (applyOnce).
LEMMA ReportLogged ==
  ASSUME TypeOK, EventLogged, NEW h \in Reporters, ReportStep(h)
  PROVE  EventLogged'
<1> DEFINE r == reports[h]
           row == rows[r.msg]
<1>1. TableTypeOK /\ ReportsTypeOK
  BY DEF TypeOK
<1>2. ASSUME r.pc = "cas" PROVE r \in Report /\ r.msg \in Messages /\ row \in Row
  BY <1>1, <1>2, BusyTyped DEF Report, TableTypeOK
<1>3. CASE PersistFacts(h)
  <2>1. rows' = [rows EXCEPT ![r.msg] = WithFacts(row, r)] /\ events' = events
    BY <1>3 DEF PersistFacts
  <2>2. WithFacts(row, r).status = row.status
    BY <1>2, <1>3, ReportedColumns DEF PersistFacts
  <2>3. QED
    BY <1>1, <2>1, <2>2, EventsGrow DEF TableTypeOK
<1>4. CASE RequeueFailure(h)
  <2>1. rows' = [rows EXCEPT ![r.msg] = Requeued(row)] /\ events' = events
    BY <1>4 DEF RequeueFailure
  <2>2. Requeued(row).status \in Unlogged
    BY <1>2, <1>4 DEF RequeueFailure, Requeued, Row, Unlogged
  <2>3. QED
    BY <1>1, <2>1, <2>2, EventsGrow DEF TableTypeOK
<1>5. CASE ApplyReport(h)
  <2>1. rows' = [rows EXCEPT ![r.msg] = Advanced(row, r)] /\ RecordEvent(r.msg, r.status)
    BY <1>5 DEF ApplyReport
  <2>2. Advanced(row, r).status = r.status
    BY <1>2, <1>5, ReportedColumns DEF ApplyReport
  <2>3. r.status \in events'[r.msg] /\ \A n \in Messages : events[n] \subseteq events'[n]
    BY <1>2, <1>5, <2>1, Recorded DEF ApplyReport
  <2>4. QED
    BY <1>1, <2>1, <2>2, <2>3, EventsGrow DEF TableTypeOK
<1>6. CASE UNCHANGED tableVars
  BY <1>6 DEF tableVars, EventLogged
<1>7. QED
  BY <1>3, <1>4, <1>5, <1>6
     DEF ReportStep, IgnoreStale, IgnoreReplay, ReadRow, ReadBudget, RetryReport, LoseReport

\* The operators: a retry deletes an event only of the message it puts back in the
\* queue, and the history is cleared together with its rows.
LEMMA OperatorLogged ==
  ASSUME TypeOK, EventLogged,
         (\E o \in Operators : OpStep(o)) \/ ClearHistory \/ UpdateSettings
  PROVE  EventLogged'
<1>1. TableTypeOK /\ OpsTypeOK
  BY DEF TypeOK
<1>2. ASSUME NEW o \in Operators, NEW k, Pending(o, k)
      PROVE  ops[o].msg \in Messages /\ rows[ops[o].msg] \in Row
  BY <1>1, <1>2 DEF Pending, OpsTypeOK, TableTypeOK
<1>3. ASSUME NEW o \in Operators, CreateMessage(o) PROVE EventLogged'
  <2>1. NewRow(nextSeq).status \in Unlogged
    BY DEF NewRow, Absent, Unlogged
  <2>2. QED
    BY <1>1, <1>3, <2>1, EventsGrow DEF CreateMessage, TableTypeOK
<1>4. ASSUME NEW o \in Operators, CreateEvent(o) PROVE EventLogged'
  BY <1>2, <1>4, Recorded, EventsGrow DEF CreateEvent
<1>5. ASSUME NEW o \in Operators, CancelWrite(o) PROVE EventLogged'
  <2> DEFINE m == ops[o].msg
  <2>1. m \in Messages /\ rows' = [rows EXCEPT ![m].status = "CANCELED"]
        /\ RecordEvent(m, "CANCELED")
    BY <1>2, <1>5 DEF CancelWrite
  <2>2. /\ rows'[m].status = "CANCELED"
        /\ \A n \in Messages \ {m} : rows'[n] = rows[n]
    BY <1>1, <1>2, <1>5, <2>1 DEF CancelWrite, TableTypeOK, Row
  <2>3. QED
    BY <2>1, <2>2, Recorded, EventsGrow
<1>6. ASSUME NEW o \in Operators, RetryWrite(o) PROVE EventLogged'
  <2> DEFINE m == ops[o].msg
  <2>1. m \in Messages /\ rows[m] \in Row /\ rows' = [rows EXCEPT ![m] = Retried(rows[m])]
    BY <1>2, <1>6 DEF RetryWrite
  <2>2. Retried(rows[m]).status = "QUEUED"
    BY <2>1 DEF Retried, Row
  <2>3. /\ rows'[m].status = "QUEUED"
        /\ \A n \in Messages \ {m} : rows'[n] = rows[n] /\ events'[n] = events[n]
    BY <1>1, <1>6, <2>1, <2>2 DEF RetryWrite, TableTypeOK
  <2>4. QED
    BY <2>1, <2>3 DEF EventLogged
<1>7. ASSUME NEW o \in Operators, ForceWrite(o) PROVE EventLogged'
  <2> DEFINE m == ops[o].msg
  <2>1. \A n \in Messages : rows'[n].status = rows[n].status
    BY <1>1, <1>2, <1>7 DEF ForceWrite, TableTypeOK, Row
  <2>2. QED
    BY <1>7, <2>1, EventsGrow DEF ForceWrite
<1>8. ASSUME NEW o \in Operators, BeginRequest(o) \/ AbandonRequest(o) PROVE EventLogged'
  BY <1>8 DEF BeginRequest, AbandonRequest, tableVars, EventLogged
<1>9. CASE ClearHistory
  <2>1. Absent("DELETED").status = "DELETED"
    BY DEF Absent
  <2>2. \A m \in Messages : \/ rows'[m].status = "DELETED"
                            \/ rows'[m] = rows[m] /\ events'[m] = events[m]
    BY <1>9, <2>1 DEF ClearHistory
  <2>3. QED
    BY <2>2 DEF EventLogged, MessageStatuses
<1>10. CASE UpdateSettings
  BY <1>10 DEF UpdateSettings, EventLogged
<1>11. QED
  BY <1>3, <1>4, <1>5, <1>6, <1>7, <1>8, <1>9, <1>10 DEF OpStep

\* The polls: DISPATCHING needs no event, and an answer only adds one.
LEMMA PollLogged ==
  ASSUME TypeOK, EventLogged, NEW p \in Pollers, NEW locked, PollStep(p, locked)
  PROVE  EventLogged'
<1>1. TableTypeOK /\ PollsTypeOK
  BY DEF TypeOK
<1>2. CASE Claim(p, locked)
  <2>1. PICK m \in Messages : rows' = [rows EXCEPT ![m] = Claimed(rows[m], nextToken)]
    BY <1>2 DEF Claim, Queued
  <2>2. Claimed(rows[m], nextToken).status \in Unlogged
    BY <1>1 DEF Claimed, TableTypeOK, Row, Unlogged
  <2>3. QED
    BY <1>1, <1>2, <2>1, <2>2, EventsGrow DEF Claim, TableTypeOK
<1>3. CASE Respond(p)
  <2>1. polls[p].msg \in Messages
    BY <1>1, <1>3 DEF Respond, PollsTypeOK
  <2>2. QED
    BY <1>3, <2>1, Recorded, EventsGrow DEF Respond
<1>4. CASE UNCHANGED tableVars
  BY <1>4 DEF tableVars, EventLogged
<1>5. QED
  BY <1>2, <1>3, <1>4 DEF PollStep, BeginTurn, PassGate, EndTurn, LoseLease

\* The sweeps: a requeue needs no event, an abandoned send gets one.
LEMMA SweepLogged ==
  ASSUME TypeOK, EventLogged, NEW s \in Sweepers, SweepStep(s)
  PROVE  EventLogged'
<1>1. TableTypeOK /\ SweepsTypeOK
  BY DEF TypeOK
<1>2. \A row \in Row : Reaped(row).status = "QUEUED" /\ Abandoned(row).status = "FAILED"
  BY DEF Reaped, Abandoned, Row
<1>3. CASE RequeueExpired(s)
  <2>1. \A m \in Messages : rows[m] \in Row /\ rows'[m] \in {rows[m], Reaped(rows[m])}
    BY <1>1, <1>3 DEF RequeueExpired, TableTypeOK
  <2>2. QED
    BY <1>2, <1>3, <2>1, EventsGrow DEF RequeueExpired, Unlogged
<1>4. CASE FailAbandoned(s)
  <2>1. PICK m \in sweeps[s].ids :
          rows' = [rows EXCEPT ![m] = Abandoned(rows[m])] /\ RecordEvent(m, "FAILED")
    BY <1>4 DEF FailAbandoned
  <2>2. m \in Messages /\ rows[m] \in Row
    BY <1>1, <2>1 DEF SweepsTypeOK, Sweep, TableTypeOK
  <2>3. QED
    BY <1>1, <1>2, <2>1, <2>2, Recorded, EventsGrow DEF TableTypeOK
<1>5. CASE UNCHANGED tableVars
  BY <1>5 DEF tableVars, EventLogged
<1>6. QED
  BY <1>3, <1>4, <1>5
     DEF SweepStep, SweepProgress, ReadExpired, ReadAbandoned, SkipAbandoned, AbortSweep

\* The timeline explains the row: every status a gateway, the reaper or an operator
\* gave a message has its event, through retries, clears and sweeps (recordEvent).
THEOREM EveryStatusLogged == Spec => []EventLogged
<1>1. Init => EventLogged
  BY DEF Init, TableInit, Absent, EventLogged, MessageStatuses
<1>2. TypeOK /\ EventLogged /\ [Next]_vars => EventLogged'
  <2> SUFFICES ASSUME TypeOK, EventLogged, [Next]_vars PROVE EventLogged'
    OBVIOUS
  <2>1. CASE TimePasses \/ UNCHANGED vars
    BY <2>1 DEF TimePasses, Tick, vars, tableVars, EventLogged
  <2>2. CASE Reporting
    BY <2>2, ReportLogged DEF Reporting
  <2>3. CASE Operating
    BY <2>3, OperatorLogged DEF Operating
  <2>4. CASE Polling
    BY <2>4, PollLogged DEF Polling
  <2>5. CASE Sweeping
    BY <2>5, SweepLogged DEF Sweeping
  <2>6. QED
    BY <2>1, <2>2, <2>3, <2>4, <2>5 DEF Next
<1>3. QED
  BY <1>1, <1>2, TypeCorrect, PTL DEF Spec

-----------------------------------------------------------------------------
(* No answered report is undone *)

\* Status s is at least as far as a report of status t, or has ended.
AsFar(s, t) ==
  \/ s \in {"FAILED", "CANCELED"}
  \/ s = "RECEIVED" /\ t = "FAILED"
  \/ t # "FAILED" /\ ProgressRank[s] >= ProgressRank[t]

\* What NoLostReport asks of the row of one answered report.
Reflects(row, a) ==
  row.token = a.token =>
    /\ AsFar(row.status, a.status)
    /\ a.status \in StampStatuses => a.status \in row.stamps

\* The history speaks of attempts that were issued, so never of the one a claim is
\* about to start.
AckedIssued == \A a \in acked : a.token < nextToken

AckedInv == CoherenceInv /\ AttemptsInv /\ AckedIssued /\ NoLostReport

\* What operators and sweeps may make of a row: it keeps its attempt and all that is
\* known of it, unless the attempt or the message ends.
Kept(row, new) ==
  \/ new.token = Null
  \/ /\ new.token = row.token /\ new.guid = row.guid /\ new.attempts = row.attempts
     /\ row.stamps \subseteq new.stamps
     /\ new.status \in {row.status, "FAILED", "CANCELED"}

LEMMA NoLostReportByRow == NoLostReport <=> \A a \in acked : Reflects(rows[a.msg], a)
  BY DEF NoLostReport, Reflects, AsFar

\* A status the guard refuses adds nothing, one it lets pass is as far as itself, and
\* what was as far stays so (canTransition).
LEMMA GuardAdvances ==
  ASSUME NEW from \in MessageStatuses, NEW to \in MessageStatuses
  PROVE  /\ ~CanTransition(from, to) => AsFar(from, to)
         /\ AsFar(to, to)
         /\ \A t \in MessageStatuses :
              CanTransition(from, to) /\ AsFar(from, t) => AsFar(to, t)
  BY DEF CanTransition, IsTerminal, TerminalStatuses, MessageStatuses, ProgressRank, AsFar

\* Rows that are kept reflect every report they reflected.
LEMMA KeptReflect ==
  ASSUME TypeOK, AckedIssued, NoLostReport, UNCHANGED <<nextToken, acked>>,
         \A m \in Messages : Kept(rows[m], rows'[m])
  PROVE  AckedIssued' /\ NoLostReport'
<1>1. \A a \in acked : a.msg \in Messages /\ a.token # Null
  BY NullAssumption DEF TypeOK, ReportsTypeOK, Acked
<1>2. \A a \in acked : Reflects(rows[a.msg], a)
  BY NoLostReportByRow
<1>3. \A a \in acked : Reflects(rows'[a.msg], a)
  BY <1>1, <1>2 DEF Kept, Reflects, AsFar
<1>4. QED
  BY <1>3 DEF AckedIssued, NoLostReport, Reflects, AsFar

\* Operators keep the rows (messages.ts, forceDispatch).
LEMMA OperatorKeepsRows ==
  ASSUME TypeOK, (\E o \in Operators : OpStep(o)) \/ ClearHistory \/ UpdateSettings
  PROVE  \A m \in Messages : Kept(rows[m], rows'[m])
<1>1. TableTypeOK /\ OpsTypeOK
  BY DEF TypeOK
<1>2. \A m \in Messages : Kept(rows[m], rows[m])
  BY DEF Kept
<1>3. ASSUME NEW m \in Messages, NEW x, rows' = [rows EXCEPT ![m] = x], Kept(rows[m], x)
      PROVE  \A n \in Messages : Kept(rows[n], rows'[n])
  BY <1>1, <1>2, <1>3 DEF TableTypeOK
<1>4. ASSUME NEW o \in Operators, NEW k, Pending(o, k)
      PROVE  ops[o].msg \in Messages /\ rows[ops[o].msg] \in Row
  BY <1>1, <1>4 DEF Pending, OpsTypeOK, TableTypeOK
<1>5. ASSUME NEW o \in Operators, CreateMessage(o)
      PROVE  \A n \in Messages : Kept(rows[n], rows'[n])
  <2>1. NewRow(nextSeq).token = Null
    BY DEF NewRow, Absent
  <2>2. QED
    BY <1>3, <1>5, <2>1 DEF CreateMessage, Kept
<1>6. ASSUME NEW o \in Operators, CancelWrite(o)
      PROVE  \A n \in Messages : Kept(rows[n], rows'[n])
  <2> DEFINE x == rows[ops[o].msg]
  <2>1. rows' = [rows EXCEPT ![ops[o].msg] = [x EXCEPT !.status = "CANCELED"]]
    BY <1>1, <1>6 DEF CancelWrite, TableTypeOK
  <2>2. ops[o].msg \in Messages /\ x \in Row
    BY <1>4, <1>6 DEF CancelWrite
  <2>3. Kept(x, [x EXCEPT !.status = "CANCELED"])
    BY <2>2 DEF Kept, Row
  <2>4. QED
    BY <1>3, <2>1, <2>2, <2>3
<1>7. ASSUME NEW o \in Operators, RetryWrite(o)
      PROVE  \A n \in Messages : Kept(rows[n], rows'[n])
  <2>1. Retried(rows[ops[o].msg]).token = Null
    BY <1>4, <1>7 DEF RetryWrite, Retried, Row
  <2>2. QED
    BY <1>3, <1>4, <1>7, <2>1 DEF RetryWrite, Kept
<1>8. ASSUME NEW o \in Operators, ForceWrite(o)
      PROVE  \A n \in Messages : Kept(rows[n], rows'[n])
  <2> DEFINE x == rows[ops[o].msg]
  <2>1. rows' = [rows EXCEPT ![ops[o].msg] = [x EXCEPT !.force = TRUE]]
    BY <1>1, <1>8 DEF ForceWrite, TableTypeOK
  <2>2. ops[o].msg \in Messages /\ x \in Row
    BY <1>4, <1>8 DEF ForceWrite
  <2>3. Kept(x, [x EXCEPT !.force = TRUE])
    BY <2>2 DEF Kept, Row
  <2>4. QED
    BY <1>3, <2>1, <2>2, <2>3
<1>9. CASE ClearHistory
  <2>1. Absent("DELETED").token = Null
    BY DEF Absent
  <2>2. QED
    BY <1>2, <1>9, <2>1 DEF ClearHistory, Kept
<1>10. CASE UNCHANGED rows
  BY <1>2, <1>10
<1>11. QED
  BY <1>5, <1>6, <1>7, <1>8, <1>9, <1>10
     DEF OpStep, CreateEvent, BeginRequest, AbandonRequest, UpdateSettings, tableVars

\* Sweeps keep the rows (reapExpiredLeases, failAbandonedSends).
LEMMA SweepKeepsRows ==
  ASSUME TypeOK, NEW s \in Sweepers, SweepStep(s)
  PROVE  \A m \in Messages : Kept(rows[m], rows'[m])
<1>1. TableTypeOK /\ SweepsTypeOK
  BY DEF TypeOK
<1>2. \A row \in Row : Kept(row, row) /\ Kept(row, Reaped(row)) /\ Kept(row, Abandoned(row))
  BY DEF Kept, Reaped, Abandoned, Row
<1>3. \A m \in Messages : rows[m] \in Row
  BY <1>1 DEF TableTypeOK
<1>4. CASE RequeueExpired(s)
  <2>1. \A m \in Messages : rows'[m] \in {rows[m], Reaped(rows[m])}
    BY <1>4 DEF RequeueExpired
  <2>2. QED
    BY <1>2, <1>3, <2>1
<1>5. CASE FailAbandoned(s)
  <2>1. PICK m \in sweeps[s].ids : rows' = [rows EXCEPT ![m] = Abandoned(rows[m])]
    BY <1>5 DEF FailAbandoned
  <2>2. \A n \in Messages : rows'[n] \in {rows[n], Abandoned(rows[n])}
    BY <1>1, <2>1 DEF TableTypeOK
  <2>3. QED
    BY <1>2, <1>3, <2>2
<1>6. CASE UNCHANGED rows
  BY <1>2, <1>3, <1>6
<1>7. QED
  BY <1>4, <1>5, <1>6
     DEF SweepStep, SweepProgress, ReadExpired, ReadAbandoned, SkipAbandoned, AbortSweep, tableVars

\* A claim takes a row for an attempt of which nothing has been answered; the other
\* steps of a poll write no row (claimNextMessage).
LEMMA PollAcked ==
  ASSUME AckedInv, NEW p \in Pollers, NEW locked, PollStep(p, locked), UNCHANGED acked
  PROVE  AckedIssued' /\ NoLostReport'
<1>1. TypeOK /\ TableTypeOK /\ AckedIssued /\ NoLostReport
  BY DEF AckedInv, CoherenceInv, TypeOK
<1>2. CASE Claim(p, locked)
  <2>1. PICK m \in Messages : rows' = [rows EXCEPT ![m] = Claimed(rows[m], nextToken)]
    BY <1>2 DEF Claim, Queued
  <2>2. /\ rows'[m].token = nextToken
        /\ \A n \in Messages \ {m} : rows'[n] = rows[n]
    BY <1>1, <2>1 DEF Claimed, TableTypeOK, Row
  <2>3. \A a \in acked : a.msg \in Messages /\ a.token \in Nat /\ a.token < nextToken
    BY <1>1 DEF TypeOK, ReportsTypeOK, Acked, AckedIssued
  <2>4. nextToken \in Nat /\ nextToken' = nextToken + 1
    BY <1>1, <1>2 DEF Claim, TableTypeOK
  <2>5. AckedIssued'
    BY <2>3, <2>4 DEF AckedIssued
  <2>6. \A a \in acked : Reflects(rows'[a.msg], a)
    <3> SUFFICES ASSUME NEW a \in acked PROVE Reflects(rows'[a.msg], a)
      OBVIOUS
    <3>1. CASE a.msg = m
      <4>1. rows'[a.msg].token # a.token
        BY <2>2, <2>3, <2>4, <3>1
      <4>2. QED
        BY <4>1 DEF Reflects
    <3>2. CASE a.msg # m
      BY <1>1, <2>2, <2>3, <3>2, NoLostReportByRow
    <3>3. QED
      BY <3>1, <3>2
  <2>7. QED
    BY <2>5, <2>6 DEF NoLostReport, Reflects, AsFar
<1>3. CASE UNCHANGED <<rows, nextToken>>
  BY <1>1, <1>3 DEF AckedIssued, NoLostReport
<1>4. QED
  BY <1>2, <1>3 DEF PollStep, BeginTurn, PassGate, EndTurn, Respond, LoseLease, tableVars

\* An answer enters the history with a row that reflects it, and the reports before
\* it keep theirs.
LEMMA Answered ==
  ASSUME AckedInv, NEW x \in Report, Acknowledge(x), UNCHANGED nextToken,
         rows[x.msg].token = x.token,
         Reflects(rows'[x.msg], x),
         \A a \in acked : Reflects(rows[a.msg], a) => Reflects(rows'[a.msg], a)
  PROVE  AckedIssued' /\ NoLostReport'
<1> DEFINE new == [msg |-> x.msg, token |-> x.token, status |-> x.status]
<1>1. TypeOK /\ TokensIssued /\ AckedIssued /\ NoLostReport
  BY DEF AckedInv, CoherenceInv, AttemptsInv
<1>2. \A a \in acked' : a \in acked \/ a = new
  BY DEF Acknowledge
<1>3. x.token < nextToken
  BY <1>1, NullAssumption DEF TokensIssued, Report
<1>4. Reflects(rows'[new.msg], new)
  BY DEF Reflects
<1>5. \A a \in acked' : a.token < nextToken /\ Reflects(rows'[a.msg], a)
  BY <1>1, <1>2, <1>3, <1>4, NoLostReportByRow DEF AckedIssued
<1>6. QED
  BY <1>5 DEF AckedIssued, NoLostReport, Reflects, AsFar

\* The timestamp columns a report leaves (applyOnce).
LEMMA ReportedStamps ==
  ASSUME NEW row \in Row, NEW r \in Report
  PROVE  /\ WithFacts(row, r).stamps = row.stamps \cup ({r.status} \cap StampStatuses)
         /\ Advanced(row, r).stamps = row.stamps \cup ({r.status} \cap StampStatuses)
<1>1. WithFacts(row, r).stamps = row.stamps \cup ({r.status} \cap StampStatuses)
  BY DEF WithFacts, Row
<1>2. WithFacts(row, r) \in Row
  BY ReportedTyped
<1>3. QED
  BY <1>1, <1>2 DEF Advanced, Row

\* The reports: the guard is asked of the row the compare-and-set finds, so an answer
\* finds or leaves a row that reflects it, and takes back no other (applyOnce).
LEMMA ReportAcked ==
  ASSUME AckedInv, NEW h \in Reporters, ReportStep(h)
  PROVE  AckedIssued' /\ NoLostReport'
<1> DEFINE r == reports[h]
           row == rows[r.msg]
<1>1. /\ TypeOK /\ TableTypeOK /\ ReportsTypeOK /\ HandlersCurrent
      /\ AckedIssued /\ NoLostReport
  BY DEF AckedInv, CoherenceInv, TypeOK
<1>2. ASSUME UNCHANGED <<rows, nextToken, acked>> PROVE AckedIssued' /\ NoLostReport'
  BY <1>1, <1>2 DEF AckedIssued, NoLostReport
<1>3. \A a \in acked : a.msg \in Messages /\ a.token \in Nat /\ a.status \in MessageStatuses
  BY <1>1 DEF ReportsTypeOK, Acked
<1>4. ASSUME NEW new, rows' = [rows EXCEPT ![r.msg] = new], r.msg \in Messages,
             \A a \in acked : Reflects(row, a) => Reflects(new, a)
      PROVE  \A a \in acked : Reflects(rows[a.msg], a) => Reflects(rows'[a.msg], a)
  BY <1>1, <1>3, <1>4 DEF TableTypeOK
<1>5. ASSUME r.pc = "cas", Matches(r)
      PROVE  /\ r \in Report /\ r.msg \in Messages /\ r.status \in MessageStatuses
             /\ row \in Row /\ row.token = r.token
             /\ row.status = r.seen.status /\ row.status \in MessageStatuses
  <2>1. r \in Report /\ r.seen \in Seen
    BY <1>1, <1>5, BusyTyped DEF Report
  <2>2. r.msg \in Messages /\ r.status \in MessageStatuses /\ row \in Row
    BY <1>1, <2>1 DEF Report, TableTypeOK
  <2>3. row.token = r.token
    BY <1>1, <1>5 DEF Matches, HandlersCurrent
  <2>4. row.status = r.seen.status /\ r.seen.status \in MessageStatuses
    BY <1>5, <2>1 DEF Matches, Seen
  <2>5. QED
    BY <2>1, <2>2, <2>3, <2>4
<1>6. CASE IgnoreReplay(h)
  <2>1. PICK x \in Incoming(h) :
          /\ Exists(x.msg) /\ TokenMatches(x)
          /\ ~CanTransition(rows[x.msg].status, x.status) /\ ~HasFacts(x, SeenOf(x.msg))
          /\ Acknowledge(x)
    BY <1>6 DEF IgnoreReplay
  <2>2. x \in Report /\ x.status \in MessageStatuses
    BY <1>1, IncomingTyped DEF Report
  <2>3. UNCHANGED <<rows, nextToken>>
    BY <1>6 DEF IgnoreReplay, tableVars
  <2>4. AsFar(rows[x.msg].status, x.status)
    BY <2>1, <2>2, GuardAdvances DEF Exists
  <2>5. x.status \in StampStatuses => x.status \in rows[x.msg].stamps
    BY <2>1 DEF HasFacts, SeenOf
  <2>6. Reflects(rows'[x.msg], x)
    BY <2>3, <2>4, <2>5 DEF Reflects
  <2>7. \A a \in acked : Reflects(rows[a.msg], a) => Reflects(rows'[a.msg], a)
    BY <2>3
  <2>8. rows[x.msg].token = x.token
    BY <2>1 DEF TokenMatches
  <2>9. QED
    BY <2>1, <2>2, <2>3, <2>6, <2>7, <2>8, Answered
<1>7. CASE PersistFacts(h)
  <2> DEFINE new == WithFacts(row, r)
  <2>1. /\ r.pc = "cas" /\ Matches(r) /\ ~Advances(r)
        /\ rows' = [rows EXCEPT ![r.msg] = new]
        /\ Acknowledge(r) /\ UNCHANGED nextToken
    BY <1>7 DEF PersistFacts
  <2>2. /\ new.status = row.status /\ new.token = row.token
        /\ new.stamps = row.stamps \cup ({r.status} \cap StampStatuses)
    BY <1>5, <2>1, ReportedColumns, ReportedStamps
  <2>3. AsFar(row.status, r.status)
    BY <1>5, <2>1, GuardAdvances DEF Advances
  <2>4. Reflects(new, r)
    BY <2>2, <2>3 DEF Reflects
  <2>5. \A a \in acked : Reflects(row, a) => Reflects(new, a)
    BY <2>2 DEF Reflects
  <2>6. rows'[r.msg] = new
    BY <1>1, <1>5, <2>1 DEF TableTypeOK
  <2> HIDE DEF new
  <2>7. \A a \in acked : Reflects(rows[a.msg], a) => Reflects(rows'[a.msg], a)
    BY <1>4, <1>5, <2>1, <2>5
  <2>8. QED
    BY <1>5, <2>1, <2>4, <2>6, <2>7, Answered
<1>8. CASE RequeueFailure(h)
  <2> DEFINE new == Requeued(row)
  <2>1. /\ r.pc = "cas" /\ Matches(r)
        /\ rows' = [rows EXCEPT ![r.msg] = new]
        /\ Acknowledge(r) /\ UNCHANGED nextToken
    BY <1>8 DEF RequeueFailure
  <2>2. new.token = Null
    BY <1>5, <2>1 DEF Requeued, Row
  <2>3. r.token # Null /\ \A a \in acked : a.token # Null
    BY <1>3, <1>5, <2>1, NullAssumption DEF Report
  <2>4. Reflects(new, r) /\ \A a \in acked : Reflects(new, a)
    BY <2>2, <2>3 DEF Reflects
  <2>5. rows'[r.msg] = new
    BY <1>1, <1>5, <2>1 DEF TableTypeOK
  <2> HIDE DEF new
  <2>6. \A a \in acked : Reflects(rows[a.msg], a) => Reflects(rows'[a.msg], a)
    BY <1>4, <1>5, <2>1, <2>4
  <2>7. QED
    BY <1>5, <2>1, <2>4, <2>5, <2>6, Answered
<1>9. CASE ApplyReport(h)
  <2> DEFINE new == Advanced(row, r)
  <2>1. /\ r.pc = "cas" /\ Matches(r) /\ Advances(r)
        /\ rows' = [rows EXCEPT ![r.msg] = new]
        /\ Acknowledge(r) /\ UNCHANGED nextToken
    BY <1>9 DEF ApplyReport
  <2>2. /\ new.status = r.status /\ new.token = row.token
        /\ new.stamps = row.stamps \cup ({r.status} \cap StampStatuses)
    BY <1>5, <2>1, ReportedColumns, ReportedStamps
  <2>3. CanTransition(row.status, r.status)
    BY <1>5, <2>1 DEF Advances
  <2>4. AsFar(r.status, r.status)
        /\ \A a \in acked : AsFar(row.status, a.status) => AsFar(r.status, a.status)
    BY <1>3, <1>5, <2>1, <2>3, GuardAdvances
  <2>5. Reflects(new, r)
    BY <2>2, <2>4 DEF Reflects
  <2>6. \A a \in acked : Reflects(row, a) => Reflects(new, a)
    BY <2>2, <2>4 DEF Reflects
  <2>7. rows'[r.msg] = new
    BY <1>1, <1>5, <2>1 DEF TableTypeOK
  <2> HIDE DEF new
  <2>8. \A a \in acked : Reflects(rows[a.msg], a) => Reflects(rows'[a.msg], a)
    BY <1>4, <1>5, <2>1, <2>6
  <2>9. QED
    BY <1>5, <2>1, <2>5, <2>7, <2>8, Answered
<1>10. CASE IgnoreStale(h) \/ ReadRow(h) \/ ReadBudget(h) \/ RetryReport(h) \/ LoseReport(h)
  BY <1>2, <1>10 DEF IgnoreStale, ReadRow, ReadBudget, RetryReport, LoseReport, tableVars
<1>11. QED
  BY <1>6, <1>7, <1>8, <1>9, <1>10 DEF ReportStep

\* The invariant holds at the start, and every step keeps it.
LEMMA InitAcked == Init => AckedInv
<1>1. Init => AckedIssued /\ NoLostReport
  BY DEF Init, ReportsInit, AckedIssued, NoLostReport
<1>2. QED
  BY <1>1, InitCoherent, InitDistinct DEF AckedInv

LEMMA StepAcked == AckedInv /\ [Next]_vars => AckedInv'
<1> SUFFICES ASSUME AckedInv, [Next]_vars PROVE AckedIssued' /\ NoLostReport'
  BY StepCoherent, StepDistinct DEF AckedInv
<1>1. TypeOK /\ AckedIssued /\ NoLostReport
  BY DEF AckedInv, CoherenceInv
<1>2. CASE TimePasses \/ UNCHANGED vars
  BY <1>1, <1>2 DEF TimePasses, Tick, vars, tableVars, reportVars, AckedIssued, NoLostReport
<1>3. CASE Reporting
  BY <1>3, ReportAcked DEF Reporting
<1>4. CASE Operating
  BY <1>1, <1>4, KeptReflect, OperatorKeepsRows, OperatorKeepsTokens
     DEF Operating, reportVars, TokensKept
<1>5. CASE Polling
  BY <1>5, PollAcked DEF Polling, reportVars
<1>6. CASE Sweeping
  BY <1>1, <1>6, KeptReflect, SweepKeepsRows, SweepKeepsTokens
     DEF Sweeping, reportVars, TokensKept
<1>7. QED
  BY <1>2, <1>3, <1>4, <1>5, <1>6 DEF Next

\* No answered report of the current attempt is ever undone by a racing one, a
\* sweep, an operator or a claim (applyStatusReport: "of two racing reports one wins
\* and the other re-reads").
THEOREM AnswersKept == Spec => []NoLostReport
<1>1. AckedInv => NoLostReport
  BY DEF AckedInv
<1>2. QED
  BY <1>1, InitAcked, StepAcked, PTL DEF Spec

-----------------------------------------------------------------------------
(* A late write has the effect the report would have had alone *)

\* A poll's answer that was not given yet, and all the leases that were claimed,
\* whether or not they were handed out.
Reply(p) == [msg |-> polls[p].msg, token |-> polls[p].token, guid |-> polls[p].guid]

ClaimedLeases == granted \cup {Reply(p) : p \in {q \in Pollers : Responding(q)}}

\* Every handler in flight serves a report that its lease allows.
HandlersLeased ==
  \A h \in Reporters :
    reports[h].pc # "idle" =>
      \E l \in granted : /\ l.msg = reports[h].msg /\ l.token = reports[h].token
                         /\ reports[h].guid \in GuidsOf(l, reports[h].status)

\* The GUIDs a row can have during the attempt of a lease: the one the lease came
\* with, or, if it came with none, the attempt's own or none yet.
Fits(l, guid) == guid \in IF l.guid = Null THEN {Null, l.token} ELSE {l.guid}

AttemptGuids ==
  \A l \in ClaimedLeases : rows[l.msg].token = l.token => Fits(l, rows[l.msg].guid)

\* What a handler remembers of its attempt besides the status, which the
\* compare-and-set checks, still holds of the row if the attempt is still current.
MemoryHolds ==
  \A h \in Reporters :
    LET r   == reports[h]
        row == rows[r.msg] IN
    r.pc \in {"budget", "cas"} /\ row.token = r.token =>
      /\ row.attempts = r.seen.attempts
      /\ r.seen.guid # Null => row.guid = r.seen.guid

LinearInv == CoherenceInv /\ AttemptsInv /\ HandlersLeased /\ AttemptGuids /\ MemoryHolds

\* A claimed lease is a lease.
LEMMA ClaimedLeasesTyped ==
  ASSUME TypeOK
  PROVE  \A l \in ClaimedLeases : l.msg \in Messages /\ l.token \in Nat /\ l.token # Null
  BY NullAssumption
     DEF TypeOK, TableTypeOK, PollsTypeOK, Lease, ClaimedLeases, Reply, Responding

\* Nothing of this is disturbed by operators and sweeps.
LEMMA KeptLinear ==
  ASSUME LinearInv, UNCHANGED <<granted, polls, reports>>,
         \A m \in Messages : Kept(rows[m], rows'[m])
  PROVE  HandlersLeased' /\ AttemptGuids' /\ MemoryHolds'
<1>1. /\ TypeOK /\ ReportsTypeOK /\ HandlersLeased /\ AttemptGuids /\ MemoryHolds
  BY DEF LinearInv, CoherenceInv, TypeOK
<1>2. HandlersLeased'
  BY <1>1 DEF HandlersLeased
<1>3. ClaimedLeases' = ClaimedLeases
  BY DEF ClaimedLeases, Reply, Responding
<1>4. AttemptGuids'
  BY <1>1, <1>3, ClaimedLeasesTyped DEF AttemptGuids, Kept, Fits
<1>5. \A h \in Reporters : reports[h].pc # "idle" =>
        reports[h].msg \in Messages /\ reports[h].token # Null
  BY <1>1, BusyTyped, NullAssumption DEF Report
<1>6. MemoryHolds'
  BY <1>1, <1>5 DEF MemoryHolds, Kept
<1>7. QED
  BY <1>2, <1>4, <1>6

\* A claim starts an attempt no handler serves, with the GUID its row has, and an
\* answer only hands a claimed lease over (claimNextMessage, the lease route).
LEMMA PollLinear ==
  ASSUME LinearInv, NEW p \in Pollers, NEW locked, PollStep(p, locked), UNCHANGED reports
  PROVE  HandlersLeased' /\ AttemptGuids' /\ MemoryHolds'
<1>1. /\ TypeOK /\ TableTypeOK /\ PollsTypeOK /\ ReportsTypeOK /\ TokensIssued
      /\ HandlersLeased /\ AttemptGuids /\ MemoryHolds
  BY DEF LinearInv, CoherenceInv, AttemptsInv, TypeOK
<1>2. \A q \in Pollers \ {p} : polls'[q] = polls[q]
  BY <1>1 DEF PollStep, BeginTurn, PassGate, EndTurn, Claim, Respond, LoseLease, PollsTypeOK
<1>3. CASE Claim(p, locked)
  <2>1. PICK m \in Messages :
          /\ rows' = [rows EXCEPT ![m] = Claimed(rows[m], nextToken)]
          /\ polls' = [polls EXCEPT ![p].pc = "respond", ![p].msg = m, ![p].token = nextToken,
                                    ![p].guid = rows[m].guid]
    BY <1>3 DEF Claim, Queued
  <2>2. /\ rows'[m].token = nextToken /\ rows'[m].guid = rows[m].guid
        /\ \A n \in Messages \ {m} : rows'[n] = rows[n]
    BY <1>1, <2>1 DEF Claimed, TableTypeOK, Row
  <2>3. polls'[p].msg = m /\ polls'[p].token = nextToken /\ polls'[p].guid = rows[m].guid
    BY <1>1, <2>1 DEF PollsTypeOK, Poll
  <2>4. Reply(p)' = [msg |-> m, token |-> nextToken, guid |-> rows[m].guid]
    BY <2>3 DEF Reply
  <2>5. granted' = granted /\ nextToken \in Nat
    BY <1>1, <1>3 DEF Claim, TableTypeOK
  <2>6. \A l \in ClaimedLeases' : l \in ClaimedLeases \/ l = Reply(p)'
    BY <1>2, <2>5 DEF ClaimedLeases, Reply, Responding
  <2>7. \A l \in ClaimedLeases : l.msg \in Messages /\ l.token \in Nat /\ l.token < nextToken
    BY <1>1, ClaimedLeasesTyped DEF TokensIssued, ClaimedLeases, Reply
  <2>8. AttemptGuids'
    <3> SUFFICES ASSUME NEW l \in ClaimedLeases', rows'[l.msg].token = l.token
                 PROVE  Fits(l, rows'[l.msg].guid)
      BY DEF AttemptGuids, Fits
    <3>1. CASE l = Reply(p)'
      BY <2>2, <2>4, <3>1 DEF Fits
    <3>2. CASE l \in ClaimedLeases
      <4>1. l.msg \in Messages /\ l.token # nextToken
        BY <2>5, <2>7, <3>2
      <4>2. l.msg # m
        BY <2>2, <4>1
      <4>3. QED
        BY <1>1, <2>2, <3>2, <4>1, <4>2 DEF AttemptGuids
    <3>3. QED
      BY <2>6, <3>1, <3>2
  <2>9. \A h \in Reporters : reports[h].pc # "idle" =>
          reports[h].msg \in Messages /\ reports[h].token # nextToken
    <3> SUFFICES ASSUME NEW h \in Reporters, reports[h].pc # "idle"
                 PROVE  reports[h].msg \in Messages /\ reports[h].token # nextToken
      OBVIOUS
    <3>1. PICK l \in granted : l.msg = reports[h].msg /\ l.token = reports[h].token
      BY <1>1 DEF HandlersLeased
    <3>2. QED
      BY <2>5, <2>7, <3>1 DEF ClaimedLeases
  <2>10. MemoryHolds'
    BY <1>1, <2>2, <2>9 DEF MemoryHolds
  <2>11. HandlersLeased'
    BY <1>1, <2>5 DEF HandlersLeased
  <2>12. QED
    BY <2>8, <2>10, <2>11
<1>4. CASE Respond(p)
  <2>1. granted' = granted \cup {Reply(p)} /\ UNCHANGED rows /\ Responding(p)
    BY <1>4 DEF Respond, Reply, Responding
  <2>2. ~Responding(p)'
    BY <1>1, <1>4 DEF Respond, Responding, PollsTypeOK, NoPoll
  <2>3. \A l \in ClaimedLeases' : l \in ClaimedLeases
    BY <1>2, <2>1, <2>2 DEF ClaimedLeases, Reply, Responding
  <2>4. AttemptGuids' /\ HandlersLeased' /\ MemoryHolds'
    BY <1>1, <2>1, <2>3 DEF AttemptGuids, Fits, HandlersLeased, MemoryHolds
  <2>5. QED
    BY <2>4
<1>5. CASE BeginTurn(p) \/ PassGate(p) \/ EndTurn(p) \/ LoseLease(p)
  <2>1. UNCHANGED <<rows, granted>>
    BY <1>5 DEF BeginTurn, PassGate, EndTurn, LoseLease, tableVars
  <2>2. ~Responding(p)'
    <3>1. CASE BeginTurn(p)
      BY <1>1, <3>1 DEF BeginTurn, Responding, PollsTypeOK, NoPoll
    <3>2. CASE PassGate(p)
      <4>1. polls[p] \in Poll
        BY <1>1 DEF PollsTypeOK
      <4>2. polls'[p].pc = "claim"
        BY <1>1, <3>2, <4>1 DEF PassGate, PollsTypeOK, Poll
      <4>3. QED
        BY <4>2 DEF Responding
    <3>3. CASE EndTurn(p) \/ LoseLease(p)
      BY <1>1, <3>3 DEF EndTurn, LoseLease, Responding, PollsTypeOK, NoPoll
    <3>4. QED
      BY <1>5, <3>1, <3>2, <3>3
  <2>3. \A l \in ClaimedLeases' : l \in ClaimedLeases
    BY <1>2, <2>1, <2>2 DEF ClaimedLeases, Reply, Responding
  <2>4. QED
    BY <1>1, <2>1, <2>3 DEF AttemptGuids, Fits, HandlersLeased, MemoryHolds
<1>6. QED
  BY <1>3, <1>4, <1>5 DEF PollStep

\* The first GUID of an attempt stays: what a report makes of the GUID column.
FirstGuid(row, r) == IF r.guid # Null /\ row.guid = Null THEN r.guid ELSE row.guid

\* What the handler of a report finds when its compare-and-set matches: the row of
\* its attempt, with the attempts and at least the GUID it remembers.  So the GUID it
\* writes is the one it would write if it read the row now, and suits the lease.
LEMMA MatchFinds ==
  ASSUME LinearInv, NEW h \in Reporters, reports[h].pc = "cas", Matches(reports[h])
  PROVE  LET r   == reports[h]
             row == rows[r.msg]
         IN  /\ r \in Report /\ r.msg \in Messages /\ row \in Row
             /\ row.token = r.token /\ row.token # Null
             /\ row.status = r.seen.status /\ row.attempts = r.seen.attempts
             /\ (IF r.guid # Null /\ r.seen.guid = Null THEN r.guid ELSE row.guid)
                  = FirstGuid(row, r)
             /\ \A k \in ClaimedLeases :
                  k.msg = r.msg /\ k.token = r.token => Fits(k, FirstGuid(row, r))
<1> DEFINE r == reports[h]
           row == rows[r.msg]
<1>1. /\ TypeOK /\ TableTypeOK /\ ReportsTypeOK /\ HandlersCurrent
      /\ TokensIssued /\ AttemptsDistinct /\ HandlersLeased /\ AttemptGuids /\ MemoryHolds
  BY DEF LinearInv, CoherenceInv, AttemptsInv, TypeOK
<1>2. r \in Report /\ r.msg \in Messages /\ r.token \in Nat
  BY <1>1, BusyTyped DEF Report
<1>3. row \in Row
  BY <1>1, <1>2 DEF TableTypeOK
<1>4. row.token = r.token /\ row.status = r.seen.status
  BY <1>1 DEF HandlersCurrent, Matches
<1>5. /\ row.attempts = r.seen.attempts
      /\ r.seen.guid # Null => row.guid = r.seen.guid
  BY <1>1, <1>4 DEF MemoryHolds
<1>6. PICK l \in granted : l.msg = r.msg /\ l.token = r.token /\ r.guid \in GuidsOf(l, r.status)
  BY <1>1 DEF HandlersLeased
<1>7. Fits(l, row.guid)
  BY <1>1, <1>4, <1>6 DEF AttemptGuids, ClaimedLeases
<1>8. r.guid # Null => r.guid = IF l.guid = Null THEN l.token ELSE l.guid
  BY <1>6 DEF GuidsOf
<1>9. (IF r.guid # Null /\ r.seen.guid = Null THEN r.guid ELSE row.guid) = FirstGuid(row, r)
  BY <1>5, <1>7, <1>8 DEF Fits, FirstGuid
<1>10. Fits(l, FirstGuid(row, r))
  BY <1>7, <1>8 DEF Fits, FirstGuid
<1>11. \A k \in ClaimedLeases : k.token = l.token => k = l
  BY <1>1, <1>6 DEF ClaimedLeases, Reply, Responding, TokensIssued, AttemptsDistinct
<1>12. row.token # Null
  BY <1>2, <1>4, NullAssumption
<1>13. QED
  BY <1>2, <1>3, <1>4, <1>5, <1>6, <1>9, <1>10, <1>11, <1>12

\* A write of the row of its message that keeps the attempt, or ends it, leaves the
\* memory of the other handlers right.
LEMMA WriteLinear ==
  ASSUME LinearInv, NEW h \in Reporters, reports[h].pc = "cas", Matches(reports[h]),
         Finish(h), UNCHANGED <<granted, polls>>,
         NEW new, rows' = [rows EXCEPT ![reports[h].msg] = new],
         \/ new.token = Null
         \/ /\ new.token = rows[reports[h].msg].token
            /\ new.attempts = rows[reports[h].msg].attempts
            /\ new.guid = FirstGuid(rows[reports[h].msg], reports[h])
  PROVE  HandlersLeased' /\ AttemptGuids' /\ MemoryHolds'
<1> DEFINE r == reports[h]
           row == rows[r.msg]
<1>1. /\ TypeOK /\ TableTypeOK /\ ReportsTypeOK
      /\ HandlersLeased /\ AttemptGuids /\ MemoryHolds
  BY DEF LinearInv, CoherenceInv, TypeOK
<1>2. /\ reports'[h].pc = "idle"
      /\ \A g \in Reporters \ {h} : reports'[g] = reports[g]
  BY <1>1 DEF Finish, ReportsTypeOK, NoReport
<1>3. r.msg \in Messages /\ row.token = r.token
      /\ \A k \in ClaimedLeases :
           k.msg = r.msg /\ k.token = r.token => Fits(k, FirstGuid(row, r))
  BY MatchFinds
<1>4. /\ rows'[r.msg] = new
      /\ \A m \in Messages \ {r.msg} : rows'[m] = rows[m]
  BY <1>1, <1>3 DEF TableTypeOK
<1>5. HandlersLeased'
  BY <1>1, <1>2 DEF HandlersLeased
<1>6. ClaimedLeases' = ClaimedLeases
  BY DEF ClaimedLeases, Reply, Responding
<1>7. AttemptGuids'
  <2> SUFFICES ASSUME NEW l \in ClaimedLeases, rows'[l.msg].token = l.token
               PROVE  Fits(l, rows'[l.msg].guid)
    BY <1>6 DEF AttemptGuids, Fits
  <2>1. l.msg \in Messages /\ l.token # Null
    BY <1>1, ClaimedLeasesTyped
  <2>2. CASE l.msg = r.msg
    BY <1>3, <1>4, <2>1, <2>2
  <2>3. CASE l.msg # r.msg
    BY <1>1, <1>4, <2>1, <2>3 DEF AttemptGuids
  <2>4. QED
    BY <2>2, <2>3
<1>8. MemoryHolds'
  <2> SUFFICES ASSUME NEW g \in Reporters \ {h}, reports[g].pc \in {"budget", "cas"},
                      rows'[reports[g].msg].token = reports[g].token
               PROVE  /\ rows'[reports[g].msg].attempts = reports[g].seen.attempts
                      /\ reports[g].seen.guid # Null
                           => rows'[reports[g].msg].guid = reports[g].seen.guid
    BY <1>2 DEF MemoryHolds
  <2>1. reports[g].msg \in Messages /\ reports[g].token # Null
    BY <1>1, BusyTyped, NullAssumption DEF Report
  <2>2. CASE reports[g].msg = r.msg
    <3>1. /\ new.token = row.token /\ new.attempts = row.attempts
          /\ new.guid = FirstGuid(row, r)
      BY <1>4, <2>1, <2>2
    <3>2. /\ row.attempts = reports[g].seen.attempts
          /\ reports[g].seen.guid # Null => row.guid = reports[g].seen.guid
      BY <1>1, <1>4, <2>2, <3>1 DEF MemoryHolds
    <3>3. QED
      BY <1>4, <2>2, <3>1, <3>2 DEF FirstGuid
  <2>3. CASE reports[g].msg # r.msg
    BY <1>1, <1>4, <2>1, <2>3 DEF MemoryHolds
  <2>4. QED
    BY <2>2, <2>3
<1>9. QED
  BY <1>5, <1>7, <1>8

\* The other columns a report leaves (applyOnce).
LEMMA ReportedAttempt ==
  ASSUME NEW row \in Row, NEW r \in Report
  PROVE  LET guid == IF r.guid # Null /\ r.seen.guid = Null THEN r.guid ELSE row.guid
         IN  /\ WithFacts(row, r).guid = guid /\ WithFacts(row, r).attempts = row.attempts
             /\ Advanced(row, r).guid = guid /\ Advanced(row, r).attempts = row.attempts
<1> DEFINE guid == IF r.guid # Null /\ r.seen.guid = Null THEN r.guid ELSE row.guid
<1>1. WithFacts(row, r).guid = guid /\ WithFacts(row, r).attempts = row.attempts
  BY DEF WithFacts, Row
<1>2. WithFacts(row, r) \in Row
  BY ReportedTyped
<1>3. Advanced(row, r).guid = guid /\ Advanced(row, r).attempts = row.attempts
  BY <1>1, <1>2 DEF Advanced, Row
<1>4. QED
  BY <1>1, <1>3

\* The lease and the memory of a handler: it takes on a report its lease allows,
\* remembers the row as it is, and forgets both when it is done (applyOnce).
LEMMA ReportLinear ==
  ASSUME LinearInv, NEW h \in Reporters, ReportStep(h), UNCHANGED polls
  PROVE  HandlersLeased' /\ AttemptGuids' /\ MemoryHolds'
<1> DEFINE r == reports[h]
           row == rows[r.msg]
<1>1. /\ TypeOK /\ TableTypeOK /\ ReportsTypeOK
      /\ HandlersLeased /\ AttemptGuids /\ MemoryHolds
  BY DEF LinearInv, CoherenceInv, TypeOK
<1>2. ASSUME UNCHANGED tableVars PROVE AttemptGuids'
  BY <1>1, <1>2 DEF tableVars, AttemptGuids, Fits, ClaimedLeases, Reply, Responding
<1>3. ASSUME UNCHANGED tableVars, NEW x, reports' = [reports EXCEPT ![h] = x],
             x.pc # "idle" =>
               \E l \in granted : /\ l.msg = x.msg /\ l.token = x.token
                                  /\ x.guid \in GuidsOf(l, x.status),
             x.pc \in {"budget", "cas"} /\ rows[x.msg].token = x.token =>
               /\ rows[x.msg].attempts = x.seen.attempts
               /\ x.seen.guid # Null => rows[x.msg].guid = x.seen.guid
      PROVE  HandlersLeased' /\ AttemptGuids' /\ MemoryHolds'
  <2>1. reports'[h] = x /\ \A g \in Reporters \ {h} : reports'[g] = reports[g]
    BY <1>1, <1>3 DEF ReportsTypeOK
  <2>2. HandlersLeased'
    BY <1>1, <1>3, <2>1 DEF HandlersLeased, tableVars
  <2>3. MemoryHolds'
    BY <1>1, <1>3, <2>1 DEF MemoryHolds, tableVars
  <2>4. QED
    BY <1>2, <1>3, <2>2, <2>3
<1>4. \A x \in Incoming(h) :
        \E l \in granted : /\ l.msg = x.msg /\ l.token = x.token
                           /\ x.guid \in GuidsOf(l, x.status)
  <2>1. \A x \in Arrivals :
          \E l \in granted : /\ l.msg = x.msg /\ l.token = x.token
                             /\ x.guid \in GuidsOf(l, x.status)
    BY DEF Arrivals
  <2>2. QED
    BY <1>1, <2>1 DEF Incoming, HandlersLeased
<1>5. ASSUME r.pc # "idle"
      PROVE  r \in Report /\ \E l \in granted : /\ l.msg = r.msg /\ l.token = r.token
                                                /\ r.guid \in GuidsOf(l, r.status)
  BY <1>1, <1>5, BusyTyped DEF HandlersLeased
<1>6. CASE IgnoreStale(h) \/ IgnoreReplay(h) \/ LoseReport(h)
  <2>1. reports' = [reports EXCEPT ![h] = NoReport] /\ UNCHANGED tableVars
    BY <1>6 DEF IgnoreStale, IgnoreReplay, LoseReport, Finish
  <2>2. NoReport.pc = "idle"
    BY DEF NoReport
  <2>3. QED
    BY <1>3, <2>1, <2>2
<1>7. CASE ReadRow(h)
  <2>1. PICK x \in Incoming(h), pc \in {"budget", "cas"} :
          reports' = [reports EXCEPT ![h] = [x EXCEPT !.seen = SeenOf(x.msg), !.pc = pc]]
    BY <1>7 DEF ReadRow
  <2> DEFINE y == [x EXCEPT !.seen = SeenOf(x.msg), !.pc = pc]
  <2>2. x \in Report
    BY <1>1, IncomingTyped
  <2>3. /\ y.msg = x.msg /\ y.token = x.token /\ y.guid = x.guid /\ y.status = x.status
        /\ y.seen = SeenOf(x.msg)
    BY <2>2 DEF Report
  <2>4. /\ rows[y.msg].attempts = y.seen.attempts
        /\ rows[y.msg].guid = y.seen.guid
    BY <2>3 DEF SeenOf
  <2>5. UNCHANGED tableVars
    BY <1>7 DEF ReadRow
  <2>6. reports' = [reports EXCEPT ![h] = y]
    BY <2>1
  <2>7. \E l \in granted : /\ l.msg = y.msg /\ l.token = y.token
                           /\ y.guid \in GuidsOf(l, y.status)
    BY <1>4, <2>3
  <2> HIDE DEF y
  <2>8. QED
    BY <1>3, <2>4, <2>5, <2>6, <2>7
<1>8. CASE ReadBudget(h)
  <2> DEFINE y == [r EXCEPT !.pc = "cas", !.budget = settings.budget]
  <2>1. r.pc = "budget" /\ UNCHANGED tableVars /\ reports' = [reports EXCEPT ![h] = y]
    BY <1>1, <1>8 DEF ReadBudget, ReportsTypeOK
  <2>2. /\ y.msg = r.msg /\ y.token = r.token /\ y.guid = r.guid /\ y.status = r.status
        /\ y.seen = r.seen
    BY <1>5, <2>1 DEF Report
  <2>3. rows[y.msg].token = y.token =>
          /\ rows[y.msg].attempts = y.seen.attempts
          /\ y.seen.guid # Null => rows[y.msg].guid = y.seen.guid
    BY <1>1, <2>1, <2>2 DEF MemoryHolds
  <2>4. \E l \in granted : /\ l.msg = y.msg /\ l.token = y.token
                           /\ y.guid \in GuidsOf(l, y.status)
    BY <1>5, <2>1, <2>2
  <2> HIDE DEF y
  <2>5. QED
    BY <1>3, <2>1, <2>3, <2>4
<1>9. CASE RetryReport(h)
  <2> DEFINE y == [r EXCEPT !.pc = "read", !.seen = NothingSeen, !.budget = 0, !.tries = @ + 1]
  <2>1. r.pc = "cas" /\ UNCHANGED tableVars /\ reports' = [reports EXCEPT ![h] = y]
    BY <1>9 DEF RetryReport
  <2>2. /\ y.msg = r.msg /\ y.token = r.token /\ y.guid = r.guid /\ y.status = r.status
        /\ y.pc = "read"
    BY <1>5, <2>1 DEF Report
  <2>3. \E l \in granted : /\ l.msg = y.msg /\ l.token = y.token
                           /\ y.guid \in GuidsOf(l, y.status)
    BY <1>5, <2>1, <2>2
  <2> HIDE DEF y
  <2>4. QED
    BY <1>3, <2>1, <2>2, <2>3
<1>10. CASE PersistFacts(h)
  <2>1. /\ r.pc = "cas" /\ Matches(r) /\ Finish(h) /\ UNCHANGED granted
        /\ rows' = [rows EXCEPT ![r.msg] = WithFacts(row, r)]
    BY <1>10 DEF PersistFacts
  <2>2. /\ WithFacts(row, r).token = row.token /\ WithFacts(row, r).attempts = row.attempts
        /\ WithFacts(row, r).guid = FirstGuid(row, r)
    BY <2>1, MatchFinds, ReportedColumns, ReportedAttempt
  <2>3. QED
    BY <2>1, <2>2, WriteLinear
<1>11. CASE RequeueFailure(h)
  <2>1. /\ r.pc = "cas" /\ Matches(r) /\ Finish(h) /\ UNCHANGED granted
        /\ rows' = [rows EXCEPT ![r.msg] = Requeued(row)]
    BY <1>11 DEF RequeueFailure
  <2>2. Requeued(row).token = Null
    BY <2>1, MatchFinds DEF Requeued, Row
  <2>3. QED
    BY <2>1, <2>2, WriteLinear
<1>12. CASE ApplyReport(h)
  <2>1. /\ r.pc = "cas" /\ Matches(r) /\ Finish(h) /\ UNCHANGED granted
        /\ rows' = [rows EXCEPT ![r.msg] = Advanced(row, r)]
    BY <1>12 DEF ApplyReport
  <2>2. /\ Advanced(row, r).token = row.token /\ Advanced(row, r).attempts = row.attempts
        /\ Advanced(row, r).guid = FirstGuid(row, r)
    BY <2>1, MatchFinds, ReportedColumns, ReportedAttempt
  <2>3. QED
    BY <2>1, <2>2, WriteLinear
<1>13. QED
  BY <1>6, <1>7, <1>8, <1>9, <1>10, <1>11, <1>12 DEF ReportStep

\* The invariant holds at the start, and every step keeps it.
LEMMA InitLinear == Init => LinearInv
<1> SUFFICES ASSUME Init PROVE HandlersLeased /\ AttemptGuids /\ MemoryHolds
  BY InitCoherent, InitDistinct DEF LinearInv
<1>1. \A h \in Reporters : reports[h].pc = "idle"
  BY DEF Init, ReportsInit, NoReport
<1>2. ClaimedLeases = {}
  BY DEF Init, TableInit, PollsInit, NoPoll, ClaimedLeases, Responding
<1>3. QED
  BY <1>1, <1>2 DEF HandlersLeased, AttemptGuids, MemoryHolds

LEMMA StepLinear == LinearInv /\ [Next]_vars => LinearInv'
<1> SUFFICES ASSUME LinearInv, [Next]_vars PROVE HandlersLeased' /\ AttemptGuids' /\ MemoryHolds'
  BY StepCoherent, StepDistinct DEF LinearInv
<1>1. TypeOK
  BY DEF LinearInv, CoherenceInv
<1>2. CASE TimePasses \/ UNCHANGED vars
  <2>1. UNCHANGED <<rows, granted, polls, reports>>
    BY <1>2 DEF TimePasses, Tick, vars, tableVars, reportVars, pollVars
  <2>2. \A m \in Messages : Kept(rows[m], rows'[m])
    BY <2>1 DEF Kept
  <2>3. QED
    BY <2>1, <2>2, KeptLinear
<1>3. CASE Reporting
  BY <1>3, ReportLinear DEF Reporting, pollVars
<1>4. CASE Operating
  BY <1>1, <1>4, KeptLinear, OperatorKeepsRows, OperatorKeepsTokens
     DEF Operating, reportVars, pollVars, TokensKept
<1>5. CASE Polling
  BY <1>5, PollLinear DEF Polling, reportVars
<1>6. CASE Sweeping
  BY <1>1, <1>6, KeptLinear, SweepKeepsRows, SweepKeepsTokens
     DEF Sweeping, reportVars, pollVars, TokensKept
<1>7. QED
  BY <1>2, <1>3, <1>4, <1>5, <1>6 DEF Next

\* A matching write is the one the report would make of the row as it is now.
LEMMA MatchAlone ==
  ASSUME LinearInv, NEW h \in Reporters, reports[h].pc = "cas", Matches(reports[h])
  PROVE  LET r   == reports[h]
             row == rows[r.msg]
         IN  AppliedAlone(row, r) =
               IF ~Advances(r) THEN WithFacts(row, r)
               ELSE IF WithinBudget(r) THEN Requeued(row) ELSE Advanced(row, r)
<1> DEFINE r == reports[h]
           row == rows[r.msg]
           now_ == [r EXCEPT !.seen.guid = row.guid]
<1>1. /\ r \in Report /\ row.status = r.seen.status /\ row.attempts = r.seen.attempts
      /\ (IF r.guid # Null /\ r.seen.guid = Null THEN r.guid ELSE row.guid) = FirstGuid(row, r)
  BY MatchFinds
<1>2. now_.guid = r.guid /\ now_.status = r.status /\ now_.seen.guid = row.guid
  BY <1>1 DEF Report, Seen
<1>3. (IF now_.guid # Null /\ now_.seen.guid = Null THEN now_.guid ELSE row.guid)
        = FirstGuid(row, r)
  BY <1>2 DEF FirstGuid
<1>4. WithFacts(row, now_) = WithFacts(row, r)
  BY <1>1, <1>2, <1>3 DEF WithFacts
<1>5. Advanced(row, now_) = Advanced(row, r)
  BY <1>2, <1>4 DEF Advanced
<1>6. Advances(r) <=> CanTransition(row.status, r.status)
  BY <1>1 DEF Advances
<1>7. WithinBudget(r) <=> r.status = "FAILED" /\ Advances(r) /\ row.attempts < r.budget
  BY <1>1 DEF WithinBudget
<1>8. QED
  BY <1>4, <1>5, <1>6, <1>7 DEF AppliedAlone

\* Only the handler that a step serves changes (ReportStep writes one handler).
LEMMA OneHandler ==
  ASSUME TypeOK, NEW h \in Reporters, ReportStep(h)
  PROVE  \A g \in Reporters \ {h} : reports'[g] = reports[g]
  BY DEF TypeOK, ReportsTypeOK, ReportStep, IgnoreStale, IgnoreReplay, ReadRow, ReadBudget,
         PersistFacts, RequeueFailure, ApplyReport, RetryReport, LoseReport, Finish

LEMMA StepAlone ==
  ASSUME LinearInv, [Next]_vars, NEW h \in Reporters, Writes(h)
  PROVE  LET r == reports[h]
         IN  /\ rows[r.msg].token = r.token
             /\ rows' = [rows EXCEPT ![r.msg] = AppliedAlone(rows[r.msg], r)]
<1> DEFINE r == reports[h]
           row == rows[r.msg]
<1>1. reports'[h] # reports[h] /\ rows' # rows
  BY DEF Writes
<1>2. ReportStep(h)
  <2>1. ~UNCHANGED reports
    BY <1>1
  <2>2. PICK g \in Reporters : ReportStep(g)
    BY <2>1 DEF Next, TimePasses, Operating, Polling, Sweeping, Reporting, vars, reportVars
  <2>3. TypeOK
    BY DEF LinearInv, CoherenceInv
  <2>4. g = h
    BY <1>1, <2>2, <2>3, OneHandler
  <2>5. QED
    BY <2>2, <2>4
<1>3. PersistFacts(h) \/ RequeueFailure(h) \/ ApplyReport(h)
  BY <1>1, <1>2 DEF ReportStep, IgnoreStale, IgnoreReplay, ReadRow, ReadBudget, RetryReport,
                    LoseReport, tableVars
<1>4. /\ r.pc = "cas" /\ Matches(r)
      /\ rows' = [rows EXCEPT ![r.msg] =
                    IF ~Advances(r) THEN WithFacts(row, r)
                    ELSE IF WithinBudget(r) THEN Requeued(row) ELSE Advanced(row, r)]
  BY <1>3 DEF PersistFacts, RequeueFailure, ApplyReport, WithinBudget
<1>5. QED
  BY <1>4, MatchFinds, MatchAlone

\* A report that read the row long before it writes has the effect it would have had
\* if it ran alone at the moment of its write, whatever raced it (the compare-and-set
\* of applyOnce).
THEOREM ReportsLinearizeAlways == Spec => ReportsLinearize
<1>1. LinearInv /\ [Next]_vars =>
        \A h \in Reporters : Writes(h) =>
          LET r == reports[h] IN
          /\ rows[r.msg].token = r.token
          /\ rows' = [rows EXCEPT ![r.msg] = AppliedAlone(@, r)]
  BY StepAlone
<1>2. QED
  BY <1>1, InitLinear, StepLinear, PTL DEF Spec, ReportsLinearize

-----------------------------------------------------------------------------
(* A cancellation is kept *)

\* The guard keeps the reports out, the claim takes queued rows only, and a write by
\* id alone ends its request or sweep.
LEMMA StepKeepsCanceled ==
  ASSUME TypeOK, [Next]_vars, UNCHANGED <<ops, sweeps>>,
         NEW m \in Messages, rows[m].status = "CANCELED"
  PROVE  rows'[m].status \in {"CANCELED", "DELETED"}
<1>1. /\ TableTypeOK /\ ReportsTypeOK /\ OpsTypeOK /\ SweepsTypeOK
      /\ rows[m] \in Row
  BY DEF TypeOK, TableTypeOK
<1>2. ASSUME NEW n, NEW x, rows' = [rows EXCEPT ![n] = x], n # m \/ x.status = rows[m].status
      PROVE  rows'[m].status = "CANCELED"
  BY <1>1, <1>2 DEF TableTypeOK
<1>3. CASE UNCHANGED rows
  BY <1>3
<1>4. CASE Reporting
  <2>1. PICK h \in Reporters : ReportStep(h)
    BY <1>4 DEF Reporting
  <2> DEFINE r == reports[h]
  <2>2. CASE PersistFacts(h)
    <3>1. rows' = [rows EXCEPT ![r.msg] = WithFacts(rows[r.msg], r)] /\ r.pc = "cas"
      BY <2>2 DEF PersistFacts
    <3>2. r \in Report
      BY <1>1, <3>1, BusyTyped
    <3>3. r.msg = m => WithFacts(rows[r.msg], r).status = rows[m].status
      BY <1>1, <3>2, ReportedColumns
    <3>4. QED
      BY <1>2, <3>1, <3>3
  <2>3. CASE RequeueFailure(h) \/ ApplyReport(h)
    <3>1. Matches(r) /\ Advances(r)
      BY <2>3 DEF RequeueFailure, ApplyReport, WithinBudget
    <3>2. r.msg # m
      BY <3>1 DEF Matches, Advances, CanTransition, IsTerminal, TerminalStatuses
    <3>3. \E x : rows' = [rows EXCEPT ![r.msg] = x]
      BY <2>3 DEF RequeueFailure, ApplyReport
    <3>4. QED
      BY <1>2, <3>2, <3>3
  <2>4. QED
    BY <1>3, <2>1, <2>2, <2>3 DEF ReportStep, IgnoreStale, IgnoreReplay, ReadRow, ReadBudget,
                                  RetryReport, LoseReport, tableVars
<1>5. CASE Operating
  <2>1. ASSUME NEW o \in Operators, NEW k, Pending(o, k), Return(o) PROVE FALSE
    BY <1>1, <2>1 DEF Pending, Return, OpsTypeOK, NoOp
  <2>2. ASSUME NEW o \in Operators, CreateMessage(o) PROVE rows'[m].status = "CANCELED"
    <3>1. PICK n \in Messages : rows[n].status = "NONE" /\ rows' = [rows EXCEPT ![n] = NewRow(nextSeq)]
      BY <2>2 DEF CreateMessage
    <3>2. QED
      BY <1>2, <3>1
  <2>3. CASE ClearHistory
    BY <2>3 DEF ClearHistory, Absent, Clearable
  <2>4. QED
    BY <1>3, <1>5, <2>1, <2>2, <2>3
       DEF Operating, OpStep, CreateEvent, BeginRequest, CancelWrite, RetryWrite, ForceWrite,
           AbandonRequest, UpdateSettings, tableVars
<1>6. CASE Polling
  <2>1. ASSUME NEW p \in Pollers, Claim(p, Locked) PROVE rows'[m].status = "CANCELED"
    <3>1. PICK n \in Queued : rows' = [rows EXCEPT ![n] = Claimed(rows[n], nextToken)]
      BY <2>1 DEF Claim
    <3>2. n # m
      BY DEF Queued
    <3>3. QED
      BY <1>2, <3>1, <3>2
  <2>2. QED
    BY <1>3, <1>6, <2>1
       DEF Polling, PollStep, BeginTurn, PassGate, EndTurn, Respond, LoseLease, tableVars
<1>7. CASE Sweeping
  <2>1. ASSUME NEW s \in Sweepers, RequeueExpired(s) PROVE FALSE
    <3>1. sweeps[s] \in Sweep /\ sweeps[s].pc = "requeue" /\ sweeps'[s].pc = "scan"
      BY <1>1, <2>1 DEF RequeueExpired, SweepsTypeOK, Sweep
    <3>2. QED
      BY <3>1
  <2>2. ASSUME NEW s \in Sweepers, FailAbandoned(s) PROVE rows'[m].status = "CANCELED"
    <3>1. PICK n \in sweeps[s].ids : /\ rows[n].status = "ACCEPTED"
                                     /\ rows' = [rows EXCEPT ![n] = Abandoned(rows[n])]
      BY <2>2 DEF FailAbandoned, StillAbandoned
    <3>2. QED
      BY <1>2, <3>1
  <2>3. QED
    BY <1>3, <1>7, <2>1, <2>2
       DEF Sweeping, SweepStep, SweepProgress, ReadExpired, ReadAbandoned, SkipAbandoned,
           AbortSweep, tableVars
<1>8. QED
  BY <1>3, <1>4, <1>5, <1>6, <1>7 DEF Next, TimePasses, Tick, vars, tableVars

\* Nothing a gateway still reports and nothing a poll claims brings a CANCELED
\* message back (cancelMessage; "nothing leaves a terminal status").
THEOREM CancelIsFinal == Spec => CanceledStays
<1>1. TypeOK /\ [Next]_vars =>
        \A m \in Messages :
          rows[m].status = "CANCELED" /\ UNCHANGED <<ops, sweeps>>
            => rows'[m].status \in {"CANCELED", "DELETED"}
  BY StepKeepsCanceled
<1>2. QED
  BY <1>1, TypeCorrect, PTL DEF Spec, CanceledStays
=============================================================================
