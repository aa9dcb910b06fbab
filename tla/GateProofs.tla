------------------------------ MODULE GateProofs ------------------------------
(***************************************************************************)
(* The rate gate, for every number of polls, instances and operators.  The *)
(* claims of a poll are an interval apart, where no operator retries a     *)
(* message or clears the history: those are the two writes that erase a    *)
(* dispatch time.  And the projection of eta.ts agrees with the gate of    *)
(* the lease route on every table the server can reach, whatever was       *)
(* erased from it.                                                         *)
(***************************************************************************)
EXTENDS ServerProofs

\* Nobody erases a dispatch time (retryMessage, clearHistory).
NothingErased == OpKinds \cap {"retry", "clear"} = {}

\* A write that leaves the dispatch time of a row alone; an id is created once.
Untouched(row, new) ==
  /\ new.dispatchedAt = row.dispatchedAt
  /\ new.status = "NONE" => row.status = "NONE"

\* Dispatch times lie in the past, and a message that was never created has none.
DispatchesPast ==
  \A m \in Messages :
    /\ rows[m].dispatchedAt # Null => rows[m].dispatchedAt <= now
    /\ rows[m].status = "NONE" => rows[m].dispatchedAt = Null

NoRetryPending == \A o \in Operators : ~Pending(o, "retry")

\* The table remembers every claim a poll made: some dispatch is as late.
ClaimsRemembered ==
  \A p \in Pollers : lastClaim[p] # Null =>
    \E m \in Messages : rows[m].dispatchedAt # Null /\ rows[m].dispatchedAt >= lastClaim[p]

\* What a poll read stays true of its own claims: its clock is in the past, and the
\* gate it found due was an interval after its last claim.
TurnsSpaced ==
  \A p \in Pollers :
    /\ polls[p].at <= now
    /\ polls[p].pc = "claim" /\ polls[p].due /\ lastClaim[p] # Null
         => polls[p].at - lastClaim[p] >= polls[p].interval

SpacedInv ==
  TypeOK /\ DispatchesPast /\ NoRetryPending /\ ClaimsRemembered /\ TurnsSpaced

-----------------------------------------------------------------------------
\* Reports do not touch dispatch times (applyOnce).
LEMMA ReportUntouched ==
  ASSUME TypeOK, NEW h \in Reporters, ReportStep(h)
  PROVE  \A m \in Messages : Untouched(rows[m], rows'[m])
<1> DEFINE r == reports[h]
           row == rows[r.msg]
<1>1. TableTypeOK /\ ReportsTypeOK
  BY DEF TypeOK
<1>2. ASSUME r.pc = "cas"
      PROVE  r \in Report /\ r.msg \in Messages /\ r.status \in MessageStatuses /\ row \in Row
  BY <1>1, <1>2, BusyTyped DEF Report, TableTypeOK
<1>3. ASSUME NEW x, rows' = [rows EXCEPT ![r.msg] = x], Untouched(row, x)
      PROVE  \A m \in Messages : Untouched(rows[m], rows'[m])
  BY <1>1, <1>3 DEF TableTypeOK, Untouched
<1>4. CASE PersistFacts(h)
  <2>1. Untouched(row, WithFacts(row, r))
    BY <1>2, <1>4 DEF PersistFacts, WithFacts, Untouched, Row
  <2>2. QED
    BY <1>3, <1>4, <2>1 DEF PersistFacts
<1>5. CASE RequeueFailure(h)
  <2>1. Untouched(row, Requeued(row))
    BY <1>2, <1>5 DEF RequeueFailure, Requeued, Untouched, Row
  <2>2. QED
    BY <1>3, <1>5, <2>1 DEF RequeueFailure
<1>6. CASE ApplyReport(h)
  <2>1. r.pc = "cas" /\ rows' = [rows EXCEPT ![r.msg] = Advanced(row, r)]
    BY <1>6 DEF ApplyReport
  <2>2. WithFacts(row, r).dispatchedAt = row.dispatchedAt
    BY <1>2, <2>1 DEF WithFacts, Row
  <2>3. Advanced(row, r).dispatchedAt = row.dispatchedAt /\ Advanced(row, r).status = r.status
    <3>1. WithFacts(row, r) \in Row
      BY <1>2, <2>1, ReportedTyped
    <3>2. Advanced(row, r).dispatchedAt = WithFacts(row, r).dispatchedAt
      BY <3>1 DEF Advanced, Row
    <3>3. QED
      BY <1>2, <2>1, <2>2, <3>2, ReportedColumns
  <2>4. Untouched(row, Advanced(row, r))
    <3>1. r.status # "NONE"
      BY <1>2, <2>1 DEF MessageStatuses
    <3>2. QED
      BY <2>3, <3>1 DEF Untouched
  <2>5. QED
    BY <1>3, <2>1, <2>4
<1>7. CASE UNCHANGED tableVars
  BY <1>7 DEF tableVars, Untouched
<1>8. QED
  BY <1>4, <1>5, <1>6, <1>7
     DEF ReportStep, IgnoreStale, IgnoreReplay, ReadRow, ReadBudget, RetryReport, LoseReport

\* Neither do operators who only schedule, cancel, force and configure (messages.ts).
LEMMA OperatorUntouched ==
  ASSUME NothingErased, TypeOK, DispatchesPast, NoRetryPending,
         (\E o \in Operators : OpStep(o)) \/ ClearHistory \/ UpdateSettings
  PROVE  NoRetryPending' /\ \A m \in Messages : Untouched(rows[m], rows'[m])
<1>1. TableTypeOK /\ OpsTypeOK
  BY DEF TypeOK
<1>2. ASSUME NEW o \in Operators, NEW x, ops' = [ops EXCEPT ![o] = x],
             x.pc = "write" => x.kind # "retry"
      PROVE  NoRetryPending'
  BY <1>1, <1>2 DEF NoRetryPending, Pending, OpsTypeOK
<1>3. ASSUME NEW m \in Messages, NEW x, rows' = [rows EXCEPT ![m] = x], Untouched(rows[m], x)
      PROVE  \A n \in Messages : Untouched(rows[n], rows'[n])
  BY <1>1, <1>3 DEF TableTypeOK, Untouched
<1>4. ASSUME UNCHANGED rows PROVE \A n \in Messages : Untouched(rows[n], rows'[n])
  BY <1>4 DEF Untouched
<1>5. ASSUME NEW o \in Operators, Return(o) PROVE NoRetryPending'
  BY <1>2, <1>5 DEF Return, NoOp
<1>6. ASSUME NEW o \in Operators, NEW k, Pending(o, k)
      PROVE  ops[o].msg \in Messages /\ rows[ops[o].msg] \in Row
  BY <1>1, <1>6 DEF Pending, OpsTypeOK, TableTypeOK
<1>7. ASSUME NEW o \in Operators, CreateMessage(o)
      PROVE  NoRetryPending' /\ \A m \in Messages : Untouched(rows[m], rows'[m])
  <2>1. PICK m \in Messages :
          /\ rows[m].status = "NONE" /\ rows' = [rows EXCEPT ![m] = NewRow(nextSeq)]
          /\ ops' = [ops EXCEPT ![o] = [pc |-> "write", kind |-> "create", msg |-> m]]
    BY <1>7 DEF CreateMessage
  <2>2. Untouched(rows[m], NewRow(nextSeq))
    BY <2>1 DEF Untouched, NewRow, Absent, DispatchesPast
  <2>3. QED
    BY <1>2, <1>3, <2>1, <2>2
<1>8. ASSUME NEW o \in Operators, CancelWrite(o)
      PROVE  NoRetryPending' /\ \A m \in Messages : Untouched(rows[m], rows'[m])
  <2> DEFINE x == rows[ops[o].msg]
  <2>1. rows' = [rows EXCEPT ![ops[o].msg] = [x EXCEPT !.status = "CANCELED"]]
    BY <1>1, <1>8 DEF CancelWrite, TableTypeOK
  <2>2. ops[o].msg \in Messages /\ Untouched(x, [x EXCEPT !.status = "CANCELED"])
    BY <1>6, <1>8 DEF CancelWrite, Untouched, Row
  <2>3. QED
    BY <1>3, <1>5, <1>8, <2>1, <2>2 DEF CancelWrite
<1>9. ASSUME NEW o \in Operators, ForceWrite(o)
      PROVE  NoRetryPending' /\ \A m \in Messages : Untouched(rows[m], rows'[m])
  <2> DEFINE x == rows[ops[o].msg]
  <2>1. rows' = [rows EXCEPT ![ops[o].msg] = [x EXCEPT !.force = TRUE]]
    BY <1>1, <1>9 DEF ForceWrite, TableTypeOK
  <2>2. ops[o].msg \in Messages /\ Untouched(x, [x EXCEPT !.force = TRUE])
    BY <1>6, <1>9 DEF ForceWrite, Untouched, Row
  <2>3. QED
    BY <1>3, <1>5, <1>9, <2>1, <2>2 DEF ForceWrite
<1>10. ASSUME NEW o \in Operators, BeginRequest(o)
       PROVE  NoRetryPending' /\ \A m \in Messages : Untouched(rows[m], rows'[m])
  <2>1. PICK k \in OpKinds \cap {"cancel", "retry", "send-now"}, m \in Messages :
          ops' = [ops EXCEPT ![o] = [pc |-> "write", kind |-> k, msg |-> m]]
    BY <1>10 DEF BeginRequest
  <2>2. k # "retry"
    BY DEF NothingErased
  <2>3. QED
    BY <1>2, <1>4, <1>10, <2>1, <2>2 DEF BeginRequest, tableVars
<1>11. ASSUME NEW o \in Operators, CreateEvent(o) \/ AbandonRequest(o)
       PROVE  NoRetryPending' /\ \A m \in Messages : Untouched(rows[m], rows'[m])
  BY <1>4, <1>5, <1>11 DEF CreateEvent, AbandonRequest, tableVars
<1>12. CASE UpdateSettings
  BY <1>4, <1>12 DEF UpdateSettings, NoRetryPending, Pending
<1>13. ~ClearHistory /\ \A o \in Operators : ~RetryWrite(o)
  BY DEF ClearHistory, RetryWrite, NoRetryPending, NothingErased
<1>14. QED
  BY <1>7, <1>8, <1>9, <1>10, <1>11, <1>12, <1>13 DEF OpStep

\* Nor sweeps (reapExpiredLeases, failAbandonedSends).
LEMMA SweepUntouched ==
  ASSUME TypeOK, NEW s \in Sweepers, SweepStep(s)
  PROVE  \A m \in Messages : Untouched(rows[m], rows'[m])
<1>1. TableTypeOK /\ SweepsTypeOK
  BY DEF TypeOK
<1>2. \A row \in Row :
        Untouched(row, row) /\ Untouched(row, Reaped(row)) /\ Untouched(row, Abandoned(row))
  BY DEF Untouched, Reaped, Abandoned, Row
<1>3. \A m \in Messages : rows[m] \in Row
  BY <1>1 DEF TableTypeOK
<1>4. CASE RequeueExpired(s)
  <2>1. \A m \in Messages : rows'[m] \in {rows[m], Reaped(rows[m])}
    BY <1>4 DEF RequeueExpired
  <2>2. QED
    BY <1>2, <1>3, <2>1
<1>5. CASE FailAbandoned(s)
  <2>1. PICK m \in sweeps[s].ids : rows' = [rows EXCEPT ![m] = Abandoned(rows[m])]
    BY <1>5 DEF FailAbandoned
  <2>2. \A n \in Messages : rows'[n] \in {rows[n], Abandoned(rows[n])}
    BY <1>1, <2>1 DEF TableTypeOK
  <2>3. QED
    BY <1>2, <1>3, <2>2
<1>6. CASE UNCHANGED rows
  BY <1>2, <1>3, <1>6
<1>7. QED
  BY <1>4, <1>5, <1>6
     DEF SweepStep, SweepProgress, ReadExpired, ReadAbandoned, SkipAbandoned, AbortSweep, tableVars

-----------------------------------------------------------------------------
\* The clock of a poll and the dispatch times, as numbers.
LEMMA TimesTyped ==
  ASSUME TypeOK
  PROVE  /\ now \in Nat
         /\ \A m \in Messages : rows[m].dispatchedAt # Null => rows[m].dispatchedAt \in Nat
         /\ \A p \in Pollers : /\ polls[p] \in Poll
                               /\ polls[p].at \in Nat /\ polls[p].interval \in Nat
                               /\ lastClaim[p] # Null => lastClaim[p] \in Nat
  BY DEF TypeOK, TableTypeOK, PollsTypeOK, Row, Poll, OrNull

\* Where no row is claimed and the clock does not go back, nothing is forgotten.
LEMMA UntouchedSpaced ==
  ASSUME SpacedInv, TypeOK', \A m \in Messages : Untouched(rows[m], rows'[m]),
         UNCHANGED <<polls, lastClaim>>, now' \in Nat, now <= now', NoRetryPending'
  PROVE  SpacedInv'
<1>1. TypeOK /\ DispatchesPast /\ ClaimsRemembered /\ TurnsSpaced
  BY DEF SpacedInv
<1>2. DispatchesPast'
  BY <1>1, TimesTyped DEF DispatchesPast, Untouched
<1>3. ClaimsRemembered'
  BY <1>1 DEF ClaimsRemembered, Untouched
<1>4. TurnsSpaced'
  BY <1>1, TimesTyped DEF TurnsSpaced
<1>5. QED
  BY <1>2, <1>3, <1>4 DEF SpacedInv

\* A turn of a poll: what it reads is the present, the gate it passes as due is an
\* interval after every dispatch, and its claim is the newest (the lease route).
LEMMA PollSpaced ==
  ASSUME SpacedInv, TypeOK', NEW p \in Pollers, NEW locked, PollStep(p, locked), UNCHANGED ops
  PROVE  SpacedInv'
<1>1. /\ TypeOK /\ TableTypeOK /\ PollsTypeOK
      /\ DispatchesPast /\ NoRetryPending /\ ClaimsRemembered /\ TurnsSpaced
  BY DEF SpacedInv, TypeOK
<1>2. \A q \in Pollers \ {p} : polls'[q] = polls[q]
  BY <1>1 DEF PollStep, BeginTurn, PassGate, EndTurn, Claim, Respond, LoseLease, PollsTypeOK
<1>3. NoRetryPending'
  BY <1>1 DEF NoRetryPending, Pending
<1>4. ASSUME UNCHANGED <<rows, now, lastClaim>>,
             polls'[p].at <= now,
             polls'[p].pc = "claim" /\ polls'[p].due /\ lastClaim[p] # Null
               => polls'[p].at - lastClaim[p] >= polls'[p].interval
      PROVE  SpacedInv'
  <2>1. TurnsSpaced'
    BY <1>1, <1>2, <1>4 DEF TurnsSpaced
  <2>2. DispatchesPast' /\ ClaimsRemembered'
    BY <1>1, <1>4 DEF DispatchesPast, ClaimsRemembered
  <2>3. QED
    BY <1>3, <2>1, <2>2 DEF SpacedInv
<1>5. 0 <= now /\ now <= now /\ now \in Nat
  BY <1>1 DEF TableTypeOK
<1>6. CASE BeginTurn(p)
  <2>1. polls'[p].at = now /\ polls'[p].pc = "gate"
    BY <1>1, <1>6 DEF BeginTurn, PollsTypeOK, NoPoll
  <2>2. QED
    BY <1>4, <1>5, <1>6, <2>1 DEF BeginTurn, tableVars
<1>7. CASE PassGate(p)
  <2> DEFINE at == polls[p].at
             interval == polls[p].interval
  <2>1. /\ polls'[p].at = at /\ polls'[p].interval = interval
        /\ polls'[p].due = IsDue(at, interval)
    BY <1>1, <1>7 DEF PassGate, PollsTypeOK, Poll
  <2>2. ASSUME IsDue(at, interval), lastClaim[p] # Null PROVE at - lastClaim[p] >= interval
    <3>1. PICK m \in Messages : /\ rows[m].dispatchedAt # Null
                                /\ rows[m].dispatchedAt >= lastClaim[p]
      BY <1>1, <2>2 DEF ClaimsRemembered
    <3>2. at - rows[m].dispatchedAt >= interval
      BY <2>2, <3>1 DEF IsDue, DispatchTimes
    <3>3. /\ at \in Nat /\ interval \in Nat /\ lastClaim[p] \in Nat
          /\ rows[m].dispatchedAt \in Nat
      BY <1>1, <2>2, <3>1, TimesTyped
    <3> HIDE DEF at, interval
    <3>4. QED
      BY <3>1, <3>2, <3>3
  <2>3. at <= now
    BY <1>1 DEF TurnsSpaced
  <2>4. UNCHANGED <<rows, now, lastClaim>>
    BY <1>7 DEF PassGate, tableVars
  <2> HIDE DEF at, interval
  <2>5. QED
    BY <1>4, <2>1, <2>2, <2>3, <2>4
<1>8. CASE EndTurn(p) \/ LoseLease(p) \/ Respond(p)
  <2>1. polls'[p].at = 0 /\ polls'[p].pc = "idle"
    BY <1>1, <1>8 DEF EndTurn, LoseLease, Respond, PollsTypeOK, NoPoll
  <2>2. QED
    BY <1>4, <1>5, <1>8, <2>1 DEF EndTurn, LoseLease, Respond, tableVars
<1>9. CASE Claim(p, locked)
  <2>1. PICK m \in Messages :
          /\ rows' = [rows EXCEPT ![m] = Claimed(rows[m], nextToken)]
          /\ polls' = [polls EXCEPT ![p].pc = "respond", ![p].msg = m, ![p].token = nextToken,
                                    ![p].guid = rows[m].guid]
    BY <1>9 DEF Claim, Queued
  <2>2. /\ rows'[m].dispatchedAt = now /\ rows'[m].status = "DISPATCHING"
        /\ \A n \in Messages \ {m} : rows'[n] = rows[n]
    BY <1>1, <2>1 DEF Claimed, TableTypeOK, Row
  <2>3. polls'[p].pc = "respond" /\ polls'[p].at = polls[p].at
    BY <1>1, <2>1 DEF PollsTypeOK, Poll
  <2>4. /\ now' = now
        /\ \A q \in Pollers : lastClaim'[q] \in {now, lastClaim[q]}
        /\ \A q \in Pollers \ {p} : lastClaim'[q] = lastClaim[q]
    BY <1>1, <1>9 DEF Claim, PollsTypeOK
  <2>5. now # Null
    BY <1>5, NullAssumption
  <2>6. DispatchesPast'
    BY <1>1, <1>5, <2>2, <2>4 DEF DispatchesPast
  <2>7. ClaimsRemembered'
    <3> SUFFICES ASSUME NEW q \in Pollers, lastClaim'[q] # Null
                 PROVE  \E n \in Messages : /\ rows'[n].dispatchedAt # Null
                                            /\ rows'[n].dispatchedAt >= lastClaim'[q]
      BY DEF ClaimsRemembered
    <3>1. lastClaim'[q] \in Nat /\ lastClaim'[q] <= now
      <4>1. CASE lastClaim'[q] = now
        BY <1>5, <4>1
      <4>2. CASE lastClaim'[q] = lastClaim[q]
        <5>1. PICK n \in Messages : /\ rows[n].dispatchedAt # Null
                                    /\ rows[n].dispatchedAt >= lastClaim[q]
          BY <1>1, <4>2 DEF ClaimsRemembered
        <5>2. rows[n].dispatchedAt <= now
          BY <1>1, <5>1 DEF DispatchesPast
        <5>3. rows[n].dispatchedAt \in Nat /\ lastClaim[q] \in Nat
          BY <1>1, <4>2, <5>1, TimesTyped
        <5>4. QED
          BY <1>5, <4>2, <5>1, <5>2, <5>3
      <4>3. QED
        BY <2>4, <4>1, <4>2
    <3>2. rows'[m].dispatchedAt # Null /\ rows'[m].dispatchedAt >= lastClaim'[q]
      BY <1>5, <2>2, <2>5, <3>1
    <3>3. QED
      BY <3>2
  <2>8. TurnsSpaced'
    BY <1>1, <1>2, <2>3, <2>4 DEF TurnsSpaced
  <2>9. QED
    BY <1>3, <2>6, <2>7, <2>8 DEF SpacedInv
<1>10. QED
  BY <1>6, <1>7, <1>8, <1>9 DEF PollStep

LEMMA InitSpaced == Init => SpacedInv
<1> SUFFICES ASSUME Init PROVE SpacedInv
  OBVIOUS
<1>1. DispatchesPast
  BY DEF Init, TableInit, Absent, DispatchesPast
<1>2. NoRetryPending
  BY DEF Init, OpsInit, NoOp, NoRetryPending, Pending
<1>3. ClaimsRemembered /\ TurnsSpaced
  BY DEF Init, TableInit, PollsInit, NoPoll, ClaimsRemembered, TurnsSpaced
<1>4. QED
  BY <1>1, <1>2, <1>3, InitTyped DEF SpacedInv

LEMMA StepSpaced == NothingErased /\ SpacedInv /\ [Next]_vars => SpacedInv'
<1> SUFFICES ASSUME NothingErased, SpacedInv, [Next]_vars PROVE SpacedInv'
  OBVIOUS
<1>1. TypeOK /\ TypeOK' /\ NoRetryPending /\ DispatchesPast /\ now \in Nat /\ now <= now
  BY StepTyped, TimesTyped DEF SpacedInv
<1>2. ASSUME UNCHANGED ops PROVE NoRetryPending'
  BY <1>1, <1>2 DEF NoRetryPending, Pending
<1>3. \A m \in Messages : Untouched(rows[m], rows[m])
  BY DEF Untouched
<1>4. CASE TimePasses
  <2>1. now' \in Nat /\ now <= now'
    BY <1>1, <1>4 DEF TimePasses, Tick
  <2>2. QED
    BY <1>1, <1>2, <1>3, <1>4, <2>1, UntouchedSpaced DEF TimePasses, Tick, pollVars
<1>5. CASE UNCHANGED vars
  BY <1>1, <1>2, <1>3, <1>5, UntouchedSpaced DEF vars, tableVars, pollVars
<1>6. CASE Reporting
  <2>1. PICK h \in Reporters : ReportStep(h)
    BY <1>6 DEF Reporting
  <2>2. UNCHANGED now
    BY <2>1 DEF ReportStep, IgnoreStale, IgnoreReplay, ReadRow, ReadBudget, PersistFacts,
                RequeueFailure, ApplyReport, RetryReport, LoseReport, tableVars
  <2>3. QED
    BY <1>1, <1>2, <1>6, <2>1, <2>2, ReportUntouched, UntouchedSpaced DEF Reporting, pollVars
<1>7. CASE Operating
  <2>1. UNCHANGED now
    BY <1>7 DEF Operating, OpStep, CreateMessage, CreateEvent, BeginRequest, CancelWrite,
                RetryWrite, ForceWrite, AbandonRequest, ClearHistory, UpdateSettings, tableVars
  <2>2. QED
    BY <1>1, <1>7, <2>1, OperatorUntouched, UntouchedSpaced DEF Operating, pollVars
<1>8. CASE Polling
  BY <1>1, <1>8, PollSpaced DEF Polling
<1>9. CASE Sweeping
  <2>1. PICK s \in Sweepers : SweepStep(s)
    BY <1>9 DEF Sweeping
  <2>2. UNCHANGED now
    BY <2>1 DEF SweepStep, SweepProgress, ReadExpired, RequeueExpired, ReadAbandoned,
                FailAbandoned, SkipAbandoned, AbortSweep, tableVars
  <2>3. QED
    BY <1>1, <1>2, <1>9, <2>1, <2>2, SweepUntouched, UntouchedSpaced DEF Sweeping, pollVars
<1>10. QED
  BY <1>4, <1>5, <1>6, <1>7, <1>8, <1>9 DEF Next

\* Where nobody erases a dispatch time, two claims of one poll through a due gate are
\* an interval apart, however many polls, reports and sweeps run in between
\* (the lease route; fixedIntervalLimiter).
THEOREM SpacedClaims ==
  ASSUME NothingErased
  PROVE  Spec => PollsSpaced
<1>1. SpacedInv /\ [Next]_vars =>
        \A p \in Pollers :
          polls[p].pc = "claim" /\ polls'[p].pc = "respond" /\ polls[p].due
            => lastClaim[p] = Null \/ now - lastClaim[p] >= polls[p].interval
  <2> SUFFICES ASSUME SpacedInv, NEW p \in Pollers,
                      polls[p].pc = "claim", polls[p].due, lastClaim[p] # Null
               PROVE  now - lastClaim[p] >= polls[p].interval
    OBVIOUS
  <2>1. polls[p].at <= now /\ polls[p].at - lastClaim[p] >= polls[p].interval
    BY DEF SpacedInv, TurnsSpaced
  <2>2. now \in Nat /\ polls[p].at \in Nat /\ polls[p].interval \in Nat /\ lastClaim[p] \in Nat
    BY TimesTyped DEF SpacedInv
  <2>3. QED
    BY <2>1, <2>2
<1>2. SpacedInv /\ [Next]_vars => SpacedInv'
  BY StepSpaced
<1>3. QED
  BY <1>1, <1>2, InitSpaced, PTL DEF Spec, PollsSpaced

-----------------------------------------------------------------------------
\* The anchor is a time, and not before now.
LEMMA AnchorIsTime ==
  ASSUME NEW last \in OrNull(Nat), NEW interval \in Nat, NEW at \in Nat
  PROVE  /\ Projected!ProjectAnchor(last, interval, at) \in Nat
         /\ Projected!ProjectAnchor(last, interval, at) >= at
<1>1. CASE last = Null
  BY <1>1 DEF Projected!ProjectAnchor
<1>2. CASE last # Null
  BY <1>2 DEF Projected!ProjectAnchor, OrNull
<1>3. QED
  BY <1>1, <1>2

\* The head's time is the anchor.
LEMMA HeadIsAnchor ==
  ASSUME NEW last \in OrNull(Nat), NEW interval \in Nat, NEW at \in Nat
  PROVE  Projected!ProjectEta(0, last, interval, at) = Projected!ProjectAnchor(last, interval, at)
<1> DEFINE a == Projected!ProjectAnchor(last, interval, at)
<1>1. a \in Nat
  BY AnchorIsTime
<1> HIDE DEF a
<1>2. a + 0 * interval = a
  BY <1>1
<1>3. QED
  BY <1>2 DEF Projected!ProjectEta, a

\* After a dispatch the gate is due one interval later, and not before.
LEMMA OneIntervalLater ==
  ASSUME NEW t \in Nat, NEW interval \in Nat
  PROVE  Projected!FirstDue(t + interval, t, t, interval)
  BY NullAssumption DEF Projected!FirstDue, Projected!EtaIsDue

\* Positions are one interval apart.
LEMMA EtaStep ==
  ASSUME NEW last \in OrNull(Nat), NEW interval \in Nat, NEW at \in Nat, NEW i \in Nat \ {0}
  PROVE  /\ Projected!ProjectEta(i - 1, last, interval, at) \in Nat
         /\ Projected!ProjectEta(i, last, interval, at)
              = Projected!ProjectEta(i - 1, last, interval, at) + interval
<1> DEFINE a == Projected!ProjectAnchor(last, interval, at)
<1>1. a \in Nat
  BY AnchorIsTime
<1>2. (i - 1) * interval \in Nat /\ i * interval = (i - 1) * interval + interval
  OBVIOUS
<1> HIDE DEF a
<1>3. a + (i - 1) * interval \in Nat /\ a + i * interval = a + (i - 1) * interval + interval
  BY <1>1, <1>2
<1>4. QED
  BY <1>3 DEF Projected!ProjectEta, a

\* No later message waits longer, or less, than the gate makes it wait.
LEMMA FollowersAreDue ==
  ASSUME NEW last \in OrNull(Nat), NEW interval \in Nat, NEW at \in Nat, NEW i \in Nat \ {0}
  PROVE  LET before == Projected!ProjectEta(i - 1, last, interval, at) IN
         Projected!FirstDue(Projected!ProjectEta(i, last, interval, at), before, before, interval)
<1> DEFINE before == Projected!ProjectEta(i - 1, last, interval, at)
<1>1. before \in Nat /\ Projected!ProjectEta(i, last, interval, at) = before + interval
  BY EtaStep
<1> HIDE DEF before
<1>2. Projected!FirstDue(before + interval, before, before, interval)
  BY <1>1, OneIntervalLater
<1>3. QED
  BY <1>1, <1>2 DEF before

\* The route's gate, which looks at every dispatch, opens at the anchor, which is
\* computed from the last of them, and at no moment between now and then.
LEMMA GateOpensAtAnchor ==
  ASSUME TypeOK, NEW last \in OrNull(Nat), LastDispatch(last)
  PROVE  LET a == Projected!ProjectAnchor(last, settings.interval, now) IN
         /\ IsDue(a, settings.interval)
         /\ \A t \in now .. a - 1 : ~IsDue(t, settings.interval)
<1>1. now \in Nat /\ settings.interval \in Nat
  BY DEF TypeOK, TableTypeOK, Settings
<1>2. DispatchTimes \subseteq Nat
  BY DEF TypeOK, TableTypeOK, Row, OrNull, DispatchTimes
<1>3. CASE DispatchTimes = {}
  <2>1. last = Null
    BY <1>3 DEF LastDispatch
  <2>2. Projected!ProjectAnchor(last, settings.interval, now) = now
    BY <2>1 DEF Projected!ProjectAnchor
  <2>3. QED
    BY <1>1, <1>3, <2>2 DEF IsDue
<1>4. CASE DispatchTimes # {}
  <2>1. last \in DispatchTimes /\ \A t \in DispatchTimes : t <= last
    BY <1>4 DEF LastDispatch
  <2>2. last \in Nat /\ last # Null
    BY <2>1, <1>2, NullAssumption
  <2> DEFINE a == Projected!ProjectAnchor(last, settings.interval, now)
  <2>3. a \in Nat /\ a >= now /\ a >= last + settings.interval
        /\ (a = now \/ a = last + settings.interval)
    BY <1>1, <2>2 DEF Projected!ProjectAnchor
  <2> HIDE DEF a
  <2>4. IsDue(a, settings.interval)
    BY <1>1, <1>2, <2>1, <2>2, <2>3 DEF IsDue
  <2>5. ASSUME NEW t \in now .. a - 1
        PROVE  ~IsDue(t, settings.interval)
    <3>1. t - last < settings.interval
      BY <1>1, <2>2, <2>3
    <3>2. QED
      BY <1>1, <2>1, <2>2, <3>1 DEF IsDue
  <2>6. QED
    BY <2>4, <2>5 DEF a
<1>5. QED
  BY <1>3, <1>4

LEMMA TypedTimesAgree ==
  TypeOK => EtasAreReleaseTimes
<1> SUFFICES ASSUME TypeOK, NEW last \in DispatchTimes \cup {Null}, LastDispatch(last)
             PROVE  LET interval == settings.interval
                        eta(i) == Projected!ProjectEta(i, last, interval, now)
                    IN  /\ eta(0) >= now /\ IsDue(eta(0), interval)
                        /\ \A t \in now .. eta(0) - 1 : ~IsDue(t, interval)
                        /\ \A i \in 1 .. Cardinality(Queued) - 1 :
                             Projected!FirstDue(eta(i), eta(i - 1), eta(i - 1), interval)
  BY DEF EtasAreReleaseTimes
<1>1. now \in Nat /\ settings.interval \in Nat /\ last \in OrNull(Nat)
  BY DEF TypeOK, TableTypeOK, Settings, Row, OrNull, DispatchTimes
<1>2. Projected!ProjectEta(0, last, settings.interval, now)
        = Projected!ProjectAnchor(last, settings.interval, now)
  BY <1>1, HeadIsAnchor
<1>3. Projected!ProjectAnchor(last, settings.interval, now) >= now
  BY <1>1, AnchorIsTime
<1>4. ASSUME NEW i \in 1 .. Cardinality(Queued) - 1
      PROVE  LET before == Projected!ProjectEta(i - 1, last, settings.interval, now) IN
             Projected!FirstDue(Projected!ProjectEta(i, last, settings.interval, now),
                                before, before, settings.interval)
  <2>1. i \in Nat \ {0}
    OBVIOUS
  <2>2. QED
    BY <1>1, <2>1, FollowersAreDue
<1>5. QED
  BY <1>1, <1>2, <1>3, <1>4, GateOpensAtAnchor

\* Whatever was dispatched, requeued or cleared, and whatever the interval is by
\* now: the times the queue projects are those at which the gate releases.
THEOREM EtasAreReleaseTimesAlways == Spec => []EtasAreReleaseTimes
<1>1. QED
  BY TypeCorrect, TypedTimesAgree, PTL
=============================================================================
