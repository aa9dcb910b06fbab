--------------------------- MODULE LifecycleProofs ---------------------------
(***************************************************************************)
(* The server implements Lifecycle, for every set of messages, handlers    *)
(* and instances: each step of a handler is a step of one message's life,  *)
(* a requeue of several, or nothing.  First each step of Lifecycle from    *)
(* what it asks of the table, then the steps of the handlers, then the     *)
(* refinement theorem.                                                     *)
(***************************************************************************)
EXTENDS ServerProofs

LifeInv == CoherenceInv /\ nextToken > 0

\* Only m's row is written, and no token is issued.
Only(m) == (\A n \in Messages \ {m} : rows'[n] = rows[n]) /\ UNCHANGED nextToken

-----------------------------------------------------------------------------
(* The steps of Lifecycle, from the table *)

\* Nothing of a message's life is in the other columns.
LEMMA LifeStutters ==
  ASSUME \A m \in Messages : /\ rows'[m].status = rows[m].status
                             /\ rows'[m].token = rows[m].token,
         UNCHANGED nextToken
  PROVE  UNCHANGED Life!lifecycleVars
  BY DEF Life!lifecycleVars

LEMMA LifeSchedules ==
  ASSUME NEW m \in Messages, Only(m), rows[m].status = "NONE",
         rows'[m].status = "QUEUED", rows'[m].token = Null
  PROVE  Life!LifecycleNext
<1>1. Life!Schedule(m)
  BY DEF Life!Schedule, Only
<1>2. QED
  BY <1>1 DEF Life!LifecycleNext

LEMMA LifeCancels ==
  ASSUME NEW m \in Messages, Only(m), Exists(m),
         rows'[m].status = "CANCELED", rows'[m].token = rows[m].token
  PROVE  Life!LifecycleNext
<1>1. Life!Cancel(m)
  BY DEF Life!Cancel, Life!Present, Exists, MessageStatuses, Life!MessageStatuses, Only
<1>2. QED
  BY <1>1 DEF Life!LifecycleNext

LEMMA LifeProgresses ==
  ASSUME NEW m \in Messages, Only(m), Exists(m), rows[m].status # "QUEUED",
         CanTransition(rows[m].status, rows'[m].status), rows'[m].status \in MessageStatuses,
         rows'[m].token = rows[m].token
  PROVE  Life!LifecycleNext
<1>1. PICK s \in MessageStatuses : s = rows'[m].status
  OBVIOUS
<1>2. Life!CanTransition(rows[m].status, s)
  BY <1>1 DEF CanTransition, Life!CanTransition, IsTerminal, Life!IsTerminal,
              TerminalStatuses, Life!TerminalStatuses, ProgressRank, Life!ProgressRank,
              MessageStatuses, Life!MessageStatuses
<1>3. Life!Progress(m, s)
  BY <1>1, <1>2 DEF Life!Progress, Life!Present, Exists, MessageStatuses, Life!MessageStatuses, Only
<1>4. s \in Life!MessageStatuses
  BY DEF MessageStatuses, Life!MessageStatuses
<1>5. QED
  BY <1>3, <1>4 DEF Life!LifecycleNext

LEMMA LifeDispatches ==
  ASSUME NEW m \in Messages, \A n \in Messages \ {m} : rows'[n] = rows[n],
         rows[m].status = "QUEUED", rows'[m].status = "DISPATCHING",
         rows'[m].token = nextToken, nextToken \in 1 .. MaxClaims, nextToken' = nextToken + 1
  PROVE  Life!LifecycleNext
<1>1. PICK t \in 1 .. MaxClaims : t = nextToken
  OBVIOUS
<1>2. 1 .. nextToken' - 1 = (1 .. nextToken - 1) \cup {t}
  BY <1>1
<1>3. t \notin 1 .. nextToken - 1
  BY <1>1
<1>4. Life!Dispatch(m, t)
  BY <1>1, <1>2, <1>3 DEF Life!Dispatch
<1>5. QED
  BY <1>4 DEF Life!LifecycleNext

LEMMA LifeRequeues ==
  ASSUME NEW M \in SUBSET Messages, \A m \in M : Exists(m),
         \A m \in Messages : /\ rows'[m].status = IF m \in M THEN "QUEUED" ELSE rows[m].status
                             /\ rows'[m].token = IF m \in M THEN Null ELSE rows[m].token,
         UNCHANGED nextToken
  PROVE  Life!LifecycleNext
<1>1. Life!Requeue(M)
  BY DEF Life!Requeue, Life!Present, Exists, MessageStatuses, Life!MessageStatuses
<1>2. QED
  BY <1>1 DEF Life!LifecycleNext

LEMMA LifeClears ==
  ASSUME ClearHistory
  PROVE  Life!LifecycleNext
<1>1. Life!Clear
  BY DEF Life!Clear, Life!Finished, Life!SuccessStatuses, ClearHistory, Clearable, Absent
<1>2. QED
  BY <1>1 DEF Life!LifecycleNext

-----------------------------------------------------------------------------
(* The steps of the handlers *)

\* A step of the server is a step of Lifecycle or leaves it alone.
Lives == [Life!LifecycleNext]_Life!lifecycleVars

\* A write of one row leaves the others alone.
LEMMA OneRow ==
  ASSUME TypeOK, NEW m \in Messages, NEW x, rows' = [rows EXCEPT ![m] = x], UNCHANGED nextToken
  PROVE  rows'[m] = x /\ Only(m)
  BY DEF TypeOK, TableTypeOK, Only

\* A step that writes no row and claims nothing.
LEMMA TableUntouched ==
  ASSUME UNCHANGED <<rows, nextToken>>
  PROVE  Lives
<1>1. UNCHANGED Life!lifecycleVars
  BY LifeStutters
<1>2. QED
  BY <1>1 DEF Lives

\* A write of one row that keeps its status and its token.
LEMMA RowUntouched ==
  ASSUME NEW m \in Messages, Only(m),
         rows'[m].status = rows[m].status, rows'[m].token = rows[m].token
  PROVE  Lives
<1>1. \A n \in Messages : rows'[n].status = rows[n].status /\ rows'[n].token = rows[n].token
  BY DEF Only
<1>2. UNCHANGED Life!lifecycleVars
  BY <1>1, LifeStutters DEF Only
<1>3. QED
  BY <1>2 DEF Lives

\* A write of one row that puts the message back in the queue.
LEMMA RowRequeued ==
  ASSUME NEW m \in Messages, Only(m), Exists(m),
         rows'[m].status = "QUEUED", rows'[m].token = Null
  PROVE  Lives
<1> DEFINE M == {m}
<1>1. \A n \in Messages : /\ rows'[n].status = IF n \in M THEN "QUEUED" ELSE rows[n].status
                          /\ rows'[n].token = IF n \in M THEN Null ELSE rows[n].token
  BY DEF Only
<1>2. M \in SUBSET Messages /\ \A n \in M : Exists(n)
  OBVIOUS
<1> HIDE DEF M
<1>3. Life!LifecycleNext
  BY <1>1, <1>2, LifeRequeues DEF Only
<1>4. QED
  BY <1>3 DEF Lives

\* A handler whose compare-and-set succeeds holds a claimed row.
LEMMA MatchedClaimed ==
  ASSUME CoherenceInv, NEW h \in Reporters, reports[h].pc = "cas", Matches(reports[h])
  PROVE  LET r == reports[h] IN
         /\ r \in Report /\ r.msg \in Messages /\ rows[r.msg] \in Row
         /\ Exists(r.msg) /\ rows[r.msg].status = r.seen.status
         /\ rows[r.msg].status # "QUEUED"
<1> DEFINE r == reports[h]
<1>1. ReportsTypeOK /\ TableTypeOK /\ HandlersCurrent /\ LeaseCoherence
  BY DEF CoherenceInv, TypeOK
<1>2. r \in Report
  BY <1>1, BusyTyped
<1>3. r.msg \in Messages /\ r.token \in Nat /\ r.seen \in Seen
  BY <1>2 DEF Report
<1>4. rows[r.msg].status = r.seen.status /\ rows[r.msg].token = r.token
  BY <1>1 DEF Matches, HandlersCurrent
<1>5. rows[r.msg] \in Row /\ Coherent(rows[r.msg])
  BY <1>1, <1>3 DEF TableTypeOK, LeaseCoherence
<1>6. rows[r.msg].status # "QUEUED"
  BY <1>3, <1>4, <1>5, NullAssumption DEF Coherent
<1>7. Exists(r.msg)
  BY <1>3, <1>4 DEF Exists, Seen
<1>8. QED
  BY <1>2, <1>3, <1>4, <1>5, <1>6, <1>7

\* A report progresses its message, sends it back to the queue or changes
\* nothing of its life (applyOnce).
LEMMA ReportLives ==
  ASSUME LifeInv, NEW h \in Reporters, ReportStep(h)
  PROVE  Lives
<1> DEFINE r == reports[h]
<1>1. TypeOK /\ CoherenceInv
  BY DEF LifeInv, CoherenceInv
<1>2. CASE PersistFacts(h)
  <2>1. r \in Report /\ r.msg \in Messages /\ rows[r.msg] \in Row
    BY <1>1, <1>2, MatchedClaimed DEF PersistFacts
  <2>2. rows' = [rows EXCEPT ![r.msg] = WithFacts(rows[r.msg], r)] /\ UNCHANGED nextToken
    BY <1>2 DEF PersistFacts
  <2>3. rows'[r.msg] = WithFacts(rows[r.msg], r) /\ Only(r.msg)
    BY <1>1, <2>1, <2>2, OneRow
  <2>4. rows'[r.msg].status = rows[r.msg].status /\ rows'[r.msg].token = rows[r.msg].token
    BY <2>1, <2>3, ReportedColumns
  <2>5. QED
    BY <2>1, <2>3, <2>4, RowUntouched
<1>3. CASE RequeueFailure(h)
  <2>1. r.msg \in Messages /\ rows[r.msg] \in Row /\ Exists(r.msg)
    BY <1>1, <1>3, MatchedClaimed DEF RequeueFailure
  <2>2. rows' = [rows EXCEPT ![r.msg] = Requeued(rows[r.msg])] /\ UNCHANGED nextToken
    BY <1>3 DEF RequeueFailure
  <2>3. Requeued(rows[r.msg]).status = "QUEUED" /\ Requeued(rows[r.msg]).token = Null
    BY <2>1 DEF Requeued, Row
  <2>4. QED
    BY <1>1, <2>1, <2>2, <2>3, OneRow, RowRequeued
<1>4. CASE ApplyReport(h)
  <2>1. /\ r \in Report /\ r.msg \in Messages /\ rows[r.msg] \in Row
        /\ Exists(r.msg) /\ rows[r.msg].status = r.seen.status
        /\ rows[r.msg].status # "QUEUED"
    BY <1>1, <1>4, MatchedClaimed DEF ApplyReport
  <2>2. rows' = [rows EXCEPT ![r.msg] = Advanced(rows[r.msg], r)] /\ UNCHANGED nextToken
    BY <1>4 DEF ApplyReport
  <2>3. rows'[r.msg] = Advanced(rows[r.msg], r) /\ Only(r.msg)
    BY <1>1, <2>1, <2>2, OneRow
  <2>4. rows'[r.msg].status = r.status /\ rows'[r.msg].token = rows[r.msg].token
    BY <2>1, <2>3, ReportedColumns
  <2>5. CanTransition(rows[r.msg].status, rows'[r.msg].status)
    BY <1>4, <2>1, <2>4 DEF ApplyReport, Advances
  <2>6. rows'[r.msg].status \in MessageStatuses
    BY <2>1, <2>4 DEF Report
  <2>7. Life!LifecycleNext
    BY <2>1, <2>3, <2>4, <2>5, <2>6, LifeProgresses
  <2>8. QED
    BY <2>7 DEF Lives
<1>5. CASE UNCHANGED tableVars
  BY <1>5, TableUntouched DEF tableVars
<1>6. QED
  BY <1>2, <1>3, <1>4, <1>5
     DEF ReportStep, IgnoreStale, IgnoreReplay, ReadRow, ReadBudget, RetryReport, LoseReport

\* An operator schedules, cancels, requeues or clears; the override and the
\* settings are nothing of a message's life (messages.ts, forceDispatch).
LEMMA OperatorLives ==
  ASSUME LifeInv, (\E o \in Operators : OpStep(o)) \/ ClearHistory \/ UpdateSettings
  PROVE  Lives
<1>1. TypeOK /\ TableTypeOK /\ OpsTypeOK
  BY DEF LifeInv, CoherenceInv, TypeOK
<1>2. ASSUME NEW o \in Operators, NEW k, Pending(o, k)
      PROVE  ops[o].msg \in Messages /\ rows[ops[o].msg] \in Row
  BY <1>1, <1>2 DEF Pending, OpsTypeOK, TableTypeOK
<1>3. ASSUME NEW o \in Operators, CreateMessage(o) PROVE Lives
  <2>1. PICK m \in Messages :
          rows[m].status = "NONE" /\ rows' = [rows EXCEPT ![m] = NewRow(nextSeq)]
    BY <1>3 DEF CreateMessage
  <2>2. NewRow(nextSeq).status = "QUEUED" /\ NewRow(nextSeq).token = Null
    BY DEF NewRow, Absent
  <2>3. UNCHANGED nextToken
    BY <1>3 DEF CreateMessage
  <2>4. Life!LifecycleNext
    BY <1>1, <2>1, <2>2, <2>3, OneRow, LifeSchedules
  <2>5. QED
    BY <2>4 DEF Lives
<1>4. ASSUME NEW o \in Operators, CancelWrite(o) PROVE Lives
  <2> DEFINE m == ops[o].msg
             x == [rows[m] EXCEPT !.status = "CANCELED"]
  <2>1. m \in Messages /\ rows[m] \in Row /\ Exists(m)
    BY <1>2, <1>4 DEF CancelWrite
  <2>2. rows' = [rows EXCEPT ![m] = x] /\ UNCHANGED nextToken
    BY <1>1, <1>4 DEF CancelWrite, TableTypeOK
  <2>3. x.status = "CANCELED" /\ x.token = rows[m].token
    BY <2>1 DEF Row
  <2>4. rows'[m] = x /\ Only(m)
    BY <1>1, <2>1, <2>2, OneRow
  <2>5. Life!LifecycleNext
    BY <2>1, <2>3, <2>4, LifeCancels
  <2>6. QED
    BY <2>5 DEF Lives
<1>5. ASSUME NEW o \in Operators, RetryWrite(o) PROVE Lives
  <2> DEFINE m == ops[o].msg
  <2>1. m \in Messages /\ rows[m] \in Row /\ Exists(m)
    BY <1>2, <1>5 DEF RetryWrite
  <2>2. rows' = [rows EXCEPT ![m] = Retried(rows[m])] /\ UNCHANGED nextToken
    BY <1>5 DEF RetryWrite
  <2>3. Retried(rows[m]).status = "QUEUED" /\ Retried(rows[m]).token = Null
    BY <2>1 DEF Retried, Row
  <2>4. QED
    BY <1>1, <2>1, <2>2, <2>3, OneRow, RowRequeued
<1>6. ASSUME NEW o \in Operators, ForceWrite(o) PROVE Lives
  <2> DEFINE m == ops[o].msg
             x == [rows[m] EXCEPT !.force = TRUE]
  <2>1. m \in Messages /\ rows[m] \in Row
    BY <1>2, <1>6 DEF ForceWrite
  <2>2. rows' = [rows EXCEPT ![m] = x] /\ UNCHANGED nextToken
    BY <1>1, <1>6 DEF ForceWrite, TableTypeOK
  <2>3. x.status = rows[m].status /\ x.token = rows[m].token
    BY <2>1 DEF Row
  <2>4. QED
    BY <1>1, <2>1, <2>2, <2>3, OneRow, RowUntouched
<1>7. ASSUME NEW o \in Operators, CreateEvent(o) \/ BeginRequest(o) \/ AbandonRequest(o)
      PROVE  Lives
  BY <1>7, TableUntouched DEF CreateEvent, BeginRequest, AbandonRequest, tableVars
<1>8. CASE ClearHistory
  BY <1>8, LifeClears DEF Lives
<1>9. CASE UpdateSettings
  BY <1>9, TableUntouched DEF UpdateSettings
<1>10. QED
  BY <1>3, <1>4, <1>5, <1>6, <1>7, <1>8, <1>9 DEF OpStep

\* A poll dispatches the message it claims, under a new attempt
\* (claimNextMessage).
LEMMA PollLives ==
  ASSUME LifeInv, NEW p \in Pollers, NEW locked, PollStep(p, locked)
  PROVE  Lives
<1>1. TypeOK /\ TableTypeOK /\ nextToken > 0
  BY DEF LifeInv, CoherenceInv, TypeOK
<1>2. CASE Claim(p, locked)
  <2>1. PICK m \in Messages :
          rows[m].status = "QUEUED" /\ rows' = [rows EXCEPT ![m] = Claimed(rows[m], nextToken)]
    BY <1>2 DEF Claim, Queued
  <2>2. nextToken \in 1 .. MaxClaims /\ nextToken' = nextToken + 1
    BY <1>1, <1>2, BoundAssumption DEF Claim, TableTypeOK
  <2>3. /\ Claimed(rows[m], nextToken).status = "DISPATCHING"
        /\ Claimed(rows[m], nextToken).token = nextToken
    BY <1>1 DEF Claimed, TableTypeOK, Row
  <2>4. /\ \A n \in Messages \ {m} : rows'[n] = rows[n]
        /\ rows'[m] = Claimed(rows[m], nextToken)
    BY <1>1, <2>1 DEF TableTypeOK
  <2>5. Life!LifecycleNext
    BY <2>1, <2>2, <2>3, <2>4, LifeDispatches
  <2>6. QED
    BY <2>5 DEF Lives
<1>3. CASE BeginTurn(p) \/ PassGate(p) \/ EndTurn(p) \/ Respond(p) \/ LoseLease(p)
  BY <1>3, TableUntouched DEF BeginTurn, PassGate, EndTurn, Respond, LoseLease, tableVars
<1>4. QED
  BY <1>2, <1>3 DEF PollStep

\* A sweep requeues what it found, or fails an abandoned send
\* (reapExpiredLeases, failAbandonedSends).
LEMMA SweepLives ==
  ASSUME LifeInv, NEW s \in Sweepers, SweepStep(s)
  PROVE  Lives
<1>1. TypeOK /\ TableTypeOK /\ SweepsTypeOK
  BY DEF LifeInv, CoherenceInv, TypeOK
<1>2. CASE RequeueExpired(s)
  <2> DEFINE M == {m \in Messages : m \in sweeps[s].ids /\ Exists(m)}
  <2>1. M \in SUBSET Messages /\ \A m \in M : Exists(m)
    OBVIOUS
  <2>2. \A m \in Messages : rows'[m] = IF m \in M THEN Reaped(rows[m]) ELSE rows[m]
    BY <1>2 DEF RequeueExpired
  <2>3. \A m \in Messages : Reaped(rows[m]).status = "QUEUED" /\ Reaped(rows[m]).token = Null
    BY <1>1 DEF Reaped, TableTypeOK, Row
  <2>4. UNCHANGED nextToken
    BY <1>2 DEF RequeueExpired
  <2> HIDE DEF M
  <2>5. \A m \in Messages : /\ rows'[m].status = IF m \in M THEN "QUEUED" ELSE rows[m].status
                            /\ rows'[m].token = IF m \in M THEN Null ELSE rows[m].token
    BY <2>2, <2>3
  <2>6. Life!LifecycleNext
    BY <2>1, <2>4, <2>5, LifeRequeues
  <2>7. QED
    BY <2>6 DEF Lives
<1>3. CASE FailAbandoned(s)
  <2>1. PICK m \in sweeps[s].ids :
          StillAbandoned(m) /\ rows' = [rows EXCEPT ![m] = Abandoned(rows[m])]
    BY <1>3 DEF FailAbandoned
  <2>2. m \in Messages /\ rows[m] \in Row
    BY <1>1, <2>1 DEF SweepsTypeOK, Sweep, TableTypeOK
  <2>3. Abandoned(rows[m]).status = "FAILED" /\ Abandoned(rows[m]).token = rows[m].token
    BY <2>2 DEF Abandoned, Row
  <2>4. rows'[m] = Abandoned(rows[m]) /\ Only(m)
    BY <1>1, <1>3, <2>1, <2>2, OneRow DEF FailAbandoned
  <2>5. Exists(m) /\ rows[m].status # "QUEUED" /\ CanTransition(rows[m].status, "FAILED")
    BY <2>1 DEF StillAbandoned, Exists, MessageStatuses, CanTransition, IsTerminal, TerminalStatuses
  <2>6. "FAILED" \in MessageStatuses
    BY DEF MessageStatuses
  <2>7. Life!LifecycleNext
    BY <2>2, <2>3, <2>4, <2>5, <2>6, LifeProgresses
  <2>8. QED
    BY <2>7 DEF Lives
<1>4. CASE UNCHANGED tableVars
  BY <1>4, TableUntouched DEF tableVars
<1>5. QED
  BY <1>2, <1>3, <1>4
     DEF SweepStep, SweepProgress, ReadExpired, ReadAbandoned, SkipAbandoned, AbortSweep

-----------------------------------------------------------------------------
(* The refinement *)

\* A server without messages is where every life begins.
LEMMA InitLives == Init => LifeInv /\ Life!LifecycleInit
<1> SUFFICES ASSUME Init PROVE LifeInv /\ Life!LifecycleInit
  OBVIOUS
<1>1. \A m \in Messages : rows[m].status = "NONE" /\ rows[m].token = Null
  BY DEF Init, TableInit, Absent
<1>2. nextToken = 1
  BY DEF Init, TableInit
<1>3. 1 .. nextToken - 1 = {}
  BY <1>2
<1>4. Life!LifecycleInit
  BY <1>1, <1>3 DEF Life!LifecycleInit
<1>5. QED
  BY <1>2, <1>4, InitCoherent DEF LifeInv

LEMMA StepLives == LifeInv /\ [Next]_vars => LifeInv' /\ Lives
<1> SUFFICES ASSUME LifeInv, [Next]_vars PROVE LifeInv' /\ Lives
  OBVIOUS
<1>1. TypeOK /\ nextToken \in Nat /\ nextToken > 0
  BY DEF LifeInv, CoherenceInv, TypeOK, TableTypeOK
<1>2. CoherenceInv'
  BY StepCoherent DEF LifeInv
<1>3. CASE TimePasses
  BY <1>1, <1>2, <1>3, TableUntouched DEF TimePasses, Tick, LifeInv
<1>4. CASE Reporting
  BY <1>1, <1>2, <1>4, ReportLives, ReportKeepsTokens DEF Reporting, TokensKept, LifeInv
<1>5. CASE Operating
  BY <1>1, <1>2, <1>5, OperatorLives, OperatorKeepsTokens DEF Operating, TokensKept, LifeInv
<1>6. CASE Polling
  <2>1. PICK p \in Pollers : PollStep(p, Locked)
    BY <1>6 DEF Polling
  <2>2. nextToken' \in {nextToken, nextToken + 1}
    BY <2>1 DEF PollStep, BeginTurn, PassGate, EndTurn, Claim, Respond, LoseLease, tableVars
  <2>3. nextToken' > 0
    BY <1>1, <2>2
  <2>4. QED
    BY <1>2, <2>1, <2>3, PollLives DEF LifeInv
<1>7. CASE Sweeping
  BY <1>1, <1>2, <1>7, SweepLives, SweepKeepsTokens DEF Sweeping, TokensKept, LifeInv
<1>8. CASE UNCHANGED vars
  BY <1>1, <1>2, <1>8, TableUntouched DEF vars, tableVars, LifeInv
<1>9. QED
  BY <1>3, <1>4, <1>5, <1>6, <1>7, <1>8 DEF Next

\* However its handlers interleave, the server gives every message the life
\* Lifecycle describes (the writers of the messages table).
THEOREM ServerLives == Spec => LivesAsSpecified
<1>1. QED
  BY InitLives, StepLives, PTL DEF Spec, Lives, LivesAsSpecified, Life!LifecycleSpec
=============================================================================
