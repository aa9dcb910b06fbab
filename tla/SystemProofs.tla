----------------------------- MODULE SystemProofs -----------------------------
(***************************************************************************)
(* The server and its gateways: types, the double-send guard, and the      *)
(* lives of the messages, for any number of messages, gateways, operators  *)
(* and sweeps and every fault a run may be given.                          *)
(***************************************************************************)
EXTENDS System, LifecycleProofs, FiniteSetTheorems

\* The loop of g has a lease in hand (runner/index.ts, between two polls it has none).
Handles(g) == gateways[g].pc \notin {"down", "claim"}

\* A lease that was handed out is in one pair of hands: one loop's, or one
\* watcher's after it (lease.ts returns when the watcher is started).
HeldOnce ==
  /\ \A g \in Gateways : Handles(g) => gateways[g].lease \in granted
  /\ \A g, h \in Gateways :
       g # h /\ Handles(g) /\ Handles(h) => gateways[g].lease.token # gateways[h].lease.token
  /\ \A t \in Attempts : watches[t] # NoWatch =>
       /\ watches[t].lease \in granted /\ watches[t].lease.token = t
       /\ watches[t].by \in Gateways
       /\ \A g \in Gateways : Handles(g) => gateways[g].lease.token # t

\* The report a watcher waits for is the first of its chain, and it waits for no
\* other (watchers.ts: each report is chained to the one before it).
AnswersAwaited ==
  \A w \in wire : w.awaited /\ w.by = "watch" =>
    /\ w.token \in Attempts
    /\ watches[w.token].busy /\ watches[w.token].by = w.from
    /\ watches[w.token].lease.msg = w.msg
    /\ watches[w.token].chain # <<>> /\ Head(watches[w.token].chain) = w.status
    /\ w.guid = Null

-----------------------------------------------------------------------------
(* What a report does to a row *)

\* A report applied in one step is one of applyOnce's three writes, with the
\* report a handler would have held.
LEMMA AppliedCases ==
  ASSUME TypeOK, NEW w \in Request, Current(w)
  PROVE  LET row == rows[w.msg]
             new == AppliedAlone(row, ReportOf(w))
         IN  \E r \in Report :
               /\ r.status = w.status
               /\ \/ ~CanTransition(row.status, r.status) /\ new = WithFacts(row, r)
                  \/ CanTransition(row.status, r.status) /\ new = Requeued(row)
                  \/ CanTransition(row.status, r.status) /\ new = Advanced(row, r)
<1> DEFINE row == rows[w.msg]
           now_ == [ReportOf(w) EXCEPT !.seen.guid = row.guid]
           r == [pc |-> "cas", msg |-> w.msg, token |-> w.token, status |-> w.status,
                 guid |-> w.guid, seen |-> SeenOf(w.msg), budget |-> settings.budget, tries |-> 1]
<1>1. w.msg \in Messages /\ w.token \in Nat /\ w.status \in MessageStatuses
      /\ w.guid \in OrNull(Nat)
  BY DEF Request
<1>2. SeenOf(w.msg) \in Seen
  BY <1>1, SeenTyped DEF Current, TypeOK
<1>3. settings.budget \in Nat
  BY DEF TypeOK, TableTypeOK, Settings
<1>4. r \in Report
  BY <1>1, <1>2, <1>3 DEF Report
<1>5. r.status = w.status /\ r.guid = w.guid /\ r.seen.guid = row.guid
  BY DEF SeenOf
<1>6. now_.status = w.status /\ now_.guid = w.guid /\ now_.seen.guid = row.guid
      /\ ReportOf(w).status = w.status
  BY DEF ReportOf
<1> HIDE DEF r, now_
<1>7. WithFacts(row, now_) = WithFacts(row, r)
  BY <1>5, <1>6 DEF WithFacts
<1>8. Advanced(row, now_) = Advanced(row, r)
  BY <1>5, <1>6, <1>7 DEF Advanced
<1>9. \/ ~CanTransition(row.status, w.status) /\ AppliedAlone(row, ReportOf(w)) = WithFacts(row, now_)
      \/ CanTransition(row.status, w.status) /\ AppliedAlone(row, ReportOf(w)) = Requeued(row)
      \/ CanTransition(row.status, w.status) /\ AppliedAlone(row, ReportOf(w)) = Advanced(row, now_)
  BY <1>6 DEF AppliedAlone, now_
<1>10. QED
  BY <1>4, <1>5, <1>7, <1>8, <1>9

\* The row a report leaves behind: typed, coherent, of the same attempt or of none,
\* and with the GUID it had unless the report sent the message back to the queue.
LEMMA AppliedRow ==
  ASSUME TypeOK, LeaseCoherence, NEW w \in Request, Current(w)
  PROVE  LET row == rows[w.msg]
             new == AppliedAlone(row, ReportOf(w))
         IN  /\ new \in Row /\ Coherent(new)
             /\ new.token \in {row.token, Null}
             /\ new.status \in MessageStatuses
             /\ row.status # "QUEUED"
             /\ new.status # "QUEUED" /\ row.guid # Null => new.guid # Null
<1> DEFINE row == rows[w.msg]
           new == AppliedAlone(row, ReportOf(w))
<1>1. w.msg \in Messages /\ w.token \in Nat
  BY DEF Request
<1>2. row \in Row /\ row.status \in MessageStatuses /\ row.token # Null /\ Coherent(row)
  BY <1>1, NullAssumption DEF TypeOK, TableTypeOK, LeaseCoherence, Current, Exists
<1>3. row.status # "QUEUED"
  BY <1>2 DEF Coherent
<1>4. PICK r \in Report :
        \/ ~CanTransition(row.status, r.status) /\ new = WithFacts(row, r)
        \/ CanTransition(row.status, r.status) /\ new = Requeued(row)
        \/ CanTransition(row.status, r.status) /\ new = Advanced(row, r)
  BY AppliedCases
<1> HIDE DEF row, new
<1>5. r.status \in MessageStatuses
  BY DEF Report
<1>6. row.guid # Null => WithFacts(row, r).guid # Null /\ Advanced(row, r).guid # Null
  <2>1. WithFacts(row, r).guid = IF r.guid # Null /\ r.seen.guid = Null THEN r.guid ELSE row.guid
    BY <1>2 DEF WithFacts, Row
  <2>2. WithFacts(row, r) \in Row
    BY <1>2, ReportedTyped
  <2>3. Advanced(row, r).guid = WithFacts(row, r).guid
    BY <2>2 DEF Advanced, Row
  <2>4. QED
    BY <2>1, <2>3
<1>7. Requeued(row).status = "QUEUED" /\ Requeued(row).token = Null
  BY <1>2 DEF Requeued, Row
<1>8. new \in Row
  BY <1>2, <1>4, ReportedTyped
<1>9. Coherent(new)
  BY <1>2, <1>4, WrittenCoherent, ReportedCoherent
<1>10. new.token \in {row.token, Null} /\ new.status \in MessageStatuses
  <2>1. "QUEUED" \in MessageStatuses
    BY DEF MessageStatuses
  <2>2. QED
    BY <1>2, <1>4, <1>5, <1>7, <2>1, ReportedColumns
<1>11. new.status # "QUEUED" /\ row.guid # Null => new.guid # Null
  BY <1>4, <1>6, <1>7
<1>12. QED
  BY <1>3, <1>8, <1>9, <1>10, <1>11 DEF row, new

-----------------------------------------------------------------------------
(* The server's half of the invariant *)

ServerInv == AttemptsInv /\ CoherenceInv

\* The server's own steps keep what Server is proved to keep.
LEMMA ServerStepKept ==
  ServerInv /\ [Next]_vars => ServerInv'
  BY StepDistinct, StepCoherent DEF ServerInv

\* So does a report that is applied in one step (applyStatusReport).
LEMMA ApplyKept ==
  ASSUME ServerInv, NEW w \in Request, Apply(w), UNCHANGED <<reportVars, ops, pollVars, sweeps>>
  PROVE  ServerInv'
<1> DEFINE new == AppliedAlone(rows[w.msg], ReportOf(w))
<1>1. TypeOK /\ TableTypeOK /\ LeaseCoherence /\ HandlersCurrent /\ AttemptsInv
  BY DEF ServerInv, AttemptsInv, CoherenceInv, TypeOK
<1>2. UNCHANGED <<settings, now, nextToken, nextSeq, granted, reports, acked, ops, polls,
                  lastClaim, sweeps>>
  BY DEF Apply, reportVars, pollVars
<1>3. w.msg \in Messages
  BY DEF Request
<1>4. CASE ~Current(w)
  <2>1. UNCHANGED vars
    BY <1>2, <1>4 DEF Apply, vars, tableVars, reportVars, pollVars
  <2>2. QED
    BY <2>1, ServerStepKept
<1>5. CASE Current(w)
  <2>1. /\ new \in Row /\ Coherent(new) /\ new.token \in {rows[w.msg].token, Null}
        /\ new.status \in MessageStatuses
    BY <1>1, <1>5, AppliedRow
  <2>2. rows' = [rows EXCEPT ![w.msg] = new]
    BY <1>5 DEF Apply
  <2>3. UNCHANGED events \/ RecordEvent(w.msg, new.status)
    BY <1>5 DEF Apply
  <2> HIDE DEF new
  <2>4. rows' \in [Messages -> Row]
    BY <1>1, <1>3, <2>1, <2>2, RowTyped
  <2>5. events' \in [Messages -> SUBSET MessageStatuses]
    BY <1>1, <1>3, <2>1, <2>3, EventTyped DEF TableTypeOK
  <2>6. TableTypeOK'
    BY <1>1, <1>2, <2>4, <2>5 DEF TableTypeOK
  <2>7. TypeOK'
    BY <1>1, <1>2, <2>6 DEF TypeOK, ReportsTypeOK, OpsTypeOK, PollsTypeOK, SweepsTypeOK
  <2>8. HandlersCurrent' /\ LeaseCoherence'
    BY <1>1, <1>2, <1>3, <2>1, <2>2 DEF HandlersCurrent, LeaseCoherence, TableTypeOK
  <2>9. TokensKept
    BY <1>1, <1>2, <1>3, <2>1, <2>2 DEF TokensKept, TableTypeOK
  <2>10. TokensIssued' /\ AttemptsDistinct'
    BY <1>1, <1>2, <2>9, KeptDistinct
  <2>11. QED
    BY <2>7, <2>8, <2>10 DEF ServerInv, AttemptsInv, CoherenceInv
<1>6. QED
  BY <1>4, <1>5

\* Whatever the system does, its server does one of Server's steps or applies a report.
LEMMA ServerHalf ==
  ASSUME GatewayTypeOK, ServerInv, [SystemNext]_systemVars
  PROVE  ServerInv'
<1>1. ASSUME [Next]_vars PROVE ServerInv'
  BY <1>1, ServerStepKept
<1>2. CASE ServerRuns
  BY <1>1, <1>2 DEF ServerRuns, Next
<1>3. CASE Claiming
  <2>1. PICK g \in Gateways : PollRuns(g) /\ UNCHANGED <<reportVars, ops, sweeps>>
    BY <1>3 DEF Claiming
  <2>2. PollStep(g, Locked)
    BY <2>1 DEF PollRuns, PollStep
  <2>3. QED
    BY <1>1, <2>1, <2>2, GatewaysPoll DEF Polling, Next
<1>4. CASE GatewaysRun
  BY <1>1, <1>4 DEF GatewaysRun
<1>5. ASSUME NEW t \in Attempts, WatchersRun(t) PROVE ServerInv'
  BY <1>1, <1>5 DEF WatchersRun
<1>6. ASSUME NEW t \in Attempts, Reports(t) PROVE ServerInv'
  <2>1. PICK w \in wire :
          /\ \/ Apply(w) \/ Refuse(w) \/ UNCHANGED tableVars
          /\ UNCHANGED <<reportVars, ops, pollVars, sweeps>>
    BY <1>6 DEF Reports
  <2>2. w \in Request
    BY DEF GatewayTypeOK
  <2>3. CASE Apply(w)
    BY <2>1, <2>2, <2>3, ApplyKept
  <2>4. CASE UNCHANGED tableVars
    BY <1>1, <2>1, <2>4 DEF vars
  <2>5. QED
    BY <2>1, <2>3, <2>4 DEF Refuse
<1>7. CASE UNCHANGED systemVars
  BY <1>1, <1>7 DEF systemVars
<1>8. QED
  BY <1>2, <1>3, <1>4, <1>5, <1>6, <1>7 DEF SystemNext

\* The messages start out scheduled, in some order.
LEMMA SystemInitServer ==
  SystemInit => ServerInv /\ nextToken = 1 /\ granted = {} /\ \A p \in Pollers : ~Responding(p)
<1> SUFFICES ASSUME SystemInit
             PROVE  ServerInv /\ nextToken = 1 /\ granted = {}
                    /\ \A p \in Pollers : ~Responding(p)
  OBVIOUS
<1>1. Cardinality(Messages) \in Nat
  BY QueueAssumption, FS_CardinalityType
<1>2. PICK order \in [Messages -> 1 .. Cardinality(Messages)] :
        rows = [m \in Messages |-> NewRow(order[m])]
  BY DEF SystemInit, SomeQueue
<1>3. \A m \in Messages : rows[m] \in Row /\ Coherent(rows[m]) /\ rows[m].token = Null
  <2>1. \A m \in Messages : order[m] \in Nat
    BY <1>1
  <2>2. \A q : NewRow(q).token = Null
    BY DEF NewRow, Absent
  <2>3. QED
    BY <1>2, <2>1, <2>2, AbsentTyped, FreshCoherent
<1>4. TableTypeOK
  <2>1. rows \in [Messages -> Row]
    BY <1>2, <1>3
  <2>2. settings \in Settings
    BY IntervalAssumption, BudgetAssumption DEF SystemInit, SomeQueue, Settings
  <2>3. events \in [Messages -> SUBSET MessageStatuses]
    BY DEF SystemInit, SomeQueue, MessageStatuses
  <2>4. QED
    BY <1>1, <2>1, <2>2, <2>3 DEF SystemInit, SomeQueue, TableTypeOK
<1>5. TypeOK
  BY <1>4 DEF TypeOK, SystemInit, ReportsInit, ReportsTypeOK, OpsInit, OpsTypeOK, NoOp, Op, OrNull,
              PollsInit, PollsTypeOK, NoPoll, Poll, SweepsInit, SweepsTypeOK, NoSweep, Sweep
<1>6. HandlersCurrent /\ LeaseCoherence
  BY <1>3 DEF SystemInit, ReportsInit, HandlersCurrent, NoReport, LeaseCoherence
<1>7. granted = {} /\ nextToken = 1 /\ \A p \in Pollers : ~Responding(p)
  BY DEF SystemInit, SomeQueue, PollsInit, NoPoll, Responding
<1>8. TokensIssued /\ AttemptsDistinct
  BY <1>3, <1>7 DEF TokensIssued, AttemptsDistinct
<1>9. QED
  BY <1>5, <1>6, <1>7, <1>8 DEF ServerInv, AttemptsInv, CoherenceInv

-----------------------------------------------------------------------------
(* The gateways' half: types, who holds a lease, who waits for an answer *)

GatewayInv == GatewayTypeOK /\ HeldOnce /\ AnswersAwaited

\* What a loop holds while it handles a lease.
LEMMA HandledTyped ==
  ASSUME ServerInv, GatewayInv, NEW g \in Gateways, Handles(g)
  PROVE  /\ gateways[g] \in Loop /\ gateways[g].lease \in Lease /\ gateways[g].lease \in granted
         /\ gateways[g].lease.token \in Nat /\ gateways[g].lease.guid \in OrNull(Nat)
  BY DEF ServerInv, AttemptsInv, TypeOK, TableTypeOK, GatewayInv, GatewayTypeOK, HeldOnce, Lease

\* The records a loop, a row of chat.db, a watcher and the wire start from.
LEMMA EmptyTyped ==
  /\ NoRow \in ChatRow
  /\ NoWatch \in Watch /\ ~NoWatch.busy /\ NoWatch.chain = <<>> /\ ~NoWatch.on
  /\ \A g \in Gateways : Turn(g) \in Loop /\ Turn(g).pc \in {"down", "claim"}
  /\ Down \in Loop /\ Down.pc = "down"
<1>1. NoRow \in ChatRow
  BY DEF NoRow, ChatRow, ChatStates, OrNull
<1>2. NoWatch \in Watch /\ ~NoWatch.busy /\ NoWatch.chain = <<>> /\ ~NoWatch.on
  <2>1. <<>> \in Seq({"SENT", "DELIVERED", "RECEIVED", "FAILED"})
    OBVIOUS
  <2>2. QED
    BY <2>1 DEF NoWatch, Watch, OrNull
<1>3. Down \in Loop /\ Down.pc = "down"
  BY DEF Down, Loop
<1>4. [Down EXCEPT !.pc = "claim"] \in Loop /\ [Down EXCEPT !.pc = "claim"].pc = "claim"
  BY DEF Down, Loop
<1>5. QED
  BY <1>1, <1>2, <1>3, <1>4 DEF Turn

LEMMA PostTyped ==
  ASSUME NEW g \in Gateways, NEW by \in {"loop", "watch"}, NEW l \in Lease,
         NEW status \in MessageStatuses, NEW guid \in OrNull(Nat)
  PROVE  Post(g, by, l, status, guid) \in Request
  BY DEF Post, Request, Lease

\* A step after which nobody holds a lease he did not hold before.
LEMMA HeldFrame ==
  ASSUME GatewayInv, granted \subseteq granted',
         \A h \in Gateways : Handles(h)' => Handles(h) /\ gateways'[h].lease = gateways[h].lease,
         \A t \in Attempts : watches'[t] # NoWatch =>
           /\ watches[t] # NoWatch
           /\ watches'[t].lease = watches[t].lease /\ watches'[t].by = watches[t].by
  PROVE  HeldOnce'
  BY DEF GatewayInv, HeldOnce

\* A step of one loop that takes no new lease.
LEMMA LoopFrame ==
  ASSUME GatewayInv, UNCHANGED <<granted, watches>>, NEW g \in Gateways, NEW x \in Loop,
         gateways' = [gateways EXCEPT ![g] = x],
         x.pc \notin {"down", "claim"} => Handles(g) /\ x.lease = gateways[g].lease
  PROVE  HeldOnce' /\ gateways' \in [Gateways -> Loop]
<1>1. gateways \in [Gateways -> Loop]
  BY DEF GatewayInv, GatewayTypeOK
<1>2. \A h \in Gateways : Handles(h)' => Handles(h) /\ gateways'[h].lease = gateways[h].lease
  BY <1>1 DEF Handles
<1>3. QED
  BY <1>1, <1>2, HeldFrame

\* A step after which no watcher waits for anything new.
LEMMA AwaitedFrame ==
  ASSUME GatewayInv, UNCHANGED watches,
         \A w \in wire' : w.awaited /\ w.by = "watch" => w \in wire
  PROVE  AnswersAwaited'
  BY DEF GatewayInv, AnswersAwaited

\* A loop that has a lease moves on and posts a report of it.
LEMMA AskKept ==
  ASSUME ServerInv, GatewayInv, UNCHANGED <<granted, watches>>, NEW g \in Gateways, Handles(g),
         NEW pc \in Awaiting, NEW status \in MessageStatuses, NEW guid \in OrNull(Nat),
         gateways' = [gateways EXCEPT ![g].pc = pc],
         NEW left \in SUBSET Request, \A w \in left : w.awaited /\ w.by = "watch" => w \in wire,
         wire' = left \cup {Post(g, "loop", gateways[g].lease, status, guid)}
  PROVE  /\ HeldOnce' /\ AnswersAwaited'
         /\ gateways' \in [Gateways -> Loop] /\ wire' \in SUBSET Request
<1> DEFINE x == [gateways[g] EXCEPT !.pc = pc]
<1>1. gateways \in [Gateways -> Loop] /\ gateways[g] \in Loop /\ gateways[g].lease \in Lease
  BY HandledTyped DEF GatewayInv, GatewayTypeOK
<1>2. x \in Loop /\ x.lease = gateways[g].lease
  BY <1>1 DEF Loop
<1>3. gateways' = [gateways EXCEPT ![g] = x]
  BY <1>1
<1> HIDE DEF x
<1>4. HeldOnce' /\ gateways' \in [Gateways -> Loop]
  BY <1>2, <1>3, LoopFrame
<1>5. wire' \in SUBSET Request
  BY <1>1, PostTyped
<1>6. Post(g, "loop", gateways[g].lease, status, guid).by = "loop"
  BY DEF Post
<1>7. AnswersAwaited'
  BY <1>6, AwaitedFrame
<1>8. QED
  BY <1>4, <1>5, <1>7

\* A process that ends takes its watchers along; what it posted may still arrive,
\* but nobody waits for it (watchers.stopAll, a crash).
LEMMA StopKept ==
  ASSUME GatewayInv, NEW g \in Gateways, StopWatches(g), wire' = Unheard(g)
  PROVE  /\ watches' \in [Attempts -> Watch] /\ wire' \in SUBSET Request /\ AnswersAwaited'
         /\ \A t \in Attempts : watches'[t] # NoWatch =>
              /\ watches[t] # NoWatch
              /\ watches'[t].lease = watches[t].lease /\ watches'[t].by = watches[t].by
<1>1. watches \in [Attempts -> Watch] /\ wire \in SUBSET Request /\ AnswersAwaited
  BY DEF GatewayInv, GatewayTypeOK
<1> DEFINE Ended(v) == [v EXCEPT !.on = FALSE, !.chain = <<>>, !.busy = FALSE]
<1>2. \A v \in Watch : /\ Ended(v) \in Watch
                       /\ Ended(v).lease = v.lease /\ Ended(v).by = v.by
  <2>1. <<>> \in Seq({"SENT", "DELIVERED", "RECEIVED", "FAILED"})
    OBVIOUS
  <2>2. QED
    BY <2>1 DEF Watch
<1>3. Ended(NoWatch) = NoWatch
  <2>1. NoWatch.on = FALSE /\ NoWatch.chain = <<>> /\ NoWatch.busy = FALSE
    BY DEF NoWatch
  <2>2. NoWatch \in Watch
    BY EmptyTyped
  <2>3. QED
    BY <2>1, <2>2 DEF Watch
<1>4. \A t \in Attempts :
        watches'[t] = IF watches[t].by = g THEN Ended(watches[t]) ELSE watches[t]
  BY DEF StopWatches
<1>5. watches' = [t \in Attempts |-> watches'[t]]
  BY DEF StopWatches
<1> HIDE DEF Ended
<1>6. watches' \in [Attempts -> Watch]
  BY <1>1, <1>2, <1>4, <1>5
<1>7. \A w \in wire' : w \in Request /\ (w.awaited => w \in wire /\ w.from # g)
  BY <1>1 DEF Unheard, Request
<1>8. AnswersAwaited'
  <2> SUFFICES ASSUME NEW w \in wire', w.awaited, w.by = "watch"
               PROVE  /\ w.token \in Attempts
                      /\ watches'[w.token].busy /\ watches'[w.token].by = w.from
                      /\ watches'[w.token].lease.msg = w.msg
                      /\ watches'[w.token].chain # <<>>
                      /\ Head(watches'[w.token].chain) = w.status
                      /\ w.guid = Null
    BY DEF AnswersAwaited
  <2>1. w \in wire /\ w.from # g
    BY <1>7
  <2>2. w.token \in Attempts /\ watches[w.token].by = w.from
    BY <1>1, <2>1 DEF AnswersAwaited
  <2>3. watches'[w.token] = watches[w.token]
    BY <1>4, <2>1, <2>2
  <2>4. QED
    BY <1>1, <2>1, <2>3 DEF AnswersAwaited
<1>9. ASSUME NEW t \in Attempts, watches'[t] # NoWatch
      PROVE  /\ watches[t] # NoWatch
             /\ watches'[t].lease = watches[t].lease /\ watches'[t].by = watches[t].by
  BY <1>1, <1>2, <1>3, <1>4, <1>9
<1>10. QED
  BY <1>6, <1>7, <1>8, <1>9

\* The loop: sending, reporting, crashing, stopping, starting (runner/index.ts,
\* runner/lease.ts).
LEMMA GatewayStepKept ==
  ASSUME ServerInv, GatewayInv, NEW g \in Gateways, GatewayStep(g), UNCHANGED granted
  PROVE  GatewayInv'
<1>1. /\ gateways \in [Gateways -> Loop] /\ chat \in [Attempts -> ChatRow]
      /\ watches \in [Attempts -> Watch] /\ wire \in SUBSET Request /\ AnswersAwaited
  BY DEF GatewayInv, GatewayTypeOK
<1>2. \A w \in wire : w.awaited /\ w.by = "watch" => w \in wire
  OBVIOUS
<1>3. ASSUME NEW pc \in Awaiting, NEW status \in MessageStatuses, NEW guid \in OrNull(Nat),
             Handles(g), Ask(g, pc, status, guid), UNCHANGED <<chat, watches>>
      PROVE  GatewayInv'
  <2>1. /\ HeldOnce' /\ AnswersAwaited'
        /\ gateways' \in [Gateways -> Loop] /\ wire' \in SUBSET Request
    BY <1>1, <1>2, <1>3, AskKept DEF Ask
  <2>2. QED
    BY <1>1, <1>3, <2>1 DEF GatewayInv, GatewayTypeOK
<1>4. "FAILED" \in MessageStatuses /\ "ACCEPTED" \in MessageStatuses /\ Null \in OrNull(Nat)
      /\ "fail" \in Awaiting /\ "record" \in Awaiting
  BY DEF MessageStatuses, OrNull, Awaiting
<1>5. CASE SendFails(g)
  BY <1>3, <1>4, <1>5 DEF SendFails, Handles
<1>6. CASE Uncorrelated(g)
  BY <1>3, <1>4, <1>6 DEF Uncorrelated, Handles
<1>7. CASE Correlate(g)
  <2>1. PICK guid \in Candidates(g, gateways[g].lease.token) : Ask(g, "record", "ACCEPTED", guid)
    BY <1>7 DEF Correlate
  <2>2. Handles(g)
    BY <1>7 DEF Correlate, Handles
  <2>3. guid \in OrNull(Nat)
    <3>1. gateways[g].lease.token \in Nat
      BY <2>2, HandledTyped
    <3>2. QED
      BY <3>1 DEF Candidates, Attempts, OrNull
  <2>4. QED
    BY <1>3, <1>4, <1>7, <2>1, <2>2, <2>3 DEF Correlate
<1>8. CASE GoesOut(g)
  <2> DEFINE x == [gateways[g] EXCEPT !.pc = "find"]
  <2>1. gateways' = [gateways EXCEPT ![g] = x] /\ Handles(g) /\ UNCHANGED <<watches, wire>>
    BY <1>1, <1>8 DEF GoesOut, Handles
  <2>2. x \in Loop /\ x.lease = gateways[g].lease
    BY <1>1 DEF Loop
  <2> HIDE DEF x
  <2>3. HeldOnce' /\ gateways' \in [Gateways -> Loop]
    BY <2>1, <2>2, LoopFrame
  <2>4. chat' \in [Attempts -> ChatRow]
    <3>1. [state |-> "created", mac |-> g] \in ChatRow
      BY DEF ChatRow, ChatStates, OrNull
    <3>2. QED
      BY <1>1, <1>8, <3>1 DEF GoesOut
  <2>5. AnswersAwaited'
    BY <2>1, AwaitedFrame
  <2>6. QED
    BY <1>1, <2>1, <2>3, <2>4, <2>5 DEF GatewayInv, GatewayTypeOK
<1>9. CASE Crash(g) \/ Exit(g)
  <2>1. /\ StopWatches(g) /\ wire' = Unheard(g) /\ UNCHANGED chat
        /\ gateways' = gateways \/ gateways' = [gateways EXCEPT ![g] = Down]
    BY <1>9 DEF Crash, Exit
  <2>2. /\ watches' \in [Attempts -> Watch] /\ wire' \in SUBSET Request /\ AnswersAwaited'
        /\ \A t \in Attempts : watches'[t] # NoWatch =>
             /\ watches[t] # NoWatch
             /\ watches'[t].lease = watches[t].lease /\ watches'[t].by = watches[t].by
    BY <2>1, StopKept
  <2>3. gateways' \in [Gateways -> Loop]
    BY <1>1, <2>1, EmptyTyped
  <2>4. \A h \in Gateways : Handles(h)' => Handles(h) /\ gateways'[h].lease = gateways[h].lease
    BY <1>1, <2>1, EmptyTyped DEF Handles
  <2>5. HeldOnce'
    BY <2>2, <2>4, HeldFrame
  <2>6. QED
    BY <1>1, <2>1, <2>2, <2>3, <2>5 DEF GatewayInv, GatewayTypeOK
<1>10. CASE Stop(g) \/ Start(g)
  <2> DEFINE y == [gateways[g] EXCEPT !.stopping = TRUE]
             z == [gateways[g] EXCEPT !.pc = "claim"]
  <2>1. UNCHANGED <<chat, watches, wire>>
    BY <1>10 DEF Stop, Start
  <2>2. \/ gateways' = [gateways EXCEPT ![g] = Down]
        \/ gateways' = [gateways EXCEPT ![g] = y] /\ gateways[g].pc \notin {"down", "claim"}
        \/ gateways' = [gateways EXCEPT ![g] = z]
    BY <1>1, <1>10 DEF Stop, Start
  <2>3. /\ y \in Loop /\ y.lease = gateways[g].lease
        /\ z \in Loop /\ z.pc = "claim"
    BY <1>1 DEF Loop
  <2> HIDE DEF y, z
  <2>4. HeldOnce' /\ gateways' \in [Gateways -> Loop]
    BY <2>1, <2>2, <2>3, EmptyTyped, LoopFrame DEF Handles
  <2>5. AnswersAwaited'
    BY <2>1, AwaitedFrame
  <2>6. QED
    BY <1>1, <2>1, <2>4, <2>5 DEF GatewayInv, GatewayTypeOK
<1>11. QED
  BY <1>5, <1>6, <1>7, <1>8, <1>9, <1>10 DEF GatewayStep

WatchStatuses == {"SENT", "DELIVERED", "RECEIVED", "FAILED"}

\* What one poll of chat.db reports is a sequence of statuses (tick).
LEMMA ObservedTyped ==
  ASSUME NEW t \in Attempts
  PROVE  Observed(t) \in Seq(WatchStatuses)
<1> DEFINE s == chat[watches[t].guid].state
           a == IF ChatRank[s] >= 2 /\ "SENT" \notin watches[t].told THEN <<"SENT">> ELSE <<>>
           b == IF ChatRank[s] >= 3 /\ "DELIVERED" \notin watches[t].told
                THEN <<"DELIVERED">> ELSE <<>>
           c == IF s = "read" THEN <<"RECEIVED">> ELSE <<>>
<1>1. /\ <<>> \in Seq(WatchStatuses) /\ <<"SENT">> \in Seq(WatchStatuses)
      /\ <<"DELIVERED">> \in Seq(WatchStatuses) /\ <<"RECEIVED">> \in Seq(WatchStatuses)
      /\ <<"FAILED">> \in Seq(WatchStatuses)
  BY DEF WatchStatuses
<1>2. a \in Seq(WatchStatuses) /\ b \in Seq(WatchStatuses) /\ c \in Seq(WatchStatuses)
  BY <1>1
<1>3. Observed(t) = IF s = "error" THEN <<"FAILED">> ELSE a \o b \o c
  BY DEF Observed
<1> HIDE DEF a, b, c
<1>4. a \o b \in Seq(WatchStatuses)
  BY <1>2
<1>5. a \o b \o c \in Seq(WatchStatuses)
  BY <1>2, <1>4
<1>6. QED
  BY <1>1, <1>3, <1>5

\* A watcher that is there was started for its attempt by a live process.
LEMMA WatchedTyped ==
  ASSUME ServerInv, GatewayInv, NEW t \in Attempts, watches[t] # NoWatch
  PROVE  /\ watches[t] \in Watch /\ watches[t].lease \in Lease /\ watches[t].lease.token = t
         /\ watches[t].by \in Gateways
  BY DEF ServerInv, AttemptsInv, TypeOK, TableTypeOK, GatewayInv, GatewayTypeOK, HeldOnce

\* One watcher changes, and stays the watcher of the same lease.
LEMMA WatchFrame ==
  ASSUME GatewayInv, UNCHANGED <<granted, gateways>>, NEW t \in Attempts, NEW x \in Watch,
         watches' = [watches EXCEPT ![t] = x], watches[t] # NoWatch,
         x.lease = watches[t].lease, x.by = watches[t].by
  PROVE  HeldOnce' /\ watches' \in [Attempts -> Watch]
<1>1. watches \in [Attempts -> Watch]
  BY DEF GatewayInv, GatewayTypeOK
<1>2. \A h \in Gateways : Handles(h)' => Handles(h) /\ gateways'[h].lease = gateways[h].lease
  BY DEF Handles
<1>3. QED
  BY <1>1, <1>2, HeldFrame

\* The watchers and Messages.app (watchers.ts, applescript.ts watch).
LEMMA WatcherStepKept ==
  ASSUME ServerInv, GatewayInv, NEW t \in Attempts, WatcherStep(t) \/ WatchGivesUp(t),
         UNCHANGED granted
  PROVE  GatewayInv'
<1> DEFINE v == watches[t]
<1>1. /\ gateways \in [Gateways -> Loop] /\ chat \in [Attempts -> ChatRow]
      /\ watches \in [Attempts -> Watch] /\ wire \in SUBSET Request
      /\ HeldOnce /\ AnswersAwaited
  BY DEF GatewayInv, GatewayTypeOK
<1>2. v \in Watch /\ v.chain \in Seq(WatchStatuses)
  BY <1>1 DEF Watch, WatchStatuses
<1>3. ASSUME v.on \/ v.chain # <<>> PROVE v # NoWatch
  BY <1>3, EmptyTyped
<1>4. CASE Deliver(t)
  <2>1. PICK s \in Receipts : chat' = [chat EXCEPT ![t].state = s]
    BY <1>4 DEF Deliver
  <2>2. s \in ChatStates
    BY ReceiptAssumption DEF ChatStates
  <2>3. chat' \in [Attempts -> ChatRow]
    BY <1>1, <2>1, <2>2 DEF ChatRow
  <2>4. HeldOnce' /\ AnswersAwaited'
    BY <1>1, <1>4 DEF Deliver, HeldOnce, AnswersAwaited, Handles
  <2>5. QED
    BY <1>1, <1>4, <2>3, <2>4 DEF Deliver, GatewayInv, GatewayTypeOK
<1>5. CASE WatchGivesUp(t)
  <2> DEFINE x == [v EXCEPT !.on = FALSE]
  <2>1. watches' = [watches EXCEPT ![t] = x] /\ v # NoWatch /\ UNCHANGED <<gateways, chat, wire>>
    BY <1>1, <1>3, <1>5 DEF WatchGivesUp
  <2>2. /\ x \in Watch /\ x.lease = v.lease /\ x.by = v.by
        /\ x.chain = v.chain /\ x.busy = v.busy
    BY <1>2 DEF Watch
  <2> HIDE DEF x
  <2>3. HeldOnce' /\ watches' \in [Attempts -> Watch]
    BY <2>1, <2>2, WatchFrame
  <2>4. AnswersAwaited'
    BY <1>1, <2>1, <2>2 DEF AnswersAwaited
  <2>5. QED
    BY <1>1, <2>1, <2>3, <2>4 DEF GatewayInv, GatewayTypeOK
<1>6. CASE WatchTick(t)
  <2> DEFINE seen == Observed(t)
             all == {seen[i] : i \in DOMAIN seen}
             told == v.told \cup (all \cap {"SENT", "DELIVERED"})
             on == \A s \in all : ~EndsWatch(s)
             x == [v EXCEPT !.chain = v.chain \o seen, !.told = told, !.on = on]
  <2>1. watches' = [watches EXCEPT ![t] = x] /\ v # NoWatch /\ UNCHANGED <<gateways, chat, wire>>
    BY <1>1, <1>3, <1>6 DEF WatchTick
  <2>2. seen \in Seq(WatchStatuses)
    BY ObservedTyped
  <2>3. told \in SUBSET {"SENT", "DELIVERED"} /\ on \in BOOLEAN
    BY <1>2 DEF Watch
  <2> HIDE DEF seen, told, on
  <2>4. v.chain \o seen \in Seq(WatchStatuses)
    BY <1>2, <2>2
  <2>5. v.chain # <<>> => v.chain \o seen # <<>> /\ Head(v.chain \o seen) = Head(v.chain)
    BY <1>2, <2>2
  <2>6. /\ x \in Watch /\ x.lease = v.lease /\ x.by = v.by
        /\ x.chain = v.chain \o seen /\ x.busy = v.busy
    BY <1>2, <2>3, <2>4 DEF Watch, WatchStatuses
  <2> HIDE DEF x
  <2>7. HeldOnce' /\ watches' \in [Attempts -> Watch]
    BY <2>1, <2>6, WatchFrame
  <2>8. AnswersAwaited'
    BY <1>1, <2>1, <2>5, <2>6 DEF AnswersAwaited
  <2>9. QED
    BY <1>1, <2>1, <2>7, <2>8 DEF GatewayInv, GatewayTypeOK
<1>7. CASE WatchPost(t)
  <2> DEFINE x == [v EXCEPT !.busy = TRUE]
             w == Post(v.by, "watch", v.lease, Head(v.chain), Null)
  <2>1. /\ watches' = [watches EXCEPT ![t] = x] /\ v # NoWatch /\ v.chain # <<>> /\ ~v.busy
        /\ wire' = wire \cup {w} /\ UNCHANGED <<gateways, chat>>
    BY <1>1, <1>3, <1>7 DEF WatchPost
  <2>2. /\ x \in Watch /\ x.lease = v.lease /\ x.by = v.by
        /\ x.chain = v.chain /\ x.busy
    BY <1>2 DEF Watch
  <2>3. v.lease \in Lease /\ v.lease.token = t /\ v.by \in Gateways
    BY <2>1, WatchedTyped
  <2>4. Head(v.chain) \in MessageStatuses
    <3>1. Head(v.chain) \in WatchStatuses
      BY <1>2, <2>1
    <3>2. QED
      BY <3>1 DEF WatchStatuses, MessageStatuses
  <2>5. w \in Request
    BY <2>3, <2>4, PostTyped DEF OrNull
  <2>6. /\ w.token = t /\ w.from = v.by /\ w.msg = v.lease.msg
        /\ w.status = Head(v.chain) /\ w.guid = Null
    BY <2>3 DEF Post
  <2> HIDE DEF x, w
  <2>7. HeldOnce' /\ watches' \in [Attempts -> Watch]
    BY <2>1, <2>2, WatchFrame
  <2>8. ASSUME NEW u \in wire, u.awaited, u.by = "watch" PROVE u.token \in Attempts \ {t}
    BY <1>1, <2>1, <2>8 DEF AnswersAwaited
  <2>9. AnswersAwaited'
    BY <1>1, <2>1, <2>2, <2>6, <2>8 DEF AnswersAwaited
  <2>10. QED
    BY <1>1, <2>1, <2>5, <2>7, <2>9 DEF GatewayInv, GatewayTypeOK
<1>8. QED
  BY <1>4, <1>5, <1>6, <1>7 DEF WatcherStep

\* A watcher's answer, or its failure, takes the request off the chain; no other
\* request of the watcher is awaited (watchers.ts, reportStatus).
LEMMA UnchainKept ==
  ASSUME ServerInv, GatewayInv, NEW w \in wire, w.awaited, w.by = "watch",
         UNCHANGED <<granted, gateways>>,
         watches' = [watches EXCEPT ![w.token].chain = Tail(@), ![w.token].busy = FALSE],
         wire' = wire \ {w} \/ wire' = (wire \ {w}) \cup {[w EXCEPT !.awaited = FALSE]}
  PROVE  /\ HeldOnce' /\ AnswersAwaited'
         /\ watches' \in [Attempts -> Watch] /\ wire' \in SUBSET Request
<1> DEFINE t == w.token
           v == watches[t]
           x == [v EXCEPT !.chain = Tail(v.chain), !.busy = FALSE]
<1>1. watches \in [Attempts -> Watch] /\ wire \in SUBSET Request /\ AnswersAwaited
  BY DEF GatewayInv, GatewayTypeOK
<1>2. t \in Attempts /\ v.busy /\ v.chain # <<>>
  BY <1>1 DEF AnswersAwaited
<1>3. v \in Watch /\ v # NoWatch /\ v.chain \in Seq(WatchStatuses)
  BY <1>1, <1>2, EmptyTyped DEF Watch, WatchStatuses
<1>4. Tail(v.chain) \in Seq(WatchStatuses)
  BY <1>2, <1>3
<1>5. x \in Watch /\ x.lease = v.lease /\ x.by = v.by
  BY <1>3, <1>4 DEF Watch, WatchStatuses
<1>6. watches' = [watches EXCEPT ![t] = x]
  BY <1>1, <1>2
<1> HIDE DEF x
<1>7. HeldOnce' /\ watches' \in [Attempts -> Watch]
  BY <1>2, <1>3, <1>5, <1>6, WatchFrame
<1>8. ASSUME NEW u \in wire, u.awaited, u.by = "watch", u.token = t PROVE u = w
  <2>1. u \in Request /\ w \in Request
    BY <1>1
  <2>2. u.from = w.from /\ u.msg = w.msg /\ u.status = w.status /\ u.guid = w.guid
    BY <1>1, <1>8 DEF AnswersAwaited
  <2>3. u.awaited = TRUE /\ w.awaited = TRUE
    BY <1>8, <2>1 DEF Request
  <2>4. QED
    BY <1>8, <2>1, <2>2, <2>3 DEF Request
<1>9. [w EXCEPT !.awaited = FALSE] \in Request /\ ~[w EXCEPT !.awaited = FALSE].awaited
  BY <1>1 DEF Request
<1>10. wire' \in SUBSET Request
       /\ \A u \in wire' : u.awaited => u \in wire /\ u # w
  BY <1>1, <1>9
<1>11. AnswersAwaited'
  <2> SUFFICES ASSUME NEW u \in wire', u.awaited, u.by = "watch"
               PROVE  /\ u.token \in Attempts
                      /\ watches'[u.token].busy /\ watches'[u.token].by = u.from
                      /\ watches'[u.token].lease.msg = u.msg
                      /\ watches'[u.token].chain # <<>>
                      /\ Head(watches'[u.token].chain) = u.status
                      /\ u.guid = Null
    BY DEF AnswersAwaited
  <2>1. u \in wire /\ u.token # t
    BY <1>8, <1>10
  <2>2. u.token \in Attempts /\ watches'[u.token] = watches[u.token]
    BY <1>1, <1>6, <2>1 DEF AnswersAwaited
  <2>3. QED
    BY <1>1, <2>1, <2>2 DEF AnswersAwaited
<1>12. QED
  BY <1>7, <1>10, <1>11

\* The lease passes from the loop to the watcher it starts (handleLease's end).
LEMMA HandOverKept ==
  ASSUME ServerInv, GatewayInv, NEW g \in Gateways, Handles(g), NEW guid \in OrNull(Nat),
         StartWatch(g, guid), gateways' = [gateways EXCEPT ![g] = Turn(g)], UNCHANGED granted,
         wire' \subseteq wire
  PROVE  HeldOnce' /\ AnswersAwaited' /\ watches' \in [Attempts -> Watch]
<1> DEFINE l == gateways[g].lease
           x == [NoWatch EXCEPT !.on = TRUE, !.by = g, !.lease = l, !.guid = guid]
<1>1. /\ gateways \in [Gateways -> Loop] /\ watches \in [Attempts -> Watch]
      /\ HeldOnce /\ AnswersAwaited
  BY DEF GatewayInv, GatewayTypeOK
<1>2. l \in Lease /\ l \in granted
  BY HandledTyped
<1>3. x \in Watch /\ x.by = g /\ x.lease = l
  <2>1. <<>> \in Seq({"SENT", "DELIVERED", "RECEIVED", "FAILED"})
    OBVIOUS
  <2>2. QED
    BY <1>2, <2>1 DEF NoWatch, Watch
<1>4. watches' = [watches EXCEPT ![l.token] = x]
  BY DEF StartWatch
<1> HIDE DEF x, l
<1>5. watches' \in [Attempts -> Watch]
  BY <1>1, <1>3, <1>4
<1>6. \A h \in Gateways : Handles(h)' => h # g /\ Handles(h) /\ gateways'[h] = gateways[h]
  BY <1>1, EmptyTyped DEF Handles
<1>7. \A h \in Gateways : Handles(h) /\ h # g => gateways[h].lease.token # l.token
  BY <1>1 DEF HeldOnce, l
<1>8. \A t \in Attempts \ {l.token} : watches'[t] = watches[t]
  BY <1>1, <1>4
<1>9. l.token \in Attempts => watches'[l.token] = x /\ watches[l.token] = NoWatch
  BY <1>1, <1>4 DEF HeldOnce, l
<1>10. HeldOnce'
  <2>1. \A h \in Gateways : Handles(h)' => gateways'[h].lease \in granted'
    BY <1>1, <1>6 DEF HeldOnce
  <2>2. \A h, k \in Gateways : h # k /\ Handles(h)' /\ Handles(k)'
          => gateways'[h].lease.token # gateways'[k].lease.token
    BY <1>1, <1>6 DEF HeldOnce
  <2>3. \A t \in Attempts : watches'[t] # NoWatch =>
          /\ watches'[t].lease \in granted' /\ watches'[t].lease.token = t
          /\ watches'[t].by \in Gateways
          /\ \A h \in Gateways : Handles(h)' => gateways'[h].lease.token # t
    <3> SUFFICES ASSUME NEW t \in Attempts, watches'[t] # NoWatch
                 PROVE  /\ watches'[t].lease \in granted' /\ watches'[t].lease.token = t
                        /\ watches'[t].by \in Gateways
                        /\ \A h \in Gateways : Handles(h)' => gateways'[h].lease.token # t
      OBVIOUS
    <3>1. CASE t = l.token
      BY <1>2, <1>3, <1>6, <1>7, <1>9, <3>1
    <3>2. CASE t # l.token
      BY <1>1, <1>6, <1>8, <3>2 DEF HeldOnce
    <3>3. QED
      BY <3>1, <3>2
  <2>4. QED
    BY <2>1, <2>2, <2>3 DEF HeldOnce
<1>11. AnswersAwaited'
  <2> SUFFICES ASSUME NEW u \in wire', u.awaited, u.by = "watch"
               PROVE  u.token \in Attempts /\ u.token # l.token
    BY <1>1, <1>8 DEF AnswersAwaited
  <2>1. u \in wire /\ u.token \in Attempts /\ watches[u.token].busy
    BY <1>1 DEF AnswersAwaited
  <2>2. QED
    BY <1>9, <2>1, EmptyTyped
<1>12. QED
  BY <1>5, <1>10, <1>11

\* Whoever waits for an answer goes on when it comes (lease.ts, watchers.ts).
LEMMA AnsweredKept ==
  ASSUME ServerInv, GatewayInv, NEW w \in wire, Answered(w), UNCHANGED granted
  PROVE  GatewayInv'
<1> DEFINE g == w.from
           l == gateways[g].lease
<1>1. /\ gateways \in [Gateways -> Loop] /\ chat' = chat /\ chat \in [Attempts -> ChatRow]
      /\ watches \in [Attempts -> Watch] /\ wire \in SUBSET Request
  BY DEF GatewayInv, GatewayTypeOK, Answered
<1>2. g \in Gateways /\ w.guid \in OrNull(Nat)
  BY <1>1 DEF Request
<1>3. ASSUME HeldOnce', AnswersAwaited', gateways' \in [Gateways -> Loop],
             watches' \in [Attempts -> Watch], wire' \in SUBSET Request
      PROVE  GatewayInv'
  BY <1>1, <1>3 DEF GatewayInv, GatewayTypeOK
<1>4. CASE wire' = wire \ {w} /\ UNCHANGED <<gateways, watches>>
  <2>1. HeldOnce'
    BY <1>4, HeldFrame DEF Handles
  <2>2. AnswersAwaited'
    BY <1>4, AwaitedFrame
  <2>3. QED
    BY <1>1, <1>3, <1>4, <2>1, <2>2
<1>5. CASE w.awaited /\ w.by = "watch" /\ WatchAnswered(w)
  <2>1. /\ HeldOnce' /\ AnswersAwaited'
        /\ watches' \in [Attempts -> Watch] /\ wire' \in SUBSET Request
    BY <1>5, UnchainKept DEF WatchAnswered
  <2>2. QED
    BY <1>1, <1>3, <1>5, <2>1 DEF WatchAnswered
<1>6. CASE LoopAnswered(g, w)
  <2>1. CASE /\ gateways[g].pc = "ack" /\ AlreadySent(l)
             /\ gateways' = [gateways EXCEPT ![g].pc = "reattach"]
             /\ wire' = (wire \ {w}) \cup {Post(g, "loop", l, "SENT", l.guid)}
             /\ UNCHANGED watches
    <3>1. Handles(g) /\ "reattach" \in Awaiting /\ "SENT" \in MessageStatuses
      BY <2>1 DEF Handles, Awaiting, MessageStatuses
    <3>2. l.guid \in OrNull(Nat)
      BY <1>2, <3>1, HandledTyped
    <3>3. wire \ {w} \in SUBSET Request /\ \A u \in wire \ {w} : u \in wire
      BY <1>1
    <3>4. /\ HeldOnce' /\ AnswersAwaited'
          /\ gateways' \in [Gateways -> Loop] /\ wire' \in SUBSET Request
      BY <1>2, <2>1, <3>1, <3>2, <3>3, AskKept
    <3>5. QED
      BY <1>1, <1>3, <2>1, <3>4
  <2>2. CASE /\ gateways[g].pc = "ack"
             /\ gateways' = [gateways EXCEPT ![g].pc = "send"]
             /\ wire' = wire \ {w} /\ UNCHANGED watches
    <3> DEFINE x == [gateways[g] EXCEPT !.pc = "send"]
    <3>1. gateways' = [gateways EXCEPT ![g] = x] /\ Handles(g)
      BY <1>1, <1>2, <2>2 DEF Handles
    <3>2. x \in Loop /\ x.lease = gateways[g].lease
      BY <1>1, <1>2 DEF Loop
    <3> HIDE DEF x
    <3>3. HeldOnce' /\ gateways' \in [Gateways -> Loop]
      BY <1>2, <2>2, <3>1, <3>2, LoopFrame
    <3>4. AnswersAwaited'
      BY <2>2, AwaitedFrame
    <3>5. QED
      BY <1>1, <1>3, <2>2, <3>3, <3>4
  <2>3. CASE /\ gateways[g].pc \in {"reattach", "record"} /\ StartWatch(g, w.guid)
             /\ gateways' = [gateways EXCEPT ![g] = Turn(g)] /\ wire' = wire \ {w}
    <3>1. Handles(g)
      BY <2>3 DEF Handles
    <3>2. HeldOnce' /\ AnswersAwaited' /\ watches' \in [Attempts -> Watch]
      BY <1>2, <2>3, <3>1, HandOverKept
    <3>3. gateways' \in [Gateways -> Loop]
      BY <1>1, <1>2, <2>3, EmptyTyped
    <3>4. QED
      BY <1>1, <1>3, <2>3, <3>2, <3>3
  <2>4. CASE gateways' = [gateways EXCEPT ![g] = Turn(g)] /\ wire' = wire \ {w} /\ UNCHANGED watches
    <3>1. Turn(g) \in Loop /\ Turn(g).pc \in {"down", "claim"}
      BY <1>2, EmptyTyped
    <3>2. HeldOnce' /\ gateways' \in [Gateways -> Loop]
      BY <1>2, <2>4, <3>1, LoopFrame
    <3>3. AnswersAwaited'
      BY <2>4, AwaitedFrame
    <3>4. QED
      BY <1>1, <1>3, <2>4, <3>2, <3>3
  <2>5. QED
    BY <1>6, <2>1, <2>2, <2>3, <2>4 DEF LoopAnswered
<1>7. QED
  BY <1>4, <1>5, <1>6 DEF Answered

\* A request that fails, or that nobody waits for (ServerUnavailableError).
LEMMA WireStepKept ==
  ASSUME ServerInv, GatewayInv, NEW w \in wire, WireStep(w), UNCHANGED granted
  PROVE  GatewayInv'
<1> DEFINE g == w.from
           l == gateways[g].lease
           left == (wire \ {w}) \cup {[w EXCEPT !.awaited = FALSE]}
<1>1. /\ gateways \in [Gateways -> Loop] /\ chat' = chat /\ chat \in [Attempts -> ChatRow]
      /\ watches \in [Attempts -> Watch] /\ wire \in SUBSET Request
  BY DEF GatewayInv, GatewayTypeOK, WireStep, Break, Drop
<1>2. g \in Gateways
  BY <1>1 DEF Request
<1>3. ASSUME HeldOnce', AnswersAwaited', gateways' \in [Gateways -> Loop],
             watches' \in [Attempts -> Watch], wire' \in SUBSET Request
      PROVE  GatewayInv'
  BY <1>1, <1>3 DEF GatewayInv, GatewayTypeOK
<1>4. left \in SUBSET Request /\ \A u \in left : u.awaited /\ u.by = "watch" => u \in wire
  <2>1. [w EXCEPT !.awaited = FALSE] \in Request /\ ~[w EXCEPT !.awaited = FALSE].awaited
    BY <1>1 DEF Request
  <2>2. QED
    BY <1>1, <2>1
<1>5. CASE Drop(w)
  <2>1. HeldOnce'
    BY <1>5, HeldFrame DEF Drop, Handles
  <2>2. AnswersAwaited'
    BY <1>5, AwaitedFrame DEF Drop
  <2>3. QED
    BY <1>1, <1>3, <1>5, <2>1, <2>2 DEF Drop
<1>6. CASE w.awaited /\ w.by = "watch" /\ WatchBroken(w)
  <2>1. /\ HeldOnce' /\ AnswersAwaited'
        /\ watches' \in [Attempts -> Watch] /\ wire' \in SUBSET Request
    BY <1>6, UnchainKept DEF WatchBroken
  <2>2. QED
    BY <1>1, <1>3, <1>6, <2>1 DEF WatchBroken
<1> HIDE DEF left
<1>7. CASE /\ gateways[g].pc = "record"
           /\ gateways' = [gateways EXCEPT ![g].pc = "fail"]
           /\ wire' = left \cup {Post(g, "loop", l, "FAILED", Null)}
           /\ UNCHANGED watches
  <2>1. Handles(g) /\ "fail" \in Awaiting /\ "FAILED" \in MessageStatuses /\ Null \in OrNull(Nat)
    BY <1>7 DEF Handles, Awaiting, MessageStatuses, OrNull
  <2>2. /\ HeldOnce' /\ AnswersAwaited'
        /\ gateways' \in [Gateways -> Loop] /\ wire' \in SUBSET Request
    BY <1>2, <1>4, <1>7, <2>1, AskKept
  <2>3. QED
    BY <1>1, <1>3, <1>7, <2>2
<1>8. CASE gateways' = [gateways EXCEPT ![g] = Turn(g)] /\ wire' = left /\ UNCHANGED watches
  <2>1. Turn(g) \in Loop /\ Turn(g).pc \in {"down", "claim"}
    BY <1>2, EmptyTyped
  <2>2. HeldOnce' /\ gateways' \in [Gateways -> Loop]
    BY <1>2, <1>8, <2>1, LoopFrame
  <2>3. AnswersAwaited'
    BY <1>4, <1>8, AwaitedFrame
  <2>4. QED
    BY <1>1, <1>3, <1>4, <1>8, <2>2, <2>3
<1>9. QED
  BY <1>1, <1>5, <1>6, <1>7, <1>8 DEF WireStep, Break, LoopBroken, left, Request

\* A step of the server that leaves the gateways alone takes no lease from them.
LEMMA GatewaysIdleKept ==
  ASSUME GatewayInv, UNCHANGED gatewayVars, granted \subseteq granted'
  PROVE  GatewayInv'
<1>1. gateways' = gateways /\ chat' = chat /\ watches' = watches /\ wire' = wire
  BY DEF gatewayVars
<1>2. HeldOnce'
  BY <1>1, HeldFrame DEF Handles
<1>3. AnswersAwaited'
  BY <1>1, AwaitedFrame
<1>4. QED
  BY <1>1, <1>2, <1>3 DEF GatewayInv, GatewayTypeOK

\* A poll's answer is a lease that nobody holds yet (runner/index.ts, handleLease).
LEMMA BeginLeaseKept ==
  ASSUME ServerInv, GatewayInv, NEW g \in Gateways, gateways[g].pc = "claim", Respond(g),
         BeginLease(g, [msg |-> polls[g].msg, token |-> polls[g].token, guid |-> polls[g].guid])
  PROVE  GatewayInv'
<1> DEFINE l == [msg |-> polls[g].msg, token |-> polls[g].token, guid |-> polls[g].guid]
           x == [gateways[g] EXCEPT !.pc = "ack", !.lease = l, !.heard = FALSE]
<1>1. /\ gateways \in [Gateways -> Loop] /\ chat' = chat /\ chat \in [Attempts -> ChatRow]
      /\ watches' = watches /\ watches \in [Attempts -> Watch] /\ wire \in SUBSET Request
      /\ HeldOnce
  BY DEF GatewayInv, GatewayTypeOK, BeginLease
<1>2. TypeOK /\ TokensIssued
  BY DEF ServerInv, AttemptsInv
<1>3. polls[g].pc = "respond" /\ g \in Pollers
  BY GatewaysPoll DEF Respond
<1>4. l \in Lease
  <2>1. polls[g] \in Poll /\ polls[g].msg \in Messages /\ polls[g].token \in Nat
    BY <1>2, <1>3 DEF TypeOK, PollsTypeOK
  <2>2. polls[g].guid \in OrNull(Nat)
    BY <2>1 DEF Poll
  <2>3. QED
    BY <2>1, <2>2 DEF Lease
<1>5. granted' = granted \cup {l}
  BY DEF Respond
<1>6. \A k \in granted : k.token # l.token
  <2>1. l.token = polls[g].token
    OBVIOUS
  <2>2. QED
    BY <1>2, <1>3, <2>1 DEF TokensIssued, Responding
<1>7. gateways' = [gateways EXCEPT ![g] = x] /\ wire' = wire \cup {Post(g, "loop", l, "ACCEPTED", Null)}
  BY <1>1 DEF BeginLease
<1>8. "ACCEPTED" \in MessageStatuses /\ Null \in OrNull(Nat)
  BY DEF MessageStatuses, OrNull
<1>9. Post(g, "loop", l, "ACCEPTED", Null) \in Request /\ Post(g, "loop", l, "ACCEPTED", Null).by = "loop"
  <2>1. Post(g, "loop", l, "ACCEPTED", Null) \in Request
    BY <1>4, <1>8, PostTyped
  <2>2. Post(g, "loop", l, "ACCEPTED", Null).by = "loop"
    BY DEF Post
  <2>3. QED
    BY <2>1, <2>2
<1> HIDE DEF l
<1>10. x \in Loop /\ x.lease = l /\ x.pc = "ack"
  BY <1>1, <1>4 DEF Loop, Awaiting
<1> HIDE DEF x
<1>11. gateways' \in [Gateways -> Loop] /\ gateways'[g] = x
       /\ \A h \in Gateways \ {g} : gateways'[h] = gateways[h]
  BY <1>1, <1>7, <1>10
<1>12. HeldOnce'
  <2>1. \A h \in Gateways : Handles(h)' => gateways'[h].lease \in granted'
    BY <1>1, <1>5, <1>10, <1>11 DEF HeldOnce, Handles
  <2>2. \A h, k \in Gateways : h # k /\ Handles(h)' /\ Handles(k)'
          => gateways'[h].lease.token # gateways'[k].lease.token
    BY <1>1, <1>6, <1>10, <1>11 DEF HeldOnce, Handles
  <2>3. \A t \in Attempts : watches[t] # NoWatch =>
          \A h \in Gateways : Handles(h)' => gateways'[h].lease.token # t
    BY <1>1, <1>6, <1>10, <1>11 DEF HeldOnce, Handles
  <2>4. QED
    BY <1>1, <1>5, <2>1, <2>2, <2>3 DEF HeldOnce
<1>13. AnswersAwaited'
  BY <1>1, <1>7, <1>9, AwaitedFrame
<1>14. QED
  BY <1>1, <1>7, <1>9, <1>11, <1>12, <1>13 DEF GatewayInv, GatewayTypeOK

\* The long poll of a gateway (GET /lease, seen from both ends).
LEMMA PollRunsKept ==
  ASSUME ServerInv, GatewayInv, NEW g \in Gateways, PollRuns(g)
  PROVE  GatewayInv'
<1>1. CASE BeginTurn(g) /\ gateways[g].pc = "claim"
           /\ gateways' = [gateways EXCEPT ![g].heard = TRUE]
           /\ UNCHANGED <<chat, watches, wire>>
  <2> DEFINE x == [gateways[g] EXCEPT !.heard = TRUE]
  <2>1. gateways \in [Gateways -> Loop]
    BY DEF GatewayInv, GatewayTypeOK
  <2>2. gateways' = [gateways EXCEPT ![g] = x] /\ granted' = granted
    BY <1>1, <2>1 DEF BeginTurn, tableVars
  <2>3. x \in Loop /\ x.pc = "claim"
    BY <1>1, <2>1 DEF Loop
  <2> HIDE DEF x
  <2>4. HeldOnce' /\ gateways' \in [Gateways -> Loop]
    BY <1>1, <2>2, <2>3, LoopFrame
  <2>5. AnswersAwaited'
    BY <1>1, AwaitedFrame
  <2>6. QED
    BY <1>1, <2>4, <2>5 DEF GatewayInv, GatewayTypeOK
<1>2. ASSUME UNCHANGED gatewayVars PROVE GatewayInv'
  <2>1. granted \subseteq granted'
    BY DEF PollRuns, BeginTurn, PassGate, EndTurn, LoseLease, Claim, Respond, tableVars
  <2>2. QED
    BY <1>2, <2>1, GatewaysIdleKept
<1>3. QED
  BY <1>1, <1>2, BeginLeaseKept DEF PollRuns

LEMMA GatewayHalf ==
  ASSUME ServerInv, GatewayInv, [SystemNext]_systemVars
  PROVE  GatewayInv'
<1>1. CASE ServerRuns
  <2>1. UNCHANGED granted
    BY <1>1, OperatorKeepsTokens, SweepKeepsTokens
       DEF ServerRuns, TimePasses, Tick, Operating, Sweeping, TokensKept, ServerInv, AttemptsInv
  <2>2. QED
    BY <1>1, <2>1, GatewaysIdleKept DEF ServerRuns
<1>2. CASE Claiming
  BY <1>2, PollRunsKept DEF Claiming
<1>3. CASE GatewaysRun
  BY <1>3, GatewayStepKept DEF GatewaysRun, vars, tableVars
<1>4. ASSUME NEW t \in Attempts, WatchersRun(t) PROVE GatewayInv'
  BY <1>4, WatcherStepKept DEF WatchersRun, vars, tableVars
<1>5. ASSUME NEW t \in Attempts, Reports(t) PROVE GatewayInv'
  <2>1. PICK w \in wire : Apply(w) \/ Refuse(w) \/ (WireStep(w) /\ UNCHANGED tableVars)
    BY <1>5 DEF Reports
  <2>2. QED
    BY <2>1, AnsweredKept, WireStepKept DEF Apply, Refuse, tableVars
<1>6. CASE UNCHANGED systemVars
  BY <1>6, GatewaysIdleKept DEF systemVars, vars, tableVars
<1>7. QED
  BY <1>1, <1>2, <1>3, <1>4, <1>5, <1>6 DEF SystemNext

\* The gateways start out polling, with nothing in hand.
LEMMA SystemInitGateways == SystemInit => GatewayInv
<1> SUFFICES ASSUME SystemInit PROVE GatewayInv
  OBVIOUS
<1> DEFINE x == [Down EXCEPT !.pc = "claim"]
<1>1. /\ gateways = [g \in Gateways |-> x] /\ chat = [t \in Attempts |-> NoRow]
      /\ watches = [t \in Attempts |-> NoWatch] /\ wire = {}
  BY DEF SystemInit, GatewayInit
<1>2. x \in Loop /\ x.pc = "claim"
  BY DEF Down, Loop
<1> HIDE DEF x
<1>3. GatewayTypeOK
  BY <1>1, <1>2, EmptyTyped DEF GatewayTypeOK
<1>4. HeldOnce /\ AnswersAwaited
  BY <1>1, <1>2 DEF HeldOnce, AnswersAwaited, Handles
<1>5. QED
  BY <1>3, <1>4 DEF GatewayInv

-----------------------------------------------------------------------------
(* The double-send guard *)

\* What is barred or was sent belongs to a lease that has been claimed.
TokensPast ==
  /\ nextToken >= 1
  /\ \A t \in barred : t < nextToken
  /\ \A t \in Attempts : chat[t].state # "none" => t < nextToken

Recorded(row) == row.status = "DELETED" \/ (row.status \in MessageStatuses /\ row.guid # Null)

\* The recorded GUID is where the guard needs it: in the row, in the lease that a
\* poll is about to answer with, in the lease the loop handles, and the loop that
\* sends saw none.
GuidsKept ==
  /\ \A m \in standing : Recorded(rows[m])
  /\ \A p \in Pollers : Responding(p) /\ polls[p].token \in barred => polls[p].guid # Null
  /\ \A g \in Gateways :
       /\ Handles(g) /\ gateways[g].lease.token \in barred => gateways[g].lease.guid # Null
       /\ gateways[g].pc \in {"send", "find"} => gateways[g].lease.guid = Null

SystemInv ==
  /\ ServerInv /\ GatewayInv /\ SystemTypeOK
  /\ TokensPast /\ GuidsKept /\ RecordedSendIsLast

\* Who changes the histories, and how.
LEMMA HistoryKept ==
  ASSUME SystemInv, [SystemNext]_systemVars
  PROVE  /\ standing' \in SUBSET Messages
         /\ disturbed' \in SUBSET Attempts
         /\ \/ UNCHANGED <<barred, nextToken>>
            \/ \E g \in Gateways : PollRuns(g) /\ Claim(g, Locked) /\ UNCHANGED standing
<1>1. standing \in SUBSET Messages /\ disturbed \in SUBSET Attempts /\ GatewayTypeOK /\ TypeOK
  BY DEF SystemInv, SystemTypeOK
<1>2. CASE ServerRuns
  <2>1. UNCHANGED nextToken
    BY <1>1, <1>2, OperatorKeepsTokens, SweepKeepsTokens
       DEF ServerRuns, TimePasses, Tick, Operating, Sweeping, TokensKept
  <2>2. QED
    BY <1>1, <1>2, <2>1 DEF ServerRuns
<1>3. CASE Claiming
  <2>1. PICK g \in Gateways : PollRuns(g) /\ UNCHANGED <<standing, disturbed>>
    BY <1>3 DEF Claiming
  <2>2. Claim(g, Locked) \/ UNCHANGED <<barred, nextToken>>
    BY <2>1 DEF PollRuns, BeginTurn, PassGate, EndTurn, LoseLease, Respond, tableVars
  <2>3. QED
    BY <1>1, <2>1, <2>2
<1>4. CASE GatewaysRun
  BY <1>1, <1>4 DEF GatewaysRun, vars, tableVars
<1>5. ASSUME NEW t \in Attempts, WatchersRun(t)
      PROVE  disturbed' \in SUBSET Attempts /\ UNCHANGED <<standing, barred, nextToken>>
  BY <1>1, <1>5 DEF WatchersRun, vars, tableVars
<1>6. ASSUME NEW t \in Attempts, Reports(t)
      PROVE  /\ standing' \in SUBSET Messages /\ disturbed' \in SUBSET Attempts
             /\ UNCHANGED <<barred, nextToken>>
  <2>1. PICK w \in wire : /\ w.token = t /\ UNCHANGED barred
                          /\ \/ Apply(w) \/ Refuse(w)
                             \/ disturbed' = disturbed \cup {t} /\ UNCHANGED <<tableVars, standing>>
    BY <1>6 DEF Reports
  <2>2. w.msg \in Messages
    BY <1>1 DEF GatewayTypeOK, Request
  <2>3. CASE Apply(w)
    <3>1. standing' \in {standing, standing \ {w.msg}, standing \cup {w.msg}}
      BY <2>3 DEF Apply
    <3>2. QED
      BY <1>1, <2>1, <2>2, <2>3, <3>1 DEF Apply
  <2>4. CASE Refuse(w)
    BY <1>1, <2>1, <2>4 DEF Refuse, tableVars
  <2>5. QED
    BY <1>1, <2>1, <2>3, <2>4 DEF tableVars
<1>7. CASE UNCHANGED systemVars
  BY <1>1, <1>7 DEF systemVars, vars, tableVars
<1>8. QED
  BY <1>1, <1>2, <1>3, <1>4, <1>5, <1>6, <1>7 DEF SystemNext

\* What a claim does to the row it takes, to the poll and to the barred leases.
LEMMA ClaimBars ==
  ASSUME SystemInv, NEW g \in Gateways, PollRuns(g), Claim(g, Locked)
  PROVE  \E m \in Queued :
           /\ rows' = [rows EXCEPT ![m] = Claimed(rows[m], nextToken)]
           /\ polls'[g].token = nextToken /\ polls'[g].guid = rows[m].guid
           /\ \A p \in Pollers \ {g} : polls'[p] = polls[p]
           /\ barred' \in {barred, barred \cup {nextToken}}
           /\ nextToken \in barred' \ barred => m \in standing
           /\ nextToken \in Attempts /\ nextToken' = nextToken + 1
           /\ UNCHANGED gatewayVars
<1>1. TableTypeOK /\ PollsTypeOK /\ nextToken >= 1 /\ standing \in SUBSET Messages
  BY DEF SystemInv, SystemTypeOK, TypeOK, TokensPast
<1>2. PICK m \in Queued :
        /\ rows' = [rows EXCEPT ![m] = Claimed(rows[m], nextToken)]
        /\ polls' = [polls EXCEPT ![g].pc = "respond", ![g].msg = m, ![g].token = nextToken,
                                  ![g].guid = rows[m].guid]
  BY DEF Claim
<1>3. polls'[g].token = nextToken /\ polls'[g].guid = rows[m].guid
      /\ \A p \in Pollers \ {g} : polls'[p] = polls[p]
  BY <1>1, <1>2, GatewaysPoll DEF PollsTypeOK, Poll
<1>4. \A n \in Messages : n # m => rows'[n] = rows[n]
  BY <1>1, <1>2 DEF TableTypeOK
<1>5. polls[g].pc = "claim" /\ polls'[g].pc = "respond"
  <2>1. polls[g] \in Poll
    BY <1>1, GatewaysPoll DEF PollsTypeOK
  <2>2. QED
    BY <1>1, <1>2, <2>1, GatewaysPoll DEF Claim, PollsTypeOK, Poll
<1>6. barred' = barred \cup {nextToken : n \in {k \in standing : rows'[k] # rows[k]}}
      /\ UNCHANGED gatewayVars
  <2>1. ~EndTurn(g)
    BY <1>1, <1>5, GatewaysPoll DEF EndTurn, PollsTypeOK, NoPoll
  <2>2. QED
    BY <1>5, <2>1 DEF PollRuns, BeginTurn, PassGate, LoseLease, Respond
<1>7. barred' \in {barred, barred \cup {nextToken}}
      /\ (nextToken \in barred' \ barred => m \in standing)
  BY <1>1, <1>4, <1>6
<1>8. nextToken \in Attempts /\ nextToken' = nextToken + 1
  BY <1>1 DEF Claim, TableTypeOK, Attempts
<1>9. QED
  BY <1>2, <1>3, <1>6, <1>7, <1>8

\* The writes that keep a recorded GUID: all but a retry's and a failure report's.
LEMMA RecordedWrites ==
  ASSUME NEW row \in Row, Recorded(row), now \in Nat
  PROVE  /\ row.status \in MessageStatuses =>
              /\ Recorded(Reaped(row)) /\ Recorded(Abandoned(row))
              /\ Recorded([row EXCEPT !.force = TRUE])
              /\ Recorded([row EXCEPT !.status = "CANCELED"])
              /\ \A t \in Nat : Recorded(Claimed(row, t))
         /\ Recorded(Absent("DELETED"))
<1>1. Recorded(Absent("DELETED"))
  BY DEF Recorded, Absent
<1>2. ASSUME row.status \in MessageStatuses
      PROVE  /\ Recorded(Reaped(row)) /\ Recorded(Abandoned(row))
             /\ Recorded([row EXCEPT !.force = TRUE])
             /\ Recorded([row EXCEPT !.status = "CANCELED"])
  <2>1. row.guid # Null
    BY <1>2 DEF Recorded, MessageStatuses
  <2>2. QED
    BY <1>2, <2>1 DEF Recorded, Reaped, Abandoned, Row, MessageStatuses
<1>3. ASSUME row.status \in MessageStatuses, NEW t \in Nat PROVE Recorded(Claimed(row, t))
  <2>1. row.guid # Null
    BY <1>3 DEF Recorded, MessageStatuses
  <2>2. Claimed(row, t).status = "DISPATCHING" /\ Claimed(row, t).guid = row.guid
    BY DEF Claimed, Row
  <2>3. QED
    BY <2>1, <2>2 DEF Recorded, MessageStatuses
<1>4. QED
  BY <1>1, <1>2, <1>3

\* The server's own processes forget a recorded GUID only for a retry.
LEMMA ServerRunsStanding ==
  ASSUME SystemInv, ServerRuns
  PROVE  \A m \in standing' : Recorded(rows'[m])
<1>1. TypeOK /\ TableTypeOK /\ OpsTypeOK /\ SweepsTypeOK /\ standing \in SUBSET Messages
  BY DEF SystemInv, SystemTypeOK, TypeOK
<1>2. standing' = standing \ RetriedNow
  BY DEF ServerRuns
<1>3. \A m \in standing : rows[m] \in Row /\ Recorded(rows[m]) /\ now \in Nat
  BY <1>1 DEF TableTypeOK, SystemInv, GuidsKept
<1>4. ASSUME NEW k \in Messages, NEW x, rows' = [rows EXCEPT ![k] = x],
             k \in standing' => Recorded(x)
      PROVE  \A m \in standing' : Recorded(rows'[m])
  BY <1>1, <1>2, <1>3, <1>4 DEF TableTypeOK
<1>5. ASSUME UNCHANGED rows PROVE \A m \in standing' : Recorded(rows'[m])
  BY <1>2, <1>3, <1>5
<1>6. CASE TimePasses
  BY <1>5, <1>6 DEF TimePasses, Tick
<1>7. ASSUME NEW o \in Operators, OpStep(o) PROVE \A m \in standing' : Recorded(rows'[m])
  <2> DEFINE k == ops[o].msg
  <2>1. ASSUME NEW kind, Pending(o, kind) PROVE k \in Messages
    BY <1>1, <2>1 DEF Pending, OpsTypeOK
  <2>2. CASE CreateMessage(o)
    <3>1. PICK m \in Messages : rows[m].status = "NONE" /\ rows' = [rows EXCEPT ![m] = NewRow(nextSeq)]
      BY <2>2 DEF CreateMessage
    <3>2. m \notin standing
      BY <1>3, <3>1 DEF Recorded, MessageStatuses
    <3>3. QED
      BY <1>2, <1>4, <3>1, <3>2
  <2>3. CASE CreateEvent(o) \/ BeginRequest(o) \/ AbandonRequest(o)
    BY <1>5, <2>3 DEF CreateEvent, BeginRequest, AbandonRequest, tableVars
  <2>4. CASE CancelWrite(o)
    <3>1. k \in Messages /\ rows[k].status \in MessageStatuses
          /\ rows' = [rows EXCEPT ![k] = [rows[k] EXCEPT !.status = "CANCELED"]]
      BY <1>1, <2>1, <2>4 DEF CancelWrite, Exists, TableTypeOK
    <3>2. k \in standing' => Recorded([rows[k] EXCEPT !.status = "CANCELED"])
      BY <1>2, <1>3, <3>1, RecordedWrites
    <3>3. QED
      BY <1>4, <3>1, <3>2
  <2>5. CASE ForceWrite(o)
    <3>1. k \in Messages /\ rows[k].status \in MessageStatuses
          /\ rows' = [rows EXCEPT ![k] = [rows[k] EXCEPT !.force = TRUE]]
      BY <1>1, <2>1, <2>5 DEF ForceWrite, Exists, TableTypeOK
    <3>2. k \in standing' => Recorded([rows[k] EXCEPT !.force = TRUE])
      BY <1>2, <1>3, <3>1, RecordedWrites
    <3>3. QED
      BY <1>4, <3>1, <3>2
  <2>6. CASE RetryWrite(o)
    <3>1. k \in Messages /\ rows' = [rows EXCEPT ![k] = Retried(rows[k])]
          /\ Pending(o, "retry") /\ ops' = [ops EXCEPT ![o] = NoOp]
      BY <2>1, <2>6 DEF RetryWrite, Return
    <3>2. ops'[o] # ops[o]
      BY <1>1, <3>1 DEF OpsTypeOK, NoOp, Pending
    <3>3. CASE rows'[k] # rows[k]
      <4>1. k \in RetriedNow
        BY <3>1, <3>2, <3>3 DEF RetriedNow
      <4>2. QED
        BY <1>2, <1>4, <3>1, <4>1
    <3>4. CASE rows'[k] = rows[k]
      <4>1. UNCHANGED rows
        BY <1>1, <3>1, <3>4 DEF TableTypeOK
      <4>2. QED
        BY <1>5, <4>1
    <3>5. QED
      BY <3>3, <3>4
  <2>7. QED
    BY <1>7, <2>2, <2>3, <2>4, <2>5, <2>6 DEF OpStep
<1>8. CASE ClearHistory
  <2>1. \A m \in Messages : rows'[m] \in {rows[m], Absent("DELETED")}
    BY <1>8 DEF ClearHistory
  <2>2. Recorded(Absent("DELETED"))
    BY DEF Recorded, Absent
  <2>3. QED
    BY <1>1, <1>2, <1>3, <2>1, <2>2
<1>9. CASE UpdateSettings
  BY <1>5, <1>9 DEF UpdateSettings
<1>10. ASSUME NEW s \in Sweepers, SweepStep(s) PROVE \A m \in standing' : Recorded(rows'[m])
  <2>1. CASE RequeueExpired(s)
    <3>1. \A m \in Messages :
            \/ rows'[m] = rows[m]
            \/ rows[m].status \in MessageStatuses /\ rows'[m] = Reaped(rows[m])
      BY <2>1 DEF RequeueExpired, Exists
    <3>2. QED
      BY <1>1, <1>2, <1>3, <3>1, RecordedWrites
  <2>2. CASE FailAbandoned(s)
    <3>1. PICK m \in sweeps[s].ids :
            /\ rows[m].status = "ACCEPTED"
            /\ rows' = [rows EXCEPT ![m] = Abandoned(rows[m])]
      BY <2>2 DEF FailAbandoned, StillAbandoned
    <3>2. m \in Messages /\ rows[m].status \in MessageStatuses
      BY <1>1, <3>1 DEF SweepsTypeOK, Sweep, MessageStatuses
    <3>3. m \in standing' => Recorded(Abandoned(rows[m]))
      BY <1>2, <1>3, <3>2, RecordedWrites
    <3>4. QED
      BY <1>4, <3>1, <3>2, <3>3
  <2>3. CASE UNCHANGED rows
    BY <1>5, <2>3
  <2>4. QED
    BY <1>10, <2>1, <2>2, <2>3
       DEF SweepStep, SweepProgress, ReadExpired, ReadAbandoned, SkipAbandoned, AbortSweep, tableVars
<1>11. QED
  BY <1>6, <1>7, <1>8, <1>9, <1>10 DEF ServerRuns, Operating, Sweeping

\* What is recorded of a standing message stays recorded, whoever writes its row.
LEMMA StandingKept ==
  ASSUME SystemInv, [SystemNext]_systemVars
  PROVE  \A m \in standing' : Recorded(rows'[m])
<1>1. TypeOK /\ TableTypeOK /\ standing \in SUBSET Messages /\ GatewayTypeOK /\ LeaseCoherence
  BY DEF SystemInv, SystemTypeOK, TypeOK, ServerInv, CoherenceInv
<1>2. \A m \in standing : rows[m] \in Row /\ Recorded(rows[m]) /\ now \in Nat /\ nextToken \in Nat
  BY <1>1 DEF TableTypeOK, SystemInv, GuidsKept
<1>3. ASSUME UNCHANGED <<rows, standing>> PROVE \A m \in standing' : Recorded(rows'[m])
  BY <1>2, <1>3
<1>4. CASE Claiming
  <2>1. PICK g \in Gateways : PollRuns(g) /\ UNCHANGED standing
    BY <1>4 DEF Claiming
  <2>2. CASE Claim(g, Locked)
    <3>1. PICK m \in Queued : rows' = [rows EXCEPT ![m] = Claimed(rows[m], nextToken)]
      BY <2>1, <2>2, ClaimBars
    <3>2. m \in standing => Recorded(Claimed(rows[m], nextToken))
      BY <1>2, <3>1, RecordedWrites DEF Queued, MessageStatuses
    <3>3. QED
      BY <1>1, <1>2, <2>1, <3>1, <3>2 DEF TableTypeOK
  <2>3. CASE ~Claim(g, Locked)
    BY <1>3, <2>1, <2>3 DEF PollRuns, BeginTurn, PassGate, EndTurn, LoseLease, Respond, tableVars
  <2>4. QED
    BY <2>2, <2>3
<1>5. ASSUME NEW t \in Attempts, Reports(t) PROVE \A m \in standing' : Recorded(rows'[m])
  <2>1. PICK w \in wire : Apply(w) \/ (UNCHANGED <<rows, standing>>)
    BY <1>5 DEF Reports, Refuse, tableVars
  <2>2. w \in Request /\ w.msg \in Messages
    BY <1>1 DEF GatewayTypeOK, Request
  <2>3. CASE Apply(w) /\ Current(w)
    <3> DEFINE new == AppliedAlone(rows[w.msg], ReportOf(w))
    <3>1. /\ new.status \in MessageStatuses /\ rows[w.msg].status # "QUEUED"
          /\ (new.status # "QUEUED" /\ rows[w.msg].guid # Null => new.guid # Null)
      BY <1>1, <2>2, <2>3, AppliedRow
    <3>2. /\ rows' = [rows EXCEPT ![w.msg] = new]
          /\ standing' = IF new.status = "QUEUED" /\ rows[w.msg].status # "QUEUED"
                         THEN standing \ {w.msg}
                         ELSE IF new.guid # Null THEN standing \cup {w.msg} ELSE standing
      BY <2>3 DEF Apply
    <3>3. rows[w.msg].status \in MessageStatuses
      BY <2>3 DEF Current, Exists
    <3> HIDE DEF new
    <3>4. w.msg \in standing' => Recorded(new)
      <4>1. w.msg \in standing => rows[w.msg].guid # Null
        BY <1>2, <3>3 DEF Recorded, MessageStatuses
      <4>2. QED
        BY <3>1, <3>2, <4>1 DEF Recorded
    <3>5. \A m \in standing' : m = w.msg \/ (m \in standing /\ rows'[m] = rows[m])
      BY <1>1, <2>2, <3>2 DEF TableTypeOK
    <3>6. rows'[w.msg] = new
      BY <1>1, <2>2, <3>2 DEF TableTypeOK
    <3>7. QED
      BY <1>2, <3>4, <3>5, <3>6
  <2>4. CASE ~Apply(w) \/ ~Current(w)
    BY <1>3, <2>1, <2>4 DEF Apply
  <2>5. QED
    BY <2>3, <2>4
<1>6. CASE GatewaysRun \/ (\E t \in Attempts : WatchersRun(t)) \/ UNCHANGED systemVars
  BY <1>3, <1>6 DEF GatewaysRun, WatchersRun, systemVars, vars, tableVars
<1>7. QED
  BY <1>4, <1>5, <1>6, ServerRunsStanding DEF SystemNext

\* How a loop comes to handle what it handles: it goes on with its lease, and sends
\* only where that carries no GUID, or it begins with its poll's answer.
GoesOn(h) ==
  /\ Handles(h) /\ gateways'[h].lease = gateways[h].lease
  /\ gateways'[h].pc \in {"send", "find"}
       => gateways[h].pc \in {"send", "find"} \/ gateways[h].lease.guid = Null

Begins(h) ==
  /\ Responding(h) /\ gateways'[h].pc = "ack"
  /\ gateways'[h].lease = [msg |-> polls[h].msg, token |-> polls[h].token, guid |-> polls[h].guid]

LEMMA LoopMoves ==
  ASSUME SystemInv, [SystemNext]_systemVars, NEW h \in Gateways, Handles(h)'
  PROVE  GoesOn(h) \/ Begins(h)
<1>1. gateways \in [Gateways -> Loop] /\ wire \in SUBSET Request
  BY DEF SystemInv, GatewayInv, GatewayTypeOK
<1>2. ASSUME gateways'[h] = gateways[h] PROVE GoesOn(h)
  BY <1>2 DEF GoesOn, Handles
<1>3. ASSUME NEW g \in Gateways, NEW x, gateways' = [gateways EXCEPT ![g] = x],
             x.pc \in {"down", "claim"}
      PROVE  GoesOn(h)
  BY <1>1, <1>2, <1>3 DEF Handles
<1>4. ASSUME NEW g \in Gateways, Handles(g), NEW pc,
             gateways' = [gateways EXCEPT ![g].pc = pc],
             pc \in {"send", "find"} => gateways[g].pc = "send" \/ gateways[g].lease.guid = Null
      PROVE  GoesOn(h)
  <2>1. CASE g = h
    <3>1. gateways[h] \in Loop
      BY <1>1
    <3>2. gateways'[h].pc = pc /\ gateways'[h].lease = gateways[h].lease
      BY <1>1, <1>4, <2>1, <3>1 DEF Loop
    <3>3. QED
      BY <1>4, <2>1, <3>2 DEF GoesOn
  <2>2. CASE g # h
    BY <1>1, <1>2, <1>4, <2>2
  <2>3. QED
    BY <2>1, <2>2
<1>5. ASSUME NEW g \in Gateways, GatewayStep(g) PROVE GoesOn(h)
  <2>1. CASE SendFails(g) \/ Correlate(g) \/ Uncorrelated(g) \/ GoesOut(g)
    <3>1. PICK pc : /\ gateways' = [gateways EXCEPT ![g].pc = pc]
                    /\ pc = "find" => gateways[g].pc = "send"
                    /\ pc # "send" /\ Handles(g)
      BY <2>1 DEF SendFails, Correlate, Uncorrelated, GoesOut, Ask, Handles
    <3>2. QED
      BY <1>4, <3>1
  <2>2. CASE Crash(g)
    BY <1>3, <2>2, EmptyTyped DEF Crash
  <2>3. CASE Stop(g)
    <3> DEFINE y == [gateways[g] EXCEPT !.stopping = TRUE]
    <3>1. gateways' = [gateways EXCEPT ![g] = Down] \/ gateways' = [gateways EXCEPT ![g] = y]
      BY <1>1, <2>3 DEF Stop
    <3>2. y.pc = gateways[g].pc /\ y.lease = gateways[g].lease
      BY <1>1 DEF Loop
    <3> HIDE DEF y
    <3>3. CASE gateways' = [gateways EXCEPT ![g] = Down]
      BY <1>3, <3>3, EmptyTyped
    <3>4. CASE gateways' = [gateways EXCEPT ![g] = y]
      BY <1>1, <3>2, <3>4 DEF GoesOn, Handles
    <3>5. QED
      BY <3>1, <3>3, <3>4
  <2>4. CASE Start(g)
    <3> DEFINE z == [gateways[g] EXCEPT !.pc = "claim"]
    <3>1. gateways' = [gateways EXCEPT ![g] = z]
      BY <1>1, <2>4 DEF Start
    <3>2. z.pc = "claim"
      BY <1>1 DEF Loop
    <3> HIDE DEF z
    <3>3. QED
      BY <1>3, <3>1, <3>2
  <2>5. CASE Exit(g)
    BY <1>2, <2>5 DEF Exit
  <2>6. QED
    BY <1>5, <2>1, <2>2, <2>3, <2>4, <2>5 DEF GatewayStep
<1>6. ASSUME NEW w \in wire, Answered(w) \/ WireStep(w) PROVE GoesOn(h)
  <2> DEFINE g == w.from
  <2>1. g \in Gateways
    BY <1>1 DEF Request
  <2>2. CASE UNCHANGED gateways
    BY <1>2, <2>2
  <2>3. CASE gateways' = [gateways EXCEPT ![g] = Turn(g)]
    BY <1>3, <2>1, <2>3, EmptyTyped
  <2>4. ASSUME NEW pc, gateways' = [gateways EXCEPT ![g].pc = pc], Handles(g),
               pc \in {"send", "find"} => gateways[g].lease.guid = Null
        PROVE  GoesOn(h)
    BY <1>4, <2>1, <2>4
  <2>5. \/ UNCHANGED gateways \/ gateways' = [gateways EXCEPT ![g] = Turn(g)]
        \/ \E pc : /\ gateways' = [gateways EXCEPT ![g].pc = pc] /\ Handles(g)
                   /\ pc \in {"send", "find"} => gateways[g].lease.guid = Null
    <3>1. CASE LoopAnswered(g, w)
      BY <3>1 DEF LoopAnswered, AlreadySent, Handles
    <3>2. CASE LoopBroken(w)
      BY <3>2 DEF LoopBroken, Handles
    <3>3. QED
      BY <1>6, <3>1, <3>2 DEF Answered, WatchAnswered, WireStep, Break, WatchBroken, Drop
  <2> HIDE DEF g
  <2>6. QED
    BY <2>2, <2>3, <2>4, <2>5
<1>7. ASSUME NEW g \in Gateways, PollRuns(g) PROVE GoesOn(h) \/ Begins(h)
  <2>1. CASE UNCHANGED gateways
    BY <1>2, <2>1
  <2>2. CASE gateways[g].pc = "claim" /\ gateways' = [gateways EXCEPT ![g].heard = TRUE]
    <3> DEFINE x == [gateways[g] EXCEPT !.heard = TRUE]
    <3>1. gateways' = [gateways EXCEPT ![g] = x] /\ x.pc = "claim"
      BY <1>1, <2>2 DEF Loop
    <3> HIDE DEF x
    <3>2. QED
      BY <1>3, <3>1
  <2>3. CASE Respond(g) /\ BeginLease(g, [msg |-> polls[g].msg, token |-> polls[g].token,
                                          guid |-> polls[g].guid])
    <3> DEFINE l == [msg |-> polls[g].msg, token |-> polls[g].token, guid |-> polls[g].guid]
    <3>1. CASE g = h
      <4>1. gateways'[h].pc = "ack" /\ gateways'[h].lease = l
        <5>1. gateways' = [gateways EXCEPT ![g].pc = "ack", ![g].lease = l, ![g].heard = FALSE]
          BY <2>3 DEF BeginLease
        <5> HIDE DEF l
        <5>2. gateways[g] \in Loop
          BY <1>1
        <5>3. QED
          BY <1>1, <3>1, <5>1, <5>2 DEF Loop
      <4>2. QED
        BY <2>3, <3>1, <4>1 DEF Begins, Respond, Responding
    <3>2. CASE g # h
      BY <1>1, <1>2, <2>3, <3>2 DEF BeginLease
    <3>3. QED
      BY <3>1, <3>2
  <2>4. QED
    BY <1>7, <2>1, <2>2, <2>3 DEF PollRuns, gatewayVars
<1>8. CASE ServerRuns \/ UNCHANGED systemVars
  BY <1>2, <1>8 DEF ServerRuns, systemVars, gatewayVars
<1>9. CASE Claiming
  BY <1>7, <1>9 DEF Claiming
<1>10. CASE GatewaysRun
  BY <1>5, <1>10 DEF GatewaysRun
<1>11. ASSUME NEW t \in Attempts, WatchersRun(t) PROVE GoesOn(h)
  BY <1>2, <1>11 DEF WatchersRun, WatcherStep, WatchGivesUp, Deliver, WatchTick, WatchPost
<1>12. ASSUME NEW t \in Attempts, Reports(t) PROVE GoesOn(h)
  BY <1>6, <1>12 DEF Reports, Apply, Refuse
<1>13. QED
  BY <1>8, <1>9, <1>10, <1>11, <1>12 DEF SystemNext

\* Polls answer with what they claimed.
LEMMA PollMoves ==
  ASSUME SystemInv, [SystemNext]_systemVars, NEW p \in Pollers, Responding(p)'
  PROVE  \/ Responding(p) /\ polls'[p] = polls[p]
         \/ PollRuns(p) /\ Claim(p, Locked)
<1>1. PollsTypeOK
  BY DEF SystemInv, SystemTypeOK, TypeOK
<1>2. ASSUME polls'[p] = polls[p] PROVE Responding(p)
  BY <1>2 DEF Responding
<1>3. CASE Claiming
  <2>1. PICK g \in Gateways : PollRuns(g)
    BY <1>3 DEF Claiming
  <2>2. \A q \in Pollers \ {g} : polls'[q] = polls[q]
    BY <1>1, <2>1 DEF PollRuns, BeginTurn, PassGate, EndTurn, Claim, Respond, LoseLease, PollsTypeOK
  <2>3. CASE p = g /\ (BeginTurn(g) \/ EndTurn(g) \/ LoseLease(g) \/ Respond(g))
    <3>1. NoPoll.pc = "idle" /\ [NoPoll EXCEPT !.pc = "gate", !.at = now,
                                               !.interval = settings.interval].pc = "gate"
      BY DEF NoPoll
    <3>2. polls'[p].pc \in {"idle", "gate"}
      BY <1>1, <2>3, <3>1 DEF BeginTurn, EndTurn, LoseLease, Respond, PollsTypeOK
    <3>3. QED
      BY <3>2 DEF Responding
  <2>4. CASE p = g /\ PassGate(g)
    <3>1. polls[p] \in Poll
      BY <1>1 DEF PollsTypeOK
    <3>2. polls'[p].pc = "claim"
      BY <1>1, <2>4, <3>1 DEF PassGate, PollsTypeOK, Poll
    <3>3. QED
      BY <3>2 DEF Responding
  <2>5. QED
    BY <1>2, <2>1, <2>2, <2>3, <2>4 DEF PollRuns
<1>4. CASE ~Claiming
  <2>1. UNCHANGED polls
    BY <1>4 DEF SystemNext, ServerRuns, TimePasses, Operating, Sweeping, Reports, GatewaysRun,
                WatchersRun, systemVars, vars, pollVars
  <2>2. QED
    BY <1>2, <2>1
<1>5. QED
  BY <1>3, <1>4

\* The GUID that bars a lease is in it: where it is claimed and where it is handled.
LEMMA GuidsHandedOver ==
  ASSUME SystemInv, [SystemNext]_systemVars
  PROVE  GuidsKept'
<1>1. TypeOK /\ TokensIssued /\ PollsTypeOK /\ TokensPast /\ GuidsKept /\ HeldOnce
  BY DEF SystemInv, SystemTypeOK, TypeOK, ServerInv, AttemptsInv, GatewayInv
<1>2. \A p \in Pollers : Responding(p) => polls[p].token \in Nat /\ polls[p].token < nextToken
  BY <1>1 DEF TokensIssued, Responding, PollsTypeOK
<1>3. nextToken \in Nat /\ \A l \in granted : l.token \in Nat /\ l.token < nextToken
  BY <1>1 DEF TypeOK, TableTypeOK, TokensIssued, Lease
<1>4. ASSUME NEW t \in Nat, t \in barred', t < nextToken PROVE t \in barred
  BY <1>3, <1>4, HistoryKept, ClaimBars
<1>5. ASSUME NEW p \in Pollers, Responding(p)', polls'[p].token \in barred'
      PROVE  polls'[p].guid # Null
  <2>1. CASE Responding(p) /\ polls'[p] = polls[p]
    BY <1>1, <1>2, <1>4, <1>5, <2>1 DEF GuidsKept
  <2>2. CASE PollRuns(p) /\ Claim(p, Locked)
    <3>1. PICK m \in Queued : /\ polls'[p].token = nextToken /\ polls'[p].guid = rows[m].guid
                              /\ nextToken \in barred' \ barred => m \in standing
      BY <2>2, ClaimBars, GatewaysPoll
    <3>2. nextToken \notin barred
      BY <1>1, <1>3 DEF TokensPast
    <3>3. Recorded(rows[m]) /\ rows[m].status = "QUEUED"
      BY <1>1, <1>5, <3>1, <3>2 DEF GuidsKept, Queued
    <3>4. QED
      BY <3>1, <3>3 DEF Recorded
  <2>3. QED
    BY <1>5, <2>1, <2>2, PollMoves
<1>6. ASSUME NEW g \in Gateways
      PROVE  /\ Handles(g)' /\ gateways'[g].lease.token \in barred' => gateways'[g].lease.guid # Null
             /\ gateways'[g].pc \in {"send", "find"} => gateways'[g].lease.guid = Null
  <2>1. gateways'[g].pc \in {"send", "find"} => Handles(g)'
    BY DEF Handles
  <2>2. CASE GoesOn(g)
    <3>1. gateways[g].lease \in granted
      BY <1>1, <2>2 DEF GoesOn, HeldOnce
    <3>2. gateways'[g].lease.token \in barred' => gateways[g].lease.token \in barred
      BY <1>3, <1>4, <2>2, <3>1 DEF GoesOn
    <3>3. QED
      BY <1>1, <2>2, <3>2 DEF GoesOn, GuidsKept
  <2>3. CASE Begins(g)
    <3>1. gateways'[g].lease.token = polls[g].token /\ gateways'[g].lease.guid = polls[g].guid
          /\ gateways'[g].pc = "ack" /\ Responding(g) /\ g \in Pollers
      BY <2>3, GatewaysPoll DEF Begins
    <3>2. polls[g].token \in barred' => polls[g].token \in barred
      BY <1>2, <1>4, <3>1
    <3>3. QED
      BY <1>1, <3>1, <3>2 DEF GuidsKept
  <2>4. QED
    BY <2>1, <2>2, <2>3, LoopMoves
<1>7. QED
  BY <1>5, <1>6, StandingKept DEF GuidsKept

\* A message leaves the Mac only from a loop that sends.
LEMMA ChatMoves ==
  ASSUME SystemInv, [SystemNext]_systemVars, NEW t \in Attempts, chat'[t].state # "none"
  PROVE  \/ chat[t].state # "none"
         \/ \E g \in Gateways : gateways[g].pc = "send" /\ gateways[g].lease.token = t
<1>1. chat \in [Attempts -> ChatRow]
  BY DEF SystemInv, GatewayInv, GatewayTypeOK
<1>2. CASE UNCHANGED chat
  BY <1>2
<1>3. ASSUME NEW u \in Attempts, Deliver(u) PROVE chat[t].state # "none"
  <2>1. chat[u].state # "none" /\ \A v \in Attempts \ {u} : chat'[v] = chat[v]
    BY <1>1, <1>3 DEF Deliver
  <2>2. QED
    BY <2>1
<1>4. ASSUME NEW g \in Gateways, GoesOut(g)
      PROVE  chat[t].state # "none" \/ (gateways[g].pc = "send" /\ gateways[g].lease.token = t)
  <2>1. \A v \in Attempts : v # gateways[g].lease.token => chat'[v] = chat[v]
    BY <1>1, <1>4 DEF GoesOut
  <2>2. QED
    BY <1>4, <2>1 DEF GoesOut
<1>5. \/ UNCHANGED chat \/ \E u \in Attempts : Deliver(u) \/ \E g \in Gateways : GoesOut(g)
  <2>1. CASE Claiming
    BY <2>1 DEF Claiming, PollRuns, gatewayVars, BeginLease
  <2>2. CASE ServerRuns \/ UNCHANGED systemVars
    BY <2>2 DEF ServerRuns, systemVars, gatewayVars
  <2>3. CASE GatewaysRun
    BY <2>3 DEF GatewaysRun, GatewayStep, SendFails, Correlate, Uncorrelated, Crash, Stop, Exit, Start
  <2>4. ASSUME NEW u \in Attempts, WatchersRun(u) PROVE UNCHANGED chat \/ Deliver(u)
    BY <2>4 DEF WatchersRun, WatcherStep, WatchGivesUp, WatchTick, WatchPost
  <2>5. ASSUME NEW u \in Attempts, Reports(u) PROVE UNCHANGED chat
    BY <2>5 DEF Reports, Apply, Refuse, Answered, WireStep, Break, Drop
  <2>6. QED
    BY <2>1, <2>2, <2>3, <2>4, <2>5 DEF SystemNext
<1>6. QED
  BY <1>2, <1>3, <1>4, <1>5

\* Attempts are numbered: what is barred or was sent has been claimed.
LEMMA TokensPastKept ==
  ASSUME SystemInv, [SystemNext]_systemVars
  PROVE  TokensPast' /\ barred' \in SUBSET Attempts
<1>1. TokensPast /\ HeldOnce /\ TokensIssued /\ TypeOK /\ barred \in SUBSET Attempts
  BY DEF SystemInv, SystemTypeOK, ServerInv, AttemptsInv, GatewayInv
<1>2. nextToken \in Nat /\ \A l \in granted : l.token \in Nat /\ l.token < nextToken
  BY <1>1 DEF TypeOK, TableTypeOK, TokensIssued, Lease
<1>3. \A t \in Attempts : chat'[t].state # "none" => t < nextToken
  <2> SUFFICES ASSUME NEW t \in Attempts, chat'[t].state # "none" PROVE t < nextToken
    OBVIOUS
  <2>1. CASE chat[t].state # "none"
    BY <1>1, <2>1 DEF TokensPast
  <2>2. ASSUME NEW g \in Gateways, gateways[g].pc = "send", gateways[g].lease.token = t
        PROVE  t < nextToken
    BY <1>1, <1>2, <2>2 DEF HeldOnce, Handles
  <2>3. QED
    BY <2>1, <2>2, ChatMoves
<1>4. CASE UNCHANGED <<barred, nextToken>>
  BY <1>1, <1>3, <1>4 DEF TokensPast
<1>5. ASSUME NEW g \in Gateways, PollRuns(g), Claim(g, Locked) PROVE TokensPast' /\ barred' \in SUBSET Attempts
  <2>1. /\ nextToken \in Attempts /\ nextToken' = nextToken + 1
        /\ barred' \in {barred, barred \cup {nextToken}}
    BY <1>5, ClaimBars
  <2>2. \A t \in Attempts : t < nextToken => t < nextToken'
    <3>1. \A t \in Attempts : t \in Nat
      BY BoundAssumption DEF Attempts
    <3>2. nextToken \in Nat /\ nextToken' = nextToken + 1
      BY <1>2, <2>1
    <3>3. \A t \in Nat : t < nextToken => t < nextToken + 1
      BY <3>2
    <3>4. QED
      BY <3>1, <3>2, <3>3
  <2>3. \A t \in barred' : t \in Attempts /\ t < nextToken'
    <3>1. \A t \in barred : t \in Attempts /\ t < nextToken
      BY <1>1 DEF TokensPast
    <3>2. nextToken \in Attempts /\ nextToken < nextToken'
      BY <1>2, <2>1
    <3>3. QED
      BY <2>1, <2>2, <3>1, <3>2
  <2>4. nextToken' >= 1
    BY <1>2, <2>1
  <2>5. QED
    BY <1>3, <2>2, <2>3, <2>4 DEF TokensPast
<1>6. QED
  BY <1>4, <1>5, HistoryKept

\* No barred lease is sent: the loop that sends saw no GUID.
LEMMA GuardKept ==
  ASSUME SystemInv, [SystemNext]_systemVars
  PROVE  RecordedSendIsLast'
<1>1. /\ TokensPast /\ GuidsKept /\ HeldOnce /\ TokensIssued /\ TypeOK /\ RecordedSendIsLast
      /\ barred \in SUBSET Attempts
  BY DEF SystemInv, SystemTypeOK, ServerInv, AttemptsInv, GatewayInv
<1>2. nextToken \in Nat /\ \A l \in granted : l.token \in Nat /\ l.token < nextToken
  BY <1>1 DEF TypeOK, TableTypeOK, TokensIssued, Lease
<1>3. ASSUME NEW t \in barred PROVE chat'[t].state = "none"
  <2>1. t \in Attempts /\ chat[t].state = "none"
    BY <1>1 DEF RecordedSendIsLast
  <2>2. ASSUME NEW g \in Gateways, gateways[g].pc = "send", gateways[g].lease.token = t PROVE FALSE
    BY <1>1, <2>2 DEF GuidsKept, Handles
  <2>3. QED
    BY <2>1, <2>2, ChatMoves
<1>4. ASSUME nextToken \in Attempts PROVE chat'[nextToken].state = "none"
  <2>1. chat[nextToken].state = "none"
    BY <1>1, <1>2, <1>4 DEF TokensPast
  <2>2. ASSUME NEW g \in Gateways, gateways[g].pc = "send", gateways[g].lease.token = nextToken
        PROVE  FALSE
    BY <1>1, <1>2, <2>2 DEF HeldOnce, Handles
  <2>3. QED
    BY <1>4, <2>1, <2>2, ChatMoves
<1>5. barred' = barred \/ (nextToken \in Attempts /\ barred' = barred \cup {nextToken})
  BY HistoryKept, ClaimBars
<1>6. QED
  BY <1>3, <1>4, <1>5 DEF RecordedSendIsLast

\* The invariant holds at the start, and every step keeps it.
LEMMA SystemInitInv == SystemInit => SystemInv
<1> SUFFICES ASSUME SystemInit PROVE SystemInv
  OBVIOUS
<1>1. /\ ServerInv /\ GatewayInv /\ nextToken = 1
      /\ \A p \in Pollers : ~Responding(p)
  BY SystemInitServer, SystemInitGateways
<1>2. standing = {} /\ barred = {} /\ disturbed = {}
  BY DEF SystemInit
<1>3. SystemTypeOK
  BY <1>1, <1>2 DEF SystemTypeOK, ServerInv, AttemptsInv, GatewayInv
<1>4. \A t \in Attempts : chat[t].state = "none"
  BY DEF SystemInit, GatewayInit, NoRow
<1>5. \A g \in Gateways : gateways[g].pc = "claim"
  BY DEF SystemInit, GatewayInit, Down
<1>6. TokensPast /\ GuidsKept /\ RecordedSendIsLast
  BY <1>1, <1>2, <1>4, <1>5 DEF TokensPast, GuidsKept, RecordedSendIsLast, Handles
<1>7. QED
  BY <1>1, <1>3, <1>6 DEF SystemInv

LEMMA SystemStepInv == SystemInv /\ [SystemNext]_systemVars => SystemInv'
<1> SUFFICES ASSUME SystemInv, [SystemNext]_systemVars PROVE SystemInv'
  OBVIOUS
<1>1. ServerInv /\ GatewayInv /\ GatewayTypeOK
  BY DEF SystemInv, GatewayInv
<1>2. ServerInv' /\ GatewayInv'
  BY <1>1, ServerHalf, GatewayHalf
<1>3. standing' \in SUBSET Messages /\ disturbed' \in SUBSET Attempts
  BY HistoryKept
<1>4. TokensPast' /\ barred' \in SUBSET Attempts
  BY TokensPastKept
<1>5. SystemTypeOK'
  BY <1>2, <1>3, <1>4 DEF SystemTypeOK, ServerInv, AttemptsInv, GatewayInv
<1>6. QED
  BY <1>2, <1>4, <1>5, GuidsHandedOver, GuardKept DEF SystemInv

\* Whatever the server, its operators, the gateways, Messages and the network do:
\* every row, request, watcher and handler is of its type.
THEOREM SystemTypeCorrect == SystemSpec => []SystemTypeOK
<1>1. SystemInv => SystemTypeOK
  BY DEF SystemInv
<1>2. QED
  BY <1>1, SystemInitInv, SystemStepInv, PTL DEF SystemSpec

\* The double-send guard (lease.ts, handleLease): once a send's GUID has been
\* recorded, no later lease of the message is sent, through any number of sweeps,
\* crashes, lost reports and rival gateways.
THEOREM GuardHolds == SystemSpec => []RecordedSendIsLast
<1>1. SystemInv => RecordedSendIsLast
  BY DEF SystemInv
<1>2. QED
  BY <1>1, SystemInitInv, SystemStepInv, PTL DEF SystemSpec

\* A lease that was handed out is handled by one loop or followed by one watcher:
\* gateways that crash, start again, or take over a requeued message never share one.
THEOREM LeasesHeldOnce == SystemSpec => []HeldOnce
<1>1. SystemInv => HeldOnce
  BY DEF SystemInv, GatewayInv
<1>2. QED
  BY <1>1, SystemInitInv, SystemStepInv, PTL DEF SystemSpec

\* With reports applied in one step and gateways that follow the protocol, the
\* server still keeps what it keeps among arbitrary reports: coherent lease
\* columns, and no attempt shared.
THEOREM ServerSafeInSystem == SystemSpec => [](LeaseCoherence /\ AttemptsDistinct)
<1>1. SystemInv => LeaseCoherence /\ AttemptsDistinct
  BY DEF SystemInv, ServerInv, CoherenceInv, AttemptsInv
<1>2. QED
  BY <1>1, SystemInitInv, SystemStepInv, PTL DEF SystemSpec

-----------------------------------------------------------------------------
(* The lives of the messages *)

LEMMA SystemLifeInv == SystemInv => LifeInv
  BY DEF SystemInv, ServerInv, TokensPast, LifeInv, CoherenceInv, TypeOK, TableTypeOK

\* A report applied in one step advances its message, sends it back to the
\* queue, or changes nothing of its life (applyStatusReport).
LEMMA ApplyLives ==
  ASSUME LifeInv, NEW w \in Request, Apply(w)
  PROVE  Lives
<1> DEFINE m == w.msg
           new == AppliedAlone(rows[m], ReportOf(w))
<1>1. TypeOK /\ TableTypeOK /\ LeaseCoherence /\ UNCHANGED nextToken
  BY DEF LifeInv, CoherenceInv, TypeOK, Apply
<1>2. CASE ~Current(w)
  BY <1>2, TableUntouched DEF Apply
<1>3. CASE Current(w)
  <2>1. m \in Messages /\ rows[m] \in Row /\ Exists(m) /\ rows[m].status # "QUEUED"
    BY <1>1, <1>3, AppliedRow DEF Request, Current, TableTypeOK
  <2>2. rows' = [rows EXCEPT ![m] = new]
    BY <1>3 DEF Apply
  <2>3. PICK r \in Report :
          \/ ~CanTransition(rows[m].status, r.status) /\ new = WithFacts(rows[m], r)
          \/ CanTransition(rows[m].status, r.status) /\ new = Requeued(rows[m])
          \/ CanTransition(rows[m].status, r.status) /\ new = Advanced(rows[m], r)
    BY <1>1, <1>3, AppliedCases
  <2>4. r.status \in MessageStatuses
    BY DEF Report
  <2> HIDE DEF new, m
  <2>5. rows'[m] = new /\ Only(m)
    BY <1>1, <2>1, <2>2, OneRow
  <2>6. CASE new = WithFacts(rows[m], r)
    <3>1. rows'[m].status = rows[m].status /\ rows'[m].token = rows[m].token
      BY <2>1, <2>5, <2>6, ReportedColumns
    <3>2. QED
      BY <2>1, <2>5, <3>1, RowUntouched
  <2>7. CASE new = Requeued(rows[m])
    <3>1. Requeued(rows[m]).status = "QUEUED" /\ Requeued(rows[m]).token = Null
      BY <2>1 DEF Requeued, Row
    <3>2. QED
      BY <2>1, <2>5, <2>7, <3>1, RowRequeued
  <2>8. CASE CanTransition(rows[m].status, r.status) /\ new = Advanced(rows[m], r)
    <3>1. rows'[m].status = r.status /\ rows'[m].token = rows[m].token
      BY <2>1, <2>5, <2>8, ReportedColumns
    <3>2. Life!LifecycleNext
      BY <2>1, <2>4, <2>5, <2>8, <3>1, LifeProgresses
    <3>3. QED
      BY <3>2 DEF Lives
  <2>9. QED
    BY <2>3, <2>6, <2>7, <2>8
<1>4. QED
  BY <1>2, <1>3

\* The gateways touch the table through their polls and reports only.
LEMMA SystemStepLives ==
  ASSUME SystemInv, [SystemNext]_systemVars
  PROVE  Lives
<1>1. LifeInv /\ GatewayTypeOK
  BY SystemLifeInv DEF SystemInv, GatewayInv
<1>2. CASE ServerRuns
  <2>1. CASE TimePasses
    BY <2>1, TableUntouched DEF TimePasses, Tick
  <2>2. CASE Operating
    BY <1>1, <2>2, OperatorLives DEF Operating
  <2>3. CASE Sweeping
    BY <1>1, <2>3, SweepLives DEF Sweeping
  <2>4. QED
    BY <1>2, <2>1, <2>2, <2>3 DEF ServerRuns
<1>3. CASE Claiming
  <2>1. PICK g \in Gateways : PollStep(g, Locked)
    BY <1>3 DEF Claiming, PollRuns, PollStep
  <2>2. QED
    BY <1>1, <2>1, PollLives, GatewaysPoll
<1>4. ASSUME NEW t \in Attempts, Reports(t) PROVE Lives
  <2>1. PICK w \in wire : Apply(w) \/ UNCHANGED tableVars
    BY <1>4 DEF Reports, Refuse
  <2>2. w \in Request
    BY <1>1 DEF GatewayTypeOK
  <2>3. QED
    BY <1>1, <2>1, <2>2, ApplyLives, TableUntouched DEF tableVars
<1>5. ASSUME UNCHANGED vars PROVE Lives
  BY <1>5, TableUntouched DEF vars, tableVars
<1>6. QED
  BY <1>2, <1>3, <1>4, <1>5 DEF SystemNext, GatewaysRun, WatchersRun, systemVars

\* With gateways that crash, restart and report what chat.db says, every message
\* still lives as Lifecycle describes: within an attempt its status only advances,
\* a new attempt has a token never used before, nothing is deleted before it has
\* finished (the writers of the messages table).
THEOREM SystemLives == SystemSpec => MessagesLive
<1>1. QED
  BY SystemInitInv, SystemStepInv, SystemStepLives, PTL DEF SystemSpec, Lives, MessagesLive
=============================================================================
