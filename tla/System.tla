------------------------------- MODULE System -------------------------------
(***************************************************************************)
(* The server and its gateways.  A gateway's poll is one of the server's   *)
(* Pollers; a lease that is answered goes to the gateway; a report on the  *)
(* wire is applied in one step, which is what ReportsLinearize, checked of *)
(* Server, allows.  Gateways crash, are stopped and started again, reports *)
(* get lost or are answered with an error.                                 *)
(***************************************************************************)
EXTENDS Server, Gateway

ASSUME GatewaysPoll == Pollers = Gateways
ASSUME QueueAssumption == IsFiniteSet(Messages)

VARIABLES
  standing,       \* history: the messages whose GUID was recorded, unless a
                  \* failure report or a retry forgot it
  barred,         \* history: the leases claimed for a message in standing
  disturbed       \* history: the attempts whose watching something cut short

systemVars == <<vars, gatewayVars, standing, barred, disturbed>>

\* The messages have been scheduled, in some order (CreateMessage, CreateEvent).
SomeQueue ==
  /\ \E order \in [Messages -> 1..Cardinality(Messages)] :
       /\ \A m, n \in Messages : m # n => order[m] # order[n]
       /\ rows = [m \in Messages |-> NewRow(order[m])]
  /\ events = [m \in Messages |-> {"QUEUED"}]
  /\ settings \in [interval : Intervals, paused : {FALSE}, budget : Budgets]
  /\ now = 0 /\ nextToken = 1 /\ nextSeq = Cardinality(Messages) + 1
  /\ granted = {}

SystemInit ==
  /\ SomeQueue /\ ReportsInit /\ OpsInit /\ PollsInit /\ SweepsInit /\ GatewayInit
  /\ standing = {} /\ barred = {} /\ disturbed = {}

SystemTypeOK ==
  /\ TypeOK /\ GatewayTypeOK
  /\ standing \in SUBSET Messages
  /\ barred \in SUBSET Attempts
  /\ disturbed \in SUBSET Attempts

\* The messages a retry is written for in this step.
RetriedNow == {m \in Messages : \E o \in Operators :
                 Pending(o, "retry") /\ ops[o].msg = m /\ ops'[o] # ops[o] /\ rows'[m] # rows[m]}

\* The server's own processes, as in Server.
ServerRuns ==
  /\ TimePasses \/ Operating \/ Sweeping
  /\ standing' = standing \ RetriedNow
  /\ UNCHANGED <<gatewayVars, barred, disturbed>>

\* A poll begins a turn for the process that is waiting for it, or the server
\* goes on with a poll, which it does whether or not somebody still waits.
PollRuns(g) ==
  \/ /\ BeginTurn(g)
     /\ gateways[g].pc = "claim"
     /\ gateways' = [gateways EXCEPT ![g].heard = TRUE]
     /\ UNCHANGED <<chat, watches, wire, barred>>
  \/ /\ PassGate(g) \/ EndTurn(g) \/ LoseLease(g)
     /\ UNCHANGED <<gatewayVars, barred>>
  \/ /\ Claim(g, Locked)
     /\ barred' = barred \cup {nextToken : m \in {n \in standing : rows'[n] # rows[n]}}
     /\ UNCHANGED gatewayVars
  \/ /\ Respond(g)
     /\ LET q == polls[g] IN
        IF gateways[g].pc = "claim" /\ gateways[g].heard
        THEN BeginLease(g, [msg |-> q.msg, token |-> q.token, guid |-> q.guid])
        ELSE UNCHANGED gatewayVars
     /\ UNCHANGED barred

Claiming ==
  /\ \E g \in Gateways : PollRuns(g)
  /\ UNCHANGED <<reportVars, ops, sweeps, standing, disturbed>>

\* The report a request carries, with what applyOnce reads for it.
ReportOf(w) == [msg |-> w.msg, token |-> w.token, status |-> w.status, guid |-> w.guid,
                budget |-> settings.budget, seen |-> [guid |-> Null]]

\* Mutant: the report of an attempt that has been reclaimed is applied too.
AnyAttempt(w) == Exists(w.msg)

Current(w) == Exists(w.msg) /\ rows[w.msg].token = w.token

\* providerGuid is unique.
GuidTaken(w) ==
  /\ Current(w) /\ w.guid # Null /\ rows[w.msg].guid = Null
  /\ \E n \in Messages \ {w.msg} : rows[n].guid = w.guid

\* applyStatusReport as one step, and the answer.
Apply(w) ==
  LET row == rows[w.msg]
      new == AppliedAlone(row, ReportOf(w)) IN
  /\ ~GuidTaken(w)
  /\ IF ~Current(w) THEN UNCHANGED <<rows, events, standing>>
     ELSE /\ rows' = [rows EXCEPT ![w.msg] = new]
          /\ IF new.status # row.status /\ new.status # "QUEUED"
             THEN RecordEvent(w.msg, new.status) ELSE UNCHANGED events
          /\ standing' = IF new.status = "QUEUED" /\ row.status # "QUEUED" THEN standing \ {w.msg}
                         ELSE IF new.guid # Null THEN standing \cup {w.msg} ELSE standing
  /\ Answered(w)
  /\ UNCHANGED <<settings, now, nextToken, nextSeq, granted, disturbed>>

\* The server answers with an error: the handler ran out of tries, or the GUID
\* belongs to another message.
Refuse(w) ==
  /\ "reject" \in Faults \/ GuidTaken(w)
  /\ Answered(w)
  /\ disturbed' = disturbed \cup {w.token}
  /\ UNCHANGED <<tableVars, standing>>

\* What becomes of the report requests of attempt t.
Reports(t) ==
  /\ \E w \in {v \in wire : v.token = t} :
       \/ Apply(w) \/ Refuse(w)
       \/ WireStep(w) /\ disturbed' = disturbed \cup {t} /\ UNCHANGED <<tableVars, standing>>
  /\ UNCHANGED <<reportVars, ops, pollVars, sweeps, barred>>

\* A process that ends takes its watchers along.
GatewaysRun ==
  /\ \E g \in Gateways : GatewayStep(g)
  /\ disturbed' = disturbed \cup {t \in Attempts : watches'[t] # watches[t]}
  /\ UNCHANGED <<vars, standing, barred>>

WatchersRun(t) ==
  /\ \/ WatcherStep(t) /\ UNCHANGED disturbed
     \/ WatchGivesUp(t) /\ disturbed' = disturbed \cup {t}
  /\ UNCHANGED <<vars, standing, barred>>

SystemNext ==
  \/ ServerRuns \/ Claiming \/ GatewaysRun
  \/ \E t \in Attempts : Reports(t) \/ WatchersRun(t)

SystemSpec == SystemInit /\ [][SystemNext]_systemVars

\* A poll timer ticks, a posted report is answered or fails: a live process is
\* scheduled and fetch does not wait for ever.  Nothing is assumed of Messages.
FairSystem ==
  /\ SystemSpec
  /\ \A t \in Attempts :
       /\ WF_systemVars(WatchersRun(t) /\ WatchTick(t))
       /\ WF_systemVars(WatchersRun(t) /\ WatchPost(t))
       /\ WF_systemVars(Reports(t))

-----------------------------------------------------------------------------

\* The double-send guard: once a send's GUID has been recorded, no later lease of
\* the message leads to another send, through sweeps that requeue it while it is
\* being acknowledged, crashes and lost reports, until a failure report or a
\* person's retry says it should (lease.ts: "the one piece of gateway logic that
\* must never regress").  Reaping must keep the GUID, the claim must hand it
\* over and the gateway must obey it.
RecordedSendIsLast == \A t \in barred : chat[t].state = "none"

\* With the reports of real gateways, late and repeated across crashes and sweeps,
\* a message still lives as Lifecycle describes: it progresses only within the
\* attempt that claimed it, and no attempt is used twice (applyOnce's check of the
\* dispatch token, claimNextMessage).  The messages are scheduled at the start.
MessagesLive == [][Life!LifecycleNext]_Life!lifecycleVars

\* Attempt t of message m is watched or was, and what it watched has been read.
WatchedRead(t, m) ==
  /\ watches[t].lease # Null /\ watches[t].lease.msg = m
  /\ chat[watches[t].guid].state = "read"

\* A message that was read is shown as read, or has ended otherwise or moved on
\* to another attempt: what chat.db says reaches the row through the watcher's
\* polls and its chain of reports, unless the watcher was cut short or one of the
\* attempt's reports was lost or refused (watchers.ts).
ReadsLand ==
  \A t \in Attempts, m \in Messages :
    WatchedRead(t, m) ~>
      t \in disturbed \/ rows[m].token # t \/ IsTerminal(rows[m].status)

\* docs/specs/00-overview.md: "A lost status report must not cause the same
\* iMessage to be sent twice."
LostReportNotResent ==
  \A k, l \in granted :
    k.msg = l.msg /\ chat[k.token].state # "none" /\ chat[l.token].state # "none" => k = l
=============================================================================
