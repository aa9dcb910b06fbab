----------------------------- MODULE LeaseRoute -----------------------------
(***************************************************************************)
(* GET /lease: the long poll that decides whether a message may leave now  *)
(* and claims it (apps/server/src/http/routes/gateway.ts, queue-state.ts,  *)
(* rate-limit.ts, claimNextMessage of message-queue.ts).                   *)
(*                                                                         *)
(* One turn of the poll's loop reads the settings, then the last dispatch  *)
(* and the forced messages, then claims: the claim is one atomic UPDATE,   *)
(* but the gate it passed was evaluated earlier.  Several polls run at     *)
(* once: several server instances, several gateways, or the poll of a      *)
(* gateway that hung up, which is noticed only after the next sleep.       *)
(***************************************************************************)
EXTENDS MessageTable

CONSTANT Pollers  \* the long polls that may be open at once

VARIABLES
  polls,          \* the handlers of the open polls
  lastClaim       \* history: when each poll last claimed with the gate due

pollVars == <<polls, lastClaim>>

Poll == [pc       : {"idle", "gate", "claim", "respond"},
         at       : Nat,            \* the "now" of queueState
         interval : Nat,            \* sendIntervalSeconds, as read
         due      : BOOLEAN,        \* the gate was due; else a forced message opened it
         msg      : OrNull(Messages),
         token    : OrNull(Nat),
         guid     : OrNull(Nat)]

NoPoll == [pc |-> "idle", at |-> 0, interval |-> 0, due |-> FALSE,
           msg |-> Null, token |-> Null, guid |-> Null]

PollsTypeOK ==
  /\ polls \in [Pollers -> Poll]
  /\ \A p \in Pollers : polls[p].pc = "respond" => polls[p].msg \in Messages
                                                   /\ polls[p].token \in Nat
  /\ lastClaim \in [Pollers -> OrNull(Nat)]

PollsInit ==
  /\ polls = [p \in Pollers |-> NoPoll]
  /\ lastClaim = [p \in Pollers |-> Null]

\* A mutant: only acknowledged claims count as dispatched.
AcknowledgedTimes ==
  {rows[m].dispatchedAt :
     m \in {n \in Messages : rows[n].dispatchedAt # Null /\ rows[n].status # "DISPATCHING"}}

\* lastDispatchedAt: max(dispatchedAt) over the rows that exist, here as the
\* set of all of them.
DispatchTimes == {rows[m].dispatchedAt : m \in {n \in Messages : rows[n].dispatchedAt # Null}}

\* isDue: at least one interval since the newest dispatch.
IsDue(at, interval) == \A t \in DispatchTimes : at - t >= interval

HasForcedMessage == \E m \in Queued : rows[m].force

\* queueState's clock and settings.  A paused turn of the loop changes nothing.
BeginTurn(p) ==
  /\ polls[p].pc = "idle"
  /\ ~settings.paused
  /\ polls' = [polls EXCEPT ![p] = [NoPoll EXCEPT !.pc = "gate", !.at = now,
                                                  !.interval = settings.interval]]
  /\ UNCHANGED <<tableVars, lastClaim>>

\* state.due || forced
PassGate(p) ==
  LET due == IsDue(polls[p].at, polls[p].interval) IN
  /\ polls[p].pc = "gate"
  /\ due \/ HasForcedMessage
  /\ polls' = [polls EXCEPT ![p].pc = "claim", ![p].due = due]
  /\ UNCHANGED <<tableVars, lastClaim>>

\* Not due and nothing forced, or nothing to claim, or the handler dies: the
\* loop sleeps, or the request ends (204).
EndTurn(p) ==
  /\ polls[p].pc \in {"gate", "claim"}
  /\ polls' = [polls EXCEPT ![p] = NoPoll]
  /\ UNCHANGED <<tableVars, lastClaim>>

\* ORDER BY "forceDispatch" DESC, "queueSeq" ASC
Ahead(m, n) ==
  \/ rows[m].force /\ ~rows[n].force
  \/ rows[m].force = rows[n].force /\ rows[m].seq < rows[n].seq

Claimed(row, token) ==
  [row EXCEPT !.status = "DISPATCHING", !.token = token, !.lease = now + LeaseTime,
              !.dispatchedAt = now, !.force = FALSE, !.attempts = @ + 1]

\* claimNextMessage: the head of the queue, where FOR UPDATE SKIP LOCKED may
\* step over the rows of locked.
Claim(p, locked) ==
  /\ polls[p].pc = "claim"
  /\ nextToken <= MaxClaims /\ now <= LastClaim
  /\ \E m \in Queued :
       /\ \A n \in Queued : Ahead(n, m) => n \in locked
       /\ rows' = [rows EXCEPT ![m] = Claimed(@, nextToken)]
       /\ polls' = [polls EXCEPT ![p].pc = "respond", ![p].msg = m, ![p].token = nextToken,
                                        ![p].guid = rows[m].guid]
  /\ nextToken' = nextToken + 1
  /\ lastClaim' = [lastClaim EXCEPT ![p] = IF polls[p].due THEN now ELSE @]
  /\ UNCHANGED <<events, settings, now, nextSeq, granted>>

\* The DISPATCHING event, outside any transaction, and the response.
Respond(p) ==
  LET q == polls[p] IN
  /\ q.pc = "respond"
  /\ Exists(q.msg)
  /\ RecordEvent(q.msg, "DISPATCHING")
  /\ granted' = granted \cup {[msg |-> q.msg, token |-> q.token, guid |-> q.guid]}
  /\ polls' = [polls EXCEPT ![p] = NoPoll]
  /\ UNCHANGED <<rows, settings, now, nextToken, nextSeq, lastClaim>>

\* The claim is never answered: the server dies before the event, or the event's
\* insert fails.  (A client that is gone by then is a lease nobody uses.)
LoseLease(p) ==
  /\ polls[p].pc = "respond"
  /\ polls' = [polls EXCEPT ![p] = NoPoll]
  /\ UNCHANGED <<tableVars, lastClaim>>

PollStep(p, locked) ==
  \/ BeginTurn(p) \/ PassGate(p) \/ EndTurn(p)
  \/ Claim(p, locked) \/ Respond(p) \/ LoseLease(p)
=============================================================================
