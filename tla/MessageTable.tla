---------------------------- MODULE MessageTable ----------------------------
(***************************************************************************)
(* The durable state every part of the server shares: the messages table,  *)
(* the event log, the settings row and the clock the processes read        *)
(* (apps/server/prisma/schema.prisma).  The component modules              *)
(* StatusReports, OperatorRequests, LeaseRoute and Reaper extend it with   *)
(* the handlers that write it; Server composes them.                       *)
(*                                                                         *)
(* Grain of atomicity: Postgres at READ COMMITTED.  A read and a later     *)
(* write of one transaction are two steps; a write, the writes after it in *)
(* the same transaction and the commit are one, because the row lock the   *)
(* first write takes is held until the commit.                             *)
(***************************************************************************)
EXTENDS MessageStatus, Naturals, FiniteSets

CONSTANTS
  Messages,       \* the ids of the messages that may be scheduled
  Null,           \* SQL NULL
  LeaseTime,      \* LEASE_SECONDS, in ticks
  Intervals,      \* the values of sendIntervalSeconds an operator may choose
  Budgets,        \* the values of maxAttempts an operator may choose
  MaxNow,         \* bound: the clock stops here
  LastClaim,      \* bound: nothing is claimed after this time
  MaxClaims       \* bound: claims granted in a behaviour

ASSUME NullAssumption     == Null \notin Nat
ASSUME LeaseAssumption    == LeaseTime \in Nat
ASSUME IntervalAssumption == Intervals \subseteq Nat /\ Intervals # {}
ASSUME BudgetAssumption   == Budgets \subseteq Nat /\ Budgets # {}
ASSUME BoundAssumption    == MaxNow \in Nat /\ LastClaim \in Nat /\ MaxClaims \in Nat

VARIABLES
  rows,           \* the messages table
  events,         \* the statuses each message has an event for
  settings,       \* the settings row
  now,            \* the clock
  nextToken,      \* the next dispatch token randomUUID() returns
  nextSeq,        \* the next value of queueSeq
  granted         \* the leases that reached a gateway

tableVars == <<rows, events, settings, now, nextToken, nextSeq, granted>>

\* Reports carry a time for these (TIMESTAMP_FIELD); "stamps" is the set of
\* statuses whose timestamp column is filled.
StampStatuses == {"SENT", "DELIVERED", "RECEIVED"}

\* lastError: none, a gateway's error text, or ABANDONED_SEND_ERROR.
Errors == {"none", "gateway", "abandoned"}

OrNull(S) == S \cup {Null}

Row == [status       : MessageStatuses \cup {"NONE", "DELETED"},
        token        : OrNull(Nat),
        lease        : OrNull(Nat),
        guid         : OrNull(Nat),
        attempts     : Nat,
        force        : BOOLEAN,
        seq          : Nat,
        dispatchedAt : OrNull(Nat),
        error        : Errors,
        stamps       : SUBSET StampStatuses]

\* The absent row: "NONE" before the message is created, "DELETED" after it is
\* cleared.  An id is never used again.
Absent(s) == [status |-> s, token |-> Null, lease |-> Null, guid |-> Null,
              attempts |-> 0, force |-> FALSE, seq |-> 0, dispatchedAt |-> Null,
              error |-> "none", stamps |-> {}]

\* The row createMessage inserts: every other column takes its default.
NewRow(seq) == [Absent("QUEUED") EXCEPT !.seq = seq]

Exists(m) == rows[m].status \in MessageStatuses

Queued == {m \in Messages : rows[m].status = "QUEUED"}

\* A lease as the gateway sees it: the message, the attempt's token and the
\* GUID a previous attempt left.
Lease == [msg : Messages, token : Nat, guid : OrNull(Nat)]

Settings == [interval : Nat, paused : BOOLEAN, budget : Nat]

\* A mutant: the event log is unique by message instead of (message, status).
RecordFirstEvent(m, s) == events' = [events EXCEPT ![m] = IF @ = {} THEN {s} ELSE @]

\* recordEvent: the unique (messageId, status) makes a replay a no-op.
RecordEvent(m, s) == events' = [events EXCEPT ![m] = @ \cup {s}]

TableTypeOK ==
  /\ rows \in [Messages -> Row]
  /\ events \in [Messages -> SUBSET MessageStatuses]
  /\ settings \in Settings
  /\ now \in Nat
  /\ nextToken \in Nat
  /\ nextSeq \in Nat
  /\ granted \in SUBSET Lease

TableInit ==
  /\ rows = [m \in Messages |-> Absent("NONE")]
  /\ events = [m \in Messages |-> {}]
  /\ settings \in [interval : Intervals, paused : {FALSE}, budget : Budgets]
  /\ now = 0
  /\ nextToken = 1
  /\ nextSeq = 1
  /\ granted = {}

\* Time passes; every process reads this clock.
Tick ==
  /\ now < MaxNow
  /\ now' = now + 1
  /\ UNCHANGED <<rows, events, settings, nextToken, nextSeq, granted>>
=============================================================================
