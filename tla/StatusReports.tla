---------------------------- MODULE StatusReports ----------------------------
(***************************************************************************)
(* Applying the gateway's status reports                                   *)
(* (apps/server/src/repositories/message-status.ts).  A report is served   *)
(* by a handler: it reads the row, reads the retry budget if the report    *)
(* says FAILED, and writes with a compare-and-set on the status and token  *)
(* it read; a handler whose compare-and-set finds the row changed starts   *)
(* over, a bounded number of times.                                        *)
(*                                                                         *)
(* Reports arrive duplicated, delayed, reordered and concurrently: at any  *)
(* moment a gateway that was ever granted a lease may report any status    *)
(* for it.  A report waits for nothing before its first read, so arriving  *)
(* and reading are one step.                                               *)
(***************************************************************************)
EXTENDS MessageTable

CONSTANTS
  Reporters,      \* the report requests that may be in flight at once
  Reportable,     \* the statuses gateways report
  MaxTries        \* MAX_ATTEMPTS of applyStatusReport: 4 in the code

ASSUME ReportableAssumption == Reportable \subseteq MessageStatuses
ASSUME TriesAssumption      == MaxTries \in Nat \ {0}

VARIABLES
  reports,        \* the handlers of reports in flight
  acked           \* history: the reports of an attempt that were applied or
                  \* refused for their rank, as [msg, token, status]

reportVars == <<reports, acked>>

\* The columns applyOnce selects.
Seen == [status   : MessageStatuses,
         token    : OrNull(Nat),
         guid     : OrNull(Nat),
         attempts : Nat,
         stamps   : SUBSET StampStatuses]

NothingSeen == [status |-> "QUEUED", token |-> Null, guid |-> Null,
                attempts |-> 0, stamps |-> {}]

SeenOf(m) == [status   |-> rows[m].status,
              token    |-> rows[m].token,
              guid     |-> rows[m].guid,
              attempts |-> rows[m].attempts,
              stamps   |-> rows[m].stamps]

\* "read" is a handler about to start over; it is idle before its first read.
Report == [pc     : {"read", "budget", "cas"},
           msg    : Messages,
           token  : Nat,
           status : MessageStatuses,
           guid   : OrNull(Nat),
           seen   : Seen,
           budget : Nat,
           tries  : Nat]

NoReport == [pc |-> "idle"]

Acked == [msg : Messages, token : Nat, status : MessageStatuses]

ReportsTypeOK ==
  /\ reports \in [Reporters -> Report \cup {NoReport}]
  /\ acked \in SUBSET Acked

ReportsInit ==
  /\ reports = [h \in Reporters |-> NoReport]
  /\ acked = {}

\* The GUID a report of status s for lease l can carry: the one the attempt
\* produced travels with ACCEPTED; a lease that already had one re-attaches
\* and sends it with SENT.
GuidsOf(l, s) ==
  {Null} \cup {g \in {l.token} : l.guid = Null /\ s = "ACCEPTED"}
         \cup {g \in {l.guid}  : l.guid # Null /\ s = "SENT"}

\* POST /messages/:id/status: what may reach the server now.
Arrivals ==
  UNION {{[pc |-> "read", msg |-> l.msg, token |-> l.token, status |-> s, guid |-> g,
           seen |-> NothingSeen, budget |-> 0, tries |-> 1] : g \in GuidsOf(l, s)}
         : l \in granted, s \in Reportable}

\* The reports handler h may read the row for: a new one, or the one it is
\* starting over with.
Incoming(h) ==
  CASE reports[h].pc = "idle" -> Arrivals
    [] reports[h].pc = "read" -> {reports[h]}
    [] OTHER                  -> {}

Finish(h) == reports' = [reports EXCEPT ![h] = NoReport]

\* Only the latest attempt of a message matters to the properties.
Acknowledge(r) ==
  acked' = {a \in acked : a.msg = r.msg => a.token = r.token}
           \cup {[msg |-> r.msg, token |-> r.token, status |-> r.status]}

TokenMatches(r) == rows[r.msg].token = r.token

\* A fact is what the report adds to the row whatever becomes of its status:
\* the first GUID of the attempt, and the first time of a status.
HasFacts(r, seen) ==
  \/ r.guid # Null /\ seen.guid = Null
  \/ r.status \in StampStatuses \ seen.stamps

\* A mutant: every status is stamped, not only those with a timestamp column.
WithEveryStamp(row, r) ==
  [row EXCEPT !.guid   = IF r.guid # Null /\ r.seen.guid = Null THEN r.guid ELSE @,
              !.stamps = @ \cup {r.status}]

WithFacts(row, r) ==
  [row EXCEPT !.guid   = IF r.guid # Null /\ r.seen.guid = Null THEN r.guid ELSE @,
              !.stamps = @ \cup ({r.status} \cap StampStatuses)]

\* The message is gone, or the token is of another attempt: answered, no write.
IgnoreStale(h) ==
  /\ \E r \in Incoming(h) : ~Exists(r.msg) \/ ~TokenMatches(r)
  /\ Finish(h)
  /\ UNCHANGED <<tableVars, acked>>

\* The transition is refused and the report adds nothing: answered, no write.
IgnoreReplay(h) ==
  /\ \E r \in Incoming(h) :
       /\ Exists(r.msg) /\ TokenMatches(r)
       /\ ~CanTransition(rows[r.msg].status, r.status) /\ ~HasFacts(r, SeenOf(r.msg))
       /\ Acknowledge(r)
  /\ Finish(h)
  /\ UNCHANGED tableVars

\* There is something to write: remember the row as it was read.
ReadRow(h) ==
  /\ \E r \in Incoming(h) :
       LET advances == CanTransition(rows[r.msg].status, r.status) IN
       /\ Exists(r.msg) /\ TokenMatches(r)
       /\ advances \/ HasFacts(r, SeenOf(r.msg))
       /\ reports' = [reports EXCEPT ![h] =
            [r EXCEPT !.seen = SeenOf(r.msg),
                      !.pc   = IF r.status = "FAILED" /\ advances THEN "budget" ELSE "cas"]]
  /\ UNCHANGED <<tableVars, acked>>

\* getSettings, read inside the transaction before a failure is written.
ReadBudget(h) ==
  /\ reports[h].pc = "budget"
  /\ reports' = [reports EXCEPT ![h].pc = "cas", ![h].budget = settings.budget]
  /\ UNCHANGED <<tableVars, acked>>

\* A mutant: the write is guarded by the token alone.
MatchesToken(r) == rows[r.msg].token = r.seen.token

\* A mutant: the write is guarded by the status alone.
MatchesStatus(r) == rows[r.msg].status = r.seen.status

\* The WHERE of cas(): the row still has the status and the token that were read.
Matches(r) ==
  rows[r.msg].status = r.seen.status /\ rows[r.msg].token = r.seen.token

Advances(r) == CanTransition(r.seen.status, r.status)

\* A failure inside the retry budget.
WithinBudget(r) == r.status = "FAILED" /\ Advances(r) /\ r.seen.attempts < r.budget

\* cas(facts): the status is refused, the facts are kept.
PersistFacts(h) ==
  LET r == reports[h] IN
  /\ r.pc = "cas" /\ Matches(r) /\ ~Advances(r)
  /\ rows' = [rows EXCEPT ![r.msg] = WithFacts(@, r)]
  /\ Finish(h) /\ Acknowledge(r)
  /\ UNCHANGED <<events, settings, now, nextToken, nextSeq, granted>>

\* A mutant: the requeue keeps the token of the attempt that failed.
RequeuedWithToken(row) ==
  [row EXCEPT !.status = "QUEUED", !.lease = Null, !.guid = Null, !.error = "gateway"]

Requeued(row) ==
  [row EXCEPT !.status = "QUEUED", !.token = Null, !.lease = Null, !.guid = Null,
              !.error = "gateway"]

\* A failed attempt within the budget goes back in the queue, with no event.
RequeueFailure(h) ==
  LET r == reports[h] IN
  /\ r.pc = "cas" /\ Matches(r) /\ WithinBudget(r)
  /\ rows' = [rows EXCEPT ![r.msg] = Requeued(@)]
  /\ Finish(h) /\ Acknowledge(r)
  /\ UNCHANGED <<events, settings, now, nextToken, nextSeq, granted>>

\* A mutant: every applied status gives the lease back, not only a terminal one.
AdvancedWithoutLease(row, r) ==
  [WithFacts(row, r) EXCEPT
     !.status = r.status,
     !.error  = IF r.status = "FAILED" THEN "gateway" ELSE @,
     !.lease  = Null]

Advanced(row, r) ==
  [WithFacts(row, r) EXCEPT
     !.status = r.status,
     !.error  = IF r.status = "FAILED" THEN "gateway" ELSE @,
     !.lease  = IF IsTerminal(r.status) THEN Null ELSE @]

\* cas(data) and the event, one commit.
ApplyReport(h) ==
  LET r == reports[h] IN
  /\ r.pc = "cas" /\ Matches(r) /\ Advances(r) /\ ~WithinBudget(r)
  /\ rows' = [rows EXCEPT ![r.msg] = Advanced(@, r)]
  /\ RecordEvent(r.msg, r.status)
  /\ Finish(h) /\ Acknowledge(r)
  /\ UNCHANGED <<settings, now, nextToken, nextSeq, granted>>

\* ConcurrentReport: roll back and start over.
RetryReport(h) ==
  LET r == reports[h] IN
  /\ r.pc = "cas" /\ ~Matches(r) /\ r.tries < MaxTries
  /\ reports' = [reports EXCEPT ![h] = [r EXCEPT !.pc = "read", !.seen = NothingSeen,
                                                 !.budget = 0, !.tries = @ + 1]]
  /\ UNCHANGED <<tableVars, acked>>

\* The handler fails before its commit: the tries are spent (HTTP 500), the
\* transaction times out or the server dies.  Nothing was written.
LoseReport(h) ==
  /\ reports[h].pc # "idle"
  /\ Finish(h)
  /\ UNCHANGED <<tableVars, acked>>

ReportStep(h) ==
  \/ IgnoreStale(h) \/ IgnoreReplay(h) \/ ReadRow(h) \/ ReadBudget(h)
  \/ PersistFacts(h) \/ RequeueFailure(h) \/ ApplyReport(h)
  \/ RetryReport(h) \/ LoseReport(h)
=============================================================================
