---------------------------- MODULE MessageStatus ----------------------------
(***************************************************************************)
(* The status machine of a message (libs/shared/src/status.ts): the eight  *)
(* statuses, their progress ranks and the guard the server consults before *)
(* it applies a report or a cancellation.  Pure operators, no state.       *)
(***************************************************************************)
EXTENDS Integers

\* The progression proper, then the two statuses reached by rule.
MessageStatuses == {"QUEUED", "DISPATCHING", "ACCEPTED", "SENT",
                    "DELIVERED", "RECEIVED", "FAILED", "CANCELED"}

\* FAILED and CANCELED sit outside the progression.
ProgressRank ==
  [s \in MessageStatuses |->
     CASE s = "QUEUED"      -> 0
       [] s = "DISPATCHING" -> 1
       [] s = "ACCEPTED"    -> 2
       [] s = "SENT"        -> 3
       [] s = "DELIVERED"   -> 4
       [] s = "RECEIVED"    -> 5
       [] OTHER             -> -1]

TerminalStatuses == {"RECEIVED", "FAILED", "CANCELED"}
SuccessStatuses  == {"DELIVERED", "RECEIVED"}
InFlightStatuses == {"DISPATCHING", "ACCEPTED", "SENT"}

IsTerminal(s) == s \in TerminalStatuses

\* Nothing leaves a terminal status; CANCELED only from QUEUED; FAILED from any
\* other; QUEUED never; otherwise the rank must advance.
CanTransition(from, to) ==
  /\ ~IsTerminal(from)
  /\ \/ to = "CANCELED" /\ from = "QUEUED"
     \/ to = "FAILED"
     \/ to \notin {"CANCELED", "FAILED", "QUEUED"} /\ ProgressRank[to] > ProgressRank[from]

ReconcileStatus(current, reported) ==
  IF CanTransition(current, reported) THEN reported ELSE current
=============================================================================
