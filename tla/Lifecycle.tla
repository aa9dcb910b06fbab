----------------------------- MODULE Lifecycle -----------------------------
(***************************************************************************)
(* What the server promises of a message's life, whoever asks for what and *)
(* however its handlers interleave: the abstract specification that Server *)
(* implements, and the server as the dashboard sees it.                    *)
(*                                                                         *)
(* A message is dispatched under an attempt that was never used before.    *)
(* Within one attempt its status only advances.  It starts over by going   *)
(* back to the queue without an attempt, a person may cancel it, and it is *)
(* deleted only when it has finished.                                      *)
(***************************************************************************)
EXTENDS MessageStatus

CONSTANTS
  Messages,       \* the ids of the messages that may be scheduled
  Attempts,       \* the names of attempts
  NoAttempt       \* a message that is not dispatched

VARIABLES
  status,         \* the status of each message, "NONE" or "DELETED"
  attempt,        \* the attempt each message is dispatched under
  spent           \* the attempts used so far

lifecycleVars == <<status, attempt, spent>>

LifecycleTypeOK ==
  /\ status \in [Messages -> MessageStatuses \cup {"NONE", "DELETED"}]
  /\ attempt \in [Messages -> Attempts \cup {NoAttempt}]
  /\ spent \in SUBSET Attempts

LifecycleInit ==
  /\ status = [m \in Messages |-> "NONE"]
  /\ attempt = [m \in Messages |-> NoAttempt]
  /\ spent = {}

Present(m) == status[m] \in MessageStatuses

\* createMessage
Schedule(m) ==
  /\ status[m] = "NONE"
  /\ status' = [status EXCEPT ![m] = "QUEUED"]
  /\ attempt' = [attempt EXCEPT ![m] = NoAttempt]
  /\ UNCHANGED spent

\* claimNextMessage
Dispatch(m, t) ==
  /\ status[m] = "QUEUED" /\ t \notin spent
  /\ status' = [status EXCEPT ![m] = "DISPATCHING"]
  /\ attempt' = [attempt EXCEPT ![m] = t]
  /\ spent' = spent \cup {t}

\* applyStatusReport and failAbandonedSends.
Progress(m, s) ==
  /\ Present(m) /\ status[m] # "QUEUED"
  /\ CanTransition(status[m], s)
  /\ status' = [status EXCEPT ![m] = s]
  /\ UNCHANGED <<attempt, spent>>

\* A failure within the retry budget, reapExpiredLeases, retryMessage.
Requeue(M) ==
  /\ \A m \in M : Present(m)
  /\ status' = [m \in Messages |-> IF m \in M THEN "QUEUED" ELSE status[m]]
  /\ attempt' = [m \in Messages |-> IF m \in M THEN NoAttempt ELSE attempt[m]]
  /\ UNCHANGED spent

\* cancelMessage, whose write does not look at the status again.
Cancel(m) ==
  /\ Present(m)
  /\ status' = [status EXCEPT ![m] = "CANCELED"]
  /\ UNCHANGED <<attempt, spent>>

Finished == SuccessStatuses \cup {"FAILED", "CANCELED"}

\* clearHistory
Clear ==
  /\ status' = [m \in Messages |-> IF status[m] \in Finished THEN "DELETED" ELSE status[m]]
  /\ attempt' = [m \in Messages |-> IF status[m] \in Finished THEN NoAttempt ELSE attempt[m]]
  /\ UNCHANGED spent

LifecycleNext ==
  \/ \E m \in Messages :
       \/ Schedule(m) \/ Cancel(m)
       \/ \E t \in Attempts : Dispatch(m, t)
       \/ \E s \in MessageStatuses : Progress(m, s)
  \/ \E M \in SUBSET Messages : Requeue(M)
  \/ Clear

LifecycleSpec == LifecycleInit /\ [][LifecycleNext]_lifecycleVars
=============================================================================
