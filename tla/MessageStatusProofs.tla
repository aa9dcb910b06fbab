------------------------- MODULE MessageStatusProofs -------------------------
(***************************************************************************)
(* What the status machine guarantees by itself, before any handler races. *)
(***************************************************************************)
EXTENDS MessageStatus, TLAPS

\* The statuses a send goes through, in order.
Progression == {s \in MessageStatuses : ProgressRank[s] >= 0}

\* A transition inside the progression advances it, and one out of it is to a
\* status nothing leaves (canTransition).
LEMMA TransitionsAdvance ==
  ASSUME NEW from \in MessageStatuses, NEW to \in MessageStatuses, CanTransition(from, to)
  PROVE  /\ ~IsTerminal(from) /\ to # "QUEUED"
         /\ IsTerminal(to) \/ ProgressRank[from] < ProgressRank[to]
  BY DEF CanTransition, IsTerminal, TerminalStatuses, MessageStatuses, ProgressRank

\* What a progress report makes of any status: the later of the two, unless the
\* message has already ended (reconcileStatus).
LEMMA ReconcileKeepsLater ==
  ASSUME NEW c \in MessageStatuses, NEW s \in Progression
  PROVE  ReconcileStatus(c, s) =
           IF IsTerminal(c) \/ ProgressRank[s] <= ProgressRank[c] THEN c ELSE s
  BY DEF ReconcileStatus, CanTransition, IsTerminal, TerminalStatuses, MessageStatuses,
         ProgressRank, Progression

\* Progress reports may arrive in any order: two of them leave the same status
\* either way (status.spec.ts, "ignores a stale report arriving out of order").
THEOREM ReconcileCommutes ==
  ASSUME NEW c \in MessageStatuses, NEW s \in Progression, NEW t \in Progression
  PROVE  ReconcileStatus(ReconcileStatus(c, s), t) = ReconcileStatus(ReconcileStatus(c, t), s)
<1>1. s \in MessageStatuses /\ t \in MessageStatuses
  BY DEF Progression
<1>2. IsTerminal(s) => \A u \in Progression : ProgressRank[u] <= ProgressRank[s]
  BY DEF Progression, IsTerminal, TerminalStatuses, MessageStatuses, ProgressRank
<1>3. IsTerminal(t) => \A u \in Progression : ProgressRank[u] <= ProgressRank[t]
  BY DEF Progression, IsTerminal, TerminalStatuses, MessageStatuses, ProgressRank
<1>4. \A u \in MessageStatuses : ProgressRank[u] \in Int
  BY DEF MessageStatuses, ProgressRank
<1>5. \A u, v \in Progression : ProgressRank[u] = ProgressRank[v] => u = v
  BY DEF Progression, MessageStatuses, ProgressRank
<1>6. QED
  BY <1>1, <1>2, <1>3, <1>4, <1>5, ReconcileKeepsLater
=============================================================================
