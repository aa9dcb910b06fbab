-------------------------------- MODULE Eta --------------------------------
(***************************************************************************)
(* When queued messages are expected to leave (libs/shared/src/eta.ts),    *)
(* and the gate that lets them (isDue of the same file).  Pure operators:  *)
(* "last" is the newest dispatch, or NoDispatch; times and intervals are   *)
(* in one unit.                                                            *)
(***************************************************************************)
EXTENDS Naturals

CONSTANT NoDispatch       \* JavaScript's null: nothing was dispatched yet

\* A mutant: a queue that was idle owes the sends of the idle time.
LastPlusInterval(last, interval, now) == IF last = NoDispatch THEN now ELSE last + interval

ProjectAnchor(last, interval, now) ==
  IF last = NoDispatch THEN now
  ELSE IF last + interval > now THEN last + interval ELSE now

\* projectEta, and the elements of projectQueueEtas.
ProjectEta(position, last, interval, now) ==
  ProjectAnchor(last, interval, now) + position * interval

EtaIsDue(last, interval, now) == last = NoDispatch \/ now >= last + interval

-----------------------------------------------------------------------------

\* t is the first moment from "from" on at which the gate is due.
FirstDue(t, from, last, interval) ==
  /\ t >= from /\ EtaIsDue(last, interval, t)
  /\ \A u \in from .. t - 1 : ~EtaIsDue(last, interval, u)
=============================================================================
