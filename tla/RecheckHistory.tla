--------------------------- MODULE RecheckHistory ---------------------------
(***************************************************************************)
(* GatewayHealth with the history that tells which heartbeats rest on a    *)
(* probe that began before the last click on re-check.                     *)
(***************************************************************************)
EXTENDS GatewayHealth

VARIABLES
  oldBeats,       \* the beats under way that began before the click
  oldRow,         \* the newest heartbeat row is from such a beat
  oldAnswer       \* and so is the answer on its way to the page

historyVars == <<oldBeats, oldRow, oldAnswer>>

AllBeats == Gateways \X Sources

Began(b) == beats[b[1]][b[2]].pc = "idle" /\ beats'[b[1]][b[2]].pc # "idle"

Landed(b) == Upsert(b[1], b[2])

Clicked == recheck.pc = "idle" /\ recheck'.pc = "fetch"

HistoryInit == HealthInit /\ oldBeats = {} /\ oldRow = FALSE /\ oldAnswer = FALSE

HistoryNext ==
  /\ HealthNext
  /\ oldBeats' = IF Clicked THEN AllBeats ELSE oldBeats \ {b \in AllBeats : Began(b)}
  /\ oldRow' = IF Clicked THEN TRUE
               ELSE IF \E b \in AllBeats : Landed(b) THEN \E b \in oldBeats : Landed(b)
               ELSE oldRow
  /\ oldAnswer' = IF Clicked THEN TRUE ELSE IF ServeFetch THEN oldRow ELSE oldAnswer

HistorySpec == HistoryInit /\ [][HistoryNext]_<<healthVars, historyVars>>

\* api/gateway.ts: a newer lastSeenAt is "proof of a probe that ran *after* the
\* click": a re-check does not end as fresh on a beat that began before it.
RecheckIsHonest ==
  [][recheck.pc = "fetch" /\ recheck'.pc = "idle" /\ FetchLands /\ Fresh => ~oldAnswer]_<<healthVars, historyVars>>
=============================================================================
