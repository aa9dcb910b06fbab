----------------------------- MODULE HealthProofs -----------------------------
(***************************************************************************)
(* The types of the heartbeats, of the health the server derives from them *)
(* and of the page that polls it, for any number of gateways and any time  *)
(* after which one counts as offline.                                      *)
(***************************************************************************)
EXTENDS GatewayHealth, TLAPS

\* What the types rest on besides: the health is that of a gateway.
HealthInv == HealthTypeOK /\ latest \in Gateways /\ unread \in BOOLEAN

\* A process is never allowed more than there is.
LEMMA AllowedTyped == \A a \in Allowed : a \in SUBSET Permission
  BY ChangingAssumption DEF Allowed

LEMMA EmptyBeat == NoBeat \in Beat /\ [NoBeat EXCEPT !.pc = "probe"] \in Beat
  BY DEF NoBeat, Beat

\* A row that ages stays a row: it counts no further than "offline".
LEMMA OlderTyped == \A row \in SeenRow : Older(row) \in SeenRow
<1> SUFFICES ASSUME NEW row \in SeenRow PROVE Older(row) \in SeenRow
  OBVIOUS
<1>1. row.age \in 0 .. OfflineAfter /\ OfflineAfter \in Nat /\ NotSeen \in SeenRow
  BY OfflineAssumption DEF SeenRow, NotSeen
<1>2. CASE row.age + 1 < OfflineAfter
  <2>1. row.age + 1 \in 0 .. OfflineAfter
    BY <1>1, <1>2
  <2>2. QED
    BY <1>2, <2>1 DEF Older, SeenRow
<1>3. CASE ~(row.age + 1 < OfflineAfter)
  BY <1>1, <1>3 DEF Older
<1>4. QED
  BY <1>2, <1>3

\* One beat changes.
LEMMA BeatChanged ==
  ASSUME beats \in [Gateways -> [Sources -> Beat]], NEW g \in Gateways, NEW k \in Sources,
         NEW b \in Beat
  PROVE  [beats EXCEPT ![g][k] = b] \in [Gateways -> [Sources -> Beat]]
<1>1. [beats[g] EXCEPT ![k] = b] \in [Sources -> Beat]
  OBVIOUS
<1>2. QED
  BY <1>1

\* The runner's steps (runner/index.ts, the heartbeat route).
LEMMA RunnerTyped ==
  ASSUME HealthInv, NEW g \in Gateways, Running(g)
  PROVE  HealthInv'
<1>1. /\ access \in [Gateways -> Allowed] /\ up \in SUBSET Gateways /\ claiming \in SUBSET up
      /\ beats \in [Gateways -> [Sources -> Beat]] /\ caps \in [Gateways -> SUBSET Permission]
      /\ \A h \in claiming : beats[h]["loop"].pc = "idle"
      /\ seen \in [Gateways -> SeenRow] /\ latest \in Gateways /\ unread \in BOOLEAN
      /\ screen \in HealthDto /\ fetch \in Fetch /\ recheck \in Recheck
  BY DEF HealthInv, HealthTypeOK
<1>2. "loop" \in Sources /\ TimerBeats \subseteq Sources /\ "loop" \notin TimerBeats
  BY TimerAssumption DEF Sources
<1>3. screen' \in HealthDto /\ fetch' \in Fetch /\ recheck' \in Recheck
  BY <1>1 DEF Running, screenVars
<1>4. ASSUME NEW k \in Sources, NEW b \in Beat, beats' = [beats EXCEPT ![g][k] = b]
      PROVE  beats' \in [Gateways -> [Sources -> Beat]]
  BY <1>1, <1>4, BeatChanged
<1>5. CASE Reach(g)
  BY <1>1, <1>3, <1>5 DEF Reach, HealthInv, HealthTypeOK
<1>6. CASE Boot(g)
  <2>1. beats' \in [Gateways -> [Sources -> Beat]]
    BY <1>2, <1>4, <1>6, EmptyBeat DEF Boot
  <2>2. QED
    BY <1>1, <1>3, <1>6, <2>1 DEF Boot, HealthInv, HealthTypeOK
<1>7. CASE Quit(g)
  <2>1. [k \in Sources |-> NoBeat] \in [Sources -> Beat]
    BY EmptyBeat
  <2>2. beats' \in [Gateways -> [Sources -> Beat]]
    BY <1>1, <1>7, <2>1 DEF Quit
  <2>3. caps' \in [Gateways -> SUBSET Permission]
    BY <1>1, <1>7 DEF Quit
  <2>4. QED
    BY <1>1, <1>3, <1>7, <2>2, <2>3 DEF Quit, HealthInv, HealthTypeOK
<1>8. CASE TimerBeat(g) \/ BlockedTurn(g)
  <2>1. PICK k \in Sources : /\ StartBeat(g, k)
                             /\ k \in TimerBeats \/ claiming' = claiming \ {g}
    BY <1>2, <1>8 DEF TimerBeat, BlockedTurn
  <2>2. beats' = [beats EXCEPT ![g][k] = [NoBeat EXCEPT !.pc = "probe"]]
    BY <2>1 DEF StartBeat
  <2>3. beats' \in [Gateways -> [Sources -> Beat]]
    BY <1>4, <2>2, EmptyBeat
  <2>4. claiming' \subseteq claiming
    BY <1>8 DEF TimerBeat, BlockedTurn
  <2>5. \A h \in claiming' : beats'[h]["loop"].pc = "idle"
    BY <1>1, <1>2, <2>1, <2>2, <2>4
  <2>6. UNCHANGED <<access, up, caps, seen, latest, unread>>
    BY <1>8 DEF TimerBeat, BlockedTurn
  <2>7. QED
    BY <1>1, <1>3, <2>3, <2>4, <2>5, <2>6 DEF HealthInv, HealthTypeOK
<1>9. CASE ClaimTurn(g)
  BY <1>1, <1>3, <1>9 DEF ClaimTurn, LoopFree, HealthInv, HealthTypeOK
<1>10. ASSUME NEW k \in Sources, Look(g, k) PROVE HealthInv'
  <2>1. [pc |-> "found", found |-> Probed(g)] \in Beat
    BY <1>1, AllowedTyped DEF Probed, Beat
  <2>2. beats' \in [Gateways -> [Sources -> Beat]]
    BY <1>4, <1>10, <2>1 DEF Look
  <2>3. QED
    BY <1>1, <1>3, <1>10, <2>2 DEF Look, HealthInv, HealthTypeOK
<1>11. ASSUME NEW k \in Sources, Assign(g, k) PROVE HealthInv'
  <2>1. beats[g][k] \in Beat
    BY <1>1
  <2>2. [beats[g][k] EXCEPT !.pc = "post"] \in Beat /\ beats[g][k].found \in SUBSET Permission
    BY <2>1 DEF Beat
  <2>3. beats' = [beats EXCEPT ![g][k] = [beats[g][k] EXCEPT !.pc = "post"]]
    BY <1>1, <1>11 DEF Assign
  <2>4. beats' \in [Gateways -> [Sources -> Beat]]
    BY <1>4, <2>2, <2>3
  <2>5. caps' \in [Gateways -> SUBSET Permission]
    BY <1>1, <1>11, <2>2 DEF Assign
  <2>6. QED
    BY <1>1, <1>3, <1>11, <2>4, <2>5 DEF Assign, HealthInv, HealthTypeOK
<1>12. ASSUME NEW k \in Sources, Upsert(g, k) PROVE HealthInv'
  <2>1. beats[g][k] \in Beat
    BY <1>1
  <2>2. [perms |-> beats[g][k].found, age |-> 0] \in SeenRow
    BY <2>1, OfflineAssumption DEF Beat, SeenRow
  <2>3. seen' \in [Gateways -> SeenRow]
    BY <1>1, <1>12, <2>2 DEF Upsert
  <2>4. beats' \in [Gateways -> [Sources -> Beat]]
    BY <1>4, <1>12, EmptyBeat DEF Upsert
  <2>5. QED
    BY <1>1, <1>3, <1>12, <2>3, <2>4 DEF Upsert, HealthInv, HealthTypeOK
<1>13. ASSUME NEW k \in Sources, BeatLost(g, k) PROVE HealthInv'
  <2>1. beats' \in [Gateways -> [Sources -> Beat]]
    BY <1>4, <1>13, EmptyBeat DEF BeatLost
  <2>2. QED
    BY <1>1, <1>3, <1>13, <2>1 DEF BeatLost, HealthInv, HealthTypeOK
<1>14. QED
  BY <1>5, <1>6, <1>7, <1>8, <1>9, <1>10, <1>11, <1>12, <1>13 DEF Running, RunnerStep

\* The page's steps (permission-banner.tsx, the polled query).
LEMMA PageTyped ==
  ASSUME HealthInv, Page
  PROVE  HealthInv'
<1>1. /\ access \in [Gateways -> Allowed] /\ up \in SUBSET Gateways /\ claiming \in SUBSET up
      /\ beats \in [Gateways -> [Sources -> Beat]] /\ caps \in [Gateways -> SUBSET Permission]
      /\ \A h \in claiming : beats[h]["loop"].pc = "idle"
      /\ seen \in [Gateways -> SeenRow] /\ latest \in Gateways /\ unread \in BOOLEAN
      /\ screen \in HealthDto /\ fetch \in Fetch /\ recheck \in Recheck
  BY DEF HealthInv, HealthTypeOK
<1>2. NoFetch \in Fetch /\ NoRecheck \in Recheck /\ [NoRecheck EXCEPT !.pc = "fetch"] \in Recheck
  BY DEF NoFetch, Fetch, Blank, HealthDto, NoRecheck, Recheck
<1>3. CASE ServeFetch
  <2>1. seen[latest] \in SeenRow
    BY <1>1
  <2>2. Health \in HealthDto
    BY <2>1 DEF Health, IsOnline, HealthDto, SeenRow
  <2>3. fetch' \in Fetch
    BY <1>1, <1>3, <2>2 DEF ServeFetch, Fetch
  <2>4. QED
    BY <1>1, <1>3, <2>3 DEF ServeFetch, HealthInv, HealthTypeOK
<1>4. CASE FetchFails
  <2>1. unread' \in BOOLEAN
    BY <1>1, <1>4 DEF FetchFails, Fetch
  <2>2. fetch' \in Fetch /\ recheck' \in Recheck
    BY <1>1, <1>2, <1>4 DEF FetchFails
  <2>3. QED
    BY <1>1, <1>4, <2>1, <2>2 DEF FetchFails, HealthInv, HealthTypeOK
<1>5. CASE FetchLands
  <2>1. screen' \in HealthDto
    BY <1>1, <1>5 DEF FetchLands, Fetch
  <2>2. (recheck.pc # "idle" /\ Fresh) \in BOOLEAN
    OBVIOUS
  <2>3. \A b \in BOOLEAN : [recheck EXCEPT !.moved = b] \in Recheck
    BY <1>1 DEF Recheck
  <2>4. [recheck EXCEPT !.pc = "sleep"] \in Recheck
    BY <1>1 DEF Recheck
  <2>5. recheck' \in Recheck
    BY <1>2, <1>5, <2>2, <2>3, <2>4 DEF FetchLands
  <2>6. QED
    BY <1>1, <1>2, <1>5, <2>1, <2>5 DEF FetchLands, heartbeatVars, HealthInv, HealthTypeOK
<1>6. CASE Click \/ AskAgain \/ RecheckDeadline
  <2>1. [recheck EXCEPT !.pc = "fetch"] \in Recheck /\ [recheck EXCEPT !.late = TRUE] \in Recheck
    BY <1>1 DEF Recheck
  <2>2. recheck' \in Recheck
    BY <1>2, <1>6, <2>1 DEF Click, AskAgain, RecheckDeadline
  <2>3. QED
    BY <1>1, <1>6, <2>2 DEF Click, AskAgain, RecheckDeadline, heartbeatVars, HealthInv, HealthTypeOK
<1>7. QED
  BY <1>3, <1>4, <1>5, <1>6 DEF Page

\* Whatever crashes, grants, withdrawals, overtaking heartbeats and lost answers:
\* every row, belief and screen is of its type, and only a running process claims.
THEOREM HealthTypeCorrect == HealthSpec => []HealthTypeOK
<1>1. HealthInit => HealthInv
  <2> SUFFICES ASSUME HealthInit PROVE HealthInv
    OBVIOUS
  <2>1. NotSeen \in SeenRow /\ Blank \in HealthDto
    BY OfflineAssumption DEF NotSeen, SeenRow, Blank, HealthDto
  <2>2. NoFetch \in Fetch /\ NoRecheck \in Recheck
    BY DEF NoFetch, Fetch, Blank, HealthDto, NoRecheck, Recheck
  <2>3. beats \in [Gateways -> [Sources -> Beat]]
    BY EmptyBeat DEF HealthInit, HeartbeatInit
  <2>4. QED
    BY <2>1, <2>2, <2>3 DEF HealthInit, HeartbeatInit, ScreenInit, HealthInv, HealthTypeOK
<1>2. HealthInv /\ [HealthNext]_healthVars => HealthInv'
  <2> SUFFICES ASSUME HealthInv, [HealthNext]_healthVars PROVE HealthInv'
    OBVIOUS
  <2>1. CASE Aging
    <3>1. seen' \in [Gateways -> SeenRow]
      BY <2>1, OlderTyped DEF Aging, Age, HealthInv, HealthTypeOK
    <3>2. QED
      BY <2>1, <3>1 DEF Aging, Age, screenVars, HealthInv, HealthTypeOK
  <2>2. CASE UNCHANGED healthVars
    BY <2>2 DEF healthVars, heartbeatVars, screenVars, HealthInv, HealthTypeOK
  <2>3. QED
    BY <2>1, <2>2, RunnerTyped, PageTyped DEF HealthNext
<1>3. HealthInv => HealthTypeOK
  BY DEF HealthInv
<1>4. QED
  BY <1>1, <1>2, <1>3, PTL DEF HealthSpec
=============================================================================
