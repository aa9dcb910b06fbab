----------------------------- MODULE Heartbeat -----------------------------
(***************************************************************************)
(* How a gateway's permissions reach the server: the runner's probes and   *)
(* heartbeats (apps/gateway/src/runner/index.ts, server/client.ts          *)
(* sendHeartbeat), the heartbeat row (server/http/routes/gateway.ts) and   *)
(* the health derived from it (http/routes/system.ts).                     *)
(*                                                                         *)
(* A beat probes and then posts.  The timer starts one at every interval,  *)
(* whatever became of the last, and the blocked loop after every wait.     *)
(* They overtake each other in the probe and on the wire, and all of them  *)
(* assign "caps"; what is on the wire outlives its process.                *)
(*                                                                         *)
(* A row's lastSeenAt is kept as its age, which stops counting when it     *)
(* means "offline", and as "unread": the page compares it only with the    *)
(* one it has on screen.                                                   *)
(***************************************************************************)
EXTENDS FiniteSets, Naturals

CONSTANTS
  Gateways,       \* the gateway processes, on one Mac
  TimerBeats,     \* bound: the beats of its timer that a gateway has under way at once
  Changing,       \* the permissions somebody may grant or withdraw
  OfflineAfter    \* GATEWAY_OFFLINE_AFTER_MS, in ticks

Permission == {"fullDiskAccess", "automation"}

ASSUME ChangingAssumption == Changing \subseteq Permission
ASSUME TimerAssumption == "loop" \notin TimerBeats
ASSUME OfflineAssumption == OfflineAfter \in Nat \ {0}

VARIABLES
  access,         \* what macOS lets each gateway process do
  up,             \* the gateways that run
  beats,          \* the beats under way
  caps,           \* what each runner believes it may do
  claiming,       \* the runners whose loop asks for leases
  seen,           \* the heartbeat rows
  latest,         \* the gateway whose row has the newest lastSeenAt
  unread          \* no answer to the page has carried that lastSeenAt yet

heartbeatVars == <<access, up, beats, caps, claiming, seen, latest, unread>>

\* The beats a gateway may have under way: those of the timer, and the loop's own.
Sources == TimerBeats \cup {"loop"}

\* "probe" runs both checks, "found" has their results, "post" has assigned them
\* to caps.
Beat == [pc : {"idle", "probe", "found", "post"}, found : SUBSET Permission]

NoBeat == [pc |-> "idle", found |-> {}]

\* A row of gateway_heartbeats; one too old to count as online keeps nothing else
\* that is shown.
SeenRow == [perms : SUBSET Permission, age : 0..OfflineAfter]

NotSeen == [perms |-> {}, age |-> OfflineAfter]

\* What a process may be allowed to do.
Allowed == {(Permission \ Changing) \cup s : s \in SUBSET Changing}

HeartbeatInit ==
  /\ access \in [Gateways -> Allowed]
  /\ up = {}
  /\ beats = [g \in Gateways |-> [k \in Sources |-> NoBeat]]
  /\ caps = [g \in Gateways |-> {}]
  /\ claiming = {}
  /\ seen = [g \in Gateways |-> NotSeen]
  /\ latest \in Gateways
  /\ unread = FALSE

\* A person clicks in System Settings, and the change reaches the process, now or
\* later ("depending on TCC's cache"): seen from it, at any moment.
Reach(g) ==
  /\ \E a \in Allowed \ {access[g]} : access' = [access EXCEPT ![g] = a]
  /\ UNCHANGED <<up, beats, caps, claiming, seen, latest, unread>>

Ready(g) == caps[g] = Permission

\* A mutant: the loop does not wait for the beat it starts.
NeverWaits(g) == TRUE

\* The loop, and start before it, await the beat they start.
LoopFree(g) == beats[g]["loop"].pc = "idle"

\* start: the first beat comes before the loop.
Boot(g) ==
  /\ g \notin up
  /\ LoopFree(g)      \* bound: what the loop of the last process sent has arrived or is lost
  /\ up' = up \cup {g}
  /\ \E a \in Allowed : access' = [access EXCEPT ![g] = a]
  /\ beats' = [beats EXCEPT ![g]["loop"] = [NoBeat EXCEPT !.pc = "probe"]]
  /\ UNCHANGED <<caps, claiming, seen, latest, unread>>

\* The process ends, in whatever it was doing, but for what is on the wire.
Quit(g) ==
  /\ g \in up
  /\ up' = up \ {g}
  /\ beats' = [beats EXCEPT ![g] =
                 [k \in Sources |-> IF beats[g][k].pc = "post" THEN beats[g][k] ELSE NoBeat]]
  /\ caps' = [caps EXCEPT ![g] = {}]
  /\ claiming' = claiming \ {g}
  /\ UNCHANGED <<access, seen, latest, unread>>

StartBeat(g, k) ==
  beats' = [beats EXCEPT ![g][k] = [NoBeat EXCEPT !.pc = "probe"]]

\* setInterval calls beat whatever the runner is doing.
TimerBeat(g) ==
  /\ g \in up
  /\ \E k \in TimerBeats : beats[g][k].pc = "idle" /\ StartBeat(g, k)
  /\ UNCHANGED <<access, up, caps, claiming, seen, latest, unread>>

\* The loop's turn while a permission is missing: waitForPermissions.
BlockedTurn(g) ==
  /\ g \in up /\ LoopFree(g) /\ ~Ready(g)
  /\ StartBeat(g, "loop")
  /\ claiming' = claiming \ {g}
  /\ UNCHANGED <<access, up, caps, seen, latest, unread>>

\* The loop's turn otherwise: claimLease.
ClaimTurn(g) ==
  /\ g \in up /\ LoopFree(g) /\ Ready(g) /\ g \notin claiming
  /\ claiming' = claiming \cup {g}
  /\ UNCHANGED <<access, up, beats, caps, seen, latest, unread>>

\* A mutant: what the first probe found is kept for the life of the process.
ProbedOnce(g) == IF caps[g] = {} THEN access[g] ELSE caps[g]

\* hasFullDiskAccess and hasAutomationAccess: by trying.
Probed(g) == access[g]

\* capabilities.
Look(g, k) ==
  /\ beats[g][k].pc = "probe"
  /\ beats' = [beats EXCEPT ![g][k] = [pc |-> "found", found |-> Probed(g)]]
  /\ UNCHANGED <<access, up, caps, claiming, seen, latest, unread>>

\* refreshCapabilities goes on: the assignment of caps.
Assign(g, k) ==
  /\ beats[g][k].pc = "found"
  /\ caps' = [caps EXCEPT ![g] = beats[g][k].found]
  /\ beats' = [beats EXCEPT ![g][k].pc = "post"]
  /\ UNCHANGED <<access, up, claiming, seen, latest, unread>>

\* The upsert, with the server's clock as lastSeenAt.
Upsert(g, k) ==
  /\ beats[g][k].pc = "post"
  /\ seen' = [seen EXCEPT ![g] = [perms |-> beats[g][k].found, age |-> 0]]
  /\ latest' = g
  /\ unread' = TRUE
  /\ beats' = [beats EXCEPT ![g][k] = NoBeat]
  /\ UNCHANGED <<access, up, caps, claiming>>

\* beat's catch: a heartbeat that does not arrive is forgotten.
BeatLost(g, k) ==
  /\ beats[g][k].pc = "post"
  /\ beats' = [beats EXCEPT ![g][k] = NoBeat]
  /\ UNCHANGED <<access, up, caps, claiming, seen, latest, unread>>

\* Rows grow older.
Older(row) == IF row.age + 1 < OfflineAfter THEN [row EXCEPT !.age = @ + 1] ELSE NotSeen

Age ==
  /\ seen' = [g \in Gateways |-> Older(seen[g])]
  /\ seen' # seen
  /\ UNCHANGED <<access, up, beats, caps, claiming, latest, unread>>

RunnerStep(g) ==
  \/ Reach(g) \/ Boot(g) \/ Quit(g) \/ TimerBeat(g) \/ BlockedTurn(g) \/ ClaimTurn(g)
  \/ \E k \in Sources :
       Look(g, k) \/ Assign(g, k) \/ Upsert(g, k) \/ BeatLost(g, k)

-----------------------------------------------------------------------------
(* GET /system/gateway *)

\* A mutant: a gateway that was ever seen is online.
EverSeen(row) == TRUE

IsOnline(row) == row.age < OfflineAfter

\* The health of the gateway that was seen last.
Health == [online |-> IsOnline(seen[latest]), perms |-> seen[latest].perms]

HealthReady(h) == h.online /\ h.perms = Permission
=============================================================================
