--------------------------- MODULE GatewayHealth ---------------------------
(***************************************************************************)
(* The dashboard's view of a gateway: the polled health query, the         *)
(* permission banner and its re-check button (apps/web/src/api/gateway.ts, *)
(* components/permission-banner.tsx, components/gateway-indicator.tsx),    *)
(* composed with Heartbeat.                                                *)
(*                                                                         *)
(* The query client runs one fetch of a key at a time; whoever asks while  *)
(* one is under way joins it.                                              *)
(***************************************************************************)
EXTENDS Heartbeat

VARIABLES
  screen,         \* the cached answer the page renders
  fetch,          \* the fetch of the key under way
  recheck         \* the re-check mutation

screenVars == <<screen, fetch, recheck>>

healthVars == <<heartbeatVars, screenVars>>

HealthDto == [online : BOOLEAN, perms : SUBSET Permission]

\* What the page shows before the first answer: nothing.
Blank == [online |-> FALSE, perms |-> {}]

\* A fetch is of interest from its answer on.  "new": the answer carries another
\* lastSeenAt than the screen.
Fetch == [pc : {"idle", "answered"}, data : HealthDto, new : BOOLEAN]

NoFetch == [pc |-> "idle", data |-> Blank, new |-> FALSE]

\* "fetch" waits for a fetch, "sleep" for the next second.  "moved": the screen
\* shows another lastSeenAt than it did at the click.  "late": the deadline passed.
Recheck == [pc : {"idle", "fetch", "sleep"}, moved : BOOLEAN, late : BOOLEAN]

NoRecheck == [pc |-> "idle", moved |-> FALSE, late |-> FALSE]

ScreenInit == screen = Blank /\ fetch = NoFetch /\ recheck = NoRecheck

\* One type invariant: the runners, the rows and the page, only a process that runs
\* claims, and not while its loop has a beat of its own under way (runner/index.ts:80,114).
HealthTypeOK ==
  /\ access \in [Gateways -> Allowed]
  /\ up \in SUBSET Gateways /\ claiming \in SUBSET up
  /\ beats \in [Gateways -> [Sources -> Beat]]
  /\ \A g \in claiming : beats[g]["loop"].pc = "idle"
  /\ caps \in [Gateways -> SUBSET Permission]
  /\ seen \in [Gateways -> SeenRow]
  /\ screen \in HealthDto /\ fetch \in Fetch /\ recheck \in Recheck

HealthInit == HeartbeatInit /\ ScreenInit

\* What the banner asks for.
BannerShown == screen.online /\ ~HealthReady(screen)

\* The server answers refetchInterval's fetch, or that of a re-check, or one that
\* both wait for.
ServeFetch ==
  /\ fetch.pc = "idle"
  /\ fetch' = [pc |-> "answered", data |-> Health, new |-> unread]
  /\ unread' = FALSE
  /\ UNCHANGED <<access, up, beats, caps, claiming, seen, latest, screen, recheck>>

\* The page keeps what it shows; a re-check that waited reports an error.
FetchFails ==
  /\ fetch.pc = "answered"
  /\ fetch' = NoFetch
  /\ unread' = (unread \/ fetch.new)
  /\ recheck' = IF recheck.pc = "fetch" THEN NoRecheck ELSE recheck
  /\ UNCHANGED <<access, up, beats, caps, claiming, seen, latest, screen>>

\* A mutant: the deadline is not looked at.
NeverGivesUp == FALSE

\* Date.now() >= deadline
GivesUp == recheck.late

\* health.lastSeenAt !== before: a heartbeat the screen did not show at the click
\* is taken for a new probe.
Fresh == fetch.new \/ recheck.moved

\* The answer is cached and rendered; a re-check that waited for it decides.
FetchLands ==
  /\ fetch.pc = "answered"
  /\ screen' = fetch.data
  /\ fetch' = NoFetch
  /\ \/ recheck.pc # "fetch"
        /\ recheck' = [recheck EXCEPT !.moved = recheck.pc # "idle" /\ Fresh]
     \/ recheck.pc = "fetch" /\ (Fresh \/ GivesUp)
        /\ recheck' = NoRecheck
     \/ recheck.pc = "fetch" /\ ~Fresh /\ ~GivesUp
        /\ recheck' = [recheck EXCEPT !.pc = "sleep"]
  /\ UNCHANGED heartbeatVars

\* The button of the banner: what is on screen now is not new.
Click ==
  /\ BannerShown /\ recheck.pc = "idle"
  /\ recheck' = [NoRecheck EXCEPT !.pc = "fetch"]
  /\ UNCHANGED <<heartbeatVars, screen, fetch>>

\* A second later the re-check asks again, or joins the poll's fetch.
AskAgain ==
  /\ recheck.pc = "sleep"
  /\ recheck' = [recheck EXCEPT !.pc = "fetch"]
  /\ UNCHANGED <<heartbeatVars, screen, fetch>>

\* RECHECK_TIMEOUT_MS passes.
RecheckDeadline ==
  /\ recheck.pc # "idle" /\ ~recheck.late
  /\ recheck' = [recheck EXCEPT !.late = TRUE]
  /\ UNCHANGED <<heartbeatVars, screen, fetch>>

Running(g) == RunnerStep(g) /\ UNCHANGED screenVars

Aging == Age /\ UNCHANGED screenVars

Page == ServeFetch \/ FetchFails \/ FetchLands \/ Click \/ AskAgain \/ RecheckDeadline

HealthNext ==
  \/ Aging \/ Page
  \/ \E g \in Gateways : Running(g)

HealthSpec == HealthInit /\ [][HealthNext]_healthVars

\* A live process runs its timers and its loop; a request that is tried again and
\* again does not fail every time; an open page polls; time passes.
FairHealth ==
  /\ HealthSpec
  /\ WF_healthVars(Aging)
  /\ WF_healthVars(ServeFetch) /\ SF_healthVars(FetchLands)
  /\ WF_healthVars(AskAgain) /\ WF_healthVars(RecheckDeadline)
  /\ \A g \in Gateways :
       /\ WF_healthVars(Running(g) /\ (BlockedTurn(g) \/ ClaimTurn(g)))
       /\ WF_healthVars(Running(g) /\ TimerBeat(g))
       /\ \A k \in Sources :
            /\ WF_healthVars(Running(g) /\ (Look(g, k) \/ Assign(g, k)))
            /\ SF_healthVars(Running(g) /\ Upsert(g, k))

-----------------------------------------------------------------------------

\* A gateway that runs with both permissions.
Unblocked == \A g \in Gateways : g \in up /\ access[g] = Permission

\* "The state ... can be trusted to clear itself, and cannot sit there stale"
\* (permission-banner.tsx) and the gateway "starts claiming the instant both
\* appear": once the running processes have both permissions for good, the
\* banner goes away and every loop claims, although a probe from before the
\* grant may be assigned and posted after a newer one.
BannerClears == <>[]Unblocked => <>[](~BannerShown /\ claiming = Gateways)

\* The indicator does not keep saying "online" when every gateway is gone
\* (system.ts: "online" means it asked for work recently enough).
OfflineShown == []<>(up # {} \/ ~screen.online)

\* The re-check button comes back, whatever dies meanwhile (RECHECK_TIMEOUT_MS).
RecheckEnds == []<>(recheck.pc = "idle")
=============================================================================
