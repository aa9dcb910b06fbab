# Send Blue: TLA+ models and proofs

The repository schedules iMessages: people queue messages from a dashboard, a server
keeps them in Postgres and releases them at a fixed rate, and a gateway on a Mac
asks the server for work, sends through Messages.app and reports what became of each
message. This directory models all three and how they meet, checks them with TLC on
small instances, and proves with TLAPS, for every value of the parameters, each safety
invariant and each action property that the runs check, among them that the server implements an
abstract specification of a message's life. Liveness is model-checked.

Paths below are relative to the repository's root; `server/` stands for
`apps/server/src/`, `gateway/` for `apps/gateway/src/` and `web/` for `apps/web/src/`.

## 1. The system

### Parts, state and interactions

| Part | State it keeps | Operations | Talks to |
|---|---|---|---|
| Status machine (`libs/shared/src/status.ts`) | none | `canTransition`, `reconcileStatus` | used by every status check of the server |
| Message table, events, settings (`apps/server/prisma/schema.prisma`) | rows, event log, one settings row | SQL statements | the only state the server's processes share |
| Report application (`server/repositories/message-status.ts`) | per request: the row it read | `applyStatusReport` | gateways, over HTTP |
| Operator requests (`server/repositories/messages.ts`, `message-queue.ts`, `settings.ts`) | per request: the status it read | create, cancel, retry, send-now, clear, settings | the dashboard, over HTTP |
| Lease route (`server/http/routes/gateway.ts`, `scheduler/queue-state.ts`, `claimNextMessage`) | per request: clock, settings, gate verdict | long poll, claim | gateways, over HTTP |
| Recovery sweep (`server/scheduler/reaper.ts`, `message-queue.ts`) | per instance: the ids it read | `reapExpiredLeases`, `failAbandonedSends` | a timer in every instance |
| Gateway runner, lease handler (`gateway/runner`) | the current lease, the believed permissions | claim, acknowledge, send, report, beat | the server; the driver |
| Watchers, drivers (`gateway/runner/watchers.ts`, `gateway/drivers`) | one poll timer per sent message, a chain of reports | `send`, `watch` | Messages.app, chat.db |
| chat.db access (`gateway/macos/chatdb.ts`) | none; reads a snapshot | `findSentMessage`, `getMessageState` | macOS |
| Heartbeat, health (`server/http/routes/gateway.ts`, `system.ts`) | one heartbeat row per gateway | upsert, newest row | gateways; the dashboard |
| Projections (`libs/shared/src/eta.ts`, `server/services`) | none; derived on read | ETAs, queue positions, statistics | the dashboard |
| Recipients (`server/repositories/recipients.ts`) | address book | create, edit, delete | the dashboard |
| Web dashboard (`apps/web`) | query cache, forms, mutations in flight | views, forms, buttons, polls | the API |

There are several servers, several gateways and several browser tabs, and nothing but
Postgres between them. No process holds a message in memory: who has it is written
in the row (`status`, `dispatchToken`, `leaseExpiresAt`), and its history in the
event log.

### What is hard

* **Read, decide, write.** Reports, cancels, retries, send-now and both sweeps read
  a row, decide, and write in a later statement. At Postgres' default isolation
  the row may change in between. Reports and `failAbandonedSends` repeat (part
  of) the condition in the write; the others write by id alone.
* **Check, then act.** The rate gate is evaluated in a poll before the claim, and
  other polls evaluate theirs at the same time.
* **Reports** are duplicated, delayed, reordered and concurrent, and may belong to
  an attempt that was reclaimed.
* **Crashes** of a gateway at any point, and of a server between a claim, its event
  and its answer.
* **The page reads and writes asynchronously.** Polls, mutations and the refetches they
  cause overlap, and what the page shows may be older than what it has said.
* **Probes overlap.** A gateway's timer and its blocked loop probe and post at once, and a
  re-check cannot tell one probe from another.
* **A send cannot be undone**, so what a sweep or a failure report makes of a message
  whose outcome is unknown matters more than in most queues.

`PROJECT.json` lists these hazards one by one with the line where each bites, the
properties that watch it, or why nothing does yet.

### What makes each part correct

* Report application: an applied report is not lost to a racing one
  (`NoLostReport`); a late write has the effect the report would have on the row as
  it now is, or none (`ReportsLinearize`).
* The row: status, token and lease agree about who holds the message
  (`LeaseCoherence`); each status has its event (`EventLogged`).
* Operator requests: a canceled message stays canceled (`CanceledStays`, under the
  restrictions below).
* Lease route: a poll's claims through a due gate are an interval apart (`PollsSpaced`).
  That a message goes to one claimer is the statement's doing (one UPDATE with SKIP LOCKED,
  one step here).
* Sweep: no message stays claimed and no unfinished send stays in flight
  (`DispatchEnds`, `AbandonedSendEnds`).
* The server as a whole: every message lives as `Lifecycle` says (`LivesAsSpecified`).
* Gateway: a recorded send is not repeated (`RecordedSendIsLast`); what chat.db says of a
  watched message reaches the row (`ReadsLand`). Server and gateways together still keep to `Lifecycle`
  (`MessagesLive`).
* Health: what the page says of the gateway's permissions and presence comes to be
  true (`BannerClears`, `OfflineShown`); a re-check ends (`RecheckEnds`).
* Projections: shown times are release times (`EtasAreReleaseTimes`); positions
  increase down the page (`PositionsIncrease`).
* Dashboard: what it shows catches up (`ScreenCatchesUp`), does not bring a canceled message
  back (`NoFlicker`), and one press schedules once (`ScheduledOnce`). The address book keeps
  handles unique (in `DashboardTypeOK`).

## 2. The modules

| Module | Models | State |
|---|---|---|
| `MessageStatus` | `libs/shared/src/status.ts` | none |
| `MessageTable` | the tables, the clock, the bounds | `rows`, `events`, `settings`, `now`, `nextToken`, `nextSeq`, `granted` |
| `StatusReports` | `applyStatusReport`, `applyOnce` | `reports`: one handler per request in flight; `acked` (history) |
| `OperatorRequests` | create, cancel, retry, send-now, clear, settings | `ops`: one handler per request in flight |
| `LeaseRoute` | the long poll, the gate, the claim | `polls`: one handler per open poll; `lastClaim` (history) |
| `Reaper` | the recovery sweep | `sweeps`: one per server instance |
| `Server` | their composition, its properties and its refinement | the union |
| `Lifecycle` | what the server promises of a message's life | `status`, `attempt`, `spent` |
| `Gateway` | `gateway/runner/lease.ts`, `watchers.ts`, `drivers/applescript.ts`, `macos/chatdb.ts`, the requests of `server/client.ts` | `gateways`: the loop; `chat`: the rows in chat.db; `watches`; `wire`: requests under way |
| `System` | server and gateways together | the union; `standing`, `barred`, `disturbed` (history) |
| `Heartbeat` | probes, beats, `waitForPermissions`, the heartbeat row, `GET /system/gateway` | `access`, `up`, `beats`, `caps`, `claiming`, `seen`, `latest`, `unread` |
| `GatewayHealth` | the health query, banner and re-check of the page | `screen`, `fetch`, `recheck` |
| `RecheckHistory` | which heartbeats rest on a probe from before the click | history only |
| `Eta` | `libs/shared/src/eta.ts` | none |
| `QueryCache` | the query client: fetches, mutations, invalidation | `queries`, `calls`, `lost` (history) |
| `AddressBook` | the recipients table and page | `book`, `drafts` |
| `Dashboard` | the pages, their forms, the routes they use, and what gateways and sweeps do meanwhile | `swept`: the ids a sweep has read; `page`, `settings`, `form`, `body`, `confirmed` (history) |
| `MCServer`, `MCSystem`, `MCDashboard` | instances for TLC: symmetry, starting pages | |
| `MessageStatusProofs`, `ServerProofs`, `ReportProofs`, `GateProofs`, `LifecycleProofs`, `SystemProofs`, `HealthProofs`, `DashboardProofs` | theorems | |

The four server processes extend `MessageTable`; `Server` extends all of them and lets
one process step at a time, the others' handlers unchanged. `System` extends `Server` and
`Gateway`: a gateway's long poll is one of the server's `Pollers`, the answer to it
(`Respond`) hands the lease to the process that waits, and a report on the wire is applied
in one step. That report is not split into read and write again because `ReportsLinearize`,
checked of `Server`, says that a write that happens has the effect it would have alone.
`Dashboard` extends `Lifecycle`, of which `Server` is proved to be a refinement, so that the
page's races are not multiplied by the server's. Behind the page's back the server takes the
steps of `Lifecycle` that gateways and sweeps cause: a claim (`GatewayClaims`); a report that
advances a message or requeues one that failed, where `canTransition` allows it
(`GatewayReports`); and a sweep that reads claimed messages (`SweepReads`) and later requeues
those ids whatever has become of them (`SweepRequeues`), a canceled one among them. When a lease expires is left
to the sweep: it may pick any claimed message.

**Atomicity.** A read and a later write of one transaction are two steps. A write, the
writes after it in that transaction and its commit are one step: the first write takes
the row's lock and keeps it, so no other statement on the row comes between. A
compare-and-set that waits for such a lock evaluates its condition again on the
committed row (READ COMMITTED), which is what the model's step does. Reads that nothing
can come between with any effect are merged: arriving and reading of a report;
the sweep's clock and its first read; the last dispatch and the forced count of
a turn of the poll. A claim's clock is read in the step of its UPDATE. Writes outside a transaction are steps of their own: the QUEUED event after the
insert, the DISPATCHING event after the claim.

**SKIP LOCKED.** `Claim(p, locked)` may step over the rows in `locked`. `Server` passes
the rows that an operator's transaction or a sweep's statement may hold locked at that
moment. Which row a claim takes under contention is not left to chance otherwise.

**State and code.** A `rows[m]` record has the columns the handlers read or write:
`status`, `token` (dispatchToken), `lease` (leaseExpiresAt), `guid` (providerGuid),
`attempts`, `force` (forceDispatch), `seq` (queueSeq), `dispatchedAt`, `error` (lastError,
by origin), and `stamps`, the set of the filled columns among sentAt, deliveredAt and
receivedAt. `"NONE"` and `"DELETED"` stand for an absent row before creation and after
clearing; an id is a UUID and never used again. Tokens count up where the code draws a
UUID. The GUID that attempt `t` produces is `t`. A cleared column is `Null`.

**Gateways.** `granted` is the set of leases that reached a gateway. In `Server` alone any
handler may receive any report for any lease in `granted` at any time, as
often as it likes. That covers duplication, reordering, delay, loss and crashes, and more
reports than a gateway makes. In `System` the reports are the gateway's own: `pc` says where
its loop is (`ack` and `reattach`, `record`, `fail` await an answer), `Answered` continues
whoever waits, `Break` is a `fetch` that throws although the request may still arrive, and
`Drop` is the request that does not. `LoopBroken` is the catch of `lease.ts:64`. A process
that dies (`Crash`) or is stopped (`Stop`, `Exit`) leaves its requests on the wire and its
rows in chat.db, and loses its watchers.

**chat.db.** `chat[t]` is how far Messages.app got with what attempt `t` sent, and from which Mac. The
correlation finds the attempt's own row, or with the fault `mixed` the row of an earlier
attempt from the same Mac; `unfound` is the search that finds nothing.

**Heartbeats.** A beat probes (`Look`), assigns (`Assign`) and posts (`Upsert`). The timer starts
one whatever became of the last, at most `TimerBeats` at once; the loop waits for its own
(`LoopFree`); all of them overlap. What is posted when the process ends (`Quit`) is on the wire, and
arrives or is lost, perhaps after the next process has begun to beat. A row keeps its age instead of its time and forgets everything at
the age that means "offline", which is all the page shows of it then. `unread` stands for "the newest `lastSeenAt`
was not yet shown", the comparison the re-check makes.

**Pages.** A fetch of a key is `asked`, answered (`read`; the queue's two reads apart, `half`) and
landed. A mutation is `sent`, processed and settled; its success invalidates the keys of
`Stale`, with `cancelRefetch` as in `Refetched`. Cancel, retry and send-now keep the server's
read and write apart. `Open` are the keys the page's behaviour depends on.

**Clock.** One clock. A tick is coarse: `LeaseTime = 0` means a lease that has expired at the next tick.

**Abstractions.** Texts, handles and event details are left out, except that the dashboard tells texts and handles
apart. `scheduledAt` and
`priority` are set by no operation, so the TIMESTAMPED policy is the FIFO order and
policies are left out. The times the page shows are checked where they are made, on the
server's table (`Eta`, `Server!EtasAreReleaseTimes`).

## 3. The runs

`CHECK_DEADLOCK FALSE` throughout: the clock, the claims and the clicks are bounded, and when
they are used up with nothing in flight the system really stops.

| Run | Module | Shows |
|---|---|---|
| `reports_reaped` | `MCServer` | `NoLostReport`, `ReportsLinearize`: two reports in flight, any order and number, two attempts, a sweep that requeues in between |
| `operators` | `MCServer` | `TypeOK`, `LeaseCoherence`, `EventLogged`, `CanceledStays`, `LivesAsSpecified`: two operators (cancel, retry, clear), a report, a poll and a sweep, two attempts |
| `rate_gate` | `MCServer` | `PollsSpaced`, `EtasAreReleaseTimes`: two polls, two messages, interval changes, pause, send-now, lost answers |
| `recovery` | `MCServer` | `DispatchEnds`, `AbandonedSendEnds` under fairness: silent gateways, failing sweeps |
| `send_guard` | `MCSystem` | `SystemTypeOK`, `RecordedSendIsLast`: two gateways that crash, stop and restart, lost reports, a sweep |
| `receipts` | `MCSystem` | `ReadsLand`, `MessagesLive` under fairness: receipts at their own pace, lost and refused reports, a mixed-up row, a watcher that gives up, a retry |
| `health` | `GatewayHealth` | `HealthTypeOK`, `BannerClears`, `OfflineShown`, `RecheckEnds` under fairness: the timer's beat and the loop's overlap, a permission that comes and goes, deaths, lost posts and fetches |
| `dashboard` | `MCDashboard` | `DashboardTypeOK`, `PositionsIncrease`, `ScheduledOnce`, `NoFlicker`, `ScreenCatchesUp`: each page with two clicks, one loss, and a gateway and a sweep behind its back |

The restrictions of a run are part of what it says. `CanceledStays` speaks of the steps that are
neither an operator's nor a sweep's: a late retry and a late requeue, both by id alone, do
bring a canceled message back. `PollsSpaced` speaks of one poll's own claims and of runs
without retry or clear, which erase the timestamp the gate reads. `RecordedSendIsLast`
begins where a GUID is recorded: before that, a reclaimed attempt that is still being
sent is sent twice, which the documentation accepts. `ReadsLand` exempts the attempts whose
watching a crash, a stop or a timeout cut short and those that lost a report or were
answered with an error: nothing in the code follows them up. `ScreenCatchesUp` exempts
pages that do not poll (settings, recipients) after a lost request, and after an
invalidation that joined a first fetch: there the code keeps the older answer until the
page is opened again. `ScheduledOnce` exempts a schedule request whose answer was lost.
`NoFlicker` exempts a message from the moment a sweep has requeued it after it was canceled: then the
server has it in the queue, and the page shows it again, rightly. What `NoFlicker` forbids is that the page
shows an older answer than what it has said.

**Bounds.** `MaxClaims` bounds the attempts, `LastClaim` the time of the last one, `MaxNow` the
clock. Two attempts are what a stale token, an ABA between a read and a write, a
reopened slot or a second send needs. Two handlers of a kind show every race between two
of them. `MaxTries` is 4 in the code; a smaller one gives up sooner, which the model
allows at any time anyway (`LoseReport`). `LeaseTime = 0` makes a lease expire at the next tick, so
that one tick is enough for a reclaim.

`send_guard` has two gateways so that a second one can claim what the first is still
sending. `receipts` has one, with every fault but the crash, so that a retry meets the row of the
first attempt. In `health`, `OfflineAfter = 1` lets one tick age a row to
offline; `TimerBeats` has one beat of the timer next to the loop's, which is what an older probe needs to overtake
a newer one (two in `found_recheck`, and any number in the proof); a process starts again when what the last one's loop had on
the wire has arrived or is lost; one permission changes, the other is always there. In `dashboard` two
clicks are a mutation racing another, and the one loss (`MaxLosses`) hits any of the requests;
`MaxTexts = 1` is one text that could be scheduled twice; two recipients, one name and
two handles let an edit collide with another row. The gateway behind the page has one attempt and reports
`DELIVERED` (`Reported`), which is what moves a message between the lists. `EtasAreReleaseTimes` meets two
messages, two intervals and clocks past the slot, and is proved for all.

### Where documentation and code part

Each of these runs checks one sentence of a comment or document and finds it
refuted by a race or a sequence the code allows. The quotations are in
`PROJECT.json`.

| Run | Sentence | What happens |
|---|---|---|
| `found_reap_race` | the sweep requeues what was never acknowledged | a message acknowledged between the sweep's read and write is requeued |
| `found_cancel_race` | only a queued message is canceled | a message claimed between the cancel's read and write is canceled, and sent |
| `found_lost_report` | a lost report does not send twice | the report of the GUID gets no answer, the gateway reports FAILED, the requeued message is sent again |
| `found_recheck` | a newer heartbeat proves a newer probe | a beat that probed before the click is posted after it |

The writes by id alone let more of the same happen, which the hazards in `PROJECT.json`
note without a run of their own: the second of two retries resets a message already
on its way again; send-now marks a message that was claimed since its read; a sweep
requeues a message canceled since its read, or fails a live attempt that looks like the
abandoned one it read. Retry also erases the timestamp the gate reads, one override can
let two messages through the gate, and a requeue by the sweep does not look at the
retry budget.

On the pages, the model follows the code where it loses something nobody promised to keep: the
answer of a save closes a recipient's row although a newer edit has begun there, the reset after a sent
message wipes what was typed meanwhile, and a row's save compares its drafts with an
entry that may have changed since it was read.

### Fairness

`FairSpec` (`recovery`) assumes that the clock advances and that every instance keeps sweeping.
The first read of a sweep is weakly fair: `setInterval` never stops calling it. The later steps
are strongly fair, because a sweep may throw at any of them (`AbortSweep`; `reapOnce`
swallows the error) and the next one starts over: a database that fails every single
sweep is excluded, nothing else. No fairness is assumed of gateways, reports,
operators or polls: liveness is the sweep's to provide.

`FairSystem` (`receipts`) assumes that a live watcher's timer ticks, that a chained report
leaves, and that a request on the wire is processed, refused or lost. Nothing is assumed
of Messages.app, of the loop or of the server's other work.

`FairHealth` (`health`) assumes that a live process runs its timer and its loop, that an open page
polls, and that time passes. Posting a heartbeat and landing a fetch are strongly fair:
each is tried again at every interval, and a network that fails every time is excluded.
Permissions change whenever they like; `BannerClears` speaks of the case in which they stop doing so.

`DashboardSpec` assumes that the server serves and answers requests and that the
intervals of the polls come. Clicks, the gateway and losses are free.

## 4. The proofs

For every set of messages, handlers and instances and every value of the parameters:

* `ServerProofs!TypeCorrect`: `Spec => []TypeOK`. One lemma per process.
* `ServerProofs!LeaseCoherent`: `Spec => []LeaseCoherence`. The property is not inductive
  alone. A report writes over the row it matched, and keeps its token and lease; if
  that row could be a queued one, an in-flight row without a token would result. `HandlersCurrent`
  is the missing fact: from its first read on, a handler remembers the token
  its own report carries, which is never NULL, so the row that matches is a claimed one.
  `CoherenceInv` conjoins the types, this fact and the property; one lemma per process shows a step keeps it,
  from lemmas on what each operator makes of a coherent row.
* `ServerProofs!DistinctAttempts`: `Spec => []AttemptsDistinct`, which no run checks and which
  `ReportsLinearizeAlways` and `SystemProofs` rest on. The strengthening `TokensIssued`
  says that every token in a row, an answer under way or a granted lease was issued
  before `nextToken`, and that an answer's token is nobody else's. Reports, requests and
  sweeps keep or clear tokens (`TokensKept`); only a claim issues one and only an
  answer hands one over.
* `ReportProofs!EveryStatusLogged`: `Spec => []EventLogged`. Inductive with the types: a step loses
  no event, and gives a row a status that needs an event only together with it. A retry deletes
  FAILED events, but only of the message it queues; a clear takes the row along.
* `ReportProofs!AnswersKept`: `Spec => []NoLostReport`. The compare-and-set makes the row a handler finds
  the one it asked `canTransition` about, and the guard orders statuses (`GuardAdvances`): what it
  refuses adds nothing to the row, what it lets pass is as far as all that was answered before. Operators
  and sweeps keep an attempt's row, end it, or clear its token (`Kept`). `AckedIssued` is the missing fact
  about claims: the history speaks of tokens below `nextToken`, so never of the attempt a claim starts.
* `ReportProofs!ReportsLinearizeAlways`: `Spec => ReportsLinearize`. The compare-and-set checks status and
  token; the write also uses the GUID and the retry count it read before. `MemoryHolds` says the count
  cannot have changed and a GUID cannot have been lost while the attempt is current. A GUID another
  report wrote in between is the one this report carries: every handler serves a lease
  (`HandlersLeased`), a row has no GUID but its lease's or its attempt's (`AttemptGuids`), and an attempt has
  one lease (`AttemptsDistinct`).
* `ReportProofs!CancelIsFinal`: `Spec => CanceledStays`, from the types: the guard, the claim's
  choice and the sweep's condition on ACCEPTED each leave a CANCELED row alone.
* `GateProofs!SpacedClaims`: `Spec => PollsSpaced`, where operators neither retry nor clear
  (`NothingErased`; with either the property is false, as the limiter reads what they erase). A poll's claim is
  remembered by the table as long as no dispatch time is erased (`ClaimsRemembered`), so the gate that
  `PassGate` found due was an interval after it, and the clock has not gone back since (`TurnsSpaced`).
* `LifecycleProofs!ServerLives`: `Spec => LivesAsSpecified`, the refinement. The mapping reads
  a message's status and token from its row and the spent attempts from `nextToken`.
  The invariant is `CoherenceInv` and `nextToken > 0`: an in-flight row has a token, so a
  report that matched it belongs to a dispatched attempt, and a row a claim takes gets a
  token that was never used. One lemma per abstract step says what the mapped variables must do;
  one per process (`ReportLives`, `OperatorLives`, `PollLives`, `SweepLives`) shows its
  steps are such steps or stutter. The late writes by id alone are why `Lifecycle` lets a present message be
  requeued or canceled in any status: that much, and no more, is lost to them.
* `GateProofs!EtasAreReleaseTimesAlways`: `Spec => []EtasAreReleaseTimes`. It follows from `TypeOK`
  alone: the anchor is the first moment at which the gate, which compares with every dispatch, is due,
  and each further position is the first moment after the one before.
* `MessageStatusProofs!ReconcileCommutes`: two progress reports leave the same status in
  either order, from the characterisation of `reconcileStatus` as "the later, unless ended".

* `SystemProofs`: server and gateways together, from one inductive invariant, `SystemInv`. It has
  two halves. The server's is the invariants above (`ServerInv`); a report applied in one step
  keeps them as a handler's write does (`AppliedCases` finds the handler's report it corresponds to). The gateways' says who
  has a lease: `HeldOnce`, one loop or one watcher has it, and `AnswersAwaited`, a watcher waits for the
  answer to the first report of its chain and to no other. Polls and gateways are joined by
  `AttemptsDistinct`: a lease that is about to be answered is nobody's yet.
  * `GuardHolds`: `SystemSpec => []RecordedSendIsLast`. `GuidsKept` follows a recorded GUID from the row of
    a message in `standing` to the poll that claimed it, to the lease in the loop, to the loop's
    decision: the states `send` and `find` are those of a lease without GUID. `TokensPast` says that what was
    sent or barred has been claimed, so a new lease has no row in chat.db yet. The row keeps the GUID
    because a report that is current meets a claimed row (`LeaseCoherence`: a queued one has no
    token), so that only a requeue by a failure drops it, and that takes the message out of `standing`.
  * `SystemLives`: `SystemSpec => MessagesLive`. The lemmas of `ServerLives` for the server's own steps; a report
    applied in one step progresses, requeues or leaves the row alone (`ApplyLives`).
  * `SystemTypeCorrect`, `LeasesHeldOnce`, `ServerSafeInSystem`: the types, and the parts of `SystemInv`
    a reader may want by themselves.
* `HealthProofs!HealthTypeCorrect`: `HealthSpec => []HealthTypeOK`. The types rest on two facts that are not among
  them: `latest` is a gateway and `unread` a truth value. Among the types is that a gateway which claims runs, and has no
  beat of its loop under way: only the loop starts such a beat, when it stops claiming, and claims when there is none.
* `DashboardProofs`: one invariant for each property, all over `TypeInv`, which adds to the types that a
  call's arguments fit its kind (`CallsFit`) and that what a query holds is an answer of its key
  (`QueriesHold`).
  * `DashboardTypeCorrect`: `DashboardSpec => []DashboardTypeOK`, with it the uniqueness of handles through racing edits:
    the server's check and its write are one step, the unique column.
  * `PositionsAlwaysIncrease`: the messages may change between the queue's two reads, but each read is
    ordered by the message's place in the queue, and positions grow with it (`PlacesInv`). That the queue can be listed in order at
    all (`ListsInOrder`) is proved by counting the smaller members, without induction.
  * `AlwaysScheduledOnce`: unless a schedule request was lost, every text typed so far is in one call under way or in one message and
    in no other, and what stands in the form while it is not being sent is in neither (`Once`).
  * `NeverFlickers`: a cancellation the page was told of stands until a sweep undoes it, because on the
    page that shows the queue nobody retries, and neither a claim nor a report leaves CANCELED
    (`OverStays`); and the answer that says so drops the list that was under way, which `cancelRefetch` in the
    invalidation does. So no list on its way has the message (`FlickerInv`): one that is read later is read from a
    queue without it.

Assumptions: those on the constants, which TLC evaluates on every run. NULL is no number; durations,
intervals and bounds are naturals; reportable statuses are statuses; a gateway is a
poller (`GatewaysPoll`); the messages of `System` are finitely many (`QueueAssumption`: they
start out in some order); the dashboard's are numbered from 1 in the order they are made, and "no data"
(`None`) is no answer of the server (`NoneAssumption`).

Two things came out of these proofs. `SettleCall` chose the form's next state with a CASE whose arms
overlapped: TLC takes the first, TLA+ leaves it open, and no proof went through until it was
written as the alternatives the code has. And the refinement of `Lifecycle` needs `LeaseCoherence`: without it a late
report would progress a message that is queued.

Only model-checked: the liveness properties (`DispatchEnds`, `AbandonedSendEnds`, `ReadsLand`,
`BannerClears`, `OfflineShown`, `RecheckEnds`, `ScreenCatchesUp`), which under fairness are out of the prover's
reach, and the counterexamples of the `found_` runs.

## 5. Not modelled

`PROJECT.json` lists every part with its status.

* **Gateway.** The mock driver (receipts on timers, for demonstrations); the decoding of
  chat.db's blobs and of Apple's time; messages of other programs in chat.db; the
  host application's name; the doctor and setup commands, which print and exit.
* **Dashboard.** Each page is open by itself: navigation, several tabs, refetching on
  focus, the timeline of one message, the recipient picker and its search, dialogs, the
  activity chart. The scheduler's display of the settings is not among its `Open` keys.
* **Server.** Parsing of phone numbers and handles (a library), wire schemas, HTTP
  middleware, configuration, logging, the activity chart's buckets (read-only sums), the policy registry.
* **Around it.** Seed and demo data, infrastructure, CI.

Worth doing next: two messages in `System`, for a GUID that collides; the invariants behind the
liveness properties, such as what a watcher has still to report, as theorems of their own.
