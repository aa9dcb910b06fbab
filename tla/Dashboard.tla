------------------------------ MODULE Dashboard ------------------------------
(***************************************************************************)
(* One open page of the dashboard and the server it reads and writes: the  *)
(* scheduler with its form and queue, the history with its tiles and       *)
(* table, the settings, the address book.  The server's processes take any *)
(* step of Lifecycle that is theirs: gateways that claim and report, the   *)
(* sweeps.  Messages are numbered by queueSeq.                             *)
(***************************************************************************)
EXTENDS Lifecycle, AddressBook

CONSTANTS
  MaxTexts,       \* bound: what a person types
  Reported,       \* bound: the statuses that reports, or failAbandonedSends, give
  Starts          \* the pages, and the statuses their messages may have when opened

ASSUME DashboardAssumption ==
  /\ IsFiniteSet(Messages) /\ Messages = 1 .. Cardinality(Messages)
  /\ MaxTexts \in Nat
  /\ Reported \subseteq MessageStatuses
  /\ Starts \subseteq [page : {"schedule", "dashboard", "settings", "recipients"},
                     status : [Messages -> MessageStatuses \cup {"NONE"}]]

VARIABLES
  swept,          \* the ids a sweep has read and not yet requeued
  page,           \* the page that is open
  settings,       \* the settings row
  form,           \* the compose form
  body,           \* what each message says
  confirmed       \* history: the messages whose cancellation the page was told of
                  \* and no sweep has undone

screenVars == <<page, settings, form, body, confirmed>>
vars == <<lifecycleVars, swept, cacheVars, bookVars, screenVars>>

SettingsRows == [paused : BOOLEAN, sendIntervalSeconds : {60, 3600}, maxAttempts : {1, 3}]

\* One type invariant: the tables, the page's own state, and the address book with
\* its unique handle (schema.prisma, Recipient.handle).
DashboardTypeOK ==
  /\ LifecycleTypeOK /\ BookTypeOK /\ swept \subseteq Messages
  /\ page \in {"schedule", "dashboard", "settings", "recipients"}
  /\ settings \in SettingsRows
  /\ body \in [Messages -> 0 .. MaxTexts]
  /\ confirmed \subseteq Messages
  /\ form \in [phase : {"idle", "sending", "sent"}, text : 0 .. MaxTexts,
               typed : 0 .. MaxTexts, landed : BOOLEAN]
  /\ \A k \in Keys : queries[k].fetch \in {"half", "read"} <=> queries[k].got # None

DashboardInit ==
  /\ \E s \in Starts : page = s.page /\ status = s.status
  /\ attempt = [m \in Messages |-> NoAttempt] /\ spent = {}
  /\ swept = {} /\ CacheInit
  /\ BookInit /\ (page = "recipients" \/ \A r \in Recipients : book[r] = None)
  /\ settings = [paused |-> FALSE, sendIntervalSeconds |-> 3600, maxAttempts |-> 3]
  /\ form = [phase |-> "idle", text |-> 0, typed |-> 0, landed |-> FALSE]
  /\ body = [m \in Messages |-> 0]
  /\ confirmed = {}

\* The keys whose data the page's behaviour depends on.  The scheduler only displays
\* the settings; the history without a message is one empty state without a list.
Open ==
  CASE page = "schedule"   -> {"queue"}
    [] page = "settings"   -> {"settings"}
    [] page = "recipients" -> {"recipients"}
    [] page = "dashboard"  -> IF queries["stats"].data # None /\ queries["stats"].data.total = 0
                              THEN {"stats"} ELSE {"stats", "list"}

-----------------------------------------------------------------------------
(* What the server answers.                                                *)

With(S) == {m \in Messages : status[m] \in S}

\* The queued messages one after the other, each of them once.
Listings == [1 .. Cardinality(With({"QUEUED"})) -> With({"QUEUED"})]

\* A mutant: newest first, like the list.
NewestFirst == CHOOSE l \in Listings : \A i, j \in DOMAIN l : i < j => l[i] > l[j]

\* The order of listQueue.
Queued == CHOOSE l \in Listings : \A i, j \in DOMAIN l : i < j => l[i] < l[j]

\* queueProjection: the position of each queued message, in the order of listQueued.
Projection ==
  [m \in With({"QUEUED"}) |-> Cardinality({n \in With({"QUEUED"}) : n < m})]

\* toDto: the position is null for a message the projection did not see.
QueueRows(projection) ==
  LET rows == Queued IN
  [i \in DOMAIN rows |->
     [id |-> rows[i],
      position |-> IF rows[i] \in DOMAIN projection THEN projection[rows[i]] ELSE None]]

\* getStats
Stats == [queued    |-> Cardinality(With({"QUEUED"})),
          inFlight  |-> Cardinality(With({"DISPATCHING", "ACCEPTED", "SENT"})),
          delivered |-> Cardinality(With(SuccessStatuses)),
          failed    |-> Cardinality(With({"FAILED"})),
          canceled  |-> Cardinality(With({"CANCELED"})),
          total     |-> Cardinality(With(MessageStatuses))]

View(k) ==
  CASE k = "queue"      -> QueueRows(Projection)
    [] k = "list"       -> [m \in With(MessageStatuses) |-> status[m]]
    [] k = "stats"      -> Stats
    [] k = "settings"   -> settings
    [] k = "recipients" -> book

\* What the reads answer; none of it is taken for no data.
Projections == UNION {[S -> 0 .. Cardinality(Messages)] : S \in SUBSET Messages}

Answers(k) ==
  CASE k = "queue"      -> Seq([id : Messages, position : 0 .. Cardinality(Messages) \cup {None}])
    [] k = "list"       -> UNION {[S -> MessageStatuses] : S \in SUBSET Messages}
    [] k = "stats"      -> [queued : Nat, inFlight : Nat, delivered : Nat,
                            failed : Nat, canceled : Nat, total : Nat]
    [] k = "settings"   -> SettingsRows
    [] k = "recipients" -> [Recipients -> Entries \cup {None}]

ASSUME NoneAssumption == None \notin Projections /\ \A k \in Keys : None \notin Answers(k)

\* listQueue reads the projection first and the page of messages after it.
ServeFetch(k) ==
  /\ k \in Open /\ Due(k)
  /\ IF k = "queue" THEN Take(k, "half", Projection) ELSE Take(k, "read", View(k))
  /\ UNCHANGED <<lifecycleVars, calls, lost, bookVars, screenVars, swept>>

ServePage ==
  /\ queries["queue"].fetch = "half"
  /\ Take("queue", "read", QueueRows(queries["queue"].got))
  /\ UNCHANGED <<lifecycleVars, calls, lost, bookVars, screenVars, swept>>

\* POST /messages: the rest of the handler writes the event and reads the answer.
ServeSchedule(i) ==
  /\ Arrived(i, "schedule")
  /\ \E m \in Messages :
       /\ Schedule(m)
       /\ \A n \in Messages : n < m => status[n] # "NONE"
       /\ body' = [body EXCEPT ![m] = calls[i].arg]
  /\ Answer(i, TRUE)
  /\ UNCHANGED <<bookVars, page, settings, form, confirmed, swept>>

\* The read of cancelMessage, retryMessage and forceDispatch, and its refusal.
ServeRead(i) ==
  /\ calls[i].pc = "sent" /\ calls[i].kind \in {"cancel", "retry", "sendNow"}
  /\ LET needed == IF calls[i].kind = "retry" THEN "FAILED" ELSE "QUEUED"
         found  == status[calls[i].arg] = needed
     IN  calls' = [calls EXCEPT ![i].pc = IF found THEN "found" ELSE "error"]
  /\ UNCHANGED <<lifecycleVars, queries, lost, bookVars, screenVars, swept>>

\* Their write, by id; sending now sets a flag the page does not show.
ServeWrite(i) ==
  /\ calls[i].pc = "found"
  /\ CASE calls[i].kind = "cancel"  -> Cancel(calls[i].arg)
       [] calls[i].kind = "retry"   -> Requeue({calls[i].arg})
       [] calls[i].kind = "sendNow" -> UNCHANGED lifecycleVars
  /\ Answer(i, TRUE)
  /\ UNCHANGED <<bookVars, screenVars, swept>>

ServeClear(i) ==
  /\ Arrived(i, "clear")
  /\ Clear
  /\ Answer(i, TRUE)
  /\ UNCHANGED <<bookVars, screenVars, swept>>

\* PATCH /settings writes the fields it was given.
ServePatch(i) ==
  /\ Arrived(i, "patch")
  /\ settings' = Patched(settings, calls[i].arg)
  /\ Answer(i, TRUE)
  /\ UNCHANGED <<lifecycleVars, bookVars, page, form, body, confirmed, swept>>

ServeBook(i) ==
  /\ ServeAdd(i) \/ ServeSave(i) \/ ServeRemove(i)
  /\ UNCHANGED <<lifecycleVars, screenVars, swept>>

\* A gateway's poll: claimNextMessage.
GatewayClaims ==
  /\ \E m \in Messages, t \in Attempts : Dispatch(m, t)
  /\ UNCHANGED <<cacheVars, bookVars, screenVars, swept>>

\* Its reports: applyOnce advances a message or, within the budget, requeues one that failed.
GatewayReports ==
  /\ \E m \in Messages :
       \/ \E s \in Reported : Progress(m, s)
       \/ status[m] # "QUEUED" /\ CanTransition(status[m], "FAILED") /\ Requeue({m})
  /\ UNCHANGED <<cacheVars, bookVars, screenVars, swept>>

\* reapExpiredLeases: the claimed messages whose lease has expired.
SweepReads ==
  /\ swept = {}
  /\ swept' \in SUBSET With({"DISPATCHING"}) \ {{}}
  /\ UNCHANGED <<lifecycleVars, cacheVars, bookVars, screenVars>>

\* Its write, by the ids it has read, whatever those messages have become, a canceled
\* one among them.
SweepRequeues ==
  /\ swept # {}
  /\ LET there == {m \in swept : Present(m)} IN
       Requeue(there) /\ confirmed' = confirmed \ there
  /\ swept' = {}
  /\ UNCHANGED <<cacheVars, bookVars, page, settings, form, body>>

-----------------------------------------------------------------------------
(* The page.                                                               *)

Type ==
  /\ page = "schedule" /\ form.typed < MaxTexts
  /\ form' = [form EXCEPT !.text = form.typed + 1, !.typed = form.typed + 1]
  /\ UNCHANGED <<lifecycleVars, cacheVars, bookVars, page, settings, body, confirmed, swept>>

\* A mutant: the button is not disabled while a message is being scheduled.
AlwaysEnabled == TRUE

ButtonEnabled == form.phase = "idle"

\* onSubmit
Submit ==
  /\ page = "schedule" /\ form.text # 0 /\ ButtonEnabled
  /\ \E m \in Messages : status[m] = "NONE"      \* bound: there is an id left
  /\ Send(<<"schedule", None>>, "schedule", form.text)
  /\ form' = [form EXCEPT !.phase = "sending", !.landed = FALSE]
  /\ UNCHANGED <<lifecycleVars, bookVars, page, settings, body, confirmed, swept>>

\* The plane has left and the answer is there: the form starts over.
PlaneLeft ==
  /\ form.phase = "sending" /\ form.landed
  /\ form' = [form EXCEPT !.phase = "sent", !.text = 0, !.landed = FALSE]
  /\ UNCHANGED <<lifecycleVars, cacheVars, bookVars, page, settings, body, confirmed, swept>>

SentTimer ==
  /\ form.phase = "sent"
  /\ form' = [form EXCEPT !.phase = "idle"]
  /\ UNCHANGED <<lifecycleVars, cacheVars, bookVars, page, settings, body, confirmed, swept>>

Shown(k) == k \in Open /\ queries[k].data # None

RowIds(rows) == {rows[i].id : i \in DOMAIN rows}

\* The buttons of a queue row, each with a hook of its own.
ClickRow(m, kind) ==
  /\ Shown("queue") /\ ~queries["queue"].failed /\ m \in RowIds(queries["queue"].data)
  /\ ~Pending(<<kind, m>>)
  /\ Send(<<kind, m>>, kind, m)

\* The rows of the table share one hook.
ClickRetry(m) ==
  /\ Shown("list") /\ m \in DOMAIN queries["list"].data /\ queries["list"].data[m] = "FAILED"
  /\ ~Pending(<<"retry", None>>)
  /\ Send(<<"retry", None>>, "retry", m)

\* The dialog is offered while the tiles count something finished.
ClickClear ==
  /\ Shown("stats") /\ page = "dashboard"
  /\ LET s == queries["stats"].data IN s.delivered + s.failed + s.canceled > 0
  /\ ~Pending(<<"clear", None>>)
  /\ Send(<<"clear", None>>, "clear", None)

\* The switch and Enter in the field are never disabled.
ClickRate ==
  /\ Shown("settings") /\ page = "settings"
  /\ \/ Send(<<"rate", None>>, "patch", [paused |-> ~queries["settings"].data.paused])
     \/ Send(<<"rate", None>>, "patch", [sendIntervalSeconds |-> 60])

\* The attempts are, while a change is under way.
ClickBudget ==
  /\ Shown("settings") /\ page = "settings"
  /\ ~Pending(<<"budget", None>>)
  /\ Send(<<"budget", None>>, "patch", [maxAttempts |-> 1])

Click ==
  /\ \/ \E m \in Messages : ClickRow(m, "cancel") \/ ClickRow(m, "sendNow") \/ ClickRetry(m)
     \/ ClickClear
     \/ ClickRate \/ ClickBudget
  /\ UNCHANGED <<lifecycleVars, bookVars, screenVars, swept>>

EditBook ==
  /\ page = "recipients"
  /\ \/ \E e \in Entries : ClickAdd(e)
     \/ \E r \in Recipients :
          \/ StartEdit(r) \/ StopEdit(r) \/ ClickSave(r) \/ ClickRemove(r)
          \/ \E e \in Entries : EditDraft(r, e)
  /\ UNCHANGED <<lifecycleVars, screenVars, swept>>

\* A fetch lands; a row that is gone takes its hooks and drafts with it.
LandFetch(k) ==
  /\ Land(k)
  /\ LET data == queries[k].got
         gone(c) == /\ k = "queue" /\ c.latest /\ c.kind \in {"cancel", "sendNow"}
                    /\ c.arg \notin RowIds(data)
     IN  /\ calls' = [i \in DOMAIN calls |-> [calls[i] EXCEPT !.latest = @ /\ ~gone(calls[i])]]
         /\ drafts' = IF k = "recipients"
                      THEN [r \in Recipients |-> IF data[r] = None THEN None ELSE drafts[r]]
                      ELSE drafts
  /\ UNCHANGED <<lifecycleVars, lost, book, screenVars, swept>>

Lose ==
  /\ \/ \E k \in Open : FetchFails(k)
     \/ \E i \in DOMAIN calls : CallLost(i)
  /\ UNCHANGED <<lifecycleVars, bookVars, screenVars, swept>>

\* A cancellation of m still stands.
Over(m) == status[m] \in {"CANCELED", "DELETED"}

\* The answer of call i arrives; a failure gives the form back as it was.
SettleCall(i) ==
  /\ IF calls[i].kind \in {"add", "save", "remove"}
     THEN SettleBook(i, Open)
     ELSE Settle(i, Open) /\ UNCHANGED bookVars
  /\ form' = IF calls[i].kind # "schedule" THEN form
             ELSE IF calls[i].pc = "ok" THEN [form EXCEPT !.landed = TRUE]
             ELSE [form EXCEPT !.phase = "idle"]
  /\ confirmed' = IF calls[i].kind = "cancel" /\ calls[i].pc = "ok" /\ Over(calls[i].arg)
                  THEN confirmed \cup {calls[i].arg} ELSE confirmed
  /\ UNCHANGED <<lifecycleVars, page, settings, body, swept>>

-----------------------------------------------------------------------------

Handle(i) ==
  \/ ServeSchedule(i) \/ ServeRead(i) \/ ServeWrite(i) \/ ServeClear(i)
  \/ ServePatch(i) \/ ServeBook(i) \/ SettleCall(i)

Fetch(k) == ServeFetch(k) \/ (k = "queue" /\ ServePage) \/ LandFetch(k)

DashboardNext ==
  \/ \E i \in DOMAIN calls : Handle(i)
  \/ \E k \in Keys : Fetch(k)
  \/ GatewayClaims \/ GatewayReports
  \/ SweepReads \/ SweepRequeues
  \/ Type \/ Submit \/ PlaneLeft \/ SentTimer
  \/ Click \/ EditBook
  \/ Lose

\* Requests are served and answered, the intervals of the polls come.
DashboardSpec ==
  /\ DashboardInit /\ [][DashboardNext]_vars
  /\ WF_vars(\E i \in 1 .. Len(calls) : Handle(i))
  /\ \A k \in Keys : WF_vars(Fetch(k))

-----------------------------------------------------------------------------

\* Down the page of the scheduler the positions increase, although the messages are
\* read after the projection they get their positions from (message-dto.ts:18).
PositionsIncrease ==
  Shown("queue") =>
    LET rows   == queries["queue"].data
        placed == {i \in DOMAIN rows : rows[i].position # None}
    IN  \A i, j \in placed : i < j => rows[i].position < rows[j].position

\* One press of Schedule makes one message: a text is scheduled twice only when the
\* call or its answer was lost (compose-form.tsx:53).
ScheduledOnce ==
  \A m, n \in Messages : m # n /\ body[m] = body[n] /\ body[m] # 0 => "schedule" \in lost

\* Once the page said that a message was cancelled, no later answer shows it in the
\* queue, also when it was read before the cancellation, unless a sweep has put it
\* back there: the page undoes no cancellation by itself (api/messages.ts:36).
NoFlicker ==
  [][queries'["queue"].data # queries["queue"].data
     => confirmed \cap RowIds(queries'["queue"].data) = {}]_vars

Missed(k) == lost \cap {k, "joined"} # {} \/ \E c \in lost \ (Keys \cup {"joined"}) : k \in Stale(c)

\* Whatever is clicked and sent meanwhile, what an open page shows comes to be what
\* the server has.  Only a page that does not poll may miss it, after a lost
\* request or when its first fetch was joined (app.tsx:12, keys.ts:17).
ScreenCatchesUp ==
  \A k \in Keys :
    []<>(k \in Open => queries[k].data = View(k) \/ (k \notin Polled /\ Missed(k)))
=============================================================================
