------------------------------ MODULE Gateway ------------------------------
(***************************************************************************)
(* The gateway on a Mac (apps/gateway/src): the loop that claims, sends    *)
(* and reports (runner/index.ts, runner/lease.ts), the watchers that       *)
(* follow a sent message in chat.db (runner/watchers.ts,                   *)
(* drivers/applescript.ts, macos/chatdb.ts), and the report requests they  *)
(* have on the wire (server/client.ts).  What the server makes of a        *)
(* request is not decided here: System composes the two.                   *)
(*                                                                         *)
(* The gateways' permissions are Heartbeat's subject; here they are        *)
(* granted.                                                                *)
(***************************************************************************)
EXTENDS MessageTable, Sequences

CONSTANTS
  Gateways,       \* the gateway processes, each on a Mac of its own
  Receipts,       \* how far Messages may get with a message it took
  Faults          \* what may go wrong beside a failing send

ASSUME ReceiptAssumption == Receipts \subseteq {"sent", "delivered", "read", "error"}
ASSUME FaultAssumption == Faults \subseteq {"crash", "lose", "reject", "unfound", "mixed", "timeout"}

VARIABLES
  gateways,       \* the loop of each gateway
  chat,           \* the row of each attempt's message in its Mac's chat.db
  watches,        \* the watcher of each attempt
  wire            \* report requests the server has not processed

gatewayVars == <<gateways, chat, watches, wire>>

Attempts == 1..MaxClaims

\* "claim" is the long poll, "send" the osascript call, "find" the search in
\* chat.db; in the others the loop awaits the answer to a report.  "heard" says
\* that the server's open handler answers this process and not a dead one.
Awaiting == {"ack", "reattach", "record", "fail"}

Loop == [pc       : {"down", "claim", "send", "find"} \cup Awaiting,
         lease    : Lease \cup {Null},
         heard    : BOOLEAN,
         stopping : BOOLEAN]

Down == [pc |-> "down", lease |-> Null, heard |-> FALSE, stopping |-> FALSE]

\* The row Messages.app keeps of a sent message, by how far it got, in the
\* chat.db of the Mac it left.
ChatStates == {"none", "created", "sent", "delivered", "read", "error"}

ChatRow == [state : ChatStates, mac : OrNull(Gateways)]

NoRow == [state |-> "none", mac |-> Null]

ChatRank == [none |-> 0, created |-> 1, sent |-> 2, delivered |-> 3, read |-> 4, error |-> 0]

\* A watcher polls while "on"; its reports leave one at a time ("chain"), the
\* first of them on the wire while "busy".
Watch == [on    : BOOLEAN,
          by    : Gateways \cup {Null},
          lease : Lease \cup {Null},
          guid  : OrNull(Nat),
          told  : SUBSET {"SENT", "DELIVERED"},
          chain : Seq({"SENT", "DELIVERED", "RECEIVED", "FAILED"}),
          busy  : BOOLEAN]

NoWatch == [on |-> FALSE, by |-> Null, lease |-> Null, guid |-> Null,
            told |-> {}, chain |-> <<>>, busy |-> FALSE]

\* POST /messages/:id/status, from the loop or from a watcher; "awaited" is
\* cleared when nobody waits for the answer any more.
Request == [from : Gateways, by : {"loop", "watch"}, msg : Messages, token : Nat,
            status : MessageStatuses, guid : OrNull(Nat), awaited : BOOLEAN]

GatewayTypeOK ==
  /\ gateways \in [Gateways -> Loop]
  /\ chat \in [Attempts -> ChatRow]
  /\ watches \in [Attempts -> Watch]
  /\ wire \in SUBSET Request

GatewayInit ==
  /\ gateways = [g \in Gateways |-> [Down EXCEPT !.pc = "claim"]]
  /\ chat = [t \in Attempts |-> NoRow]
  /\ watches = [t \in Attempts |-> NoWatch]
  /\ wire = {}

\* reportStatus.
Post(g, by, l, status, guid) ==
  [from |-> g, by |-> by, msg |-> l.msg, token |-> l.token, status |-> status,
   guid |-> guid, awaited |-> TRUE]

\* The loop goes to a state in which it awaits the answer to a report.
Ask(g, pc, status, guid) ==
  /\ gateways' = [gateways EXCEPT ![g].pc = pc]
  /\ wire' = wire \cup {Post(g, "loop", gateways[g].lease, status, guid)}

\* The loop's next turn, or the end of a process that was asked to stop.
Turn(g) == IF gateways[g].stopping THEN Down ELSE [Down EXCEPT !.pc = "claim"]

\* handleLease: the claim is acknowledged before anything else.
BeginLease(g, l) ==
  /\ gateways' = [gateways EXCEPT ![g].pc = "ack", ![g].lease = l, ![g].heard = FALSE]
  /\ wire' = wire \cup {Post(g, "loop", l, "ACCEPTED", Null)}
  /\ UNCHANGED <<chat, watches>>

\* The double-send guard: a previous attempt left its GUID.
AlreadySent(l) == l.guid # Null

\* A mutant: DELIVERED is taken for the last thing that can be observed.
NothingFollows(status) == status \in {"DELIVERED", "RECEIVED", "FAILED"}

\* What ends a watcher (watchers.ts, and tick's early returns).
EndsWatch(status) == status \in {"RECEIVED", "FAILED"}

StartWatch(g, guid) ==
  LET l == gateways[g].lease IN
  watches' = [watches EXCEPT ![l.token] =
    [NoWatch EXCEPT !.on = TRUE, !.by = g, !.lease = l, !.guid = guid]]

\* The loop got an answer to w; reportStatus returns alike for a 202, for a
\* stale token and for a rejection, which it only logs.
LoopAnswered(g, w) ==
  LET l == gateways[g].lease IN
  \/ /\ gateways[g].pc = "ack" /\ AlreadySent(l)
     /\ gateways' = [gateways EXCEPT ![g].pc = "reattach"]
     /\ wire' = (wire \ {w}) \cup {Post(g, "loop", l, "SENT", l.guid)}
     /\ UNCHANGED watches
  \/ /\ gateways[g].pc = "ack" /\ ~AlreadySent(l)
     /\ gateways' = [gateways EXCEPT ![g].pc = "send"]
     /\ wire' = wire \ {w}
     /\ UNCHANGED watches
  \/ /\ gateways[g].pc \in {"reattach", "record"}
     /\ StartWatch(g, w.guid)
     /\ gateways' = [gateways EXCEPT ![g] = Turn(g)]
     /\ wire' = wire \ {w}
  \/ /\ gateways[g].pc = "fail"
     /\ gateways' = [gateways EXCEPT ![g] = Turn(g)]
     /\ wire' = wire \ {w}
     /\ UNCHANGED watches

\* A watcher's report is answered: the next of its chain may leave.
WatchAnswered(w) ==
  /\ watches' = [watches EXCEPT ![w.token].chain = Tail(@), ![w.token].busy = FALSE]
  /\ wire' = wire \ {w}
  /\ UNCHANGED gateways

\* Whoever waits for the answer to w continues.
Answered(w) ==
  /\ \/ ~w.awaited /\ wire' = wire \ {w} /\ UNCHANGED <<gateways, watches>>
     \/ w.awaited /\ w.by = "loop" /\ LoopAnswered(w.from, w)
     \/ w.awaited /\ w.by = "watch" /\ WatchAnswered(w)
  /\ UNCHANGED chat

\* fetch throws ServerUnavailableError although the request may still be
\* processed: the loop drops the lease, except that a failed report of a GUID is
\* caught by the catch around send and becomes a FAILED report.
LoopBroken(w) ==
  LET g == w.from
      l == gateways[g].lease
      left == (wire \ {w}) \cup {[w EXCEPT !.awaited = FALSE]} IN
  IF gateways[g].pc = "record"
  THEN /\ gateways' = [gateways EXCEPT ![g].pc = "fail"]
       /\ wire' = left \cup {Post(g, "loop", l, "FAILED", Null)}
       /\ UNCHANGED watches
  ELSE /\ gateways' = [gateways EXCEPT ![g] = Turn(g)]
       /\ wire' = left
       /\ UNCHANGED watches

\* The watcher's .catch: the report is dropped, the chain goes on.
WatchBroken(w) ==
  /\ watches' = [watches EXCEPT ![w.token].chain = Tail(@), ![w.token].busy = FALSE]
  /\ wire' = (wire \ {w}) \cup {[w EXCEPT !.awaited = FALSE]}
  /\ UNCHANGED gateways

Break(w) ==
  /\ "lose" \in Faults /\ w.awaited
  /\ IF w.by = "loop" THEN LoopBroken(w) ELSE WatchBroken(w)
  /\ UNCHANGED chat

\* A request nobody waits for never arrives.
Drop(w) ==
  /\ ~w.awaited
  /\ wire' = wire \ {w}
  /\ UNCHANGED <<gateways, chat, watches>>

\* osascript fails or is killed before Messages took the message.
SendFails(g) ==
  /\ gateways[g].pc = "send"
  /\ Ask(g, "fail", "FAILED", Null)
  /\ UNCHANGED <<chat, watches>>

\* Messages takes the message; its row appears in chat.db.
GoesOut(g) ==
  /\ gateways[g].pc = "send"
  /\ chat' = [chat EXCEPT ![gateways[g].lease.token] =
                              [state |-> "created", mac |-> g]]
  /\ gateways' = [gateways EXCEPT ![g].pc = "find"]
  /\ UNCHANGED <<watches, wire>>

\* The rows findSentMessage may take for attempt t: its own, or the newest
\* other one sent from this Mac to this handle, while the own row is not yet in
\* the snapshot.  How far the window reaches back is left open.
Candidates(g, t) ==
  {t} \cup {u \in Attempts : "mixed" \in Faults /\ u < t /\ chat[u].mac = g}

\* findSentMessage finds a row: its GUID travels with ACCEPTED.
Correlate(g) ==
  /\ gateways[g].pc = "find"
  /\ \E guid \in Candidates(g, gateways[g].lease.token) : Ask(g, "record", "ACCEPTED", guid)
  /\ UNCHANGED <<chat, watches>>

\* Ten searches find nothing, chat.db cannot be read, or osascript was killed
\* after the message left: send throws all the same.
Uncorrelated(g) ==
  /\ "unfound" \in Faults
  /\ gateways[g].pc = "find"
  /\ Ask(g, "fail", "FAILED", Null)
  /\ UNCHANGED <<chat, watches>>

\* Messages.app moves the row of attempt t on.
Deliver(t) ==
  /\ \E s \in Receipts :
       /\ chat[t].state \in {"created", "sent", "delivered"}
       /\ ChatRank[s] > ChatRank[chat[t].state] \/ (s = "error" /\ chat[t].state = "created")
       /\ chat' = [chat EXCEPT ![t].state = s]
  /\ UNCHANGED <<gateways, watches, wire>>

\* The statuses one poll of the row reports, in the order they are observed.
Observed(t) ==
  LET s == chat[watches[t].guid].state
      told == watches[t].told IN
  IF s = "error" THEN <<"FAILED">>
  ELSE (IF ChatRank[s] >= 2 /\ "SENT" \notin told THEN <<"SENT">> ELSE <<>>)
       \o (IF ChatRank[s] >= 3 /\ "DELIVERED" \notin told THEN <<"DELIVERED">> ELSE <<>>)
       \o (IF s = "read" THEN <<"RECEIVED">> ELSE <<>>)

\* tick: a poll of chat.db that has something to report.
WatchTick(t) ==
  LET seen == Observed(t)
      all  == {seen[i] : i \in DOMAIN seen} IN
  /\ watches[t].on
  /\ seen # <<>>
  /\ watches' = [watches EXCEPT
       ![t].chain = @ \o seen,
       ![t].told  = @ \cup (all \cap {"SENT", "DELIVERED"}),
       ![t].on    = \A s \in all : ~EndsWatch(s)]
  /\ UNCHANGED <<gateways, chat, wire>>

\* The next report of the chain leaves once the one before it was answered.
WatchPost(t) ==
  LET w == watches[t] IN
  /\ w.chain # <<>> /\ ~w.busy
  /\ wire' = wire \cup {Post(w.by, "watch", w.lease, Head(w.chain), Null)}
  /\ watches' = [watches EXCEPT ![t].busy = TRUE]
  /\ UNCHANGED <<gateways, chat>>

\* CHATDB_WATCH_TIMEOUT_MS, or chat.db cannot be read any more: polling ends.
WatchGivesUp(t) ==
  /\ "timeout" \in Faults
  /\ watches[t].on
  /\ watches' = [watches EXCEPT ![t].on = FALSE]
  /\ UNCHANGED <<gateways, chat, wire>>

\* The watchers of a process that ends; so do their unsent reports.
StopWatches(g) ==
  watches' = [t \in Attempts |->
    IF watches[t].by = g THEN [watches[t] EXCEPT !.on = FALSE, !.chain = <<>>, !.busy = FALSE]
    ELSE watches[t]]

\* Requests already sent may still arrive.
Unheard(g) == {IF w.from = g THEN [w EXCEPT !.awaited = FALSE] ELSE w : w \in wire}

\* The process dies, or the shutdown deadline cuts it off.
Crash(g) ==
  /\ "crash" \in Faults
  /\ gateways[g].pc # "down"
  /\ gateways' = [gateways EXCEPT ![g] = Down]
  /\ wire' = Unheard(g)
  /\ StopWatches(g)
  /\ UNCHANGED chat

\* stop: an idle poll is dropped at once, a lease being handled is finished.
Stop(g) ==
  /\ "crash" \in Faults
  /\ gateways[g].pc # "down" /\ ~gateways[g].stopping
  /\ gateways' = [gateways EXCEPT
       ![g] = IF @.pc = "claim" THEN Down ELSE [@ EXCEPT !.stopping = TRUE]]
  /\ UNCHANGED <<chat, watches, wire>>

\* stopAll, once the loop has ended, and the exit of the process.
Exit(g) ==
  /\ gateways[g].pc = "down"
  /\ \E t \in Attempts : watches[t].by = g /\ (watches[t].on \/ watches[t].chain # <<>>)
  /\ wire' = Unheard(g)
  /\ StopWatches(g)
  /\ UNCHANGED <<gateways, chat>>

\* The process is started again; what it watched is forgotten.
Start(g) ==
  /\ gateways[g].pc = "down"
  /\ \A t \in Attempts : watches[t].by = g => ~watches[t].on /\ watches[t].chain = <<>>
  /\ gateways' = [gateways EXCEPT ![g].pc = "claim"]
  /\ UNCHANGED <<chat, watches, wire>>

GatewayStep(g) ==
  \/ SendFails(g) \/ GoesOut(g) \/ Correlate(g) \/ Uncorrelated(g)
  \/ Crash(g) \/ Stop(g) \/ Exit(g) \/ Start(g)

WatcherStep(t) == Deliver(t) \/ WatchTick(t) \/ WatchPost(t)

WireStep(w) == Break(w) \/ Drop(w)
=============================================================================
