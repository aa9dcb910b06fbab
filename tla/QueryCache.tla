----------------------------- MODULE QueryCache -----------------------------
(***************************************************************************)
(* How the dashboard's pages read and write: the queries and mutations of  *)
(* apps/web/src/api and the query client of app.tsx.  A query keeps what   *)
(* it read last and runs one fetch at a time; a mutation that succeeded    *)
(* invalidates the keys it made stale, which cancels a fetch under way     *)
(* and starts another.                                                     *)
(***************************************************************************)
EXTENDS FiniteSets, Naturals, Sequences

CONSTANTS
  None,           \* no data, null
  MaxClicks,      \* bound: the mutations of a behaviour
  MaxLosses       \* bound: the requests that get lost

ASSUME CacheAssumption == MaxClicks \in Nat /\ MaxLosses \in Nat

VARIABLES
  queries,        \* the query of each key
  calls,          \* the mutations, in the order they were sent
  lost            \* history: the keys and kinds of call of which one was lost, and
                  \* "joined" when a refetch joined a first fetch

cacheVars == <<queries, calls, lost>>

Keys == {"queue", "list", "stats", "settings", "recipients"}

\* refetchInterval; the others are read again only when invalidated.
Polled == {"queue", "list", "stats"}

\* A page that is opened fetches.  A fetch is "asked" until the server begins to
\* answer, "half" when it has made the first of two reads, "read" on its way back.
Mounted == [fetch |-> "asked", got |-> None, data |-> None, failed |-> FALSE]

CacheInit == queries = [k \in Keys |-> Mounted] /\ calls = <<>> /\ lost = {}

\* The server may begin to answer: a poll, or a fetch that was asked for.
Due(k) == queries[k].fetch = "asked" \/ (queries[k].fetch = "idle" /\ k \in Polled)

Take(k, stage, view) ==
  queries' = [queries EXCEPT ![k].fetch = stage, ![k].got = view]

Land(k) ==
  /\ queries[k].fetch = "read"
  /\ queries' = [queries EXCEPT ![k] =
       [fetch |-> "idle", got |-> None, data |-> @.got, failed |-> FALSE]]

Loses(what) ==
  /\ what \notin lost /\ Cardinality(lost \ {"joined"}) < MaxLosses
  /\ lost' = lost \cup {what}

\* The fetch and its one repetition fail; what was read before stays.
FetchFails(k) ==
  /\ queries[k].fetch # "idle"
  /\ Loses(k)
  /\ queries' = [queries EXCEPT ![k].fetch = "idle", ![k].got = None, ![k].failed = TRUE]
  /\ UNCHANGED calls

\* A mutant: whoever asks while a fetch is under way joins it.
Joined(q) == IF q.fetch = "idle" THEN [q EXCEPT !.fetch = "asked"] ELSE q

\* invalidateQueries refetches with cancelRefetch, which joins only a first fetch.
Joins(q) == q.data = None /\ q.fetch # "idle"

Refetched(q) ==
  IF Joins(q) THEN q ELSE [q EXCEPT !.fetch = "asked", !.got = None]

-----------------------------------------------------------------------------

\* A mutant: only what the settings re-time is read again.
StaleTimes(kind) ==
  CASE kind \in {"schedule", "cancel", "sendNow", "patch"} -> {"queue", "stats"}
    [] kind = "retry"                    -> {"queue", "list", "stats"}
    [] kind = "clear"                    -> Keys
    [] kind \in {"add", "save", "remove"} -> {"recipients", "queue", "list"}

\* The keys a successful mutation invalidates.
Stale(kind) ==
  CASE kind \in {"schedule", "cancel", "sendNow"} -> {"queue", "stats"}
    [] kind = "retry"                    -> {"queue", "list", "stats"}
    [] kind = "clear"                    -> Keys
    [] kind = "patch"                    -> {"settings", "queue", "stats"}
    [] kind \in {"add", "save", "remove"} -> {"recipients", "queue", "list"}

\* mutate: a hook reports the progress of the latest call made through it.
Send(hook, kind, arg) ==
  /\ Len(calls) < MaxClicks
  /\ calls' = Append([i \in DOMAIN calls |-> [calls[i] EXCEPT !.latest = @ /\ calls[i].hook # hook]],
                     [hook |-> hook, kind |-> kind, arg |-> arg, pc |-> "sent", latest |-> TRUE])
  /\ UNCHANGED <<queries, lost>>

\* isPending
Pending(hook) == \E i \in DOMAIN calls : calls[i].hook = hook /\ calls[i].latest

Arrived(i, kind) == calls[i].pc = "sent" /\ calls[i].kind = kind

\* The server processed call i, and its answer is on the way.
Answer(i, ok) ==
  /\ calls' = [calls EXCEPT ![i].pc = IF ok THEN "ok" ELSE "error"]
  /\ UNCHANGED <<queries, lost>>

\* The request does not arrive, or its answer does not: fetch throws.
CallLost(i) ==
  /\ calls[i].pc \in {"sent", "ok"}
  /\ Loses(calls[i].kind)
  /\ calls' = [calls EXCEPT ![i].pc = "error"]
  /\ UNCHANGED queries

Done == [hook |-> None, kind |-> None, arg |-> None, pc |-> "done", latest |-> FALSE]

\* onSuccess and onError for the keys the page shows; onError only says why.
Settle(i, open) ==
  LET stale == IF calls[i].pc = "ok" THEN open \cap Stale(calls[i].kind) ELSE {} IN
  /\ calls[i].pc \in {"ok", "error"}
  /\ calls' = [calls EXCEPT ![i] = Done]
  /\ queries' = [k \in Keys |-> IF k \in stale THEN Refetched(queries[k]) ELSE queries[k]]
  /\ lost' = IF \E k \in stale : Joins(queries[k]) THEN lost \cup {"joined"} ELSE lost
=============================================================================
