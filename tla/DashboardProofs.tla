--------------------------- MODULE DashboardProofs ---------------------------
(***************************************************************************)
(* The dashboard, for every number of messages, clicks and lost requests:  *)
(* its types, the order of the queue it shows, that a text is scheduled    *)
(* once, and that a cancelled message does not come back.  First the       *)
(* mutations and the fetches that are under way, then one invariant for    *)
(* each of the four.                                                       *)
(***************************************************************************)
EXTENDS Dashboard, FiniteSetTheorems, TLAPS

-----------------------------------------------------------------------------
(* What is under way *)

Stages == {"idle", "asked", "half", "read"}

Kinds == {"schedule", "cancel", "sendNow", "retry", "clear", "patch", "add", "save", "remove"}

Hooks == (Kinds \cup {"rate", "budget"}) \X (Messages \cup Recipients \cup {None})

RowPatches == UNION {[S -> Names \cup Handles] : S \in SUBSET {"name", "handle"}}

Saves == [id : Recipients, patch : RowPatches]

SettingsPatches ==
  [paused : BOOLEAN] \cup [sendIntervalSeconds : {60}] \cup [maxAttempts : {1}]

Args == Messages \cup 0 .. MaxTexts \cup SettingsPatches \cup Entries \cup Saves
        \cup Recipients \cup {None}

Calls == [hook : Hooks \cup {None}, kind : Kinds \cup {None}, arg : Args,
          pc : {"sent", "found", "ok", "error", "done"}, latest : BOOLEAN]

\* A patch writes names and handles, each where it belongs.
Sorted(patch) ==
  /\ "name" \in DOMAIN patch => patch["name"] \in Names
  /\ "handle" \in DOMAIN patch => patch["handle"] \in Handles

\* What a call carries is what its kind says; the server reads before it writes for
\* three of them.
Fits(c) ==
  /\ c.pc = "found" => c.kind \in {"cancel", "sendNow", "retry"}
  /\ c.kind = "schedule" => c.arg \in 0 .. MaxTexts
  /\ c.kind \in {"cancel", "sendNow", "retry"} => c.arg \in Messages
  /\ c.kind = "patch" => c.arg \in SettingsPatches
  /\ c.kind = "add" => c.arg \in Entries
  /\ c.kind = "save" => c.arg \in Saves /\ Sorted(c.arg.patch)
  /\ c.kind = "remove" => c.arg \in Recipients

CallsFit ==
  /\ calls \in Seq(Calls)
  /\ \A i \in DOMAIN calls : calls[i].pc # "done" => Fits(calls[i])

\* A query holds answers to its own key.
Holds(k, q) ==
  /\ q = [fetch |-> q.fetch, got |-> q.got, data |-> q.data, failed |-> q.failed]
  /\ q.fetch \in Stages
  /\ q.data # None => q.data \in Answers(k)
  /\ q.fetch = "half" => k = "queue" /\ q.got \in Projections
  /\ q.fetch = "read" => q.got \in Answers(k)
  /\ q.fetch \in {"idle", "asked"} => q.got = None

QueriesHold ==
  /\ queries = [k \in Keys |-> queries[k]]
  /\ \A k \in Keys : Holds(k, queries[k])

TypeInv == DashboardTypeOK /\ CallsFit /\ QueriesHold

-----------------------------------------------------------------------------
(* The invariants *)

\* Positions grow with the number of the message, or with the place in the list.
Climbs(projection) ==
  \A m, n \in DOMAIN projection : m < n => projection[m] < projection[n]

RowsClimb(rows) ==
  \A i, j \in DOMAIN rows :
    i < j /\ rows[i].position # None /\ rows[j].position # None
      => rows[i].position < rows[j].position

\* The projection that was read first, the rows on their way, and those shown.
PlacesInv ==
  LET q == queries["queue"] IN
  /\ q.fetch = "half" => Climbs(q.got)
  /\ q.fetch = "read" => RowsClimb(q.got)
  /\ q.data # None => RowsClimb(q.data)

\* A text that is being scheduled.
Carries(i, text) == calls[i].pc = "sent" /\ calls[i].kind = "schedule" /\ calls[i].arg = text

\* A text that no message has, and no call will give to one.
Unused(text) ==
  /\ \A m \in Messages : body[m] # text
  /\ \A i \in DOMAIN calls : ~Carries(i, text)

\* No call failed.  Of the texts typed so far each is in one call or in one message,
\* and the one in the form is in none unless it is being sent.
Once ==
  /\ \A i \in DOMAIN calls : calls[i].kind = "schedule" => calls[i].pc # "error"
  /\ \A m \in Messages : body[m] <= form.typed
  /\ \A i \in DOMAIN calls : \A t \in 0 .. MaxTexts :
       Carries(i, t) => 0 < t /\ t <= form.typed /\ \A m \in Messages : body[m] # t
  /\ \A i, j \in DOMAIN calls : \A t \in 0 .. MaxTexts : Carries(i, t) /\ Carries(j, t) => i = j
  /\ \A m, n \in Messages : body[m] = body[n] /\ body[m] # 0 => m = n
  /\ form.text <= form.typed
  /\ form.phase # "sending" /\ form.text # 0 => Unused(form.text)

OnceInv == "schedule" \in lost \/ Once

\* A cancellation is asked for on the page that shows the queue, a retry on another;
\* and as long as a cancellation the page was told of stands, no list under way has the
\* message.
FlickerInv ==
  /\ page # "schedule" => confirmed = {}
  /\ \A i \in DOMAIN calls : calls[i].pc # "done" =>
       /\ calls[i].kind = "cancel" => page = "schedule" /\ queries["queue"].data # None
       /\ calls[i].kind = "retry" => page = "dashboard"
  /\ \A m \in confirmed :
       Over(m) /\ (queries["queue"].fetch = "read" => m \notin RowIds(queries["queue"].got))

-----------------------------------------------------------------------------
(* The order of the queue *)

Below(S, m) == Cardinality({n \in S : n < m})

\* Counting the smaller members of a set is strictly increasing in it.
LEMMA BelowClimbs ==
  ASSUME NEW S \in SUBSET Nat, IsFiniteSet(S)
  PROVE  /\ \A m \in Nat : Below(S, m) \in 0 .. Cardinality(S)
         /\ \A m \in S : Below(S, m) < Cardinality(S)
         /\ \A m, n \in S : m < n => Below(S, m) < Below(S, n)
<1>0. Cardinality(S) \in Nat
  BY FS_CardinalityType
<1>1. ASSUME NEW m \in Nat
      PROVE  /\ IsFiniteSet({k \in S : k < m})
             /\ Below(S, m) \in Nat /\ Below(S, m) <= Cardinality(S)
             /\ m \in S => Below(S, m) # Cardinality(S)
  <2>1. {k \in S : k < m} \in SUBSET S
    OBVIOUS
  <2>2. /\ IsFiniteSet({k \in S : k < m})
        /\ Cardinality({k \in S : k < m}) <= Cardinality(S)
        /\ Cardinality(S) = Cardinality({k \in S : k < m}) => S = {k \in S : k < m}
    BY <2>1, FS_Subset
  <2>3. Cardinality({k \in S : k < m}) \in Nat
    BY <2>2, FS_CardinalityType
  <2>4. m \in S => S # {k \in S : k < m}
    OBVIOUS
  <2>5. QED
    BY <2>2, <2>3, <2>4 DEF Below
<1>2. ASSUME NEW m \in S, NEW n \in S, m < n
      PROVE  Below(S, m) < Below(S, n)
  <2>1. m \in Nat /\ n \in Nat
    OBVIOUS
  <2>2. {k \in S : k < m} \in SUBSET {k \in S : k < n}
    <3>1. SUFFICES ASSUME NEW k \in S, k < m
                   PROVE  k < n
      OBVIOUS
    <3>2. k \in Nat
      OBVIOUS
    <3>3. QED
      BY <1>2, <2>1, <3>1, <3>2
  <2>3. IsFiniteSet({k \in S : k < n})
    BY <1>1, <2>1
  <2>4. /\ Below(S, m) <= Below(S, n)
        /\ Below(S, n) = Below(S, m) => {k \in S : k < n} = {k \in S : k < m}
    BY <2>2, <2>3, FS_Subset DEF Below
  <2>5. {k \in S : k < n} # {k \in S : k < m}
    BY <1>2, <2>1
  <2>6. Below(S, m) \in Nat /\ Below(S, n) \in Nat
    BY <1>1, <2>1
  <2>7. QED
    BY <2>4, <2>5, <2>6
<1>3. ASSUME NEW m \in Nat
      PROVE  Below(S, m) \in 0 .. Cardinality(S)
  <2>1. Below(S, m) \in Nat /\ Below(S, m) <= Cardinality(S)
    BY <1>1
  <2>2. QED
    BY <1>0, <2>1
<1>4. \A m \in S : Below(S, m) < Cardinality(S)
  <2>1. TAKE m \in S
  <2>2. m \in Nat
    OBVIOUS
  <2>3. Below(S, m) \in Nat /\ Below(S, m) <= Cardinality(S) /\ Below(S, m) # Cardinality(S)
    BY <1>1, <2>2
  <2>4. QED
    BY <1>0, <2>3
<1>5. QED
  BY <1>2, <1>3, <1>4

\* A finite set of numbers can be listed in order, each member once.
LEMMA ListsInOrder ==
  ASSUME NEW S \in SUBSET Nat, IsFiniteSet(S)
  PROVE  \E l \in [1 .. Cardinality(S) -> S] : \A i, j \in DOMAIN l : i < j => l[i] < l[j]
<1> DEFINE N == Cardinality(S)
           rank == [m \in S |-> Below(S, m) + 1]
           l == [i \in 1 .. N |-> CHOOSE m \in S : rank[m] = i]
<1>0. N \in Nat
  BY FS_CardinalityType
<1>1. \A m \in S : rank[m] \in 1 .. N
  BY <1>0, BelowClimbs
<1>2. \A m, n \in S : m < n => rank[m] < rank[n]
  BY <1>0, BelowClimbs
<1>3. \A m, n \in S : rank[m] = rank[n] => m = n
  <2>1. SUFFICES ASSUME NEW m \in S, NEW n \in S, rank[m] = rank[n], m # n
                 PROVE  FALSE
    OBVIOUS
  <2>2. m < n \/ n < m
    BY <2>1
  <2>3. rank[m] \in 1 .. N /\ rank[n] \in 1 .. N
    BY <1>1
  <2>4. QED
    BY <1>0, <1>2, <2>1, <2>2, <2>3
<1>4. rank \in Injection(S, 1 .. N)
  <2>1. rank \in [S -> 1 .. N]
    BY <1>1
  <2>2. DOMAIN rank = S
    OBVIOUS
  <2>3. QED
    BY <1>3, <2>1, <2>2 DEF Injection, IsInjective
<1>5. IsFiniteSet(1 .. N) /\ Cardinality(1 .. N) = N
  BY <1>0, FS_Interval
<1>6. rank \in Surjection(S, 1 .. N)
  BY <1>4, <1>5, FS_Injection
<1>7. \A i \in 1 .. N : \E m \in S : rank[m] = i
  BY <1>6 DEF Surjection
<1>8. \A i \in 1 .. N : l[i] \in S /\ rank[l[i]] = i
  BY <1>7
<1>9. l \in [1 .. N -> S]
  BY <1>8
<1>10. ASSUME NEW i \in 1 .. N, NEW j \in 1 .. N, i < j
       PROVE  l[i] < l[j]
  <2>1. l[i] \in Nat /\ l[j] \in Nat
    BY <1>8
  <2>2. rank[l[i]] = i /\ rank[l[j]] = j
    BY <1>8
  <2>3. CASE l[j] < l[i]
    <3>1. rank[l[j]] < rank[l[i]]
      BY <1>2, <1>8, <2>3
    <3>2. QED
      BY <1>0, <1>10, <2>2, <3>1
  <2>4. CASE l[i] = l[j]
    <3>1. i = j
      BY <2>2, <2>4
    <3>2. QED
      BY <1>0, <1>10, <3>1
  <2>5. QED
    BY <2>1, <2>3, <2>4
<1>11. QED
  BY <1>9, <1>10

\* What With counts is finite, and its members are numbers.
LEMMA Counted ==
  ASSUME NEW S
  PROVE  /\ With(S) \in SUBSET Messages /\ With(S) \in SUBSET Nat
         /\ IsFiniteSet(With(S)) /\ Cardinality(With(S)) \in 0 .. Cardinality(Messages)
         /\ Cardinality(Messages) \in Nat
<1>1. IsFiniteSet(Messages) /\ Messages \in SUBSET Nat /\ Cardinality(Messages) \in Nat
  <2>1. IsFiniteSet(Messages) /\ Messages = 1 .. Cardinality(Messages)
    BY DashboardAssumption
  <2>2. Cardinality(Messages) \in Nat
    BY <2>1, FS_CardinalityType
  <2>3. QED
    BY <2>1, <2>2
<1>2. With(S) \in SUBSET Messages
  BY DEF With
<1>3. IsFiniteSet(With(S)) /\ Cardinality(With(S)) <= Cardinality(Messages)
  BY <1>1, <1>2, FS_Subset
<1>4. Cardinality(With(S)) \in Nat
  BY <1>3, FS_CardinalityType
<1>5. Cardinality(With(S)) \in 0 .. Cardinality(Messages)
  BY <1>1, <1>3, <1>4
<1>6. With(S) \in SUBSET Nat
  BY <1>1, <1>2
<1>7. QED
  BY <1>1, <1>2, <1>3, <1>5, <1>6

\* The queue is listed in order.
LEMMA QueuedInOrder ==
  /\ Queued \in [1 .. Cardinality(With({"QUEUED"})) -> With({"QUEUED"})]
  /\ \A i, j \in DOMAIN Queued : i < j => Queued[i] < Queued[j]
<1> DEFINE S == With({"QUEUED"})
<1>1. S \in SUBSET Nat /\ IsFiniteSet(S)
  BY Counted
<1> HIDE DEF S
<1>2. \E l \in [1 .. Cardinality(S) -> S] : \A i, j \in DOMAIN l : i < j => l[i] < l[j]
  BY <1>1, ListsInOrder
<1>3. \E l \in Listings : \A i, j \in DOMAIN l : i < j => l[i] < l[j]
  BY <1>2 DEF Listings, S
<1>4. Queued \in Listings /\ \A i, j \in DOMAIN Queued : i < j => Queued[i] < Queued[j]
  BY <1>3, Zenon DEF Queued
<1>5. QED
  BY <1>4 DEF Listings

-----------------------------------------------------------------------------
(* The steps of a call *)

Same(i) ==
  /\ calls'[i].kind = calls[i].kind /\ calls'[i].arg = calls[i].arg
  /\ calls'[i].pc = calls[i].pc

Others(i) == \A j \in DOMAIN calls \ {i} : Same(j)

CallsSame == DOMAIN calls' = DOMAIN calls /\ \A i \in DOMAIN calls : Same(i)

\* Call i goes on to p, its answer comes, or a call with the number n is made.
Moved(i, p) ==
  /\ DOMAIN calls' = DOMAIN calls /\ Others(i)
  /\ calls'[i].kind = calls[i].kind /\ calls'[i].arg = calls[i].arg /\ calls'[i].pc = p

Ended(i) == DOMAIN calls' = DOMAIN calls /\ Others(i) /\ calls'[i].pc = "done"

Added(n, kind, arg) ==
  /\ n \notin DOMAIN calls /\ DOMAIN calls' = DOMAIN calls \cup {n}
  /\ \A i \in DOMAIN calls : Same(i)
  /\ calls'[n].kind = kind /\ calls'[n].arg = arg /\ calls'[n].pc = "sent"

LEMMA CallTyped ==
  ASSUME CallsFit, NEW i \in DOMAIN calls
  PROVE  /\ calls[i] \in Calls
         /\ calls[i].hook \in Hooks \cup {None} /\ calls[i].kind \in Kinds \cup {None}
         /\ calls[i].arg \in Args /\ calls[i].latest \in BOOLEAN
         /\ calls[i].pc \in {"sent", "found", "ok", "error", "done"}
<1>1. calls \in Seq(Calls)
  BY DEF CallsFit
<1>2. calls[i] \in Calls
  BY <1>1
<1>3. QED
  BY <1>2 DEF Calls

\* mutate adds a call, and takes the progress of its hook from an earlier one.
LEMMA CallSends ==
  ASSUME CallsFit, NEW hook \in Hooks, NEW kind \in Kinds, NEW arg \in Args,
         Send(hook, kind, arg),
         Fits([hook |-> hook, kind |-> kind, arg |-> arg, pc |-> "sent", latest |-> TRUE])
  PROVE  CallsFit' /\ Added(Len(calls) + 1, kind, arg) /\ UNCHANGED <<queries, lost>>
<1> DEFINE call == [hook |-> hook, kind |-> kind, arg |-> arg, pc |-> "sent", latest |-> TRUE]
           older == [i \in DOMAIN calls |->
                       [calls[i] EXCEPT !.latest = @ /\ calls[i].hook # hook]]
<1>1. calls' = Append(older, call) /\ UNCHANGED <<queries, lost>>
  BY DEF Send
<1>2. calls \in Seq(Calls)
  BY DEF CallsFit
<1>3. call \in Calls
  BY DEF Calls
<1>4. ASSUME NEW i \in DOMAIN calls
      PROVE  /\ older[i] \in Calls
             /\ older[i].kind = calls[i].kind /\ older[i].arg = calls[i].arg
             /\ older[i].pc = calls[i].pc
  <2>1. calls[i] \in Calls
    BY <1>2
  <2>2. older[i] = [calls[i] EXCEPT !.latest = calls[i].latest /\ calls[i].hook # hook]
    OBVIOUS
  <2>3. (calls[i].latest /\ calls[i].hook # hook) \in BOOLEAN
    OBVIOUS
  <2>4. QED
    BY <2>1, <2>2, <2>3 DEF Calls
<1>5. DOMAIN older = DOMAIN calls /\ DOMAIN calls = 1 .. Len(calls) /\ Len(calls) \in Nat
  BY <1>2
<1> HIDE DEF older, call
<1>6. older \in Seq(Calls) /\ Len(older) = Len(calls)
  <2>1. older \in [1 .. Len(calls) -> Calls]
    <3>1. \A i \in 1 .. Len(calls) : older[i] \in Calls
      BY <1>4, <1>5
    <3>2. older = [i \in DOMAIN older |-> older[i]]
      BY DEF older
    <3>3. QED
      BY <1>5, <3>1, <3>2
  <2>2. QED
    BY <1>5, <2>1
<1>7. calls' \in Seq(Calls) /\ Len(calls') = Len(calls) + 1
  BY <1>1, <1>3, <1>6
<1>8. calls'[Len(calls) + 1] = call
  BY <1>1, <1>3, <1>6
<1>9. \A i \in DOMAIN calls : calls'[i] = older[i]
  BY <1>1, <1>3, <1>5, <1>6
<1>10. DOMAIN calls' = 1 .. Len(calls) + 1
  BY <1>7
<1>11. \A i \in DOMAIN calls : Same(i)
  BY <1>4, <1>9 DEF Same
<1>12. Len(calls) + 1 \notin DOMAIN calls /\ DOMAIN calls' = DOMAIN calls \cup {Len(calls) + 1}
  BY <1>5, <1>10
<1>13. Fits(call) /\ call.kind = kind /\ call.arg = arg /\ call.pc = "sent"
  BY DEF call
<1>14. Added(Len(calls) + 1, kind, arg)
  BY <1>8, <1>11, <1>12, <1>13 DEF Added
<1>15. ASSUME NEW i \in DOMAIN calls', calls'[i].pc # "done"
       PROVE  Fits(calls'[i])
  <2>1. CASE i = Len(calls) + 1
    BY <1>8, <1>13, <2>1
  <2>2. CASE i \in DOMAIN calls
    <3>1. Same(i) /\ Fits(calls[i])
      BY <1>11, <1>15, <2>2 DEF CallsFit, Same
    <3>2. QED
      BY <3>1 DEF Fits, Same
  <2>3. QED
    BY <1>12, <2>1, <2>2
<1>16. CallsFit'
  BY <1>7, <1>15 DEF CallsFit
<1>17. QED
  BY <1>1, <1>14, <1>16

\* The server, or the network, decides on call i.
LEMMA CallMoves ==
  ASSUME CallsFit, NEW i \in DOMAIN calls, NEW p \in {"sent", "found", "ok", "error"},
         p = "found" => calls[i].kind \in {"cancel", "sendNow", "retry"},
         calls[i].pc # "done", calls' = [calls EXCEPT ![i].pc = p]
  PROVE  CallsFit' /\ Moved(i, p)
<1>1. calls \in Seq(Calls) /\ calls[i] \in Calls
  BY CallTyped DEF CallsFit
<1>2. calls'[i] = [calls[i] EXCEPT !.pc = p]
  BY <1>1
<1>3. /\ calls'[i] \in Calls /\ calls'[i].pc = p
      /\ calls'[i].kind = calls[i].kind /\ calls'[i].arg = calls[i].arg
  BY <1>1, <1>2 DEF Calls
<1>4. DOMAIN calls' = DOMAIN calls /\ \A j \in DOMAIN calls \ {i} : calls'[j] = calls[j]
  BY <1>1
<1>5. calls' \in Seq(Calls)
  BY <1>1, <1>2, <1>3
<1>6. Moved(i, p)
  BY <1>3, <1>4 DEF Moved, Others, Same
<1>7. ASSUME NEW j \in DOMAIN calls', calls'[j].pc # "done"
      PROVE  Fits(calls'[j])
  <2>1. calls'[j].kind = calls[j].kind /\ calls'[j].arg = calls[j].arg /\ Fits(calls[j])
    BY <1>3, <1>4, <1>7 DEF CallsFit
  <2>2. calls'[j].pc = "found" => calls[j].kind \in {"cancel", "sendNow", "retry"}
    BY <1>3, <1>4, <2>1 DEF Fits
  <2>3. QED
    BY <2>1, <2>2 DEF Fits
<1>8. QED
  BY <1>5, <1>6, <1>7 DEF CallsFit

\* The answer of call i is taken.
LEMMA CallEnds ==
  ASSUME CallsFit, NEW i \in DOMAIN calls, calls' = [calls EXCEPT ![i] = Done]
  PROVE  CallsFit' /\ Ended(i)
<1>1. calls \in Seq(Calls)
  BY DEF CallsFit
<1>2. Done \in Calls /\ Done.pc = "done"
  BY DEF Done, Calls, Args
<1>3. calls' \in Seq(Calls) /\ DOMAIN calls' = DOMAIN calls
  BY <1>1, <1>2
<1>4. calls'[i] = Done /\ \A j \in DOMAIN calls \ {i} : calls'[j] = calls[j]
  BY <1>1
<1>5. Ended(i)
  BY <1>2, <1>3, <1>4 DEF Ended, Others, Same
<1>6. \A j \in DOMAIN calls' : calls'[j].pc # "done" => Fits(calls'[j])
  BY <1>2, <1>3, <1>4 DEF CallsFit
<1>7. QED
  BY <1>3, <1>5, <1>6 DEF CallsFit

\* A row that goes takes the progress of its hooks with it.
LEMMA CallsKept ==
  ASSUME CallsFit, NEW kept, \A i \in DOMAIN calls : kept[i] \in BOOLEAN,
         calls' = [i \in DOMAIN calls |-> [calls[i] EXCEPT !.latest = kept[i]]]
  PROVE  CallsFit' /\ CallsSame
<1>1. calls \in Seq(Calls)
  BY DEF CallsFit
<1>2. DOMAIN calls' = DOMAIN calls /\ DOMAIN calls = 1 .. Len(calls) /\ Len(calls) \in Nat
  BY <1>1
<1>3. ASSUME NEW i \in DOMAIN calls
      PROVE  calls'[i] \in Calls /\ Same(i)
  <2>1. calls[i] \in Calls /\ calls'[i] = [calls[i] EXCEPT !.latest = kept[i]]
    BY <1>1
  <2>2. QED
    BY <2>1 DEF Calls, Same
<1>4. calls' \in Seq(Calls)
  <2>1. calls' = [i \in 1 .. Len(calls) |-> calls'[i]]
    BY <1>2
  <2>2. calls' \in [1 .. Len(calls) -> Calls]
    BY <1>2, <1>3, <2>1
  <2>3. QED
    BY <1>2, <2>2
<1>5. ASSUME NEW i \in DOMAIN calls', calls'[i].pc # "done"
      PROVE  Fits(calls'[i])
  <2>1. Same(i) /\ Fits(calls[i])
    BY <1>2, <1>3, <1>5 DEF CallsFit, Same
  <2>2. QED
    BY <2>1 DEF Fits, Same
<1>6. QED
  BY <1>2, <1>3, <1>4, <1>5 DEF CallsFit, CallsSame

-----------------------------------------------------------------------------
(* What the server answers *)

LEMMA Projected == Projection \in Projections /\ Climbs(Projection)
<1> DEFINE S == With({"QUEUED"})
<1>1. S \in SUBSET Messages /\ S \in SUBSET Nat /\ IsFiniteSet(S)
      /\ Cardinality(S) \in 0 .. Cardinality(Messages) /\ Cardinality(Messages) \in Nat
  BY Counted
<1>2. Projection = [m \in S |-> Below(S, m)]
  BY DEF Projection, Below
<1> HIDE DEF S
<1>3. \A m \in S : Below(S, m) \in 0 .. Cardinality(S)
  <2>1. \A m \in Nat : Below(S, m) \in 0 .. Cardinality(S)
    BY <1>1, BelowClimbs
  <2>2. QED
    BY <1>1, <2>1
<1>4. \A m \in S : Below(S, m) \in 0 .. Cardinality(Messages)
  BY <1>1, <1>3
<1>5. Projection \in [S -> 0 .. Cardinality(Messages)]
  BY <1>2, <1>4
<1>6. Projection \in Projections
  BY <1>1, <1>5 DEF Projections
<1>7. \A m, n \in S : m < n => Below(S, m) < Below(S, n)
  BY <1>1, BelowClimbs
<1>8. QED
  BY <1>2, <1>6, <1>7 DEF Climbs

\* Each row is of a queued message, and its position comes from the projection.
LEMMA RowsOfQueue ==
  ASSUME NEW p \in Projections
  PROVE  /\ QueueRows(p) \in Answers("queue")
         /\ RowIds(QueueRows(p)) \subseteq With({"QUEUED"})
         /\ Climbs(p) => RowsClimb(QueueRows(p))
<1> DEFINE N == Cardinality(With({"QUEUED"}))
           rows == QueueRows(p)
           Row1 == [id : Messages, position : 0 .. Cardinality(Messages) \cup {None}]
<1>1. PICK S \in SUBSET Messages : p \in [S -> 0 .. Cardinality(Messages)]
  BY DEF Projections
<1>2. N \in Nat /\ With({"QUEUED"}) \in SUBSET Messages /\ With({"QUEUED"}) \in SUBSET Nat
  BY Counted
<1>3. /\ Queued \in [1 .. N -> With({"QUEUED"})]
      /\ \A i, j \in 1 .. N : i < j => Queued[i] < Queued[j]
  BY QueuedInOrder
<1>4. rows = [i \in 1 .. N |->
                [id |-> Queued[i],
                 position |-> IF Queued[i] \in DOMAIN p THEN p[Queued[i]] ELSE None]]
  BY <1>3 DEF QueueRows
<1> HIDE DEF rows, N
<1>5. ASSUME NEW i \in 1 .. N
      PROVE  /\ rows[i].id = Queued[i] /\ Queued[i] \in With({"QUEUED"})
             /\ rows[i].position = IF Queued[i] \in DOMAIN p THEN p[Queued[i]] ELSE None
             /\ rows[i] \in Row1
  <2>1. Queued[i] \in With({"QUEUED"}) /\ Queued[i] \in Messages
    BY <1>2, <1>3
  <2>2. (IF Queued[i] \in DOMAIN p THEN p[Queued[i]] ELSE None)
          \in 0 .. Cardinality(Messages) \cup {None}
    BY <1>1
  <2>3. QED
    BY <1>4, <2>1, <2>2
<1>6. rows \in [1 .. N -> Row1]
  BY <1>4, <1>5
<1>7. rows \in Seq(Row1)
  <2> HIDE DEF Row1
  <2>1. QED
    BY <1>2, <1>6
<1>8. rows \in Answers("queue")
  BY <1>7 DEF Answers
<1>9. RowIds(rows) \subseteq With({"QUEUED"})
  BY <1>5, <1>6 DEF RowIds
<1>10. ASSUME Climbs(p)
       PROVE  RowsClimb(rows)
  <2>1. SUFFICES ASSUME NEW i \in 1 .. N, NEW j \in 1 .. N, i < j,
                        rows[i].position # None, rows[j].position # None
                 PROVE  rows[i].position < rows[j].position
    BY <1>6 DEF RowsClimb
  <2>2. /\ Queued[i] \in DOMAIN p /\ rows[i].position = p[Queued[i]]
        /\ Queued[j] \in DOMAIN p /\ rows[j].position = p[Queued[j]]
    BY <1>5, <2>1
  <2>3. Queued[i] < Queued[j]
    BY <1>3, <2>1
  <2>4. p[Queued[i]] < p[Queued[j]]
    BY <1>10, <2>2, <2>3 DEF Climbs
  <2>5. QED
    BY <2>2, <2>4
<1>11. QED
  BY <1>8, <1>9, <1>10 DEF rows

LEMMA Served ==
  ASSUME DashboardTypeOK, NEW k \in Keys \ {"queue"}
  PROVE  View(k) \in Answers(k)
<1>1. CASE k = "list"
  <2>1. View(k) \in [With(MessageStatuses) -> MessageStatuses]
    BY <1>1 DEF View, With
  <2>2. With(MessageStatuses) \in SUBSET Messages
    BY DEF With
  <2>3. QED
    BY <1>1, <2>1, <2>2 DEF Answers
<1>2. CASE k = "stats"
  <2>1. \A S : Cardinality(With(S)) \in Nat
    BY Counted
  <2>2. Stats \in Answers("stats")
    BY <2>1 DEF Stats, Answers
  <2>3. QED
    BY <1>2, <2>2 DEF View
<1>3. CASE k = "settings"
  BY <1>3 DEF View, Answers, DashboardTypeOK
<1>4. CASE k = "recipients"
  BY <1>4 DEF View, Answers, DashboardTypeOK, BookTypeOK
<1>5. QED
  BY <1>1, <1>2, <1>3, <1>4 DEF Keys

-----------------------------------------------------------------------------
(* The steps of a fetch *)

\* The other keys are left alone.
Alone(k) ==
  /\ queries' = [j \in Keys |-> queries'[j]]
  /\ \A j \in Keys \ {k} : queries'[j] = queries[j]

LEMMA HoldsAlone ==
  ASSUME QueriesHold, NEW k \in Keys, Alone(k), Holds(k, queries'[k])
  PROVE  QueriesHold'
<1>1. \A j \in Keys \ {k} : Holds(j, queries'[j])
  BY DEF QueriesHold, Alone
<1>2. \A j \in Keys : Holds(j, queries'[j])
  BY <1>1
<1>3. \A j \in Keys : Holds(j, queries[j])'
  BY <1>2 DEF Holds
<1>4. QED
  BY <1>3 DEF QueriesHold, Alone

LEMMA QueryTakes ==
  ASSUME QueriesHold, NEW k \in Keys, NEW stage \in {"half", "read"}, NEW view,
         Take(k, stage, view),
         stage = "half" => k = "queue" /\ view \in Projections,
         stage = "read" => view \in Answers(k)
  PROVE  /\ QueriesHold' /\ Alone(k)
         /\ queries'[k].fetch = stage /\ queries'[k].got = view
         /\ queries'[k].data = queries[k].data
<1> DEFINE q == queries[k]
<1>1. /\ queries = [j \in Keys |-> queries[j]] /\ Holds(k, q)
  BY DEF QueriesHold
<1>2. queries' = [queries EXCEPT ![k] = [q EXCEPT !.fetch = stage, !.got = view]]
  BY <1>1 DEF Take
<1>3. Alone(k) /\ queries'[k] = [q EXCEPT !.fetch = stage, !.got = view]
  BY <1>1, <1>2 DEF Alone
<1>4. q = [fetch |-> q.fetch, got |-> q.got, data |-> q.data, failed |-> q.failed]
  BY <1>1 DEF Holds
<1>5. queries'[k] = [fetch |-> stage, got |-> view, data |-> q.data, failed |-> q.failed]
  BY <1>3, <1>4
<1>6. Holds(k, queries'[k])
  BY <1>1, <1>5 DEF Holds, Stages
<1>7. QED
  BY <1>3, <1>5, <1>6, HoldsAlone

LEMMA AnswersAreData ==
  ASSUME NEW k \in Keys, NEW a, a \in Answers(k) \/ a \in Projections
  PROVE  a # None
  BY NoneAssumption

LEMMA QueryLands ==
  ASSUME QueriesHold, NEW k \in Keys, Land(k)
  PROVE  /\ QueriesHold' /\ Alone(k) /\ queries[k].fetch = "read"
         /\ queries'[k].fetch = "idle" /\ queries'[k].got = None
         /\ queries'[k].data = queries[k].got /\ queries'[k].data \in Answers(k)
<1>1. queries = [j \in Keys |-> queries[j]] /\ Holds(k, queries[k])
  BY DEF QueriesHold
<1>2. queries[k].fetch = "read" /\ queries[k].got \in Answers(k)
  BY <1>1 DEF Land, Holds
<1>3. /\ Alone(k)
      /\ queries'[k] = [fetch |-> "idle", got |-> None, data |-> queries[k].got, failed |-> FALSE]
  BY <1>1 DEF Land, Alone
<1>4. Holds(k, queries'[k])
  BY <1>2, <1>3 DEF Holds, Stages
<1>5. QED
  BY <1>2, <1>3, <1>4, HoldsAlone

LEMMA QueryFails ==
  ASSUME QueriesHold, NEW k \in Keys, FetchFails(k)
  PROVE  /\ QueriesHold' /\ Alone(k) /\ CallsSame /\ UNCHANGED calls
         /\ queries'[k].fetch = "idle" /\ queries'[k].got = None
         /\ queries'[k].data = queries[k].data
<1> DEFINE q == queries[k]
<1>1. queries = [j \in Keys |-> queries[j]] /\ Holds(k, q)
  BY DEF QueriesHold
<1>2. UNCHANGED calls /\ CallsSame
  BY DEF FetchFails, CallsSame, Same
<1>3. Alone(k) /\ queries'[k] = [q EXCEPT !.fetch = "idle", !.got = None, !.failed = TRUE]
  BY <1>1 DEF FetchFails, Alone
<1>4. q = [fetch |-> q.fetch, got |-> q.got, data |-> q.data, failed |-> q.failed]
  BY <1>1 DEF Holds
<1>5. queries'[k] = [fetch |-> "idle", got |-> None, data |-> q.data, failed |-> TRUE]
  BY <1>3, <1>4
<1>6. Holds(k, queries'[k])
  BY <1>1, <1>5 DEF Holds, Stages
<1>7. QED
  BY <1>2, <1>3, <1>5, <1>6, HoldsAlone

\* A fetch that is joined goes on; any other starts again.
Restarted(k) ==
  /\ queries'[k].data = queries[k].data
  /\ queries'[k].fetch = "asked" /\ queries'[k].got = None

LEMMA CallSettles ==
  ASSUME CallsFit, QueriesHold, NEW i \in DOMAIN calls, NEW open, Settle(i, open)
  PROVE  /\ CallsFit' /\ Ended(i) /\ QueriesHold' /\ lost \subseteq lost'
         /\ calls[i].pc \in {"ok", "error"}
         /\ \A k \in Keys : queries'[k] = queries[k] \/ Restarted(k)
         /\ \A k \in Keys : /\ calls[i].pc = "ok" /\ k \in open \cap Stale(calls[i].kind)
                            /\ queries[k].data # None
                            => Restarted(k)
<1> DEFINE stale == IF calls[i].pc = "ok" THEN open \cap Stale(calls[i].kind) ELSE {}
<1>1. /\ calls[i].pc \in {"ok", "error"} /\ calls' = [calls EXCEPT ![i] = Done]
      /\ queries' = [k \in Keys |-> IF k \in stale THEN Refetched(queries[k]) ELSE queries[k]]
      /\ lost \subseteq lost'
  BY DEF Settle
<1>2. CallsFit' /\ Ended(i)
  BY <1>1, CallEnds
<1> HIDE DEF stale
<1>3. ASSUME NEW k \in Keys
      PROVE  /\ Holds(k, queries'[k])
             /\ queries'[k] = queries[k] \/ Restarted(k)
             /\ k \in stale /\ queries[k].data # None => Restarted(k)
  <2> DEFINE q == queries[k]
  <2>1. Holds(k, q)
    BY DEF QueriesHold
  <2>2. CASE k \in stale /\ ~Joins(q)
    <3>1. queries'[k] = [q EXCEPT !.fetch = "asked", !.got = None]
      BY <1>1, <2>2 DEF Refetched
    <3>2. q = [fetch |-> q.fetch, got |-> q.got, data |-> q.data, failed |-> q.failed]
      BY <2>1 DEF Holds
    <3>3. queries'[k] = [fetch |-> "asked", got |-> None, data |-> q.data, failed |-> q.failed]
      BY <3>1, <3>2
    <3>4. Holds(k, queries'[k])
      BY <2>1, <3>3 DEF Holds, Stages
    <3>5. Restarted(k)
      BY <3>3 DEF Restarted
    <3>6. QED
      BY <3>4, <3>5
  <2>3. CASE k \notin stale \/ Joins(q)
    <3>1. queries'[k] = q
      BY <1>1, <2>3 DEF Refetched
    <3>2. QED
      BY <2>1, <2>3, <3>1 DEF Joins
  <2>4. QED
    BY <2>2, <2>3
<1>4. QueriesHold'
  <2>1. \A k \in Keys : Holds(k, queries[k])'
    BY <1>3 DEF Holds
  <2>2. queries' = [k \in Keys |-> queries'[k]]
    BY <1>1
  <2>3. QED
    BY <2>1, <2>2 DEF QueriesHold
<1>5. calls[i].pc = "ok" => stale = open \cap Stale(calls[i].kind)
  BY DEF stale
<1>6. QED
  BY <1>1, <1>2, <1>3, <1>4, <1>5

LEMMA CallAnswered ==
  ASSUME CallsFit, NEW i \in DOMAIN calls, calls[i].pc \in {"sent", "found"}, NEW ok, Answer(i, ok)
  PROVE  /\ CallsFit' /\ UNCHANGED <<queries, lost>>
         /\ IF ok THEN Moved(i, "ok") ELSE Moved(i, "error")
<1>1. CASE ok
  <2>1. calls' = [calls EXCEPT ![i].pc = "ok"] /\ UNCHANGED <<queries, lost>>
    BY <1>1 DEF Answer
  <2>2. QED
    BY <1>1, <2>1, CallMoves
<1>2. CASE ~ok
  <2>1. calls' = [calls EXCEPT ![i].pc = "error"] /\ UNCHANGED <<queries, lost>>
    BY <1>2 DEF Answer
  <2>2. QED
    BY <1>2, <2>1, CallMoves
<1>3. QED
  BY <1>1, <1>2

-----------------------------------------------------------------------------
(* The steps of a call, action by action *)

LEMMA ScheduleServed ==
  ASSUME CallsFit, NEW i \in DOMAIN calls, ServeSchedule(i)
  PROVE  /\ CallsFit' /\ Moved(i, "ok") /\ UNCHANGED <<queries, lost>>
         /\ calls[i].pc = "sent" /\ calls[i].kind = "schedule"
<1>1. calls[i].pc = "sent" /\ calls[i].kind = "schedule" /\ Answer(i, TRUE)
  BY DEF ServeSchedule, Arrived
<1>2. QED
  BY <1>1, CallAnswered

LEMMA ReadServed ==
  ASSUME CallsFit, NEW i \in DOMAIN calls, ServeRead(i)
  PROVE  /\ CallsFit' /\ (Moved(i, "found") \/ Moved(i, "error"))
         /\ UNCHANGED <<queries, lost>>
         /\ calls[i].pc = "sent" /\ calls[i].kind \in {"cancel", "retry", "sendNow"}
<1>1. PICK p \in {"found", "error"} : calls' = [calls EXCEPT ![i].pc = p]
  BY DEF ServeRead
<1>2. /\ calls[i].pc = "sent" /\ calls[i].kind \in {"cancel", "retry", "sendNow"}
      /\ UNCHANGED <<queries, lost>>
  BY DEF ServeRead
<1>3. CallsFit' /\ Moved(i, p)
  BY <1>1, <1>2, CallMoves
<1>4. QED
  BY <1>2, <1>3

LEMMA WriteServed ==
  ASSUME CallsFit, NEW i \in DOMAIN calls, ServeWrite(i)
  PROVE  /\ CallsFit' /\ Moved(i, "ok") /\ UNCHANGED <<queries, lost>>
         /\ calls[i].pc = "found" /\ calls[i].kind \in {"cancel", "retry", "sendNow"}
         /\ calls[i].arg \in Messages
         /\ calls[i].kind = "cancel" => Cancel(calls[i].arg)
         /\ calls[i].kind = "retry" => Requeue({calls[i].arg})
         /\ calls[i].kind = "sendNow" => UNCHANGED lifecycleVars
<1>1. calls[i].pc = "found" /\ Answer(i, TRUE)
  BY DEF ServeWrite
<1>2. Fits(calls[i])
  BY <1>1 DEF CallsFit
<1>3. calls[i].kind \in {"cancel", "retry", "sendNow"} /\ calls[i].arg \in Messages
  BY <1>1, <1>2 DEF Fits
<1>4. /\ calls[i].kind = "cancel" => Cancel(calls[i].arg)
      /\ calls[i].kind = "retry" => Requeue({calls[i].arg})
      /\ calls[i].kind = "sendNow" => UNCHANGED lifecycleVars
  BY DEF ServeWrite
<1>5. QED
  BY <1>1, <1>3, <1>4, CallAnswered

LEMMA ClearServed ==
  ASSUME CallsFit, NEW i \in DOMAIN calls, ServeClear(i)
  PROVE  /\ CallsFit' /\ Moved(i, "ok") /\ UNCHANGED <<queries, lost>>
         /\ calls[i].pc = "sent" /\ calls[i].kind = "clear"
<1>1. calls[i].pc = "sent" /\ calls[i].kind = "clear" /\ Answer(i, TRUE)
  BY DEF ServeClear, Arrived
<1>2. QED
  BY <1>1, CallAnswered

LEMMA PatchServed ==
  ASSUME CallsFit, NEW i \in DOMAIN calls, ServePatch(i)
  PROVE  /\ CallsFit' /\ Moved(i, "ok") /\ UNCHANGED <<queries, lost>>
         /\ calls[i].pc = "sent" /\ calls[i].kind = "patch"
<1>1. calls[i].pc = "sent" /\ calls[i].kind = "patch" /\ Answer(i, TRUE)
  BY DEF ServePatch, Arrived
<1>2. QED
  BY <1>1, CallAnswered

LEMMA BookServed ==
  ASSUME CallsFit, NEW i \in DOMAIN calls, ServeBook(i)
  PROVE  /\ CallsFit' /\ (Moved(i, "ok") \/ Moved(i, "error")) /\ UNCHANGED <<queries, lost>>
         /\ calls[i].pc = "sent" /\ calls[i].kind \in {"add", "save", "remove"}
<1>1. /\ calls[i].pc = "sent" /\ calls[i].kind \in {"add", "save", "remove"}
      /\ \E ok : Answer(i, ok)
  BY DEF ServeBook, ServeAdd, ServeSave, ServeRemove, Arrived
<1>2. QED
  BY <1>1, CallAnswered

LEMMA CallIsLost ==
  ASSUME CallsFit, NEW i \in DOMAIN calls, CallLost(i)
  PROVE  /\ CallsFit' /\ Moved(i, "error") /\ UNCHANGED queries
         /\ lost' = lost \cup {calls[i].kind}
<1>1. /\ calls[i].pc \in {"sent", "ok"} /\ calls' = [calls EXCEPT ![i].pc = "error"]
      /\ UNCHANGED queries /\ lost' = lost \cup {calls[i].kind}
  BY DEF CallLost, Loses
<1>2. QED
  BY <1>1, CallMoves

\* onSettled, for the address book and for the rest.
LEMMA AnswerSettles ==
  ASSUME CallsFit, QueriesHold, NEW i \in DOMAIN calls, SettleCall(i)
  PROVE  /\ CallsFit' /\ Ended(i) /\ QueriesHold' /\ lost \subseteq lost'
         /\ calls[i].pc \in {"ok", "error"}
         /\ \A k \in Keys : queries'[k] = queries[k] \/ Restarted(k)
         /\ \A k \in Keys : /\ calls[i].pc = "ok" /\ k \in Open \cap Stale(calls[i].kind)
                            /\ queries[k].data # None
                            => Restarted(k)
<1>1. Settle(i, Open)
  BY DEF SettleCall, SettleBook
<1>2. QED
  BY <1>1, CallSettles

LEMMA SubmitSends ==
  ASSUME TypeInv, Submit
  PROVE  /\ CallsFit' /\ Added(Len(calls) + 1, "schedule", form.text)
         /\ UNCHANGED <<queries, lost>>
<1> DEFINE hook == <<"schedule", None>>
<1>1. CallsFit /\ Send(hook, "schedule", form.text) /\ form.text \in 0 .. MaxTexts
  BY DEF TypeInv, DashboardTypeOK, Submit
<1>2. hook \in Hooks /\ "schedule" \in Kinds /\ form.text \in Args
  BY <1>1 DEF Hooks, Kinds, Args
<1>3. Fits([hook |-> hook, kind |-> "schedule", arg |-> form.text, pc |-> "sent",
            latest |-> TRUE])
  BY <1>1 DEF Fits
<1> HIDE DEF hook
<1>4. QED
  BY <1>1, <1>2, <1>3, CallSends

LEMMA Pages ==
  ASSUME DashboardTypeOK
  PROVE  /\ "queue" \in Open <=> page = "schedule"
         /\ "list" \in Open => page = "dashboard"
         /\ Open \subseteq Keys
  BY DEF DashboardTypeOK, Open, Keys

\* A click that is no submission adds a call of its own kind, on the page it belongs to.
Clicked ==
  \E kind \in Kinds \ {"schedule"}, arg \in Args :
    /\ Added(Len(calls) + 1, kind, arg)
    /\ kind = "cancel" => page = "schedule" /\ queries["queue"].data # None
    /\ kind = "retry" => page = "dashboard"

LEMMA ClickSends ==
  ASSUME TypeInv, NEW hook \in Hooks, NEW kind \in Kinds \ {"schedule"}, NEW arg \in Args,
         Send(hook, kind, arg),
         Fits([hook |-> hook, kind |-> kind, arg |-> arg, pc |-> "sent", latest |-> TRUE]),
         kind = "cancel" => page = "schedule" /\ queries["queue"].data # None,
         kind = "retry" => page = "dashboard"
  PROVE  CallsFit' /\ UNCHANGED <<queries, lost>> /\ Clicked
<1>1. CallsFit
  BY DEF TypeInv
<1>2. CallsFit' /\ Added(Len(calls) + 1, kind, arg) /\ UNCHANGED <<queries, lost>>
  BY <1>1, CallSends
<1>3. QED
  BY <1>2 DEF Clicked

LEMMA RowClicked ==
  ASSUME TypeInv, NEW m \in Messages, NEW kind \in {"cancel", "sendNow"}, ClickRow(m, kind)
  PROVE  CallsFit' /\ UNCHANGED <<queries, lost>> /\ Clicked
<1> DEFINE hook == <<kind, m>>
<1>1. Send(hook, kind, m) /\ "queue" \in Open /\ queries["queue"].data # None
  BY DEF ClickRow, Shown
<1>2. page = "schedule"
  BY <1>1, Pages DEF TypeInv
<1>3. hook \in Hooks /\ kind \in Kinds \ {"schedule"} /\ m \in Args
  BY DEF Hooks, Kinds, Args
<1>4. Fits([hook |-> hook, kind |-> kind, arg |-> m, pc |-> "sent", latest |-> TRUE])
  BY DEF Fits
<1> HIDE DEF hook
<1>5. QED
  BY <1>1, <1>2, <1>3, <1>4, ClickSends

LEMMA RetryClicked ==
  ASSUME TypeInv, NEW m \in Messages, ClickRetry(m)
  PROVE  CallsFit' /\ UNCHANGED <<queries, lost>> /\ Clicked
<1> DEFINE hook == <<"retry", None>>
<1>1. Send(hook, "retry", m) /\ "list" \in Open
  BY DEF ClickRetry, Shown
<1>2. page = "dashboard"
  BY <1>1, Pages DEF TypeInv
<1>3. hook \in Hooks /\ "retry" \in Kinds \ {"schedule"} /\ m \in Args
  BY DEF Hooks, Kinds, Args
<1>4. Fits([hook |-> hook, kind |-> "retry", arg |-> m, pc |-> "sent", latest |-> TRUE])
  BY DEF Fits
<1> HIDE DEF hook
<1>5. QED
  BY <1>1, <1>2, <1>3, <1>4, ClickSends

LEMMA ClearClicked ==
  ASSUME TypeInv, ClickClear
  PROVE  CallsFit' /\ UNCHANGED <<queries, lost>> /\ Clicked
<1> DEFINE hook == <<"clear", None>>
<1>1. Send(hook, "clear", None)
  BY DEF ClickClear
<1>2. hook \in Hooks /\ "clear" \in Kinds \ {"schedule"} /\ None \in Args
  BY DEF Hooks, Kinds, Args
<1>3. Fits([hook |-> hook, kind |-> "clear", arg |-> None, pc |-> "sent", latest |-> TRUE])
  BY DEF Fits
<1> HIDE DEF hook
<1>4. QED
  BY <1>1, <1>2, <1>3, ClickSends

LEMMA SettingsClicked ==
  ASSUME TypeInv, ClickRate \/ ClickBudget
  PROVE  CallsFit' /\ UNCHANGED <<queries, lost>> /\ Clicked
<1>1. PICK hook \in {<<"rate", None>>, <<"budget", None>>},
           arg \in {[paused |-> ~queries["settings"].data.paused],
                    [sendIntervalSeconds |-> 60], [maxAttempts |-> 1]} :
        Send(hook, "patch", arg)
  BY DEF ClickRate, ClickBudget
<1>2. arg \in SettingsPatches
  <2>1. (~queries["settings"].data.paused) \in BOOLEAN
    OBVIOUS
  <2>2. [paused |-> ~queries["settings"].data.paused] \in [paused : BOOLEAN]
    BY <2>1
  <2>3. [sendIntervalSeconds |-> 60] \in [sendIntervalSeconds : {60}]
    OBVIOUS
  <2>4. [maxAttempts |-> 1] \in [maxAttempts : {1}]
    OBVIOUS
  <2>5. QED
    BY <2>2, <2>3, <2>4 DEF SettingsPatches
<1>3. hook \in Hooks /\ "patch" \in Kinds \ {"schedule"}
  BY DEF Hooks, Kinds
<1>4. arg \in Args
  BY <1>2 DEF Args
<1>5. Fits([hook |-> hook, kind |-> "patch", arg |-> arg, pc |-> "sent", latest |-> TRUE])
  BY <1>2 DEF Fits
<1>6. QED
  BY <1>1, <1>3, <1>4, <1>5, ClickSends

LEMMA ClickAdds ==
  ASSUME TypeInv, Click
  PROVE  CallsFit' /\ UNCHANGED <<queries, lost>> /\ Clicked
  BY RowClicked, RetryClicked, ClearClicked, SettingsClicked DEF Click

\* What the recipients page shows of a row.
LEMMA RowShown ==
  ASSUME TypeInv, NEW r \in Recipients, Row(r) # None
  PROVE  Row(r) \in Entries
<1>1. Holds("recipients", queries["recipients"])
  BY DEF TypeInv, QueriesHold, Keys
<1>2. queries["recipients"].data # None
  BY DEF Row
<1>3. queries["recipients"].data \in [Recipients -> Entries \cup {None}]
  BY <1>1, <1>2 DEF Holds, Answers
<1>4. QED
  BY <1>2, <1>3 DEF Row

LEMMA EditAdds ==
  ASSUME TypeInv, EditBook
  PROVE  /\ CallsFit' /\ UNCHANGED <<queries, lost>>
         /\ (CallsSame /\ UNCHANGED calls) \/ Clicked
<1>1. CASE \E e \in Entries : ClickAdd(e)
  <2> DEFINE hook == <<"add", None>>
  <2>1. PICK e \in Entries : Send(hook, "add", e)
    BY <1>1 DEF ClickAdd
  <2>2. hook \in Hooks /\ "add" \in Kinds \ {"schedule"} /\ e \in Args
    BY DEF Hooks, Kinds, Args
  <2>3. Fits([hook |-> hook, kind |-> "add", arg |-> e, pc |-> "sent", latest |-> TRUE])
    BY DEF Fits
  <2> HIDE DEF hook
  <2>4. QED
    BY <2>1, <2>2, <2>3, ClickSends
<1>2. CASE \E r \in Recipients : ClickRemove(r)
  <2>1. PICK r \in Recipients : ClickRemove(r)
    BY <1>2
  <2> DEFINE hook == <<"remove", r>>
  <2>2. Send(hook, "remove", r)
    BY <2>1 DEF ClickRemove
  <2>3. hook \in Hooks /\ "remove" \in Kinds \ {"schedule"} /\ r \in Args
    BY DEF Hooks, Kinds, Args
  <2>4. Fits([hook |-> hook, kind |-> "remove", arg |-> r, pc |-> "sent", latest |-> TRUE])
    BY DEF Fits
  <2> HIDE DEF hook
  <2>5. QED
    BY <2>2, <2>3, <2>4, ClickSends
<1>3. CASE \E r \in Recipients : ClickSave(r)
  <2>1. PICK r \in Recipients : ClickSave(r)
    BY <1>3
  <2> DEFINE hook == <<"save", r>>
             changed == {f \in DOMAIN Row(r) : drafts[r][f] # Row(r)[f]}
             patch == [f \in changed |-> drafts[r][f]]
             arg == [id |-> r, patch |-> patch]
  <2>2. Send(hook, "save", arg) /\ Row(r) # None /\ drafts[r] # None
    BY <2>1 DEF ClickSave
  <2>3. Row(r) \in Entries /\ drafts[r] \in Entries
    BY <2>2, RowShown DEF TypeInv, DashboardTypeOK, BookTypeOK
  <2>4. DOMAIN Row(r) = {"name", "handle"}
    BY <2>3 DEF Entries
  <2>5. drafts[r]["name"] \in Names /\ drafts[r]["handle"] \in Handles
    BY <2>3 DEF Entries
  <2>6. changed \in SUBSET {"name", "handle"}
    BY <2>4
  <2>7. patch \in RowPatches /\ Sorted(patch)
    <3> HIDE DEF changed
    <3>1. \A f \in changed : drafts[r][f] \in Names \cup Handles
      BY <2>5, <2>6
    <3>2. patch \in [changed -> Names \cup Handles]
      BY <3>1
    <3>3. Sorted(patch)
      BY <2>5 DEF Sorted
    <3>4. QED
      BY <2>6, <3>2, <3>3 DEF RowPatches
  <2> HIDE DEF patch
  <2>8. arg \in Saves /\ arg.patch = patch
    BY <2>7 DEF Saves
  <2> HIDE DEF arg
  <2>9. hook \in Hooks /\ "save" \in Kinds \ {"schedule"} /\ arg \in Args
    BY <2>8 DEF Hooks, Kinds, Args
  <2>10. Fits([hook |-> hook, kind |-> "save", arg |-> arg, pc |-> "sent", latest |-> TRUE])
    BY <2>7, <2>8 DEF Fits
  <2> HIDE DEF hook
  <2>11. QED
    BY <2>2, <2>9, <2>10, ClickSends
<1>4. CASE \E r \in Recipients :
             StartEdit(r) \/ StopEdit(r) \/ \E e \in Entries : EditDraft(r, e)
  <2>1. UNCHANGED cacheVars
    BY <1>4 DEF StartEdit, StopEdit, EditDraft
  <2>2. QED
    BY <2>1 DEF cacheVars, CallsFit, CallsSame, Same, TypeInv
<1>5. QED
  BY <1>1, <1>2, <1>3, <1>4 DEF EditBook

\* A fetch lands: no call changes but in its progress.
LEMMA FetchLands ==
  ASSUME TypeInv, NEW k \in Keys, LandFetch(k)
  PROVE  CallsFit' /\ CallsSame /\ Land(k) /\ UNCHANGED lost
<1> DEFINE data == queries[k].got
           gone(c) == /\ k = "queue" /\ c.latest /\ c.kind \in {"cancel", "sendNow"}
                      /\ c.arg \notin RowIds(data)
           kept == [i \in DOMAIN calls |-> calls[i].latest /\ ~gone(calls[i])]
<1>1. /\ calls' = [i \in DOMAIN calls |->
                     [calls[i] EXCEPT !.latest = calls[i].latest /\ ~gone(calls[i])]]
      /\ Land(k) /\ UNCHANGED lost
  BY DEF LandFetch
<1>2. calls' = [i \in DOMAIN calls |-> [calls[i] EXCEPT !.latest = kept[i]]]
  BY <1>1
<1>3. \A i \in DOMAIN calls : kept[i] \in BOOLEAN
  OBVIOUS
<1> HIDE DEF kept
<1>4. CallsFit' /\ CallsSame
  BY <1>2, <1>3, CallsKept DEF TypeInv
<1>5. QED
  BY <1>1, <1>4

LEMMA FetchServed ==
  ASSUME TypeInv, NEW k \in Keys, ServeFetch(k)
  PROVE  /\ QueriesHold' /\ Alone(k) /\ UNCHANGED <<calls, lost>>
         /\ queries'[k].data = queries[k].data
         /\ k = "queue" => queries'[k].fetch = "half" /\ queries'[k].got = Projection
<1>1. QueriesHold /\ DashboardTypeOK /\ UNCHANGED <<calls, lost>>
  BY DEF TypeInv, ServeFetch
<1>2. CASE k = "queue"
  <2>1. Take(k, "half", Projection) /\ Projection \in Projections
    BY <1>2, Projected DEF ServeFetch
  <2>2. QED
    BY <1>1, <1>2, <2>1, QueryTakes
<1>3. CASE k # "queue"
  <2>1. Take(k, "read", View(k))
    BY <1>3 DEF ServeFetch
  <2>2. View(k) \in Answers(k)
    BY <1>1, <1>3, Served
  <2>3. QED
    BY <1>1, <1>3, <2>1, <2>2, QueryTakes
<1>4. QED
  BY <1>2, <1>3

LEMMA PageServed ==
  ASSUME TypeInv, ServePage
  PROVE  /\ QueriesHold' /\ Alone("queue") /\ UNCHANGED <<calls, lost>>
         /\ queries["queue"].fetch = "half" /\ queries["queue"].got \in Projections
         /\ queries'["queue"].fetch = "read"
         /\ queries'["queue"].got = QueueRows(queries["queue"].got)
         /\ queries'["queue"].data = queries["queue"].data
<1> DEFINE rows == QueueRows(queries["queue"].got)
<1>1. /\ QueriesHold /\ "queue" \in Keys /\ UNCHANGED <<calls, lost>>
      /\ queries["queue"].fetch = "half" /\ Take("queue", "read", rows)
  BY DEF TypeInv, ServePage, Keys
<1>2. queries["queue"].got \in Projections
  BY <1>1 DEF QueriesHold, Holds
<1>3. rows \in Answers("queue")
  BY <1>2, RowsOfQueue
<1> HIDE DEF rows
<1>4. /\ QueriesHold' /\ Alone("queue") /\ queries'["queue"].fetch = "read"
      /\ queries'["queue"].got = rows /\ queries'["queue"].data = queries["queue"].data
  BY <1>1, <1>3, QueryTakes
<1>5. QED
  BY <1>1, <1>2, <1>4 DEF rows

-----------------------------------------------------------------------------
(* Who writes what *)

\* The gateways and the sweeps.
Behind == GatewayClaims \/ GatewayReports \/ SweepReads \/ SweepRequeues

\* What they leave alone.
LEMMA BehindUnseen ==
  ASSUME Behind
  PROVE  UNCHANGED <<cacheVars, bookVars, page, settings, form, body>>
  BY DEF Behind, GatewayClaims, GatewayReports, SweepReads, SweepRequeues, screenVars

LEMMA MessagesWritten ==
  ASSUME DashboardNext
  PROVE  \/ UNCHANGED lifecycleVars
         \/ Behind
         \/ \E i \in DOMAIN calls : ServeSchedule(i) \/ ServeWrite(i) \/ ServeClear(i)
<1>1. CASE \E i \in DOMAIN calls : Handle(i)
  BY <1>1 DEF Handle, ServeRead, ServePatch, ServeBook, SettleCall
<1>2. CASE \E k \in Keys : Fetch(k)
  BY <1>2 DEF Fetch, ServeFetch, ServePage, LandFetch
<1>3. CASE Type \/ Submit \/ PlaneLeft \/ SentTimer \/ Click \/ EditBook \/ Lose
  BY <1>3 DEF Type, Submit, PlaneLeft, SentTimer, Click, EditBook, Lose
<1>4. QED
  BY <1>1, <1>2, <1>3 DEF DashboardNext, Behind

LEMMA ScreenWritten ==
  ASSUME DashboardNext
  PROVE  /\ UNCHANGED page
         /\ \/ UNCHANGED <<settings, form, body, confirmed>>
            \/ Type \/ Submit \/ PlaneLeft \/ SentTimer \/ SweepRequeues
            \/ \E i \in DOMAIN calls : ServeSchedule(i) \/ ServePatch(i) \/ SettleCall(i)
<1>1. CASE \E i \in DOMAIN calls : Handle(i)
  BY <1>1 DEF Handle, ServeSchedule, ServeRead, ServeWrite, ServeClear, ServePatch, ServeBook,
              SettleCall, screenVars
<1>2. CASE \E k \in Keys : Fetch(k)
  BY <1>2 DEF Fetch, ServeFetch, ServePage, LandFetch, screenVars
<1>3. CASE Type \/ Submit \/ PlaneLeft \/ SentTimer \/ Click \/ EditBook \/ Lose
  BY <1>3 DEF Type, Submit, PlaneLeft, SentTimer, Click, EditBook, Lose, screenVars
<1>5. CASE Behind
  BY <1>5 DEF Behind, GatewayClaims, GatewayReports, SweepReads, SweepRequeues, screenVars
<1>4. QED
  BY <1>1, <1>2, <1>3, <1>5 DEF DashboardNext, Behind

LEMMA BookWritten ==
  ASSUME DashboardNext
  PROVE  \/ UNCHANGED bookVars
         \/ EditBook
         \/ LandFetch("recipients")
         \/ \E i \in DOMAIN calls : ServeBook(i) \/ SettleCall(i)
<1>1. CASE \E i \in DOMAIN calls : Handle(i)
  BY <1>1 DEF Handle, ServeSchedule, ServeRead, ServeWrite, ServeClear, ServePatch
<1>2. CASE \E k \in Keys : Fetch(k)
  BY <1>2 DEF Fetch, ServeFetch, ServePage, LandFetch, bookVars
<1>3. CASE Type \/ Submit \/ PlaneLeft \/ SentTimer \/ Click \/ Lose \/ Behind
  BY <1>3, BehindUnseen DEF Type, Submit, PlaneLeft, SentTimer, Click, Lose, bookVars
<1>4. QED
  BY <1>1, <1>2, <1>3 DEF DashboardNext, Behind

LEMMA QueriesWritten ==
  ASSUME TypeInv, DashboardNext
  PROVE  \/ UNCHANGED queries
         \/ \E k \in Keys : ServeFetch(k) \/ LandFetch(k) \/ FetchFails(k)
         \/ ServePage
         \/ \E i \in DOMAIN calls : SettleCall(i)
<1>1. CASE \E i \in DOMAIN calls : Handle(i)
  BY <1>1 DEF Handle, ServeSchedule, ServeRead, ServeWrite, ServeClear, ServePatch, ServeBook,
              ServeAdd, ServeSave, ServeRemove, Answer
<1>2. CASE \E k \in Keys : Fetch(k)
  BY <1>2 DEF Fetch
<1>3. CASE Type \/ Submit \/ PlaneLeft \/ SentTimer \/ Behind
  BY <1>3, BehindUnseen DEF Type, Submit, PlaneLeft, SentTimer, cacheVars, Send
<1>4. CASE Click
  BY <1>4 DEF Click, ClickRow, ClickRetry, ClickClear, ClickRate, ClickBudget, Send
<1>5. CASE EditBook
  BY <1>5 DEF EditBook, ClickAdd, ClickSave, ClickRemove, StartEdit, StopEdit, EditDraft,
              cacheVars, Send
<1>6. CASE Lose
  BY <1>6, Pages DEF Lose, CallLost, TypeInv
<1>7. QED
  BY <1>1, <1>2, <1>3, <1>4, <1>5, <1>6 DEF DashboardNext, Behind

-----------------------------------------------------------------------------
(* Types *)

LEMMA MessagesTyped ==
  ASSUME TypeInv, DashboardNext
  PROVE  LifecycleTypeOK'
<1>0. LifecycleTypeOK /\ CallsFit
  BY DEF TypeInv, DashboardTypeOK
<1>1. CASE UNCHANGED lifecycleVars
  BY <1>0, <1>1 DEF LifecycleTypeOK, lifecycleVars
<1>2. ASSUME NEW m \in Messages, Schedule(m)
      PROVE  LifecycleTypeOK'
  BY <1>0, <1>2 DEF LifecycleTypeOK, Schedule, MessageStatuses
<1>3. ASSUME NEW m \in Messages, Cancel(m)
      PROVE  LifecycleTypeOK'
  BY <1>0, <1>3 DEF LifecycleTypeOK, Cancel, MessageStatuses
<1>4. ASSUME NEW M, Requeue(M)
      PROVE  LifecycleTypeOK'
  BY <1>0, <1>4 DEF LifecycleTypeOK, Requeue, MessageStatuses
<1>5. CASE Clear
  BY <1>0, <1>5 DEF LifecycleTypeOK, Clear
<1>6. ASSUME NEW m \in Messages, NEW t \in Attempts, Dispatch(m, t)
      PROVE  LifecycleTypeOK'
  BY <1>0, <1>6 DEF LifecycleTypeOK, Dispatch, MessageStatuses
<1>7. ASSUME NEW m \in Messages, NEW s \in Reported, Progress(m, s)
      PROVE  LifecycleTypeOK'
  <2>1. s \in MessageStatuses
    BY DashboardAssumption
  <2>2. QED
    BY <1>0, <1>7, <2>1 DEF LifecycleTypeOK, Progress
<1>8. CASE Behind
  BY <1>0, <1>1, <1>4, <1>6, <1>7, <1>8
     DEF Behind, GatewayClaims, GatewayReports, SweepReads, SweepRequeues
<1>9. CASE \E i \in DOMAIN calls : ServeSchedule(i) \/ ServeClear(i)
  BY <1>2, <1>5, <1>9 DEF ServeSchedule, ServeClear
<1>10. CASE \E i \in DOMAIN calls : ServeWrite(i)
  BY <1>0, <1>1, <1>3, <1>4, <1>10, WriteServed
<1>11. QED
  BY <1>1, <1>8, <1>9, <1>10, MessagesWritten

LEMMA BookTyped ==
  ASSUME TypeInv, DashboardNext
  PROVE  BookTypeOK'
<1> DEFINE Unique(b) == \A r, s \in Recipients :
             r # s /\ b[r] # None /\ b[s] # None => b[r].handle # b[s].handle
<1>0. /\ CallsFit /\ QueriesHold
      /\ book \in [Recipients -> Entries \cup {None}]
      /\ drafts \in [Recipients -> Entries \cup {None}]
      /\ Unique(book)
  BY DEF TypeInv, DashboardTypeOK, BookTypeOK
<1>1. ASSUME NEW i \in DOMAIN calls, ServeAdd(i)
      PROVE  book' \in [Recipients -> Entries \cup {None}] /\ Unique(book') /\ UNCHANGED drafts
  <2>1. calls[i].arg \in Entries
    BY <1>0, <1>1 DEF CallsFit, Fits, ServeAdd, Arrived
  <2>2. PICK r \in Recipients :
          book' = IF Free(r, calls[i].arg.handle) THEN [book EXCEPT ![r] = calls[i].arg] ELSE book
    BY <1>1 DEF ServeAdd
  <2>3. CASE Free(r, calls[i].arg.handle)
    <3>1. book' = [book EXCEPT ![r] = calls[i].arg]
      BY <2>2, <2>3
    <3>2. \A s \in Recipients \ {r} :
            book'[s] = book[s] /\ (book[s] = None \/ book[s].handle # calls[i].arg.handle)
      BY <1>0, <2>3, <3>1 DEF Free
    <3>3. book'[r] = calls[i].arg
      BY <1>0, <3>1
    <3>4. Unique(book')
      BY <1>0, <3>2, <3>3
    <3>5. QED
      BY <1>0, <1>1, <2>1, <3>1, <3>4 DEF ServeAdd
  <2>4. CASE ~Free(r, calls[i].arg.handle)
    BY <1>0, <1>1, <2>2, <2>4 DEF ServeAdd
  <2>5. QED
    BY <2>3, <2>4
<1>2. ASSUME NEW i \in DOMAIN calls, ServeSave(i)
      PROVE  book' \in [Recipients -> Entries \cup {None}] /\ Unique(book') /\ UNCHANGED drafts
  <2> DEFINE r == calls[i].arg.id
             patch == calls[i].arg.patch
             next == Patched(book[r], patch)
  <2>1. r \in Recipients /\ patch \in RowPatches /\ Sorted(patch)
    BY <1>0, <1>2 DEF CallsFit, Fits, ServeSave, Arrived, Saves
  <2>2. book' = IF book[r] # None /\ Free(r, next.handle) THEN [book EXCEPT ![r] = next] ELSE book
    BY <1>2 DEF ServeSave
  <2>3. CASE book[r] # None /\ Free(r, next.handle)
    <3>1. book' = [book EXCEPT ![r] = next] /\ Free(r, next.handle)
      BY <2>2, <2>3
    <3>2. book[r] \in Entries
      BY <1>0, <2>1, <2>3
    <3>3. next \in Entries
      <4>1. DOMAIN book[r] = {"name", "handle"}
            /\ book[r]["name"] \in Names /\ book[r]["handle"] \in Handles
        BY <3>2 DEF Entries
      <4>2. next = [f \in {"name", "handle"} |->
                      IF f \in DOMAIN patch THEN patch[f] ELSE book[r][f]]
        BY <4>1 DEF Patched
      <4>3. next["name"] \in Names /\ next["handle"] \in Handles
        BY <2>1, <4>1, <4>2 DEF Sorted
      <4>4. next = [name |-> next["name"], handle |-> next["handle"]]
        BY <4>2
      <4>5. QED
        BY <4>3, <4>4 DEF Entries
    <3> HIDE DEF next
    <3>4. \A s \in Recipients \ {r} :
            book'[s] = book[s] /\ (book[s] = None \/ book[s].handle # next.handle)
      BY <1>0, <3>1 DEF Free
    <3>5. book'[r] = next
      BY <1>0, <2>1, <3>1
    <3>6. Unique(book')
      BY <1>0, <3>4, <3>5
    <3>7. QED
      BY <1>0, <1>2, <3>1, <3>3, <3>6 DEF ServeSave
  <2>4. CASE ~(book[r] # None /\ Free(r, next.handle))
    BY <1>0, <1>2, <2>2, <2>4 DEF ServeSave
  <2>5. QED
    BY <2>3, <2>4
<1>3. ASSUME NEW i \in DOMAIN calls, ServeRemove(i)
      PROVE  book' \in [Recipients -> Entries \cup {None}] /\ Unique(book') /\ UNCHANGED drafts
  BY <1>0, <1>3 DEF ServeRemove
<1>4. CASE UNCHANGED bookVars
  BY <1>0, <1>4 DEF BookTypeOK, bookVars
<1>5. CASE \E i \in DOMAIN calls : ServeBook(i)
  BY <1>0, <1>1, <1>2, <1>3, <1>5 DEF ServeBook, BookTypeOK
<1>6. CASE EditBook
  <2>1. UNCHANGED book
    BY <1>6 DEF EditBook, ClickAdd, StartEdit, StopEdit, ClickSave, ClickRemove, EditDraft, bookVars
  <2>2. ASSUME NEW r \in Recipients, StartEdit(r)
        PROVE  drafts' \in [Recipients -> Entries \cup {None}]
    <3>1. Row(r) \in Entries
      BY <2>2, RowShown DEF StartEdit
    <3>2. QED
      BY <1>0, <2>2, <3>1 DEF StartEdit
  <2>3. drafts' \in [Recipients -> Entries \cup {None}]
    BY <1>0, <1>6, <2>2 DEF EditBook, ClickAdd, StopEdit, ClickSave, ClickRemove, EditDraft, bookVars
  <2>4. QED
    BY <1>0, <2>1, <2>3 DEF BookTypeOK
<1>7. CASE LandFetch("recipients")
  <2>1. UNCHANGED book
    BY <1>7 DEF LandFetch
  <2>2. drafts' \in [Recipients -> Entries \cup {None}]
    BY <1>0, <1>7 DEF LandFetch
  <2>3. QED
    BY <1>0, <2>1, <2>2 DEF BookTypeOK
<1>8. CASE \E i \in DOMAIN calls : SettleCall(i)
  <2>1. UNCHANGED book
    BY <1>8 DEF SettleCall, SettleBook, bookVars
  <2>2. drafts' \in [Recipients -> Entries \cup {None}]
    BY <1>0, <1>8 DEF SettleCall, SettleBook, bookVars
  <2>3. QED
    BY <1>0, <2>1, <2>2 DEF BookTypeOK
<1>9. QED
  BY <1>4, <1>5, <1>6, <1>7, <1>8, BookWritten

\* The page, its settings, its form, and what it was told.
ScreenOK ==
  /\ page \in {"schedule", "dashboard", "settings", "recipients"}
  /\ settings \in SettingsRows
  /\ body \in [Messages -> 0 .. MaxTexts]
  /\ confirmed \subseteq Messages
  /\ form \in [phase : {"idle", "sending", "sent"}, text : 0 .. MaxTexts,
               typed : 0 .. MaxTexts, landed : BOOLEAN]

LEMMA ScreenTyped ==
  ASSUME TypeInv, DashboardNext
  PROVE  ScreenOK'
<1>0. ScreenOK /\ CallsFit /\ UNCHANGED page /\ MaxTexts \in Nat
  BY ScreenWritten, DashboardAssumption DEF TypeInv, DashboardTypeOK, ScreenOK
<1>1. CASE UNCHANGED <<settings, form, body, confirmed>>
  BY <1>0, <1>1 DEF ScreenOK
<1>2. CASE Type
  <2>1. form.typed \in 0 .. MaxTexts /\ form.typed < MaxTexts
    BY <1>0, <1>2 DEF Type, ScreenOK
  <2>2. form.typed + 1 \in 0 .. MaxTexts
    BY <1>0, <2>1
  <2>3. form' = [form EXCEPT !.text = form.typed + 1, !.typed = form.typed + 1]
        /\ UNCHANGED <<settings, body, confirmed>>
    BY <1>2 DEF Type
  <2>4. QED
    BY <1>0, <2>2, <2>3 DEF ScreenOK
<1>3. CASE Submit \/ PlaneLeft \/ SentTimer
  <2>1. 0 \in 0 .. MaxTexts
    BY <1>0
  <2>2. UNCHANGED <<settings, body, confirmed>>
    BY <1>3 DEF Submit, PlaneLeft, SentTimer
  <2>3. \/ form' = [form EXCEPT !.phase = "sending", !.landed = FALSE]
        \/ form' = [form EXCEPT !.phase = "sent", !.text = 0, !.landed = FALSE]
        \/ form' = [form EXCEPT !.phase = "idle"]
    BY <1>3 DEF Submit, PlaneLeft, SentTimer
  <2>4. QED
    BY <1>0, <2>1, <2>2, <2>3 DEF ScreenOK
<1>4. CASE \E i \in DOMAIN calls : ServeSchedule(i)
  <2>1. PICK i \in DOMAIN calls : ServeSchedule(i)
    BY <1>4
  <2>2. calls[i].arg \in 0 .. MaxTexts
    BY <1>0, <2>1 DEF CallsFit, Fits, ServeSchedule, Arrived
  <2>3. PICK m \in Messages : body' = [body EXCEPT ![m] = calls[i].arg]
    BY <2>1 DEF ServeSchedule
  <2>4. UNCHANGED <<settings, form, confirmed>>
    BY <2>1 DEF ServeSchedule
  <2>5. QED
    BY <1>0, <2>2, <2>3, <2>4 DEF ScreenOK
<1>5. CASE \E i \in DOMAIN calls : ServePatch(i)
  <2>1. PICK i \in DOMAIN calls : ServePatch(i)
    BY <1>5
  <2> DEFINE patch == calls[i].arg
  <2>2. patch \in SettingsPatches
    BY <1>0, <2>1 DEF CallsFit, Fits, ServePatch, Arrived
  <2>3. settings' = Patched(settings, patch) /\ UNCHANGED <<form, body, confirmed>>
    BY <2>1 DEF ServePatch
  <2>4. settings \in SettingsRows
    BY <1>0 DEF ScreenOK
  <2> HIDE DEF patch
  <2>5. /\ "paused" \in DOMAIN patch => patch["paused"] \in BOOLEAN
        /\ "sendIntervalSeconds" \in DOMAIN patch => patch["sendIntervalSeconds"] \in {60, 3600}
        /\ "maxAttempts" \in DOMAIN patch => patch["maxAttempts"] \in {1, 3}
    BY <2>2 DEF SettingsPatches
  <2>6. /\ DOMAIN settings = {"paused", "sendIntervalSeconds", "maxAttempts"}
        /\ settings["paused"] \in BOOLEAN /\ settings["sendIntervalSeconds"] \in {60, 3600}
        /\ settings["maxAttempts"] \in {1, 3}
    BY <2>4 DEF SettingsRows
  <2>7. settings' = [f \in {"paused", "sendIntervalSeconds", "maxAttempts"} |->
                       IF f \in DOMAIN patch THEN patch[f] ELSE settings[f]]
    BY <2>3, <2>6 DEF Patched
  <2>8. settings' = [paused |-> settings'["paused"],
                     sendIntervalSeconds |-> settings'["sendIntervalSeconds"],
                     maxAttempts |-> settings'["maxAttempts"]]
    BY <2>7
  <2>9. /\ settings'["paused"] \in BOOLEAN
        /\ settings'["sendIntervalSeconds"] \in {60, 3600}
        /\ settings'["maxAttempts"] \in {1, 3}
    BY <2>5, <2>6, <2>7
  <2>10. settings' \in SettingsRows
    BY <2>8, <2>9 DEF SettingsRows
  <2>11. QED
    BY <1>0, <2>3, <2>10 DEF ScreenOK
<1>6. CASE \E i \in DOMAIN calls : SettleCall(i)
  <2>1. PICK i \in DOMAIN calls : SettleCall(i)
    BY <1>6
  <2>2. /\ UNCHANGED <<settings, body>>
        /\ \/ form' = form
           \/ form' = [form EXCEPT !.landed = TRUE]
           \/ form' = [form EXCEPT !.phase = "idle"]
    BY <2>1 DEF SettleCall
  <2>3. form' \in [phase : {"idle", "sending", "sent"}, text : 0 .. MaxTexts,
                   typed : 0 .. MaxTexts, landed : BOOLEAN]
    BY <1>0, <2>2 DEF ScreenOK
  <2>4. \/ confirmed' = confirmed
        \/ /\ calls[i].kind = "cancel" /\ calls[i].pc = "ok"
           /\ confirmed' = confirmed \cup {calls[i].arg}
    BY <2>1 DEF SettleCall
  <2>5. calls[i].kind = "cancel" /\ calls[i].pc = "ok" => calls[i].arg \in Messages
    BY <1>0 DEF CallsFit, Fits
  <2>6. confirmed' \subseteq Messages
    BY <1>0, <2>4, <2>5 DEF ScreenOK
  <2>7. QED
    BY <1>0, <2>2, <2>3, <2>6 DEF ScreenOK
<1>7. CASE SweepRequeues
  <2>1. UNCHANGED <<settings, form, body>> /\ confirmed' \subseteq confirmed
    BY <1>7 DEF SweepRequeues
  <2>2. QED
    BY <1>0, <2>1 DEF ScreenOK
<1>8. QED
  BY <1>1, <1>2, <1>3, <1>4, <1>5, <1>6, <1>7, ScreenWritten

\* What a sweep has read.
LEMMA SweptTyped ==
  ASSUME TypeInv, DashboardNext
  PROVE  swept' \subseteq Messages
<1>0. swept \subseteq Messages
  BY DEF TypeInv, DashboardTypeOK
<1>1. CASE \E i \in DOMAIN calls : Handle(i)
  BY <1>0, <1>1 DEF Handle, ServeSchedule, ServeRead, ServeWrite, ServeClear, ServePatch, ServeBook,
                    SettleCall
<1>2. CASE \E k \in Keys : Fetch(k)
  BY <1>0, <1>2 DEF Fetch, ServeFetch, ServePage, LandFetch
<1>3. CASE Type \/ Submit \/ PlaneLeft \/ SentTimer \/ Click \/ EditBook \/ Lose
  BY <1>0, <1>3 DEF Type, Submit, PlaneLeft, SentTimer, Click, EditBook, Lose
<1>4. CASE Behind
  BY <1>0, <1>4 DEF Behind, GatewayClaims, GatewayReports, SweepReads, SweepRequeues, With
<1>5. QED
  BY <1>1, <1>2, <1>3, <1>4 DEF DashboardNext, Behind

\* The calls and the queries, over every step.
LEMMA PageTyped ==
  ASSUME TypeInv, DashboardNext
  PROVE  CallsFit' /\ QueriesHold'
<1>0. CallsFit /\ QueriesHold
  BY DEF TypeInv
<1>1. CASE \E i \in DOMAIN calls : Handle(i)
  <2>1. PICK i \in DOMAIN calls : Handle(i)
    BY <1>1
  <2>2. CASE SettleCall(i)
    BY <1>0, <2>2, AnswerSettles
  <2>3. CASE \/ ServeSchedule(i) \/ ServeRead(i) \/ ServeWrite(i) \/ ServeClear(i)
             \/ ServePatch(i) \/ ServeBook(i)
    <3>1. CallsFit' /\ UNCHANGED queries
      BY <1>0, <2>3, ScheduleServed, ReadServed, WriteServed, ClearServed, PatchServed, BookServed
    <3>2. QED
      BY <1>0, <3>1 DEF QueriesHold, Holds
  <2>4. QED
    BY <2>1, <2>2, <2>3 DEF Handle
<1>2. CASE \E k \in Keys : Fetch(k)
  <2>1. PICK k \in Keys : Fetch(k)
    BY <1>2
  <2>2. CASE ServeFetch(k) \/ ServePage
    <3>1. QueriesHold' /\ UNCHANGED calls
      BY <2>2, FetchServed, PageServed
    <3>2. QED
      BY <1>0, <3>1 DEF CallsFit
  <2>3. CASE LandFetch(k)
    BY <1>0, <2>3, FetchLands, QueryLands
  <2>4. QED
    BY <2>1, <2>2, <2>3 DEF Fetch
<1>3. CASE Submit \/ Click \/ EditBook
  <2>1. CallsFit' /\ UNCHANGED queries
    BY <1>3, SubmitSends, ClickAdds, EditAdds
  <2>2. QED
    BY <1>0, <2>1 DEF QueriesHold, Holds
<1>4. CASE Type \/ PlaneLeft \/ SentTimer \/ Behind
  <2>1. UNCHANGED <<calls, queries>>
    BY <1>4, BehindUnseen DEF Type, PlaneLeft, SentTimer, cacheVars
  <2>2. QED
    BY <1>0, <2>1 DEF QueriesHold, Holds, CallsFit
<1>5. CASE Lose
  <2>1. CASE \E k \in Open : FetchFails(k)
    <3>1. PICK k \in Open : FetchFails(k)
      BY <2>1
    <3>2. k \in Keys
      BY Pages DEF TypeInv
    <3>3. QueriesHold' /\ UNCHANGED calls
      BY <1>0, <3>1, <3>2, QueryFails
    <3>4. QED
      BY <1>0, <3>3 DEF CallsFit
  <2>2. CASE \E i \in DOMAIN calls : CallLost(i)
    <3>1. CallsFit' /\ UNCHANGED queries
      BY <1>0, <2>2, CallIsLost
    <3>2. QED
      BY <1>0, <3>1 DEF QueriesHold, Holds
  <2>3. QED
    BY <1>5, <2>1, <2>2 DEF Lose
<1>6. QED
  BY <1>1, <1>2, <1>3, <1>4, <1>5 DEF DashboardNext, Behind

\* What was fetched is there as long as a fetch has it.
LEMMA FetchedIsThere ==
  \A k \in Keys : \A q : Holds(k, q) => (q.fetch \in {"half", "read"} <=> q.got # None)
  BY AnswersAreData DEF Holds, Stages

LEMMA TypeInitially == DashboardInit => TypeInv
<1> SUFFICES ASSUME DashboardInit
             PROVE  TypeInv
  OBVIOUS
<1>1. MaxTexts \in Nat /\ 0 \in 0 .. MaxTexts
  BY DashboardAssumption
<1>2. LifecycleTypeOK /\ page \in {"schedule", "dashboard", "settings", "recipients"}
  BY DashboardAssumption DEF DashboardInit, LifecycleTypeOK
<1>3. BookTypeOK
  BY DEF DashboardInit, BookInit, BookTypeOK
<1>4. CallsFit
  <2>1. calls = <<>>
    BY DEF DashboardInit, CacheInit
  <2>2. <<>> \in Seq(Calls) /\ DOMAIN <<>> = {}
    OBVIOUS
  <2>3. QED
    BY <2>1, <2>2 DEF CallsFit
<1>5. QueriesHold
  BY DEF DashboardInit, CacheInit, Mounted, QueriesHold, Holds, Stages
<1>6. \A k \in Keys : queries[k].fetch \in {"half", "read"} <=> queries[k].got # None
  BY <1>5, FetchedIsThere DEF QueriesHold
<1>7. ScreenOK
  <2>1. settings \in SettingsRows
    BY DEF DashboardInit, SettingsRows
  <2>2. body \in [Messages -> 0 .. MaxTexts] /\ confirmed \subseteq Messages
    BY <1>1 DEF DashboardInit
  <2>3. form \in [phase : {"idle", "sending", "sent"}, text : 0 .. MaxTexts,
                  typed : 0 .. MaxTexts, landed : BOOLEAN]
    BY <1>1 DEF DashboardInit
  <2>4. QED
    BY <1>2, <2>1, <2>2, <2>3 DEF ScreenOK
<1>8. swept \subseteq Messages
  BY DEF DashboardInit
<1>9. QED
  BY <1>2, <1>3, <1>4, <1>5, <1>6, <1>7, <1>8 DEF TypeInv, DashboardTypeOK, ScreenOK

LEMMA TypeKept == TypeInv /\ [DashboardNext]_vars => TypeInv'
<1>1. CASE TypeInv /\ DashboardNext
  <2>1. LifecycleTypeOK' /\ BookTypeOK' /\ ScreenOK' /\ CallsFit' /\ QueriesHold'
    BY <1>1, MessagesTyped, BookTyped, ScreenTyped, PageTyped
  <2>2. \A k \in Keys : Holds(k, queries'[k])
    BY <2>1 DEF QueriesHold, Holds
  <2>3. \A k \in Keys : queries'[k].fetch \in {"half", "read"} <=> queries'[k].got # None
    BY <2>2, FetchedIsThere
  <2>4. swept' \subseteq Messages
    BY <1>1, SweptTyped
  <2>5. QED
    BY <2>1, <2>3, <2>4 DEF TypeInv, DashboardTypeOK, ScreenOK
<1>2. CASE TypeInv /\ UNCHANGED vars
  BY <1>2 DEF vars, lifecycleVars, cacheVars, bookVars, screenVars, TypeInv, DashboardTypeOK,
     LifecycleTypeOK, BookTypeOK, CallsFit, QueriesHold, Holds
<1>3. QED
  BY <1>1, <1>2

\* The tables, the address book with its unique handle, the queries and the form keep
\* their types, whatever is clicked, lost or answered.
THEOREM DashboardTypeCorrect == DashboardSpec => []DashboardTypeOK
<1>1. TypeInv => DashboardTypeOK
  BY DEF TypeInv
<1>2. QED
  BY TypeInitially, TypeKept, <1>1, PTL DEF DashboardSpec

-----------------------------------------------------------------------------
(* Positions *)

LEMMA PlacesInitially == DashboardInit => PlacesInv
  BY DEF DashboardInit, CacheInit, Mounted, Keys, PlacesInv

LEMMA PlacesKept == TypeInv /\ PlacesInv /\ [DashboardNext]_vars => PlacesInv'
<1> SUFFICES ASSUME TypeInv, PlacesInv, [DashboardNext]_vars
             PROVE  PlacesInv'
  OBVIOUS
<1>0. QueriesHold /\ CallsFit /\ "queue" \in Keys
  BY DEF TypeInv, Keys
<1>1. CASE UNCHANGED queries
  BY <1>1 DEF PlacesInv, Climbs, RowsClimb
\* It is enough to look at the query of the queue.
<1>2. ASSUME queries'["queue"].data = queries["queue"].data,
             \/ queries'["queue"].fetch \in {"idle", "asked"}
             \/ queries'["queue"] = queries["queue"]
      PROVE  PlacesInv'
  BY <1>2 DEF PlacesInv, Climbs, RowsClimb
<1>3. ASSUME NEW k \in Keys, ServeFetch(k)
      PROVE  PlacesInv'
  <2>1. CASE k = "queue"
    <3>1. /\ queries'["queue"].data = queries["queue"].data
          /\ queries'["queue"].fetch = "half" /\ queries'["queue"].got = Projection
      BY <1>3, <2>1, FetchServed
    <3>2. Climbs(queries'["queue"].got)
      BY <3>1, Projected
    <3>3. QED
      BY <3>1, <3>2 DEF PlacesInv, Climbs, RowsClimb
  <2>2. CASE k # "queue"
    <3>1. queries'["queue"] = queries["queue"]
      BY <1>0, <1>3, <2>2, FetchServed DEF Alone
    <3>2. QED
      BY <1>2, <3>1
  <2>3. QED
    BY <2>1, <2>2
<1>4. CASE ServePage
  <2>1. /\ queries["queue"].fetch = "half" /\ queries["queue"].got \in Projections
        /\ queries'["queue"].fetch = "read"
        /\ queries'["queue"].got = QueueRows(queries["queue"].got)
        /\ queries'["queue"].data = queries["queue"].data
    BY <1>4, PageServed
  <2>2. Climbs(queries["queue"].got)
    BY <2>1 DEF PlacesInv
  <2>3. RowsClimb(QueueRows(queries["queue"].got))
    BY <2>1, <2>2, RowsOfQueue
  <2>4. QED
    BY <2>1, <2>3 DEF PlacesInv, Climbs, RowsClimb
<1>5. ASSUME NEW k \in Keys, LandFetch(k)
      PROVE  PlacesInv'
  <2>1. CASE k = "queue"
    <3>1. /\ queries["queue"].fetch = "read" /\ queries'["queue"].fetch = "idle"
          /\ queries'["queue"].data = queries["queue"].got
      BY <1>0, <1>5, <2>1, QueryLands DEF LandFetch
    <3>2. RowsClimb(queries["queue"].got)
      BY <3>1 DEF PlacesInv
    <3>3. QED
      BY <3>1, <3>2 DEF PlacesInv, Climbs, RowsClimb
  <2>2. CASE k # "queue"
    <3>1. queries'["queue"] = queries["queue"]
      BY <1>0, <1>5, <2>2, QueryLands DEF LandFetch, Alone
    <3>2. QED
      BY <1>2, <3>1
  <2>3. QED
    BY <2>1, <2>2
<1>6. ASSUME NEW k \in Keys, FetchFails(k)
      PROVE  PlacesInv'
  BY <1>0, <1>2, <1>6, QueryFails DEF Alone
<1>7. ASSUME NEW i \in DOMAIN calls, SettleCall(i)
      PROVE  PlacesInv'
  BY <1>0, <1>2, <1>7, AnswerSettles DEF Restarted
<1>8. QED
  BY <1>1, <1>3, <1>4, <1>5, <1>6, <1>7, QueriesWritten DEF vars, cacheVars

\* Down the page the positions increase, although they are read before the messages.
THEOREM PositionsAlwaysIncrease == DashboardSpec => []PositionsIncrease
<1>1. TypeInv /\ PlacesInv => PositionsIncrease
  BY DEF PlacesInv, RowsClimb, PositionsIncrease, Shown
<1>2. QED
  BY TypeInitially, TypeKept, PlacesInitially, PlacesKept, <1>1, PTL DEF DashboardSpec

-----------------------------------------------------------------------------
(* Scheduled once *)

LEMMA OnceInitially == DashboardInit => OnceInv
<1> SUFFICES ASSUME DashboardInit
             PROVE  Once
  BY DEF OnceInv
<1>1. calls = <<>> /\ body = [m \in Messages |-> 0]
      /\ form = [phase |-> "idle", text |-> 0, typed |-> 0, landed |-> FALSE]
  BY DEF DashboardInit, CacheInit
<1>2. DOMAIN calls = {}
  BY <1>1
<1>3. QED
  BY <1>1, <1>2 DEF Once

\* A step of a call that is not a submission, or an answer that is taken.
Bystander ==
  \/ CallsSame
  \/ \E i \in DOMAIN calls : \E p \in {"found", "ok", "error"} :
       Moved(i, p) /\ calls[i].kind # "schedule"
  \/ \E i \in DOMAIN calls : Ended(i)
  \/ \E n, arg : \E kind \in Kinds \ {"schedule"} : Added(n, kind, arg)

\* No submission fails, and none is on its way that was not before.
Dwindle ==
  /\ \A i \in DOMAIN calls' : calls'[i].kind = "schedule" => calls'[i].pc # "error"
  /\ \A i \in DOMAIN calls' : \A t \in 0 .. MaxTexts :
       Carries(i, t)' => i \in DOMAIN calls /\ Carries(i, t)

LEMMA Dwindles ==
  ASSUME Once, Bystander
  PROVE  Dwindle
<1>1. CASE CallsSame
  BY <1>1 DEF Once, CallsSame, Same, Carries, Dwindle
<1>2. ASSUME NEW i \in DOMAIN calls, NEW p \in {"found", "ok", "error"},
             Moved(i, p), calls[i].kind # "schedule"
      PROVE  Dwindle
  BY <1>2 DEF Once, Moved, Others, Same, Carries, Dwindle
<1>3. ASSUME NEW i \in DOMAIN calls, Ended(i)
      PROVE  Dwindle
  BY <1>3 DEF Once, Ended, Others, Same, Carries, Dwindle
<1>4. ASSUME NEW n, NEW arg, NEW kind \in Kinds \ {"schedule"}, Added(n, kind, arg)
      PROVE  Dwindle
  BY <1>4 DEF Once, Added, Same, Carries, Dwindle
<1>5. QED
  BY <1>1, <1>2, <1>3, <1>4 DEF Bystander

\* What a smaller number of submissions leaves to show.
LEMMA DwindlingKeepsOnce ==
  ASSUME TypeInv, Once, Dwindle, UNCHANGED body,
         form'.typed = form.typed,
         form'.text = 0 \/ form'.text = form.text,
         form'.phase # "sending" => form.phase # "sending" \/ form'.text = 0
  PROVE  Once'
<1>1. form.text \in 0 .. MaxTexts /\ form.typed \in 0 .. MaxTexts /\ MaxTexts \in Nat
  BY DashboardAssumption DEF TypeInv, DashboardTypeOK
<1>2. /\ \A i \in DOMAIN calls' : calls'[i].kind = "schedule" => calls'[i].pc # "error"
      /\ \A m \in Messages : body'[m] <= form'.typed
      /\ \A m, n \in Messages : body'[m] = body'[n] /\ body'[m] # 0 => m = n
      /\ form'.text <= form'.typed
  BY <1>1 DEF Once, Dwindle
<1>3. \A i \in DOMAIN calls' : \A t \in 0 .. MaxTexts :
        Carries(i, t)' => 0 < t /\ t <= form'.typed /\ \A m \in Messages : body'[m] # t
  BY DEF Once, Dwindle
<1>4. \A i, j \in DOMAIN calls' : \A t \in 0 .. MaxTexts : Carries(i, t)' /\ Carries(j, t)' => i = j
  BY DEF Once, Dwindle
<1>5. (form.phase # "sending" /\ form.text # 0 => Unused(form.text))'
  <2>1. SUFFICES ASSUME form'.phase # "sending", form'.text # 0
                 PROVE  Unused(form.text)'
    OBVIOUS
  <2>2. form'.text = form.text /\ Unused(form.text)
    BY <2>1 DEF Once
  <2>3. \A m \in Messages : body'[m] # form'.text
    BY <2>2 DEF Unused
  <2>4. \A i \in DOMAIN calls' :
          ~(calls'[i].pc = "sent" /\ calls'[i].kind = "schedule" /\ calls'[i].arg = form'.text)
    BY <1>1, <2>2 DEF Dwindle, Unused, Carries
  <2>5. QED
    BY <2>3, <2>4 DEF Unused, Carries
<1>6. QED
  BY <1>2, <1>3, <1>4, <1>5 DEF Once

LEMMA OnceTyped ==
  ASSUME TypeInv, Once, Type
  PROVE  Once'
<1> DEFINE t == form.typed + 1
<1>1. /\ form \in [phase : {"idle", "sending", "sent"}, text : 0 .. MaxTexts,
                   typed : 0 .. MaxTexts, landed : BOOLEAN]
      /\ body \in [Messages -> 0 .. MaxTexts] /\ MaxTexts \in Nat
  BY DashboardAssumption DEF TypeInv, DashboardTypeOK
<1>2. form' = [form EXCEPT !.text = t, !.typed = t] /\ UNCHANGED <<calls, body>>
  BY DEF Type, cacheVars
<1>3. form'.text = t /\ form'.typed = t /\ form.typed < t /\ t \in Nat
  BY <1>1, <1>2
<1>4. \A m \in Messages : body[m] < t
  BY <1>1 DEF Once
<1>5. ASSUME NEW i \in DOMAIN calls, NEW u \in 0 .. MaxTexts, Carries(i, u)
      PROVE  u < t
  BY <1>1, <1>5 DEF Once
<1>6. /\ \A m \in Messages : body'[m] <= form'.typed
      /\ form'.text <= form'.typed
  BY <1>1, <1>2, <1>3, <1>4
<1>7. \A i \in DOMAIN calls : \A u \in 0 .. MaxTexts :
        Carries(i, u) => 0 < u /\ u <= form'.typed /\ \A m \in Messages : body[m] # u
  BY <1>1, <1>3, <1>5 DEF Once
<1>8. Unused(t)
  <2>1. \A m \in Messages : body[m] # t
    BY <1>1, <1>4
  <2>2. ASSUME NEW i \in DOMAIN calls, Carries(i, t)
        PROVE  FALSE
    <3>1. calls[i].kind = "schedule" /\ calls[i].arg = t /\ calls[i].pc = "sent"
      BY <2>2 DEF Carries
    <3>2. t \in 0 .. MaxTexts
      BY <3>1 DEF TypeInv, CallsFit, Fits
    <3>3. t < t
      BY <1>5, <2>2, <3>2
    <3>4. QED
      BY <1>3, <3>3
  <2>3. QED
    BY <2>1, <2>2 DEF Unused
<1> HIDE DEF t
<1>9. Unused(form.text)'
  BY <1>2, <1>3, <1>8 DEF Unused, Carries
<1>10. QED
  BY <1>2, <1>6, <1>7, <1>9 DEF Once, Carries

\* The button is disabled while a message is being sent, so what is submitted is a
\* text that nothing carries.
LEMMA OnceSubmitted ==
  ASSUME TypeInv, Once, Submit
  PROVE  Once'
<1> DEFINE n == Len(calls) + 1
           t == form.text
<1>1. /\ form \in [phase : {"idle", "sending", "sent"}, text : 0 .. MaxTexts,
                   typed : 0 .. MaxTexts, landed : BOOLEAN]
      /\ MaxTexts \in Nat
  BY DashboardAssumption DEF TypeInv, DashboardTypeOK
<1>2. Added(n, "schedule", t)
  BY SubmitSends
<1>3. /\ form.phase = "idle" /\ t # 0 /\ UNCHANGED body
      /\ form' = [form EXCEPT !.phase = "sending", !.landed = FALSE]
  BY DEF Submit, ButtonEnabled
<1>4. Unused(t) /\ t <= form.typed
  BY <1>3 DEF Once
<1>5. form'.phase = "sending" /\ form'.text = t /\ form'.typed = form.typed
  BY <1>1, <1>3
<1> HIDE DEF n, t
<1>6. \A i \in DOMAIN calls' : \A u \in 0 .. MaxTexts :
        Carries(i, u)' => (i \in DOMAIN calls /\ Carries(i, u)) \/ (i = n /\ u = t)
  BY <1>2 DEF Added, Same, Carries
<1>7. \A i \in DOMAIN calls' : calls'[i].kind = "schedule" => calls'[i].pc # "error"
  BY <1>2 DEF Once, Added, Same
<1>8. t \in 0 .. MaxTexts /\ 0 < t
  BY <1>1, <1>3 DEF t
<1>9. \A i \in DOMAIN calls' : \A u \in 0 .. MaxTexts :
        Carries(i, u)' => 0 < u /\ u <= form'.typed /\ \A m \in Messages : body'[m] # u
  BY <1>3, <1>4, <1>5, <1>6, <1>8 DEF Once, Unused
<1>10. \A i, j \in DOMAIN calls' : \A u \in 0 .. MaxTexts :
         Carries(i, u)' /\ Carries(j, u)' => i = j
  BY <1>4, <1>6 DEF Once, Unused
<1>11. /\ \A m \in Messages : body'[m] <= form'.typed
       /\ \A k, m \in Messages : body'[k] = body'[m] /\ body'[k] # 0 => k = m
       /\ form'.text <= form'.typed
  BY <1>3, <1>4, <1>5 DEF Once
<1>12. QED
  BY <1>5, <1>7, <1>9, <1>10, <1>11 DEF Once

\* The message that is made is the only one that says what the call carried.
LEMMA OnceServed ==
  ASSUME TypeInv, Once, NEW i \in DOMAIN calls, ServeSchedule(i)
  PROVE  Once'
<1> DEFINE t == calls[i].arg
<1>1. /\ form \in [phase : {"idle", "sending", "sent"}, text : 0 .. MaxTexts,
                   typed : 0 .. MaxTexts, landed : BOOLEAN]
      /\ body \in [Messages -> 0 .. MaxTexts] /\ MaxTexts \in Nat /\ CallsFit
  BY DashboardAssumption DEF TypeInv, DashboardTypeOK
<1>2. Moved(i, "ok") /\ calls[i].pc = "sent" /\ calls[i].kind = "schedule"
  BY <1>1, ScheduleServed
<1>3. t \in 0 .. MaxTexts /\ Carries(i, t)
  BY <1>1, <1>2 DEF CallsFit, Fits, Carries
<1>4. PICK m \in Messages : body' = [body EXCEPT ![m] = t]
  BY DEF ServeSchedule
<1>5. UNCHANGED form
  BY DEF ServeSchedule
<1>6. body'[m] = t /\ \A k \in Messages \ {m} : body'[k] = body[k]
  BY <1>1, <1>4
<1>7. 0 < t /\ t <= form.typed /\ \A k \in Messages : body[k] # t
  BY <1>3 DEF Once
<1> HIDE DEF t
<1>8. \A j \in DOMAIN calls' : \A u \in 0 .. MaxTexts :
        Carries(j, u)' => j \in DOMAIN calls /\ j # i /\ Carries(j, u) /\ u # t
  <2>1. SUFFICES ASSUME NEW j \in DOMAIN calls', NEW u \in 0 .. MaxTexts, Carries(j, u)'
                 PROVE  j \in DOMAIN calls /\ j # i /\ Carries(j, u) /\ u # t
    OBVIOUS
  <2>2. j \in DOMAIN calls /\ j # i
    BY <1>2, <2>1 DEF Moved, Carries
  <2>3. Carries(j, u)
    BY <1>2, <2>1, <2>2 DEF Moved, Others, Same, Carries
  <2>4. QED
    BY <1>3, <2>2, <2>3 DEF Once
<1>9. \A j \in DOMAIN calls' : calls'[j].kind = "schedule" => calls'[j].pc # "error"
  BY <1>2 DEF Once, Moved, Others, Same
<1>10. \A j \in DOMAIN calls' : \A u \in 0 .. MaxTexts :
         Carries(j, u)' => 0 < u /\ u <= form'.typed /\ \A k \in Messages : body'[k] # u
  BY <1>5, <1>6, <1>8 DEF Once
<1>11. \A j, k \in DOMAIN calls' : \A u \in 0 .. MaxTexts :
         Carries(j, u)' /\ Carries(k, u)' => j = k
  BY <1>8 DEF Once
<1>12. /\ \A k \in Messages : body'[k] <= form'.typed
       /\ form'.text <= form'.typed
  BY <1>5, <1>6, <1>7 DEF Once
<1>13. \A k, l \in Messages : body'[k] = body'[l] /\ body'[k] # 0 => k = l
  BY <1>6, <1>7 DEF Once
<1>14. (form.phase # "sending" /\ form.text # 0 => Unused(form.text))'
  <2>1. SUFFICES ASSUME form.phase # "sending", form.text # 0
                 PROVE  Unused(form.text)'
    BY <1>5
  <2>2. Unused(form.text)
    BY <2>1 DEF Once
  <2>3. form.text # t
    BY <1>3, <2>2 DEF Unused
  <2>4. \A k \in Messages : body'[k] # form'.text
    BY <1>5, <1>6, <2>2, <2>3 DEF Unused
  <2>5. \A j \in DOMAIN calls' :
          ~(calls'[j].pc = "sent" /\ calls'[j].kind = "schedule" /\ calls'[j].arg = form'.text)
    BY <1>1, <1>5, <1>8, <2>2 DEF Unused, Carries
  <2>6. QED
    BY <2>4, <2>5 DEF Unused, Carries
<1>15. QED
  BY <1>9, <1>10, <1>11, <1>12, <1>13, <1>14 DEF Once

LEMMA OnceKept == TypeInv /\ OnceInv /\ [DashboardNext]_vars => OnceInv'
<1> SUFFICES ASSUME TypeInv, OnceInv, [DashboardNext]_vars
             PROVE  OnceInv'
  OBVIOUS
<1>0. /\ CallsFit /\ QueriesHold
      /\ form \in [phase : {"idle", "sending", "sent"}, text : 0 .. MaxTexts,
                   typed : 0 .. MaxTexts, landed : BOOLEAN]
  BY DEF TypeInv, DashboardTypeOK
\* What is lost stays lost, and the rest is about the other behaviours.
<1>1. ASSUME lost \subseteq lost', Once => Once'
      PROVE  OnceInv'
  BY <1>1 DEF OnceInv
\* Most steps are no step of a submission.
<1>2. ASSUME lost \subseteq lost', Bystander, UNCHANGED <<body, form>>
      PROVE  OnceInv'
  <2>1. CASE Once
    BY <1>1, <1>2, <2>1, Dwindles, DwindlingKeepsOnce
  <2>2. CASE ~Once
    BY <1>1, <1>2, <2>2
  <2>3. QED
    BY <2>1, <2>2
<1>3. CASE UNCHANGED vars
  <2>1. CallsSame /\ UNCHANGED <<lost, body, form>>
    BY <1>3 DEF vars, cacheVars, screenVars, CallsSame, Same
  <2>2. QED
    BY <1>2, <2>1 DEF Bystander
<1>4. ASSUME NEW i \in DOMAIN calls, Handle(i)
      PROVE  OnceInv'
  <2>1. CASE ServeSchedule(i)
    <3>1. UNCHANGED lost
      BY <1>0, <2>1, ScheduleServed
    <3>2. Once => Once'
      BY <2>1, OnceServed
    <3>3. QED
      BY <1>1, <3>1, <3>2
  <2>2. CASE ServeRead(i) \/ ServeWrite(i) \/ ServeClear(i) \/ ServePatch(i) \/ ServeBook(i)
    <3>1. UNCHANGED <<body, form>>
      BY <2>2 DEF ServeRead, ServeWrite, ServeClear, ServePatch, ServeBook, screenVars
    <3>2. /\ Moved(i, "found") \/ Moved(i, "ok") \/ Moved(i, "error")
          /\ calls[i].kind # "schedule" /\ UNCHANGED lost
      BY <1>0, <2>2, ReadServed, WriteServed, ClearServed, PatchServed, BookServed
    <3>3. QED
      BY <1>2, <3>1, <3>2 DEF Bystander
  <2>3. CASE SettleCall(i)
    <3>1. Ended(i) /\ lost \subseteq lost' /\ calls[i].pc \in {"ok", "error"} /\ UNCHANGED body
      BY <1>0, <2>3, AnswerSettles DEF SettleCall
    <3>2. CASE calls[i].kind # "schedule"
      <4>1. UNCHANGED form
        BY <2>3, <3>2 DEF SettleCall
      <4>2. QED
        BY <1>2, <3>1, <4>1 DEF Bystander
    <3>3. CASE calls[i].kind = "schedule" /\ calls[i].pc = "ok"
      <4>1. form' = [form EXCEPT !.landed = TRUE]
        BY <2>3, <3>3 DEF SettleCall
      <4>2. form'.typed = form.typed /\ form'.text = form.text /\ form'.phase = form.phase
        BY <1>0, <4>1
      <4>3. Once => Once'
        BY <3>1, <4>2, Dwindles, DwindlingKeepsOnce DEF Bystander
      <4>4. QED
        BY <1>1, <3>1, <4>3
    <3>4. CASE calls[i].kind = "schedule" /\ calls[i].pc = "error"
      BY <1>1, <3>1, <3>4 DEF Once
    <3>5. QED
      BY <3>1, <3>2, <3>3, <3>4
  <2>4. QED
    BY <1>4, <2>1, <2>2, <2>3 DEF Handle
<1>5. ASSUME NEW k \in Keys, Fetch(k)
      PROVE  OnceInv'
  <2>1. UNCHANGED <<body, form>>
    BY <1>5 DEF Fetch, ServeFetch, ServePage, LandFetch, screenVars
  <2>2. CallsSame /\ UNCHANGED lost
    BY <1>5, FetchLands DEF Fetch, ServeFetch, ServePage, CallsSame, Same
  <2>3. QED
    BY <1>2, <2>1, <2>2 DEF Bystander
<1>6. CASE Behind
  <2>1. CallsSame /\ UNCHANGED <<lost, body, form>>
    BY <1>6, BehindUnseen DEF cacheVars, CallsSame, Same
  <2>2. QED
    BY <1>2, <2>1 DEF Bystander
<1>7. CASE Type
  <2>1. UNCHANGED lost
    BY <1>7 DEF Type, cacheVars
  <2>2. QED
    BY <1>1, <1>7, <2>1, OnceTyped
<1>8. CASE Submit
  <2>1. UNCHANGED lost
    BY <1>8, SubmitSends
  <2>2. QED
    BY <1>1, <1>8, <2>1, OnceSubmitted
<1>9. CASE PlaneLeft \/ SentTimer
  <2>1. CallsSame /\ UNCHANGED <<lost, body>>
    BY <1>9 DEF PlaneLeft, SentTimer, cacheVars, CallsSame, Same
  <2>2. /\ form'.typed = form.typed
        /\ form'.text = 0 \/ form'.text = form.text
        /\ form'.phase # "sending" => form.phase # "sending" \/ form'.text = 0
    BY <1>0, <1>9 DEF PlaneLeft, SentTimer
  <2>3. Once => Once'
    BY <2>1, <2>2, Dwindles, DwindlingKeepsOnce DEF Bystander
  <2>4. QED
    BY <1>1, <2>1, <2>3
<1>10. CASE Click
  <2>1. UNCHANGED <<body, form>>
    BY <1>10 DEF Click, screenVars
  <2>2. Clicked /\ UNCHANGED lost
    BY <1>10, ClickAdds
  <2>3. QED
    BY <1>2, <2>1, <2>2 DEF Clicked, Bystander
<1>11. CASE EditBook
  <2>1. UNCHANGED <<body, form>>
    BY <1>11 DEF EditBook, screenVars
  <2>2. (CallsSame \/ Clicked) /\ UNCHANGED lost
    BY <1>11, EditAdds
  <2>3. QED
    BY <1>2, <2>1, <2>2 DEF Clicked, Bystander
<1>12. CASE Lose
  <2>1. UNCHANGED <<body, form>>
    BY <1>12 DEF Lose, screenVars
  <2>2. CASE \E k \in Open : FetchFails(k)
    <3>1. CallsSame /\ lost \subseteq lost'
      BY <2>2 DEF FetchFails, Loses, CallsSame, Same
    <3>2. QED
      BY <1>2, <2>1, <3>1 DEF Bystander
  <2>3. ASSUME NEW i \in DOMAIN calls, CallLost(i)
        PROVE  OnceInv'
    <3>1. Moved(i, "error") /\ lost' = lost \cup {calls[i].kind}
      BY <1>0, <2>3, CallIsLost
    <3>2. CASE calls[i].kind = "schedule"
      BY <3>1, <3>2 DEF OnceInv
    <3>3. CASE calls[i].kind # "schedule"
      BY <1>2, <2>1, <3>1, <3>3 DEF Bystander
    <3>4. QED
      BY <3>2, <3>3
  <2>4. QED
    BY <1>12, <2>2, <2>3 DEF Lose
<1>13. QED
  BY <1>3, <1>4, <1>5, <1>6, <1>7, <1>8, <1>9, <1>10, <1>11, <1>12
     DEF DashboardNext, Behind

\* One press of Schedule makes one message, for any number of texts and messages: a
\* text is in two messages only when a call to schedule, or its answer, was lost.
THEOREM AlwaysScheduledOnce == DashboardSpec => []ScheduledOnce
<1>1. OnceInv => ScheduledOnce
  BY DEF OnceInv, Once, ScheduledOnce
<1>2. QED
  BY TypeInitially, TypeKept, OnceInitially, OnceKept, <1>1, PTL DEF DashboardSpec

-----------------------------------------------------------------------------
(* No flicker *)

LEMMA FlickerInitially == DashboardInit => FlickerInv
<1> SUFFICES ASSUME DashboardInit
             PROVE  FlickerInv
  OBVIOUS
<1>1. confirmed = {} /\ calls = <<>>
  BY DEF DashboardInit, CacheInit
<1>2. DOMAIN calls = {}
  BY <1>1
<1>3. QED
  BY <1>1, <1>2 DEF FlickerInv

\* A message that is over stays over, but for a retry and for a sweep, which the page
\* no longer counts on.
LEMMA OverStays ==
  ASSUME TypeInv, DashboardNext, NEW m \in Messages, Over(m),
         \A i \in DOMAIN calls : calls[i].pc # "done" => calls[i].kind # "retry"
  PROVE  Over(m)' \/ m \notin confirmed'
<1>0. LifecycleTypeOK /\ CallsFit
  BY DEF TypeInv, DashboardTypeOK
<1>1. CASE UNCHANGED lifecycleVars
  BY <1>1 DEF lifecycleVars, Over
<1>2. CASE Behind
  <2>1. ASSUME NEW n \in Messages, NEW t \in Attempts, Dispatch(n, t)
        PROVE  Over(m)'
    BY <1>0, <2>1 DEF LifecycleTypeOK, Dispatch, Over
  <2>2. ASSUME NEW n \in Messages, NEW s \in Reported, Progress(n, s)
        PROVE  Over(m)'
    <3>1. n # m
      BY <2>2 DEF Over, Progress, Present, MessageStatuses, CanTransition, IsTerminal,
                  TerminalStatuses
    <3>2. QED
      BY <1>0, <2>2, <3>1 DEF LifecycleTypeOK, Progress, Over
  <2>3. ASSUME NEW n \in Messages, CanTransition(status[n], "FAILED"), Requeue({n})
        PROVE  Over(m)'
    <3>1. n # m
      BY <2>3 DEF Over, Requeue, Present, MessageStatuses, CanTransition, IsTerminal,
                  TerminalStatuses
    <3>2. QED
      BY <1>0, <2>3, <3>1 DEF LifecycleTypeOK, Requeue, Over
  <2>4. ASSUME SweepRequeues
        PROVE  Over(m)' \/ m \notin confirmed'
    <3>1. PICK there \in SUBSET Messages : Requeue(there) /\ confirmed' = confirmed \ there
      BY <2>4 DEF SweepRequeues, TypeInv, DashboardTypeOK
    <3>2. m \notin there => status'[m] = status[m]
      BY <1>0, <3>1 DEF LifecycleTypeOK, Requeue
    <3>3. QED
      BY <3>1, <3>2 DEF Over
  <2>5. CASE SweepReads
    BY <1>1, <2>5 DEF SweepReads
  <2>6. QED
    BY <1>2, <2>1, <2>2, <2>3, <2>4, <2>5 DEF Behind, GatewayClaims, GatewayReports
<1>3. CASE \E i \in DOMAIN calls : ServeSchedule(i)
  <2>1. PICK n \in Messages : Schedule(n)
    BY <1>3 DEF ServeSchedule
  <2>2. n # m
    BY <2>1 DEF Schedule, Over
  <2>3. QED
    BY <1>0, <2>1, <2>2 DEF LifecycleTypeOK, Schedule, Over
<1>4. CASE \E i \in DOMAIN calls : ServeWrite(i)
  <2>1. PICK i \in DOMAIN calls : ServeWrite(i)
    BY <1>4
  <2>2. Cancel(calls[i].arg) \/ UNCHANGED lifecycleVars
    BY <1>0, <2>1, WriteServed
  <2>3. QED
    BY <1>0, <2>2 DEF LifecycleTypeOK, Cancel, Over, lifecycleVars
<1>5. CASE \E i \in DOMAIN calls : ServeClear(i)
  BY <1>0, <1>5 DEF ServeClear, Clear, LifecycleTypeOK, Over, Finished, SuccessStatuses
<1>6. QED
  BY <1>1, <1>2, <1>3, <1>4, <1>5, MessagesWritten

\* Where a call that is under way comes from.
Continued(i) ==
  /\ i \in DOMAIN calls /\ calls[i].pc # "done"
  /\ calls'[i].kind = calls[i].kind /\ calls'[i].arg = calls[i].arg

Made(i) ==
  /\ calls'[i].pc = "sent"
  /\ calls'[i].kind = "cancel" => page = "schedule" /\ queries["queue"].data # None
  /\ calls'[i].kind = "retry" => page = "dashboard"

LEMMA WhereFrom ==
  ASSUME TypeInv, DashboardNext, NEW i \in DOMAIN calls', calls'[i].pc # "done"
  PROVE  Continued(i) \/ Made(i)
<1>0. CallsFit /\ QueriesHold
  BY DEF TypeInv
<1>1. CASE CallsSame
  BY <1>1 DEF CallsSame, Same, Continued
<1>2. ASSUME NEW j \in DOMAIN calls, NEW p \in {"found", "ok", "error"}, Moved(j, p),
             calls[j].pc # "done"
      PROVE  Continued(i)
  <2>1. CASE i = j
    BY <1>2, <2>1 DEF Moved, Continued
  <2>2. CASE i # j
    BY <1>2, <2>2 DEF Moved, Others, Same, Continued
  <2>3. QED
    BY <2>1, <2>2
<1>3. ASSUME NEW j \in DOMAIN calls, Ended(j)
      PROVE  Continued(i)
  BY <1>3 DEF Ended, Others, Same, Continued
<1>4. CASE Clicked
  BY <1>4 DEF Clicked, Added, Same, Continued, Made
<1>5. CASE Submit
  BY <1>5, SubmitSends DEF Added, Same, Continued, Made
<1>6. CASE \E j \in DOMAIN calls : Handle(j)
  <2>1. PICK j \in DOMAIN calls : Handle(j)
    BY <1>6
  <2>2. CASE SettleCall(j)
    BY <1>0, <1>3, <2>2, AnswerSettles
  <2>3. CASE ServeWrite(j)
    BY <1>0, <1>2, <2>3, WriteServed
  <2>4. CASE ServeRead(j)
    <3>1. (Moved(j, "found") \/ Moved(j, "error")) /\ calls[j].pc = "sent"
      BY <1>0, <2>4, ReadServed
    <3>2. QED
      BY <1>2, <3>1
  <2>5. CASE ServeSchedule(j) \/ ServeClear(j) \/ ServePatch(j) \/ ServeBook(j)
    <3>1. (Moved(j, "ok") \/ Moved(j, "error")) /\ calls[j].pc = "sent" /\ calls[j].kind # "cancel"
      BY <1>0, <2>5, ScheduleServed, ClearServed, PatchServed, BookServed
    <3>2. QED
      BY <1>2, <3>1
  <2>6. QED
    BY <2>1, <2>2, <2>3, <2>4, <2>5 DEF Handle
<1>7. CASE \E k \in Keys : Fetch(k)
  BY <1>1, <1>7, FetchLands DEF Fetch, ServeFetch, ServePage, CallsSame, Same
<1>8. CASE Behind \/ Type \/ PlaneLeft \/ SentTimer
  BY <1>1, <1>8, BehindUnseen DEF Type, PlaneLeft, SentTimer, cacheVars, CallsSame, Same
<1>9. CASE Click \/ EditBook
  BY <1>1, <1>4, <1>9, ClickAdds, EditAdds
<1>10. CASE Lose
  <2>1. CASE \E k \in Open : FetchFails(k)
    BY <1>1, <2>1 DEF FetchFails, CallsSame, Same
  <2>2. ASSUME NEW j \in DOMAIN calls, CallLost(j)
        PROVE  Continued(i)
    <3>1. Moved(j, "error") /\ calls[j].pc # "done"
      BY <1>0, <2>2, CallIsLost DEF CallLost
    <3>2. QED
      BY <1>2, <3>1
  <2>3. QED
    BY <1>10, <2>1, <2>2 DEF Lose
<1>11. QED
  BY <1>5, <1>6, <1>7, <1>8, <1>9, <1>10 DEF DashboardNext, Behind

\* The list of the queue that is shown or on its way.
LEMMA ListsWritten ==
  ASSUME TypeInv, DashboardNext
  PROVE  /\ queries["queue"].data # None => queries'["queue"].data # None
         /\ queries'["queue"].fetch = "read" =>
              \/ /\ queries["queue"].fetch = "read"
                 /\ queries'["queue"].got = queries["queue"].got
              \/ RowIds(queries'["queue"].got) \subseteq With({"QUEUED"})
<1> DEFINE Shows ==
      /\ queries["queue"].data # None => queries'["queue"].data # None
      /\ queries'["queue"].fetch = "read" =>
           \/ /\ queries["queue"].fetch = "read"
              /\ queries'["queue"].got = queries["queue"].got
           \/ RowIds(queries'["queue"].got) \subseteq With({"QUEUED"})
<1>0. QueriesHold /\ CallsFit /\ "queue" \in Keys
  BY DEF TypeInv, Keys
<1>1. CASE queries'["queue"] = queries["queue"]
  BY <1>1
<1>2. ASSUME NEW k \in Keys, ServeFetch(k)
      PROVE  Shows
  <2>1. CASE k = "queue"
    BY <1>2, <2>1, FetchServed
  <2>2. CASE k # "queue"
    BY <1>0, <1>1, <1>2, <2>2, FetchServed DEF Alone
  <2>3. QED
    BY <2>1, <2>2
<1>3. CASE ServePage
  <2>1. /\ queries["queue"].got \in Projections
        /\ queries'["queue"].got = QueueRows(queries["queue"].got)
        /\ queries'["queue"].data = queries["queue"].data
    BY <1>3, PageServed
  <2>2. RowIds(queries'["queue"].got) \subseteq With({"QUEUED"})
    BY <2>1, RowsOfQueue
  <2>3. QED
    BY <2>1, <2>2
<1>4. ASSUME NEW k \in Keys, LandFetch(k)
      PROVE  Shows
  <2>1. CASE k = "queue"
    <3>1. /\ queries'["queue"].fetch = "idle"
          /\ queries'["queue"].data \in Answers("queue")
      BY <1>0, <1>4, <2>1, QueryLands, FetchLands
    <3>2. queries'["queue"].data # None
      BY <1>0, <3>1, AnswersAreData
    <3>3. QED
      BY <3>1, <3>2
  <2>2. CASE k # "queue"
    BY <1>0, <1>1, <1>4, <2>2, QueryLands, FetchLands DEF Alone
  <2>3. QED
    BY <2>1, <2>2
<1>5. ASSUME NEW k \in Keys, FetchFails(k)
      PROVE  Shows
  BY <1>0, <1>5, QueryFails DEF Alone
<1>6. ASSUME NEW i \in DOMAIN calls, SettleCall(i)
      PROVE  Shows
  BY <1>0, <1>6, AnswerSettles DEF Restarted
<1>7. QED
  BY <1>1, <1>2, <1>3, <1>4, <1>5, <1>6, QueriesWritten

\* The page is told that a message is cancelled, and reads the queue again.
LEMMA Told ==
  ASSUME TypeInv, FlickerInv, NEW i \in DOMAIN calls, SettleCall(i),
         calls[i].kind = "cancel", calls[i].pc = "ok"
  PROVE  queries'["queue"].fetch = "asked"
<1>1. page = "schedule" /\ queries["queue"].data # None
  BY DEF FlickerInv
<1>2. "queue" \in Open \cap Stale(calls[i].kind) /\ "queue" \in Keys
  BY <1>1, Pages DEF TypeInv, Stale, Keys
<1>3. CallsFit /\ QueriesHold
  BY DEF TypeInv
<1>4. Restarted("queue")
  BY <1>1, <1>2, <1>3, AnswerSettles
<1>5. QED
  BY <1>4 DEF Restarted

LEMMA FlickerKept == TypeInv /\ FlickerInv /\ [DashboardNext]_vars => FlickerInv'
<1> SUFFICES ASSUME TypeInv, FlickerInv, [DashboardNext]_vars
             PROVE  FlickerInv'
  OBVIOUS
<1>1. CASE UNCHANGED vars
  BY <1>1 DEF vars, lifecycleVars, cacheVars, screenVars, FlickerInv, Over, RowIds
<1>2. CASE DashboardNext
  <2>0. page' = page
    BY <1>2, ScreenWritten
  <2>1. page = "schedule" => \A m \in Messages : Over(m) => Over(m)' \/ m \notin confirmed'
    BY <1>2, OverStays DEF FlickerInv
  <2>2. ASSUME NEW i \in DOMAIN calls', calls'[i].pc # "done"
        PROVE  /\ calls'[i].kind = "cancel" => page = "schedule" /\ queries'["queue"].data # None
               /\ calls'[i].kind = "retry" => page = "dashboard"
    BY <1>2, <2>2, WhereFrom, ListsWritten DEF FlickerInv, Continued, Made
  <2>4. ASSUME NEW m \in confirmed \cap confirmed'
        PROVE  /\ page = "schedule" /\ Over(m)'
               /\ queries'["queue"].fetch = "read" => m \notin RowIds(queries'["queue"].got)
    <3>1. page = "schedule" /\ m \in Messages /\ Over(m)
      BY DEF FlickerInv, TypeInv, DashboardTypeOK
    <3>2. m \notin With({"QUEUED"})
      BY <3>1 DEF With, Over
    <3>3. queries["queue"].fetch = "read" => m \notin RowIds(queries["queue"].got)
      BY DEF FlickerInv
    <3>4. queries'["queue"].fetch = "read" => m \notin RowIds(queries'["queue"].got)
      BY <1>2, <3>2, <3>3, ListsWritten
    <3>5. QED
      BY <2>1, <3>1, <3>4
  <2>5. ASSUME NEW m \in confirmed' \ confirmed
        PROVE  /\ page = "schedule" /\ Over(m)'
               /\ queries'["queue"].fetch = "asked"
    <3>1. PICK i \in DOMAIN calls :
            /\ SettleCall(i) /\ calls[i].kind = "cancel" /\ calls[i].pc = "ok"
            /\ m = calls[i].arg /\ Over(m)
      BY <1>2, <2>5, ScreenWritten DEF Type, Submit, PlaneLeft, SentTimer, ServeSchedule,
                                       ServePatch, SweepRequeues, SettleCall
    <3>2. page = "schedule"
      BY <3>1 DEF FlickerInv
    <3>3. Over(m)'
      BY <3>1 DEF SettleCall, lifecycleVars, Over
    <3>4. QED
      BY <3>1, <3>2, <3>3, Told
  <2>6. \A m \in confirmed' :
          /\ page' = "schedule" /\ Over(m)'
          /\ queries'["queue"].fetch = "read" => m \notin RowIds(queries'["queue"].got)
    BY <2>0, <2>4, <2>5
  <2>7. \A i \in DOMAIN calls' : calls'[i].pc # "done" =>
          /\ calls'[i].kind = "cancel" => page' = "schedule" /\ queries'["queue"].data # None
          /\ calls'[i].kind = "retry" => page' = "dashboard"
    BY <2>0, <2>2
  <2>8. QED
    BY <2>6, <2>7 DEF FlickerInv, Over, RowIds
<1>3. QED
  BY <1>1, <1>2

\* Once the page said that a message is cancelled, and as long as no sweep has requeued
\* it, the queue it shows never has it again, whichever fetches are under way and in
\* whichever order they land.
THEOREM NeverFlickers == DashboardSpec => NoFlicker
<1>1. TypeInv /\ FlickerInv /\ [DashboardNext]_vars
      => [queries'["queue"].data # queries["queue"].data
          => confirmed \cap RowIds(queries'["queue"].data) = {}]_vars
  <2>1. SUFFICES ASSUME TypeInv, FlickerInv, DashboardNext,
                        queries'["queue"].data # queries["queue"].data
                 PROVE  confirmed \cap RowIds(queries'["queue"].data) = {}
    BY DEF vars, cacheVars
  <2>2. QueriesHold /\ CallsFit /\ "queue" \in Keys
    BY <2>1 DEF TypeInv, Keys
  <2>3. LandFetch("queue")
    <3>1. ASSUME NEW k \in Keys, LandFetch(k)
          PROVE  k = "queue"
      BY <2>1, <2>2, <3>1, FetchLands, QueryLands DEF Alone
    <3>2. ASSUME NEW k \in Keys, ServeFetch(k) \/ FetchFails(k)
          PROVE  FALSE
      BY <2>1, <2>2, <3>2, FetchServed, QueryFails DEF Alone
    <3>3. ~ServePage
      BY <2>1, PageServed
    <3>4. ASSUME NEW i \in DOMAIN calls, SettleCall(i)
          PROVE  FALSE
      BY <2>1, <2>2, <3>4, AnswerSettles DEF Restarted
    <3>5. QED
      BY <2>1, <3>1, <3>2, <3>3, <3>4, QueriesWritten
  <2>4. queries["queue"].fetch = "read" /\ queries'["queue"].data = queries["queue"].got
    BY <2>1, <2>2, <2>3, FetchLands, QueryLands
  <2>5. QED
    BY <2>1, <2>4 DEF FlickerInv, RowIds
<1>2. QED
  BY TypeInitially, TypeKept, FlickerInitially, FlickerKept, <1>1, PTL DEF DashboardSpec, NoFlicker
=============================================================================
