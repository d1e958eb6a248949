--------------------------- MODULE Telemetry_proofs ---------------------------
(***************************************************************************)
(* The collectors, the tracker and the spans, for any cases and chats, any    *)
(* number of turns and any size of a batch, however calls overlap and fail.  *)
(***************************************************************************)
EXTENDS Telemetry, SequenceTheorems, WellFoundedInduction, TLAPS

States == {"new", "provider", "ending", "tools", "next", "assert", "done"}

\* In the middle of a turn: its request has been announced, its end has not.
Mid == {"provider", "ending", "tools"}

\* What a collector hears: responses and tool calls, each of one turn of one call.
Event == (Call \X Nat) \cup (Call \X Nat \X (1..Tools))
TurnEvents(c, t) == {<<c, t, i>> : i \in 1..Tools}

\* Buckets by turn index, of which there is a highest one if there are any.
Bounded(D) == \E n \in Nat : D \subseteq 0..n
Buckets == UNION {[D -> SUBSET Event] : D \in {D \in SUBSET Nat : Bounded(D)}}
Entries == [of : Call \X Nat, items : SUBSET Event]

Types ==
  /\ pc \in [Call -> States] /\ turn \in [Call -> Nat]
  /\ waiting \in [Call -> SUBSET Event] /\ running \in [Call -> SUBSET Event]
  /\ attached \subseteq Collector /\ overlapped \subseteq Call /\ cut \subseteq Call
  /\ pending \in [Collector -> Buckets] /\ finished \in [Collector -> Seq(Entries)]
  /\ heard \in [Collector -> SUBSET Event]

\* The tool calls of a batch belong to the turn, and there are none without a batch.
BatchesAreOwn ==
  \A c \in Call :
    /\ waiting[c] \cup running[c] \subseteq TurnEvents(c, turn[c])
    /\ waiting[c] \cap running[c] = {}
    /\ pc[c] # "tools" => waiting[c] = {} /\ running[c] = {}

\* An event that has happened: its turn has been answered, and it does not wait.
Happened(x) ==
  LET c == x[1]
  IN  /\ pc[c] # "new" /\ x[2] <= turn[c] /\ (x[2] = turn[c] => pc[c] # "provider")
      /\ x \notin waiting[c]

HeardHappened == \A k \in Collector : \A x \in heard[k] : Happened(x)

\* A call that has met no other is alone.
AloneUnlessOverlapped ==
  \A c, d \in Call : c # d /\ c \notin overlapped /\ pc[c] \notin Idle => pc[d] \in Idle

AttachedWhileRunning == attached = {Agent} \cup {c \in Case : pc[c] \notin Idle}

\* A call that was cut short does not go on.
CutStops == \A c \in cut : pc[c] \in {"assert", "done"}

Base ==
  /\ Types /\ BatchesAreOwn /\ HeardHappened /\ AloneUnlessOverlapped /\ AttachedWhileRunning
  /\ CutStops

\* TurnsAreOwn, also of the turns that were trimmed.
FinishedAreOwn ==
  \A k \in Collector : Undisturbed(k) =>
    \A i \in DOMAIN finished[k] :
      LET turnOf(x) == <<x[1], x[2]>>
          entry == finished[k][i]
      IN  entry.items = {x \in heard[k] : turnOf(x) = entry.of}

\* Every event that was heard is in exactly one bucket.
Booked(p, done, h) ==
  /\ \A i \in DOMAIN done : done[i].items \subseteq h
  /\ \A t \in DOMAIN p : p[t] \subseteq h
  /\ \A x \in h : (\E i \in DOMAIN done : x \in done[i].items) \/ \E t \in DOMAIN p : x \in p[t]
  /\ \A i, j \in DOMAIN done : i # j => done[i].items \cap done[j].items = {}
  /\ \A t, u \in DOMAIN p : t # u => p[t] \cap p[u] = {}
  /\ \A i \in DOMAIN done, t \in DOMAIN p : done[i].items \cap p[t] = {}

\* The turns a collector still has are the latest of those that were completed.
Latest(turns, all) ==
  /\ turns \in Seq(Entries)
  /\ Len(turns) = (IF Len(all) > Keep THEN Keep ELSE Len(all))
  /\ \A i \in 1..Len(turns) : turns[i] = all[Len(all) - Len(turns) + i]

AllLatest == \A k \in Collector : Latest(completed[k], finished[k])

AllBooked == \A k \in Collector : Booked(pending[k], finished[k], heard[k])

\* A turn that was completed is over.
EntriesAreOver ==
  \A k \in Collector : \A i \in DOMAIN finished[k] :
    LET c == finished[k][i].of[1]
        t == finished[k][i].of[2]
    IN  pc[c] # "new" /\ t <= turn[c] /\ (t = turn[c] => pc[c] \notin Mid)

\* What a collector has heard of a turn.
Parts(k, c, t) == {x \in heard[k] : x[1] = c /\ x[2] = t}

\* An undisturbed collector has one bucket open while its call is in the middle of a
\* turn, that of the turn, and none between two turns.
OneBucketOpen ==
  \A k \in Collector : Undisturbed(k) =>
    /\ \A c \in Call : k \in {Agent, c} /\ pc[c] \in Mid =>
         DOMAIN pending[k] = {turn[c]} /\ pending[k][turn[c]] = Parts(k, c, turn[c])
    /\ (IF k = Agent THEN \A c \in Call : pc[c] \notin Mid ELSE pc[k] \in {"new", "next"}) =>
         DOMAIN pending[k] = {}

HearsOwn == \A k \in Case : Undisturbed(k) => \A x \in heard[k] : x[1] = k

\* What has a span has happened, or is the request in progress.
Started == open \cup {e.span : e \in ended}

SpansHappened ==
  \A x \in Started : x \in Event /\ (Happened(x) \/ (pc[x[1]] = "provider" /\ x = Response(x[1])))

\* Tool calls in progress have an open span, and the slot holds an open one of a request.
SpansOpen ==
  /\ \A c \in Call : running[c] \subseteq open
  /\ span # NoSpan => span \in open /\ span \in Call \X Nat

\* Spans end once, and without overlapping calls by the answer that is theirs.
EndedOnce == \A e \in ended : e.span \notin open /\ \A d \in ended : d.span = e.span => d = e
EndedByOwn == overlapped = {} => \A e \in ended : e.by = e.span

\* Without overlapping calls the slot holds the request in progress, and what is open
\* of a call that was not cut short is in progress.
SlotIsOwn ==
  overlapped = {} =>
    \A c \in Call :
      /\ pc[c] = "provider" => span = Response(c)
      /\ \A s \in open : s[1] = c /\ c \notin cut =>
           \/ pc[c] = "provider" /\ s = Response(c)
           \/ s \in running[c]

SpansInv == SpansHappened /\ SpansOpen /\ EndedOnce /\ EndedByOwn /\ SlotIsOwn

-----------------------------------------------------------------------------
(* Events and buckets.                                                     *)

\* Events name their call and their turn, and responses are no tool calls.
LEMMA EventParts ==
  ASSUME NEW c \in Call, NEW t \in Nat
  PROVE  /\ <<c, t>> \in Event /\ <<c, t>>[1] = c /\ <<c, t>>[2] = t
         /\ TurnEvents(c, t) \subseteq Event /\ <<c, t>> \notin TurnEvents(c, t)
         /\ \A x \in TurnEvents(c, t) : x[1] = c /\ x[2] = t /\ x \notin Call \X Nat
<1>1. \A i \in 1..Tools : <<c, t, i>> # <<c, t>>
  OBVIOUS
<1>2. \A i \in 1..Tools : <<c, t, i>> \notin Call \X Nat
  OBVIOUS
<1> QED
  BY <1>1, <1>2 DEF Event, TurnEvents

LEMMA EventFields ==
  ASSUME NEW x \in Event
  PROVE  x[1] \in Call /\ x[2] \in Nat
BY DEF Event

\* A set of positions has a first one.
LEMMA FirstPosition ==
  ASSUME NEW T \in SUBSET Nat, T # {}
  PROVE  \E k \in T : \A j \in T : k <= j
<1>1. PICK k \in T : \A j \in T : ~ (<<j, k>> \in OpToRel(<, Nat))
  BY WFMin, NatLessThanWellFounded
<1>2. \A j \in T : ~(j < k)
  BY <1>1 DEF OpToRel
<1> QED
  BY <1>2

\* And a last one, if it has a bound.
LEMMA LastPosition ==
  ASSUME NEW T \in SUBSET Nat, T # {}, Bounded(T)
  PROVE  \E k \in T : \A j \in T : j <= k
<1>1. PICK n \in Nat : T \subseteq 0..n
  BY DEF Bounded
<1> DEFINE U == {n - j : j \in T}
<1>2. U \in SUBSET Nat /\ U # {}
  <2>1. \A j \in T : n - j \in Nat
    BY <1>1
  <2> QED
    BY <2>1
<1>3. PICK u \in U : \A v \in U : u <= v
  BY <1>2, FirstPosition
<1>4. PICK k \in T : u = n - k
  BY <1>3
<1>5. ASSUME NEW j \in T PROVE j <= k
  <2>1. n - j \in U /\ n - k <= n - j /\ j \in Nat /\ k \in Nat
    BY <1>3, <1>4
  <2> QED
    BY <2>1
<1> QED
  BY <1>4, <1>5

LEMMA BucketFields ==
  ASSUME NEW p \in Buckets
  PROVE  /\ DOMAIN p \in SUBSET Nat /\ Bounded(DOMAIN p)
         /\ \A t \in DOMAIN p : p[t] \in SUBSET Event
BY DEF Buckets

LEMMA BucketsAre ==
  ASSUME NEW D \in SUBSET Nat, Bounded(D), NEW p \in [D -> SUBSET Event]
  PROVE  p \in Buckets
BY DEF Buckets

LEMMA NoBuckets == <<>> \in Buckets /\ DOMAIN <<>> = {}
<1>1. <<>> \in [{} -> SUBSET Event] /\ DOMAIN <<>> = {}
  OBVIOUS
<1>2. Bounded({})
  BY DEF Bounded
<1> QED
  BY <1>1, <1>2, BucketsAre

\* What With returns.
IsWith(q, p, t, items) ==
  /\ DOMAIN q = DOMAIN p \cup {t} /\ \A u \in DOMAIN p : u # t => q[u] = p[u]
  /\ t \in DOMAIN p => q[t] = p[t] \cup items
  /\ t \notin DOMAIN p => q[t] = items

LEMMA WithIs ==
  ASSUME NEW p \in Buckets, NEW t \in Nat, NEW items \in SUBSET Event
  PROVE  With(p, t, items) \in Buckets /\ IsWith(With(p, t, items), p, t, items)
<1> DEFINE q == With(p, t, items)
           D == DOMAIN p \cup {t}
<1>1. q = [u \in D |-> IF u # t THEN p[u] ELSE IF t \in DOMAIN p THEN p[t] \cup items ELSE items]
  BY DEF With
<1>2. DOMAIN p \in SUBSET Nat /\ \A u \in DOMAIN p : p[u] \in SUBSET Event
  BY BucketFields
<1>3. Bounded(D)
  <2>1. PICK n \in Nat : DOMAIN p \subseteq 0..n
    BY BucketFields DEF Bounded
  <2>2. n + t \in Nat /\ D \subseteq 0..(n + t)
    BY <2>1
  <2> QED
    BY <2>2 DEF Bounded
<1> HIDE DEF q
<1>4. q \in [D -> SUBSET Event]
  BY <1>1, <1>2
<1>5. q \in Buckets
  BY <1>2, <1>3, <1>4, BucketsAre
<1> QED
  BY <1>1, <1>5 DEF q, IsWith

\* A bucket less.
LEMMA WithoutIs ==
  ASSUME NEW p \in Buckets, NEW out \in SUBSET DOMAIN p
  PROVE  LET q == [t \in DOMAIN p \ out |-> p[t]] IN
         /\ q \in Buckets /\ DOMAIN q = DOMAIN p \ out /\ \A t \in DOMAIN q : q[t] = p[t]
<1> DEFINE D == DOMAIN p \ out
           q == [t \in D |-> p[t]]
<1>1. D \in SUBSET Nat /\ \A t \in D : p[t] \in SUBSET Event
  BY BucketFields
<1>2. Bounded(D)
  BY BucketFields DEF Bounded
<1>3. q \in [D -> SUBSET Event]
  BY <1>1
<1> QED
  BY <1>1, <1>2, <1>3, BucketsAre

\* Tool calls are booked on some turn, on the only one that is open if there is one.
LEMMA ToolTurnIs ==
  ASSUME NEW p \in Buckets
  PROVE  ToolTurn(p) \in Nat /\ \A t : DOMAIN p = {t} => ToolTurn(p) = t
<1>1. CASE DOMAIN p = {}
  BY <1>1 DEF ToolTurn
<1>2. CASE DOMAIN p # {}
  <2>1. DOMAIN p \in SUBSET Nat
    BY BucketFields
  <2>2. PICK k \in DOMAIN p : \A j \in DOMAIN p : j <= k
    BY <1>2, <2>1, BucketFields, LastPosition
  <2>3. Max(DOMAIN p) \in DOMAIN p
    BY <2>1, <2>2 DEF Max
  <2>4. ToolTurn(p) \in DOMAIN p
    BY <1>2, <2>3 DEF ToolTurn
  <2> QED
    BY <2>1, <2>4
<1> QED
  BY <1>1, <1>2

\* A turn that completes takes one bucket along or none, its own if there is one.
LEMMA BucketIs ==
  ASSUME NEW p \in Buckets, NEW t \in Nat
  PROVE  /\ Bucket(p, t) \subseteq DOMAIN p
         /\ \A u, v \in Bucket(p, t) : u = v
         /\ t \in DOMAIN p => Bucket(p, t) = {t}
<1>1. CASE t \in DOMAIN p
  BY <1>1 DEF Bucket
<1>2. CASE t \notin DOMAIN p /\ DOMAIN p = {}
  BY <1>2 DEF Bucket
<1>3. CASE t \notin DOMAIN p /\ DOMAIN p # {}
  <2>1. DOMAIN p \in SUBSET Nat
    BY BucketFields
  <2>2. PICK k \in DOMAIN p : \A j \in DOMAIN p : k <= j
    BY <1>3, <2>1, FirstPosition
  <2>3. Min(DOMAIN p) \in DOMAIN p
    BY <2>2 DEF Min
  <2> QED
    BY <1>3, <2>3 DEF Bucket
<1> QED
  BY <1>1, <1>2, <1>3

-----------------------------------------------------------------------------
(* The account of one collector.                                           *)

\* Events that are new go into one bucket.
LEMMA BookedHear ==
  ASSUME NEW p \in Buckets, NEW done, NEW h, NEW t \in Nat, NEW items \in SUBSET Event,
         Booked(p, done, h), items \cap h = {}
  PROVE  Booked(With(p, t, items), done, h \cup items)
<1> DEFINE q == With(p, t, items)
<1>0. IsWith(q, p, t, items)
  BY WithIs
<1> HIDE DEF q
<1>1. /\ DOMAIN q = DOMAIN p \cup {t} /\ \A u \in DOMAIN p : u # t => q[u] = p[u]
      /\ t \in DOMAIN p => q[t] = p[t] \cup items
      /\ t \notin DOMAIN p => q[t] = items
  BY <1>0 DEF IsWith
<1>2. \A u \in DOMAIN q : q[u] \subseteq (IF u \in DOMAIN p THEN p[u] ELSE {}) \cup (IF u = t THEN items ELSE {})
  BY <1>1
<1>3. \A u \in DOMAIN p : p[u] \subseteq q[u]
  BY <1>1
<1>4. items \subseteq q[t]
  BY <1>1
<1>5. \A u \in DOMAIN q : q[u] \subseteq h \cup items
  BY <1>2 DEF Booked
<1>6. \A x \in h \cup items : (\E i \in DOMAIN done : x \in done[i].items) \/ \E u \in DOMAIN q : x \in q[u]
  BY <1>1, <1>3, <1>4 DEF Booked
<1>7. \A u, v \in DOMAIN q : u # v => q[u] \cap q[v] = {}
  BY <1>2 DEF Booked
<1>8. \A i \in DOMAIN done, u \in DOMAIN q : done[i].items \cap q[u] = {}
  BY <1>2 DEF Booked
<1> QED
  BY <1>5, <1>6, <1>7, <1>8 DEF Booked, q

\* A bucket becomes an entry.
LEMMA BookedComplete ==
  ASSUME NEW p \in Buckets, NEW done \in Seq(Entries), NEW h, NEW of \in Call \X Nat, NEW t \in Nat,
         Booked(p, done, h)
  PROVE  LET out == Bucket(p, t) IN
         Booked([u \in DOMAIN p \ out |-> p[u]],
                Append(done, [of |-> of, items |-> UNION {p[u] : u \in out}]), h)
<1> DEFINE out == Bucket(p, t)
           q == [u \in DOMAIN p \ out |-> p[u]]
           items == UNION {p[u] : u \in out}
           e == [of |-> of, items |-> items]
           n == Len(done)
           more == Append(done, e)
<1>1. out \subseteq DOMAIN p /\ \A u, v \in out : u = v
  BY BucketIs
<1> HIDE DEF out
<1>2. DOMAIN q = DOMAIN p \ out /\ \A u \in DOMAIN q : q[u] = p[u]
  OBVIOUS
<1> HIDE DEF q
<1>3. e.items = items
  OBVIOUS
<1>4. \A u \in DOMAIN p : p[u] \in SUBSET Event
  BY BucketFields
<1>5. e \in Entries
  BY <1>1, <1>4 DEF Entries
<1> HIDE DEF e
<1>6. /\ DOMAIN done = 1..n /\ n \in Nat /\ DOMAIN more = 1..n + 1
      /\ more[n + 1] = e /\ \A i \in 1..n : more[i] = done[i]
  BY <1>5, AppendProperties
<1> HIDE DEF more, n
<1>7. \A i \in DOMAIN more : (i \in DOMAIN done /\ more[i] = done[i]) \/ (i = n + 1 /\ more[i] = e)
  <2> SUFFICES ASSUME NEW i \in DOMAIN more
               PROVE  (i \in DOMAIN done /\ more[i] = done[i]) \/ (i = n + 1 /\ more[i] = e)
    OBVIOUS
  <2>1. i \in 1..n \/ i = n + 1
    BY <1>6
  <2> QED
    BY <1>6, <2>1
<1>8. \A x \in items : \E u \in out : x \in p[u]
  OBVIOUS
<1>9. \A u \in out : p[u] \subseteq items
  OBVIOUS
<1> HIDE DEF items
<1>10. items \subseteq h
  BY <1>1, <1>8 DEF Booked
<1>11. \A i \in DOMAIN done : done[i].items \cap items = {}
  BY <1>1, <1>8 DEF Booked
<1>12. \A u \in DOMAIN q : p[u] \cap items = {}
  BY <1>1, <1>2, <1>8 DEF Booked
<1>13. \A i \in DOMAIN more : more[i].items \subseteq h
  BY <1>3, <1>7, <1>10 DEF Booked
<1>14. \A x \in h : (\E i \in DOMAIN more : x \in more[i].items) \/ \E u \in DOMAIN q : x \in q[u]
  <2> SUFFICES ASSUME NEW x \in h
               PROVE  (\E i \in DOMAIN more : x \in more[i].items) \/ \E u \in DOMAIN q : x \in q[u]
    OBVIOUS
  <2>1. CASE \E i \in DOMAIN done : x \in done[i].items
    BY <1>6, <2>1
  <2>2. CASE \E u \in DOMAIN p : x \in p[u]
    BY <1>2, <1>3, <1>6, <1>9, <2>2
  <2> QED
    BY <2>1, <2>2 DEF Booked
<1>15. \A i, j \in DOMAIN more : i # j => more[i].items \cap more[j].items = {}
  BY <1>3, <1>7, <1>11 DEF Booked
<1>16. \A i \in DOMAIN more, u \in DOMAIN q : more[i].items \cap q[u] = {}
  BY <1>2, <1>3, <1>7, <1>12 DEF Booked
<1>17. \A u \in DOMAIN q : q[u] \subseteq h
  BY <1>2 DEF Booked
<1>18. \A u, v \in DOMAIN q : u # v => q[u] \cap q[v] = {}
  BY <1>2 DEF Booked
<1> QED
  BY <1>13, <1>14, <1>15, <1>16, <1>17, <1>18 DEF Booked, q, more, e, items, out

-----------------------------------------------------------------------------
(* The kinds of steps.                                                     *)

\* The request of a call's first or next turn.
Opens(c) ==
  /\ pc[c] \in {"new", "next"} /\ pc' = [pc EXCEPT ![c] = "provider"]
  /\ turn' = [turn EXCEPT ![c] = IF pc[c] = "new" THEN 0 ELSE turn[c] + 1]
  /\ \/ /\ pc[c] = "new" /\ attached' = attached \cup ({c} \cap Case)
        /\ overlapped' = overlapped \cup {d \in Call : pc[d] \notin Idle}
             \cup (IF {d \in Call : pc[d] \notin Idle} = {} THEN {} ELSE {c})
     \/ pc[c] = "next" /\ UNCHANGED <<attached, overlapped>>
  /\ pending' = [k \in Collector |->
       IF k \in attached' THEN With(pending[k], turn'[c], {}) ELSE pending[k]]
  /\ span' = <<c, turn'[c]>> /\ open' = open \cup {<<c, turn'[c]>>}
  /\ UNCHANGED <<waiting, running, completed, finished, ended, usage, totals, heard, cut>>

\* A turn or a call ends, with or without an announcement.
Ends(c) ==
  /\ pc[c] \notin Idle /\ pc' = [pc EXCEPT ![c] = pc'[c]] /\ pc'[c] \in {"next", "assert", "done"}
  /\ attached' = (IF pc'[c] = "done" THEN attached \ {c} ELSE attached)
  /\ pc'[c] = "assert" => c \in Case
  /\ waiting' = [waiting EXCEPT ![c] = {}] /\ running' = [running EXCEPT ![c] = {}]
  /\ UNCHANGED <<turn, overlapped, usage, heard, span, open, ended>>
  /\ \/ /\ pc[c] \in {"ending", "tools"} /\ waiting[c] = {} /\ running[c] = {}
        /\ TurnCompletes(c) /\ UNCHANGED <<totals, cut>>
     \/ /\ pc[c] \in Mid /\ pc'[c] # "next" /\ UNCHANGED <<pending, completed, finished>> /\ cut' = cut \cup {c}
        /\ totals' \in {totals, totals \cup {Response(c)}}
     \/ /\ pc[c] \in {"next", "assert"} /\ pc'[c] = "done" /\ UNCHANGED <<pending, completed, finished, totals, cut>>

LEMMA Kinds ==
  ASSUME Types, BatchesAreOwn, Next
  PROVE  \E c \in Call : Opens(c) \/ Respond(c) \/ StartTool(c) \/ ToolResult(c) \/ Ends(c)
<1> USE DEF Idle
<1>1. PICK c \in Call :
        \/ Begin(c) \/ NextTurn(c) \/ Unanswered(c) \/ Respond(c) \/ StartTool(c) \/ ToolResult(c)
        \/ EndTurn(c) \/ EndRound(c) \/ Fail(c) \/ FailBetween(c) \/ Judge(c)
  BY DEF Next
<1>2. /\ pc[c] # "tools" => waiting[c] = {} /\ running[c] = {}
      /\ waiting[c] = {} => waiting = [waiting EXCEPT ![c] = {}]
      /\ running[c] = {} => running = [running EXCEPT ![c] = {}]
  BY DEF BatchesAreOwn, Types
<1>3. pc \in [Call -> States] /\ turn \in [Call -> Nat]
  BY DEF Types
<1>4. \A s : pc' = [pc EXCEPT ![c] = s] => pc'[c] = s
  BY <1>3
<1>5. ASSUME Begin(c) PROVE Opens(c)
  <2>1. pc[c] = "new" /\ turn'[c] = 0
    BY <1>3, <1>5 DEF Begin, Request
  <2> QED
    BY <1>5, <2>1 DEF Begin, Request, Opens
<1>6. ASSUME NextTurn(c) PROVE Opens(c)
  <2>1. pc[c] = "next" /\ turn'[c] = turn[c] + 1
    BY <1>3, <1>6 DEF NextTurn, Request
  <2> QED
    BY <1>6, <2>1 DEF NextTurn, Request, Opens
<1>7. ASSUME Return(c)
      PROVE  /\ pc' = [pc EXCEPT ![c] = pc'[c]] /\ pc'[c] \in {"assert", "done"}
             /\ attached' = (IF pc'[c] = "done" THEN attached \ {c} ELSE attached)
             /\ pc'[c] = "assert" => c \in Case
  BY <1>4, <1>7 DEF Return, Leave
<1>8. ASSUME Leave(c)
      PROVE  pc' = [pc EXCEPT ![c] = pc'[c]] /\ pc'[c] = "done" /\ attached' = attached \ {c}
  BY <1>4, <1>8 DEF Leave
<1>9. ASSUME Unanswered(c) PROVE Ends(c)
  BY <1>2, <1>7, <1>9 DEF Unanswered, Ends, Mid, metricVars, spanVars
<1>10. ASSUME Fail(c) PROVE Ends(c)
  BY <1>8, <1>10 DEF Fail, Ends, Mid, metricVars, spanVars
<1>11. ASSUME FailBetween(c) PROVE Ends(c)
  BY <1>2, <1>8, <1>11 DEF FailBetween, Ends, Mid, metricVars, spanVars
<1>12. ASSUME Judge(c) PROVE Ends(c)
  BY <1>2, <1>8, <1>12 DEF Judge, Ends, Mid, metricVars, spanVars
<1>13. ASSUME EndTurn(c) PROVE Ends(c)
  BY <1>2, <1>7, <1>13 DEF EndTurn, Ends, Mid, spanVars, TurnCompletes
<1>14. ASSUME EndRound(c) PROVE Ends(c)
  <2>1. CASE pc' = [pc EXCEPT ![c] = "next"] /\ UNCHANGED attached
    BY <1>2, <1>4, <1>14, <2>1 DEF EndRound, Ends, Mid, spanVars, TurnCompletes
  <2>2. CASE Return(c)
    BY <1>2, <1>7, <1>14, <2>2 DEF EndRound, Ends, Mid, spanVars, TurnCompletes
  <2> QED
    BY <1>14, <2>1, <2>2 DEF EndRound
<1> QED
  BY <1>1, <1>5, <1>6, <1>9, <1>10, <1>11, <1>12, <1>13, <1>14

-----------------------------------------------------------------------------
(* Calls and their batches.                                                *)

LEMMA InitBase == Init => Base
<1> SUFFICES ASSUME Init PROVE Base
  OBVIOUS
<1> USE TelemetryAssumption
<1>1. Types
  <2>1. pending \in [Collector -> Buckets] /\ heard \in [Collector -> SUBSET Event]
    BY NoBuckets DEF Init
  <2>2. finished \in [Collector -> Seq(Entries)]
    BY DEF Init
  <2>3. attached \subseteq Collector
    BY DEF Init, Collector
  <2> QED
    BY <2>1, <2>2, <2>3 DEF Init, Types, States
<1>2. BatchesAreOwn /\ HeardHappened /\ AloneUnlessOverlapped /\ CutStops
  BY DEF Init, BatchesAreOwn, HeardHappened, AloneUnlessOverlapped, CutStops, Idle, TurnEvents
<1>3. AttachedWhileRunning
  BY DEF Init, AttachedWhileRunning, Idle, Call
<1> QED
  BY <1>1, <1>2, <1>3 DEF Base

\* What a response or a tool call brings to the collectors: one event that is new.
Hears(c, x) ==
  /\ x \in Event /\ x[1] = c /\ x[2] = turn[c] /\ ~Happened(x) /\ pc[c] \in Mid /\ pc'[c] \in Mid
  /\ heard' = [k \in Collector |-> IF k \in attached THEN heard[k] \cup {x} ELSE heard[k]]
  /\ \E place \in [Collector -> Nat] :
       /\ pending' = [k \in Collector |->
            IF k \in attached THEN With(pending[k], place[k], {x}) ELSE pending[k]]
       /\ \A k \in Collector : DOMAIN pending[k] = {turn[c]} => place[k] = turn[c]
  /\ UNCHANGED <<turn, attached, completed, finished, overlapped, cut>>

LEMMA RespondHears ==
  ASSUME Types, BatchesAreOwn, NEW c \in Call, Respond(c)
  PROVE  /\ Hears(c, Response(c)) /\ pc[c] = "provider" /\ pc'[c] \in {"ending", "tools"}
         /\ pc' = [pc EXCEPT ![c] = pc'[c]]
         /\ UNCHANGED running
         /\ \E w \in SUBSET TurnEvents(c, turn[c]) : waiting' = [waiting EXCEPT ![c] = w]
         /\ pc'[c] # "tools" => UNCHANGED waiting
<1>1. pc \in [Call -> States] /\ turn[c] \in Nat /\ waiting \in [Call -> SUBSET Event]
  BY DEF Types
<1>2. /\ pc[c] = "provider" /\ pc' = [pc EXCEPT ![c] = pc'[c]] /\ pc'[c] \in {"ending", "tools"}
      /\ pc'[c] # "tools" => UNCHANGED waiting
  BY <1>1 DEF Respond
<1>3. \E w \in SUBSET TurnEvents(c, turn[c]) : waiting' = [waiting EXCEPT ![c] = w]
  <2>1. waiting[c] = {} /\ waiting = [waiting EXCEPT ![c] = {}]
    BY <1>1, <1>2 DEF BatchesAreOwn
  <2>2. CASE UNCHANGED waiting
    BY <2>1, <2>2
  <2>3. ASSUME NEW n \in 0..Tools, waiting' = [waiting EXCEPT ![c] = Batch(c, n)]
        PROVE  \E w \in SUBSET TurnEvents(c, turn[c]) : waiting' = [waiting EXCEPT ![c] = w]
    <3>1. Batch(c, n) \subseteq TurnEvents(c, turn[c])
      BY TelemetryAssumption DEF Batch, TurnEvents
    <3> QED
      BY <2>3, <3>1
  <2> QED
    BY <2>2, <2>3 DEF Respond
<1>4. Response(c) \in Event /\ Response(c)[1] = c /\ Response(c)[2] = turn[c]
  BY <1>1, EventParts DEF Response
<1>5. ~Happened(Response(c))
  BY <1>2, <1>4 DEF Happened
<1> DEFINE place == [k \in Collector |-> turn[c]]
<1>6. place \in [Collector -> Nat] /\ Hear(place, {Response(c)})
  BY <1>1 DEF Respond
<1>7. Hears(c, Response(c))
  BY <1>2, <1>4, <1>5, <1>6 DEF Hears, Hear, Mid, Respond
<1> QED
  BY <1>2, <1>3, <1>7 DEF Respond

LEMMA StartHears ==
  ASSUME Types, BatchesAreOwn, NEW c \in Call, StartTool(c)
  PROVE  \E x \in waiting[c] :
           /\ Hears(c, x) /\ pc[c] = "tools" /\ UNCHANGED pc
           /\ waiting' = [waiting EXCEPT ![c] = @ \ {x}]
           /\ running' = [running EXCEPT ![c] = @ \cup {x}]
           /\ open' = open \cup {x} /\ UNCHANGED <<span, ended, usage, totals>>
<1> DEFINE x == CHOOSE x \in waiting[c] : TRUE
<1>1. /\ x \in waiting[c] /\ waiting' = [waiting EXCEPT ![c] = @ \ {x}]
      /\ running' = [running EXCEPT ![c] = @ \cup {x}]
      /\ Hear([k \in Collector |-> ToolTurn(pending[k])], {x})
      /\ open' = open \cup {x}
      /\ UNCHANGED <<pc, turn, attached, span, ended, usage, totals, overlapped, cut>>
  BY DEF StartTool
<1> HIDE DEF x
<1> DEFINE place == [k \in Collector |-> ToolTurn(pending[k])]
<1>2. turn[c] \in Nat /\ \A k \in Collector : pending[k] \in Buckets
  BY DEF Types
<1>3. place \in [Collector -> Nat] /\ \A k \in Collector : DOMAIN pending[k] = {turn[c]} => place[k] = turn[c]
  BY <1>2, ToolTurnIs
<1>4. x \in TurnEvents(c, turn[c]) /\ pc[c] = "tools"
  BY <1>1 DEF BatchesAreOwn
<1>5. x \in Event /\ x[1] = c /\ x[2] = turn[c]
  <2>1. /\ TurnEvents(c, turn[c]) \subseteq Event
        /\ \A y \in TurnEvents(c, turn[c]) : y[1] = c /\ y[2] = turn[c]
    BY <1>2, EventParts
  <2> QED
    BY <1>4, <2>1
<1>6. ~Happened(x)
  BY <1>1, <1>5 DEF Happened
<1>7. Hear(place, {x})
  BY <1>1
<1> HIDE DEF place
<1>8. Hears(c, x)
  BY <1>1, <1>3, <1>4, <1>5, <1>6, <1>7 DEF Hears, Hear, Mid
<1> QED
  BY <1>1, <1>4, <1>8

\* The buckets and entries keep their types.
LEMMA HearsType ==
  ASSUME Types, NEW c \in Call, NEW x, Hears(c, x)
  PROVE  /\ pending' \in [Collector -> Buckets] /\ finished' \in [Collector -> Seq(Entries)]
         /\ heard' \in [Collector -> SUBSET Event]
<1>1. PICK place \in [Collector -> Nat] :
        pending' = [k \in Collector |->
          IF k \in attached THEN With(pending[k], place[k], {x}) ELSE pending[k]]
  BY DEF Hears
<1>2. \A k \in Collector : With(pending[k], place[k], {x}) \in Buckets
  <2>1. {x} \in SUBSET Event
    BY DEF Hears
  <2> QED
    BY <2>1, WithIs DEF Types
<1>3. pending' \in [Collector -> Buckets]
  BY <1>1, <1>2 DEF Types
<1> QED
  BY <1>3 DEF Hears, Types

LEMMA OpensType ==
  ASSUME Types, NEW c \in Call, Opens(c)
  PROVE  /\ pending' \in [Collector -> Buckets] /\ turn' \in [Call -> Nat]
         /\ attached' \subseteq Collector /\ overlapped' \subseteq Call
<1>1. turn' \in [Call -> Nat] /\ turn'[c] \in Nat
  BY DEF Opens, Types
<1>2. attached' \subseteq Collector /\ overlapped' \subseteq Call
  BY DEF Opens, Types, Collector
<1>3. \A k \in Collector : With(pending[k], turn'[c], {}) \in Buckets
  <2>1. {} \in SUBSET Event
    OBVIOUS
  <2> QED
    BY <1>1, <2>1, WithIs DEF Types
<1>4. pending' \in [Collector -> Buckets]
  BY <1>3 DEF Opens, Types
<1> QED
  BY <1>1, <1>2, <1>4

LEMMA CompletesType ==
  ASSUME Types, NEW c \in Call, TurnCompletes(c)
  PROVE  /\ pending' \in [Collector -> Buckets] /\ finished' \in [Collector -> Seq(Entries)]
         /\ \A k \in Collector :
              LET out == Bucket(pending[k], turn[c]) IN
              IF k \in attached
              THEN /\ pending'[k] = [t \in DOMAIN pending[k] \ out |-> pending[k][t]]
                   /\ finished'[k] = Append(finished[k],
                        [of |-> Response(c), items |-> UNION {pending[k][t] : t \in out}])
              ELSE pending'[k] = pending[k] /\ finished'[k] = finished[k]
<1> DEFINE out(k) == IF k \in attached THEN Bucket(pending[k], turn[c]) ELSE {}
           rest(k) == [t \in DOMAIN pending[k] \ out(k) |-> pending[k][t]]
           items(k) == UNION {pending[k][t] : t \in out(k)}
           entry(k) == [of |-> Response(c), items |-> items(k)]
<1>1. /\ turn[c] \in Nat /\ \A k \in Collector : pending[k] \in Buckets /\ finished[k] \in Seq(Entries)
      /\ finished \in [Collector -> Seq(Entries)]
  BY DEF Types
<1>2. /\ pending' = [k \in Collector |-> rest(k)]
      /\ finished' = [k \in Collector |->
           IF k \in attached THEN Append(finished[k], entry(k)) ELSE finished[k]]
  BY DEF TurnCompletes
<1>3. \A k \in Collector : out(k) \in SUBSET DOMAIN pending[k]
  BY <1>1, BucketIs
<1>4. ASSUME NEW k \in Collector PROVE rest(k) \in Buckets
  <2>1. out(k) \in SUBSET DOMAIN pending[k] /\ pending[k] \in Buckets
    BY <1>1, <1>3
  <2> HIDE DEF out
  <2> QED
    BY <2>1, WithoutIs
<1>5. ASSUME NEW k \in Collector PROVE entry(k) \in Entries
  <2>1. \A t \in out(k) : pending[k][t] \in SUBSET Event
    BY <1>1, <1>3, BucketFields
  <2>2. items(k) \in SUBSET Event
    BY <2>1
  <2>3. Response(c) \in Call \X Nat
    BY <1>1 DEF Response
  <2> HIDE DEF items
  <2> QED
    BY <2>2, <2>3 DEF Entries
<1>6. ASSUME NEW k \in Collector, k \notin attached PROVE rest(k) = pending[k]
  <2>1. out(k) = {} /\ DOMAIN pending[k] \ {} = DOMAIN pending[k]
    BY <1>6
  <2>2. \E D \in SUBSET Nat : pending[k] \in [D -> SUBSET Event]
    BY <1>1 DEF Buckets
  <2> QED
    BY <2>1, <2>2
<1>7. pending' \in [Collector -> Buckets]
  <2> HIDE DEF rest
  <2> QED
    BY <1>2, <1>4
<1>8. finished' \in [Collector -> Seq(Entries)]
  <2> HIDE DEF entry
  <2>1. \A k \in Collector : Append(finished[k], entry(k)) \in Seq(Entries)
    BY <1>1, <1>5, AppendProperties
  <2> QED
    BY <1>1, <1>2, <2>1
<1>9. ASSUME NEW k \in Collector, k \in attached
      PROVE  LET o == Bucket(pending[k], turn[c]) IN
             /\ pending'[k] = [t \in DOMAIN pending[k] \ o |-> pending[k][t]]
             /\ finished'[k] = Append(finished[k],
                  [of |-> Response(c), items |-> UNION {pending[k][t] : t \in o}])
  BY <1>2, <1>9
<1>10. ASSUME NEW k \in Collector, k \notin attached
       PROVE  pending'[k] = pending[k] /\ finished'[k] = finished[k]
  <2> HIDE DEF rest
  <2> QED
    BY <1>2, <1>6, <1>10
<1> QED
  BY <1>7, <1>8, <1>9, <1>10

LEMMA EndsType ==
  ASSUME Types, NEW c \in Call, Ends(c)
  PROVE  pending' \in [Collector -> Buckets] /\ finished' \in [Collector -> Seq(Entries)]
<1>1. CASE TurnCompletes(c)
  BY <1>1, CompletesType
<1>2. CASE UNCHANGED <<pending, finished>>
  BY <1>2 DEF Types
<1> QED
  BY <1>1, <1>2 DEF Ends

LEMMA TypesNext ==
  ASSUME Types, BatchesAreOwn, [Next]_vars
  PROVE  Types'
<1>1. CASE UNCHANGED vars
  BY <1>1 DEF vars, Types
<1>2. ASSUME NEW c \in Call, Opens(c) PROVE Types'
  BY <1>2, OpensType DEF Opens, Types, States
<1>3. ASSUME NEW c \in Call, Respond(c) PROVE Types'
  <2>1. PICK w \in SUBSET TurnEvents(c, turn[c]) : waiting' = [waiting EXCEPT ![c] = w]
    BY <1>3, RespondHears
  <2>2. w \in SUBSET Event
    BY EventParts DEF Types
  <2>3. waiting' \in [Call -> SUBSET Event] /\ pc' \in [Call -> States]
    BY <1>3, <2>1, <2>2, RespondHears DEF Types, States
  <2>4. /\ pending' \in [Collector -> Buckets] /\ finished' \in [Collector -> Seq(Entries)]
        /\ heard' \in [Collector -> SUBSET Event]
    BY <1>3, RespondHears, HearsType
  <2> QED
    BY <1>3, <2>3, <2>4 DEF Respond, Types
<1>4. ASSUME NEW c \in Call, StartTool(c) PROVE Types'
  <2>1. PICK x \in waiting[c] :
          /\ Hears(c, x) /\ UNCHANGED pc
          /\ waiting' = [waiting EXCEPT ![c] = @ \ {x}] /\ running' = [running EXCEPT ![c] = @ \cup {x}]
    BY <1>4, StartHears
  <2>2. /\ pending' \in [Collector -> Buckets] /\ finished' \in [Collector -> Seq(Entries)]
        /\ heard' \in [Collector -> SUBSET Event]
    BY <2>1, HearsType
  <2>3. waiting' \in [Call -> SUBSET Event] /\ running' \in [Call -> SUBSET Event]
    BY <2>1 DEF Types
  <2> QED
    BY <1>4, <2>1, <2>2, <2>3 DEF StartTool, Types
<1>5. ASSUME NEW c \in Call, ToolResult(c) PROVE Types'
  BY <1>5 DEF ToolResult, Types, metricVars
<1>6. ASSUME NEW c \in Call, Ends(c) PROVE Types'
  <2>1. cut' \subseteq Call /\ attached' \subseteq Collector
    BY <1>6 DEF Ends, Types
  <2>2. /\ waiting' \in [Call -> SUBSET Event] /\ running' \in [Call -> SUBSET Event]
        /\ pc' \in [Call -> States]
    BY <1>6 DEF Ends, Types, States
  <2> QED
    BY <1>6, <2>1, <2>2, EndsType DEF Ends, Types
<1> QED
  BY <1>1, <1>2, <1>3, <1>4, <1>5, <1>6, Kinds

LEMMA BatchesNext ==
  ASSUME Types, BatchesAreOwn, [Next]_vars
  PROVE  BatchesAreOwn'
<1> USE DEF BatchesAreOwn
<1>1. CASE UNCHANGED vars
  BY <1>1 DEF vars
<1>2. ASSUME NEW c \in Call, Opens(c) PROVE BatchesAreOwn'
  <2>1. waiting[c] = {} /\ running[c] = {}
    BY <1>2 DEF Opens
  <2>2. \A d \in Call \ {c} : turn'[d] = turn[d] /\ pc'[d] = pc[d]
    BY <1>2 DEF Opens, Types
  <2> QED
    BY <1>2, <2>1, <2>2 DEF Opens
<1>3. ASSUME NEW c \in Call, Respond(c) PROVE BatchesAreOwn'
  <2>1. PICK w \in SUBSET TurnEvents(c, turn[c]) : waiting' = [waiting EXCEPT ![c] = w]
    BY <1>3, RespondHears
  <2>2. running[c] = {} /\ waiting[c] = {} /\ UNCHANGED <<running, turn>>
    BY <1>3, RespondHears DEF Hears
  <2>3. pc'[c] # "tools" => waiting'[c] = {}
    BY <1>3, <2>2, RespondHears
  <2>4. \A d \in Call \ {c} : waiting'[d] = waiting[d] /\ pc'[d] = pc[d]
    BY <1>3, <2>1, RespondHears DEF Types
  <2>5. waiting'[c] = w
    BY <2>1 DEF Types
  <2> QED
    BY <2>2, <2>3, <2>4, <2>5
<1>4. ASSUME NEW c \in Call, StartTool(c) PROVE BatchesAreOwn'
  <2>1. PICK x \in waiting[c] :
          /\ Hears(c, x) /\ pc[c] = "tools" /\ UNCHANGED pc
          /\ waiting' = [waiting EXCEPT ![c] = @ \ {x}] /\ running' = [running EXCEPT ![c] = @ \cup {x}]
    BY <1>4, StartHears
  <2>2. \A d \in Call : /\ waiting'[d] \cup running'[d] = waiting[d] \cup running[d]
                        /\ waiting'[d] \cap running'[d] = {}
    BY <2>1 DEF Types
  <2>3. \A d \in Call \ {c} : waiting'[d] = waiting[d] /\ running'[d] = running[d]
    BY <2>1 DEF Types
  <2>4. UNCHANGED turn
    BY <2>1 DEF Hears
  <2> QED
    BY <2>1, <2>2, <2>3, <2>4
<1>5. ASSUME NEW c \in Call, ToolResult(c) PROVE BatchesAreOwn'
  BY <1>5 DEF ToolResult, Types
<1>6. ASSUME NEW c \in Call, Ends(c) PROVE BatchesAreOwn'
  <2>1. waiting'[c] = {} /\ running'[c] = {} /\ UNCHANGED turn
    BY <1>6 DEF Ends, Types
  <2>2. \A d \in Call \ {c} : waiting'[d] = waiting[d] /\ running'[d] = running[d] /\ pc'[d] = pc[d]
    BY <1>6 DEF Ends, Types
  <2> QED
    BY <2>1, <2>2
<1> QED
  BY <1>1, <1>2, <1>3, <1>4, <1>5, <1>6, Kinds

\* What has happened stays so, and an event that is heard happens.
LEMMA HappenedNext ==
  ASSUME Types, BatchesAreOwn, Next, NEW x \in Event, Happened(x)
  PROVE  Happened(x)'
<1>1. x[1] \in Call /\ x[2] \in Nat /\ turn[x[1]] \in Nat /\ pc \in [Call -> States]
  BY EventFields DEF Types
<1>2. ASSUME NEW c \in Call, Opens(c) PROVE Happened(x)'
  <2>1. CASE x[1] = c
    <3>1. pc[c] = "next" /\ turn'[c] = turn[c] + 1 /\ UNCHANGED waiting
      BY <1>1, <1>2, <2>1 DEF Opens, Happened, Types
    <3>2. pc'[c] = "provider" /\ x[2] <= turn[c] /\ x \notin waiting[c]
      BY <1>1, <1>2, <2>1 DEF Opens, Happened
    <3> QED
      BY <1>1, <2>1, <3>1, <3>2 DEF Happened
  <2>2. CASE x[1] # c
    BY <1>1, <1>2, <2>2 DEF Opens, Happened, Types
  <2> QED
    BY <2>1, <2>2
<1>3. ASSUME NEW c \in Call, Respond(c) PROVE Happened(x)'
  <2>1. PICK w \in SUBSET TurnEvents(c, turn[c]) : waiting' = [waiting EXCEPT ![c] = w]
    BY <1>3, RespondHears
  <2>2. pc[c] = "provider" /\ pc'[c] \in {"ending", "tools"} /\ pc' = [pc EXCEPT ![c] = pc'[c]] /\ UNCHANGED turn
    BY <1>3, RespondHears DEF Hears
  <2>3. CASE x[1] = c
    <3>1. x[2] <= turn[c] /\ x[2] # turn[c]
      BY <2>2, <2>3 DEF Happened
    <3>2. \A y \in TurnEvents(c, turn[c]) : y[2] = turn[c]
      <4>1. turn[c] \in Nat
        BY <1>1, <2>3
      <4> QED
        BY <4>1, EventParts
    <3>3. x \notin waiting'[c]
      BY <2>1, <3>1, <3>2 DEF Types
    <3> QED
      BY <2>2, <2>3, <3>1, <3>3 DEF Happened
  <2>4. CASE x[1] # c
    BY <1>1, <2>1, <2>2, <2>4 DEF Happened, Types
  <2> QED
    BY <2>3, <2>4
<1>4. ASSUME NEW c \in Call, StartTool(c) PROVE Happened(x)'
  <2>1. UNCHANGED <<pc, turn>> /\ \A d \in Call : waiting'[d] \subseteq waiting[d]
    BY <1>4 DEF StartTool, Types
  <2> QED
    BY <1>1, <2>1 DEF Happened
<1>5. ASSUME NEW c \in Call, ToolResult(c) PROVE Happened(x)'
  BY <1>1, <1>5 DEF ToolResult, Happened
<1>6. ASSUME NEW c \in Call, Ends(c) PROVE Happened(x)'
  <2>1. /\ UNCHANGED turn /\ \A d \in Call : waiting'[d] \subseteq waiting[d]
        /\ \A d \in Call : pc'[d] = pc[d] \/ pc'[d] \notin {"new", "provider"}
    BY <1>6 DEF Ends, Types
  <2> QED
    BY <1>1, <2>1 DEF Happened
<1> QED
  BY <1>2, <1>3, <1>4, <1>5, <1>6, Kinds

LEMMA RespondHappens ==
  ASSUME Types, BatchesAreOwn, NEW c \in Call, Respond(c), NEW x, x = Response(c)
  PROVE  Happened(x)'
<1>1. PICK w \in SUBSET TurnEvents(c, turn[c]) : waiting' = [waiting EXCEPT ![c] = w]
  BY RespondHears
<1>2. pc'[c] \in {"ending", "tools"} /\ UNCHANGED turn
  BY RespondHears DEF Hears
<1>3. x[1] = c /\ x[2] = turn[c] /\ x \notin TurnEvents(c, turn[c]) /\ turn[c] \in Nat
  BY EventParts DEF Types, Response
<1>4. x \notin waiting'[c]
  BY <1>1, <1>3 DEF Types
<1> QED
  BY <1>2, <1>3, <1>4 DEF Happened

LEMMA StartHappens ==
  ASSUME Types, BatchesAreOwn, NEW c \in Call, StartTool(c), NEW x \in waiting[c],
         Hears(c, x), UNCHANGED pc, waiting' = [waiting EXCEPT ![c] = @ \ {x}], pc[c] = "tools"
  PROVE  Happened(x)'
<1>1. x[1] = c /\ x[2] = turn[c] /\ x \notin waiting'[c] /\ turn[c] \in Nat /\ UNCHANGED turn
  BY DEF Hears, Types
<1> QED
  BY <1>1 DEF Happened

LEMMA HeardNext ==
  ASSUME Base, [Next]_vars
  PROVE  HeardHappened'
<1>0. Types /\ BatchesAreOwn /\ HeardHappened /\ Types'
  BY TypesNext DEF Base
<1>1. CASE UNCHANGED vars
  BY <1>0, <1>1 DEF vars, HeardHappened, Happened
<1>2. CASE Next
  <2>1. ASSUME NEW k \in Collector, NEW x \in heard[k] PROVE Happened(x)'
    BY <1>0, <1>2, <2>1, HappenedNext DEF Types, HeardHappened
  <2>2. CASE UNCHANGED heard
    BY <2>1, <2>2 DEF HeardHappened
  <2>3. ASSUME NEW c \in Call, NEW y, Hears(c, y), Happened(y)' PROVE HeardHappened'
    <3>1. \A k \in Collector : heard'[k] \subseteq heard[k] \cup {y}
      BY <2>3 DEF Hears
    <3> QED
      BY <2>1, <2>3, <3>1 DEF HeardHappened
  <2>4. ASSUME NEW c \in Call, Respond(c) PROVE HeardHappened'
    <3>1. PICK y : y = Response(c)
      OBVIOUS
    <3>2. Hears(c, y) /\ Happened(y)'
      BY <1>0, <2>4, <3>1, RespondHears, RespondHappens
    <3> QED
      BY <2>3, <3>2
  <2>5. ASSUME NEW c \in Call, StartTool(c) PROVE HeardHappened'
    <3>1. PICK x \in waiting[c] :
            /\ Hears(c, x) /\ pc[c] = "tools" /\ UNCHANGED pc
            /\ waiting' = [waiting EXCEPT ![c] = @ \ {x}]
      BY <1>0, <2>5, StartHears
    <3>2. Happened(x)'
      BY <1>0, <2>5, <3>1, StartHappens
    <3> QED
      BY <2>3, <3>1, <3>2
  <2>6. ASSUME NEW c \in Call, Opens(c) \/ ToolResult(c) \/ Ends(c) PROVE UNCHANGED heard
    BY <2>6 DEF Opens, ToolResult, Ends, metricVars
  <2> QED
    BY <1>0, <1>2, <2>2, <2>4, <2>5, <2>6, Kinds
<1> QED
  BY <1>1, <1>2

LEMMA BaseNext ==
  ASSUME Base, [Next]_vars
  PROVE  Base'
<1>0. /\ Types /\ BatchesAreOwn /\ AloneUnlessOverlapped /\ AttachedWhileRunning /\ CutStops
      /\ pc \in [Call -> States] /\ cut \subseteq Call /\ Agent \notin Call /\ Call = Case \cup Chat
  BY TelemetryAssumption DEF Base, Types, Call
<1>1. Types' /\ BatchesAreOwn' /\ HeardHappened'
  BY <1>0, TypesNext, BatchesNext, HeardNext
<1>2. CASE UNCHANGED vars
  BY <1>0, <1>1, <1>2 DEF vars, Base, AloneUnlessOverlapped, AttachedWhileRunning, CutStops
<1>3. ASSUME UNCHANGED <<attached, overlapped, cut>>, NEW c \in Call, pc' = [pc EXCEPT ![c] = pc'[c]],
             pc[c] \in Mid, pc'[c] \in Mid
      PROVE  AloneUnlessOverlapped' /\ AttachedWhileRunning' /\ CutStops'
  <2>1. \A d \in Call : (pc'[d] \in Idle <=> pc[d] \in Idle) /\ (pc[d] \in {"assert", "done"} => pc'[d] = pc[d])
    BY <1>0, <1>3 DEF Mid, Idle
  <2> QED
    BY <1>0, <1>3, <2>1 DEF AloneUnlessOverlapped, AttachedWhileRunning, CutStops
<1>4. ASSUME NEW c \in Call, Opens(c)
      PROVE  AloneUnlessOverlapped' /\ AttachedWhileRunning' /\ CutStops'
  <2>1. pc[c] \in {"new", "next"} /\ pc'[c] = "provider" /\ \A d \in Call \ {c} : pc'[d] = pc[d]
    BY <1>0, <1>4 DEF Opens
  <2>2. CutStops'
    BY <1>0, <1>4, <2>1 DEF Opens, CutStops
  <2>3. CASE pc[c] = "new"
    <3>1. /\ attached' = attached \cup ({c} \cap Case)
          /\ overlapped' = overlapped \cup {d \in Call : pc[d] \notin Idle}
               \cup (IF {d \in Call : pc[d] \notin Idle} = {} THEN {} ELSE {c})
      BY <1>4, <2>3 DEF Opens
    <3>2. AloneUnlessOverlapped'
      BY <2>1, <3>1 DEF AloneUnlessOverlapped, Idle
    <3>3. AttachedWhileRunning'
      BY <1>0, <2>1, <2>3, <3>1 DEF AttachedWhileRunning, Idle
    <3> QED
      BY <2>2, <3>2, <3>3
  <2>4. CASE pc[c] = "next"
    <3>1. UNCHANGED <<attached, overlapped>>
      BY <1>4, <2>4 DEF Opens
    <3>2. \A d \in Call : pc'[d] \in Idle <=> pc[d] \in Idle
      BY <2>1, <2>4 DEF Idle
    <3> QED
      BY <1>0, <2>2, <3>1, <3>2 DEF AloneUnlessOverlapped, AttachedWhileRunning
  <2> QED
    BY <2>1, <2>3, <2>4
<1>5. ASSUME NEW c \in Call, Ends(c)
      PROVE  AloneUnlessOverlapped' /\ AttachedWhileRunning' /\ CutStops'
  <2>1. /\ pc[c] \notin Idle /\ pc'[c] \in {"next", "assert", "done"} /\ UNCHANGED overlapped
        /\ \A d \in Call \ {c} : pc'[d] = pc[d]
        /\ attached' = (IF pc'[c] = "done" THEN attached \ {c} ELSE attached)
    BY <1>0, <1>5 DEF Ends
  <2>2. AloneUnlessOverlapped'
    BY <1>0, <2>1 DEF AloneUnlessOverlapped, Idle
  <2>3. AttachedWhileRunning'
    BY <1>0, <2>1 DEF AttachedWhileRunning, Idle
  <2>4. CutStops'
    <3>1. /\ c \in cut => pc'[c] # "next"
          /\ cut' = cut \/ (cut' = cut \cup {c} /\ pc'[c] # "next")
      BY <1>0, <1>5 DEF Ends, CutStops, Mid
    <3> QED
      BY <1>0, <2>1, <3>1 DEF CutStops
  <2> QED
    BY <2>2, <2>3, <2>4
<1>6. ASSUME NEW c \in Call, Respond(c)
      PROVE  AloneUnlessOverlapped' /\ AttachedWhileRunning' /\ CutStops'
  <2>1. /\ UNCHANGED <<attached, overlapped, cut>> /\ pc' = [pc EXCEPT ![c] = pc'[c]]
        /\ pc[c] \in Mid /\ pc'[c] \in Mid
    BY <1>0, <1>6, RespondHears DEF Hears
  <2> QED
    BY <1>3, <2>1
<1>7. ASSUME NEW c \in Call, StartTool(c) \/ ToolResult(c)
      PROVE  AloneUnlessOverlapped' /\ AttachedWhileRunning' /\ CutStops'
  <2>1. UNCHANGED <<attached, overlapped, cut, pc>>
    BY <1>7 DEF StartTool, ToolResult
  <2> QED
    BY <1>0, <2>1 DEF AloneUnlessOverlapped, AttachedWhileRunning, CutStops
<1>8. CASE Next
  <2>1. AloneUnlessOverlapped' /\ AttachedWhileRunning' /\ CutStops'
    BY <1>0, <1>4, <1>5, <1>6, <1>7, <1>8, Kinds
  <2> QED
    BY <1>1, <2>1 DEF Base
<1> QED
  BY <1>2, <1>8

-----------------------------------------------------------------------------
(* Nothing is lost or doubled.                                             *)

\* The steps of a collector.
LEMMA OpensBuckets ==
  ASSUME Types, NEW c \in Call, Opens(c), NEW k \in Collector
  PROVE  /\ turn'[c] \in Nat /\ heard'[k] = heard[k] /\ finished'[k] = finished[k]
         /\ pending'[k] = (IF k \in attached' THEN With(pending[k], turn'[c], {}) ELSE pending[k])
BY OpensType DEF Opens

Misses(k) == pending'[k] = pending[k] /\ heard'[k] = heard[k]

Books(k, c, x) ==
  /\ heard'[k] = heard[k] \cup {x}
  /\ \E t \in Nat : /\ pending'[k] = With(pending[k], t, {x})
                    /\ DOMAIN pending[k] = {turn[c]} => t = turn[c]

LEMMA HearsBuckets ==
  ASSUME Types, NEW c \in Call, NEW x, Hears(c, x), NEW k \in Collector
  PROVE  finished'[k] = finished[k] /\ (IF k \in attached THEN Books(k, c, x) ELSE Misses(k))
<1>1. PICK place \in [Collector -> Nat] :
        /\ pending' = [j \in Collector |->
             IF j \in attached THEN With(pending[j], place[j], {x}) ELSE pending[j]]
        /\ \A j \in Collector : DOMAIN pending[j] = {turn[c]} => place[j] = turn[c]
  BY DEF Hears
<1>2. /\ finished' = finished
      /\ heard'[k] = IF k \in attached THEN heard[k] \cup {x} ELSE heard[k]
  BY DEF Hears
<1>3. pending'[k] = IF k \in attached THEN With(pending[k], place[k], {x}) ELSE pending[k]
  BY <1>1
<1>4. place[k] \in Nat /\ (DOMAIN pending[k] = {turn[c]} => place[k] = turn[c])
  BY <1>1
<1> QED
  BY <1>2, <1>3, <1>4 DEF Books, Misses

LEMMA AllBookedNext ==
  ASSUME Base, AllBooked, [Next]_vars
  PROVE  AllBooked'
<1>0. Types /\ BatchesAreOwn /\ HeardHappened
  BY DEF Base
<1>1. CASE UNCHANGED <<pending, finished, heard>>
  BY <1>1 DEF AllBooked, Booked
<1>2. SUFFICES ASSUME Next, NEW k \in Collector
               PROVE  Booked(pending'[k], finished'[k], heard'[k])
  BY <1>1 DEF vars, AllBooked
<1>3. /\ Booked(pending[k], finished[k], heard[k]) /\ pending[k] \in Buckets
      /\ finished[k] \in Seq(Entries) /\ heard[k] \in SUBSET Event
  BY <1>0 DEF AllBooked, Types
<1>4. CASE pending'[k] = pending[k] /\ finished'[k] = finished[k] /\ heard'[k] = heard[k]
  BY <1>3, <1>4
<1>5. ASSUME NEW c \in Call, Opens(c) PROVE Booked(pending'[k], finished'[k], heard'[k])
  <2>1. Booked(With(pending[k], turn'[c], {}), finished[k], heard[k] \cup {})
    <3> DEFINE none == {}
    <3>1. none \in SUBSET Event /\ none \cap heard[k] = {} /\ turn'[c] \in Nat
      BY <1>0, <1>5, OpensBuckets
    <3> HIDE DEF none
    <3>2. Booked(With(pending[k], turn'[c], none), finished[k], heard[k] \cup none)
      BY <1>3, <3>1, BookedHear
    <3> QED
      BY <3>2 DEF none
  <2>2. heard[k] \cup {} = heard[k]
    OBVIOUS
  <2> QED
    BY <1>0, <1>4, <1>5, <2>1, <2>2, OpensBuckets
<1>6. ASSUME NEW c \in Call, NEW x, Hears(c, x) PROVE Booked(pending'[k], finished'[k], heard'[k])
  <2>1. x \notin heard[k] /\ {x} \in SUBSET Event
    BY <1>0, <1>6 DEF Hears, HeardHappened
  <2>2. CASE k \in attached
    <3>1. PICK t \in Nat : pending'[k] = With(pending[k], t, {x})
      <4>1. Books(k, c, x)
        BY <1>0, <1>6, <2>2, HearsBuckets
      <4> QED
        BY <4>1 DEF Books
    <3>2. heard'[k] = heard[k] \cup {x} /\ finished'[k] = finished[k]
      BY <1>6, <2>2 DEF Hears
    <3>3. {x} \cap heard[k] = {}
      BY <2>1
    <3>4. Booked(With(pending[k], t, {x}), finished[k], heard[k] \cup {x})
      BY <1>3, <2>1, <3>3, BookedHear
    <3> QED
      BY <3>1, <3>2, <3>4
  <2>3. CASE k \notin attached
    <3>1. finished'[k] = finished[k] /\ Misses(k)
      BY <1>0, <1>6, <2>3, HearsBuckets
    <3> QED
      BY <1>4, <3>1 DEF Misses
  <2> QED
    BY <2>2, <2>3
<1>7. ASSUME NEW c \in Call, Ends(c) PROVE Booked(pending'[k], finished'[k], heard'[k])
  <2>1. heard' = heard
    BY <1>7 DEF Ends
  <2>2. CASE UNCHANGED <<pending, finished>>
    BY <1>4, <2>1, <2>2
  <2>3. CASE TurnCompletes(c)
    <3> DEFINE out == Bucket(pending[k], turn[c])
    <3>1. CASE k \in attached
      <4>1. /\ pending'[k] = [t \in DOMAIN pending[k] \ out |-> pending[k][t]]
            /\ finished'[k] = Append(finished[k],
                 [of |-> Response(c), items |-> UNION {pending[k][t] : t \in out}])
        BY <1>0, <2>3, <3>1, CompletesType
      <4>2. turn[c] \in Nat /\ Response(c) \in Call \X Nat
        BY <1>0 DEF Types, Response
      <4>3. Booked([t \in DOMAIN pending[k] \ out |-> pending[k][t]],
                   Append(finished[k], [of |-> Response(c), items |-> UNION {pending[k][t] : t \in out}]),
                   heard[k])
        BY <1>3, <4>2, BookedComplete
      <4> QED
        BY <2>1, <4>1, <4>3
    <3>2. CASE k \notin attached
      BY <1>0, <1>4, <2>1, <2>3, <3>2, CompletesType
    <3> QED
      BY <3>1, <3>2
  <2> QED
    BY <1>7, <2>2, <2>3 DEF Ends
<1>8. ASSUME NEW c \in Call, Respond(c) PROVE Booked(pending'[k], finished'[k], heard'[k])
  <2>1. PICK x : x = Response(c)
    OBVIOUS
  <2>2. Hears(c, x)
    BY <1>0, <1>8, <2>1, RespondHears
  <2> QED
    BY <1>6, <2>2
<1>9. ASSUME NEW c \in Call, StartTool(c) PROVE Booked(pending'[k], finished'[k], heard'[k])
  BY <1>0, <1>6, <1>9, StartHears
<1>10. ASSUME NEW c \in Call, ToolResult(c) PROVE Booked(pending'[k], finished'[k], heard'[k])
  BY <1>4, <1>10 DEF ToolResult, metricVars
<1> QED
  BY <1>0, <1>2, <1>5, <1>7, <1>8, <1>9, <1>10, Kinds

\* The tracker falls behind the totals by answers that were cut short only.
UsageCounted == usage \subseteq totals /\ \A r \in totals \ usage : r[1] \in cut

LEMMA UsageNext ==
  ASSUME Types, BatchesAreOwn, UsageCounted, [Next]_vars
  PROVE  UsageCounted'
<1>1. CASE UNCHANGED <<usage, totals, cut>>
  BY <1>1 DEF UsageCounted
<1>2. ASSUME NEW c \in Call, Respond(c) PROVE UsageCounted'
  BY <1>2 DEF Respond, UsageCounted
<1>3. ASSUME NEW c \in Call, Ends(c) PROVE UsageCounted'
  <2>1. Response(c)[1] = c
    BY DEF Response
  <2>2. UNCHANGED usage /\ (UNCHANGED <<totals, cut>>
          \/ (cut' = cut \cup {c} /\ totals' \in {totals, totals \cup {Response(c)}}))
    BY <1>3 DEF Ends
  <2> QED
    BY <2>1, <2>2 DEF UsageCounted
<1>4. ASSUME NEW c \in Call, Opens(c) \/ StartTool(c) \/ ToolResult(c) PROVE UNCHANGED <<usage, totals, cut>>
  BY <1>4 DEF Opens, StartTool, ToolResult
<1> QED
  BY <1>1, <1>2, <1>3, <1>4, Kinds DEF vars

\* The latest of a sequence.
LEMMA KeptIs ==
  ASSUME NEW s \in Seq(Entries)
  PROVE  Latest(Kept(s), s)
<1> DEFINE n == Len(s)
           m == n - Keep + 1
<1>1. Keep \in Nat \ {0} /\ n \in Nat /\ DOMAIN s = 1..n
  BY TelemetryAssumption
<1>2. CASE n > Keep
  <2>1. m \in 1..n /\ n - m + 1 = Keep
    BY <1>1, <1>2
  <2>2. \A i \in m..n : s[i] \in Entries
    BY <1>1, <2>1
  <2> HIDE DEF m
  <2>3. /\ SubSeq(s, m, n) \in Seq(Entries) /\ Len(SubSeq(s, m, n)) = Keep
        /\ \A i \in 1..Keep : SubSeq(s, m, n)[i] = s[m + i - 1]
    BY <1>1, <2>1, <2>2, SubSeqProperties
  <2>4. \A i \in 1..Keep : m + i - 1 = n - Keep + i
    BY <1>1 DEF m
  <2>5. Kept(s) = SubSeq(s, m, n)
    BY <1>2 DEF Kept, m
  <2> QED
    BY <1>1, <1>2, <2>3, <2>4, <2>5 DEF Latest
<1>3. CASE ~(n > Keep)
  BY <1>1, <1>3 DEF Kept, Latest
<1> QED
  BY <1>2, <1>3

\* Trimming after each turn keeps what one trim at the end would.
LEMMA LatestAppend ==
  ASSUME NEW turns, NEW all \in Seq(Entries), NEW e \in Entries, Latest(turns, all)
  PROVE  Latest(Kept(Append(turns, e)), Append(all, e))
<1> DEFINE m == Len(turns)
           n == Len(all)
           t == Append(turns, e)
           a == Append(all, e)
           u == Kept(t)
<1>1. Keep \in Nat \ {0} /\ turns \in Seq(Entries) /\ m \in Nat /\ n \in Nat
  BY TelemetryAssumption DEF Latest
<1>2. /\ t \in Seq(Entries) /\ Len(t) = m + 1 /\ t[m + 1] = e /\ \A i \in 1..m : t[i] = turns[i]
  BY <1>1, AppendProperties
<1>3. /\ a \in Seq(Entries) /\ Len(a) = n + 1 /\ a[n + 1] = e /\ \A i \in 1..n : a[i] = all[i]
  BY <1>1, AppendProperties
<1>4. Latest(u, t)
  BY <1>2, KeptIs
<1>5. m = (IF n > Keep THEN Keep ELSE n) /\ \A i \in 1..m : turns[i] = all[n - m + i]
  BY DEF Latest
<1> HIDE DEF t, a, u, m, n
<1>6. u \in Seq(Entries) /\ Len(u) = (IF m + 1 > Keep THEN Keep ELSE m + 1)
  BY <1>2, <1>4 DEF Latest
<1>7. Len(u) = (IF n + 1 > Keep THEN Keep ELSE n + 1) /\ Len(u) \in 0..m + 1
  BY <1>1, <1>5, <1>6
<1>8. ASSUME NEW i \in 1..Len(u) PROVE u[i] = a[n + 1 - Len(u) + i]
  <2>1. u[i] = t[m + 1 - Len(u) + i]
    <3>1. u[i] = t[Len(t) - Len(u) + i]
      BY <1>4, <1>8 DEF Latest
    <3>2. Len(t) - Len(u) + i = m + 1 - Len(u) + i
      BY <1>1, <1>2, <1>7
    <3> QED
      BY <3>1, <3>2
  <2>2. CASE i = Len(u)
    <3>1. m + 1 - Len(u) + i = m + 1 /\ n + 1 - Len(u) + i = n + 1
      BY <1>1, <1>7, <2>2
    <3> QED
      BY <1>2, <1>3, <2>1, <3>1
  <2>3. CASE i # Len(u)
    <3>1. PICK j : j = m + 1 - Len(u) + i
      OBVIOUS
    <3>2. j \in 1..m /\ n - m + j = n + 1 - Len(u) + i /\ n - m + j \in 1..n
      BY <1>1, <1>5, <1>7, <2>3, <3>1
    <3>3. t[j] = all[n - m + j]
      BY <1>2, <1>5, <3>2
    <3> QED
      BY <1>3, <2>1, <3>1, <3>2, <3>3
  <2> QED
    BY <2>2, <2>3
<1>9. \A i \in 1..Len(u) : u[i] = a[Len(a) - Len(u) + i]
  <2> SUFFICES ASSUME NEW i \in 1..Len(u) PROVE u[i] = a[Len(a) - Len(u) + i]
    OBVIOUS
  <2>1. Len(a) - Len(u) + i = n + 1 - Len(u) + i
    BY <1>1, <1>3, <1>7
  <2> QED
    BY <1>8, <2>1
<1>10. Len(u) = (IF Len(a) > Keep THEN Keep ELSE Len(a))
  BY <1>3, <1>7
<1>11. Latest(u, a)
  BY <1>6, <1>9, <1>10 DEF Latest
<1> QED
  BY <1>11 DEF t, a, u

\* The collectors keep the latest turns.
LEMMA LatestNext ==
  ASSUME Base, AllLatest, [Next]_vars
  PROVE  AllLatest'
<1>1. CASE UNCHANGED <<completed, finished>>
  BY <1>1 DEF AllLatest, Latest
<1>2. ASSUME NEW c \in Call, TurnCompletes(c) PROVE AllLatest'
  <2> SUFFICES ASSUME NEW k \in Collector PROVE Latest(completed'[k], finished'[k])
    BY DEF AllLatest, Latest
  <2>1. Types /\ Latest(completed[k], finished[k]) /\ finished[k] \in Seq(Entries)
    BY DEF Base, Types, AllLatest
  <2> DEFINE out == IF k \in attached THEN Bucket(pending[k], turn[c]) ELSE {}
             e == [of |-> Response(c), items |-> UNION {pending[k][t] : t \in out}]
  <2>2. CASE k \notin attached
    BY <1>2, <2>1, <2>2 DEF TurnCompletes
  <2>3. CASE k \in attached
    <3>1. completed'[k] = Kept(Append(completed[k], e)) /\ finished'[k] = Append(finished[k], e)
      BY <1>2, <2>3 DEF TurnCompletes
    <3>2. pending[k] \in Buckets /\ turn[c] \in Nat
      BY <2>1 DEF Types
    <3>3. out \subseteq DOMAIN pending[k]
      BY <2>3, <3>2, BucketIs
    <3>4. \A t \in out : pending[k][t] \in SUBSET Event
      BY <3>2, <3>3, BucketFields
    <3>5. Response(c) \in Call \X Nat
      BY <3>2 DEF Response
    <3> HIDE DEF out
    <3>6. e \in Entries
      BY <3>4, <3>5 DEF Entries
    <3> HIDE DEF e
    <3> QED
      BY <2>1, <3>1, <3>6, LatestAppend
  <2> QED
    BY <2>2, <2>3
<1>3. ASSUME Next PROVE UNCHANGED <<completed, finished>> \/ \E c \in Call : TurnCompletes(c)
  <2>1. PICK c \in Call : Opens(c) \/ Respond(c) \/ StartTool(c) \/ ToolResult(c) \/ Ends(c)
    BY <1>3, Kinds DEF Base
  <2>2. CASE Opens(c) \/ ToolResult(c)
    BY <2>2 DEF Opens, ToolResult, metricVars
  <2>3. CASE Respond(c) \/ StartTool(c)
    BY <2>3 DEF Respond, StartTool, Hear
  <2>4. CASE Ends(c)
    BY <2>4 DEF Ends
  <2> QED
    BY <2>1, <2>2, <2>3, <2>4
<1> QED
  BY <1>1, <1>2, <1>3 DEF vars

\* The turns left, when some are gone from the front.
LeftOf(turns, all, gone) ==
  /\ gone \in Nat /\ (gone > 0 => Len(turns) = Keep)
  /\ DOMAIN turns = 1..Len(turns) /\ DOMAIN all = 1..Len(all) /\ 1..gone \subseteq DOMAIN all
  /\ \A i \in DOMAIN turns : gone + i \in DOMAIN all /\ turns[i] = all[gone + i]
  /\ \A j \in DOMAIN all \ 1..gone : \E i \in DOMAIN turns : j = gone + i

LEMMA LatestAre ==
  ASSUME NEW turns, NEW all \in Seq(Entries), Latest(turns, all),
         NEW gone, gone = Len(all) - Len(turns)
  PROVE  LeftOf(turns, all, gone)
<1> DEFINE m == Len(turns)
           n == Len(all)
<1>0. gone = n - m
  OBVIOUS
<1>1. /\ Keep \in Nat \ {0} /\ turns \in Seq(Entries) /\ m \in Nat /\ n \in Nat
      /\ DOMAIN turns = 1..m /\ DOMAIN all = 1..n
  BY TelemetryAssumption DEF Latest
<1>2. m = (IF n > Keep THEN Keep ELSE n) /\ \A i \in 1..m : turns[i] = all[gone + i]
  BY DEF Latest
<1> HIDE DEF m, n
<1>3. gone \in Nat /\ (gone > 0 => m = Keep) /\ gone + m = n
  BY <1>0, <1>1, <1>2
<1>4. \A i \in 1..m : gone + i \in 1..n
  BY <1>1, <1>3
<1>5. ASSUME NEW j \in 1..n, j \notin 1..gone PROVE \E i \in 1..m : j = gone + i
  <2>1. j - gone \in 1..m /\ j = gone + (j - gone)
    BY <1>1, <1>3, <1>5
  <2> QED
    BY <2>1
<1>6. 1..gone \subseteq 1..n
  BY <1>1, <1>3
<1> QED
  BY <1>1, <1>2, <1>3, <1>4, <1>5, <1>6 DEF m, n, LeftOf

LEMMA AccountsAdd ==
  ASSUME Types, AllBooked, AllLatest, UsageCounted
  PROVE  NothingLostOrDoubled
<1> SUFFICES ASSUME NEW k \in Collector
             PROVE  LET gone == Len(finished[k]) - Len(completed[k])
                        trimmed == UNION {finished[k][i].items : i \in 1..gone}
                        buckets == {<<"completed", i>> : i \in DOMAIN completed[k]}
                                     \cup {<<"pending", t>> : t \in DOMAIN pending[k]}
                        items(b) == IF b[1] = "completed" THEN completed[k][b[2]].items
                                    ELSE pending[k][b[2]]
                    IN  /\ UNION {items(b) : b \in buckets} = heard[k] \ trimmed
                        /\ \A b, d \in buckets : b # d => items(b) \cap items(d) = {}
                        /\ gone > 0 => Len(completed[k]) = Keep
  BY DEF NothingLostOrDoubled, UsageCounted
<1> DEFINE gone == Len(finished[k]) - Len(completed[k])
           trimmed == UNION {finished[k][i].items : i \in 1..gone}
           buckets == {<<"completed", i>> : i \in DOMAIN completed[k]}
                        \cup {<<"pending", t>> : t \in DOMAIN pending[k]}
           items(b) == IF b[1] = "completed" THEN completed[k][b[2]].items ELSE pending[k][b[2]]
<1>1. Booked(pending[k], finished[k], heard[k])
  BY DEF AllBooked
<1>2. /\ gone \in Nat /\ (gone > 0 => Len(completed[k]) = Keep)
      /\ 1..gone \subseteq DOMAIN finished[k] /\ DOMAIN completed[k] \subseteq Int
      /\ \A i \in DOMAIN completed[k] : gone + i \in DOMAIN finished[k] \ 1..gone
                                         /\ completed[k][i] = finished[k][gone + i]
      /\ \A j \in DOMAIN finished[k] \ 1..gone : \E i \in DOMAIN completed[k] : j = gone + i
  <2>1. finished[k] \in Seq(Entries) /\ Latest(completed[k], finished[k])
    BY DEF Types, AllLatest
  <2>2. LeftOf(completed[k], finished[k], gone)
    BY <2>1, LatestAre
  <2> HIDE DEF gone
  <2>3. gone \in Nat /\ DOMAIN completed[k] \subseteq Int
    BY <2>2 DEF LeftOf
  <2>4. \A i \in DOMAIN completed[k] : gone + i \notin 1..gone
    BY <2>2, <2>3 DEF LeftOf
  <2> QED
    BY <2>2, <2>3, <2>4 DEF LeftOf
<1> HIDE DEF gone
<1>3. \A i \in DOMAIN completed[k] :
        <<"completed", i>> \in buckets /\ items(<<"completed", i>>) = finished[k][gone + i].items
  BY <1>2
<1>4. \A t \in DOMAIN pending[k] : <<"pending", t>> \in buckets /\ items(<<"pending", t>>) = pending[k][t]
  OBVIOUS
<1>5. \A b \in buckets : \/ \E i \in DOMAIN completed[k] : b = <<"completed", i>>
                         \/ \E t \in DOMAIN pending[k] : b = <<"pending", t>>
  OBVIOUS
<1>6. \A x : x \in trimmed <=> \E j \in 1..gone : x \in finished[k][j].items
  OBVIOUS
<1> HIDE DEF buckets, items, trimmed
<1>7. ASSUME NEW b \in buckets PROVE items(b) \subseteq heard[k] \ trimmed
  <2>1. ASSUME NEW i \in DOMAIN completed[k], b = <<"completed", i>> PROVE items(b) \subseteq heard[k] \ trimmed
    <3>1. /\ gone + i \in DOMAIN finished[k] /\ \A j \in 1..gone : j # gone + i /\ j \in DOMAIN finished[k]
          /\ items(b) = finished[k][gone + i].items
      BY <1>2, <1>3, <2>1
    <3> QED
      BY <1>1, <1>6, <3>1 DEF Booked
  <2>2. ASSUME NEW t \in DOMAIN pending[k], b = <<"pending", t>> PROVE items(b) \subseteq heard[k] \ trimmed
    <3>1. (\A j \in 1..gone : j \in DOMAIN finished[k]) /\ items(b) = pending[k][t]
      BY <1>2, <1>4, <2>2
    <3> QED
      BY <1>1, <1>6, <3>1 DEF Booked
  <2> QED
    BY <1>5, <2>1, <2>2
<1>8. ASSUME NEW x \in heard[k] \ trimmed PROVE \E b \in buckets : x \in items(b)
  <2>1. ASSUME NEW j \in DOMAIN finished[k], x \in finished[k][j].items PROVE \E b \in buckets : x \in items(b)
    <3>1. j \notin 1..gone
      BY <1>6, <1>8, <2>1
    <3>2. PICK i \in DOMAIN completed[k] : j = gone + i
      BY <1>2, <2>1, <3>1
    <3> QED
      BY <1>3, <2>1, <3>2
  <2>2. CASE \E t \in DOMAIN pending[k] : x \in pending[k][t]
    BY <1>4, <2>2
  <2> QED
    BY <1>1, <2>1, <2>2 DEF Booked
<1>9. UNION {items(b) : b \in buckets} = heard[k] \ trimmed
  BY <1>7, <1>8
<1>10. ASSUME NEW b \in buckets, NEW d \in buckets, b # d PROVE items(b) \cap items(d) = {}
  <2>1. ASSUME NEW i \in DOMAIN completed[k], NEW j \in DOMAIN completed[k],
               b = <<"completed", i>>, d = <<"completed", j>>
        PROVE  items(b) \cap items(d) = {}
    <3>1. i # j /\ i \in Int /\ j \in Int
      BY <1>2, <1>10, <2>1
    <3>2. gone + i # gone + j
      BY <1>2, <3>1
    <3> QED
      BY <1>1, <1>2, <1>3, <2>1, <3>2 DEF Booked
  <2>2. CASE \E i \in DOMAIN completed[k], t \in DOMAIN pending[k] : b = <<"completed", i>> /\ d = <<"pending", t>>
    BY <1>1, <1>2, <1>3, <1>4, <2>2 DEF Booked
  <2>3. CASE \E i \in DOMAIN completed[k], t \in DOMAIN pending[k] : d = <<"completed", i>> /\ b = <<"pending", t>>
    BY <1>1, <1>2, <1>3, <1>4, <2>3 DEF Booked
  <2>4. CASE \E t, u \in DOMAIN pending[k] : b = <<"pending", t>> /\ d = <<"pending", u>>
    BY <1>1, <1>4, <1>10, <2>4 DEF Booked
  <2> QED
    BY <1>5, <2>1, <2>2, <2>3, <2>4
<1> QED
  BY <1>2, <1>9, <1>10 DEF trimmed, buckets, items, gone

LEMMA BaseInvariant == Spec => []Base
<1>1. Base /\ [Next]_vars => Base'
  BY BaseNext
<1> QED
  BY <1>1, InitBase, PTL DEF Spec

\* Whatever overlaps, fails or is cancelled, a collector doubles nothing and loses nothing
\* but the oldest completed turns once it has Keep later ones, and the tracker's total
\* differs from those of the sessions by answers cut short only.
THEOREM EverythingOnce == Spec => []NothingLostOrDoubled
<1>1. Init => AllBooked /\ AllLatest /\ UsageCounted
  <2> SUFFICES ASSUME Init PROVE AllBooked /\ AllLatest /\ UsageCounted
    OBVIOUS
  <2>1. \A k \in Collector :
          pending[k] = <<>> /\ finished[k] = <<>> /\ completed[k] = <<>> /\ heard[k] = {}
    BY DEF Init
  <2>2. DOMAIN <<>> = {}
    OBVIOUS
  <2>3. Latest(<<>>, <<>>)
    BY TelemetryAssumption DEF Latest
  <2> QED
    BY <2>1, <2>2, <2>3 DEF Init, AllBooked, AllLatest, Booked, UsageCounted
<1>2. Base /\ AllBooked /\ AllLatest /\ UsageCounted /\ [Next]_vars
        => (AllBooked /\ AllLatest /\ UsageCounted)'
  BY AllBookedNext, LatestNext, UsageNext DEF Base
<1>3. Base /\ AllBooked /\ AllLatest /\ UsageCounted => NothingLostOrDoubled
  BY AccountsAdd DEF Base
<1> QED
  BY <1>1, <1>2, <1>3, BaseInvariant, PTL DEF Spec

-----------------------------------------------------------------------------
(* Turns and cases of their own.                                           *)

\* Who hears a call that runs while a collector is undisturbed: the agent's collector
\* and the call's own, nobody else.
LEMMA OnlyOwn ==
  ASSUME Base, NEW c \in Call, pc[c] \notin Idle, NEW k \in Collector, Undisturbed(k), k \in attached
  PROVE  k \in {Agent, c} /\ \A d \in Call \ {c} : pc[d] \in Idle
<1>1. k = Agent \/ (k # Agent /\ k \in Case /\ k \in Call /\ pc[k] \notin Idle /\ k \notin overlapped)
  BY DEF Base, AttachedWhileRunning, Undisturbed, Collector, Call
<1>2. CASE k = Agent
  BY <1>2 DEF Base, AloneUnlessOverlapped, Undisturbed
<1>3. CASE k # Agent
  <2>1. k = c
    BY <1>1, <1>3 DEF Base, AloneUnlessOverlapped
  <2> QED
    BY <1>1, <1>3, <2>1 DEF Base, AloneUnlessOverlapped
<1> QED
  BY <1>2, <1>3

LEMMA OwnAttached ==
  ASSUME Base, NEW c \in Call, pc[c] \notin Idle, NEW k \in Collector, k \in {Agent, c}
  PROVE  k \in attached
BY TelemetryAssumption DEF Base, AttachedWhileRunning, Collector, Call

\* What is disturbed stays so.
LEMMA DisturbedStays ==
  ASSUME Types, BatchesAreOwn, Next, NEW k \in Collector, Undisturbed(k)'
  PROVE  Undisturbed(k)
<1>1. overlapped \subseteq overlapped' /\ cut \subseteq cut'
  <2>1. ASSUME NEW c \in Call, Opens(c) \/ Respond(c) \/ StartTool(c) \/ ToolResult(c) \/ Ends(c)
        PROVE  overlapped \subseteq overlapped' /\ cut \subseteq cut'
    BY <2>1 DEF Opens, Respond, StartTool, ToolResult, Ends
  <2> QED
    BY <2>1, Kinds
<1> QED
  BY <1>1 DEF Undisturbed

LEMMA OverNext ==
  ASSUME Base, EntriesAreOver, [Next]_vars
  PROVE  EntriesAreOver'
<1>0. Types /\ BatchesAreOwn /\ pc \in [Call -> States] /\ turn \in [Call -> Nat]
  BY DEF Base, Types
<1> DEFINE Over(e) == /\ e.of \in Call \X Nat /\ pc[e.of[1]] # "new" /\ e.of[2] <= turn[e.of[1]]
                      /\ e.of[2] = turn[e.of[1]] => pc[e.of[1]] \notin Mid
<1>1. ASSUME NEW k \in Collector, NEW i \in DOMAIN finished[k]
      PROVE  finished[k][i] \in Entries /\ Over(finished[k][i])
  <2>1. finished[k][i] \in Entries
    BY DEF Base, Types
  <2> QED
    BY <2>1 DEF EntriesAreOver, Entries
<1>2. CASE UNCHANGED vars
  BY <1>2 DEF EntriesAreOver, vars
<1>3. ASSUME Next, NEW e \in Entries, Over(e)
      PROVE  /\ pc'[e.of[1]] # "new" /\ e.of[2] <= turn'[e.of[1]]
             /\ e.of[2] = turn'[e.of[1]] => pc'[e.of[1]] \notin Mid
  <2> DEFINE d == e.of[1]
             t == e.of[2]
  <2>1. d \in Call /\ t \in Nat /\ pc[d] # "new" /\ t <= turn[d] /\ (t = turn[d] => pc[d] \notin Mid)
        /\ turn[d] \in Nat
    BY <1>0, <1>3
  <2> HIDE DEF d, t
  <2>2. ASSUME NEW c \in Call, Opens(c)
        PROVE  pc'[d] # "new" /\ t <= turn'[d] /\ (t = turn'[d] => pc'[d] \notin Mid)
    <3>1. CASE d = c
      <4>1. pc'[d] = "provider" /\ turn'[d] = turn[d] + 1
        BY <1>0, <2>1, <2>2, <3>1 DEF Opens
      <4> QED
        BY <2>1, <4>1
    <3>2. CASE d # c
      BY <1>0, <2>1, <2>2, <3>2 DEF Opens
    <3> QED
      BY <3>1, <3>2
  <2>3. ASSUME UNCHANGED turn, pc'[d] # "new", pc'[d] \in Mid => pc[d] \in Mid
        PROVE  pc'[d] # "new" /\ t <= turn'[d] /\ (t = turn'[d] => pc'[d] \notin Mid)
    BY <2>1, <2>3
  <2>4. ASSUME NEW c \in Call, Respond(c)
        PROVE  UNCHANGED turn /\ pc'[d] # "new" /\ (pc'[d] \in Mid => pc[d] \in Mid)
    <3>1. pc[c] \in Mid /\ pc' = [pc EXCEPT ![c] = pc'[c]] /\ pc'[c] # "new" /\ UNCHANGED turn
      BY <1>0, <2>4, RespondHears DEF Hears, Mid
    <3> QED
      BY <1>0, <2>1, <3>1
  <2>5. ASSUME NEW c \in Call, Ends(c)
        PROVE  UNCHANGED turn /\ pc'[d] # "new" /\ (pc'[d] \in Mid => pc[d] \in Mid)
    BY <1>0, <2>1, <2>5 DEF Ends, Mid
  <2>6. ASSUME NEW c \in Call, StartTool(c) \/ ToolResult(c) PROVE UNCHANGED <<pc, turn>>
    BY <2>6 DEF StartTool, ToolResult
  <2>7. pc'[d] # "new" /\ t <= turn'[d] /\ (t = turn'[d] => pc'[d] \notin Mid)
    BY <1>0, <1>3, <2>1, <2>2, <2>3, <2>4, <2>5, <2>6, Kinds
  <2> QED
    BY <2>7 DEF d, t
<1>4. ASSUME Next, UNCHANGED finished PROVE EntriesAreOver'
  <2> HIDE DEF Over
  <2> QED
    BY <1>1, <1>3, <1>4 DEF EntriesAreOver
<1>5. ASSUME Next, NEW c \in Call, Ends(c), TurnCompletes(c) PROVE EntriesAreOver'
  <2> SUFFICES ASSUME NEW k \in Collector, NEW i \in DOMAIN finished'[k]
               PROVE  LET e == finished'[k][i] IN
                      /\ pc'[e.of[1]] # "new" /\ e.of[2] <= turn'[e.of[1]]
                      /\ e.of[2] = turn'[e.of[1]] => pc'[e.of[1]] \notin Mid
    BY DEF EntriesAreOver
  <2>1. CASE i \in DOMAIN finished[k] /\ finished'[k][i] = finished[k][i]
    <3>1. PICK e \in Entries : e = finished[k][i] /\ Over(e)
      BY <1>1, <2>1
    <3> HIDE DEF Over
    <3> QED
      BY <1>3, <1>5, <2>1, <3>1
  <2>2. CASE finished'[k][i].of = Response(c)
    <3>1. /\ Response(c)[1] = c /\ Response(c)[2] = turn[c] /\ turn'[c] = turn[c] /\ turn[c] \in Nat
          /\ pc'[c] \in {"next", "assert", "done"}
      BY <1>0, <1>5 DEF Response, Ends
    <3> QED
      BY <2>2, <3>1 DEF Mid
  <2>3. CASE k \in attached
    <3> DEFINE more == [of |-> Response(c), items |-> UNION {pending[k][t] : t \in Bucket(pending[k], turn[c])}]
               n == Len(finished[k])
    <3>1. finished'[k] = Append(finished[k], more) /\ finished'[k] \in Seq(Entries)
      BY <1>0, <1>5, <2>3, CompletesType
    <3>2. more.of = Response(c)
      OBVIOUS
    <3> HIDE DEF more
    <3>3. finished[k] \in Seq(Entries)
      BY <1>0 DEF Types
    <3>4. n \in Nat /\ DOMAIN finished[k] = 1..n /\ DOMAIN finished'[k] = 1..n + 1
          /\ finished'[k][n + 1] = more /\ \A j \in 1..n : finished'[k][j] = finished[k][j]
      BY <3>1, <3>3
    <3>5. i \in 1..n \/ i = n + 1
      BY <3>4
    <3> QED
      BY <2>1, <2>2, <3>2, <3>4, <3>5
  <2>4. CASE k \notin attached
    BY <1>0, <1>5, <2>1, <2>4, CompletesType
  <2> QED
    BY <2>3, <2>4
<1>6. ASSUME NEW c \in Call, Opens(c) \/ Respond(c) \/ StartTool(c) \/ ToolResult(c) \/ Ends(c)
      PROVE  UNCHANGED finished \/ (Ends(c) /\ TurnCompletes(c))
  BY <1>6 DEF Opens, Respond, StartTool, ToolResult, Ends, Hear, metricVars
<1> QED
  BY <1>0, <1>2, <1>4, <1>5, <1>6, Kinds

LEMMA HearsOwnNext ==
  ASSUME Base, HearsOwn, [Next]_vars
  PROVE  HearsOwn'
<1>0. Types /\ BatchesAreOwn
  BY DEF Base
<1>1. CASE UNCHANGED vars
  BY <1>1 DEF vars, HearsOwn, Undisturbed
<1>2. CASE Next
  <2> SUFFICES ASSUME NEW k \in Case, Undisturbed(k)', NEW x \in heard'[k] PROVE x[1] = k
    BY DEF HearsOwn
  <2>0. k \in Collector /\ Undisturbed(k) /\ k # Agent
    BY <1>0, <1>2, DisturbedStays, TelemetryAssumption DEF Collector
  <2>1. CASE x \in heard[k]
    BY <2>0, <2>1 DEF HearsOwn
  <2>2. ASSUME NEW c \in Call, NEW y, Hears(c, y) PROVE x[1] = k
    <3>1. x \in heard[k] \/ (k \in attached /\ x = y)
      BY <2>0, <2>2 DEF Hears
    <3>2. CASE k \in attached /\ x = y
      <4>1. pc[c] \notin Idle /\ y[1] = c
        BY <2>2 DEF Hears, Mid, Idle
      <4> QED
        BY <2>0, <3>2, <4>1, OnlyOwn
    <3> QED
      BY <2>1, <3>1, <3>2
  <2>3. ASSUME NEW c \in Call, Respond(c) PROVE x[1] = k
    <3>1. PICK y : y = Response(c)
      OBVIOUS
    <3> QED
      BY <1>0, <2>2, <2>3, <3>1, RespondHears
  <2>4. ASSUME NEW c \in Call, StartTool(c) PROVE x[1] = k
    BY <1>0, <2>2, <2>4, StartHears
  <2>5. ASSUME NEW c \in Call, Opens(c) \/ ToolResult(c) \/ Ends(c) PROVE UNCHANGED heard
    BY <2>5 DEF Opens, ToolResult, Ends, metricVars
  <2> QED
    BY <1>0, <1>2, <2>1, <2>3, <2>4, <2>5, Kinds
<1> QED
  BY <1>1, <1>2

\* What a case's collector holds comes from its own run unless something overlapped
\* with it, and nothing is attached after the end of a case.
THEOREM CasesApart == Spec => []CasesAreIsolated
<1>1. Init => HearsOwn
  BY DEF Init, HearsOwn, Collector
<1>2. Base /\ HearsOwn /\ [Next]_vars => HearsOwn'
  BY HearsOwnNext
<1>3. Base /\ HearsOwn => CasesAreIsolated
  BY DEF Base, HearsOwn, CasesAreIsolated, AttachedWhileRunning
<1> QED
  BY <1>1, <1>2, <1>3, BaseInvariant, PTL DEF Spec

\* The steps of the loop, for collectors: they open a turn, bring an event, end a turn or
\* call, or concern none of them.
LEMMA Effects ==
  ASSUME Types, BatchesAreOwn, Next
  PROVE  \E c \in Call :
           \/ Opens(c)
           \/ \E x : Hears(c, x) /\ \A d \in Call \ {c} : pc'[d] = pc[d]
           \/ Ends(c)
           \/ UNCHANGED <<pc, turn, attached, pending, finished, heard, overlapped, cut>>
<1>1. PICK c \in Call : Opens(c) \/ Respond(c) \/ StartTool(c) \/ ToolResult(c) \/ Ends(c)
  BY Kinds
<1>2. CASE Respond(c)
  <2>1. PICK x : x = Response(c)
    OBVIOUS
  <2>2. Hears(c, x) /\ pc' = [pc EXCEPT ![c] = pc'[c]]
    BY <1>2, <2>1, RespondHears
  <2>3. \A d \in Call \ {c} : pc'[d] = pc[d]
    BY <2>2 DEF Types
  <2> QED
    BY <2>2, <2>3
<1>3. CASE StartTool(c)
  <2>1. PICK x : Hears(c, x) /\ UNCHANGED pc
    BY <1>3, StartHears
  <2> QED
    BY <2>1
<1>4. CASE ToolResult(c)
  BY <1>4 DEF ToolResult, metricVars
<1> QED
  BY <1>1, <1>2, <1>3, <1>4

\* What one collector has open.
OpenTurn(k) ==
  /\ \A c \in Call : k \in {Agent, c} /\ pc[c] \in Mid =>
       DOMAIN pending[k] = {turn[c]} /\ pending[k][turn[c]] = Parts(k, c, turn[c])
  /\ (IF k = Agent THEN \A c \in Call : pc[c] \notin Mid ELSE pc[k] \in {"new", "next"}) =>
       DOMAIN pending[k] = {}

\* A collector of a call other than the running one sees nothing of it.
LEMMA OthersOpenTurn ==
  ASSUME NEW c \in Call, NEW k \in Collector \ {Agent, c}, OpenTurn(k),
         pc'[k] = pc[k], turn'[k] = turn[k], pending'[k] = pending[k], heard'[k] = heard[k]
  PROVE  OpenTurn(k)'
<1>1. \A d \in Call : k \in {Agent, d} => d = k
  OBVIOUS
<1>2. \A t : Parts(k, k, t)' = Parts(k, k, t)
  BY DEF Parts
<1> QED
  BY <1>1, <1>2 DEF OpenTurn

LEMMA OpensOpenTurn ==
  ASSUME Base, Base', NEW c \in Call, Opens(c), NEW k \in Collector, Undisturbed(k), Undisturbed(k)', OpenTurn(k)
  PROVE  OpenTurn(k)'
<1>0. /\ Types /\ pc \in [Call -> States] /\ turn \in [Call -> Nat] /\ pending[k] \in Buckets /\ heard[k] \in SUBSET Event
      /\ Agent \notin Call /\ Collector = Case \cup {Agent} /\ Case \subseteq Call
  BY TelemetryAssumption DEF Base, Types, Collector, Call
<1>1. /\ pc[c] \in {"new", "next"} /\ pc'[c] = "provider" /\ \A d \in Call \ {c} : pc'[d] = pc[d] /\ turn'[d] = turn[d]
      /\ pc[c] # "new" => turn'[c] = turn[c] + 1
  BY <1>0 DEF Opens
<1>2. /\ turn'[c] \in Nat /\ heard'[k] = heard[k]
      /\ pending'[k] = (IF k \in attached' THEN With(pending[k], turn'[c], {}) ELSE pending[k])
  BY <1>0, OpensBuckets
<1>3. \A d \in Call \ {c} : k \in {Agent, c, d} => pc'[d] \in Idle
  BY <1>1 DEF Base, AloneUnlessOverlapped, Undisturbed, Idle
<1>4. k \in attached' <=> k \in {Agent, c}
  <2>1. attached' = {Agent} \cup {d \in Case : pc'[d] \notin Idle}
    BY DEF Base, AttachedWhileRunning
  <2>2. k # Agent => k \in Case
    BY <1>0
  <2>3. pc'[c] \notin Idle
    BY <1>1 DEF Idle
  <2> QED
    BY <1>0, <1>3, <2>1, <2>2, <2>3
<1>5. CASE k \in {Agent, c}
  <2>1. DOMAIN pending[k] = {}
    <3>1. \A d \in Call : k = Agent => pc[d] \notin Mid
      BY <1>1, <1>3 DEF Mid, Idle
    <3> QED
      BY <1>1, <1>5, <3>1 DEF OpenTurn
  <2>2. DOMAIN pending'[k] = {turn'[c]} /\ pending'[k][turn'[c]] = {}
    <3> DEFINE none == {}
    <3>1. none \in SUBSET Event
      OBVIOUS
    <3> HIDE DEF none
    <3>2. PICK t \in Nat : t = turn'[c]
      BY <1>2
    <3>3. /\ DOMAIN With(pending[k], t, none) = DOMAIN pending[k] \cup {t}
          /\ t \notin DOMAIN pending[k] => With(pending[k], t, none)[t] = none
      <4>1. pending[k] \in Buckets /\ none \in SUBSET Event
        BY <1>0, <3>1
      <4>2. IsWith(With(pending[k], t, none), pending[k], t, none)
        BY <4>1, WithIs
      <4> QED
        BY <4>2 DEF IsWith
    <3>4. t \notin DOMAIN pending[k]
      BY <2>1
    <3>5. DOMAIN With(pending[k], t, none) = {t} /\ With(pending[k], t, none)[t] = none
      BY <2>1, <3>3, <3>4
    <3>6. pending'[k] = With(pending[k], t, none)
      BY <1>2, <1>4, <1>5, <3>2 DEF none
    <3> QED
      BY <3>2, <3>5, <3>6 DEF none
  <2>3. Parts(k, c, turn[c])' = {}
    <3>1. ASSUME NEW x \in heard[k], x[1] = c PROVE x[2] # turn'[c]
      <4>1. pc[c] # "new" /\ x[2] <= turn[c] /\ turn[c] \in Nat
        BY <1>0, <3>1 DEF Base, HeardHappened, Happened
      <4>2. x[2] \in Nat
        BY <1>0, EventFields
      <4> QED
        BY <1>1, <4>1, <4>2
    <3> QED
      BY <1>2, <3>1 DEF Parts
  <2>4. \A d \in Call : k \in {Agent, d} /\ pc'[d] \in Mid => d = c
    BY <1>3 DEF Mid, Idle
  <2>5. IF k = Agent THEN pc'[c] \in Mid ELSE pc'[k] \notin {"new", "next"}
    BY <1>1, <1>5 DEF Mid
  <2> QED
    BY <2>2, <2>3, <2>4, <2>5 DEF OpenTurn
<1>6. CASE k \notin {Agent, c}
  <2>1. k \in Collector \ {Agent, c} /\ k \in Call \ {c}
    BY <1>0, <1>6
  <2>2. pc'[k] = pc[k] /\ turn'[k] = turn[k] /\ pending'[k] = pending[k]
    BY <1>1, <1>2, <1>4, <2>1
  <2> QED
    BY <1>2, <2>1, <2>2, OthersOpenTurn
<1> QED
  BY <1>5, <1>6

LEMMA HearsOpenTurn ==
  ASSUME Base, NEW c \in Call, NEW x, Hears(c, x), \A d \in Call \ {c} : pc'[d] = pc[d],
         NEW k \in Collector, Undisturbed(k), OpenTurn(k)
  PROVE  OpenTurn(k)'
<1>0. /\ Types /\ turn \in [Call -> Nat] /\ pending[k] \in Buckets
      /\ Agent \notin Call /\ Collector = Case \cup {Agent} /\ Case \subseteq Call
  BY TelemetryAssumption DEF Base, Types, Collector, Call
<1>1. pc[c] \in Mid /\ pc'[c] \in Mid /\ turn' = turn /\ x[1] = c /\ x[2] = turn[c] /\ pc[c] \notin Idle
      /\ x \in Event
  BY DEF Hears, Mid, Idle
<1>2. CASE k \in {Agent, c}
  <2>1. k \in attached /\ \A d \in Call \ {c} : pc[d] \in Idle
    BY <1>1, <1>2, OwnAttached, OnlyOwn
  <2>2. DOMAIN pending[k] = {turn[c]} /\ pending[k][turn[c]] = Parts(k, c, turn[c])
    BY <1>1, <1>2 DEF OpenTurn
  <2>3. heard'[k] = heard[k] \cup {x} /\ pending'[k] = With(pending[k], turn[c], {x})
    <3>1. Books(k, c, x)
      <4>1. Types /\ k \in attached
        BY <1>0, <2>1
      <4> QED
        BY <4>1, HearsBuckets
    <3> QED
      BY <2>2, <3>1 DEF Books
  <2>4. DOMAIN pending'[k] = {turn[c]} /\ pending'[k][turn[c]] = Parts(k, c, turn[c]) \cup {x}
    <3>1. {x} \in SUBSET Event /\ turn[c] \in Nat
      BY <1>0, <1>1
    <3>2. IsWith(pending'[k], pending[k], turn[c], {x})
      BY <1>0, <2>3, <3>1, WithIs
    <3> QED
      BY <2>2, <3>2 DEF IsWith
  <2>5. Parts(k, c, turn[c])' = Parts(k, c, turn[c]) \cup {x}
    BY <1>1, <2>3 DEF Parts
  <2>6. \A d \in Call : pc'[d] \in Mid => d = c
    BY <2>1 DEF Mid, Idle
  <2>7. IF k = Agent THEN pc'[c] \in Mid ELSE pc'[k] \notin {"new", "next"}
    BY <1>1, <1>2 DEF Mid
  <2> QED
    BY <1>1, <2>4, <2>5, <2>6, <2>7 DEF OpenTurn
<1>3. CASE k \notin {Agent, c}
  <2>1. k \notin attached
    BY <1>1, <1>3, OnlyOwn
  <2>2. k \in Collector \ {Agent, c} /\ k \in Call \ {c}
    BY <1>0, <1>3
  <2>3. pending'[k] = pending[k] /\ heard'[k] = heard[k]
    <3>1. Misses(k)
      BY <1>0, <2>1, HearsBuckets
    <3> QED
      BY <3>1 DEF Misses
  <2>4. pc'[k] = pc[k] /\ turn'[k] = turn[k]
    BY <1>1, <2>2
  <2> QED
    BY <2>2, <2>3, <2>4, OthersOpenTurn
<1> QED
  BY <1>2, <1>3

\* The turn of an undisturbed collector takes its bucket along.
LEMMA OwnBucket ==
  ASSUME Base, NEW c \in Call, pc[c] \in Mid, TurnCompletes(c),
         NEW k \in Collector, Undisturbed(k), OpenTurn(k), k \in attached
  PROVE  /\ k \in {Agent, c} /\ DOMAIN pending'[k] = {}
         /\ finished'[k] = Append(finished[k], [of |-> Response(c), items |-> Parts(k, c, turn[c])])
<1>1. k \in {Agent, c}
  BY OnlyOwn DEF Mid, Idle
<1>2. DOMAIN pending[k] = {turn[c]} /\ pending[k][turn[c]] = Parts(k, c, turn[c])
  BY <1>1 DEF OpenTurn
<1> DEFINE out == Bucket(pending[k], turn[c])
<1>3. out = {turn[c]}
  BY <1>2, BucketIs DEF Base, Types
<1>4. /\ pending'[k] = [t \in DOMAIN pending[k] \ out |-> pending[k][t]]
      /\ finished'[k] = Append(finished[k], [of |-> Response(c), items |-> UNION {pending[k][t] : t \in out}])
  BY CompletesType DEF Base
<1> HIDE DEF out
<1>5. UNION {pending[k][t] : t \in out} = Parts(k, c, turn[c])
  BY <1>2, <1>3
<1>6. DOMAIN pending'[k] = {}
  BY <1>2, <1>3, <1>4
<1> QED
  BY <1>1, <1>4, <1>5, <1>6

LEMMA EndsOpenTurn ==
  ASSUME Base, NEW c \in Call, Ends(c), NEW k \in Collector, Undisturbed(k), Undisturbed(k)', OpenTurn(k)
  PROVE  OpenTurn(k)'
<1>0. /\ Types /\ pc \in [Call -> States]
      /\ Agent \notin Call /\ Collector = Case \cup {Agent} /\ Case \subseteq Call
  BY TelemetryAssumption DEF Base, Types, Collector, Call
<1>1. /\ pc[c] \notin Idle /\ pc'[c] \in {"next", "assert", "done"} /\ \A d \in Call \ {c} : pc'[d] = pc[d]
      /\ turn' = turn /\ heard' = heard /\ pc'[c] \notin Mid
  BY <1>0 DEF Ends, Mid
<1>2. \A d \in Call, t \in Nat : Parts(k, d, t)' = Parts(k, d, t)
  BY <1>1 DEF Parts
<1>3. CASE TurnCompletes(c) /\ pc[c] \in Mid
  <2>1. CASE k \in attached
    <3>1. k \in {Agent, c} /\ DOMAIN pending'[k] = {} /\ \A d \in Call \ {c} : pc[d] \in Idle
      BY <1>1, <1>3, <2>1, OwnBucket, OnlyOwn
    <3>2. \A d \in Call : pc'[d] \notin Mid
      BY <1>1, <3>1 DEF Mid, Idle
    <3> QED
      BY <3>1, <3>2 DEF OpenTurn
  <2>2. CASE k \notin attached
    <3>1. k \in Collector \ {Agent, c} /\ k \in Call \ {c}
      BY <1>0, <1>1, <2>2, OwnAttached
    <3>2. pending'[k] = pending[k]
      BY <1>0, <1>3, <2>2, CompletesType
    <3> QED
      BY <1>1, <3>1, <3>2, OthersOpenTurn
  <2> QED
    BY <2>1, <2>2
<1>4. CASE UNCHANGED pending /\ k \notin {Agent, c}
  <2>1. k \in Collector \ {Agent, c} /\ k \in Call \ {c}
    BY <1>0, <1>4
  <2> QED
    BY <1>1, <1>4, <2>1, OthersOpenTurn
<1>5. CASE UNCHANGED pending /\ pc[c] \in Mid /\ pc'[c] # "next" /\ cut' = cut \cup {c} /\ k \in {Agent, c}
  <2>1. k = c /\ k # Agent
    BY <1>0, <1>5 DEF Undisturbed
  <2>2. \A d \in Call : k \in {Agent, d} => d = c
    BY <2>1
  <2>3. pc'[k] \notin {"new", "next"}
    BY <1>1, <1>5, <2>1
  <2> QED
    BY <1>1, <2>1, <2>2, <2>3 DEF OpenTurn
<1>6. CASE UNCHANGED pending /\ pc[c] \in {"next", "assert"} /\ pc'[c] = "done" /\ k \in {Agent, c}
  <2>1. pc[c] \notin Mid
    BY <1>6 DEF Mid
  <2>2. \A d \in Call : (pc'[d] \in Mid <=> pc[d] \in Mid)
    BY <1>1, <2>1
  <2>3. k # Agent => pc'[k] \notin {"new", "next"}
    BY <1>6
  <2>4. \A d \in Call : turn[d] \in Nat
    BY <1>0 DEF Types
  <2> QED
    BY <1>1, <1>2, <1>6, <2>2, <2>3, <2>4 DEF OpenTurn
<1>7. \/ TurnCompletes(c) /\ pc[c] \in Mid
      \/ UNCHANGED pending /\ pc[c] \in Mid /\ pc'[c] # "next" /\ cut' = cut \cup {c}
      \/ UNCHANGED pending /\ pc[c] \in {"next", "assert"} /\ pc'[c] = "done"
  BY DEF Ends, Mid
<1> QED
  BY <1>3, <1>4, <1>5, <1>6, <1>7

LEMMA OneBucketNext ==
  ASSUME Base, OneBucketOpen, [Next]_vars
  PROVE  OneBucketOpen'
<1>0. Types /\ BatchesAreOwn /\ Base'
  BY BaseNext DEF Base
<1>1. CASE UNCHANGED <<pc, turn, attached, pending, finished, heard, overlapped, cut>>
  BY <1>1 DEF OneBucketOpen, Undisturbed, Parts
<1>2. ASSUME Next, NEW k \in Collector, Undisturbed(k)' PROVE Undisturbed(k) /\ OpenTurn(k)
  BY <1>0, <1>2, DisturbedStays DEF OneBucketOpen, OpenTurn
<1>3. ASSUME Next, NEW c \in Call, Opens(c) PROVE OneBucketOpen'
  <2>1. \A k \in Collector : Undisturbed(k)' => OpenTurn(k)'
    BY <1>0, <1>2, <1>3, OpensOpenTurn
  <2> QED
    BY <2>1 DEF OneBucketOpen, OpenTurn
<1>4. ASSUME Next, NEW c \in Call, NEW x, Hears(c, x), \A d \in Call \ {c} : pc'[d] = pc[d]
      PROVE  OneBucketOpen'
  <2>1. \A k \in Collector : Undisturbed(k)' => OpenTurn(k)'
    BY <1>2, <1>4, HearsOpenTurn
  <2> QED
    BY <2>1 DEF OneBucketOpen, OpenTurn
<1>5. ASSUME Next, NEW c \in Call, Ends(c) PROVE OneBucketOpen'
  <2>1. \A k \in Collector : Undisturbed(k)' => OpenTurn(k)'
    BY <1>2, <1>5, EndsOpenTurn
  <2> QED
    BY <2>1 DEF OneBucketOpen, OpenTurn
<1> QED
  BY <1>0, <1>1, <1>3, <1>4, <1>5, Effects DEF vars

\* Completed turns hold what is theirs, as nothing is heard of a turn that is over and
\* the bucket that a turn takes along is its own.
LEMMA TurnsNext ==
  ASSUME Base, EntriesAreOver, OneBucketOpen, FinishedAreOwn, [Next]_vars
  PROVE  FinishedAreOwn'
<1>0. Types /\ BatchesAreOwn
  BY DEF Base
<1> DEFINE turnOf(x) == <<x[1], x[2]>>
           Own(e, h) == e.items = {x \in h : turnOf(x) = e.of}
<1>1. CASE UNCHANGED <<finished, heard, overlapped, cut>>
  BY <1>1 DEF FinishedAreOwn, Undisturbed
<1>2. SUFFICES ASSUME Next, NEW k \in Collector, Undisturbed(k)', NEW i \in DOMAIN finished'[k]
               PROVE  Own(finished'[k][i], heard'[k])
  BY <1>1 DEF FinishedAreOwn, vars
<1>3. /\ Undisturbed(k) /\ OpenTurn(k) /\ finished[k] \in Seq(Entries)
      /\ \A j \in DOMAIN finished[k] : Own(finished[k][j], heard[k])
  BY <1>0, <1>2, DisturbedStays DEF OneBucketOpen, OpenTurn, FinishedAreOwn, Types
<1>4. CASE finished'[k] = finished[k] /\ heard'[k] = heard[k]
  BY <1>3, <1>4
<1>5. ASSUME NEW c \in Call, Opens(c) PROVE Own(finished'[k][i], heard'[k])
  BY <1>0, <1>4, <1>5, OpensBuckets
<1>6. ASSUME NEW c \in Call, NEW x, Hears(c, x) PROVE Own(finished'[k][i], heard'[k])
  <2>1. CASE k \notin attached
    <3>1. finished'[k] = finished[k] /\ Misses(k)
      BY <1>0, <1>6, <2>1, HearsBuckets
    <3> QED
      BY <1>4, <3>1 DEF Misses
  <2>2. CASE k \in attached
    <3>1. finished'[k] = finished[k] /\ heard'[k] = heard[k] \cup {x}
      BY <1>6, <2>2 DEF Hears
    <3>2. PICK e \in Entries : e = finished[k][i] /\ i \in DOMAIN finished[k]
      BY <1>3, <3>1
    <3>3. turnOf(x) = <<c, turn[c]>> /\ pc[c] \in Mid
      BY <1>6 DEF Hears
    <3>4. e.of # <<c, turn[c]>>
      <4>1. e.of = <<c, turn[c]>> => e.of[1] = c /\ e.of[2] = turn[c]
        OBVIOUS
      <4> QED
        BY <3>2, <3>3, <4>1 DEF EntriesAreOver
    <3>5. {y \in heard'[k] : turnOf(y) = e.of} = {y \in heard[k] : turnOf(y) = e.of}
      BY <3>1, <3>3, <3>4
    <3> QED
      BY <1>3, <3>1, <3>2, <3>5
  <2> QED
    BY <2>1, <2>2
<1>7. ASSUME NEW c \in Call, Ends(c) PROVE Own(finished'[k][i], heard'[k])
  <2>1. heard' = heard
    BY <1>7 DEF Ends
  <2>2. CASE UNCHANGED finished
    BY <1>4, <2>1, <2>2
  <2>3. CASE TurnCompletes(c) /\ k \notin attached
    BY <1>0, <1>4, <2>1, <2>3, CompletesType
  <2>4. CASE TurnCompletes(c) /\ pc[c] \in Mid /\ k \in attached
    <3> DEFINE more == [of |-> Response(c), items |-> Parts(k, c, turn[c])]
               n == Len(finished[k])
    <3>1. finished'[k] = Append(finished[k], more)
      BY <1>3, <2>4, OwnBucket
    <3>2. more.of = <<c, turn[c]>> /\ more.items = Parts(k, c, turn[c])
      BY DEF Response
    <3>3. more \in Entries
      BY <1>0 DEF Entries, Response, Types, Parts
    <3> HIDE DEF more
    <3>4. /\ n \in Nat /\ DOMAIN finished[k] = 1..n /\ DOMAIN finished'[k] = 1..n + 1
          /\ finished'[k][n + 1] = more /\ \A j \in 1..n : finished'[k][j] = finished[k][j]
      BY <1>3, <3>1, <3>3, AppendProperties
    <3>5. Own(more, heard[k])
      BY <3>2 DEF Parts
    <3>6. i \in 1..n \/ i = n + 1
      BY <3>4
    <3> QED
      BY <1>3, <2>1, <3>4, <3>5, <3>6, SMTT(20)
  <2>5. UNCHANGED finished \/ (TurnCompletes(c) /\ pc[c] \in Mid)
    BY <1>7 DEF Ends, Mid
  <2> QED
    BY <2>2, <2>3, <2>4, <2>5
<1> HIDE DEF Own
<1> QED
  BY <1>0, <1>2, <1>4, <1>5, <1>6, <1>7, Effects

\* While nothing overlaps or is cut short, finished turns hold their own response and
\* tool calls; for a case, while nothing overlaps with it.
THEOREM TurnsApart == Spec => []TurnsAreOwn
<1>1. Init => EntriesAreOver /\ OneBucketOpen /\ FinishedAreOwn /\ AllLatest
  <2> SUFFICES ASSUME Init PROVE EntriesAreOver /\ OneBucketOpen /\ FinishedAreOwn /\ AllLatest
    OBVIOUS
  <2>1. \A k \in Collector :
          DOMAIN pending[k] = {} /\ DOMAIN finished[k] = {} /\ completed[k] = <<>> /\ finished[k] = <<>>
    BY NoBuckets DEF Init
  <2>2. \A c \in Call : pc[c] \notin Mid
    BY DEF Init, Mid
  <2>3. Latest(<<>>, <<>>)
    BY TelemetryAssumption DEF Latest
  <2> QED
    BY <2>1, <2>2, <2>3 DEF EntriesAreOver, OneBucketOpen, FinishedAreOwn, AllLatest
<1>2. Base /\ EntriesAreOver /\ OneBucketOpen /\ FinishedAreOwn /\ AllLatest /\ [Next]_vars
        => (EntriesAreOver /\ OneBucketOpen /\ FinishedAreOwn /\ AllLatest)'
  BY OverNext, OneBucketNext, TurnsNext, LatestNext
<1>3. ASSUME Base, FinishedAreOwn, AllLatest PROVE TurnsAreOwn
  <2>1. ASSUME NEW k \in Collector, NEW i \in DOMAIN completed[k]
        PROVE  \E j \in DOMAIN finished[k] : completed[k][i] = finished[k][j]
    <3>1. finished[k] \in Seq(Entries) /\ Latest(completed[k], finished[k])
      BY <1>3 DEF Base, Types, AllLatest
    <3>2. LeftOf(completed[k], finished[k], Len(finished[k]) - Len(completed[k]))
      BY <3>1, LatestAre
    <3> QED
      BY <2>1, <3>2 DEF LeftOf
  <2> QED
    BY <1>3, <2>1 DEF TurnsAreOwn, FinishedAreOwn
<1> QED
  BY <1>1, <1>2, <1>3, BaseInvariant, PTL DEF Spec

-----------------------------------------------------------------------------
(* Spans.                                                                  *)

\* What the steps do to spans.
LEMMA SpanSteps ==
  ASSUME Types, BatchesAreOwn, SpansOpen, Next
  PROVE  \E c \in Call :
           \/ Opens(c)
           \/ Respond(c)
           \/ StartTool(c)
           \/ /\ \E i \in running[c] :
                   /\ running' = [running EXCEPT ![c] = @ \ {i}] /\ i \in open /\ i[1] = c /\ i \notin Call \X Nat
                   /\ ended' = ended \cup {[span |-> i, by |-> i]} /\ open' = open \ {i}
              /\ UNCHANGED <<pc, turn, waiting, span, overlapped, cut>>
           \/ Ends(c)
<1>1. PICK c \in Call : Opens(c) \/ Respond(c) \/ StartTool(c) \/ ToolResult(c) \/ Ends(c)
  BY Kinds
<1>2. ASSUME NEW i \in running[c] PROVE i \in open /\ i[1] = c /\ i \notin Call \X Nat
  <2>1. i \in TurnEvents(c, turn[c]) /\ turn[c] \in Nat /\ i \in open
    BY DEF BatchesAreOwn, SpansOpen, Types
  <2> QED
    BY <2>1, EventParts
<1>3. CASE ToolResult(c)
  BY <1>2, <1>3 DEF ToolResult
<1> QED
  BY <1>1, <1>3

\* A request starts a span that was never started.
LEMMA RequestIsFresh ==
  ASSUME Types, SpansHappened, NEW c \in Call, Opens(c), NEW s, s = <<c, turn'[c]>>
  PROVE  s \notin Started /\ s \in Call \X Nat /\ s \in Event /\ s[1] = c /\ s[2] = turn'[c]
<1>1. turn'[c] \in Nat /\ turn[c] \in Nat /\ (pc[c] # "new" => turn'[c] = turn[c] + 1) /\ pc[c] # "provider"
  BY DEF Opens, Types
<1>2. s[1] = c /\ s[2] = turn'[c] /\ s \in Call \X Nat
  BY <1>1
<1>3. s \in Event
  BY <1>2 DEF Event
<1>4. s \notin Started
  BY <1>1, <1>2 DEF SpansHappened, Happened
<1> QED
  BY <1>2, <1>3, <1>4

\* So does a tool call.
LEMMA ToolIsFresh ==
  ASSUME BatchesAreOwn, SpansHappened, NEW c \in Call, pc[c] = "tools", NEW x \in waiting[c], x[1] = c
  PROVE  x \notin Started
BY DEF SpansHappened, Happened

LEMMA SpansHappenedNext ==
  ASSUME Base, SpansHappened, SpansOpen, Next
  PROVE  SpansHappened'
<1>0. Types /\ BatchesAreOwn /\ pc \in [Call -> States] /\ turn \in [Call -> Nat] /\ waiting \in [Call -> SUBSET Event]
  BY DEF Base, Types
<1> DEFINE Ok(x) == x \in Event /\ (Happened(x) \/ (pc[x[1]] = "provider" /\ x = Response(x[1])))
           After(x) == x \in Event /\ (Happened(x)' \/ (pc'[x[1]] = "provider" /\ x = <<x[1], turn'[x[1]]>>))
<1>1. ASSUME NEW x \in Started PROVE After(x)
  <2>1. x \in Event /\ x[1] \in Call /\ x[2] \in Nat
    BY EventFields DEF SpansHappened
  <2>2. CASE Happened(x)
    BY <1>0, <2>1, <2>2, HappenedNext
  <2>3. CASE pc[x[1]] = "provider" /\ x = Response(x[1])
    <3>1. PICK d \in Call : d = x[1]
      BY <2>1
    <3>2. x = <<d, turn[d]>> /\ x[2] = turn[d] /\ pc[d] = "provider" /\ turn[d] \in Nat /\ waiting[d] = {}
      BY <1>0, <2>3, <3>1 DEF Response, BatchesAreOwn
    <3>3. CASE pc'[d] = pc[d] /\ turn'[d] = turn[d]
      BY <2>1, <3>1, <3>2, <3>3
    <3>4. ASSUME NEW c \in Call, Opens(c) PROVE pc'[d] = pc[d] /\ turn'[d] = turn[d]
      BY <1>0, <3>2, <3>4 DEF Opens
    <3>5. ASSUME NEW c \in Call, Respond(c) PROVE After(x)
      <4>1. CASE c = d
        <5>1. x = Response(c)
          BY <3>2, <4>1 DEF Response
        <5> QED
          BY <1>0, <2>1, <3>5, <5>1, RespondHappens
      <4>2. CASE c # d
        <5>1. pc' = [pc EXCEPT ![c] = pc'[c]]
          BY <1>0, <3>5, RespondHears
        <5>2. turn' = turn
          BY <3>5 DEF Respond
        <5> QED
          BY <1>0, <3>3, <4>2, <5>1, <5>2
      <4> QED
        BY <4>1, <4>2
    <3>6. ASSUME NEW c \in Call, StartTool(c) \/ ToolResult(c) PROVE pc'[d] = pc[d] /\ turn'[d] = turn[d]
      BY <3>6 DEF StartTool, ToolResult
    <3>7. ASSUME NEW c \in Call, Ends(c) PROVE After(x)
      <4>1. CASE c = d
        <5>1. pc'[d] \in {"next", "assert", "done"} /\ turn'[d] = turn[d] /\ waiting'[d] = {}
          BY <1>0, <3>7, <4>1 DEF Ends
        <5>2. Happened(x)'
          BY <3>1, <3>2, <5>1 DEF Happened
        <5> QED
          BY <2>1, <5>2
      <4>2. CASE c # d
        BY <1>0, <3>3, <3>7, <4>2 DEF Ends
      <4> QED
        BY <4>1, <4>2
    <3> HIDE DEF After
    <3> QED
      BY <1>0, <3>3, <3>4, <3>5, <3>6, <3>7, Kinds
  <2> QED
    BY <2>2, <2>3 DEF SpansHappened
<1>2. ASSUME NEW y, After(y), Started' \subseteq Started \cup {y} PROVE SpansHappened'
  <2>1. \A x \in Started' : After(x)
    <3> HIDE DEF After
    <3> QED
      BY <1>1, <1>2
  <2> QED
    BY <2>1 DEF SpansHappened, Response
<1>3. ASSUME Started' \subseteq Started PROVE SpansHappened'
  <2>1. \A x \in Started' : After(x)
    <3> HIDE DEF After
    <3> QED
      BY <1>1, <1>3
  <2> QED
    BY <2>1 DEF SpansHappened, Response
<1>4. ASSUME NEW c \in Call, Opens(c) PROVE SpansHappened'
  <2>1. PICK s : s = <<c, turn'[c]>>
    OBVIOUS
  <2>2. s \in Event /\ s[1] = c
    BY <1>0, <1>4, <2>1, RequestIsFresh
  <2>3. pc'[c] = "provider" /\ Started' \subseteq Started \cup {s}
    BY <1>0, <1>4, <2>1 DEF Opens, Started
  <2>4. After(s)
    BY <2>1, <2>2, <2>3
  <2> HIDE DEF After
  <2> QED
    BY <1>2, <2>3, <2>4
<1>5. ASSUME NEW c \in Call, Respond(c) PROVE SpansHappened'
  <2>1. CASE span = NoSpan
    BY <1>3, <1>5, <2>1 DEF Respond, spanVars, Started
  <2>2. CASE span # NoSpan
    <3>1. span \in open /\ ended' = ended \cup {[span |-> span, by |-> Response(c)]} /\ open' \subseteq open
      BY <1>5, <2>2 DEF Respond, SpansOpen
    <3> QED
      BY <1>3, <3>1 DEF Started
  <2> QED
    BY <2>1, <2>2
<1>6. ASSUME NEW c \in Call, StartTool(c) PROVE SpansHappened'
  <2>1. PICK x \in waiting[c] :
          /\ Hears(c, x) /\ pc[c] = "tools" /\ UNCHANGED pc /\ waiting' = [waiting EXCEPT ![c] = @ \ {x}]
          /\ open' = open \cup {x} /\ UNCHANGED ended
    BY <1>0, <1>6, StartHears
  <2>2. Happened(x)' /\ x \in Event
    BY <1>0, <1>6, <2>1, StartHappens DEF Hears
  <2>3. After(x) /\ Started' \subseteq Started \cup {x}
    BY <2>1, <2>2 DEF Started
  <2> HIDE DEF After
  <2> QED
    BY <1>2, <2>3
<1>7. ASSUME NEW i \in open, ended' = ended \cup {[span |-> i, by |-> i]}, open' = open \ {i} PROVE SpansHappened'
  BY <1>3, <1>7 DEF Started
<1>8. ASSUME NEW c \in Call, Ends(c) PROVE SpansHappened'
  BY <1>3, <1>8 DEF Ends, Started
<1> QED
  BY <1>0, <1>4, <1>5, <1>6, <1>7, <1>8, SpanSteps

LEMMA SpansOpenNext ==
  ASSUME Base, SpansOpen, Next
  PROVE  SpansOpen'
<1>0. Types /\ BatchesAreOwn /\ running \in [Call -> SUBSET Event] /\ turn \in [Call -> Nat]
  BY DEF Base, Types
<1>1. \A d \in Call : running[d] \subseteq open /\ \A x \in running[d] : x[1] = d /\ x \notin Call \X Nat
  <2> SUFFICES ASSUME NEW d \in Call, NEW x \in running[d] PROVE x \in open /\ x[1] = d /\ x \notin Call \X Nat
    OBVIOUS
  <2>1. x \in TurnEvents(d, turn[d]) /\ turn[d] \in Nat /\ x \in open
    BY <1>0 DEF BatchesAreOwn, SpansOpen
  <2> QED
    BY <2>1, EventParts
<1>2. ASSUME NEW c \in Call, Opens(c) PROVE SpansOpen'
  <2>1. PICK s : s = <<c, turn'[c]>>
    OBVIOUS
  <2>2. s \in Call \X Nat /\ span' = s /\ open' = open \cup {s} /\ running' = running
    BY <1>0, <1>2, <2>1 DEF Opens
  <2> QED
    BY <1>1, <2>2 DEF SpansOpen
<1>3. ASSUME NEW c \in Call, Respond(c) PROVE SpansOpen'
  <2>1. running' = running /\ span' = NoSpan
    BY <1>3 DEF Respond, spanVars
  <2>2. open' = open \/ (span # NoSpan /\ open' = open \ {span})
    BY <1>3 DEF Respond, spanVars
  <2> QED
    BY <1>1, <2>1, <2>2 DEF SpansOpen
<1>4. ASSUME NEW c \in Call, StartTool(c) PROVE SpansOpen'
  <2>1. PICK x : running' = [running EXCEPT ![c] = @ \cup {x}] /\ open' = open \cup {x} /\ UNCHANGED span
    BY <1>0, <1>4, StartHears
  <2> QED
    BY <1>0, <1>1, <2>1 DEF SpansOpen
<1>5. ASSUME NEW c \in Call, NEW i \in running[c],
             running' = [running EXCEPT ![c] = @ \ {i}], open' = open \ {i}, UNCHANGED span
      PROVE  SpansOpen'
  <2>1. i[1] = c /\ i \notin Call \X Nat
    BY <1>1
  <2>2. \A d \in Call : running'[d] \subseteq open'
    BY <1>0, <1>1, <1>5, <2>1
  <2> QED
    BY <1>5, <2>1, <2>2 DEF SpansOpen
<1>6. ASSUME NEW c \in Call, Ends(c) PROVE SpansOpen'
  BY <1>0, <1>1, <1>6 DEF SpansOpen, Ends
<1> QED
  BY <1>0, <1>2, <1>3, <1>4, <1>5, <1>6, SpanSteps

LEMMA EndedOnceNext ==
  ASSUME Base, SpansHappened, SpansOpen, EndedOnce, Next
  PROVE  EndedOnce'
<1>0. Types /\ BatchesAreOwn
  BY DEF Base
<1>1. ASSUME NEW s, s \notin Started, open' = open \cup {s}, UNCHANGED ended PROVE EndedOnce'
  BY <1>1 DEF EndedOnce, Started
<1>2. ASSUME NEW s \in open, NEW b, ended' = ended \cup {[span |-> s, by |-> b]}, open' = open \ {s} PROVE EndedOnce'
  BY <1>2 DEF EndedOnce
<1>3. CASE UNCHANGED <<open, ended>>
  BY <1>3 DEF EndedOnce
<1>4. ASSUME NEW c \in Call, Opens(c) PROVE EndedOnce'
  <2>1. PICK s : s = <<c, turn'[c]>>
    OBVIOUS
  <2>2. s \notin Started /\ open' = open \cup {s} /\ UNCHANGED ended
    BY <1>0, <1>4, <2>1, RequestIsFresh DEF Opens
  <2> QED
    BY <1>1, <2>2
<1>5. ASSUME NEW c \in Call, Respond(c) PROVE EndedOnce'
  <2>1. CASE span = NoSpan
    BY <1>3, <1>5, <2>1 DEF Respond, spanVars
  <2>2. CASE span # NoSpan
    <3>1. span \in open /\ ended' = ended \cup {[span |-> span, by |-> Response(c)]} /\ open' = open \ {span}
      BY <1>5, <2>2 DEF Respond, SpansOpen
    <3> QED
      BY <1>2, <3>1
  <2> QED
    BY <2>1, <2>2
<1>6. ASSUME NEW c \in Call, StartTool(c) PROVE EndedOnce'
  <2>1. PICK x \in waiting[c] : Hears(c, x) /\ pc[c] = "tools" /\ open' = open \cup {x} /\ UNCHANGED ended
    BY <1>0, <1>6, StartHears
  <2>2. x \notin Started
    BY <1>0, <2>1, ToolIsFresh DEF Hears
  <2> QED
    BY <1>1, <2>1, <2>2
<1>7. ASSUME NEW c \in Call, Ends(c) PROVE UNCHANGED <<open, ended>>
  BY <1>7 DEF Ends
<1> QED
  BY <1>0, <1>2, <1>3, <1>4, <1>5, <1>6, <1>7, SpanSteps

\* The slot, when nothing overlaps.
LEMMA SlotNext ==
  ASSUME Base, SpansOpen, EndedByOwn, SlotIsOwn, Next
  PROVE  EndedByOwn' /\ SlotIsOwn'
<1>0. /\ Types /\ BatchesAreOwn /\ Base' /\ pc \in [Call -> States] /\ running \in [Call -> SUBSET Event]
      /\ turn \in [Call -> Nat]
  BY BaseNext DEF Base, Types
<1>1. overlapped \subseteq overlapped'
  <2>1. ASSUME NEW c \in Call, Opens(c) \/ Respond(c) \/ StartTool(c) \/ ToolResult(c) \/ Ends(c)
        PROVE  overlapped \subseteq overlapped'
    BY <2>1 DEF Opens, Respond, StartTool, ToolResult, Ends
  <2> QED
    BY <1>0, <2>1, Kinds
<1>2. SUFFICES ASSUME overlapped' = {} PROVE EndedByOwn' /\ SlotIsOwn'
  BY DEF EndedByOwn, SlotIsOwn
<1>3. overlapped = {}
  BY <1>1, <1>2
<1>4. /\ \A e \in ended : e.by = e.span
      /\ \A c \in Call : pc[c] = "provider" => span = Response(c)
      /\ \A c \in Call \ cut : \A s \in open : s[1] = c => (pc[c] = "provider" /\ s = Response(c)) \/ s \in running[c]
  BY <1>3 DEF EndedByOwn, SlotIsOwn
<1>5. \A d \in Call : pc[d] # "tools" => running[d] = {}
  BY <1>0 DEF BatchesAreOwn
<1>6. ASSUME NEW c \in Call, pc[c] \notin Idle \/ pc'[c] \notin Idle, NEW d \in Call \ {c}, pc'[d] = pc[d]
      PROVE  pc[d] \in Idle
  BY <1>0, <1>2, <1>3, <1>6 DEF Base, AloneUnlessOverlapped
<1>7. ASSUME NEW c \in Call, Opens(c) PROVE EndedByOwn' /\ SlotIsOwn'
  <2>1. PICK r : r = <<c, turn'[c]>>
    OBVIOUS
  <2>2. /\ pc[c] \in {"new", "next"} /\ pc'[c] = "provider" /\ \A d \in Call \ {c} : pc'[d] = pc[d]
        /\ span' = r /\ open' = open \cup {r} /\ UNCHANGED <<ended, cut, running>>
    BY <1>0, <1>7, <2>1 DEF Opens
  <2>3. \A d \in Call \ {c} : pc[d] \in Idle
    BY <1>6, <2>2 DEF Idle
  <2>4. \A s \in open, d \in Call : s[1] = d => d \in cut
    BY <1>4, <1>5, <2>2, <2>3 DEF Idle
  <2>5. \A d \in Call : pc'[d] = "provider" => d = c
    BY <2>2, <2>3 DEF Idle
  <2>6. r[1] = c /\ Response(c)' = r
    BY <2>1 DEF Response
  <2> QED
    BY <1>4, <2>2, <2>4, <2>5, <2>6 DEF EndedByOwn, SlotIsOwn
<1>8. ASSUME NEW c \in Call, Respond(c) PROVE EndedByOwn' /\ SlotIsOwn'
  <2>1. pc[c] = "provider" /\ pc'[c] \in {"ending", "tools"} /\ \A d \in Call \ {c} : pc'[d] = pc[d]
    BY <1>0, <1>8, RespondHears
  <2>2. UNCHANGED <<running, cut, turn>>
    BY <1>8 DEF Respond
  <2>3. span = Response(c) /\ span # NoSpan
    <3>1. Response(c) # NoSpan
      BY DEF Response, NoSpan
    <3> QED
      BY <1>4, <2>1, <3>1
  <2>4. /\ ended' = ended \cup {[span |-> span, by |-> Response(c)]} /\ open' = open \ {span}
    BY <1>8, <2>3 DEF Respond
  <2>5. \A d \in Call \ {c} : pc[d] \in Idle
    BY <1>6, <2>1 DEF Idle
  <2>6. \A d \in Call : pc'[d] # "provider"
    BY <2>1, <2>5 DEF Idle
  <2>7. \A d \in Call \ cut : \A s \in open' : s[1] # d
    BY <1>4, <1>5, <2>1, <2>3, <2>4, <2>5 DEF Idle
  <2>8. \A e \in ended' : e.by = e.span
    BY <1>4, <2>3, <2>4
  <2> QED
    BY <2>2, <2>6, <2>7, <2>8 DEF EndedByOwn, SlotIsOwn
<1>9. ASSUME NEW c \in Call, StartTool(c) PROVE EndedByOwn' /\ SlotIsOwn'
  <2>1. PICK x : /\ Hears(c, x) /\ UNCHANGED pc /\ running' = [running EXCEPT ![c] = @ \cup {x}]
                 /\ open' = open \cup {x} /\ UNCHANGED <<span, ended>>
    BY <1>0, <1>9, StartHears
  <2>2. x[1] = c /\ UNCHANGED <<turn, cut>>
    BY <2>1 DEF Hears
  <2>3. x \in running'[c] /\ \A d \in Call : running[d] \subseteq running'[d]
    BY <1>0, <2>1
  <2>4. \A d \in Call : Response(d)' = Response(d)
    BY <2>2 DEF Response
  <2> QED
    BY <1>4, <2>1, <2>2, <2>3, <2>4 DEF EndedByOwn, SlotIsOwn
<1>10. ASSUME NEW c \in Call, NEW i \in running[c], running' = [running EXCEPT ![c] = @ \ {i}],
              ended' = ended \cup {[span |-> i, by |-> i]}, open' = open \ {i},
              UNCHANGED <<pc, turn, span, cut>>
       PROVE  EndedByOwn' /\ SlotIsOwn'
  <2>1. \A d \in Call : running[d] \ {i} \subseteq running'[d]
    BY <1>0, <1>10
  <2>2. \A d \in Call : Response(d)' = Response(d)
    BY <1>10 DEF Response
  <2>3. \A e \in ended' : e.by = e.span
    BY <1>4, <1>10
  <2> QED
    BY <1>4, <1>10, <2>1, <2>2, <2>3 DEF EndedByOwn, SlotIsOwn
<1>11. ASSUME NEW c \in Call, Ends(c) PROVE EndedByOwn' /\ SlotIsOwn'
  <2>1. /\ pc'[c] # "provider" /\ UNCHANGED <<turn, span, open, ended>> /\ cut \subseteq cut'
        /\ \A d \in Call \ {c} : pc'[d] = pc[d] /\ running'[d] = running[d]
    BY <1>0, <1>11 DEF Ends
  <2>2. c \in cut' \/ (pc[c] # "provider" /\ running[c] = {})
    BY <1>5, <1>11 DEF Ends
  <2>3. \A d \in Call : Response(d)' = Response(d)
    BY <2>1 DEF Response
  <2>4. \A d \in Call : pc'[d] = "provider" => d # c /\ pc[d] = "provider"
    BY <2>1
  <2>5. \A d \in Call \ cut' : \A s \in open : s[1] = d => (pc'[d] = "provider" /\ s = Response(d)) \/ s \in running'[d]
    BY <1>4, <2>1, <2>2
  <2> QED
    BY <1>4, <2>1, <2>3, <2>4, <2>5 DEF EndedByOwn, SlotIsOwn
<1> QED
  BY <1>0, <1>7, <1>8, <1>9, <1>10, <1>11, SpanSteps

\* Spans end once; without overlapping calls by the answer to their own request, and
\* only calls that were cut short leave one open.
THEOREM SpansApart == Spec => []SpansAreOwn
<1>1. Init => SpansInv
  BY DEF Init, SpansInv, SpansHappened, Started, SpansOpen, EndedOnce, EndedByOwn, SlotIsOwn
<1>2. ASSUME Base, SpansInv, [Next]_vars PROVE SpansInv'
  <2>1. CASE UNCHANGED vars
    BY <1>2, <2>1 DEF vars, SpansInv, SpansHappened, Started, Happened, Response, SpansOpen, EndedOnce, EndedByOwn, SlotIsOwn
  <2>2. CASE Next
    BY <1>2, <2>2, SpansHappenedNext, SpansOpenNext, EndedOnceNext, SlotNext DEF SpansInv
  <2> QED
    BY <1>2, <2>1, <2>2
<1>3. ASSUME Base, SpansInv PROVE SpansAreOwn
  <2>1. ASSUME overlapped = {}, NEW s \in open, s[1] \notin cut PROVE pc[s[1]] \notin Idle
    <3>1. s[1] \in Call
      BY <1>3, EventFields DEF SpansInv, SpansHappened, Started
    <3>2. pc[s[1]] = "provider" \/ s \in running[s[1]]
      BY <1>3, <2>1, <3>1 DEF SpansInv, SlotIsOwn
    <3> QED
      BY <1>3, <3>1, <3>2 DEF Base, BatchesAreOwn, Idle
  <2> QED
    BY <1>3, <2>1 DEF SpansInv, SpansAreOwn, EndedOnce, EndedByOwn
<1> QED
  BY <1>1, <1>2, <1>3, BaseInvariant, PTL DEF Spec
=============================================================================
