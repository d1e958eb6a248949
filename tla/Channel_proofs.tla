---------------------------- MODULE Channel_proofs ----------------------------
(***************************************************************************)
(* The HTTP channel, for any requests and any number of events.             *)
(***************************************************************************)
EXTENDS Channel, SequenceTheorems, WellFoundedInduction, TLAPS

-----------------------------------------------------------------------------
(* Lists: the queue of the lock without one of its elements.               *)

\* A set of positions has a first one.
LEMMA FirstPosition ==
  ASSUME NEW T \in SUBSET Nat, T # {}
  PROVE  \E k \in T : \A j \in T : k <= j
<1>1. PICK k \in T : \A j \in T : ~ (<<j, k>> \in OpToRel(<, Nat))
  BY WFMin, NatLessThanWellFounded
<1>2. \A j \in T : ~(j < k)
  BY <1>1 DEF OpToRel
<1> QED
  BY <1>2

\* The elements of a concatenation, by the lengths of its parts.
LEMMA Joined ==
  ASSUME NEW S, NEW f \in Seq(S), NEW b \in Seq(S), NEW n, NEW m, Len(f) = n, Len(b) = m
  PROVE  /\ f \o b \in Seq(S) /\ Len(f \o b) = n + m
         /\ \A i \in 1..n + m : (f \o b)[i] = IF i <= n THEN f[i] ELSE b[i - n]
BY ConcatProperties

\* What RemoveAt returns.
LEMMA RemoveAtElements ==
  ASSUME NEW S, NEW l \in Seq(S), NEW k \in 1..Len(l)
  PROVE  /\ RemoveAt(l, k) \in Seq(S) /\ Len(RemoveAt(l, k)) = Len(l) - 1
         /\ \A i \in 1..Len(l) - 1 : RemoveAt(l, k)[i] = IF i < k THEN l[i] ELSE l[i + 1]
<1> DEFINE front == SubSeq(l, 1, k - 1)
           back == SubSeq(l, k + 1, Len(l))
<1>0. Len(l) \in Nat /\ k \in Nat
  BY LenProperties
<1>1. /\ front \in Seq(S) /\ Len(front) = k - 1 /\ \A i \in 1..k - 1 : front[i] = l[i]
  BY <1>0, SubSeqProperties, ElementOfSeq
<1>2. /\ back \in Seq(S) /\ Len(back) = Len(l) - k
      /\ \A i \in 1..Len(l) - k : back[i] = l[k + i]
  <2>1. \A i \in k + 1..Len(l) : l[i] \in S
    BY <1>0, ElementOfSeq
  <2>2. /\ back \in Seq(S) /\ Len(back) = IF k + 1 <= Len(l) THEN Len(l) - (k + 1) + 1 ELSE 0
        /\ \A i \in 1..Len(l) - (k + 1) + 1 : back[i] = l[k + 1 + i - 1]
    BY <1>0, <2>1, SubSeqProperties
  <2> QED
    BY <1>0, <2>2
<1> HIDE DEF front, back
<1>3. /\ front \o back \in Seq(S) /\ Len(front \o back) = Len(l) - 1
      /\ \A i \in 1..Len(l) - 1 : (front \o back)[i] =
           IF i <= k - 1 THEN front[i] ELSE back[i - (k - 1)]
  <2>1. (k - 1) + (Len(l) - k) = Len(l) - 1
    BY <1>0
  <2>2. /\ front \o back \in Seq(S) /\ Len(front \o back) = (k - 1) + (Len(l) - k)
        /\ \A i \in 1..(k - 1) + (Len(l) - k) : (front \o back)[i] =
             IF i <= k - 1 THEN front[i] ELSE back[i - (k - 1)]
    <3>1. front \in Seq(S) /\ Len(front) = k - 1
      BY <1>1
    <3>2. back \in Seq(S) /\ Len(back) = Len(l) - k
      BY <1>2
    <3> DEFINE n == k - 1
               m == Len(l) - k
    <3> HIDE DEF n, m
    <3>3. Len(front) = n /\ Len(back) = m
      BY <3>1, <3>2 DEF n, m
    <3>4. /\ front \o back \in Seq(S) /\ Len(front \o back) = n + m
          /\ \A i \in 1..n + m : (front \o back)[i] = IF i <= n THEN front[i] ELSE back[i - n]
      <4>1. front \in Seq(S) /\ back \in Seq(S)
        BY <3>1, <3>2
      <4> QED
        BY <3>3, <4>1, Joined
    <3> QED
      BY <3>4 DEF n, m
  <2> QED
    BY <2>1, <2>2
<1>4. \A i \in 1..Len(l) - 1 : ~(i < k) => back[i - (k - 1)] = l[i + 1]
  <2> SUFFICES ASSUME NEW i \in 1..Len(l) - 1, ~(i < k) PROVE back[i - (k - 1)] = l[i + 1]
    OBVIOUS
  <2>1. i - (k - 1) \in 1..Len(l) - k /\ k + (i - (k - 1)) = i + 1
    BY <1>0
  <2> QED
    BY <1>2, <2>1
<1>5. RemoveAt(l, k) = front \o back
  BY DEF RemoveAt, front, back
<1> DEFINE m == RemoveAt(l, k)
<1>6. m \in Seq(S) /\ Len(m) = Len(l) - 1
  BY <1>3, <1>5
<1>7. ASSUME NEW i \in 1..Len(l) - 1
      PROVE  m[i] = IF i < k THEN l[i] ELSE l[i + 1]
  <2>1. m[i] = IF i <= k - 1 THEN front[i] ELSE back[i - (k - 1)]
    BY <1>3, <1>5
  <2> HIDE DEF m
  <2>2. CASE i < k
    BY <1>0, <1>1, <2>1, <2>2
  <2>3. CASE ~(i < k)
    BY <1>0, <1>4, <2>1, <2>3
  <2> QED
    BY <2>2, <2>3
<1> QED
  BY <1>6, <1>7

-----------------------------------------------------------------------------
Outcomes == {"none", "done", "error", "cancelled"}
AnyFrame == (Request \X Nat) \cup {Sentinel(o) : o \in Outcomes}

Types ==
  /\ task \in [Request -> {"none", "created", "waiting", "running", "ended", "over"}]
  /\ outcome \in [Request -> Outcomes] /\ emitted \in [Request -> Nat]
  /\ gen \in [Stream -> {"none", "open", "closing", "closed"}]
  /\ queue \in [Stream -> Seq(AnyFrame)]

\* Everybody in the queue of the lock waits for it, and is in it once.
Queued ==
  /\ waiters \in Seq(Request)
  /\ \A i \in 1..Len(waiters) : task[waiters[i]] = "waiting"
  /\ \A i, j \in 1..Len(waiters) : i # j => waiters[i] # waiters[j]

\* A stream has a task from the beginning, and its handlers leave the bus when it closes.
Begun == \A r \in Stream : gen[r] = "none" => task[r] = "none"
Unsubscribed == \A r \in Stream : gen[r] \in {"closing", "closed"} => r \notin subs

\* The sentinel is put when the task is over.
SentinelAfterTask ==
  \A r \in Stream, i \in Nat :
    i \in 1..Len(queue[r]) /\ IsSentinel(queue[r][i]) => task[r] = "over"

IInv ==
  /\ Types /\ Queued /\ Begun /\ Unsubscribed /\ SentinelAfterTask
  /\ OneRunAtATime /\ ClosedIsClean

-----------------------------------------------------------------------------
LEMMA InitIInv == Init => IInv
BY DEF Init, IInv, Types, Queued, Begun, Unsubscribed, SentinelAfterTask, OneRunAtATime,
       ClosedIsClean, Outcomes, Request

\* The rest of the queue without the one that is taken out.
LEMMA Leaves ==
  ASSUME Queued, NEW r \in Request
  PROVE  LET w == RemoveFirst(waiters, r) IN
         /\ w \in Seq(Request)
         /\ \A i \in 1..Len(w) : w[i] # r /\ \E k \in 1..Len(waiters) : w[i] = waiters[k]
         /\ \A i, j \in 1..Len(w) : i # j => w[i] # w[j]
<1> DEFINE I == {i \in 1..Len(waiters) : waiters[i] = r}
<1>0. Len(waiters) \in Nat /\ waiters \in Seq(Request)
  BY DEF Queued
<1>1. CASE I = {}
  BY <1>1 DEF RemoveFirst, Queued
<1>2. CASE I # {}
  <2>1. PICK k \in I : \A j \in I : k <= j
    <3>1. I \in SUBSET Nat
      BY <1>0
    <3> QED
      BY <1>2, <3>1, FirstPosition
  <2>2. Min(I) = k
    BY <1>0, <2>1 DEF Min
  <2>3. RemoveFirst(waiters, r) = RemoveAt(waiters, k)
    BY <1>2, <2>2 DEF RemoveFirst, SelectInSeq
  <2> DEFINE w == RemoveAt(waiters, k)
  <2>4. /\ w \in Seq(Request) /\ Len(w) = Len(waiters) - 1
        /\ \A i \in 1..Len(waiters) - 1 : w[i] = IF i < k THEN waiters[i] ELSE waiters[i + 1]
    BY <1>0, RemoveAtElements
  <2> HIDE DEF w
  <2> DEFINE p(i) == IF i < k THEN i ELSE i + 1
  <2>5. \A i \in 1..Len(w) : p(i) \in 1..Len(waiters) /\ p(i) # k /\ w[i] = waiters[p(i)]
    BY <1>0, <2>1, <2>4
  <2>6. \A i, j \in 1..Len(w) : i # j => p(i) # p(j)
    BY <1>0, <2>4
  <2> HIDE DEF p
  <2>7. \A i \in 1..Len(w) : w[i] # r
    BY <2>1, <2>5 DEF Queued
  <2>8. \A i, j \in 1..Len(w) : i # j => w[i] # w[j]
    <3> SUFFICES ASSUME NEW i \in 1..Len(w), NEW j \in 1..Len(w), i # j
                 PROVE  w[i] # w[j]
      OBVIOUS
    <3>1. p(i) \in 1..Len(waiters) /\ p(j) \in 1..Len(waiters) /\ p(i) # p(j)
      BY <2>5, <2>6
    <3>2. waiters[p(i)] # waiters[p(j)]
      BY <3>1 DEF Queued
    <3> QED
      BY <2>5, <3>2
  <2> QED
    BY <2>3, <2>4, <2>5, <2>7, <2>8 DEF w
<1> QED
  BY <1>1, <1>2

\* Steps of a task that touch neither queue nor generator.
LEMMA TaskMoves ==
  ASSUME IInv, NEW r \in Request, NEW t, task' = [task EXCEPT ![r] = t],
         t \in {"created", "running", "ended", "over"},
         task[r] # "waiting",
         t = "running" => ~Held,
         t \in {"created", "running"} => task[r] \in {"none", "created"},
         task[r] \in {"none", "over"} => r \in Plain /\ t = "created",
         outcome' \in [Request -> Outcomes],
         UNCHANGED <<waiters, emitted, queue, gen, subs>>
  PROVE  IInv'
<1> USE DEF IInv
<1>1. Types'
  BY DEF Types
<1>2. Queued'
  BY DEF Queued, Types
<1>3. Begun' /\ Unsubscribed' /\ SentinelAfterTask'
  BY ChannelAssumption DEF Types, Begun, Unsubscribed, SentinelAfterTask, Request
<1>4. OneRunAtATime'
  BY DEF Types, OneRunAtATime, Held
<1>5. ClosedIsClean'
  BY ChannelAssumption DEF Types, ClosedIsClean, Request
<1> QED
  BY <1>1, <1>2, <1>3, <1>4, <1>5

\* The head of the queue gets the lock.
LEMMA Granted ==
  ASSUME IInv, Grant
  PROVE  IInv'
<1> USE DEF IInv, Grant
<1> DEFINE r == Head(waiters)
<1>1. /\ waiters \in Seq(Request) /\ Len(waiters) \in Nat /\ Len(waiters) > 0
      /\ r = waiters[1] /\ r \in Request /\ task[r] = "waiting"
  BY DEF Queued
<1>2. /\ waiters' \in Seq(Request) /\ Len(waiters') = Len(waiters) - 1
      /\ \A i \in 1..Len(waiters) - 1 : waiters'[i] = waiters[i + 1]
  BY <1>1, HeadTailProperties
<1>3. task' = [task EXCEPT ![r] = "running"]
  OBVIOUS
<1> HIDE DEF r
<1>4. Types'
  BY <1>1, <1>3 DEF Types
<1>5. Queued'
  <2>1. \A i \in 1..Len(waiters) - 1 : i + 1 \in 1..Len(waiters) /\ i + 1 # 1
    BY <1>1
  <2>2. \A i \in 1..Len(waiters) - 1 : waiters'[i] \in Request /\ waiters'[i] # r
                                     /\ task[waiters'[i]] = "waiting"
    BY <1>1, <1>2, <2>1 DEF Queued
  <2>3. \A i, j \in 1..Len(waiters) - 1 : i # j => waiters'[i] # waiters'[j]
    BY <1>1, <1>2, <2>1 DEF Queued
  <2> QED
    BY <1>2, <1>3, <2>2, <2>3 DEF Queued, Types
<1>6. Begun' /\ Unsubscribed' /\ SentinelAfterTask'
  BY <1>1, <1>3 DEF Types, Begun, Unsubscribed, SentinelAfterTask, Request
<1>7. OneRunAtATime'
  BY <1>1, <1>3 DEF Types, OneRunAtATime, Held
<1>8. ClosedIsClean'
  BY <1>1, <1>3 DEF Types, ClosedIsClean, Request
<1> QED
  BY <1>4, <1>5, <1>6, <1>7, <1>8

\* The lock is taken, or its queue joined.
LEMMA Acquires ==
  ASSUME IInv, NEW r \in Request, Acquire(r)
  PROVE  IInv'
<1> USE DEF IInv, Acquire
<1>1. CASE task' = [task EXCEPT ![r] = "running"] /\ ~Held /\ UNCHANGED waiters
  BY <1>1, TaskMoves DEF Types
<1>2. CASE task' = [task EXCEPT ![r] = "waiting"] /\ waiters' = Append(waiters, r)
  <2>1. Types'
    BY <1>2 DEF Types
  <2>2. Queued'
    <3>1. /\ Len(waiters) \in Nat /\ waiters' \in Seq(Request) /\ Len(waiters') = Len(waiters) + 1
          /\ \A i \in 1..Len(waiters) : waiters'[i] = waiters[i] /\ waiters[i] \in Request
          /\ waiters'[Len(waiters) + 1] = r
      BY <1>2, AppendProperties DEF Queued
    <3>2. \A i \in 1..Len(waiters) : task[waiters[i]] = "waiting" /\ waiters[i] # r
      BY DEF Queued
    <3>3. \A i \in 1..Len(waiters') : i \in 1..Len(waiters) \/ i = Len(waiters) + 1
      BY <3>1
    <3>4. \A i \in 1..Len(waiters') : task'[waiters'[i]] = "waiting"
      BY <1>2, <3>1, <3>2, <3>3 DEF Types
    <3>5. \A i, j \in 1..Len(waiters') : i # j => waiters'[i] # waiters'[j]
      BY <3>1, <3>2, <3>3 DEF Queued
    <3> QED
      BY <3>1, <3>4, <3>5 DEF Queued
  <2>3. Begun' /\ Unsubscribed' /\ SentinelAfterTask'
    BY <1>2 DEF Types, Begun, Unsubscribed, SentinelAfterTask, Request
  <2>4. OneRunAtATime' /\ ClosedIsClean'
    BY <1>2 DEF Types, OneRunAtATime, ClosedIsClean, Request
  <2> QED
    BY <2>1, <2>2, <2>3, <2>4
<1> QED
  BY <1>1, <1>2

\* A cancellation comes out of a task, which leaves the queue.
LEMMA CancelledLeaves ==
  ASSUME IInv, NEW r \in Request, Cancelled(r)
  PROVE  IInv'
<1> USE DEF IInv, Cancelled
<1>1. Types'
  BY DEF Types, Outcomes
<1>2. Queued'
  <2> DEFINE w == RemoveFirst(waiters, r)
  <2>1. /\ w \in Seq(Request)
        /\ \A i \in 1..Len(w) : w[i] # r /\ \E k \in 1..Len(waiters) : w[i] = waiters[k]
        /\ \A i, j \in 1..Len(w) : i # j => w[i] # w[j]
    BY Leaves
  <2>2. waiters' = w
    OBVIOUS
  <2> HIDE DEF w
  <2>3. \A i \in 1..Len(w) : w[i] \in Request
    BY <2>1, ElementOfSeq
  <2>4. \A i \in 1..Len(w) : w[i] # r /\ task[w[i]] = "waiting"
    BY <2>1 DEF Queued
  <2>5. \A i \in 1..Len(w) : task'[w[i]] = "waiting"
    BY <2>3, <2>4 DEF Types
  <2> QED
    BY <2>1, <2>2, <2>5 DEF Queued
<1>3. Begun' /\ Unsubscribed' /\ SentinelAfterTask'
  BY DEF Types, Begun, Unsubscribed, SentinelAfterTask, Request
<1>4. OneRunAtATime' /\ ClosedIsClean'
  BY DEF Types, OneRunAtATime, ClosedIsClean, Request
<1> QED
  BY <1>1, <1>2, <1>3, <1>4

\* Steps that only take from the queues, or put events into them.
LEMMA QueuesMove ==
  ASSUME IInv, UNCHANGED <<task, outcome, waiters, gen, subs>>,
         emitted' \in [Request -> Nat], queue' \in [Stream -> Seq(AnyFrame)],
         \A r \in Stream : \A i \in 1..Len(queue'[r]) : IsSentinel(queue'[r][i]) =>
            \E j \in 1..Len(queue[r]) : queue'[r][i] = queue[r][j]
  PROVE  IInv'
<1> USE DEF IInv
<1>1. SentinelAfterTask'
  <2> SUFFICES ASSUME NEW r \in Stream, NEW i \in Nat, i \in 1..Len(queue'[r]),
                      IsSentinel(queue'[r][i])
               PROVE  task[r] = "over"
    BY DEF SentinelAfterTask
  <2>1. PICK j \in 1..Len(queue[r]) : IsSentinel(queue[r][j])
    OBVIOUS
  <2>2. j \in Nat
    BY DEF Types
  <2> QED
    BY <2>1, <2>2 DEF SentinelAfterTask
<1> QED
  BY <1>1 DEF Types, Queued, Begun, Unsubscribed, OneRunAtATime, ClosedIsClean

LEMMA Emits ==
  ASSUME IInv, NEW r \in Request, Emit(r)
  PROVE  IInv'
<1> USE DEF IInv, Emit
<1> DEFINE e == <<r, emitted'[r]>>
<1>1. emitted' \in [Request -> Nat] /\ e \in AnyFrame /\ ~IsSentinel(e)
  BY ChannelAssumption DEF Types, AnyFrame, IsSentinel
<1>2. \A s \in Stream : queue'[s] \in {queue[s], Append(queue[s], e)} /\ queue[s] \in Seq(AnyFrame)
  BY DEF Types
<1>3. queue' = [s \in Stream |-> queue'[s]]
  OBVIOUS
<1> HIDE DEF e
<1>4. queue' \in [Stream -> Seq(AnyFrame)]
  <2>1. \A s \in Stream : queue'[s] \in Seq(AnyFrame)
    <3> SUFFICES ASSUME NEW s \in Stream PROVE queue'[s] \in Seq(AnyFrame)
      OBVIOUS
    <3>1. Append(queue[s], e) \in Seq(AnyFrame)
      BY <1>1, <1>2, AppendProperties
    <3> QED
      BY <1>2, <3>1
  <2> QED
    BY <1>3, <2>1
<1>5. \A s \in Stream : \A i \in 1..Len(queue'[s]) : IsSentinel(queue'[s][i]) =>
         \E j \in 1..Len(queue[s]) : queue'[s][i] = queue[s][j]
  <2> SUFFICES ASSUME NEW s \in Stream, NEW i \in 1..Len(queue'[s]), IsSentinel(queue'[s][i])
               PROVE  \E j \in 1..Len(queue[s]) : queue'[s][i] = queue[s][j]
    OBVIOUS
  <2>1. CASE queue'[s] = queue[s]
    BY <2>1
  <2>2. CASE queue'[s] = Append(queue[s], e)
    <3>1. Len(queue[s]) \in Nat /\ Len(queue'[s]) = Len(queue[s]) + 1
          /\ queue'[s][Len(queue[s]) + 1] = e
          /\ \A j \in 1..Len(queue[s]) : queue'[s][j] = queue[s][j]
      BY <1>2, <2>2, <1>1, AppendProperties
    <3>2. i \in 1..Len(queue[s])
      BY <1>1, <3>1
    <3> QED
      BY <3>1, <3>2
  <2> QED
    BY <1>2, <2>1, <2>2
<1> QED
  BY <1>1, <1>4, <1>5, QueuesMove

LEMMA Sends ==
  ASSUME IInv, NEW r \in Request, Send(r)
  PROVE  IInv'
<1> USE DEF IInv, Send
<1>1. queue[r] \in Seq(AnyFrame) /\ queue[r] # <<>> /\ r \in Stream
  BY DEF Types
<1>2. /\ Tail(queue[r]) \in Seq(AnyFrame) /\ Len(queue[r]) \in Nat
      /\ Len(Tail(queue[r])) = Len(queue[r]) - 1
      /\ \A i \in 1..Len(Tail(queue[r])) : Tail(queue[r])[i] = queue[r][i + 1]
  BY <1>1, HeadTailProperties
<1>3. queue'[r] = Tail(queue[r]) /\ \A s \in Stream \ {r} : queue'[s] = queue[s]
  BY <1>1 DEF Types
<1>4. queue' \in [Stream -> Seq(AnyFrame)]
  BY <1>2 DEF Types
<1>5. \A i \in 1..Len(queue'[r]) : i + 1 \in 1..Len(queue[r])
  <2>1. Len(queue'[r]) = Len(queue[r]) - 1 /\ Len(queue[r]) \in Nat
    BY <1>2, <1>3
  <2> QED
    BY <2>1
<1> QED
  BY <1>2, <1>3, <1>4, <1>5, QueuesMove DEF Types

\* The sentinel is queued when the task is over.
LEMMA SentinelQueued ==
  ASSUME IInv, NEW r \in Request, OnDone(r)
  PROVE  IInv'
<1> USE DEF IInv, OnDone
<1>1. queue[r] \in Seq(AnyFrame) /\ Sentinel(outcome[r]) \in AnyFrame /\ r \in Stream
  BY DEF Types, AnyFrame
<1>2. Append(queue[r], Sentinel(outcome[r])) \in Seq(AnyFrame)
  BY <1>1, AppendProperties
<1>3. /\ queue' \in [Stream -> Seq(AnyFrame)] /\ \A s \in Stream \ {r} : queue'[s] = queue[s]
      /\ task' = [task EXCEPT ![r] = "over"] /\ UNCHANGED <<outcome, emitted, gen, subs, waiters>>
  BY <1>1, <1>2 DEF Types
<1>4. Types' /\ Queued'
  BY <1>3 DEF Types, Queued
<1>5. Begun' /\ Unsubscribed' /\ SentinelAfterTask'
  BY <1>1, <1>3 DEF Types, Begun, Unsubscribed, SentinelAfterTask, Request
<1>6. OneRunAtATime' /\ ClosedIsClean'
  BY <1>3 DEF Types, OneRunAtATime, ClosedIsClean, Request
<1> QED
  BY <1>4, <1>5, <1>6

\* Steps of a generator: its queue is cleared or stays as it is.
LEMMA GeneratorMoves ==
  ASSUME IInv, NEW r \in Stream, NEW g \in {"closing", "closed"},
         gen' = [gen EXCEPT ![r] = g], gen[r] # "none",
         queue' \in {queue, [queue EXCEPT ![r] = <<>>]},
         g = "closed" => task[r] \in {"ended", "over"},
         subs' \in {subs, subs \ {r}}, r \notin subs',
         UNCHANGED <<task, outcome, waiters, emitted>>
  PROVE  IInv'
<1> USE DEF IInv
<1>1. queue' \in [Stream -> Seq(AnyFrame)]
      /\ \A s \in Stream : queue'[s] \in {queue[s], <<>>}
  <2>1. CASE queue' = queue
    BY <2>1 DEF Types
  <2>2. CASE queue' = [queue EXCEPT ![r] = <<>>]
    <3>1. <<>> \in Seq(AnyFrame) /\ queue \in [Stream -> Seq(AnyFrame)]
      BY DEF Types
    <3> QED
      BY <2>2, <3>1
  <2> QED
    BY <2>1, <2>2
<1>2. Types' /\ Queued'
  BY <1>1 DEF Types, Queued
<1>3. Begun' /\ Unsubscribed'
  BY DEF Types, Begun, Unsubscribed
<1>4. SentinelAfterTask'
  BY <1>1 DEF SentinelAfterTask
<1>5. OneRunAtATime' /\ ClosedIsClean'
  BY DEF Types, OneRunAtATime, ClosedIsClean
<1> QED
  BY <1>2, <1>3, <1>4, <1>5

LEMMA GeneratorEnds ==
  ASSUME IInv, NEW r \in Request, Finish(r) \/ Disconnect(r) \/ Closed(r)
  PROVE  IInv'
<1> USE DEF IInv
<1>1. CASE Finish(r)
  <2>1. r \in Stream /\ gen[r] = "open" /\ queue[r] \in Seq(AnyFrame) /\ queue[r] # <<>>
    BY <1>1 DEF Finish, Types
  <2>2. 1 \in Nat /\ 1 \in 1..Len(queue[r]) /\ IsSentinel(queue[r][1])
    BY <1>1, <2>1 DEF Finish
  <2>3. task[r] = "over"
    BY <2>1, <2>2 DEF SentinelAfterTask
  <2> QED
    BY <1>1, <2>1, <2>3, GeneratorMoves DEF Finish
<1>2. CASE Disconnect(r)
  <2>1. r \in Stream /\ gen[r] = "open"
    BY <1>2 DEF Disconnect
  <2> QED
    BY <1>2, <2>1, GeneratorMoves DEF Disconnect
<1>3. CASE Closed(r)
  <2>1. r \notin subs
    BY <1>3 DEF Closed, Unsubscribed
  <2> QED
    BY <1>3, <2>1, GeneratorMoves DEF Closed
<1> QED
  BY <1>1, <1>2, <1>3

LEMMA Opens ==
  ASSUME IInv, NEW r \in Request, OpenStream(r)
  PROVE  IInv'
<1> USE DEF IInv, OpenStream
<1>1. task[r] = "none" /\ r \in Stream
  BY DEF Begun
<1>2. Types' /\ Queued'
  BY <1>1 DEF Types, Queued
<1>3. Begun' /\ Unsubscribed' /\ SentinelAfterTask'
  BY <1>1 DEF Types, Begun, Unsubscribed, SentinelAfterTask, Request
<1>4. OneRunAtATime' /\ ClosedIsClean'
  BY <1>1 DEF Types, OneRunAtATime, ClosedIsClean, Request
<1> QED
  BY <1>2, <1>3, <1>4

LEMMA StepIInv == IInv /\ [Next]_vars => IInv'
<1> SUFFICES ASSUME IInv, [Next]_vars
             PROVE  IInv'
  OBVIOUS
<1> USE DEF IInv
<1>1. ASSUME NEW r \in Request, OpenPlain(r)
      PROVE  IInv'
  BY <1>1, TaskMoves DEF OpenPlain, Types
<1>2. ASSUME NEW r \in Request, EndRun(r)
      PROVE  IInv'
  <2>1. outcome' \in [Request -> Outcomes]
    BY <1>2 DEF EndRun, Types, Outcomes
  <2> QED
    BY <1>2, <2>1, TaskMoves DEF EndRun
<1>3. ASSUME NEW r \in Request, Step(r)
      PROVE  IInv'
  BY <1>2, <1>3, Acquires, CancelledLeaves, SentinelQueued, Sends, GeneratorEnds DEF Step
<1>4. CASE UNCHANGED vars
  BY <1>4 DEF vars, Types, Queued, Begun, Unsubscribed, SentinelAfterTask, OneRunAtATime,
              ClosedIsClean
<1> QED
  BY <1>1, <1>3, <1>4, Opens, Emits, Granted, GeneratorEnds DEF Next

LEMMA Invariance == Spec => []IInv
BY InitIInv, StepIInv, PTL DEF Spec

-----------------------------------------------------------------------------
(* The theorems.                                                           *)

\* One agent run at a time, whoever is cancelled while it waits for the lock or holds
\* it (fastapi_channel.py 261, 323).
THEOREM RunsAlone == Spec => []OneRunAtATime
<1>1. IInv => OneRunAtATime
  BY DEF IInv
<1> QED
  BY <1>1, Invariance, PTL

\* No handler and no task of a stream outlives it, however it ends
\* (fastapi_channel.py 348-356).
THEOREM NothingLeftBehind == Spec => []ClosedIsClean
<1>1. IInv => ClosedIsClean
  BY DEF IInv
<1> QED
  BY <1>1, Invariance, PTL

-----------------------------------------------------------------------------
(* What a stream carries.                                                  *)

\* One more event of r, the next one, at the end.
LEMMA CarriesNext ==
  ASSUME NEW r \in Request, NEW s \in Seq(AnyFrame), NEW a \in Nat, NEW b \in Nat, a <= b,
         Carries(s, r, a, b)
  PROVE  Carries(Append(s, <<r, b + 1>>), r, a, b + 1)
<1> DEFINE e == <<r, b + 1>>
           t == Append(s, e)
           own == {i \in DOMAIN s : s[i][1] = r}
           ownT == {i \in DOMAIN t : t[i][1] = r}
<1>1. e \in AnyFrame /\ e[1] = r /\ e[2] = b + 1
  BY DEF AnyFrame
<1> HIDE DEF e
<1>2. /\ Len(s) \in Nat /\ Len(t) = Len(s) + 1 /\ t[Len(s) + 1] = e
      /\ \A i \in 1..Len(s) : t[i] = s[i]
      /\ DOMAIN s = 1..Len(s) /\ DOMAIN t = 1..Len(s) + 1
  BY <1>1, AppendProperties
<1> HIDE DEF t
<1>3. ownT = own \cup {Len(s) + 1}
  BY <1>1, <1>2
<1>4. \A i \in own : i \in 1..Len(s) /\ t[i] = s[i]
  BY <1>2
<1>5. /\ \A i, j \in own : i < j => s[i][2] < s[j][2]
      /\ {s[i][2] : i \in own} = a + 1..b
  BY DEF Carries
<1> HIDE DEF own, ownT
<1>6. \A i, j \in ownT : i < j => t[i][2] < t[j][2]
  <2> SUFFICES ASSUME NEW i \in ownT, NEW j \in ownT, i < j PROVE t[i][2] < t[j][2]
    OBVIOUS
  <2>1. i \in own
    BY <1>2, <1>3, <1>4
  <2>2. CASE j \in own
    BY <1>4, <1>5, <2>1, <2>2
  <2>3. CASE j = Len(s) + 1
    <3>1. s[i][2] \in a + 1..b
      BY <1>5, <2>1
    <3> QED
      BY <1>1, <1>2, <1>4, <2>1, <2>3, <3>1
  <2> QED
    BY <1>3, <2>2, <2>3
<1>7. {t[i][2] : i \in ownT} = {s[i][2] : i \in own} \cup {b + 1}
  <2>1. {t[i][2] : i \in ownT} = {t[i][2] : i \in own} \cup {t[Len(s) + 1][2]}
    BY <1>3
  <2>2. {t[i][2] : i \in own} = {s[i][2] : i \in own}
    BY <1>4
  <2> QED
    BY <1>1, <1>2, <2>1, <2>2
<1>8. {t[i][2] : i \in ownT} = a + 1..b + 1
  BY <1>5, <1>7, SMTT(20)
<1> QED
  BY <1>6, <1>8 DEF Carries, ownT, t, e

\* A frame of another request, or the sentinel, at the end.
LEMMA CarriesOther ==
  ASSUME NEW r \in Request, NEW s \in Seq(AnyFrame), NEW f \in AnyFrame, f[1] # r,
         NEW a, NEW b, Carries(s, r, a, b)
  PROVE  Carries(Append(s, f), r, a, b)
<1> DEFINE t == Append(s, f)
           own == {i \in DOMAIN s : s[i][1] = r}
           ownT == {i \in DOMAIN t : t[i][1] = r}
<1>2. /\ Len(s) \in Nat /\ Len(t) = Len(s) + 1 /\ t[Len(s) + 1] = f
      /\ \A i \in 1..Len(s) : t[i] = s[i]
      /\ DOMAIN s = 1..Len(s) /\ DOMAIN t = 1..Len(s) + 1
  BY AppendProperties
<1> HIDE DEF t
<1>3. ownT = own /\ \A i \in own : t[i] = s[i]
  BY <1>2
<1>4. {t[i][2] : i \in ownT} = {s[i][2] : i \in own}
  BY <1>3
<1> HIDE DEF own, ownT
<1>5. /\ \A i, j \in own : i < j => s[i][2] < s[j][2]
      /\ {s[i][2] : i \in own} = a + 1..b
  BY DEF Carries, own
<1>6. \A i, j \in ownT : i < j => t[i][2] < t[j][2]
  BY <1>3, <1>5
<1> QED
  BY <1>4, <1>5, <1>6 DEF Carries, ownT, t

\* The first frame is taken off. If it is an event of r it is the one after the a-th.
LEMMA CarriesTail ==
  ASSUME NEW r \in Request, NEW s \in Seq(AnyFrame), s # <<>>, NEW a \in Nat, NEW b \in Nat,
         Carries(s, r, a, b)
  PROVE  /\ s[1][1] = r => s[1] = <<r, a + 1>> /\ a < b /\ Carries(Tail(s), r, a + 1, b)
         /\ s[1][1] # r => Carries(Tail(s), r, a, b)
<1> DEFINE t == Tail(s)
           own == {i \in DOMAIN s : s[i][1] = r}
           ownT == {i \in DOMAIN t : t[i][1] = r}
<1>1. /\ Len(s) \in Nat /\ Len(s) > 0 /\ Len(t) = Len(s) - 1 /\ t \in Seq(AnyFrame)
      /\ \A i \in 1..Len(s) - 1 : t[i] = s[i + 1]
      /\ DOMAIN s = 1..Len(s) /\ DOMAIN t = 1..Len(s) - 1
  BY HeadTailProperties
<1> HIDE DEF t
<1>2. /\ \A i, j \in own : i < j => s[i][2] < s[j][2]
      /\ {s[i][2] : i \in own} = a + 1..b
  BY DEF Carries
<1>3. \A i \in ownT : i + 1 \in own /\ t[i] = s[i + 1] /\ i \in Nat
  BY <1>1
<1>4. \A i \in own : i # 1 => i - 1 \in ownT /\ t[i - 1] = s[i]
  BY <1>1
<1>5. \A i, j \in ownT : i < j => t[i][2] < t[j][2]
  <2> SUFFICES ASSUME NEW i \in ownT, NEW j \in ownT, i < j PROVE t[i][2] < t[j][2]
    OBVIOUS
  <2> HIDE DEF own, ownT
  <2>1. i + 1 \in own /\ j + 1 \in own /\ t[i] = s[i + 1] /\ t[j] = s[j + 1]
    BY <1>3
  <2>2. i + 1 < j + 1
    BY <1>3
  <2> QED
    BY <1>2, <2>1, <2>2
<1>6. 1 \in own <=> s[1][1] = r
  BY <1>1
<1>7. (\A i \in own : i \in Nat /\ i >= 1) /\ (\A i \in ownT : i \in Nat /\ i + 1 # 1)
  BY <1>1
<1> HIDE DEF own, ownT
<1>8. {t[i][2] : i \in ownT} = {s[i][2] : i \in own \ {1}}
  <2>2. {t[i][2] : i \in ownT} \subseteq {s[i][2] : i \in own \ {1}}
    BY <1>3, <1>7
  <2>3. {s[i][2] : i \in own \ {1}} \subseteq {t[i][2] : i \in ownT}
    BY <1>4
  <2> QED
    BY <2>2, <2>3
<1>9. ASSUME s[1][1] = r
      PROVE  s[1] = <<r, a + 1>> /\ a < b /\ {s[i][2] : i \in own \ {1}} = a + 2..b
  <2>1. 1 \in own /\ s[1][2] \in a + 1..b
    <3>1. 1 \in own
      BY <1>6, <1>9
    <3>2. s[1][2] \in {s[i][2] : i \in own}
      BY <3>1
    <3> QED
      BY <1>2, <3>1, <3>2
  <2>2. \A i \in own \ {1} : s[1][2] < s[i][2]
    BY <1>2, <1>7, <2>1
  <2>3. a + 1 \in {s[i][2] : i \in own}
    <3>1. a + 1 \in a + 1..b
      BY <2>1
    <3> QED
      BY <1>2, <3>1
  <2>4. s[1][2] = a + 1
    <3>1. PICK i \in own : s[i][2] = a + 1
      BY <2>3
    <3> QED
      BY <2>1, <2>2, <3>1
  <2>5. s[1] \in AnyFrame
    BY <1>1
  <2>6. s[1] = <<r, a + 1>>
    BY <1>9, <2>4, <2>5, ChannelAssumption DEF AnyFrame, Sentinel
  <2>7. \A i \in own \ {1} : s[i][2] \in a + 1..b
    BY <1>2
  <2>8. {s[i][2] : i \in own \ {1}} \subseteq a + 2..b
    BY <2>2, <2>4, <2>7
  <2>9. ASSUME NEW n \in a + 2..b PROVE n \in {s[i][2] : i \in own \ {1}}
    <3>1. n \in a + 1..b /\ n # a + 1
      OBVIOUS
    <3>2. PICK i \in own : s[i][2] = n
      BY <1>2, <3>1
    <3> QED
      BY <2>4, <3>1, <3>2
  <2> QED
    BY <2>1, <2>6, <2>8, <2>9
<1>10. ASSUME s[1][1] # r PROVE own \ {1} = own
  BY <1>6, <1>10
<1>11. ASSUME s[1][1] = r PROVE Carries(Tail(s), r, a + 1, b)
  <2>1. (a + 1) + 1 = a + 2
    OBVIOUS
  <2>2. {t[i][2] : i \in ownT} = (a + 1) + 1..b
    BY <1>8, <1>9, <1>11, <2>1
  <2> QED
    BY <1>5, <2>2 DEF Carries, ownT, t
<1>12. ASSUME s[1][1] # r PROVE Carries(Tail(s), r, a, b)
  <2>1. {t[i][2] : i \in ownT} = a + 1..b
    BY <1>2, <1>8, <1>10, <1>12
  <2> QED
    BY <1>5, <2>1 DEF Carries, ownT, t
<1> QED
  BY <1>9, <1>11, <1>12

\* No sentinel among these frames.
Unended(frames) == \A i \in DOMAIN frames : ~IsSentinel(frames[i])

\* The events of an open stream are on its two sides of the generator: those up to the
\* k-th are written, the others are in the queue, all of them before the sentinel.
OnItsWay(r) ==
  /\ r \in subs /\ Unended(sent[r])
  /\ \E k \in Nat : k <= emitted[r] /\ Carries(sent[r], r, 0, k) /\ Carries(queue[r], r, k, emitted[r])
  /\ \A i, j \in DOMAIN queue[r] : i < j /\ IsSentinel(queue[r][i]) => queue[r][j][1] # r

Untouched(r) == r \notin subs /\ sent[r] = <<>> /\ queue[r] = <<>> /\ emitted[r] = 0

Delivered(r) == task[r] = "over" /\ Carries(sent[r], r, 0, emitted[r])

StreamInv(r) ==
  /\ sent[r] \in Seq(AnyFrame)
  /\ gen[r] = "none" => Untouched(r)
  /\ gen[r] = "open" => OnItsWay(r)
  /\ gen[r] \in {"closing", "closed"} => Unended(sent[r]) \/ Delivered(r)

SInv == /\ sent \in [Stream -> Seq(AnyFrame)]
        /\ \A r \in Stream : StreamInv(r)

LEMMA EndIsNobody == \A r \in Request : \A o : Sentinel(o)[1] # r /\ IsSentinel(Sentinel(o))
BY ChannelAssumption DEF Sentinel, IsSentinel

\* A stream that a step does not touch.
LEMMA OtherStream ==
  ASSUME NEW s \in Stream, StreamInv(s), sent'[s] = sent[s], queue'[s] = queue[s],
         emitted'[s] = emitted[s], s \in subs' <=> s \in subs,
         gen'[s] = gen[s] \/ (gen[s] = "closing" /\ gen'[s] = "closed"),
         task[s] = "over" => task'[s] = "over"
  PROVE  StreamInv(s)'
<1>1. OnItsWay(s) => OnItsWay(s)'
  BY DEF OnItsWay
<1>2. Untouched(s) => Untouched(s)'
  BY DEF Untouched
<1>3. Delivered(s) => Delivered(s)'
  BY DEF Delivered
<1> QED
  BY <1>1, <1>2, <1>3 DEF StreamInv

LEMMA SOpens ==
  ASSUME IInv, SInv, NEW r \in Request, OpenStream(r)
  PROVE  SInv'
<1>1. /\ r \in Stream /\ gen[r] = "none" /\ gen'[r] = "open" /\ r \in subs'
      /\ UNCHANGED <<sent, queue, emitted>>
      /\ \A s \in Stream \ {r} : gen'[s] = gen[s] /\ task'[s] = task[s] /\ (s \in subs' <=> s \in subs)
  BY DEF OpenStream, IInv, Types
<1>2. sent'[r] = <<>> /\ queue'[r] = <<>> /\ emitted'[r] = 0
  BY <1>1 DEF SInv, StreamInv, Untouched
<1>3. Carries(<<>>, r, 0, 0)
  BY DEF Carries
<1>4. OnItsWay(r)'
  BY <1>1, <1>2, <1>3 DEF OnItsWay, Unended
<1>5. StreamInv(r)'
  BY <1>1, <1>4 DEF StreamInv, SInv
<1>6. \A s \in Stream \ {r} : StreamInv(s)'
  BY <1>1, OtherStream DEF SInv
<1> QED
  BY <1>1, <1>5, <1>6 DEF SInv

\* Steps of a task, and the end of a generator that has waited for one.
LEMMA STaskMoves ==
  ASSUME IInv, SInv,
         \/ Grant
         \/ \E r \in Request : OpenPlain(r) \/ Acquire(r) \/ EndRun(r) \/ Cancelled(r) \/ Closed(r)
  PROVE  SInv'
<1>1. UNCHANGED <<sent, queue, emitted, subs>>
  BY DEF Grant, OpenPlain, Acquire, EndRun, Cancelled, Closed
<1>2. \A s \in Stream : task[s] = "over" => task'[s] = "over"
  <2>1. CASE Grant
    <3>1. Head(waiters) = waiters[1] /\ 1 \in 1..Len(waiters)
      BY <2>1 DEF Grant, IInv, Queued
    <3>2. task[Head(waiters)] = "waiting"
      BY <3>1 DEF IInv, Queued
    <3> QED
      BY <2>1, <3>2 DEF Grant, IInv, Types
  <2>2. ASSUME NEW r \in Request, OpenPlain(r) \/ Acquire(r) \/ EndRun(r) \/ Cancelled(r) \/ Closed(r)
        PROVE  \A s \in Stream : task[s] = "over" => task'[s] = "over"
    <3>1. task[r] # "over" \/ UNCHANGED task
      BY <2>2 DEF OpenPlain, Acquire, EndRun, Cancelled, Closed
    <3>2. \A s \in Stream \ {r} : task'[s] = task[s]
      BY <2>2 DEF OpenPlain, Acquire, EndRun, Cancelled, Closed, IInv, Types, Request
    <3> QED
      BY <3>1, <3>2
  <2> QED
    BY <2>1, <2>2
<1>3. \A s \in Stream : gen'[s] = gen[s] \/ (gen[s] = "closing" /\ gen'[s] = "closed")
  BY DEF Grant, OpenPlain, Acquire, EndRun, Cancelled, Closed, IInv, Types
<1> QED
  BY <1>1, <1>2, <1>3, OtherStream DEF SInv

LEMMA SEmits ==
  ASSUME IInv, SInv, NEW r \in Request, Emit(r)
  PROVE  SInv'
<1> DEFINE e == <<r, emitted[r] + 1>>
<1>1. /\ task[r] = "running" /\ UNCHANGED <<sent, gen, subs, task>>
      /\ emitted'[r] = emitted[r] + 1 /\ \A s \in Request \ {r} : emitted'[s] = emitted[s]
      /\ \A s \in Stream : queue'[s] = IF s \in subs THEN Append(queue[s], e) ELSE queue[s]
  BY DEF Emit, IInv, Types
<1>2. emitted[r] \in Nat /\ e \in AnyFrame /\ ~IsSentinel(e) /\ e[1] = r
  BY ChannelAssumption DEF IInv, Types, AnyFrame, IsSentinel
<1>3. ASSUME NEW s \in Stream PROVE StreamInv(s)'
  <2>1. s \in Request /\ StreamInv(s) /\ queue[s] \in Seq(AnyFrame) /\ emitted[s] \in Nat
    BY DEF SInv, IInv, Types, Request
  <2>2. CASE s \in subs /\ gen[s] = "open"
    <3> DEFINE q == Append(queue[s], e)
    <3>1. PICK k \in Nat : k <= emitted[s] /\ Carries(sent[s], s, 0, k) /\ Carries(queue[s], s, k, emitted[s])
      BY <2>1, <2>2 DEF StreamInv, OnItsWay
    <3>2. CASE s = r
      <4>1. Carries(Append(queue[s], <<s, emitted[s] + 1>>), s, k, emitted[s] + 1)
        BY <2>1, <3>1, CarriesNext
      <4>2. Carries(queue'[s], s, k, emitted'[s]) /\ k <= emitted'[s]
        BY <1>1, <1>2, <2>2, <3>1, <3>2, <4>1
      <4>3. \A i \in DOMAIN queue[s] : ~IsSentinel(queue[s][i])
        BY <1>1, <2>1, <3>2 DEF IInv, SentinelAfterTask
      <4>4. \A i \in DOMAIN queue'[s] : ~IsSentinel(queue'[s][i])
        <5>1. /\ Len(queue[s]) \in Nat /\ DOMAIN queue[s] = 1..Len(queue[s])
              /\ DOMAIN q = 1..Len(queue[s]) + 1 /\ q[Len(queue[s]) + 1] = e
              /\ \A i \in 1..Len(queue[s]) : q[i] = queue[s][i]
          BY <1>2, <2>1, AppendProperties
        <5>2. queue'[s] = q
          BY <1>1, <2>2
        <5> HIDE DEF q, e
        <5> QED
          BY <1>2, <4>3, <5>1, <5>2
      <4>5. OnItsWay(s)'
        BY <1>1, <2>1, <2>2, <3>1, <4>2, <4>4 DEF OnItsWay, StreamInv
      <4> QED
        BY <1>1, <2>1, <2>2, <4>5 DEF StreamInv
    <3>3. CASE s # r
      <4>1. Carries(q, s, k, emitted[s])
        BY <1>2, <2>1, <3>1, <3>3, CarriesOther
      <4>2. Carries(queue'[s], s, k, emitted'[s])
        BY <1>1, <2>1, <2>2, <3>3, <4>1
      <4>3. \A i, j \in DOMAIN queue'[s] : i < j /\ IsSentinel(queue'[s][i]) => queue'[s][j][1] # s
        <5>1. /\ Len(queue[s]) \in Nat /\ DOMAIN queue[s] = 1..Len(queue[s])
              /\ DOMAIN q = 1..Len(queue[s]) + 1 /\ q[Len(queue[s]) + 1] = e
              /\ \A i \in 1..Len(queue[s]) : q[i] = queue[s][i]
          BY <1>2, <2>1, AppendProperties
        <5>2. queue'[s] = q
          BY <1>1, <2>2
        <5>3. \A i, j \in DOMAIN queue[s] : i < j /\ IsSentinel(queue[s][i]) => queue[s][j][1] # s
          BY <2>1, <2>2 DEF StreamInv, OnItsWay
        <5> HIDE DEF q, e
        <5> QED
          BY <1>2, <3>3, <5>1, <5>2, <5>3
      <4>4. OnItsWay(s)'
        BY <1>1, <2>1, <2>2, <3>1, <3>3, <4>2, <4>3 DEF OnItsWay, StreamInv
      <4> QED
        BY <1>1, <2>1, <2>2, <4>4 DEF StreamInv
    <3> QED
      BY <3>2, <3>3
  <2>3. CASE ~(s \in subs /\ gen[s] = "open")
    <3>1. s \notin subs
      BY <2>1, <2>3 DEF StreamInv, Untouched, IInv, Unsubscribed, Types
    <3>2. gen[s] # "open"
      BY <2>1, <3>1 DEF StreamInv, OnItsWay
    <3>3. s = r => gen[s] # "none" /\ ~Delivered(s)
      BY <1>1 DEF IInv, Begun, Delivered
    <3>4. Delivered(s) => Delivered(s)'
      BY <1>1, <2>1, <3>3 DEF Delivered
    <3>5. Untouched(s) /\ s # r => Untouched(s)'
      BY <1>1, <2>1, <3>1 DEF Untouched
    <3> QED
      BY <1>1, <2>1, <3>1, <3>2, <3>3, <3>4, <3>5 DEF StreamInv, Unended
  <2> QED
    BY <2>2, <2>3
<1> QED
  BY <1>1, <1>3 DEF SInv

LEMMA SSends ==
  ASSUME IInv, SInv, NEW r \in Request, Send(r)
  PROVE  SInv'
<1> DEFINE f == queue[r][1]
<1>1. /\ r \in Stream /\ gen[r] = "open" /\ queue[r] \in Seq(AnyFrame) /\ queue[r] # <<>>
      /\ sent[r] \in Seq(AnyFrame) /\ emitted[r] \in Nat
      /\ f \in AnyFrame /\ ~IsSentinel(f)
  BY DEF Send, IInv, Types, SInv
<1>2. /\ sent' = [sent EXCEPT ![r] = Append(sent[r], f)] /\ queue'[r] = Tail(queue[r])
      /\ \A s \in Stream \ {r} : queue'[s] = queue[s]
      /\ UNCHANGED <<task, gen, subs, emitted>>
  BY <1>1 DEF Send, IInv, Types
<1>3. /\ Append(sent[r], f) \in Seq(AnyFrame) /\ sent'[r] = Append(sent[r], f)
      /\ \A s \in Stream \ {r} : sent'[s] = sent[s]
  BY <1>1, <1>2, AppendProperties DEF SInv
<1>4. sent' \in [Stream -> Seq(AnyFrame)]
  BY <1>2, <1>3 DEF SInv
<1>5. /\ Len(queue[r]) \in Nat /\ Len(queue[r]) > 0
      /\ DOMAIN queue[r] = 1..Len(queue[r]) /\ DOMAIN Tail(queue[r]) = 1..Len(queue[r]) - 1
      /\ \A i \in 1..Len(queue[r]) - 1 : Tail(queue[r])[i] = queue[r][i + 1]
  BY <1>1, HeadTailProperties
<1>6. OnItsWay(r)
  BY <1>1 DEF SInv, StreamInv
<1>7. PICK k \in Nat : k <= emitted[r] /\ Carries(sent[r], r, 0, k) /\ Carries(queue[r], r, k, emitted[r])
  BY <1>6 DEF OnItsWay
<1>8. \E m \in Nat : m <= emitted[r] /\ Carries(sent'[r], r, 0, m) /\ Carries(queue'[r], r, m, emitted[r])
  <2>1. CASE f[1] = r
    <3>1. f = <<r, k + 1>> /\ k < emitted[r] /\ Carries(Tail(queue[r]), r, k + 1, emitted[r])
      BY <1>1, <1>7, <2>1, CarriesTail
    <3>2. Carries(Append(sent[r], f), r, 0, k + 1)
      BY <1>1, <1>7, <3>1, CarriesNext
    <3>3. k + 1 \in Nat /\ k + 1 <= emitted[r]
      BY <1>1, <3>1
    <3> QED
      BY <1>2, <1>3, <3>1, <3>2, <3>3
  <2>2. CASE f[1] # r
    <3>1. Carries(Tail(queue[r]), r, k, emitted[r])
      BY <1>1, <1>7, <2>2, CarriesTail
    <3>2. Carries(Append(sent[r], f), r, 0, k)
      BY <1>1, <1>7, <2>2, CarriesOther
    <3> QED
      BY <1>2, <1>3, <1>7, <3>1, <3>2
  <2> QED
    BY <2>1, <2>2
<1>9. Unended(sent'[r])
  <2>1. /\ Len(sent[r]) \in Nat /\ DOMAIN sent[r] = 1..Len(sent[r])
        /\ DOMAIN sent'[r] = 1..Len(sent[r]) + 1 /\ sent'[r][Len(sent[r]) + 1] = f
        /\ \A i \in 1..Len(sent[r]) : sent'[r][i] = sent[r][i]
    BY <1>1, <1>3, AppendProperties
  <2> HIDE DEF f
  <2> QED
    BY <1>1, <1>6, <2>1 DEF OnItsWay, Unended
<1>10. \A i, j \in DOMAIN queue'[r] : i < j /\ IsSentinel(queue'[r][i]) => queue'[r][j][1] # r
  <2> SUFFICES ASSUME NEW i \in DOMAIN queue'[r], NEW j \in DOMAIN queue'[r], i < j,
                      IsSentinel(queue'[r][i])
               PROVE  queue'[r][j][1] # r
    OBVIOUS
  <2>1. /\ i + 1 \in DOMAIN queue[r] /\ j + 1 \in DOMAIN queue[r] /\ i + 1 < j + 1
        /\ queue'[r][i] = queue[r][i + 1] /\ queue'[r][j] = queue[r][j + 1]
    BY <1>2, <1>5
  <2> QED
    BY <1>6, <2>1 DEF OnItsWay
<1>11. OnItsWay(r)'
  BY <1>2, <1>6, <1>8, <1>9, <1>10 DEF OnItsWay
<1>12. StreamInv(r)'
  BY <1>1, <1>2, <1>3, <1>11 DEF StreamInv
<1>13. \A s \in Stream \ {r} : StreamInv(s)'
  BY <1>2, <1>3, OtherStream DEF SInv
<1> QED
  BY <1>4, <1>12, <1>13 DEF SInv

\* The sentinel goes behind the events: the task that emitted them is over.
LEMMA SQueuesSentinel ==
  ASSUME IInv, SInv, NEW r \in Request, OnDone(r)
  PROVE  SInv'
<1> DEFINE f == Sentinel(outcome[r])
           q == Append(queue[r], f)
<1>1. /\ r \in Stream /\ queue[r] \in Seq(AnyFrame) /\ f \in AnyFrame /\ emitted[r] \in Nat
      /\ f[1] # r
  BY EndIsNobody DEF OnDone, IInv, Types, AnyFrame
<1>2. /\ task'[r] = "over" /\ queue'[r] = (IF gen[r] = "open" THEN q ELSE queue[r])
      /\ \A s \in Stream \ {r} : queue'[s] = queue[s] /\ task'[s] = task[s]
      /\ UNCHANGED <<sent, gen, subs, emitted>>
  BY <1>1 DEF OnDone, IInv, Types
<1>3. ASSUME gen[r] = "open" PROVE StreamInv(r)'
  <2>1. OnItsWay(r)
    BY <1>1, <1>3 DEF SInv, StreamInv
  <2>2. PICK k \in Nat : k <= emitted[r] /\ Carries(sent[r], r, 0, k) /\ Carries(queue[r], r, k, emitted[r])
    BY <2>1 DEF OnItsWay
  <2>3. Carries(q, r, k, emitted[r])
    BY <1>1, <2>2, CarriesOther
  <2>4. \A i, j \in DOMAIN q : i < j /\ IsSentinel(q[i]) => q[j][1] # r
    <3>1. /\ Len(queue[r]) \in Nat /\ DOMAIN queue[r] = 1..Len(queue[r])
          /\ DOMAIN q = 1..Len(queue[r]) + 1 /\ q[Len(queue[r]) + 1] = f
          /\ \A i \in 1..Len(queue[r]) : q[i] = queue[r][i]
      BY <1>1, AppendProperties
    <3>2. \A i, j \in DOMAIN queue[r] : i < j /\ IsSentinel(queue[r][i]) => queue[r][j][1] # r
      BY <2>1 DEF OnItsWay
    <3> HIDE DEF q, f
    <3> QED
      BY <1>1, <3>1, <3>2, SMTT(20)
  <2> HIDE DEF q
  <2>5. OnItsWay(r)'
    BY <1>2, <1>3, <2>1, <2>2, <2>3, <2>4 DEF OnItsWay
  <2> QED
    BY <1>1, <1>2, <1>3, <2>5 DEF SInv, StreamInv
<1>4. ASSUME gen[r] # "open" PROVE StreamInv(r)'
  BY <1>1, <1>2, <1>4, OtherStream DEF SInv
<1>5. \A s \in Stream \ {r} : StreamInv(s)'
  BY <1>2, OtherStream DEF SInv
<1> QED
  BY <1>2, <1>3, <1>4, <1>5 DEF SInv

\* The sentinel is the first in the queue: all events of the run are written.
LEMMA SFinishes ==
  ASSUME IInv, SInv, NEW r \in Request, Finish(r)
  PROVE  SInv'
<1> DEFINE f == queue[r][1]
<1>1. /\ r \in Stream /\ gen[r] = "open" /\ queue[r] \in Seq(AnyFrame) /\ queue[r] # <<>>
      /\ sent[r] \in Seq(AnyFrame) /\ emitted[r] \in Nat
      /\ f \in AnyFrame /\ IsSentinel(f) /\ f[1] # r
  BY ChannelAssumption DEF Finish, IInv, Types, SInv, IsSentinel
<1>2. /\ sent' = [sent EXCEPT ![r] = Append(sent[r], f)] /\ gen'[r] = "closed"
      /\ \A s \in Stream \ {r} : queue'[s] = queue[s] /\ gen'[s] = gen[s] /\ (s \in subs' <=> s \in subs)
      /\ UNCHANGED <<task, emitted>>
  BY <1>1 DEF Finish, IInv, Types
<1>3. /\ Append(sent[r], f) \in Seq(AnyFrame) /\ sent'[r] = Append(sent[r], f)
      /\ \A s \in Stream \ {r} : sent'[s] = sent[s]
  BY <1>1, <1>2, AppendProperties DEF SInv
<1>4. sent' \in [Stream -> Seq(AnyFrame)]
  BY <1>2, <1>3 DEF SInv
<1>5. DOMAIN queue[r] = 1..Len(queue[r]) /\ Len(queue[r]) \in Nat /\ Len(queue[r]) > 0
  BY <1>1
<1>6. OnItsWay(r)
  BY <1>1 DEF SInv, StreamInv
<1>7. PICK k \in Nat : k <= emitted[r] /\ Carries(sent[r], r, 0, k) /\ Carries(queue[r], r, k, emitted[r])
  BY <1>6 DEF OnItsWay
<1>8. task[r] = "over"
  BY <1>1, <1>5 DEF IInv, SentinelAfterTask
<1>9. \A j \in DOMAIN queue[r] : queue[r][j][1] # r
  <2> SUFFICES ASSUME NEW j \in DOMAIN queue[r] PROVE queue[r][j][1] # r
    OBVIOUS
  <2>1. 1 \in DOMAIN queue[r] /\ (j = 1 \/ 1 < j)
    BY <1>5
  <2> QED
    BY <1>1, <1>6, <2>1 DEF OnItsWay
<1>10. k = emitted[r]
  <2>1. {queue[r][i][2] : i \in {i \in DOMAIN queue[r] : queue[r][i][1] = r}} = k + 1..emitted[r]
    BY <1>7 DEF Carries
  <2>2. k + 1..emitted[r] = {}
    BY <1>9, <2>1
  <2>3. ~(k < emitted[r])
    <3>1. k < emitted[r] => k + 1 \in k + 1..emitted[r]
      BY <1>1
    <3> QED
      BY <2>2, <3>1
  <2> QED
    BY <1>1, <1>7, <2>3
<1>11. Carries(Append(sent[r], f), r, 0, emitted[r])
  BY <1>1, <1>7, <1>10, CarriesOther
<1>12. Delivered(r)'
  BY <1>2, <1>3, <1>8, <1>11 DEF Delivered
<1>13. StreamInv(r)'
  BY <1>2, <1>3, <1>12 DEF StreamInv
<1>14. \A s \in Stream \ {r} : StreamInv(s)'
  BY <1>2, <1>3, OtherStream DEF SInv
<1> QED
  BY <1>4, <1>13, <1>14 DEF SInv

LEMMA SDisconnects ==
  ASSUME IInv, SInv, NEW r \in Request, Disconnect(r)
  PROVE  SInv'
<1>1. /\ r \in Stream /\ gen[r] = "open" /\ gen'[r] \in {"closing", "closed"}
      /\ \A s \in Stream \ {r} : queue'[s] = queue[s] /\ gen'[s] = gen[s] /\ (s \in subs' <=> s \in subs)
      /\ UNCHANGED <<task, emitted, sent>>
  BY DEF Disconnect, IInv, Types
<1>2. StreamInv(r)'
  BY <1>1 DEF SInv, StreamInv, OnItsWay, Unended
<1>3. \A s \in Stream \ {r} : StreamInv(s)'
  BY <1>1, OtherStream DEF SInv
<1> QED
  BY <1>1, <1>2, <1>3 DEF SInv

LEMMA InitSInv == Init => SInv
<1> SUFFICES ASSUME Init PROVE SInv
  OBVIOUS
<1>1. <<>> \in Seq(AnyFrame)
  OBVIOUS
<1> QED
  BY <1>1 DEF Init, SInv, StreamInv, Untouched, Request

LEMMA StepSInv == IInv /\ SInv /\ [Next]_vars => SInv'
<1> SUFFICES ASSUME IInv, SInv, [Next]_vars PROVE SInv'
  OBVIOUS
<1>1. CASE UNCHANGED vars
  BY <1>1, OtherStream DEF vars, SInv
<1>2. ASSUME NEW r \in Request, Step(r) PROVE SInv'
  BY <1>2, STaskMoves, SQueuesSentinel, SSends, SFinishes DEF Step
<1> QED
  BY <1>1, <1>2, STaskMoves, SOpens, SEmits, SDisconnects DEF Next

\* A stream that its sentinel ended has carried all events of its run, in order and
\* once, whatever other runs put into its queue and whenever its client left
\* (fastapi_channel.py 336-347).
THEOREM StreamsDeliver == Spec => []StreamIsComplete
<1>1. IInv /\ SInv => StreamIsComplete
  <2> SUFFICES ASSUME IInv, SInv, NEW r \in Stream, sent[r] # <<>>, IsSentinel(Last(sent[r]))
               PROVE  Carries(sent[r], r, 0, emitted[r])
    BY DEF StreamIsComplete
  <2>1. sent[r] \in Seq(AnyFrame) /\ StreamInv(r)
    BY DEF SInv
  <2>2. Len(sent[r]) \in DOMAIN sent[r] /\ Last(sent[r]) = sent[r][Len(sent[r])]
    BY <2>1 DEF Last
  <2>3. ~Unended(sent[r])
    BY <2>2 DEF Unended
  <2> QED
    BY <2>1, <2>3 DEF StreamInv, Untouched, OnItsWay, Delivered, IInv, Types
<1>2. SInv /\ IInv /\ [Next]_vars => SInv'
  BY StepSInv
<1>3. Spec => []SInv
  BY <1>2, InitSInv, Invariance, PTL DEF Spec
<1> QED
  BY <1>1, <1>3, Invariance, PTL
=============================================================================
