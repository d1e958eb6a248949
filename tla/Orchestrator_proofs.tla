-------------------------- MODULE Orchestrator_proofs --------------------------
(***************************************************************************)
(* Proofs about Orchestrator, for any number of tasks, depth and slots.     *)
(*                                                                         *)
(* None of the safety properties is inductive alone: that a cancellation     *)
(* reaches a whole subtree and that no task is orphaned rest on one fact,     *)
(* Followed: a task below one that was cancelled or has ended is cancelled,    *)
(* too. It needs the callers of a task to be closed under "caller of" (Nested) *)
(* with the direct one among them (Chained); and what is reported rests on    *)
(* the books the tracker keeps (Books). Inv is their conjunction.           *)
(***************************************************************************)
EXTENDS Orchestrator, FiniteSetTheorems, TLAPS

\* The callers of a task were spawned before it, and contain the callers of each of them.
Nested ==
  \A t \in Task :
    /\ phase[t] = "none" => anc[t] = {}
    /\ \A a \in anc[t] : phase[a] # "none" /\ anc[a] \subseteq anc[t]

\* Between a task and a caller of it there is a task this caller spawned itself.
Chained == \A t \in Task : \A a \in anc[t] : \E c \in anc[t] \cup {t} : c \in Children(a)

\* A task below one that was cancelled, or that has ended, was cancelled, too, or will
\* report that it was.
Followed ==
  \A t \in Task : phase[t] \in Live /\ (\E a \in anc[t] : flagged[a] \/ phase[a] # "running")
                  => flagged[t] \/ outcome[t] = "cancelled"

\* The tracker knows no task before it is spawned, keeps results of finished tasks
\* only, a task that has not returned has no outcome, and a task whose cancellation was
\* seen has returned "cancelled".
Books ==
  \A t \in Task :
    /\ phase[t] = "none" => t \notin tracked
    /\ result[t] # "none" => phase[t] = "done"
    /\ phase[t] \in {"none", "queued", "running"} => outcome[t] = "none"
    /\ phase[t] = "returned" /\ flagged[t] => outcome[t] = "cancelled"

Inv ==
  /\ TypeOK /\ SlotsAccounted /\ Nested /\ Chained /\ Followed
  /\ CancelledIsReported /\ ActiveIsCancellable /\ DepthBounded /\ Books

\* What the two properties about subtrees come down to.
LEMMA Subtrees == Inv => NoOrphans /\ CancelReachesSubtree
BY DEF Inv, Followed, Books, NoOrphans, CancelReachesSubtree, Pending, Live

\* Any set of tasks is finite, and its size is a number.
LEMMA FiniteTasks ==
  ASSUME NEW S \in SUBSET Task
  PROVE  IsFiniteSet(S) /\ Cardinality(S) \in Nat
BY OrchestratorAssumption, FS_Subset, FS_CardinalityType

\* The initial state satisfies the invariant.
LEMMA InitInv == Init => Inv
<1> SUFFICES ASSUME Init PROVE Inv
  OBVIOUS
<1>1. TypeOK
  BY OrchestratorAssumption DEF Init, TypeOK, Statuses
<1>2. SlotsAccounted
  <2>1. Holders = {}
    BY DEF Init, Holders
  <2> QED BY <2>1, FS_EmptySet, OrchestratorAssumption DEF Init, SlotsAccounted
<1>3. Nested /\ Chained /\ Followed /\ CancelledIsReported
  BY DEF Init, Nested, Chained, Followed, CancelledIsReported, Live
<1>4. ActiveIsCancellable /\ DepthBounded /\ Books
  BY DEF Init, ActiveIsCancellable, DepthBounded, Books, Live
<1> QED BY <1>1, <1>2, <1>3, <1>4 DEF Inv

-----------------------------------------------------------------------------
\* Spawning keeps the invariant, when the new task is put below running workers
\* none of which is being cancelled, at a depth that is allowed.
LEMMA BeginStep ==
  ASSUME Inv, NEW t \in Task, NEW above \in SUBSET Task, Begin(t, above),
         \A a \in above : phase[a] = "running" /\ ~flagged[a] /\ anc[a] \subseteq above,
         \A a \in above : above = anc[a] \cup {a} \/ \E c \in above : anc[c] = anc[a] \cup {a},
         Cardinality(above) + 1 <= MaxDepth
  PROVE  Inv'
<1> USE DEF Inv, Begin
<1>1. phase[t] = "none" /\ t \notin above
  BY DEF TypeOK
<1>2. \A u \in Task : t \notin anc[u]
  BY <1>1 DEF Nested
<1>3. TypeOK'
  BY DEF TypeOK
<1>4. SlotsAccounted'
  <2>1. Holders' = Holders
    BY <1>1 DEF Holders, TypeOK
  <2> QED BY <2>1 DEF SlotsAccounted
<1>5. Nested' /\ Followed'
  BY <1>1, <1>2 DEF Nested, Followed, Live, TypeOK
<1>6. Chained'
  <2>1. \A u \in Task \ {t} : anc'[u] = anc[u]
    BY DEF TypeOK
  <2>2. anc'[t] = above
    BY DEF TypeOK
  <2>3. ASSUME NEW u \in Task \ {t}, NEW a \in anc'[u]
        PROVE  \E c \in anc'[u] \cup {u} : (c \in Children(a))'
    <3>1. PICK c \in anc[u] \cup {u} : c \in Children(a)
      BY <2>1, <2>3 DEF Chained
    <3>2. c # t /\ a # t /\ a \in Task
      BY <1>2, <2>1, <2>3, <3>1 DEF TypeOK
    <3> QED
      BY <2>1, <2>3, <3>1, <3>2 DEF Children
  <2>4. ASSUME NEW a \in above
        PROVE  \E c \in above \cup {t} : (c \in Children(a))'
    <3>1. a \in Task /\ a # t /\ anc'[a] = anc[a]
      BY <1>1, <2>1, <2>4
    <3>2. CASE above = anc[a] \cup {a}
      BY <2>2, <3>1, <3>2 DEF Children
    <3>3. CASE \E c \in above : anc[c] = anc[a] \cup {a}
      BY <1>1, <2>1, <3>1, <3>3 DEF Children
    <3> QED
      BY <3>2, <3>3
  <2> QED
    BY <2>2, <2>3, <2>4 DEF Chained
<1>7. CancelledIsReported' /\ Books'
  BY <1>1 DEF CancelledIsReported, Books, TypeOK
<1>8. ActiveIsCancellable'
  BY <1>1 DEF ActiveIsCancellable, Cancellable, Books, Live, TypeOK
<1>9. DepthBounded'
  BY <1>1 DEF DepthBounded, Depth, Live, TypeOK
<1> QED BY <1>3, <1>4, <1>5, <1>6, <1>7, <1>8, <1>9

\* Taking a slot keeps the invariant.
LEMMA StartRunStep ==
  ASSUME Inv, NEW t \in Task, StartRun(t)
  PROVE  Inv'
<1> USE DEF Inv, StartRun
<1>1. SlotsAccounted' /\ slots' \in 0..MaxWorkers
  <2>1. Holders' = Holders \cup {t} /\ t \notin Holders
    BY DEF Holders, TypeOK
  <2>2. IsFiniteSet(Holders) /\ Cardinality(Holders) \in Nat
    BY FiniteTasks DEF Holders
  <2>3. Cardinality(Holders') = Cardinality(Holders) + 1
    BY <2>1, <2>2, FS_AddElement
  <2> QED BY <2>2, <2>3, OrchestratorAssumption DEF SlotsAccounted, TypeOK
<1>2. TypeOK'
  BY <1>1 DEF TypeOK
<1>3. Nested' /\ Chained' /\ Followed'
  BY DEF Nested, Chained, Children, Followed, Live, TypeOK
<1>4. CancelledIsReported' /\ Books'
  BY DEF CancelledIsReported, Books, TypeOK
<1>5. ActiveIsCancellable' /\ DepthBounded'
  BY DEF ActiveIsCancellable, Cancellable, DepthBounded, Depth, Live, TypeOK
<1> QED BY <1>1, <1>2, <1>3, <1>4, <1>5

\* While a task that was not cancelled is live, the direct child of each of its callers on
\* the way to it is live as well.
LEMMA ChildLives ==
  ASSUME Inv, NEW t \in Task, NEW d \in Task, phase[d] \in Live, t \in anc[d],
         ~flagged[d], outcome[d] # "cancelled"
  PROVE  Waiting(t)
<1>1. PICK c \in anc[d] \cup {d} : c \in Children(t)
  BY DEF Inv, Chained
<1>2. phase[c] \in Live
  BY <1>1 DEF Inv, Followed, Live
<1> QED
  BY <1>1, <1>2 DEF Waiting

\* The end of an asyncio task keeps the invariant, when it was cancelled and says so, or
\* waited for what it spawned.
LEMMA EndRunStep ==
  ASSUME Inv, NEW t \in Pending, NEW o \in Statuses \cup {"raised"}, EndRun(t, o),
         flagged[t] \/ ~Waiting(t), flagged[t] => o = "cancelled"
  PROVE  Inv'
<1> USE DEF Inv, EndRun
<1>0. t \in Task /\ phase[t] \in {"queued", "running"}
  BY DEF Pending
<1>1. SlotsAccounted' /\ slots' \in 0..MaxWorkers
  <2>1. IsFiniteSet(Holders) /\ Cardinality(Holders) \in Nat
    BY FiniteTasks DEF Holders
  <2>2. CASE phase[t] = "running"
    <3>1. Holders' = Holders \ {t} /\ t \in Holders
      BY <2>2, <1>0 DEF Holders, TypeOK
    <3>2. Cardinality(Holders') = Cardinality(Holders) - 1 /\ Cardinality(Holders') \in Nat
      BY <3>1, <2>1, FS_RemoveElement, FS_CardinalityType
    <3> QED BY <2>1, <2>2, <3>2, OrchestratorAssumption DEF SlotsAccounted, TypeOK
  <2>3. CASE phase[t] = "queued"
    <3>1. Holders' = Holders
      BY <2>3, <1>0 DEF Holders, TypeOK
    <3> QED BY <2>3, <3>1 DEF SlotsAccounted, TypeOK
  <2> QED BY <1>0, <2>2, <2>3
<1>2. TypeOK'
  BY <1>0, <1>1 DEF TypeOK
<1>3. Nested' /\ Chained'
  BY <1>0 DEF Nested, Chained, Children, Live, TypeOK
<1>4. Followed'
  <2> SUFFICES ASSUME NEW d \in Task, phase'[d] \in Live, ~flagged'[d], outcome'[d] # "cancelled"
               PROVE  \A a \in anc'[d] : ~flagged'[a] /\ phase'[a] = "running"
    BY DEF Followed
  <2>1. ~flagged[d] /\ anc'[d] = anc[d] /\ phase[d] \in Live /\ outcome[d] # "cancelled"
    BY <1>0 DEF TypeOK, Live, Books
  <2>2. \A a \in anc[d] : ~flagged[a] /\ phase[a] = "running"
    BY <2>1 DEF Followed
  <2>3. t \notin anc[d]
    BY <1>0, <2>1, <2>2, ChildLives
  <2> QED
    BY <1>0, <2>1, <2>2, <2>3 DEF TypeOK
<1>6. CancelledIsReported' /\ Books'
  BY <1>0 DEF CancelledIsReported, Books, TypeOK
<1>5. ActiveIsCancellable' /\ DepthBounded'
  BY <1>0 DEF ActiveIsCancellable, Cancellable, DepthBounded, Depth, Live, TypeOK
<1> QED BY <1>1, <1>2, <1>3, <1>4, <1>5, <1>6

\* A cancellation keeps the invariant, when it is passed on to every live task below
\* those it is asked for.
LEMMA CancelStep ==
  ASSUME Inv, NEW ts \in SUBSET Task, NEW S, Flag(ts),
         \A u \in Task : phase[u] \in Live /\ anc[u] \cap ts \cap Pending # {}
                         => u \in ts /\ (phase[u] = "returned" => u \in S),
         outcome' = [t \in Task |-> IF phase[t] = "returned" /\ t \in S
                                    THEN "cancelled" ELSE outcome[t]],
         UNCHANGED <<phase, anc, slots, tracked, handles, result, rank>>
  PROVE  Inv'
<1> USE DEF Inv
<1>1. TypeOK'
  BY DEF TypeOK, Flag, Statuses
<1>2. SlotsAccounted' /\ Nested' /\ Chained'
  BY DEF SlotsAccounted, Holders, Nested, Chained, Children
<1>3. Followed'
  <2> SUFFICES ASSUME NEW u \in Task, phase[u] \in Live, NEW a \in anc[u],
                      flagged'[a] \/ phase[a] # "running"
               PROVE  flagged'[u] \/ outcome'[u] = "cancelled"
    BY DEF Followed
  <2>1. CASE flagged[a] \/ phase[a] # "running"
    BY <2>1 DEF Followed, Flag, TypeOK
  <2>2. CASE ~flagged[a]
    <3>1. a \in Task /\ (flagged'[a] => a \in ts /\ a \in Pending)
      BY <2>2 DEF Flag, TypeOK
    <3>2. CASE flagged'[a]
      <4>1. u \in ts /\ (phase[u] = "returned" => u \in S)
        BY <3>1, <3>2
      <4> QED
        BY <4>1 DEF Flag, Pending, Live
    <3> QED
      BY <2>1, <3>2
  <2> QED
    BY <2>1, <2>2
<1>4. CancelledIsReported' /\ Books'
  BY DEF CancelledIsReported, Books, Flag, Pending, TypeOK
<1>5. ActiveIsCancellable' /\ DepthBounded'
  BY DEF ActiveIsCancellable, Cancellable, DepthBounded, Depth
<1> QED BY <1>1, <1>2, <1>3, <1>4, <1>5

\* What CancelTasks reaches is closed under "spawned by".
LEMMA UnderClosed ==
  ASSUME Inv, NEW s \in SUBSET Task, NEW u \in Task, phase[u] \in Live,
         anc[u] \cap (s \cup Under(s)) \cap Pending # {}
  PROVE  u \in Under(s)
<1>1. PICK a \in anc[u] : a \in s \cup Under(s) /\ a \in Pending
  OBVIOUS
<1>3. CASE a \in s
  BY <1>1, <1>3 DEF Under
<1>4. CASE a \in Under(s)
  <2>1. PICK b \in anc[a] : b \in s /\ b \in Pending
    BY <1>4 DEF Under
  <2>2. b \in anc[u]
    BY <1>1, <2>1 DEF Inv, Nested
  <2> QED BY <2>1, <2>2 DEF Under
<1> QED BY <1>1, <1>3, <1>4

\* Cancelling any set of asyncio tasks keeps the invariant.
LEMMA CancelTasksStep ==
  ASSUME Inv, NEW s \in SUBSET Task, CancelTasks(s),
         UNCHANGED <<phase, anc, slots, tracked, handles, result, rank>>
  PROVE  Inv'
<1> DEFINE ts == s \cup Under(s)
<1>1. ts \in SUBSET Task
  BY DEF Under
<1>2. Flag(ts)
  BY DEF CancelTasks
<1>3. \A u \in Task : phase[u] \in Live /\ anc[u] \cap ts \cap Pending # {}
                       => u \in ts /\ (phase[u] = "returned" => u \in Under(s))
  BY UnderClosed
<1>4. outcome' = [t \in Task |-> IF phase[t] = "returned" /\ t \in Under(s)
                                 THEN "cancelled" ELSE outcome[t]]
  BY DEF CancelTasks
<1> HIDE DEF ts
<1> QED BY <1>1, <1>2, <1>3, <1>4, CancelStep

\* Recording a result keeps the invariant.
LEMMA CompleteStep ==
  ASSUME Inv, NEW t \in Task, Complete(t)
  PROVE  Inv'
<1> USE DEF Inv, Complete
<1>1. TypeOK'
  <2>1. Cardinality({u \in Task : rank[u] > 0}) \in Nat
    BY FiniteTasks
  <2>2. rank' \in [Task -> Nat]
    BY <2>1 DEF TypeOK
  <2> QED BY <2>2 DEF TypeOK, Statuses
<1>2. SlotsAccounted'
  <2>1. Holders' = Holders
    BY DEF Holders, TypeOK
  <2> QED BY <2>1 DEF SlotsAccounted
<1>3. Nested' /\ Chained' /\ Followed'
  BY DEF Nested, Chained, Children, Followed, Live, TypeOK
<1>4. CancelledIsReported' /\ Books'
  BY DEF CancelledIsReported, Books, TypeOK
<1>5. ActiveIsCancellable' /\ DepthBounded'
  BY DEF ActiveIsCancellable, Cancellable, DepthBounded, Depth, Live, TypeOK
<1> QED BY <1>1, <1>2, <1>3, <1>4, <1>5

\* An exception out of execute() keeps the invariant.
LEMMA LeakStep ==
  ASSUME Inv, NEW t \in Task, Leak(t)
  PROVE  Inv'
<1> USE DEF Inv, Leak
<1>1. TypeOK'
  BY DEF TypeOK
<1>2. SlotsAccounted'
  <2>1. Holders' = Holders
    BY DEF Holders, TypeOK
  <2> QED BY <2>1 DEF SlotsAccounted
<1>3. Nested' /\ Chained' /\ Followed'
  BY DEF Nested, Chained, Children, Followed, Live, TypeOK
<1>4. CancelledIsReported' /\ Books'
  BY DEF CancelledIsReported, Books, TypeOK
<1>5. ActiveIsCancellable' /\ DepthBounded'
  BY DEF ActiveIsCancellable, Cancellable, DepthBounded, Depth, Live, TypeOK
<1> QED BY <1>1, <1>2, <1>3, <1>4, <1>5

\* Dropping old results keeps the invariant.
LEMMA CleanupStep ==
  ASSUME Inv, Cleanup
  PROVE  Inv'
<1>1. PICK old \in SUBSET Recorded :
        /\ tracked' = tracked \ old
        /\ result' = [t \in Task |-> IF t \in old THEN "none" ELSE result[t]]
  BY DEF Cleanup
<1>2. UNCHANGED <<phase, anc, flagged, outcome, slots, handles, rank>>
  BY DEF Cleanup
<1>3. TypeOK'
  BY <1>1, <1>2 DEF Inv, TypeOK
<1>4. SlotsAccounted' /\ Nested' /\ Chained' /\ Followed' /\ DepthBounded'
  BY <1>2 DEF Inv, SlotsAccounted, Holders, Nested, Chained, Children, Followed,
              DepthBounded, Depth
<1>5. CancelledIsReported' /\ Books'
  BY <1>1, <1>2 DEF Inv, CancelledIsReported, Books, TypeOK
<1>6. ActiveIsCancellable'
  BY <1>1, <1>2 DEF Inv, ActiveIsCancellable, Cancellable, Recorded, TypeOK
<1> QED BY <1>3, <1>4, <1>5, <1>6 DEF Inv

-----------------------------------------------------------------------------
\* Every step keeps the invariant.
LEMMA NextInv == Inv /\ [Next]_vars => Inv'
<1> SUFFICES ASSUME Inv, [Next]_vars PROVE Inv'
  OBVIOUS
<1>1. ASSUME NEW t \in Task, SpawnFromBrain(t) PROVE Inv'
  <2>1. Cardinality({}) + 1 <= MaxDepth
    BY FS_EmptySet, OrchestratorAssumption
  <2> QED BY <1>1, <2>1, BeginStep DEF SpawnFromBrain
<1>2. ASSUME NEW p \in Task, NEW t \in Task, SpawnFromWorker(p, t) PROVE Inv'
  <2> DEFINE above == anc[p] \cup {p}
  <2>1. above \in SUBSET Task
    BY DEF Inv, TypeOK
  <2>2. phase[p] = "running" /\ ~flagged[p] /\ p \in Pending /\ phase[p] \in Live
    BY <1>2 DEF SpawnFromWorker, Pending, Live
  <2>3. \A a \in above : phase[a] = "running" /\ ~flagged[a] /\ anc[a] \subseteq above
    BY <2>2 DEF Inv, Followed, Nested, Books
  <2>6. \A a \in above : above = anc[a] \cup {a} \/ \E c \in above : anc[c] = anc[a] \cup {a}
    BY DEF Inv, Chained, Children
  <2>4. Cardinality(above) + 1 <= MaxDepth
    <3>1. IsFiniteSet(anc[p]) /\ Cardinality(anc[p]) \in Nat
      BY FiniteTasks DEF Inv, TypeOK
    <3>2. Cardinality(above) \in Nat /\ Cardinality(above) <= Cardinality(anc[p]) + 1
      <4>1. Cardinality(above) = IF p \in anc[p] THEN Cardinality(anc[p])
                                 ELSE Cardinality(anc[p]) + 1
        BY <3>1, FS_AddElement
      <4> QED BY <3>1, <4>1
    <3> QED BY <1>2, <3>1, <3>2, OrchestratorAssumption DEF SpawnFromWorker, Depth
  <2>5. Begin(t, above)
    BY <1>2 DEF SpawnFromWorker
  <2> HIDE DEF above
  <2> QED BY <2>1, <2>3, <2>4, <2>5, <2>6, BeginStep
<1>3. ASSUME NEW t \in Task, StartRun(t) PROVE Inv'
  BY <1>3, StartRunStep
<1>4. ASSUME NEW t \in Task, Return(t) PROVE Inv'
  <2>1. t \in Pending /\ ~Waiting(t) /\ ~flagged[t]
    BY <1>4 DEF Return, Pending
  <2>2. PICK o \in {"completed", "failed"} : EndRun(t, o)
    BY <1>4 DEF Return
  <2> QED BY <2>1, <2>2, EndRunStep DEF Statuses
<1>5. ASSUME NEW t \in Task, RaiseInSetup(t) PROVE Inv'
  <2>1. t \in Pending /\ ~Waiting(t) /\ ~flagged[t] /\ EndRun(t, "raised")
    BY <1>5 DEF RaiseInSetup, Pending, Waiting, Children
  <2> QED BY <2>1, EndRunStep
<1>6. ASSUME NEW t \in Task, Unwind(t) PROVE Inv'
  BY <1>6, EndRunStep DEF Unwind, Statuses
<1>7. ASSUME NEW t \in Task, Cancel(t) PROVE Inv'
  BY <1>7, CancelTasksStep DEF Cancel
<1>8. ASSUME NEW t \in Task, Timeout(t) PROVE Inv'
  BY <1>8, CancelTasksStep DEF Timeout
<1>9. ASSUME Close PROVE Inv'
  <2> DEFINE s == {t \in Task : Cancellable(t)}
  <2>1. s \in SUBSET Task
    OBVIOUS
  <2>2. CancelTasks(s) /\ UNCHANGED <<phase, anc, slots, tracked, handles, result, rank>>
    BY <1>9 DEF Close
  <2> HIDE DEF s
  <2> QED BY <2>1, <2>2, CancelTasksStep
<1>10. ASSUME CancelBrain PROVE Inv'
  <2>1. Task \in SUBSET Task
    OBVIOUS
  <2>2. outcome' = [t \in Task |-> IF phase[t] = "returned" /\ t \in Task
                                   THEN "cancelled" ELSE outcome[t]]
    BY <1>10 DEF CancelBrain
  <2>3. Flag(Task) /\ UNCHANGED <<phase, anc, slots, tracked, handles, result, rank>>
    BY <1>10 DEF CancelBrain
  <2>4. \A u \in Task : phase[u] \in Live /\ anc[u] \cap Task \cap Pending # {}
                         => u \in Task /\ (phase[u] = "returned" => u \in Task)
    OBVIOUS
  <2> QED BY <2>1, <2>2, <2>3, <2>4, CancelStep
<1>11. ASSUME NEW t \in Task, Complete(t) PROVE Inv'
  BY <1>11, CompleteStep
<1>12. ASSUME NEW t \in Task, Leak(t) PROVE Inv'
  BY <1>12, LeakStep
<1>13. ASSUME Cleanup PROVE Inv'
  BY <1>13, CleanupStep
<1>14. CASE UNCHANGED vars
  BY <1>14 DEF vars, Inv, TypeOK, SlotsAccounted, Holders, Nested, Chained, Children,
       Followed, CancelledIsReported, ActiveIsCancellable,
       Cancellable, DepthBounded, Depth, Books
<1> QED
  BY <1>1, <1>2, <1>3, <1>4, <1>5, <1>6, <1>7, <1>8, <1>9, <1>10, <1>11, <1>12, <1>13,
     <1>14 DEF Next

\* The invariant holds in every reachable state.
THEOREM Invariance == Spec => []Inv
<1> QED BY InitInv, NextInv, PTL DEF Spec

-----------------------------------------------------------------------------
\* The variables keep their types: the semaphore's value stays between zero and
\* max_concurrent_workers (TypeOK).
THEOREM TypeCorrectness == Spec => []TypeOK
<1>1. Inv => TypeOK
  BY DEF Inv
<1> QED BY <1>1, Invariance, PTL

\* Whatever ends a task, in the queue for a slot or running, free slots and running
\* workers add up (SlotsAccounted).
THEOREM SlotsAlwaysAccounted == Spec => []SlotsAccounted
<1>1. Inv => SlotsAccounted
  BY DEF Inv
<1> QED BY <1>1, Invariance, PTL

\* A task outlives the workers above it only if it was cancelled with them, and then it
\* reports that (NoOrphans).
THEOREM CallersOutlive == Spec => []NoOrphans
<1>1. Inv => NoOrphans
  BY Subtrees
<1> QED BY <1>1, Invariance, PTL

\* A cancellation reaches the whole subtree, and nothing joins a subtree that is
\* being cancelled (CancelReachesSubtree).
THEOREM CancellationIsDeep == Spec => []CancelReachesSubtree
<1>1. Inv => CancelReachesSubtree
  BY Subtrees
<1> QED BY <1>1, Invariance, PTL

\* A cancelled worker is never reported as successful (CancelledIsReported).
THEOREM CancellationIsReported == Spec => []CancelledIsReported
<1>1. Inv => CancelledIsReported
  BY DEF Inv
<1> QED BY <1>1, Invariance, PTL

\* What is listed as active can be cancelled (ActiveIsCancellable).
THEOREM ActiveStaysCancellable == Spec => []ActiveIsCancellable
<1>1. Inv => ActiveIsCancellable
  BY DEF Inv
<1> QED BY <1>1, Invariance, PTL

\* Workers nest no deeper than max_depth, for any depth (DepthBounded).
THEOREM NestingIsBounded == Spec => []DepthBounded
<1>1. Inv => DepthBounded
  BY DEF Inv
<1> QED BY <1>1, Invariance, PTL

-----------------------------------------------------------------------------
(* The tracker implements the life cycle of tasks.                         *)

\* A step that changes neither the tracker's books nor what has been spawned
\* changes no status.
LEMMA SameStatus ==
  ASSUME UNCHANGED <<tracked, result>>,
         \A t \in Task : phase'[t] = "none" <=> phase[t] = "none"
  PROVE  UNCHANGED Lifecycle!vars
BY DEF Lifecycle!vars, StatusOf

\* Spawning starts the task.
LEMMA BeginImplements ==
  ASSUME Inv, NEW t \in Task, NEW above \in SUBSET Task, Begin(t, above)
  PROVE  Lifecycle!Start(t)
<1>1. phase[t] = "none" /\ t \notin tracked /\ result[t] = "none"
  BY DEF Begin, Inv, Books
<1>2. StatusOf(t) = "unknown" /\ StatusOf(t)' = "active"
  BY <1>1 DEF StatusOf, Begin
<1>3. \A u \in Task \ {t} : StatusOf(u)' = StatusOf(u)
  BY DEF StatusOf, Begin, Inv, TypeOK
<1> QED BY <1>2, <1>3 DEF Lifecycle!Start

\* Recording a result ends the task with that status.
LEMMA CompleteImplements ==
  ASSUME Inv, NEW t \in Task, Complete(t)
  PROVE  Lifecycle!End(t)
<1>1. t \in tracked /\ result[t] = "none"
  BY DEF Complete, Inv, ActiveIsCancellable, Cancellable, Live
<1>2. StatusOf(t) = "active" /\ StatusOf(t)' = outcome[t] /\ outcome[t] \in Lifecycle!Ended
  BY <1>1 DEF StatusOf, Complete, Inv, TypeOK, Statuses, Lifecycle!Ended
<1>3. \A u \in Task \ {t} : StatusOf(u)' = StatusOf(u)
  BY DEF StatusOf, Complete, Inv, TypeOK
<1> QED BY <1>2, <1>3 DEF Lifecycle!End

\* Cleaning up forgets only tasks that have ended.
LEMMA CleanupImplements ==
  ASSUME Inv, Cleanup
  PROVE  \E old \in SUBSET Task : Lifecycle!Forget(old)
<1>1. PICK old \in SUBSET Recorded :
        /\ tracked' = tracked \ old
        /\ result' = [t \in Task |-> IF t \in old THEN "none" ELSE result[t]]
  BY DEF Cleanup
<1>2. phase' = phase /\ old \in SUBSET Task
  BY <1>1 DEF Cleanup, Recorded, Inv, TypeOK
<1>3. \A t \in old : StatusOf(t) \in Lifecycle!Ended /\ StatusOf(t)' = "forgotten"
  BY <1>1, <1>2 DEF StatusOf, Recorded, Inv, TypeOK, Books, Statuses, Lifecycle!Ended
<1>4. \A t \in Task \ old : StatusOf(t)' = StatusOf(t)
  BY <1>1, <1>2 DEF StatusOf
<1> QED BY <1>2, <1>3, <1>4 DEF Lifecycle!Forget

\* Every step of the orchestrator is a step of the life cycle or changes no status.
LEMMA StepImplements == Inv /\ [Next]_vars => [Lifecycle!Next]_(Lifecycle!vars)
<1> SUFFICES ASSUME Inv, [Next]_vars PROVE [Lifecycle!Next]_(Lifecycle!vars)
  OBVIOUS
<1>1. ASSUME NEW t \in Task, NEW above \in SUBSET Task, Begin(t, above)
      PROVE  [Lifecycle!Next]_(Lifecycle!vars)
  BY <1>1, BeginImplements DEF Lifecycle!Next
<1>2. ASSUME NEW t \in Task, SpawnFromBrain(t) PROVE [Lifecycle!Next]_(Lifecycle!vars)
  BY <1>1, <1>2 DEF SpawnFromBrain
<1>3. ASSUME NEW p \in Task, NEW t \in Task, SpawnFromWorker(p, t)
      PROVE  [Lifecycle!Next]_(Lifecycle!vars)
  <2>1. anc[p] \cup {p} \in SUBSET Task
    BY DEF Inv, TypeOK
  <2> QED BY <1>1, <1>3, <2>1 DEF SpawnFromWorker
<1>4. ASSUME NEW t \in Task, Complete(t) PROVE [Lifecycle!Next]_(Lifecycle!vars)
  BY <1>4, CompleteImplements DEF Lifecycle!Next
<1>5. ASSUME Cleanup PROVE [Lifecycle!Next]_(Lifecycle!vars)
  BY <1>5, CleanupImplements DEF Lifecycle!Next
<1>6. ASSUME NEW t \in Task, StartRun(t) \/ Return(t) \/ RaiseInSetup(t) \/ Unwind(t) \/ Leak(t)
      PROVE  UNCHANGED Lifecycle!vars
  <2>1. UNCHANGED <<tracked, result>>
    BY <1>6 DEF StartRun, Return, RaiseInSetup, Unwind, EndRun, Leak
  <2>2. phase[t] # "none" /\ \E x \in {"running", "returned", "leaked"} : phase' = [phase EXCEPT ![t] = x]
    BY <1>6 DEF StartRun, Return, RaiseInSetup, Unwind, EndRun, Leak, Pending
  <2> QED BY <2>1, <2>2, SameStatus DEF Inv, TypeOK
<1>7. ASSUME \/ \E t \in Task : Cancel(t) \/ Timeout(t)
             \/ Close \/ CancelBrain \/ UNCHANGED vars
      PROVE  UNCHANGED Lifecycle!vars
  <2>1. UNCHANGED <<tracked, result, phase>>
    BY <1>7 DEF Cancel, Timeout, Close, CancelBrain, vars
  <2> QED BY <2>1, SameStatus
<1> QED BY <1>2, <1>3, <1>4, <1>5, <1>6, <1>7 DEF Next

\* What list_all shows of a task follows its life cycle: unknown, active, one final
\* status, and forgotten only after that (ImplementsLifecycle).
THEOREM Refinement == Spec => ImplementsLifecycle
<1>1. Init => Lifecycle!Init
  BY DEF Init, Lifecycle!Init, StatusOf
<1> QED BY <1>1, Invariance, StepImplements, PTL DEF Spec, ImplementsLifecycle, Lifecycle!Spec
=============================================================================
