------------------------------ MODULE Orchestrator -----------------------------
(***************************************************************************)
(* Multi-agent coordination (src/neoagent/multi): workers spawned by the     *)
(* brain or by other workers, the semaphore that bounds how many run, the    *)
(* TaskTracker, cancellation through asyncio tasks, timeouts and close().    *)
(*                                                                         *)
(* Every spawn_worker / delegate_task call is one task. Its execute()        *)
(* coroutine waits for an asyncio task that takes a semaphore slot and runs  *)
(* the worker; the caller waits in a gather for its own execute() calls.     *)
(* asyncio itself is modelled from how this code relies on it: cancelling a  *)
(* task cancels, at once and all the way down, whatever it is waiting for.   *)
(***************************************************************************)
EXTENDS Integers, FiniteSets

CONSTANTS Task,              \* task ids (uuid4: never used twice)
          MaxDepth,          \* Orchestrator.max_depth
          MaxWorkers,        \* Orchestrator.max_concurrent_workers
          MaxCompleted,      \* argument of TaskTracker.cleanup
          MalformedContext   \* TRUE: delegate_task may be given a context entry
                             \* whose content is neither text nor blocks

ASSUME OrchestratorAssumption ==
  /\ IsFiniteSet(Task) /\ MaxDepth \in Nat \ {0} /\ MaxWorkers \in Nat \ {0}
  /\ MaxCompleted \in Nat /\ MalformedContext \in BOOLEAN

VARIABLES
  phase,      \* none, queued (for a slot), running, returned (the asyncio task is
              \* done, execute() has not resumed), done, leaked (execute() raised)
  anc,        \* the tasks whose workers it was spawned under
  flagged,    \* a CancelledError is on its way into the task
  outcome,    \* what the asyncio task returned: none, a status, or raised
  slots,      \* value of the semaphore
  tracked,    \* keys of TaskTracker._tasks
  handles,    \* keys of TaskTracker._asyncio_tasks
  result,     \* TaskTracker._results: none or a status
  rank        \* insertion order of the results

vars == <<phase, anc, flagged, outcome, slots, tracked, handles, result, rank>>

Live == {"queued", "running", "returned"}    \* execute() has not returned
Statuses == {"completed", "failed", "cancelled"}

\* Asyncio tasks that are not done, and the tasks under the pending ones of s.
Pending == {t \in Task : phase[t] \in {"queued", "running"}}
Under(s) == {t \in Task : anc[t] \cap s \cap Pending # {}}

Depth(t) == Cardinality(anc[t]) + 1

Init ==
  /\ phase = [t \in Task |-> "none"]
  /\ anc = [t \in Task |-> {}]
  /\ flagged = [t \in Task |-> FALSE]
  /\ outcome = [t \in Task |-> "none"]
  /\ slots = MaxWorkers
  /\ tracked = {} /\ handles = {}
  /\ result = [t \in Task |-> "none"]
  /\ rank = [t \in Task |-> 0]

-----------------------------------------------------------------------------
(* Spawning and running.                                                   *)

\* The task is registered and its asyncio task created in one step.
Begin(t, above) ==
  /\ phase[t] = "none"
  /\ phase' = [phase EXCEPT ![t] = "queued"]
  /\ anc' = [anc EXCEPT ![t] = above]
  /\ tracked' = tracked \cup {t} /\ handles' = handles \cup {t}
  /\ UNCHANGED <<flagged, outcome, slots, result, rank>>

\* The brain spawns or delegates (depth 0).
SpawnFromBrain(t) == Begin(t, {})

\* A worker has the spawn tool only below MaxDepth, and one that is being
\* cancelled starts nothing new.
SpawnFromWorker(p, t) ==
  /\ phase[p] = "running" /\ ~flagged[p] /\ Depth(p) < MaxDepth
  /\ Begin(t, anc[p] \cup {p})

\* The semaphore is taken.
StartRun(t) ==
  /\ phase[t] = "queued" /\ ~flagged[t] /\ slots > 0
  /\ phase' = [phase EXCEPT ![t] = "running"]
  /\ slots' = slots - 1
  /\ UNCHANGED <<anc, flagged, outcome, tracked, handles, result, rank>>

\* The tasks that the worker of t spawned itself.
Children(t) == {c \in Task : anc[c] = anc[t] \cup {t}}

\* A worker waits in its gather until every execute() it started has returned.
Waiting(t) == \E c \in Children(t) : phase[c] \in Live

\* Bug variant: a task cancelled in the queue also gives a slot back.
EndRunReleasingTwice(t, o) ==
  /\ phase' = [phase EXCEPT ![t] = "returned"]
  /\ outcome' = [outcome EXCEPT ![t] = o]
  /\ slots' = slots + 1
  /\ UNCHANGED <<anc, flagged, tracked, handles, result, rank>>

\* The asyncio task ends with outcome o and gives its slot back.
EndRun(t, o) ==
  /\ phase' = [phase EXCEPT ![t] = "returned"]
  /\ outcome' = [outcome EXCEPT ![t] = o]
  /\ slots' = IF phase[t] = "running" THEN slots + 1 ELSE slots
  /\ UNCHANGED <<anc, flagged, tracked, handles, result, rank>>

\* Bug variant: the worker does not wait for the tasks it spawned.
ReturnEarly(t) ==
  /\ phase[t] = "running" /\ ~flagged[t]
  /\ \E o \in {"completed", "failed"} : EndRun(t, o)

\* agent.run comes back, or raises something _run_worker turns into "failed".
Return(t) ==
  /\ phase[t] = "running" /\ ~flagged[t] /\ ~Waiting(t)
  /\ \E o \in {"completed", "failed"} : EndRun(t, o)

\* The messages of a delegated task are built before the try block of
\* _run_worker: a malformed context raises past every handler.
RaiseInSetup(t) ==
  /\ MalformedContext /\ anc[t] = {}
  /\ phase[t] = "running" /\ ~flagged[t] /\ \A c \in Task : t \notin anc[c]
  /\ EndRun(t, "raised")

\* The CancelledError gets out of the queue for a slot, or out of a worker. That one
\* need not wait for what it spawned: execute() turns a cancellation into a result, but
\* the gather raises at once when another concurrent-safe call in it ends cancelled.
Unwind(t) ==
  /\ flagged[t] /\ t \in Pending
  /\ EndRun(t, "cancelled")

-----------------------------------------------------------------------------
(* Cancellation.                                                           *)

\* A CancelledError enters the asyncio tasks ts, those among them that are done apart.
Flag(ts) == flagged' = [t \in Task |-> flagged[t] \/ t \in ts \cap Pending]

\* Bug variant: the cancellation stops at the tasks it was asked for.
CancelTasksShallow(s) == Flag(s) /\ outcome' = outcome

\* Cancelling the asyncio tasks of s reaches every task under them. A task whose
\* asyncio task is done is out of its reach; but if it is the caller's await that
\* is cancelled, execute() reports it as cancelled although its work is done.
CancelTasks(s) ==
  /\ Flag(s \cup Under(s))
  /\ outcome' = [t \in Task |-> IF phase[t] = "returned" /\ t \in Under(s)
                                THEN "cancelled" ELSE outcome[t]]

\* TaskTracker.cancel: known, without a result, with an asyncio task. An asyncio task
\* that is already done counts as well.
Cancellable(t) == t \in tracked /\ result[t] = "none" /\ t \in handles

Cancel(t) ==
  /\ Cancellable(t)
  /\ CancelTasks({t})
  /\ UNCHANGED <<phase, anc, slots, tracked, handles, result, rank>>

\* Orchestrator.close: every task the tracker lists as active.
Close ==
  /\ CancelTasks({t \in Task : Cancellable(t)})
  /\ UNCHANGED <<phase, anc, slots, tracked, handles, result, rank>>

\* The brain's own chat is cancelled: the awaits of its execute() calls are.
CancelBrain ==
  /\ Flag(Task)
  /\ outcome' = [t \in Task |-> IF phase[t] = "returned" THEN "cancelled" ELSE outcome[t]]
  /\ UNCHANGED <<phase, anc, slots, tracked, handles, result, rank>>

\* Bug variant: the timeout is never armed.
TimeoutNever(t) == FALSE /\ UNCHANGED vars

\* asyncio.timeout around agent.run expires; the wait for a slot has no timeout.
Timeout(t) ==
  /\ phase[t] = "running" /\ ~flagged[t]
  /\ CancelTasks({t})
  /\ UNCHANGED <<phase, anc, slots, tracked, handles, result, rank>>

-----------------------------------------------------------------------------
(* Completion.                                                             *)

\* Bug variant: the result is recorded as completed whatever it is.
CompleteAlways(t) ==
  /\ phase[t] = "returned" /\ outcome[t] \in Statuses
  /\ phase' = [phase EXCEPT ![t] = "done"]
  /\ result' = [result EXCEPT ![t] = "completed"]
  /\ rank' = [rank EXCEPT ![t] = Cardinality({u \in Task : rank[u] > 0}) + 1]
  /\ handles' = handles \ {t}
  /\ UNCHANGED <<anc, flagged, outcome, slots, tracked>>

\* execute() resumes: the result is recorded, the handle dropped.
Complete(t) ==
  /\ phase[t] = "returned" /\ outcome[t] \in Statuses
  /\ phase' = [phase EXCEPT ![t] = "done"]
  /\ result' = [result EXCEPT ![t] = outcome[t]]
  /\ rank' = [rank EXCEPT ![t] = Cardinality({u \in Task : rank[u] > 0}) + 1]
  /\ handles' = handles \ {t}
  /\ UNCHANGED <<anc, flagged, outcome, slots, tracked>>

\* The exception of the asyncio task leaves execute() before complete() is called.
Leak(t) ==
  /\ phase[t] = "returned" /\ outcome[t] = "raised"
  /\ phase' = [phase EXCEPT ![t] = "leaked"]
  /\ UNCHANGED <<anc, flagged, outcome, slots, tracked, handles, result, rank>>

Recorded == {t \in tracked : result[t] # "none"}

\* Bug variant: tasks without a result are dropped as well.
CleanupActive ==
  /\ Cardinality(tracked) > MaxCompleted
  /\ tracked' = {}
  /\ result' = [t \in Task |-> "none"]
  /\ UNCHANGED <<phase, anc, flagged, outcome, slots, handles, rank>>

\* TaskTracker.cleanup: all but the latest MaxCompleted results are dropped.
Cleanup ==
  LET newer(t) == {u \in Recorded : rank[u] > rank[t]}
      old == {t \in Recorded : Cardinality(newer(t)) >= MaxCompleted}
  IN  /\ old # {}
      /\ tracked' = tracked \ old
      /\ result' = [t \in Task |-> IF t \in old THEN "none" ELSE result[t]]
      /\ UNCHANGED <<phase, anc, flagged, outcome, slots, handles, rank>>

Next ==
  \/ \E t \in Task : SpawnFromBrain(t) \/ StartRun(t) \/ Return(t) \/ RaiseInSetup(t)
                       \/ Unwind(t) \/ Cancel(t) \/ Timeout(t) \/ Complete(t) \/ Leak(t)
  \/ \E p, t \in Task : SpawnFromWorker(p, t)
  \/ Close \/ CancelBrain \/ Cleanup

Spec == Init /\ [][Next]_vars

\* Coroutines that can run do run, a free slot is handed to a waiting task
\* (asyncio.Semaphore is first come, first served), and time passes.
FairSpec ==
  /\ Spec
  /\ \A t \in Task : WF_vars(StartRun(t)) /\ WF_vars(Unwind(t)) /\ WF_vars(Timeout(t))
                       /\ WF_vars(Complete(t)) /\ WF_vars(Leak(t))

-----------------------------------------------------------------------------
(* Properties.                                                             *)

TypeOK ==
  /\ phase \in [Task -> {"none", "queued", "running", "returned", "done", "leaked"}]
  /\ anc \in [Task -> SUBSET Task]
  /\ flagged \in [Task -> BOOLEAN]
  /\ outcome \in [Task -> Statuses \cup {"none", "raised"}]
  /\ slots \in 0..MaxWorkers
  /\ tracked \in SUBSET Task /\ handles \in SUBSET Task
  /\ result \in [Task -> Statuses \cup {"none"}]
  /\ rank \in [Task -> Nat]

\* Running workers and free slots add up to max_concurrent_workers, whichever of
\* return, failure, cancellation or timeout ended a task, in the queue or not.
Holders == {t \in Task : phase[t] = "running"}
SlotsAccounted == slots + Cardinality(Holders) = MaxWorkers

\* No task is left without the caller that waits for its result (spawn_worker.py
\* 102-118): the workers above it go on running, or it has been cancelled with them and
\* reports that, whatever its own work came to, even if they end before it does.
NoOrphans ==
  \A t \in Task : phase[t] \in Live /\ (\E a \in anc[t] : phase[a] # "running")
                  => flagged[t] \/ outcome[t] = "cancelled"

\* A cancellation, however it came, reaches the whole subtree, and nothing joins
\* a subtree that is being cancelled.
CancelReachesSubtree ==
  \A t \in Pending : (\E a \in anc[t] : flagged[a]) => flagged[t]

\* A worker that was cancelled or timed out is never reported as successful
\* (task.py 388-413, spawn_worker.py 106-115).
CancelledIsReported ==
  \A t \in Task : flagged[t] => result[t] \in {"none", "cancelled"}

\* Whatever the tracker lists as active can be reached by cancel_task and close
\* (task.py 170-174 against 232-245).
ActiveIsCancellable ==
  \A t \in Task : phase[t] \in Live => Cancellable(t)

\* Workers nest no deeper than max_depth (worker.py 127-130).
DepthBounded == \A t \in Task : phase[t] \in Live => Depth(t) <= MaxDepth

\* What list_all shows of each task.
StatusOf(t) ==
  IF t \in tracked THEN (IF result[t] = "none" THEN "active" ELSE result[t])
  ELSE IF phase[t] = "none" THEN "unknown" ELSE "forgotten"

Lifecycle == INSTANCE TaskLifecycle WITH status <- [t \in Task |-> StatusOf(t)]

ImplementsLifecycle == Lifecycle!Spec

\* Every task ends and lets its caller go on, also when every slot is held by a
\* worker that waits for a child still queued for one: the timeouts break that.
TasksEnd == \A t \in Task : phase[t] = "queued" ~> phase[t] \in {"done", "leaked"}
=============================================================================
