-------------------------------- MODULE Channel --------------------------------
(***************************************************************************)
(* The HTTP channel (src/neoagent/channels/fastapi_channel.py) over one      *)
(* NeoAgent: requests to /v1/run and /v1/run/stream, the lock that lets one  *)
(* agent.run go on at a time, and the bridge from the agent's EventBus to    *)
(* each stream through a queue.                                              *)
(*                                                                         *)
(* A stream is a generator (subscribes, reads its queue, writes frames) and  *)
(* an asyncio task of its own that takes the lock and runs the agent. When   *)
(* the client goes away the generator is closed wherever it is suspended.    *)
(* An event is named <<r, n>>: the n-th event of the agent run of request r. *)
(***************************************************************************)
EXTENDS Integers, Sequences, SequencesExt

CONSTANTS Stream,     \* requests to /v1/run/stream
          Plain,      \* requests to /v1/run
          MaxEvents   \* bound: events all the agent runs together emit

Request == Stream \cup Plain

\* The sentinel is told from the events by its first part.
ASSUME ChannelAssumption ==
  Stream \cap Plain = {} /\ MaxEvents \in Nat /\ "end" \notin Request

VARIABLES
  task,       \* the coroutine that calls agent.run: none, created, waiting (for
              \* the lock), running, ended (its done callback not yet run), over
  flagged,    \* a CancelledError is on its way into the task
  outcome,    \* none, done, error or cancelled
  waiters,    \* coroutines waiting for _run_lock, first come first
  gen,        \* the generator: none, open, closing (awaits its cancelled task), closed
  subs,       \* streams whose handlers are on the event bus
  emitted,    \* events the agent run of a request has emitted
  queue,      \* the asyncio.Queue of each stream
  sent        \* frames written to the client of each stream

vars == <<task, flagged, outcome, waiters, gen, subs, emitted, queue, sent>>

Sentinel(o) == <<"end", o>>
Frames == (Request \X (1..MaxEvents)) \cup {Sentinel(o) : o \in {"done", "error", "cancelled"}}
IsSentinel(f) == f[1] = "end"

Held == \E r \in Request : task[r] = "running"

Init ==
  /\ task = [r \in Request |-> "none"]
  /\ flagged = [r \in Request |-> FALSE]
  /\ outcome = [r \in Request |-> "none"]
  /\ waiters = <<>>
  /\ gen = [r \in Stream |-> "none"]
  /\ subs = {}
  /\ emitted = [r \in Request |-> 0]
  /\ queue = [r \in Stream |-> <<>>]
  /\ sent = [r \in Stream |-> <<>>]

-----------------------------------------------------------------------------
(* Requests.                                                               *)

\* POST /v1/run/stream: the handlers are subscribed before the task is created.
OpenStream(r) ==
  /\ r \in Stream /\ gen[r] = "none"
  /\ gen' = [gen EXCEPT ![r] = "open"]
  /\ subs' = subs \cup {r}
  /\ task' = [task EXCEPT ![r] = "created"]
  /\ UNCHANGED <<flagged, outcome, waiters, emitted, queue, sent>>

\* POST /v1/run.
OpenPlain(r) ==
  /\ r \in Plain /\ task[r] = "none"
  /\ task' = [task EXCEPT ![r] = "created"]
  /\ UNCHANGED <<flagged, outcome, waiters, gen, subs, emitted, queue, sent>>

\* Bug variant: the stream task calls agent.run without the lock.
AcquireUnlocked(r) ==
  /\ task[r] = "created" /\ ~flagged[r]
  /\ task' = [task EXCEPT ![r] = "running"]
  /\ UNCHANGED <<flagged, outcome, waiters, gen, subs, emitted, queue, sent>>

\* async with self._run_lock: taken at once when free and nobody waits.
Acquire(r) ==
  /\ task[r] = "created" /\ ~flagged[r]
  /\ IF Held \/ waiters # <<>>
     THEN task' = [task EXCEPT ![r] = "waiting"] /\ waiters' = Append(waiters, r)
     ELSE task' = [task EXCEPT ![r] = "running"] /\ UNCHANGED waiters
  /\ UNCHANGED <<flagged, outcome, gen, subs, emitted, queue, sent>>

\* The lock is handed to the first that waits.
Grant ==
  /\ waiters # <<>> /\ ~Held
  /\ task' = [task EXCEPT ![Head(waiters)] = "running"]
  /\ waiters' = Tail(waiters)
  /\ UNCHANGED <<flagged, outcome, gen, subs, emitted, queue, sent>>

-----------------------------------------------------------------------------
(* The agent run.                                                          *)

\* EventBus.emit calls every subscribed handler, whichever request is running.
Emit(r) ==
  /\ task[r] = "running" /\ ~flagged[r]
  /\ MapThenSumSet(LAMBDA s : emitted[s], Request) < MaxEvents
  /\ emitted' = [emitted EXCEPT ![r] = @ + 1]
  /\ queue' = [s \in Stream |-> IF s \in subs THEN Append(queue[s], <<r, emitted'[r]>>)
                                ELSE queue[s]]
  /\ UNCHANGED <<task, flagged, outcome, waiters, gen, subs, sent>>

\* agent.run returns or raises; the lock is free again, and the done callback of
\* a stream's task is scheduled.
EndRun(r) ==
  /\ task[r] = "running" /\ ~flagged[r]
  /\ \E o \in {"done", "error"} : outcome' = [outcome EXCEPT ![r] = o]
  /\ task' = [task EXCEPT ![r] = IF r \in Stream THEN "ended" ELSE "over"]
  /\ UNCHANGED <<flagged, waiters, gen, subs, emitted, queue, sent>>

\* The CancelledError comes out of the task, in the wait for the lock or in the run.
Cancelled(r) ==
  /\ flagged[r] /\ task[r] \in {"created", "waiting", "running"}
  /\ task' = [task EXCEPT ![r] = "ended"]
  /\ outcome' = [outcome EXCEPT ![r] = "cancelled"]
  /\ waiters' = RemoveFirst(waiters, r)
  /\ UNCHANGED <<flagged, gen, subs, emitted, queue, sent>>

\* Bug variant: the sentinel overtakes the events still in the queue.
OnDoneFirst(r) ==
  /\ r \in Stream /\ task[r] = "ended"
  /\ task' = [task EXCEPT ![r] = "over"]
  /\ queue' = [queue EXCEPT ![r] = IF gen[r] = "open" THEN <<Sentinel(outcome[r])>> \o @ ELSE @]
  /\ UNCHANGED <<flagged, outcome, waiters, gen, subs, emitted, sent>>

\* Bug variant: the callback has no case for a cancelled or failed task.
OnDoneIfSuccessful(r) ==
  /\ r \in Stream /\ task[r] = "ended" /\ outcome[r] = "done"
  /\ task' = [task EXCEPT ![r] = "over"]
  /\ queue' = [queue EXCEPT ![r] = IF gen[r] = "open" THEN Append(@, Sentinel("done")) ELSE @]
  /\ UNCHANGED <<flagged, outcome, waiters, gen, subs, emitted, sent>>

\* _on_done: the sentinel goes behind every event of the run.
OnDone(r) ==
  /\ r \in Stream /\ task[r] = "ended"
  /\ task' = [task EXCEPT ![r] = "over"]
  /\ queue' = [queue EXCEPT ![r] = IF gen[r] = "open" THEN Append(@, Sentinel(outcome[r])) ELSE @]
  /\ UNCHANGED <<flagged, outcome, waiters, gen, subs, emitted, sent>>

-----------------------------------------------------------------------------
(* The generator.                                                          *)

\* An event is taken from the queue and written.
Send(r) ==
  /\ r \in Stream /\ gen[r] = "open" /\ queue[r] # <<>> /\ ~IsSentinel(Head(queue[r]))
  /\ sent' = [sent EXCEPT ![r] = Append(@, Head(queue[r]))]
  /\ queue' = [queue EXCEPT ![r] = Tail(@)]
  /\ UNCHANGED <<task, flagged, outcome, waiters, gen, subs, emitted>>

\* The sentinel: the last frame, then the finally block.
Finish(r) ==
  /\ r \in Stream /\ gen[r] = "open" /\ queue[r] # <<>> /\ IsSentinel(Head(queue[r]))
  /\ sent' = [sent EXCEPT ![r] = Append(@, Head(queue[r]))]
  /\ queue' = [queue EXCEPT ![r] = <<>>]
  /\ gen' = [gen EXCEPT ![r] = "closed"]
  /\ subs' = subs \ {r}
  /\ UNCHANGED <<task, flagged, outcome, waiters, emitted>>

\* Bug variant: the client goes away and the agent run is left alone.
DisconnectOnly(r) ==
  /\ r \in Stream /\ gen[r] = "open"
  /\ subs' = subs \ {r}
  /\ gen' = [gen EXCEPT ![r] = "closed"]
  /\ queue' = [queue EXCEPT ![r] = <<>>]
  /\ UNCHANGED <<task, flagged, outcome, waiters, emitted, sent>>

\* The client goes away, or an event cannot be written as JSON (the input of a
\* ToolCallEvent is a mapping proxy, executor.py 79, which json.dumps rejects): the
\* generator is left at its get() or yield, and the finally block unsubscribes and
\* cancels the task when it is not done. The queue goes with it.
Disconnect(r) ==
  /\ r \in Stream /\ gen[r] = "open"
  /\ subs' = subs \ {r}
  /\ queue' = [queue EXCEPT ![r] = <<>>]
  /\ IF task[r] \in {"ended", "over"}
     THEN gen' = [gen EXCEPT ![r] = "closed"] /\ UNCHANGED flagged
     ELSE gen' = [gen EXCEPT ![r] = "closing"] /\ flagged' = [flagged EXCEPT ![r] = TRUE]
  /\ UNCHANGED <<task, outcome, waiters, emitted, sent>>

\* await agent_task is over and the generator with it.
Closed(r) ==
  /\ r \in Stream /\ gen[r] = "closing" /\ task[r] \in {"ended", "over"}
  /\ gen' = [gen EXCEPT ![r] = "closed"]
  /\ UNCHANGED <<task, flagged, outcome, waiters, subs, emitted, queue, sent>>

Step(r) == Acquire(r) \/ EndRun(r) \/ Cancelled(r) \/ OnDone(r) \/ Send(r) \/ Finish(r) \/ Closed(r)

Next ==
  \/ \E r \in Request : OpenStream(r) \/ OpenPlain(r) \/ Emit(r) \/ Step(r) \/ Disconnect(r)
  \/ Grant

Spec == Init /\ [][Next]_vars

\* Coroutines that can go on do; an agent run ends (max_turns bounds it).
FairSpec ==
  Spec /\ WF_vars(Grant) /\ \A r \in Request : WF_vars(Step(r)) /\ WF_vars(EndRun(r))

-----------------------------------------------------------------------------
(* Properties.                                                             *)

\* One agent run at a time, whatever is cancelled while it holds or waits for the
\* lock: the agent keeps one session slot and one event bus (lines 261, 323).
OneRunAtATime == \A r, s \in Request : task[r] = "running" /\ task[s] = "running" => r = s

\* The events of r among these frames are those after the from-th up to the to-th, in
\* their order and each once.
Carries(frames, r, from, to) ==
  LET own == {i \in DOMAIN frames : frames[i][1] = r}
  IN  /\ \A i, j \in own : i < j => frames[i][2] < frames[j][2]
      /\ {frames[i][2] : i \in own} = from + 1..to

\* A stream that was ended by its sentinel has carried every event of its own run,
\* in order and once, before that last frame (lines 336-347).
StreamIsComplete ==
  \A r \in Stream : sent[r] # <<>> /\ IsSentinel(Last(sent[r])) =>
    Carries(sent[r], r, 0, emitted[r])

\* Nothing of a stream outlives it: no handler on the bus, no task on the agent
\* (the finally block, lines 348-356).
ClosedIsClean ==
  \A r \in Stream : gen[r] = "closed" => r \notin subs /\ task[r] \in {"ended", "over"}

\* Every request comes to an end, also those behind a stream whose client left.
RequestsEnd == \A r \in Request : task[r] = "created" ~> task[r] = "over"

\* docs/guide.md 1267: concurrent requests do not interfere with each other.
NoCrossTalk == \A r \in Stream : \A f \in ToSet(sent[r]) : IsSentinel(f) \/ f[1] = r
=============================================================================
