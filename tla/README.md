# A verification development for NeoAgent

NeoAgent (`neoagent/`, Python, asyncio) is an agent runtime: a loop that sends a
conversation to an LLM provider, runs the tools the model asks for, compresses
the conversation when it grows, saves the session after every turn, spawns worker
agents, talks to MCP servers over stdio and can be put behind HTTP. Everything
runs on one event loop, so every `await` is a point where something else may
happen, and most of what is hard in this code sits at those points.

This directory models that control in TLA+, checks it with TLC on small
instances, and proves with TLAPS, for every value of the constants, every safety and action
property of its passing runs: the turn loop with its compression, session file and
refinement of an abstract log, the list functions of the compressor, the formats of the
provider, the task orchestration with its refinement, the batches of
tool calls with the handlers that watch them, the MCP client, the HTTP channel, the tool
catalogue, the memory and the telemetry. What stays with TLC is liveness.

Paths below are relative to the root of the repository.

## 1. Inventory

| Part | State it keeps | Operations | What is hard | What makes it correct |
|---|---|---|---|---|
| Turn loop (`core/loop.py`), entry points (`agent.py`) | `Session.messages`, counters, turn index | `chat`, `run`, one iteration per provider call | every awaited call may raise or be cancelled; saves happen in the middle | a request holds whole tool pairs and the user's message; every call ends |
| Compressor (`core/compress.py`) | batches, `turns_since_last_compression`, `compression_failures`, `previous_summary` | strategy path, legacy summary, truncation, repair | fails between recording a batch and moving its bodies; cuts part pairs | nothing lost, nothing doubled, ids in batches can be recalled |
| Store of compressed bodies (`v2/compressed_store.py`), ids (`v2/id_gen.py`) | bodies per session, id counter | `put_many`, `bind_session`, `next_msg_id`; read by `recall_turn` | idempotence on the id meets id reuse | an id names one message |
| Session file (`session.py`) | the file | `save`, `load` | truncated, then written | a finished turn survives |
| Orchestration (`multi/`) | tracker's four dictionaries, semaphore, asyncio tasks | `spawn_worker`, `delegate_task`, `cancel_task`, `close`, `cleanup` | cancellation races with return, nested spawning with the semaphore | slots add up, cancellation is deep and reported, every task ends |
| MCP client (`mcp/`) | `_pending`, `_next_id`, the stream | `_request`, `connect`, `call_tool`, `close` | answers out of order, abandoned calls, server death | own answer only, none lost |
| Tool catalogue (`agent.py`, `tools/registry.py`, `tools/deferred.py`, `tools/builtin/tool_search.py`) | two registries, client table, promotions | add / remove / close, search | adds that fail half-way, overlapping prefixes, awaits in between | the tables agree, what is offered can be called |
| Executor and hooks (`tools/executor.py`, `hooks.py`) | handler lists | a batch of calls; register, unregister | the list changes under a chain in progress | unsafe tools alone; what runs was permitted and shown to every handler |
| HTTP channel (`channels/fastapi_channel.py`), event bus (`events.py`) | run lock, queue per stream, subscriptions | `run`, `run_stream` | clients leave at any point | one run at a time, complete streams, nothing left behind |
| Memory (`memory/`, `v2/nudge.py`, the review in `agent.py`) | topic files and their index, provider, counters per session, `_current_session` | extraction at the end of a turn, mirror to the provider, review task | snapshots across awaits, answers that raise half-way, chats that share one slot | what the index lists reaches the provider; turns count for their own session |
| Freed and recalled results (`tools/builtin/free_tool_result.py`, `recall_tool_result.py`) | `freed_tool_results`, `recalled_tool_ids` in the session | `free_tool_result`, `recall_tool_result`, the view that is sent | notes on the window outlive the window they were made in | what is recalled is what the tool gave |
| Working memory (`v2/schema.py`, `v2/stores/in_memory_wm.py`, `update_working_memory`) | items and a version in the session, snapshots in a store | snapshot at the end of a turn, delta of a compression, the tool | versions run ahead of what is saved | a version names one turn |
| Provider formats (`providers/`) | – | window to request, answer or stream to message | one message becomes several, pieces arrive until the stream ends or breaks | pairs stay whole, an answer cut off is not executed |
| Metrics, usage, spans, evaluation (`eval/`, `integrations/otel.py`) | open turns per collector, one slot for a span | handlers on the event bus, a case run | events carry a turn but not whose it is; calls fail between two events | nothing lost or doubled, cases apart, spans ended by their own answers |
| Prompt builder, file, shell and skill tools, scanning, log lines | – | I/O and text | – | not modelled |

How they interact: `chat` and `run` own a session and call the loop; the loop calls
the compressor (which calls the store), the provider, the executor (which calls
hooks, permissions and tools) and the session file. Tools reach back: `tool_search`
changes the catalogue the loop reads, `spawn_worker` starts another agent whose
executor waits inside this one's, MCP tools share one client per server. The event
bus carries events to the channel through plain callbacks.

The hazards that follow from this, each with its line and the properties that
watch it, are in `PROJECT.json` under `hazards`.

## 2. Modules

| Module | Models | State and actions |
|---|---|---|
| `Messages` | the pure list functions of `core/compress.py` | `Split`, `TruncateOldest`, `Summarize`, `Sanitize` over messages reduced to id, turn, role, tool pairs and a number for the words |
| `ProviderFormat` | the view of the window (`core/loop.py:443-480`) and the OpenAI format (`providers/openai.py`): `View`, the wire form of a window, the reading of an answer in one piece and in a stream | pure operators on the messages of `Messages` |
| `MessageLists` | the writers of a conversation in `agent.py` and `core/loop.py`, the legacy cuts, the arrival of a stream | `list` grows by `AddUser`, `AddOpening` (of `run()`), `AddToolRound` (one or two calls), `AddReply` and is cut by `Shorten`; `listTurn` is the stamp of the loop's next messages, `user_turn` or the turn index of `run()`; `deltas` is what has arrived of an answer (`Receive`); compares the functions of the two modules above with what they should compute |
| `QueryLoop` | `NeoAgent.chat/run/resume`, `QueryLoop.run`, the compressor, the store, freed and recalled results, versions of the working memory, the session file | one session; `pc` names the await the call stands at; `session` is the object in memory, `disk` the file; `setup` is how the agent was configured |
| `QueryLoopProperties` | – | properties, and the refinement of `ConversationLog` |
| `MCQueryLoop` | – | the configurations of a session, each with its bounds |
| `Selection` | list comprehensions with a condition | `Among(s, P)`: the elements of a list at a set of positions, without recursion |
| `QueryLoop_proofs` | – | the theorems about the session, about the list functions of `Messages`, and about `MessageLists` |
| `ConversationLog` | abstract: what a persistent session promises | one growing log and a durable copy |
| `Orchestrator` | `multi/task.py`, `orchestrator.py`, `spawn_worker.py`, `delegate_task.py`, `cancel_task.py`, the depth rule of `worker.py` | per task its phase, callers, pending cancellation and outcome, and the tracker's dictionaries |
| `TaskLifecycle` | abstract: what `list_all` promises | unknown, active, one final status, forgotten |
| `Orchestrator_proofs` | – | the theorems about it |
| `MCPClient` | `mcp/client.py` over `mcp/transport.py` with a server | callers, the stream of lines, `_pending`, the reader's one waiter; `Send` writes and reads in one step unless the pipe is full |
| `Channel` | `run`, `run_stream`, `_sse_generator`, the bus they subscribe to | per request its task, generator, queue and what it has written |
| `ToolCatalog`, `MCToolCatalog` | `add_mcp_server`, `remove_mcp_server`, `close`, both registries, `tool_search`, the schema filter of the loop | per connection its subprocess, the tables, promotions per session |
| `Memory`, `MCMemory` | `MemoryManager`, `MemoryExtractor`, `MemoryStore`, `NudgeCounter`, `_on_turn_complete_*` of the agent | per session where its chat stands, its counters and its snapshot; shared the files, the index, the provider and the agent's slot |
| `ToolExecution`, `MCToolExecution` | `ToolExecutor.execute`/`_run_one`, `HookManager.register/unregister/run_pre` | per call its phase, its position in the list object it iterates over, and its input at the top level and in a nested value |
| `ToolExecution_proofs`, `MCPClient_proofs`, `Channel_proofs`, `ToolCatalog_proofs`, `Memory_proofs`, `Telemetry_proofs` | – | the theorems about these modules |
| `Telemetry`, `MCTelemetry` | `MetricsCollector`, `UsageTracker`, `EvalRunner`, the spans of `OtelSubscriber` | per call where it stands; per collector its open and completed turns; the one span slot; what each collector heard, as the account to compare with |

Which definition stands for which lines is in `PROJECT.json` under `map`. In
each module the definitions that begin with "Bug variant" stand next to the
definition they distort; they are not part of the specification and exist to show
that each property notices a plausible mistake in the code (`mutants`).

Atomicity follows asyncio: what happens between two awaits is one action. Where an
awaited call never suspends in practice (the in-memory stores) it is part of the
action. The one synchronous call that is split is the session save, because a crash
may come between the truncation and the write.

## 3. Runs

| Run | Expect | Shows |
|---|---|---|
| `messages` | pass | over all conversations up to 8 messages, one cut in between, with or without an unstamped opening, and with `end_turn` answers that hold calls: `SplitIsSound` (nothing lost, no call that ran parted from its result), `CutsAreSendable` (pairs whole, no call unanswered, roles alternate), `WireIsPaired` (the view with freed results answers every call that ran on the wire), and over all streams `StreamIsAnswer` (a stream read to its end is the answer; one that broke off is not executed as another) |
| `loop` | pass | seven configurations of one session. `RequestIsWhole`, `IdsUnique`, `BatchesRecoverable`, `FreedIsRecallable`, `SnapshotsNameTurns`; `NothingVanishesUnannounced` (an action property: what leaves the window is archived or announced); `ImplementsLog` (compression is invisible in the log, only a crash takes it back, to what the file holds); under fairness `CallCompletes` |
| `loop_torn` | violation | `CrashIsRecoverable` |
| `orchestrator` | pass | all safety properties of the orchestration, `ImplementsLifecycle`, and under fairness `TasksEnd` |
| `mcp_client` | pass | `OwnAnswer`, `AnswersAccounted`; under fairness `RequestEnds` (alone on the client, or once the server has died) |
| `mcp_buffer` | violation | `BufferedIsTaken` |
| `http_streams` | pass | `OneRunAtATime`, `StreamIsComplete`, `ClosedIsClean`; under fairness `RequestsEnd` |
| `http_crosstalk` | violation | `NoCrossTalk` |
| `catalogue` | pass | `SearchIsTrue` (a search finds no tool that is gone, and what is hidden can be searched for); until `close()` `RegisteredIsLive` (a registered tool has its server up and can be removed); `OfferedStaysOffered` (an action property: what a session was offered or has promoted is offered while it is registered) |
| `memory` | pass | `IndexedIsMirrored`, `TicksAreOwn` |
| `tool_batch` | pass | `UnsafeRunsAlone`, `ExecutesWhatWasApproved`, `NoHandlerSkipped` |
| `telemetry` | pass | `NothingLostOrDoubled`, `TurnsAreOwn`, `CasesAreIsolated`, `SpansAreOwn` |

`CHECK_DEADLOCK FALSE` everywhere: the bounded models come to rest when their
calls, tasks or requests are used up, and so does the program when nobody calls it.

### Bounds

* `messages`: `KeepTurns = 2`, `KeepRecent = 3` (5 and 6 in the code) and 8 messages: one
  user turn more than is kept, with tool rounds in them, rounds of `run()` whose stamps a
  later chat uses again, and cuts that fall on every position of a pair. The three properties
  of lists are proved for every length.
* `loop`: the variable `setup` ranges over the seven records of `MCQueryLoop`, so that one run
  checks them all: `Stored` and `Unbound` (strategy, the in-memory store, told of the
  session or not, one crash), `Rounds` (three iterations in one call, so that the same call
  compresses between its rounds), `External` and `Legacy` (an external store, `chat` and `run`,
  no crash), `Context` and `LegacyContext` (freed and recalled results, a working memory).
  Two or three calls of one to three iterations, `KeepTurns = 1`, a trigger every one or two
  chats: two turns are compressed while a third is live, a batch is followed by a crash,
  and the resumed session compresses again.
* `orchestrator`: three tasks, depth 3, two slots. A worker with two children, two
  workers with one, a chain of three, and the case where parents hold every slot; `cleanup(1)` forgets one
  result while others remain. The safety part is proved without bounds.
* `mcp_client`: two callers and three requests, one disturbance: an abandoned request
  whose answer arrives during a later one, and two overlapping; `Congested`: a send may wait
  for room in the pipe. `mcp_buffer` has `Congested = FALSE`, so that its trace needs no pause
  between sending and reading.
* `http_streams`: two streams, one plain request, two events: one runs, one waits, one
  comes later; the events may belong to one run or two.
* `catalogue`: two servers, the name of one a prefix of the other's (`a`, `a__b`), two
  tool names, three connections, two sessions: a duplicate add, and an add after a
  remove. Connections and sessions are symmetric (safety only).
* `memory`: two sessions, two topics, two turns in all, a review at every second
  tick, an extraction after one tool call or whenever the tokens have grown: two
  extractions at once, one of them malformed, over every state the files, the index and the
  provider can have been left in. Sessions and topics are symmetric (safety only).
* `tool_batch`: two calls, each in the gather or serial, three handlers, two of them of the
  higher priority, and three changes of the handler list. With two handlers no two of them
  can be inserted behind the position of a chain, and overtaking never shows; the
  safety of the run is proved without bounds. Calls and handlers of one kind are symmetric.
* `messages`, calls and streams: one or two calls in a round; an answer of at most two calls
  (`MaxCalls`) in two pieces each (`Pieces`), cut at every delta. Both the pairs on the wire and the
  reading of streams are proved without bounds.
* `telemetry`: two cases of the evaluation with one provider call each and a chat of two, one
  tool call per answer, every call able to fail or be cancelled at each await. Two calls
  overlap on the same turn index, and a turn left open by one is found by another. A collector
  keeps two completed turns (`Keep`, `max_turns` in the code) of the four it can hear. Cases
  are symmetric (safety only).

### Fairness

* `QueryLoop`: weak fairness of the loop's steps: the event loop runs what can run,
  and provider and tool calls return or raise (the clients have timeouts). Nothing
  forces a user to call or a process to crash.
* `Orchestrator`: weak fairness per task of taking a slot (`asyncio.Semaphore` is first
  come, first served), of unwinding, of the timeout of `_run_worker` and of recording
  the result. No fairness for the worker to return: that is what the timeout is for.
* `MCPClient`: coroutines that can read do, a live server answers what it was asked. No
  fairness for its death, for closing, or for callers to give up.
* `Channel`: coroutines that can go on do, the lock is handed on, an agent run ends
  (`max_turns`). No fairness for clients to leave.

## 4. Proofs

Each theorem holds for every value of the constants that the named assumption of its module
admits; TLC evaluates the assumptions on every run. Each proof module states the
lemmas on lists and sets that it needs, then one lemma per kind of step, then
the theorems. All safety and action properties of the passing runs are proved; the
liveness properties are only checked.

`Orchestrator_proofs` proves, for any finite set of tasks, any `MaxDepth`, `MaxWorkers`
and `MaxCompleted` (`OrchestratorAssumption` is all that is assumed, and TLC evaluates
it), with or without malformed contexts:

* `Invariance`: `Spec => []Inv`;
* `TypeCorrectness`, `SlotsAlwaysAccounted`, `CallersOutlive`, `CancellationIsDeep`,
  `CancellationIsReported`, `ActiveStaysCancellable`, `NestingIsBounded`: each safety
  property of the run, and the depth bound;
* `Refinement`: `Spec => ImplementsLifecycle`, by `StepImplements`: a spawn starts a
  task, `Complete` ends it, `Cleanup` forgets, everything else stutters.

None of the properties is inductive alone. `NoOrphans` and `CancelReachesSubtree` are two sides
of one fact, `Followed`: a task below one that was cancelled, or that has ended, is cancelled too or
will report that it was. A cancelled worker need not wait for what it spawned: `tools/executor.py:47` is a
gather without `return_exceptions`, so that the first child that ends cancelled ends it, while
another still unwinds. What it leaves behind carries its cancellation already, and this is
what `NoOrphans` states. `Followed` needs the callers of a task to be closed under "caller of" (`Nested`)
and every caller to have a child of its own on the way down to it (`Chained`), because a worker that returns
normally has waited for its own children only: otherwise a spawn could slip in below a cancelled
grand-parent, or a cancellation could stop at a task that has already returned. That a
cancelled worker is reported as cancelled needs the tracker's books (`Books`): results
belong to finished tasks only, and a task whose cancellation was delivered before it
returned carries the outcome "cancelled". The slot count needs lemmas on the cardinality of
the set of running tasks.

`QueryLoop_proofs` proves all eight safety properties of the session, for any `setup` (any
compressor, store, entry points, bounds on calls, failures and crashes) and any number of
turns to keep (`KeepAssumption`, `QueryLoopAssumption`):

* `TypeCorrect`: `Spec => []TypeOK`;
* `OneMessagePerId`: `Spec => []IdsUnique`. An external `put_many` that raises may have stored any part
  of the bodies, whose ids then stand in archive and window: for the same message. Inductive is
  `IdsInv`: within the held bodies and within the window ids are distinct and all issued, what stands in
  both is the same message, and the same for the file, which is what a
  crash goes back to (`IdsSound`, for both records). `Core` joins it with the types, with
  `TurnsLeft` (a call in progress has a turn left) and with `Frame` (a legacy session, or
  one that keeps its own bucket, has an empty store, and who is down has crashed);
* `BatchesStayRecoverable`: `Spec => []BatchesRecoverable`, again for memory and file at
  once (`Covered`). A strategy may also name an id it was not shown, as `_find_orphan_id`
  accepts every one that was issued: hence `Numbered`, every id from 1 to the counter is in
  the archive or the window, and `FindableStays`, no step takes away an id that can be found;
* `NothingVanishes`: `Spec => NothingVanishesUnannounced`;
* `FreedStaysRecallable`: `Spec => []FreedIsRecallable`. `FreedInv` says of everything that
  is reachable from the archive and the window that the note on a freed result has the
  body of the result with that tool id; it uses that tool ids are never issued twice;
* `VersionsNameTurns`: `Spec => []SnapshotsNameTurns`. Not inductive, as a snapshot is handed
  over before its reply is appended: `Told` says that the snapshots of replies that are
  kept have different versions, none above the session's, and `Pending` that between
  the hand-over and the reply the last snapshot is the newest of all;
* `RequestsAreWhole`: `Spec => []RequestIsWhole`. The calls of an `end_turn` answer are appended and
  never answered; the model gives them negative names, which no definition of the code looks
  at, so that a property can tell them from calls that ran. `Wholesome` says that every call that ran
  has its results right behind it, with the same turn, and that tool ids are new; that a compression does not part a pair is
  `SplitWholesome` for the strategy, and `LegacyCut` with `Sanitize` for the legacy path. `SentInv`
  says that the message of the user stays behind the split for the whole call;
* `SessionIsALog`: `Spec => ImplementsLog`, the refinement of `ConversationLog`. A compression
  is a stutter because the split takes off a front of a window whose messages all carry
  their turn (`StampedInv`, `SplitWhole`); with a message that does not, as `run()` makes one,
  it would not be a front, and this is why the refinement is stated for sessions of chats.

The steps are sorted once (`Step`: messages that stay, messages that are new, a batch, a
cut, a save written, a crash, a resumption), and every invariant is shown for the kinds, not the actions.
`IdsReissued` is excepted in `IdsUnique`, `FreedIsRecallable` and
`NothingVanishesUnannounced`, as section 5 explains.

At its end the module proves the properties of `MessageLists`, for any length of the
conversation, any number of turns or messages to keep, any number of cuts, freed results,
calls and pieces (`KeepAssumption`, `FormatAssumption`). The first three follow from `ListsInv`: the
list is `Wholesome`, as the requests of the turn loop are, with every tool id, of a call that ran or
one left unanswered, up to the number of messages given. The lemmas on growing, selecting and repairing a list are those that
the turn loop uses, stated for any list.

* `CutsStaySendable`: `ListsSpec => []CutsAreSendable`. Pairs are `LegacyCut` again; the repair
  also drops the calls that `end_turn` answers have left, so a cut list is paired in full (`PairsAdjacent`). That the
  roles alternate (`AlternateAlternates`) is a fact on the order of positions: `Alternate` takes some
  of the positions of a list twice as long, and behind a message comes either the next one, of
  another role, or the placeholder between them (`Rank`, `Position`, lemma `Positions`);
* `SplitsStaySound`: `ListsSpec => []SplitIsSound`, in `SplitSound`. Unlike the refinement of the log
  it covers messages without a turn, which the repair of an earlier cut and `run()` leave: the split
  keeps all of them, and a pair is never parted because both of its messages carry the same
  turn or none (`SelectedWholesome`), whichever turns share the number;
* `WireStaysPaired`: `ListsSpec => []WireIsPaired`. The view changes nothing that a message asks or
  answers (`ViewPaired`). The request numbers its places, pairs of a message and a part of it, by how
  many come up to each; `PlacesNumbered` shows for every finite set of places that this is a
  numbering without gaps that keeps the order, by the injection into `1..Cardinality`. Then
  behind an entry that is no answer come exactly the results of the next message (`WirePaired`), and
  behind an `end_turn` answer with calls none;
* `StreamsAreAnswers`: `ListsSpec => []StreamIsAnswer`. A stream holds every piece once and the reason
  last (`StreamIs`), so the pieces of a call are in bijection with `1..Pieces` (`CallArrives`) and the
  call is whole; of a proper prefix no delta has a reason, and the default reason executes nothing.

`Selection` and `ProviderFormat` say which positions a list or a request consists of where the
code appends in a loop: what a fold computes for every list would be an induction over data.

`ToolCatalog_proofs` proves, for any servers, names, connections and sessions
(`CatalogAssumption`), from one inductive invariant `IInv`:

* `SearchFindsWhatIsThere`: `Spec => []SearchIsTrue`, with `SearchComesFirst`: whatever is
  registered came with a `tool_search`;
* `RegisteredCanBeCalled`: `Spec => []RegisteredIsLive`. A connection that is being added has
  never been listed (`AddingIsNew`), a listed one was made for its server (`ListedIsOwn`),
  and a removed server has no tool left when its connection is closed (`RemovingIsUnused`);
* `NothingHiddenAgain`: `Spec => OfferedStaysOffered`.

`Memory_proofs` proves, for any sessions, topics and thresholds, `MirrorKeepsUp`
(`Spec => []IndexedIsMirrored`) and `TicksOwned` (`Spec => []TicksAreOwn`). The second is
inductive with `SlotIsOwn`: as long as no chats overlapped, the agent's slot names the one
that is in progress. For the first, call a topic covered when the provider holds it, an extraction is sending it, an upsert of it
failed, or it came into the index from elsewhere (`foreign`): from an earlier process that died before
the upsert, or from an item named `MEMORY.md`, which an extraction writes over the index. Such
topics are in every snapshot from then on and are never sent. That the index is covered is not inductive: an extraction sends only what its
snapshot, taken before an await, did not hold, so `SnapshotsCovered` says that whatever is
in a snapshot is covered too; and the steps that end a chat clear its entries, so
`EntriesInUse` says that only an upsert in progress has any. `IInv` joins both with the
types of the variables involved. One lemma, `CoveredGrows`, says when a step leaves
covered topics covered, and every action is reduced to it.

`ToolExecution_proofs` proves, for any calls, any finite set of handlers and any number of
changes of the handler list (`ExecutionAssumption`):

* `UnsafeAlone`: `Spec => []UnsafeRunsAlone`. Inductive only with `GatherFirst`: that an
  unsafe call has begun means that the gather is over for good.
* `ApprovedOnly`: `Spec => []ExecutesWhatWasApproved`. At the top level handlers work on a read-only copy, so
  that what was permitted stays in place while they are asked; nested values are shared
  (`dict(call.input)` is shallow), and there the history variable `tampered` marks the calls for
  which a handler has changed one since the last permission (`PermittedInPlace`).
* `NobodySkipped`: `Spec => []NoHandlerSkipped`. The invariant behind it (`AskedOrAhead`): a
  handler that was there all along has been asked or is ahead of the loop's position in the
  list object the loop goes over. A registration inserts into that object and can only push
  handlers backwards, away from the position (lemma `Inserted`); an unregistration makes a
  new object (lemma `Removed`), and lists stay sorted (`AllInOrder`). With the variant
  `WithoutInPlace`, where the handler is taken out of the list object itself, TLC refutes the
  property: this is why `hooks.py:156` has to build a new list.

`MCPClient_proofs` proves, for any callers and any bounds (`MCPClientAssumption`):

* `AnswersAreOwn`: `Spec => []OwnAnswer`;
* `NoAnswerLost`: `Spec => []AnswersAccounted`. It is split into `NoDoubles`, `Places` and
  `NotWaitedFor`. That an answer which is fed is new needs `AnsweredOnce` (a request is asked
  or answered); the last part needs `AloneUnlessOverlapped`, which says what the history
  variable means, and for that `WaiterWaits`: the reader wakes only a caller whose call is
  open. An answer in a line longer than the reader's limit is no readable line; the
  property is about the others. Lemma `Stops` says where the receive loop stops, `Rest` what is left of
  the stream.

`Channel_proofs` proves, for any requests and any number of events (`ChannelAssumption`):

* `RunsAlone`: `Spec => []OneRunAtATime`, with `Queued`: everybody in the queue of the lock
  waits and is in it once, also after a cancellation took one out of the middle (`Leaves`);
* `NothingLeftBehind`: `Spec => []ClosedIsClean`. That a stream which ends by its sentinel has
  no task any more needs `SentinelAfterTask`; that a closed stream's task does not come
  back to life needs `Queued` again, because the lock is handed to whoever is in the queue;
* `StreamsDeliver`: `Spec => []StreamIsComplete`. The events of an open stream are on the two
  sides of its generator: those up to some k are written, the others in the queue, in order,
  all before the sentinel (`OnItsWay`). The events of other streams pass through the same queue
  (`CarriesOther`) and change nothing of this.

`Telemetry_proofs` proves, for any cases, chats and turns and any size of a batch
(`TelemetryAssumption`):

* `EverythingOnce`: `Spec => []NothingLostOrDoubled`. Beyond `max_turns` a collector throws its oldest completed
  turns away; the history variable `finished` has them all, and `Latest` says that what is kept is
  its end, by `KeptIs` on the trim. An event is heard once because it has not
  happened before (`HeardHappened`), and it is booked in one bucket, which becomes one entry
  (lemmas `BookedHear`, `BookedComplete`);
* `CasesApart`: `Spec => []CasesAreIsolated`;
* `TurnsApart`: `Spec => []TurnsAreOwn`. Tool calls carry no turn; what books them right is
  that an undisturbed collector has one bucket open in the middle of a turn, its own, and
  none between two turns (`OneBucketOpen`), and that nothing is heard of a turn that is over
  (`EntriesAreOver`). One turn that was cut short breaks `OneBucketOpen` for the agent's collector:
  hence `cut = {}` in the property;
* `SpansApart`: `Spec => []SpansAreOwn`. Without overlapping calls the one slot holds the span of
  the request in progress (`SlotIsOwn`), also after a turn that left one open, because
  the next request replaces it. Spans start once because what has one has happened
  or is the request in progress (`SpansHappened`).

Only model-checked: `CallCompletes`, `TasksEnd`, `RequestEnds`, `RequestsEnd`. They are liveness,
which needs fairness and `ENABLED`, outside what the prover handles.

## 5. What the violation runs show

* `loop_torn`: `JsonFileStorage.save` (`neoagent/session.py:140-149`) truncates the file
  and then writes it. A crash in between leaves a file `json.loads` rejects, although
  `docs/guide.md:459` promises resumption from the last completed turn.
* `mcp_buffer`: `_pending` is looked at only before a request is sent
  (`neoagent/mcp/client.py:61`), never in the receive loop. A call waits as the reader's one
  waiter; its answer is fed, which wakes it; before it runs, another call sends its request and, without
  a pause, reads on: it takes the first call's answer off the stream, buffers it and becomes the waiter.
  The first goes on, finds no line and waits on the stream although its answer is in
  `_pending`, against lines 47-49. `OwnAnswer` and `AnswersAccounted` still hold: the answer is not lost,
  nobody takes it. (A second call that comes while the first simply waits raises at once,
  as the reader allows one waiter.)
* `http_crosstalk`: a stream subscribes before it has the lock
  (`neoagent/channels/fastapi_channel.py:311-319`), and handlers take every event:
  it carries the events of other requests, against `docs/guide.md:1267`.

Observed while modelling and not stated as a run, some against a comment and some without
a statement to hold against the code:

* `core/compress.py:210-215`: when `put_many` raises, the batch stays recorded and the
  exception leaves `chat()`; the next trigger records the messages once more
  (`BatchesRecoverable` shows the batch at least remains recoverable).
* `core/compress.py:196`: the comment says members are validated against the messages the
  strategy saw; `_find_orphan_id` accepts every id the session has issued. `BatchesRecoverable`
  holds all the same (`Numbered`).
* `core/compress.py:123`: after three failures the legacy path truncates at every trigger
  without an event, and nothing on that path resets the count.
* `v2/compressed_store.py:30-33`: with an external store, a crash and ids taken again,
  `put_many` keeps the old body under the new message's id. This is `IdsReissued`: `IdsUnique`,
  `FreedIsRecallable` and `NothingVanishesUnannounced` except it, `BatchesRecoverable` does not
  (the id is found, with the lost message's body).
* `agent.py`, `core/loop.py`: the opening message of `run()` carries no turn and is never
  compressed, so that it falls behind the messages that follow it in the log; `ImplementsLog`
  is stated for sessions of chats.
* `multi/task.py:333-340`: a delegate context whose content is neither text nor blocks
  raises before the `try`, against "Returns a TaskResult in all cases" (line 321); the
  task stays listed as active for good (`Leak`).
* `multi/tools/cancel_task.py`: cancelling a task whose asyncio task is done, but whose
  `execute()` has not resumed, reports success and changes nothing.
* `tools/executor.py:160`: a tool that raises skips the post hooks; `hooks.py:65` says
  they fire "including errors".
* `core/loop.py:247-256`: a denied provider call appends no message to the session,
  while `hooks.py:89` says the loop injects one.
* `hooks.py:150`: a handler registered with a lower priority number during a chain shifts
  the list, and the handler in progress is asked a second time; when two are registered, the
  second of them can be asked after handlers that come behind it, against "called in
  ascending priority order" (line 133). `NoHandlerSkipped` states what holds: the
  handlers that were there all along are neither skipped nor overtaken.
* `tools/executor.py:100`, `hooks.py:60, 176`: the event's input is a shallow copy. A handler that changes a nested
  value changes what is executed; the comparison at line 176 then finds no difference, and no second
  check follows, against `hooks.py:46-47` (in-place changes raise) and the comment at
  `tools/executor.py:114-116`.
  `ExecutesWhatWasApproved` states how far the check reaches.
* `tools/executor.py:79` gives `ToolCallEvent` a `MappingProxyType`, which `json.dumps` refuses: in an HTTP stream it
  raises in the generator, and the stream ends through the same `finally` block as when the client
  leaves: in the model this is `Disconnect`.
* `mcp/transport.py:68`: an answer longer than the reader's limit (64 KiB) raises in whoever reads; the
  answer is lost and its rest arrives as a line of its own (`AnswerAtLength`). A caller that is
  cancelled, or raises, clears the reader's waiter even when another coroutine has become that since: the other
  is woken by nothing, not even the end of the stream (`Orphan`, excepted in `RequestEnds`).
* `eval/metrics.py:135-136`: completed turns beyond `max_turns` are dropped with what they recorded.
* `agent.py:533-550, 586`: the subprocess of an add that raised, or that completed during
  `close()`, outlives `close()`, although lines 583-584 promise that it terminates the
  servers.
* `memory/manager.py:98`: only topics that are new to the index are mirrored; the
  provider keeps the first text of a topic that is rewritten, and an upsert that fails is
  not tried again (`lost` in `Memory`).
* `memory/extractor.py:103-106`: an item that is no object raises outside the `try`, before
  the loop has appended the reply: `chat()` fails and the answer is gone.
* `memory/extractor.py:110-114`: an item may be named `MEMORY.md`; it is written over the index. Normally
  the index is made anew afterwards; when a later item of the list is malformed, what the item
  says stays the index. Topics that come into the index this way, or that an earlier process
  left there before its upsert, never reach the provider (`foreign`).
* `agent.py:308-312`: while two chats overlap, turns are counted for the session that
  started last, or for none.
* `v2/strategies/oneshot_memory_review.py:132-143`: without a working memory the fallback
  reads `wm.session_id` of `None`, so that the review of such a session always fails.
* `core/loop.py:433`: what `recall_tool_result` marks as recalled is cleared before the
  next request is built, so the mark (`session.py:38-39`) is without effect unless the
  batch is cut short.
* `core/loop.py:259`: a hook that modifies a request without giving messages makes it go out
  with the unfreed window, against the comment at line 196; the `PreProviderCallEvent`
  (line 243) shows the handlers the list with freed results in either case.
* `v2/stores/in_memory_wm.py:28`: the store keeps the live object, so that every version
  saved earlier reads as the latest, against "append-only semantics" (line 19).
* `core/loop.py:310-312, 320`: the version of the working memory is also raised by a
  compression, and the store gets it before the file is written: after a crash a version can
  be handed out again, for a turn that replaces a lost one (`SnapshotsNameTurns` states that
  no two turns of the conversation share one).
* `core/loop.py:305`: an answer that says `end_turn` and has tool calls all the same is
  appended with the calls unanswered, and the next request is one a provider rejects. The OpenAI
  provider returns such an answer when a stream ends after a call without a reason, because the
  reason defaults to "stop" (`providers/openai.py:154`). `StreamIsAnswer` shows that the calls
  are not executed; `RequestIsWhole`, `SplitIsSound` and `WireIsPaired` state what holds with such answers in
  the window, for the calls that ran, and `CutsAreSendable` that a legacy cut repairs it.
* `integrations/otel.py:111`, `eval/metrics.py:96`: a request that is denied, fails or stops at
  `max_tokens` leaves its span and its turn open; the collector books later tool calls of
  other calls on that turn, and the next request of the tracer replaces the span.
* `core/loop.py:269-270`: the first answer of a turn that stops at `max_tokens` is not in the token
  totals of the session.
* `events.py`: `TextDeltaEvent` is missing from `_ALL_EVENT_TYPES`, so a subscriber to all events
  does not get it.
* `agent.py:542-550`: a server removed and added again raises from the second registration
  of `tool_search`, with everything else done; the caller sees a failed add that worked.

## 6. Abstractions

* Words are numbers; a message keeps what the compressor and providers tell apart. Tools
  run inside `ToolRound`, with one call per round (`MessageLists` has rounds of several).
* The token estimate is a choice: over or under the budget in any state.
* A strategy's delta is its member ids, among those it was shown or one it was not; ids not of the form
  mN, which pass `_find_orphan_id` unchecked, are left out; of the working memory `QueryLoop` has the version and
  the snapshots, not the items, nor that the store may hold the live object.
* A freed result is the content the tool gave; its placeholder is one value. The model calls
  `free_tool_result` and `recall_tool_result` on any results in the window, as the tools allow.
* `ProviderFormat` has the OpenAI format; the Anthropic one keeps messages and blocks one to one
  and adds nothing a property could see.
* `Telemetry` counts answers, not tokens: `usage` and `totals` are the sets of answers that
  were added up. Handlers do not raise.
* Hooks inside the loop are a denial or an exception; a modification changes what is
  sent, not the session.
* The MCP server sends answers and notifications, no requests: `connect()` declares no capability for any.
* asyncio (cancellation, `Semaphore`, `Lock`, `StreamReader`), the MCP server and the
  operating system are modelled from how this code relies on them, and marked external.
* One chat per session at a time, as the API expects. Two sessions on one agent are in
  `Memory`, `ToolCatalog` and `Channel`; `QueryLoop` has one.
* `Memory` has both a provider and a review strategy configured. What topics and reviews
  say is left out, except whether the index can give a topic back.

## 7. Not modelled

* Prompt builder (`core/prompt.py`), file, shell and skill tools, `tools/pathguard.py`, the scans of
  `v2/security`, `observe.py`: text and I/O, without state that outlives a call.
* Prompts and parsing of the OneShot strategies, reviews and the extractor: their results are
  choices of the environment, failures included.
* uvicorn and the HTTP framework, the SDKs of the providers with their retries, subprocess
  creation: external.
* `Session.fork`, `cleanup`/`delete`/`list_ids` of the storage, `WorkerPool`, `multi/parser.py`:
  copies, directory listings and dictionaries.
* The items of the working memory (`update_working_memory`, the delta's operations): edits of
  lists by one coroutine.
* `src/examples`: demonstrations.

## 8. Plan

In order of importance:

1. `QueryLoop` with two sessions on one store, and `fork`.
2. `close()` of the agent against an `add_mcp_server` in progress (`agent.py:586`), which
   `ToolCatalog` models but states nothing about.
3. Composition of `Orchestrator` with the lock of `Channel` and the gather of
   `ToolExecution`, which today appear in it as `Waiting`.
