------------------------------ MODULE QueryLoop -------------------------------
(***************************************************************************)
(* One session driven by one agent: NeoAgent.chat / run (agent.py), the     *)
(* turn loop (core/loop.py), the context compressor in its strategy and     *)
(* legacy forms (core/compress.py), the store of compressed bodies          *)
(* (v2/compressed_store.py), freed and recalled tool results, the versions  *)
(* of the working memory and the JSON session file (session.py), with       *)
(* failures of every awaited call, crashes, and resumption from the file.   *)
(*                                                                         *)
(* The in-memory Session is the record "session"; the file is "disk".      *)
(***************************************************************************)
EXTENDS Messages

CONSTANT Setups   \* the configurations the session may have, with their bounds

ASSUME QueryLoopAssumption ==
  Setups \subseteq
    [compressor : {"strategy", "legacy"},   \* config.compression_strategy set or not
     store      : {"bucket", "external"},   \* InMemoryCompressedMessageStore or another
     bound      : BOOLEAN,    \* new_session() told the bucket store of the session;
                              \* Session.create() and fork() do not
     entries    : SUBSET {"chat", "run"},   \* entry points used
     tools      : SUBSET {"plain", "free", "recall"},  \* tools the model calls
     memory     : BOOLEAN,        \* a working memory and a store for it
     trigger    : Nat \ {0},      \* chats after which compression is due (10)
     failures   : Nat \ {0},      \* ContextCompressor.max_failures (3)
     turns      : Nat \ {0},      \* QueryLoop.max_turns
     calls      : Nat,            \* bound: calls of chat() and run(), over all lives
     crashes    : Nat]            \* bound: crashes of the process

VARIABLES
  setup,     \* how the agent was configured
  session,   \* the Session object in memory
  bound,     \* the in-memory store knows the session (new_session, resume)
  disk,      \* the session file: "none" (never saved), "torn" (truncated and not
             \* yet written again) or "whole", and the record it then holds
  store,     \* bodies held by an external CompressedMessageStore
  snapshots, \* what the WorkingMemoryStore was given: the version, and the reply
             \* that ended the turn once it is in the log
  pc,        \* where the current call stands
  entry,     \* "chat" or "run": the call in progress
  turnIdx,   \* turn_idx of the loop
  next,      \* where a save returns to
  outcome,   \* what compression did in this iteration, and the event it sent
  calls, bodies, crashes   \* counters that bound the model; bodies names contents

vars == <<setup, session, bound, disk, store, snapshots, pc, entry, turnIdx, next, outcome,
          calls, bodies, crashes>>

\* freed maps the tool results the model has collapsed to their original contents;
\* recalled is not in the file; version is that of the working memory.
NewSession ==
  [messages |-> <<>>,   msgCounter |-> 0, userTurn |-> 0, since |-> 0,
   failures |-> 0,      summary |-> FALSE, batches |-> <<>>, bucket |-> <<>>,
   freed |-> <<>>,      recalled |-> {},   version |-> 0]

NoFile == [file |-> "none", saved |-> NewSession]
Torn == [file |-> "torn", saved |-> NewSession]

NoOutcome == [how |-> "none", event |-> "none"]
NoReply == -1

Init ==
  /\ setup \in Setups
  /\ session = NewSession /\ bound = setup.bound
  /\ disk = NoFile /\ store = <<>> /\ snapshots = <<>>
  /\ pc = "idle" /\ entry = "chat" /\ turnIdx = 0 /\ next = "idle"
  /\ outcome = NoOutcome
  /\ calls = 0 /\ bodies = 0 /\ crashes = 0

\* The turn stamped on the messages of the running loop.
MsgTurn == IF entry = "chat" THEN session.userTurn ELSE turnIdx

\* The tool results of a list of messages, and the content of one of them.
ResultsIn(msgs) == UNION {msgs[i].results : i \in DOMAIN msgs}
ResultOf(msgs, call) == msgs[CHOOSE i \in DOMAIN msgs : call \in msgs[i].results].body

\* The bodies that compression moved out of the live window.
Archive == IF setup.store = "external" THEN store ELSE session.bucket

\* The ids recall_turn can return a message for: those of the archive and of the
\* live window, which wins where both have one.
Recallable == Ids(Archive) \cup Ids(session.messages)

-----------------------------------------------------------------------------
(* Entry points.                                                           *)

\* chat(): the turn and message counters advance, the user message is appended.
ChatStart ==
  /\ pc = "idle" /\ "chat" \in setup.entries /\ calls < setup.calls
  /\ session' = [session EXCEPT
       !.userTurn = @ + 1, !.msgCounter = @ + 1,
       !.messages = Append(@, UserInput(session.msgCounter + 1, session.userTurn + 1, bodies + 1))]
  /\ pc' = "check" /\ entry' = "chat" /\ turnIdx' = 0
  /\ calls' = calls + 1 /\ bodies' = bodies + 1
  /\ UNCHANGED <<setup, bound, disk, store, snapshots, next, outcome, crashes>>

\* run(): only on a session without messages; the caller's messages carry neither
\* id nor turn.
RunStart ==
  /\ pc = "idle" /\ "run" \in setup.entries /\ calls < setup.calls /\ session.messages = <<>>
  /\ session' = [session EXCEPT !.messages = <<UserInput(NoId, NoTurn, bodies + 1)>>]
  /\ pc' = "check" /\ entry' = "run" /\ turnIdx' = 0
  /\ calls' = calls + 1 /\ bodies' = bodies + 1
  /\ UNCHANGED <<setup, bound, disk, store, snapshots, next, outcome, crashes>>

-----------------------------------------------------------------------------
(* Compression, at the head of every iteration of the loop.                *)

\* The token estimate is over 70% of the budget in any state the data may make so.
CheckCompress ==
  /\ pc = "check"
  /\ outcome' = NoOutcome
  /\ pc' \in {"compress"} \cup (IF session.since >= setup.trigger THEN {} ELSE {"request"})
  /\ UNCHANGED <<setup, session, bound, disk, store, snapshots, entry, turnIdx, next, calls, bodies, crashes>>

\* Compression returns to the loop with the session record s.
Compressed(s, how, event) ==
  /\ session' = s /\ outcome' = [how |-> how, event |-> event]
  /\ pc' = "request"
  /\ UNCHANGED <<setup, bound, disk, snapshots, entry, turnIdx, next, calls, bodies, crashes>>

\* Fewer user turns than are kept: the trigger is reset, nothing is sent.
NothingToCompress ==
  /\ pc = "compress" /\ setup.compressor = "strategy"
  /\ Split(session.messages).compress = <<>>
  /\ Compressed([session EXCEPT !.since = 0], "nothing", "none")
  /\ UNCHANGED store

\* The member ids a strategy may return for the messages it was shown: some of them,
\* or an id it was not shown, of the newest message or of none yet. (Ids not of the
\* form mN, which pass unchecked, are left out.)
MemberChoices(shown) ==
  {shown, {}} \cup {shown \ {i} : i \in shown}
    \cup {{session.msgCounter}, {session.msgCounter + 1}}

\* _find_orphan_id: any id the session has issued passes, once it has issued one.
Orphan(members) ==
  session.msgCounter > 0 /\ \E i \in members : i > session.msgCounter

\* Bug variant: a refused compression is tried again at once.
StrategyRefusedRetries ==
  /\ pc = "compress" /\ setup.compressor = "strategy"
  /\ Split(session.messages).compress # <<>>
  /\ pc' = "check"
  /\ UNCHANGED <<setup, session, bound, disk, store, snapshots, entry, turnIdx, next, outcome, calls, bodies, crashes>>

\* CompressionError or an orphan id: the circuit breaks, nothing changes.
StrategyRefused ==
  /\ pc = "compress" /\ setup.compressor = "strategy"
  /\ Split(session.messages).compress # <<>>
  /\ Compressed(session, "refused", "failed")
  /\ UNCHANGED store

\* Bug variant: no body is stored.
PutManyNone(held, new) == held

\* Bodies are added in order; a body whose id is already there is skipped.
PutMany(held, new) ==
  held \o Among(new, {i \in DOMAIN new : new[i].id = NoId \/ new[i].id \notin Ids(held)})

\* The next version of the working memory, if there is one.
Bump(version) == IF setup.memory THEN version + 1 ELSE version

\* _apply_delta: the batch is recorded, and the working memory gets a version that
\* its store never sees, before the bodies are moved.
WithBatch(s, members) ==
  [s EXCEPT !.batches = Append(@, members), !.version = Bump(@)]

\* A delta is applied: batch recorded, bodies moved, window trimmed, trigger reset.
StrategyApplied ==
  LET split == Split(session.messages) IN
  /\ pc = "compress" /\ setup.compressor = "strategy" /\ split.compress # <<>>
  /\ setup.store = "bucket" => bound
  /\ \E members \in MemberChoices(Ids(split.compress)) :
       /\ ~Orphan(members)
       /\ Compressed([WithBatch(session, members) EXCEPT
                        !.messages = split.keep,
                        !.bucket = IF setup.store = "bucket" THEN PutMany(@, split.compress) ELSE @,
                        !.since = 0],
                     "moved", "batch")
  /\ store' = IF setup.store = "external" THEN PutMany(store, split.compress) ELSE store

\* Bug variant: the window is trimmed before the bodies are safe.
StrategyStoreFailsTrimmed ==
  LET split == Split(session.messages) IN
  /\ pc = "compress" /\ setup.compressor = "strategy" /\ split.compress # <<>>
  /\ ~(setup.store = "bucket" /\ bound)
  /\ \E members \in MemberChoices(Ids(split.compress)) :
       ~Orphan(members) /\ session' = [WithBatch(session, members) EXCEPT !.messages = split.keep]
  /\ pc' = "idle"
  /\ UNCHANGED <<setup, bound, disk, store, snapshots, entry, turnIdx, next, outcome, calls, bodies, crashes>>

\* put_many raises (unbound session, remote failure) after the batch is recorded:
\* the exception leaves chat() with the window untouched. An external store may hold
\* some or all of the bodies by then.
StrategyStoreFails ==
  LET split == Split(session.messages) IN
  /\ pc = "compress" /\ setup.compressor = "strategy" /\ split.compress # <<>>
  /\ ~(setup.store = "bucket" /\ bound)
  /\ \E members \in MemberChoices(Ids(split.compress)) :
       ~Orphan(members) /\ session' = WithBatch(session, members)
  /\ \/ UNCHANGED store
     \/ /\ setup.store = "external"
        /\ \E kept \in SUBSET DOMAIN split.compress :
             store' = PutMany(store, Among(split.compress, kept))
  /\ pc' = "idle"
  /\ UNCHANGED <<setup, bound, disk, snapshots, entry, turnIdx, next, outcome, calls, bodies, crashes>>

\* The legacy path leaves one message alone. After max_failures failures it only
\* truncates; otherwise it asks the provider for a summary. The loop announces a
\* fallback when the failure count has grown, and a finished compression
\* whenever a summary is at hand.
LegacyEvent(s) ==
  IF s.failures > session.failures THEN "fallback"
  ELSE IF s.summary THEN "done" ELSE "none"

CompressLegacy ==
  LET msgs == session.messages
      asked == Len(msgs) >= 3       \* shorter lists are returned as they are
      done == [session EXCEPT !.messages = Summarize(msgs), !.failures = 0,
                              !.summary = @ \/ asked]
      cut == [session EXCEPT !.messages = TruncateOldest(msgs)]
      failed == [cut EXCEPT !.failures = @ + 1]
  IN
  /\ pc = "compress" /\ setup.compressor = "legacy"
  /\ IF Len(msgs) <= 1 THEN Compressed(session, "nothing", LegacyEvent(session))
     ELSE IF session.failures >= setup.failures
     THEN Compressed(cut, "truncated", LegacyEvent(cut))
     ELSE \/ Compressed(done, IF asked THEN "summarized" ELSE "nothing", LegacyEvent(done))
          \/ asked /\ Compressed(failed, "truncated", LegacyEvent(failed))
  /\ UNCHANGED store

-----------------------------------------------------------------------------
(* The provider call and what follows it.                                  *)

\* save_if_storage and save: the file is truncated, then written.
SaveThen(where) == disk' = Torn /\ pc' = "saving" /\ next' = where

\* A pre_provider_call hook denies the call, or the answer is cut at max_tokens
\* twice: the call completes, and no message is appended.
Unanswered ==
  /\ pc = "request"
  /\ pc' = "finish"
  /\ outcome' \in {[outcome EXCEPT !.event = "denied"], [outcome EXCEPT !.event = "max_tokens"]}
  /\ UNCHANGED <<setup, session, bound, disk, store, snapshots, entry, turnIdx, next, calls, bodies, crashes>>

\* Bug variant: the snapshot keeps the version of the one before.
SnapshotUnversioned ==
  /\ pc = "request" /\ setup.memory
  /\ snapshots' = Append(snapshots, [version |-> session.version, reply |-> NoReply])
  /\ pc' = "snapshot"
  /\ UNCHANGED <<setup, session, bound, disk, store, entry, turnIdx, next, outcome, calls, bodies, crashes>>

\* end_turn with a working memory: it gets the next version and goes to its store,
\* before the extraction of memories, which may raise, and the reply.
Snapshot ==
  /\ pc = "request" /\ setup.memory
  /\ session' = [session EXCEPT !.version = Bump(@)]
  /\ \/ /\ snapshots' = Append(snapshots, [version |-> session'.version, reply |-> NoReply])
        /\ pc' = "snapshot"
     \/ UNCHANGED snapshots /\ pc' = "idle"       \* the store raises
  /\ UNCHANGED <<setup, bound, disk, store, entry, turnIdx, next, outcome, calls, bodies, crashes>>

\* end_turn: the reply is stamped and appended as it came, with the calls it may hold,
\* which are neither run nor answered; the turn is saved.
EndTurn ==
  /\ pc = (IF setup.memory THEN "snapshot" ELSE "request")
  /\ \E text \in BOOLEAN, left \in {{}, {-(bodies + 1)}} :
       session' = [session EXCEPT !.msgCounter = @ + 1, !.recalled = {},
         !.messages = Append(@, Reply(session.msgCounter + 1, MsgTurn, text, left, bodies + 1))]
  /\ bodies' = bodies + 1
  /\ snapshots' = IF setup.memory
                  THEN [snapshots EXCEPT ![Len(snapshots)].reply = bodies + 1]
                  ELSE snapshots
  /\ SaveThen("finish")
  /\ UNCHANGED <<setup, bound, store, entry, turnIdx, outcome, calls, crashes>>

\* The freed results with the content of one more call.
Noting(freed, call, body) ==
  [c \in DOMAIN freed \cup {call} |-> IF c = call THEN body ELSE freed[c]]

\* Bug variant: what was freed is noted with what the model sees now.
FreeAnew(s, call) ==
  [s EXCEPT !.freed = Noting(@, call, IF call \in DOMAIN @ THEN Synthetic ELSE ResultOf(s.messages, call))]

\* free_tool_result: the original content is kept; the window is not changed. A
\* result that is freed already, or not in the window, is left alone.
Free(s, call) ==
  IF call \in DOMAIN s.freed THEN s
  ELSE [s EXCEPT !.freed = Noting(@, call, ResultOf(s.messages, call))]

\* recall_tool_result: the mark lives until the batch it belongs to is recorded.
Recall(s, call) == [s EXCEPT !.recalled = @ \cup {call}]

\* What the tools of one batch make of the session record.
ToolEffects ==
  {session : t \in setup.tools \cap {"plain"}}
  \cup (IF "free" \in setup.tools
        THEN {Free(session, c) : c \in ResultsIn(session.messages)} ELSE {})
  \cup (IF "recall" \in setup.tools
        THEN {Recall(session, c) : c \in DOMAIN session.freed} ELSE {})

\* A tool request s answered in full: both messages are appended together, and what
\* was recalled is collapsed again.
WithRound(s) ==
  LET id == s.msgCounter + 1
      call == {bodies + 1}
  IN  [s EXCEPT !.msgCounter = @ + 2, !.recalled = {},
         !.messages = @ \o <<Reply(id, MsgTurn, FALSE, call, bodies + 1),
                             ToolResults(id + 1, MsgTurn, call, bodies + 2)>>]

\* Bug variant: the turn limit is not looked at after a tool round.
ToolRoundUnlimited ==
  /\ pc = "request"
  /\ \E s \in ToolEffects : session' = WithRound(s)
  /\ bodies' = bodies + 2 /\ turnIdx' = turnIdx + 1
  /\ SaveThen("check")
  /\ UNCHANGED <<setup, bound, store, snapshots, entry, outcome, calls, crashes>>

\* tool_use: the tools run, then the request and its results are appended
\* together and the turn is saved.
ToolRound ==
  /\ pc = "request"
  /\ \E s \in ToolEffects : session' = WithRound(s)
  /\ bodies' = bodies + 2 /\ turnIdx' = turnIdx + 1
  /\ SaveThen(IF turnIdx + 1 < setup.turns THEN "check" ELSE "finish")
  /\ UNCHANGED <<setup, bound, store, snapshots, entry, outcome, calls, crashes>>

\* The call is cancelled while a batch runs: what its tools did to the session
\* stays, the batch is not recorded.
CutBatch ==
  /\ pc = "request"
  /\ session' \in ToolEffects \ {session}
  /\ pc' = "idle"
  /\ UNCHANGED <<setup, bound, disk, store, snapshots, entry, turnIdx, next, outcome, calls, bodies, crashes>>

\* The written file holds the whole record, but not what is recalled.
SaveWritten ==
  /\ pc = "saving" /\ disk' = [file |-> "whole", saved |-> [session EXCEPT !.recalled = {}]] /\ pc' = next
  /\ UNCHANGED <<setup, session, bound, store, snapshots, entry, turnIdx, next, outcome, calls, bodies, crashes>>

\* A write error leaves the call, and the file as the truncation left it.
SaveFails ==
  /\ pc = "saving" /\ pc' = "idle"
  /\ UNCHANGED <<setup, session, bound, disk, store, snapshots, entry, turnIdx, next, outcome, calls, bodies, crashes>>

\* The tail of chat() and run(): chat counts itself, both save once more.
Finish ==
  /\ pc = "finish"
  /\ session' = [session EXCEPT !.since = IF entry = "chat" THEN @ + 1 ELSE @]
  /\ SaveThen("idle")
  /\ UNCHANGED <<setup, bound, store, snapshots, entry, turnIdx, outcome, calls, bodies, crashes>>

\* An awaited call raises or is cancelled (strategy, hook, provider, tools,
\* extraction): the exception leaves chat(), and what the loop has appended stays.
Abort ==
  /\ pc \in {"compress", "request", "snapshot"} /\ pc' = "idle"
  /\ UNCHANGED <<setup, session, bound, disk, store, snapshots, entry, turnIdx, next, outcome, calls, bodies, crashes>>

-----------------------------------------------------------------------------
(* Crash and resumption.                                                   *)

\* The process dies; what was in memory is gone.
Crash ==
  /\ pc # "down" /\ crashes < setup.crashes
  /\ session' = NewSession /\ pc' = "down" /\ crashes' = crashes + 1
  /\ outcome' = NoOutcome
  /\ UNCHANGED <<setup, bound, disk, store, snapshots, entry, turnIdx, next, calls, bodies>>

\* Bug variant: the id counters are not restored.
ResumeResetsIds ==
  /\ pc = "down" /\ disk # Torn
  /\ session' = [disk.saved EXCEPT !.msgCounter = 0]
  /\ bound' = TRUE /\ pc' = "idle"
  /\ UNCHANGED <<setup, disk, store, snapshots, entry, turnIdx, next, outcome, calls, bodies, crashes>>

\* resume(): json.loads of a torn file raises; a session never saved is unknown
\* and is created anew. Both ways the store is bound.
Resume ==
  /\ pc = "down" /\ disk # Torn
  /\ session' = disk.saved
  /\ bound' = TRUE /\ pc' = "idle"
  /\ UNCHANGED <<setup, disk, store, snapshots, entry, turnIdx, next, outcome, calls, bodies, crashes>>

Loop ==
  \/ Abort \/ CheckCompress \/ StrategyRefused \/ NothingToCompress \/ StrategyApplied
  \/ StrategyStoreFails \/ CompressLegacy
  \/ Unanswered \/ Snapshot \/ EndTurn \/ ToolRound \/ CutBatch \/ SaveWritten \/ SaveFails \/ Finish

Next == ChatStart \/ RunStart \/ Loop \/ Crash \/ Resume

Spec == Init /\ [][Next]_vars

\* The event loop runs a coroutine that can step, and every awaited call returns
\* or raises (the provider clients have timeouts).
FairSpec == Spec /\ WF_vars(Loop)
=============================================================================
