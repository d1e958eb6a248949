-------------------------------- MODULE Memory ---------------------------------
(***************************************************************************)
(* Long-term memory of one agent with enable_memory(): the extraction that    *)
(* MemoryManager runs at the end of a turn, the topic files and their index,   *)
(* the MemoryProvider they are mirrored to, and the memory review that the     *)
(* NudgeCounter of a session starts. Sessions chat on the agent concurrently   *)
(* and share the files, the provider and the agent's one _current_session.     *)
(*                                                                         *)
(* What a topic says is left out. Whether its first line can be read back      *)
(* from the index is kept: "[" and "]" or a heading without words cannot. The    *)
(* name MEMORY.md, that of the index, is one an extraction may return.           *)
(***************************************************************************)
EXTENDS Integers, FiniteSets

CONSTANTS Session,          \* sessions that use the agent, one chat each at a time
          Topic,            \* file names an extraction may return
          ToolThreshold,    \* _TOOL_CALLS_THRESHOLD (5)
          NudgeThreshold,   \* NudgeCounter.threshold (10)
          MaxTurns          \* bound: iterations of the loop over all chats

None == "none"

ASSUME MemoryAssumption ==
  /\ {ToolThreshold, NudgeThreshold} \subseteq Nat \ {0} /\ MaxTurns \in Nat
  /\ None \notin Session

VARIABLES
  pc,         \* where the chat of a session stands: idle, loop, extract, upsert
  current,    \* NeoAgent._current_session
  toolCalls,  \* SessionState.memory_tool_calls
  nudge,      \* SessionState.nudge_counter
  asking,     \* review tasks of a session that wait for the review
  storing,    \* review tasks of a session that hand their entries to the provider
  before,     \* topics_before of the extraction in progress
  entries,    \* topics on their way to the provider
  titled,     \* topic files whose first line the index can give back
  index,      \* topics list_topics() finds in MEMORY.md
  mirrored,   \* topics the MemoryProvider holds
  turns, overlapped, lost, foreign
              \* history: turns completed per session; two chats were in progress at
              \* once; topics of a failed upsert; topics that came into the index
              \* from an earlier process or from an item named MEMORY.md

session == <<pc, current, toolCalls, nudge, asking, storing, before, entries>>
topics == <<titled, index, mirrored>>
history == <<turns, overlapped, lost, foreign>>
vars == <<session, topics, history>>

\* The directory and the provider outlive the process: they hold what earlier ones
\* left, also those that died between a file, the index and the upsert.
Init ==
  /\ pc = [s \in Session |-> "idle"] /\ current = None
  /\ toolCalls = [s \in Session |-> 0] /\ nudge = [s \in Session |-> 0]
  /\ asking = [s \in Session |-> 0] /\ storing = [s \in Session |-> 0]
  /\ before = [s \in Session |-> {}] /\ entries = [s \in Session |-> {}]
  /\ titled \in SUBSET Topic /\ index \in SUBSET Topic /\ mirrored \in SUBSET Topic
  /\ foreign = index \ mirrored
  /\ turns = [s \in Session |-> 0] /\ overlapped = FALSE /\ lost = {}

Busy(s) == pc[s] # "idle"

-----------------------------------------------------------------------------
(* Chats.                                                                  *)

\* chat() or run(): the session becomes the agent's current one.
ChatStart(s) ==
  /\ ~Busy(s)
  /\ pc' = [pc EXCEPT ![s] = "loop"] /\ current' = s
  /\ overlapped' = (overlapped \/ \E o \in Session : Busy(o))
  /\ UNCHANGED <<toolCalls, nudge, asking, storing, before, entries, topics, turns, lost, foreign>>

\* should_trigger_review, for a count that has just been raised.
ReviewDue(count) == count % NudgeThreshold = 0

\* TurnCompleteEvent, after a tool round and after the last answer: the handler
\* ticks whatever session is current, and starts a review at every multiple of
\* the threshold.
Complete(s) ==
  /\ IF current = None THEN UNCHANGED <<nudge, asking>>
     ELSE /\ nudge' = [nudge EXCEPT ![current] = @ + 1]
          /\ asking' = IF ReviewDue(nudge[current] + 1)
                       THEN [asking EXCEPT ![current] = @ + 1] ELSE asking
  /\ turns' = [turns EXCEPT ![s] = @ + 1]
  /\ UNCHANGED storing

\* Bug variant: a chat that fails leaves the slot as it is.
LeaveKeeping(s) ==
  /\ pc' = [pc EXCEPT ![s] = "idle"]
  /\ before' = [before EXCEPT ![s] = {}] /\ entries' = [entries EXCEPT ![s] = {}]
  /\ UNCHANGED current

\* The chat ends, by its answer or by an exception: the finally clause empties
\* the slot, whichever session is in it.
Leave(s) ==
  /\ pc' = [pc EXCEPT ![s] = "idle"] /\ current' = None
  /\ before' = [before EXCEPT ![s] = {}] /\ entries' = [entries EXCEPT ![s] = {}]

\* A tool round; its calls are counted for the extraction before it completes.
ToolRound(s) ==
  /\ pc[s] = "loop" /\ turns[s] < MaxTurns
  /\ toolCalls' = [toolCalls EXCEPT ![s] = @ + 1]
  /\ Complete(s)
  /\ UNCHANGED <<pc, current, before, entries, topics, overlapped, lost, foreign>>

\* Bug variant: the snapshot is of the files and not of the index.
TopicsKnownOnDisk == titled

\* topics_before: what list_topics() reads from the index.
TopicsKnown == index

\* _should_extract: enough tool calls were made, or (grown) enough tokens added.
ShouldExtract(s, grown) == toolCalls[s] >= ToolThreshold \/ grown

\* end_turn: the turn completes, the known topics are noted, and the provider is
\* asked what to remember if enough has happened since the last time.
EndTurn(s) ==
  /\ pc[s] = "loop" /\ turns[s] < MaxTurns
  /\ Complete(s)
  /\ \E grown \in BOOLEAN :
       IF ShouldExtract(s, grown)
       THEN /\ pc' = [pc EXCEPT ![s] = "extract"]
            /\ before' = [before EXCEPT ![s] = TopicsKnown]
            /\ UNCHANGED <<current, entries>>
       ELSE Leave(s)
  /\ UNCHANGED <<toolCalls, topics, overlapped, lost, foreign>>

-----------------------------------------------------------------------------
(* Extraction.                                                             *)

\* write_topic for every item with a usable name, description and content: the
\* topics W are written anew, those in T with a first line the index can hold. An
\* item named MEMORY.md is written to the index.
WriteTopics(W, T) ==
  titled' = (titled \ W) \cup T

\* The call fails, the answer is no JSON list, or no item is usable.
ExtractNothing(s) ==
  /\ pc[s] = "extract" /\ Leave(s)
  /\ UNCHANGED <<toolCalls, nudge, asking, storing, topics, history>>

\* Items are stored: the index is made anew from all files, whatever an item named
\* MEMORY.md, which may be the only one, has written to it; the tool calls count from
\* zero, and topics that were not known before go to the provider.
ExtractStored(s) ==
  /\ pc[s] = "extract"
  /\ \E W \in SUBSET Topic : \E T \in SUBSET W : WriteTopics(W, T)
  /\ index' = titled'
  /\ toolCalls' = [toolCalls EXCEPT ![s] = 0]
  /\ IF index' \subseteq before[s] THEN Leave(s)
     ELSE /\ pc' = [pc EXCEPT ![s] = "upsert"]
          /\ entries' = [entries EXCEPT ![s] = index' \ before[s]]
          /\ UNCHANGED <<current, before>>
  /\ UNCHANGED <<nudge, asking, storing, mirrored, history>>

\* An item that is no object, or a field that is no string, raises in the middle
\* of the list: some topics are written, the index is what it was or what an item named
\* MEMORY.md says, and the chat fails.
ExtractMalformed(s) ==
  /\ pc[s] = "extract"
  /\ \E W \in SUBSET Topic : \E T \in SUBSET W : WriteTopics(W, T)
  /\ \/ UNCHANGED <<index, foreign>>
     \/ index' \in SUBSET Topic /\ foreign' = foreign \cup index'
  /\ Leave(s)
  /\ UNCHANGED <<toolCalls, nudge, asking, storing, mirrored, turns, overlapped, lost>>

\* The provider took the entries, and the chat goes on to its end.
Upserted(s) ==
  /\ pc[s] = "upsert"
  /\ mirrored' = mirrored \cup entries[s]
  /\ Leave(s)
  /\ UNCHANGED <<toolCalls, nudge, asking, storing, titled, index, history>>

\* The upsert raises or its caller is cancelled; the provider may have taken a part.
UpsertFails(s) ==
  /\ pc[s] = "upsert"
  /\ \E part \in SUBSET entries[s] : mirrored' = mirrored \cup part
  /\ lost' = lost \cup entries[s]
  /\ Leave(s)
  /\ UNCHANGED <<toolCalls, nudge, asking, storing, titled, index, turns, overlapped, foreign>>

\* The provider, a tool or a hook raises, the caller is cancelled, the call is denied
\* or its answer cut short, or the iterations are used up: no turn is completed.
Abort(s) ==
  /\ pc[s] \in {"loop", "extract"} /\ Leave(s)
  /\ UNCHANGED <<toolCalls, nudge, asking, storing, topics, history>>

-----------------------------------------------------------------------------
(* Reviews.                                                                *)

\* The strategy has found entries, or none: after its retries it gives up with an
\* empty list, and a failure is logged.
ReviewAnswers(s) ==
  /\ asking[s] > 0 /\ asking' = [asking EXCEPT ![s] = @ - 1]
  /\ storing' \in {storing, [storing EXCEPT ![s] = @ + 1]}
  /\ UNCHANGED <<pc, current, toolCalls, nudge, before, entries, topics, history>>

\* The entries are stored, or the failure is logged. They have ids of their own and
\* are no topics.
ReviewStored(s) ==
  /\ storing[s] > 0 /\ storing' = [storing EXCEPT ![s] = @ - 1]
  /\ UNCHANGED <<pc, current, toolCalls, nudge, asking, before, entries, topics, history>>

Next ==
  \E s \in Session :
    \/ ChatStart(s) \/ ToolRound(s) \/ EndTurn(s)
    \/ ExtractNothing(s) \/ ExtractStored(s) \/ ExtractMalformed(s)
    \/ Upserted(s) \/ UpsertFails(s) \/ Abort(s)
    \/ ReviewAnswers(s) \/ ReviewStored(s)

Spec == Init /\ [][Next]_vars

-----------------------------------------------------------------------------
(* Properties.                                                             *)

\* Every topic that extractions of this process put in the index is also held by the
\* provider, or on its way there, or belonged to an upsert that failed, although two chats
\* take their snapshots at different moments, a malformed answer leaves files without an
\* index or an index without files, and earlier processes left either; topics that came
\* into the index from there are known before every extraction and never sent
\* (manager.py 55-57: "extracted items are also persisted via provider.upsert()").
IndexedIsMirrored ==
  index \subseteq mirrored \cup lost \cup foreign \cup UNION {entries[s] : s \in Session}

\* A tick, and with it a review, goes to a session whose chat is in progress; and as
\* long as no two chats overlapped, to the one that completed the turn, so that a
\* session has exactly one tick per turn (nudge.py 15; agent.py 155-156).
TicksAreOwn ==
  /\ current # None => Busy(current)
  /\ ~overlapped => nudge = turns
=============================================================================
