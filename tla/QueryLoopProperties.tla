-------------------------- MODULE QueryLoopProperties --------------------------
(***************************************************************************)
(* What the turn loop, the compressor and the session file promise.         *)
(***************************************************************************)
EXTENDS QueryLoop

Message == [id : Nat, turn : Int, role : {"user", "assistant"}, str : BOOLEAN,
            text : BOOLEAN, uses : SUBSET Int, results : SUBSET Nat, body : Nat]

SessionRecord(s) ==
  /\ s.messages \in Seq(Message) /\ s.bucket \in Seq(Message)
  /\ {s.msgCounter, s.userTurn, s.since} \subseteq Nat /\ s.failures \in 0..setup.failures
  /\ s.summary \in BOOLEAN
  /\ s.batches \in Seq(SUBSET Nat)
  /\ s.recalled \subseteq DOMAIN s.freed /\ s.version \in Nat

\* The variables range over the states the code's fields can be in, and the file
\* is cut short only while a save runs or after one was interrupted.
TypeOK ==
  /\ SessionRecord(session) /\ disk.file \in {"none", "torn", "whole"} /\ SessionRecord(disk.saved)
  /\ bound \in BOOLEAN /\ store \in Seq(Message)
  /\ snapshots \in Seq([version : Nat, reply : Int])
  /\ pc \in {"idle", "check", "compress", "request", "snapshot", "saving", "finish", "down"}
  /\ entry \in {"chat", "run"} /\ turnIdx \in 0..setup.turns
  /\ next \in {"idle", "check", "finish"}
  /\ outcome.how \in {"none", "nothing", "refused", "moved", "summarized", "truncated"}
  /\ outcome.event \in {"none", "failed", "batch", "done", "fallback", "denied", "max_tokens"}
  /\ calls \in 0..setup.calls /\ bodies \in Nat /\ crashes \in 0..setup.crashes
  /\ pc = "saving" => disk = Torn

-----------------------------------------------------------------------------
(* Requests.                                                               *)

\* Whatever was compressed, aborted, denied or resumed before, a request that goes
\* to the provider holds every tool call that ran with its results right behind it, and
\* no other result (loop.py 375-394 appends both together; compress.py never parts
\* them): what is unanswered in it is what an end_turn answer has left (loop.py 305,
\* 363), and nothing else. With a strategy it holds also the message the user has just
\* sent: no compression inside the same call moves it out of the window (compress.py
\* 167-168).
UserSent(turn) ==
  \E i \in DOMAIN session.messages :
    LET m == session.messages[i] IN m.str /\ m.role = "user" /\ m.turn = turn

RequestIsWhole ==
  pc = "request" =>
    /\ PairsIntact(session.messages)
    /\ entry = "chat" /\ setup.compressor = "strategy" => UserSent(session.userTurn)

\* The bodies a session record accounts for, the oldest first.
LogOf(s) == Bodies(s.bucket \o s.messages)

-----------------------------------------------------------------------------
(* Identity and recoverability.                                            *)

\* A session resumed from its file issues the ids of the turns it has lost once more.
\* Of the lost messages an external store may still hold those that were compressed: it
\* then has other messages under these ids, and takes the new ones for known.
IdsReissued == setup.compressor = "strategy" /\ setup.store = "external" /\ crashes > 0

\* No id stands twice in a list.
Distinct(msgs) ==
  \A i, j \in DOMAIN msgs : i # j /\ msgs[i].id # NoId => msgs[i].id # msgs[j].id

\* An id names one message, across failures, crashes and resumption: no id stands twice
\* in the window or twice in the archive, and where an external store that raised has
\* bodies of messages that are still in the window, they are the same messages
\* (id_gen.py 29-32, agent.py 292-297, recall_turn.py 133-136; "msg_id uniquely
\* identifies a message within a session").
IdsUnique ==
  ~IdsReissued =>
  /\ Distinct(session.messages) /\ Distinct(Archive)
  /\ setup.store = "bucket" => Ids(Archive) \cap Ids(session.messages) = {}
  /\ \A held \in ToSet(Archive), msg \in ToSet(session.messages) :
       held.id = msg.id /\ held.id # NoId => held = msg

\* Every id that a batch offers to the model is found by recall_turn, in the
\* archive or still in the window, also after a store failure between the batch
\* and its bodies (compress.py 210-219, recall_turn.py 113-136).
BatchesRecoverable ==
  \A k \in DOMAIN session.batches : session.batches[k] \subseteq Recallable

\* No message vanishes unannounced: what compression takes out of the window is in
\* the archive under its id, or the loop has sent an event, or the legacy path had
\* reached its failure limit, after which it truncates in silence
\* (compress.py 123-127, 212-219, loop.py 131-158).
NothingVanishesUnannounced ==
  [][pc = "compress" /\ pc' # "down" =>
       \/ ToSet(session.messages) \subseteq ToSet(session'.messages \o Archive')
       \/ setup.compressor = "legacy" /\ outcome'.event \in {"done", "fallback"}
       \/ session.failures = setup.failures
       \/ IdsReissued]_vars

\* A freed result stays recoverable: whatever is compressed, truncated, cut short or
\* resumed, what recall_tool_result returns for it is the content the tool gave, and
\* with a strategy recall_turn finds the same ("The results remain recoverable",
\* free_tool_result.py 27-32, session.py 276-288, 352-361).
FreedIsRecallable ==
  ~IdsReissued =>
  \A call \in DOMAIN session.freed :
    LET all == Archive \o session.messages
    IN  IF call \in ResultsIn(all) THEN session.freed[call] = ResultOf(all, call)
        ELSE setup.compressor = "legacy"     \* only the freed copy is left

\* Two turns of the conversation never go under one version of the working memory:
\* of two snapshots with the same version, one belongs to a turn that was lost
\* (loop.py 313-331 hands the snapshot over before the reply is appended and saved).
Conversation == IF pc = "down" THEN disk.saved ELSE session

SnapshotsNameTurns ==
  LET kept == {i \in DOMAIN snapshots : snapshots[i].reply \in ToSet(LogOf(Conversation))}
  IN  \A i, j \in kept : i # j => snapshots[i].version # snapshots[j].version

\* With a strategy and the bucket store a session of chats is a ConversationLog:
\* compression moves messages between the bucket and the window and is invisible in the
\* log; only a crash takes the log back, and to what the file holds (compress.py 137-221,
\* session.py 95-149). Other configurations map to a log that stays empty; what run()
\* opens a session with has no turn, stays in the window for good and falls behind.
KeepsLog ==
  setup.compressor = "strategy" /\ setup.store = "bucket" /\ setup.entries = {"chat"}

Mapped(x, otherwise) == IF KeepsLog THEN x ELSE otherwise

Log == INSTANCE ConversationLog WITH
  log     <- Mapped(LogOf(session), <<>>),
  durable <- Mapped([whole |-> disk # Torn, log |-> LogOf(disk.saved)], [whole |-> TRUE, log |-> <<>>]),
  alive   <- Mapped(pc # "down", TRUE),
  issued  <- Mapped(bodies, 0)

ImplementsLog == Log!Spec

-----------------------------------------------------------------------------
(* Progress.                                                               *)

\* A call of chat() or run() comes to an end, by an answer, by the turn limit or
\* by an exception, whatever compression and saving do on the way.
CallCompletes == pc \notin {"idle", "down"} ~> pc \in {"idle", "down"}

-----------------------------------------------------------------------------
(* A statement of the documentation that the code does not meet.           *)

\* guide.md 459: after a crash the session can be resumed from its last finished turn.
CrashIsRecoverable == pc = "down" => disk # Torn
=============================================================================
