----------------------------- MODULE Memory_proofs -----------------------------
(***************************************************************************)
(* The mirror keeps up with the index, and the ticks of the nudge counters with  *)
(* the turns of their sessions, for any sessions and any topics.             *)
(***************************************************************************)
EXTENDS Memory, TLAPS

\* Topics the provider holds, is about to get, or was refused, or that are not of this
\* process's extractions.
Covered == mirrored \cup lost \cup foreign \cup UNION {entries[s] : s \in Session}

Types ==
  /\ pc \in [Session -> {"idle", "loop", "extract", "upsert"}]
  /\ before \in [Session -> SUBSET Topic] /\ entries \in [Session -> SUBSET Topic]
  /\ titled \subseteq Topic /\ index \subseteq Topic

\* Only an upsert in progress has entries, so that no other step drops any.
EntriesInUse == \A s \in Session : pc[s] # "upsert" => entries[s] = {}

\* A snapshot holds nothing that is not covered already: what an extraction does
\* not send on, because it knew it before, another one has sent or is sending.
SnapshotsCovered == \A s \in Session : before[s] \subseteq Covered

IInv == Types /\ EntriesInUse /\ SnapshotsCovered /\ index \subseteq Covered

-----------------------------------------------------------------------------
\* Covered topics stay covered while the sets they are in only move forward: what
\* leaves the entries of s has to arrive with the provider or among the lost.
LEMMA CoveredGrows ==
  ASSUME NEW s \in Session, Types,
         mirrored \subseteq mirrored', lost \subseteq lost', foreign \subseteq foreign',
         entries' \in [Session -> SUBSET Topic],
         \A o \in Session \ {s} : entries'[o] = entries[o],
         entries[s] \subseteq mirrored' \cup lost' \cup entries'[s]
  PROVE  Covered \subseteq Covered'
BY DEF Covered, Types

\* What the index holds at the start is with the provider or foreign.
LEMMA InitIInv == Init => IInv
BY DEF Init, IInv, Types, EntriesInUse, SnapshotsCovered, Covered

\* Leaving without an upsert in progress drops nothing.
LEMMA LeaveKeepsCovered ==
  ASSUME NEW s \in Session, IInv, pc[s] # "upsert", Leave(s), titled' \subseteq Topic,
         UNCHANGED <<index, mirrored, lost, foreign>>
  PROVE  IInv'
<1>1. Types' /\ EntriesInUse'
  BY DEF IInv, Types, EntriesInUse, Leave
<1>2. Covered \subseteq Covered'
  BY CoveredGrows DEF IInv, Types, EntriesInUse, Leave
<1>3. SnapshotsCovered'
  BY <1>2 DEF IInv, Types, SnapshotsCovered, Leave
<1> QED
  BY <1>1, <1>2, <1>3 DEF IInv

\* Steps that change neither topics nor sessions' snapshots and entries.
LEMMA StillCovered ==
  ASSUME IInv, Types', UNCHANGED <<before, entries, index, mirrored, lost, foreign>>,
         \A s \in Session : pc'[s] = "upsert" <=> pc[s] = "upsert"
  PROVE  IInv'
BY DEF IInv, EntriesInUse, SnapshotsCovered, Covered

\* Every step keeps the invariant.
LEMMA NextIInv == IInv /\ [Next]_vars => IInv'
<1> SUFFICES ASSUME IInv, [Next]_vars PROVE IInv'
  OBVIOUS
<1>1. CASE UNCHANGED vars
  BY <1>1, StillCovered DEF vars, session, topics, history, IInv, Types
<1>2. ASSUME NEW s \in Session, ChatStart(s) PROVE IInv'
  BY <1>2, StillCovered DEF ChatStart, Busy, topics, IInv, Types
<1>3. ASSUME NEW s \in Session, ToolRound(s) PROVE IInv'
  BY <1>3, StillCovered DEF ToolRound, topics, IInv, Types
<1>4. ASSUME NEW s \in Session, EndTurn(s) PROVE IInv'
  <2>1. pc[s] = "loop" /\ UNCHANGED <<titled, index, mirrored, lost, foreign>>
    BY <1>4 DEF EndTurn, topics
  <2>2. CASE Leave(s)
    BY <2>1, <2>2, LeaveKeepsCovered DEF IInv, Types
  <2>3. CASE /\ pc' = [pc EXCEPT ![s] = "extract"]
             /\ before' = [before EXCEPT ![s] = TopicsKnown]
             /\ UNCHANGED <<current, entries>>
    <3>1. Covered' = Covered
      BY <2>1, <2>3 DEF Covered
    <3> QED
      BY <2>1, <2>3, <3>1 DEF IInv, Types, EntriesInUse, SnapshotsCovered, TopicsKnown
  <2> QED
    BY <1>4, <2>2, <2>3 DEF EndTurn
<1>5. ASSUME NEW s \in Session, ExtractNothing(s) PROVE IInv'
  BY <1>5, LeaveKeepsCovered DEF ExtractNothing, topics, history, IInv, Types
<1>6. ASSUME NEW s \in Session, ExtractStored(s) PROVE IInv'
  <2>1. pc[s] = "extract" /\ entries[s] = {} /\ UNCHANGED <<mirrored, lost, foreign>>
    BY <1>6 DEF ExtractStored, history, IInv, EntriesInUse
  <2>2. titled' \subseteq Topic /\ index' = titled'
    BY <1>6 DEF ExtractStored, WriteTopics, IInv, Types
  <2>3. CASE index' \subseteq before[s] /\ Leave(s)
    <3>1. Types' /\ EntriesInUse'
      BY <2>2, <2>3 DEF IInv, Types, EntriesInUse, Leave
    <3>2. Covered \subseteq Covered'
      BY <2>1, <2>3, CoveredGrows DEF IInv, Types, Leave
    <3>3. SnapshotsCovered' /\ index' \subseteq Covered'
      BY <2>3, <3>2 DEF IInv, Types, SnapshotsCovered, Leave
    <3> QED
      BY <3>1, <3>3 DEF IInv
  <2>4. CASE /\ pc' = [pc EXCEPT ![s] = "upsert"]
             /\ entries' = [entries EXCEPT ![s] = index' \ before[s]]
             /\ UNCHANGED <<current, before>>
    <3>1. Types' /\ EntriesInUse'
      BY <2>2, <2>4 DEF IInv, Types, EntriesInUse
    <3>2. Covered \subseteq Covered'
      BY <2>1, <2>2, <2>4, <3>1, CoveredGrows DEF IInv, Types
    <3>3. entries'[s] = index' \ before[s]
      BY <2>4 DEF IInv, Types
    <3>4. SnapshotsCovered'
      BY <2>4, <3>2 DEF IInv, SnapshotsCovered
    <3>5. index' \subseteq Covered'
      <4>1. entries'[s] \subseteq Covered'
        BY DEF Covered
      <4>2. before[s] \subseteq Covered'
        BY <3>2 DEF IInv, SnapshotsCovered
      <4> QED
        BY <3>3, <4>1, <4>2
    <3> QED
      BY <3>1, <3>4, <3>5 DEF IInv
  <2> QED
    BY <1>6, <2>3, <2>4 DEF ExtractStored
<1>7. ASSUME NEW s \in Session, ExtractMalformed(s) PROVE IInv'
  <2>1. titled' \subseteq Topic
    BY <1>7 DEF ExtractMalformed, WriteTopics, IInv, Types
  <2>2. CASE UNCHANGED <<index, foreign>>
    BY <1>7, <2>1, <2>2, LeaveKeepsCovered DEF ExtractMalformed
  <2>3. CASE index' \in SUBSET Topic /\ foreign' = foreign \cup index'
    <3>1. pc[s] # "upsert" /\ Leave(s) /\ UNCHANGED <<mirrored, lost>>
      BY <1>7 DEF ExtractMalformed
    <3>2. Types' /\ EntriesInUse'
      BY <2>1, <2>3, <3>1 DEF IInv, Types, EntriesInUse, Leave
    <3>3. Covered \subseteq Covered'
      BY <2>3, <3>1, CoveredGrows DEF IInv, Types, EntriesInUse, Leave
    <3>4. SnapshotsCovered'
      BY <3>1, <3>3 DEF IInv, Types, SnapshotsCovered, Leave
    <3>5. index' \subseteq Covered'
      BY <2>3 DEF Covered
    <3> QED
      BY <3>2, <3>4, <3>5 DEF IInv
  <2> QED
    BY <1>7, <2>2, <2>3 DEF ExtractMalformed
<1>8. ASSUME NEW s \in Session, Upserted(s) \/ UpsertFails(s) PROVE IInv'
  <2>1. /\ Leave(s) /\ UNCHANGED <<titled, index, foreign>>
        /\ mirrored \subseteq mirrored' /\ lost \subseteq lost'
        /\ entries[s] \subseteq mirrored' \cup lost'
    BY <1>8 DEF Upserted, UpsertFails, history
  <2>2. Types' /\ EntriesInUse'
    BY <2>1 DEF IInv, Types, EntriesInUse, Leave
  <2>3. Covered \subseteq Covered'
    BY <2>1, CoveredGrows DEF IInv, Types, Leave
  <2>4. SnapshotsCovered' /\ index' \subseteq Covered'
    BY <2>1, <2>3 DEF IInv, Types, SnapshotsCovered, Leave
  <2> QED
    BY <2>2, <2>4 DEF IInv
<1>9. ASSUME NEW s \in Session, Abort(s) PROVE IInv'
  BY <1>9, LeaveKeepsCovered DEF Abort, topics, history, IInv, Types
<1>10. ASSUME NEW s \in Session, ReviewAnswers(s) \/ ReviewStored(s) PROVE IInv'
  BY <1>10, StillCovered DEF ReviewAnswers, ReviewStored, topics, history, IInv, Types
<1> QED
  BY <1>1, <1>2, <1>3, <1>4, <1>5, <1>6, <1>7, <1>8, <1>9, <1>10 DEF Next

\* What the retriever finds is with the provider, on its way there, was refused, or came
\* into the index from elsewhere: whatever the directory held at the start, whatever chats
\* overlap, however extractions interleave and fail (manager.py 69-90).
THEOREM MirrorKeepsUp == Spec => []IndexedIsMirrored
<1>1. IInv => IndexedIsMirrored
  BY DEF IInv, Covered, IndexedIsMirrored
<1> QED
  BY <1>1, InitIInv, NextIInv, PTL DEF Spec

-----------------------------------------------------------------------------
(* Ticks.                                                                  *)

TickTypes ==
  /\ pc \in [Session -> {"idle", "loop", "extract", "upsert"}]
  /\ nudge \in [Session -> Nat] /\ turns \in [Session -> Nat]
  /\ overlapped \in BOOLEAN /\ current \in Session \cup {None}

\* Until two chats overlap the slot holds the one session that is in a chat, so that
\* a turn completed by any session is ticked for the one that completed it.
SlotIsOwn ==
  ~overlapped => \A s \in Session : Busy(s) => current = s

TicksInv == TickTypes /\ SlotIsOwn /\ TicksAreOwn

\* A chat that ends empties the slot, and no other chat was in progress.
LEMMA LeaveKeepsTicks ==
  ASSUME NEW s \in Session, TicksInv, Busy(s), Leave(s), UNCHANGED <<overlapped, nudge, turns>>
  PROVE  TicksInv'
BY DEF TicksInv, TickTypes, SlotIsOwn, TicksAreOwn, Leave, Busy

\* Steps that leave the slot, the counters and the chats in progress alone.
LEMMA StillOwn ==
  ASSUME TicksInv, TickTypes', UNCHANGED <<current, nudge, turns, overlapped>>,
         \A s \in Session : Busy(s)' <=> Busy(s)
  PROVE  TicksInv'
<1>1. SlotIsOwn'
  BY DEF TicksInv, SlotIsOwn
<1>2. current # None => Busy(current)'
  BY DEF TicksInv, TickTypes, TicksAreOwn
<1>3. TicksAreOwn'
  BY <1>2 DEF TicksInv, TicksAreOwn, Busy
<1> QED
  BY <1>1, <1>3 DEF TicksInv

\* A completed turn is ticked for the session of the slot: its own, unless chats overlapped.
LEMMA CompleteTicks ==
  ASSUME NEW s \in Session, TicksInv, Busy(s), Complete(s)
  PROVE  /\ nudge' \in [Session -> Nat] /\ turns' \in [Session -> Nat]
         /\ ~overlapped => nudge' = turns'
<1>1. nudge' \in [Session -> Nat]
  BY DEF TicksInv, TickTypes, Complete
<1>2. turns' \in [Session -> Nat]
  BY DEF TicksInv, TickTypes, Complete
<1>3. ASSUME ~overlapped PROVE nudge' = turns'
  <2>1. current = s /\ nudge = turns
    BY <1>3 DEF TicksInv, SlotIsOwn, TicksAreOwn
  <2>2. current # None
    BY <2>1, MemoryAssumption
  <2> QED
    BY <2>1, <2>2 DEF Complete
<1> QED
  BY <1>1, <1>2, <1>3

LEMMA InitTicks == Init => TicksInv
<1> SUFFICES ASSUME Init PROVE TicksInv
  OBVIOUS
<1>1. TickTypes
  BY DEF Init, TickTypes
<1>2. \A s \in Session : ~Busy(s)
  BY DEF Init, Busy
<1>3. nudge = turns /\ current = None
  BY DEF Init
<1> QED
  BY <1>1, <1>2, <1>3 DEF TicksInv, SlotIsOwn, TicksAreOwn

LEMMA NextTicks == TicksInv /\ [Next]_vars => TicksInv'
<1> SUFFICES ASSUME TicksInv, [Next]_vars PROVE TicksInv'
  OBVIOUS
<1>1. CASE UNCHANGED vars
  BY <1>1 DEF vars, session, topics, history, TicksInv, TickTypes, SlotIsOwn, TicksAreOwn, Busy
<1>2. ASSUME NEW s \in Session, ChatStart(s) PROVE TicksInv'
  <2>1. TickTypes'
    BY <1>2 DEF ChatStart, TicksInv, TickTypes
  <2>2. current' = s /\ Busy(s)'
    BY <1>2 DEF ChatStart, TicksInv, TickTypes, Busy
  <2>3. ~overlapped' => ~overlapped /\ \A o \in Session : ~Busy(o)
    BY <1>2 DEF ChatStart
  <2>4. SlotIsOwn'
    BY <1>2, <2>2, <2>3 DEF ChatStart, TicksInv, TickTypes, SlotIsOwn, Busy
  <2>5. TicksAreOwn'
    BY <1>2, <2>2, <2>3 DEF ChatStart, TicksInv, TicksAreOwn
  <2> QED
    BY <2>1, <2>4, <2>5 DEF TicksInv
<1>3. ASSUME NEW s \in Session, ToolRound(s) PROVE TicksInv'
  <2>1. Busy(s) /\ Complete(s) /\ UNCHANGED <<pc, current, overlapped>>
    BY <1>3 DEF ToolRound, Busy
  <2> QED
    BY <2>1, CompleteTicks DEF TicksInv, TickTypes, SlotIsOwn, TicksAreOwn, Busy
<1>4. ASSUME NEW s \in Session, EndTurn(s) PROVE TicksInv'
  <2>1. Busy(s) /\ pc[s] = "loop" /\ Complete(s) /\ UNCHANGED overlapped
    BY <1>4 DEF EndTurn, Busy
  <2>2. CASE Leave(s)
    BY <2>1, <2>2, CompleteTicks DEF Leave, TicksInv, TickTypes, SlotIsOwn, TicksAreOwn, Busy
  <2>3. CASE pc' = [pc EXCEPT ![s] = "extract"] /\ UNCHANGED current
    BY <2>1, <2>3, CompleteTicks DEF TicksInv, TickTypes, SlotIsOwn, TicksAreOwn, Busy
  <2> QED
    BY <1>4, <2>2, <2>3 DEF EndTurn
<1>5. ASSUME NEW s \in Session, ExtractNothing(s) \/ ExtractMalformed(s) \/ Upserted(s)
                                  \/ UpsertFails(s) \/ Abort(s)
      PROVE  TicksInv'
  <2>1. Busy(s) /\ Leave(s) /\ UNCHANGED <<overlapped, nudge, turns>>
    BY <1>5 DEF ExtractNothing, ExtractMalformed, Upserted, UpsertFails, Abort, Busy, history
  <2> QED
    BY <2>1, LeaveKeepsTicks
<1>6. ASSUME NEW s \in Session, ExtractStored(s) PROVE TicksInv'
  <2>1. Busy(s) /\ pc[s] = "extract" /\ UNCHANGED <<overlapped, nudge, turns>>
    BY <1>6 DEF ExtractStored, Busy, history
  <2>2. CASE Leave(s)
    BY <2>1, <2>2, LeaveKeepsTicks
  <2>3. CASE pc' = [pc EXCEPT ![s] = "upsert"] /\ UNCHANGED current
    BY <2>1, <2>3, StillOwn DEF TicksInv, TickTypes, Busy
  <2> QED
    BY <1>6, <2>2, <2>3 DEF ExtractStored
<1>7. ASSUME NEW s \in Session, ReviewAnswers(s) \/ ReviewStored(s) PROVE TicksInv'
  BY <1>7, StillOwn DEF ReviewAnswers, ReviewStored, topics, history, TicksInv, TickTypes, Busy
<1> QED
  BY <1>1, <1>2, <1>3, <1>4, <1>5, <1>6, <1>7 DEF Next

\* A tick goes to a session whose chat is in progress, and as long as no two chats
\* overlapped every session has exactly one tick per completed turn: for any sessions,
\* thresholds and failures (nudge.py 15; agent.py 155-156).
THEOREM TicksOwned == Spec => []TicksAreOwn
<1>1. TicksInv => TicksAreOwn
  BY DEF TicksInv
<1> QED
  BY <1>1, InitTicks, NextTicks, PTL DEF Spec
=============================================================================
