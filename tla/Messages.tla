------------------------------- MODULE Messages -------------------------------
(***************************************************************************)
(* Conversation messages and the pure list functions of the context        *)
(* compressor (src/neoagent/core/compress.py): the split at a user-turn    *)
(* boundary, the two legacy cuts (LLM summary, truncation) and the repair  *)
(* of tool_use / tool_result pairs that follows each cut.                  *)
(*                                                                         *)
(* A message keeps what the compressor and the providers tell apart: its   *)
(* msg_id and turn stamps, its role, whether its content is a plain string *)
(* or a list of blocks, whether the list has text, which tool calls and    *)
(* tool results it holds, and a number that stands for the words (body).   *)
(*                                                                         *)
(* A call is named by a number. The calls of an answer that ended its turn *)
(* are appended with it, never run and never answered (loop.py 305, 363):  *)
(* their names are negative, so that a property can tell them from calls   *)
(* that ran. No definition of the code looks at the sign.                  *)
(***************************************************************************)
EXTENDS Integers, Sequences, FiniteSets, SequencesExt, Selection

CONSTANTS KeepTurns,   \* user turns the strategy path keeps (5 in the code)
          KeepRecent   \* messages the legacy path keeps (_KEEP_RECENT = 6)

ASSUME KeepAssumption == KeepTurns \in Nat \ {0} /\ KeepRecent \in Nat \ {0}

NoId == 0          \* Message.id is None
NoTurn == -1       \* Message.turn is None
Synthetic == 0     \* body of a summary or placeholder written by the compressor

UserInput(id, turn, body) ==
  [id |-> id, turn |-> turn, role |-> "user", str |-> TRUE, text |-> FALSE,
   uses |-> {}, results |-> {}, body |-> body]

\* An answer of the model, as it came: with or without text, with the calls it holds.
Reply(id, turn, text, calls, body) ==
  [id |-> id, turn |-> turn, role |-> "assistant", str |-> FALSE, text |-> text,
   uses |-> calls, results |-> {}, body |-> body]

ToolResults(id, turn, calls, body) ==
  [id |-> id, turn |-> turn, role |-> "user", str |-> FALSE, text |-> FALSE,
   uses |-> {}, results |-> calls, body |-> body]

SummaryMessage == UserInput(NoId, NoTurn, Synthetic)

Placeholder(role) == [SummaryMessage EXCEPT !.role = role]

Bodies(msgs) == [i \in DOMAIN msgs |-> msgs[i].body]
Ids(msgs) == {msgs[i].id : i \in DOMAIN msgs} \ {NoId}
LastN(s, n) == SubSeq(s, Len(s) - n + 1, Len(s))
Lesser(a, b) == IF a <= b THEN a ELSE b

-----------------------------------------------------------------------------
(* The split at a user-turn boundary.                                      *)

\* Distinct turns of the user-role messages, in order of first appearance.
UserTurns(msgs) ==
  LET asks(i) == msgs[i].role = "user" /\ msgs[i].turn # NoTurn
      firsts == {i \in DOMAIN msgs :
                   asks(i) /\ \A j \in 1..i - 1 : asks(j) => msgs[j].turn # msgs[i].turn}
  IN  Among([i \in DOMAIN msgs |-> msgs[i].turn], firsts)

\* The last KeepTurns of them.
TurnsToKeep(msgs) ==
  LET turns == UserTurns(msgs) IN ToSet(LastN(turns, Lesser(KeepTurns, Len(turns))))

\* Bug variant: the split lands inside the oldest kept turn.
SplitIndexLate(msgs) ==
  LET first == SelectInSeq(msgs, LAMBDA m : m.turn \in TurnsToKeep(msgs))
  IN  IF first = 0 THEN Len(msgs) ELSE first + 1

\* Number of messages before the first one of a kept turn.
SplitIndex(msgs) ==
  LET first == SelectInSeq(msgs, LAMBDA m : m.turn \in TurnsToKeep(msgs))
  IN  IF first = 0 THEN Len(msgs) ELSE first - 1

\* The older messages that have a turn, and what stays: those without one and
\* everything from the first kept turn on.
Split(msgs) ==
  IF Len(UserTurns(msgs)) <= KeepTurns
  THEN [compress |-> <<>>, keep |-> msgs]
  ELSE LET older == {i \in 1..SplitIndex(msgs) : msgs[i].turn # NoTurn}
       IN  [compress |-> Among(msgs, older), keep |-> Among(msgs, DOMAIN msgs \ older)]

-----------------------------------------------------------------------------
(* The legacy cuts and the repair of tool pairs.                           *)

\* Tool calls that have both their use and their result in the list.
Matched(msgs) ==
  (UNION {msgs[i].uses : i \in DOMAIN msgs}) \cap (UNION {msgs[i].results : i \in DOMAIN msgs})

\* A block list is rebuilt without its orphans, and loses its id and turn.
Clean(m, matched) ==
  IF m.str THEN m
  ELSE [m EXCEPT !.id = NoId, !.turn = NoTurn,
                 !.uses = @ \cap matched, !.results = @ \cap matched]

HasContent(m) == m.str \/ m.text \/ m.uses # {} \/ m.results # {}

\* A placeholder of the other role before every message whose role is that of the
\* message in front of it.
Alternate(msgs) ==
  LET other(role) == IF role = "assistant" THEN "user" ELSE "assistant"
      twins == {i \in 2..Len(msgs) : msgs[i - 1].role = msgs[i].role}
      spaced == [k \in 1..2 * Len(msgs) |->
                   IF k % 2 = 0 THEN msgs[k \div 2] ELSE Placeholder(other(msgs[(k + 1) \div 2].role))]
  IN  Among(spaced, {k \in DOMAIN spaced : k % 2 = 0 \/ (k + 1) \div 2 \in twins})

\* Bug variant: the pairs are repaired, the roles are not.
SanitizeWithoutAlternation(msgs) ==
  LET matched == Matched(msgs)
      clean == [i \in DOMAIN msgs |-> Clean(msgs[i], matched)]
  IN  Among(clean, {i \in DOMAIN clean : HasContent(clean[i])})

\* Bug variant: the roles are repaired, orphaned results stay.
SanitizeWithoutMatching(msgs) == Alternate(msgs)

Sanitize(msgs) ==
  LET matched == Matched(msgs)
      clean == [i \in DOMAIN msgs |-> Clean(msgs[i], matched)]
  IN  Alternate(Among(clean, {i \in DOMAIN clean : HasContent(clean[i])}))

TruncateOldest(msgs) ==
  IF Len(msgs) < 3 THEN msgs
  ELSE Sanitize(<<msgs[1]>> \o LastN(msgs, Lesser(KeepRecent, Len(msgs) - 1)))

Summarize(msgs) ==
  IF Len(msgs) < 3 THEN msgs
  ELSE Sanitize(<<msgs[1], SummaryMessage>> \o LastN(msgs, Lesser(KeepRecent, Len(msgs) - 2)))

-----------------------------------------------------------------------------
(* What a provider demands of a request.                                   *)

\* The calls of a message that ran.
Ran(msg) == {call \in msg.uses : call >= 0}

\* What the turns write and compression may not part: a message whose calls ran is
\* answered in full by the very next message, and every tool_result answers the
\* message just before it.
PairsIntact(msgs) ==
  \A i \in DOMAIN msgs :
    /\ Ran(msgs[i]) # {} => i < Len(msgs) /\ msgs[i + 1].results = msgs[i].uses
    /\ msgs[i].results # {} => i > 1 /\ msgs[i - 1].uses = msgs[i].results

\* And no call is left unanswered: a request the provider accepts.
PairsAdjacent(msgs) ==
  \A i \in DOMAIN msgs :
    /\ msgs[i].uses # {} => i < Len(msgs) /\ msgs[i + 1].results = msgs[i].uses
    /\ msgs[i].results # {} => i > 1 /\ msgs[i - 1].uses = msgs[i].results

Alternates(msgs) ==
  \A i \in 1..Len(msgs) - 1 : msgs[i].role # msgs[i + 1].role
=============================================================================
