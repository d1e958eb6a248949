------------------------------ MODULE MessageLists ------------------------------
(***************************************************************************)
(* Grows every conversation up to MaxBodies messages the way chat() and run()  *)
(* do, with legacy compressions in between, and compares the list functions   *)
(* of Messages, and the request and answer formats of ProviderFormat, with     *)
(* what they are meant to compute. The names are kept apart from those of      *)
(* QueryLoop: QueryLoop_proofs extends both.                                *)
(***************************************************************************)
EXTENDS ProviderFormat

CONSTANTS MaxBodies,     \* bound on the messages a conversation is given
          MaxCuts,       \* bound on the legacy compressions of one conversation
          WithUnstamped  \* TRUE: the conversation starts in run(), without id and turn

VARIABLES list, given, cuts,    \* the conversation
          chats, listTurn,      \* user_turn, and the stamp of the loop's next messages
          deltas, answer        \* what has arrived of the stream of an answer

listVars == <<list, given, cuts, chats, listTurn, deltas, answer>>
streamVars == <<deltas, answer>>

NoAnswer == [calls |-> {}, stop |-> "stop"]

ListsInit == /\ list = <<>> /\ given = 0 /\ cuts = 0 /\ chats = 0 /\ listTurn = 0
             /\ deltas = <<>> /\ answer = NoAnswer

Lengthen(new) == /\ given + Len(new) <= MaxBodies
                 /\ list' = list \o new
                 /\ given' = given + Len(new)
                 /\ deltas = <<>> /\ UNCHANGED <<cuts, streamVars>>

\* chat(): the user speaks, in a new turn.
AddUser ==
  /\ Lengthen(<<UserInput(given + 1, chats + 1, given + 1)>>)
  /\ chats' = chats + 1 /\ listTurn' = chats + 1

\* run(): the caller's message opens the conversation, without id and turn.
AddOpening ==
  /\ WithUnstamped /\ list = <<>>
  /\ Lengthen(<<UserInput(NoId, NoTurn, 1)>>)
  /\ UNCHANGED <<chats, listTurn>>

\* One round of one or two tool calls. Under run() the stamp is the loop's turn index,
\* which advances with each round and which later chats use again.
AddToolRound ==
    \E text \in BOOLEAN, calls \in {{given + 1}, {given + 1, given + 2}} :
      /\ list # <<>> /\ Last(list).role = "user"
      /\ Lengthen(<<Reply(given + 1, listTurn, text, calls, given + 1),
                    ToolResults(given + 2, listTurn, calls, given + 2)>>)
      /\ listTurn' = IF chats = 0 THEN listTurn + 1 ELSE listTurn
      /\ UNCHANGED chats

\* The answer that ends a turn, with text, calls, both or nothing in it.
AddReply ==
    \E text \in BOOLEAN, calls \in {{}, {-(given + 1)}} :
      /\ list # <<>> /\ Last(list).role = "user"
      /\ Lengthen(<<Reply(given + 1, listTurn, text, calls, given + 1)>>)
      /\ UNCHANGED <<chats, listTurn>>

Shorten ==
  /\ list' \in {Summarize(list), TruncateOldest(list)}
  /\ cuts < MaxCuts /\ cuts' = cuts + 1
  /\ deltas = <<>> /\ UNCHANGED <<chats, listTurn, given, streamVars>>

\* Some part of the stream of some answer arrives, to an empty conversation: the
\* formats of an answer do not depend on it.
Receive ==
  /\ list = <<>> /\ deltas = <<>>
  /\ \E a \in Answers : \E stream \in Streams(a) : \E n \in DOMAIN stream :
       answer' = a /\ deltas' = SubSeq(stream, 1, n)
  /\ UNCHANGED <<list, chats, listTurn, given, cuts>>

ListsNext == AddUser \/ AddOpening \/ AddToolRound \/ AddReply \/ Shorten \/ Receive

ListsSpec == ListsInit /\ [][ListsNext]_listVars

-----------------------------------------------------------------------------
\* Every message has a turn.
Stamped(msgs) == \A i \in DOMAIN msgs : msgs[i].turn # NoTurn

\* Splitting loses, invents and duplicates no message (compress.py 488-503),
\* unstamped ones included, the two halves of a stamped conversation are the
\* conversation ("Preserve original order in both lists"), and no call that ran is
\* parted from its result, though a turn's number may stand for several turns, of run()
\* and of chat().
SplitIsSound ==
  LET s == Split(list)
      all == s.compress \o s.keep
  IN  /\ Len(all) = Len(list) /\ ToSet(all) = ToSet(list)
      /\ Stamped(list) => all = list
      /\ Stamped(s.compress)
      /\ PairsIntact(s.compress) /\ PairsIntact(s.keep)

\* Whatever the legacy cuts remove, and whatever two messages they bring together,
\* what is left is a request the provider accepts: pairs complete and adjacent, no call
\* of an end_turn answer among them, and roles that alternate (guide.md "配对清理", compress.py 366-398).
CutsAreSendable ==
  Len(list) >= 3 =>
    \A cut \in {Summarize(list), TruncateOldest(list)} : PairsAdjacent(cut) /\ Alternates(cut)

\* Whichever results the model has freed, the request on the wire answers every tool
\* call that ran, each once, in the messages right behind it, and answers nothing else;
\* a call of an end_turn answer goes out unanswered (loop.py 443-480, openai.py 45-87).
WireIsPaired ==
  \A freed \in SUBSET UNION {list[i].results : i \in DOMAIN list} :
    LET wire == Wire(View(list, freed))
        behind(i) == {j \in i + 1..Len(wire) :
                        \A k \in i + 1..j : wire[k].role = "tool"}
    IN  \A i \in DOMAIN wire :
          /\ wire[i].role # "tool" =>
               LET ran == {call \in wire[i].calls : call >= 0} IN
               /\ UNION {wire[j].answers : j \in behind(i)} = ran
               /\ Cardinality(behind(i)) = Cardinality(ran)
          /\ i = 1 => wire[i].role # "tool"

\* A streamed answer is the answer, however its deltas interleave; and when the
\* connection closes before the end, no call is executed, so that arguments which
\* arrived in part are never taken for {} (openai.py 147-199, loop.py 304-305).
StreamIsAnswer ==
  deltas # <<>> =>
    IF Last(deltas).stop # "none" THEN Assembled(deltas) = Parsed(answer)
    ELSE Executed(Assembled(deltas)) = {}
=============================================================================
