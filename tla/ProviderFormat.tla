---------------------------- MODULE ProviderFormat ----------------------------
(***************************************************************************)
(* From the window to a provider's request and back: the view of the window   *)
(* with its freed tool results collapsed (core/loop.py), the messages of the   *)
(* OpenAI chat format, and the answer assembled from a stream of deltas        *)
(* (providers/openai.py).                                                    *)
(***************************************************************************)
EXTENDS Messages

CONSTANTS MaxCalls,   \* bound: tool calls of one answer
          Pieces      \* bound: deltas of one call's arguments

ASSUME FormatAssumption == MaxCalls \in Nat /\ Pieces \in Nat \ {0}

-----------------------------------------------------------------------------
(* The request.                                                            *)

\* Bug variant: a freed result is left out of the request.
ViewDropping(msgs, freed) ==
  [i \in DOMAIN msgs |-> [msgs[i] EXCEPT !.results = @ \ freed]]

\* What is sent for a window: freed results become placeholders under the same
\* tool_use_id, and their message loses its id and turn. The window stays as it is.
View(msgs, freed) ==
  [i \in DOMAIN msgs |->
     IF msgs[i].results \cap freed = {} THEN msgs[i]
     ELSE [msgs[i] EXCEPT !.id = NoId, !.turn = NoTurn, !.body = Synthetic]]

\* One message on the wire: the calls it makes, or the one call it answers.
Entry(role, calls, answers) == [role |-> role, calls |-> calls, answers |-> answers]

\* A user message with tool results becomes one "tool" message for each result, and
\* nothing else of it is sent; any other message stays one message.
Answering(msg) == msg.role = "user" /\ msg.results # {}
NoCall == 0
Parts(msg) == IF Answering(msg) THEN msg.results ELSE {NoCall}
Serialized(msg, part) ==
  IF Answering(msg) THEN Entry("tool", {}, {part}) ELSE Entry(msg.role, msg.uses, {})

\* The places of a request: a message of the window and a part of it. The messages keep
\* their order, and so do the results of one message, which are numbered in their order.
Places(msgs) == UNION {{i} \X Parts(msgs[i]) : i \in DOMAIN msgs}
UpTo(places, p) == {q \in places : q[1] < p[1] \/ (q[1] = p[1] /\ q[2] <= p[2])}
Place(places, k) == CHOOSE p \in places : Cardinality(UpTo(places, p)) = k

Wire(msgs) ==
  LET places == Places(msgs)
      at(k) == Place(places, k)
  IN  [k \in 1..Cardinality(places) |-> Serialized(msgs[at(k)[1]], at(k)[2])]

-----------------------------------------------------------------------------
(* The answer: text, tool calls with their arguments in pieces, a reason to    *)
(* stop. A stream brings its parts as deltas: a piece of a call's arguments    *)
(* under the index of the call, or the reason.                               *)

Stops == {"stop", "tool_calls", "length"}

Answers == [calls : {1..n : n \in 0..MaxCalls}, stop : Stops]

Piece(call, n) == [index |-> call, piece |-> n, stop |-> "none"]
StopDelta(stop) == [index |-> 0, piece |-> 0, stop |-> stop]
PiecesOf(answer) == {Piece(c, n) : c \in answer.calls, n \in 1..Pieces}

\* The streams of an answer: the pieces of one call come in order, those of several
\* calls in any interleaving, the reason last. The connection may close after any
\* delta.
Streams(answer) ==
  LET inOrder(s) == \A i, j \in DOMAIN s :
                      i < j /\ s[i].index = s[j].index => s[i].piece < s[j].piece
  IN  {Append(s, StopDelta(answer.stop)) : s \in {t \in SetToSeqs(PiecesOf(answer)) : inOrder(t)}}

StopReason == [stop |-> "end_turn", tool_calls |-> "tool_use", length |-> "max_tokens"]

\* A call whose arguments arrived in full; otherwise they do not parse and become {}.
Whole(n) == n = Pieces

\* The answer read in one piece (_parse_response).
Parsed(answer) ==
  [calls |-> [c \in answer.calls |-> Whole(Pieces)], stop |-> StopReason[answer.stop]]

\* The deltas of a stream that give a reason to stop.
Reasons(deltas) == {i \in DOMAIN deltas : deltas[i].stop # "none"}

\* Bug variant: a stream that closes early with a call in it counts as a tool request.
LastStopOptimistic(deltas) ==
  IF Reasons(deltas) # {} THEN deltas[Max(Reasons(deltas))].stop
  ELSE IF deltas = <<>> THEN "stop" ELSE "tool_calls"

\* finish_reason: "stop" unless a delta says otherwise.
LastStop(deltas) ==
  IF Reasons(deltas) = {} THEN "stop" ELSE deltas[Max(Reasons(deltas))].stop

\* The answer assembled from deltas: the pieces joined under their index.
Arrived(deltas, call) == {i \in DOMAIN deltas : deltas[i].index = call}

Assembled(deltas) ==
  LET indices == {deltas[i].index : i \in DOMAIN deltas} \ {0}
  IN  [calls |-> [c \in indices |-> Whole(Cardinality(Arrived(deltas, c)))],
       stop |-> StopReason[LastStop(deltas)]]

\* The calls the loop hands to the executor.
Executed(response) == IF response.stop = "tool_use" THEN DOMAIN response.calls ELSE {}
=============================================================================
