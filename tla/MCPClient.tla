-------------------------------- MODULE MCPClient ------------------------------
(***************************************************************************)
(* One MCP connection: MCPClient (mcp/client.py) over StdioTransport         *)
(* (mcp/transport.py), the tool calls that share it (MCPTool is declared     *)
(* concurrent-safe, so the executor gathers them), and a server that answers *)
(* in any order, sends notifications and broken lines, and may die.          *)
(*                                                                         *)
(* The asyncio StreamReader under receive() is modelled from how this code   *)
(* uses it: a coroutine that finds no line becomes the reader's one waiter,  *)
(* a second one raises, and every line fed wakes the waiter. Lines that are  *)
(* there are read without yielding, and so is the first one after send()     *)
(* unless the pipe is full. When a coroutine comes out of its wait, by a line *)
(* or by its cancellation, the reader has no waiter any more, whoever has     *)
(* taken that place since: that one is not woken again.                      *)
(*                                                                         *)
(* The server sends no requests of its own: connect() declares no capability *)
(* that would allow them.                                                   *)
(***************************************************************************)
EXTENDS Integers, Sequences, FiniteSets, SequencesExt

CONSTANTS Caller,        \* coroutines that use the client; None is none of them
          None,
          Congested,     \* can the pipe to the server be full?
          MaxRequests,   \* bound: requests ever sent
          MaxNoise       \* bound: notifications and broken lines the server sends

ASSUME MCPClientAssumption ==
  None \notin Caller /\ Congested \in BOOLEAN /\ MaxRequests \in Nat /\ MaxNoise \in Nat

VARIABLES
  conn,      \* new, handshake, open, failed (connect() raised), closed
  nextId,    \* MCPClient._next_id
  pending,   \* keys of MCPClient._pending
  call,      \* idle, draining (send() waits for room in the pipe), parked (receive()
             \* waits for a line), woken (it will go on)
  reqId,     \* request id of the caller's latest call
  got,       \* how it ended: 0 not yet, the id of the answer it returned, or -1 (raised)
  waiter,    \* the StreamReader's waiter
  stdout,    \* lines not yet read: the id of an answer, Notification or Broken
  eof,       \* the server's stdout is closed
  asked,     \* requests the server holds unanswered
  answered,  \* requests it has answered in a line that can be read
  noise,     \* bound
  taken,     \* answers a call has returned
  overlapped \* two calls have been open at once

vars == <<conn, nextId, pending, call, reqId, got, waiter, stdout, eof, asked, answered,
          noise, taken, overlapped>>

Notification == 0
Broken == -1
Raised == -1
Open(c) == call[c] # "idle"

Init ==
  /\ conn = "new" /\ nextId = 1 /\ pending = {}
  /\ call = [c \in Caller |-> "idle"] /\ reqId = [c \in Caller |-> 0]
  /\ got = [c \in Caller |-> 0]
  /\ waiter = None /\ stdout = <<>> /\ eof = FALSE
  /\ asked = {} /\ answered = {} /\ noise = 0 /\ taken = {} /\ overlapped = FALSE

-----------------------------------------------------------------------------
(* The client.                                                             *)

\* The call of c ends: an id returned, or Raised.
End(c, how) ==
  /\ call' = [call EXCEPT ![c] = "idle"] /\ got' = [got EXCEPT ![c] = how]
  /\ taken' = IF how = Raised THEN taken ELSE taken \cup {how}

\* Bug variant: an answer of somebody else is dropped.
BufferNothing(n) == pending' = pending

\* Answers among the first n lines go to _pending.
Buffer(n) == pending' = pending \cup ({stdout[i] : i \in 1..n} \ {Notification})

\* Bug variant: the first answer is taken for one's own.
StopAtAny(id) == SelectInSeq(stdout, LAMBDA line : line # Notification)

\* Position of the line at which the loop for id stops: its answer or a broken line.
StopAt(id) == SelectInSeq(stdout, LAMBDA line : line \in {id, Broken})

\* The loop of _request, while w waits for the reader. It reads up to its answer, or to
\* a line that readline() or json.loads rejects. Or it reads everything there is, and
\* waits, unless somebody does already or the stream has ended: then it raises.
Read(c, id, w) ==
  LET k == StopAt(id) IN
  \/ /\ k > 0
     /\ Buffer(k - 1) /\ stdout' = SubSeq(stdout, k + 1, Len(stdout))
     /\ End(c, stdout[k]) /\ waiter' = w
  \/ /\ k = 0
     /\ Buffer(Len(stdout)) /\ stdout' = <<>>
     /\ IF eof \/ w # None
        THEN End(c, Raised) /\ waiter' = w
        ELSE /\ call' = [call EXCEPT ![c] = "parked"] /\ waiter' = c
             /\ got' = [got EXCEPT ![c] = 0] /\ UNCHANGED taken

\* The beginning of _request: a fresh id is taken, which _pending cannot hold yet, the
\* request is written, and its answer read for, without a pause in between if the pipe
\* has room. If the server is gone the pipe may break.
Send(c) ==
  /\ ~Open(c) /\ nextId <= MaxRequests
  /\ nextId' = nextId + 1
  /\ reqId' = [reqId EXCEPT ![c] = nextId]
  /\ asked' = IF eof THEN asked ELSE asked \cup {nextId}
  /\ overlapped' = (overlapped \/ \E d \in Caller : Open(d))
  /\ \/ Read(c, nextId, waiter)
     \/ /\ Congested /\ UNCHANGED <<pending, stdout, waiter, taken>>
        /\ call' = [call EXCEPT ![c] = "draining"] /\ got' = [got EXCEPT ![c] = 0]
     \/ eof /\ End(c, Raised) /\ UNCHANGED <<pending, stdout, waiter>>
  /\ UNCHANGED <<eof, answered, noise>>

\* connect(): the subprocess is started and initialize sent.
Connect(c) == conn = "new" /\ Send(c) /\ conn' = "handshake"

\* call_tool(), once the handshake is over: the agent has no tool before that.
CallTool(c) == conn = "open" /\ Send(c) /\ UNCHANGED conn

\* connect() goes on when its request has ended; the answer may be an error.
GoOn(c) ==
  conn' \in IF conn # "handshake" \/ call'[c] # "idle" THEN {conn}
            ELSE IF got'[c] = Raised THEN {"failed"} ELSE {"open", "failed"}

\* There is room in the pipe, or it is broken.
Drained(c) ==
  /\ call[c] = "draining"
  /\ \/ Read(c, reqId[c], waiter)
     \/ eof /\ End(c, Raised) /\ UNCHANGED <<pending, stdout, waiter>>
  /\ GoOn(c)
  /\ UNCHANGED <<nextId, reqId, eof, asked, answered, noise, overlapped>>

\* The coroutine that was woken goes on: the reader's waiter is cleared first.
Resume(c) ==
  /\ call[c] = "woken"
  /\ Read(c, reqId[c], None)
  /\ GoOn(c)
  /\ UNCHANGED <<nextId, reqId, eof, asked, answered, noise, overlapped>>

\* The caller is cancelled, by a worker's timeout or by whoever cancels the chat.
Abandon(c) ==
  /\ Open(c) /\ End(c, Raised) /\ GoOn(c)
  /\ waiter' = IF call[c] = "draining" THEN waiter ELSE None
  /\ UNCHANGED <<nextId, reqId, pending, stdout, eof, asked, answered, noise, overlapped>>

\* Bug variant: the end of the stream wakes nobody.
WakeNobody == UNCHANGED <<waiter, call>>

\* What is fed to the reader wakes its waiter.
Wake ==
  /\ waiter' = None
  /\ call' = [c \in Caller |-> IF c = waiter THEN "woken" ELSE call[c]]

\* close(): the subprocess is terminated; whoever reads sees the end of its stdout.
Close ==
  /\ conn \in {"open", "failed"}
  /\ conn' = "closed" /\ eof' = TRUE /\ Wake
  /\ UNCHANGED <<nextId, pending, reqId, got, stdout, asked, answered, noise, taken, overlapped>>

-----------------------------------------------------------------------------
(* The server.                                                             *)

Feed(line) == /\ ~eof /\ stdout' = Append(stdout, line) /\ Wake
              /\ UNCHANGED <<conn, nextId, pending, reqId, got, eof, taken, overlapped>>

\* A request is answered, in any order, also one whose caller has gone.
Answer(id) ==
  /\ id \in asked /\ Feed(id)
  /\ asked' = asked \ {id} /\ answered' = answered \cup {id}
  /\ UNCHANGED noise

\* Its line is longer than the reader's limit: readline() drops it and raises, and what
\* was still to come of it is a line of its own.
AnswerAtLength(id) ==
  /\ id \in asked /\ asked' = asked \ {id}
  /\ ~eof /\ \E n \in 1..2 : stdout' = stdout \o [i \in 1..n |-> Broken]
  /\ Wake
  /\ UNCHANGED <<conn, nextId, pending, reqId, got, eof, answered, noise, taken, overlapped>>

Disturb ==
  /\ noise < MaxNoise /\ conn # "new" /\ noise' = noise + 1
  /\ Feed(Notification) \/ Feed(Broken)
  /\ UNCHANGED <<asked, answered>>

\* The server dies or closes its stdout.
Die ==
  /\ conn # "new" /\ ~eof
  /\ eof' = TRUE /\ asked' = {} /\ Wake
  /\ UNCHANGED <<conn, nextId, pending, reqId, got, stdout, answered, noise, taken, overlapped>>

ClientStep(c) == Drained(c) \/ Resume(c)

Next ==
  \/ \E c \in Caller : Connect(c) \/ CallTool(c) \/ ClientStep(c) \/ Abandon(c)
  \/ Close \/ Disturb \/ Die 
  \/ \E id \in asked : Answer(id) \/ AnswerAtLength(id)

Spec == Init /\ [][Next]_vars

\* A coroutine that can go on does; a server that lives reads its pipe and answers what
\* it was asked. Nothing obliges it to die, the callers to give up, or anybody to close.
FairSpec ==
  /\ Spec
  /\ \A c \in Caller : WF_vars(ClientStep(c))
  /\ \A id \in 1..MaxRequests : WF_vars(Answer(id))

-----------------------------------------------------------------------------
(* Properties.                                                             *)

\* A call that returns, returns the answer to its own request, also after calls
\* that were abandoned and whose answers arrive late (client.py 70-92).
OwnAnswer == \A c \in Caller : got[c] \in {0, Raised, reqId[c]}

\* An answer that came in a readable line is never lost and never doubled: it is on the
\* stream, buffered, or was returned by a call, one of the three (client.py 83-92); and
\* while calls never overlap nobody waits for an answer that has already been read.
AnswersAccounted ==
  /\ \A i, j \in DOMAIN stdout : i # j /\ stdout[i] > 0 => stdout[i] # stdout[j]
  /\ answered = (ToSet(stdout) \ {Notification, Broken}) \cup pending \cup taken
  /\ {ToSet(stdout) \cap pending, ToSet(stdout) \cap taken, pending \cap taken} = {{}}
  /\ ~overlapped => \A c \in Caller : Open(c) => reqId[c] \notin pending

\* A caller whose place as the reader's waiter was cleared by another that came out of
\* its own wait: no line and no end of the stream wakes it.
Orphan(c) == call[c] = "parked" /\ waiter # c

\* A call that shares the client with no other ends, whatever late answers and
\* notifications arrive before its own; and the end of the server ends every call,
\* those included that wait for an answer somebody else has buffered, but no orphan.
RequestEnds ==
  \A c \in Caller : /\ Open(c) ~> ~Open(c) \/ overlapped
                    /\ Open(c) /\ eof ~> ~Open(c) \/ Orphan(c)

\* client.py 47-49: an answer that arrives out of order is buffered until the
\* request with that id takes it.
BufferedIsTaken == \A c \in Caller : call[c] = "parked" => reqId[c] \notin pending
=============================================================================
