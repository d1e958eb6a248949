---------------------------- MODULE ConversationLog ----------------------------
(***************************************************************************)
(* What a persistent session promises to its user, without compression:     *)
(* one growing log of messages, and a durable copy that is replaced by the  *)
(* whole log at each save. Nothing is ever removed, reordered or repeated;  *)
(* only a crash takes the log back, and then to the durable copy.           *)
(***************************************************************************)
EXTENDS Naturals, Sequences

VARIABLES log,       \* the messages of the conversation, numbered in order of issue
          durable,   \* the copy that survives a crash, and whether it is whole
          alive,     \* the process runs
          issued     \* messages issued in all lives

logVars == <<log, durable, alive, issued>>

Writing == [whole |-> FALSE, log |-> <<>>]

Init == log = <<>> /\ durable = [whole |-> TRUE, log |-> <<>>] /\ alive = TRUE /\ issued = 0

\* The next n messages are added, and a save may start with them.
Extend(n) ==
  /\ alive
  /\ log' = log \o [i \in 1..n |-> issued + i]
  /\ issued' = issued + n
  /\ durable' \in {durable, Writing}
  /\ UNCHANGED alive

BeginSave == alive /\ durable' = Writing /\ UNCHANGED <<log, alive, issued>>

EndSave == alive /\ durable = Writing /\ durable' = [whole |-> TRUE, log |-> log] /\ UNCHANGED <<log, alive, issued>>

Crash == alive /\ alive' = FALSE /\ log' = <<>> /\ UNCHANGED <<durable, issued>>

\* The conversation goes on from the durable copy; a copy cut short is of no use.
Resume ==
  /\ ~alive /\ durable.whole
  /\ alive' = TRUE /\ log' = durable.log
  /\ UNCHANGED <<durable, issued>>

Next == Extend(1) \/ Extend(2) \/ BeginSave \/ EndSave \/ Crash \/ Resume

Spec == Init /\ [][Next]_logVars
=============================================================================
