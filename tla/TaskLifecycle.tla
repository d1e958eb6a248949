----------------------------- MODULE TaskLifecycle -----------------------------
(***************************************************************************)
(* What the TaskTracker promises to whoever lists tasks: a task is unknown,  *)
(* then active, then ends with one status that never changes, and may be    *)
(* forgotten only after it has ended.                                      *)
(***************************************************************************)
CONSTANT Task

VARIABLE status

vars == <<status>>

Ended == {"completed", "failed", "cancelled"}

Init == status = [t \in Task |-> "unknown"]

Start(t) == status[t] = "unknown" /\ status' = [status EXCEPT ![t] = "active"]

End(t) == status[t] = "active" /\ \E s \in Ended : status' = [status EXCEPT ![t] = s]

Forget(old) == /\ \A t \in old : status[t] \in Ended
               /\ status' = [t \in Task |-> IF t \in old THEN "forgotten" ELSE status[t]]

Next == (\E t \in Task : Start(t) \/ End(t)) \/ (\E old \in SUBSET Task : Forget(old))

Spec == Init /\ [][Next]_vars
=============================================================================
