---------------------------- MODULE MCToolExecution ----------------------------
(***************************************************************************)
(* A batch of tool calls for TLC. Calls of one kind are interchangeable, and so *)
(* are handlers of one priority.                                             *)
(***************************************************************************)
EXTENDS ToolExecution, TLC

MCSymmetry ==
  UNION {Permutations(S) : S \in {Safe, Call \ Safe, Early, Handler \ Early}}
=============================================================================
