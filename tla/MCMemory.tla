------------------------------- MODULE MCMemory --------------------------------
(***************************************************************************)
(* Two sessions that are interchangeable, and two topics that are.           *)
(***************************************************************************)
EXTENDS Memory, TLC

MCSymmetry == Permutations(Session) \cup Permutations(Topic)
=============================================================================
