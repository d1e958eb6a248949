------------------------------ MODULE MCTelemetry ------------------------------
(***************************************************************************)
(* Two cases with one provider call each, and a chat of two turns.          *)
(***************************************************************************)
EXTENDS Telemetry, TLC

CONSTANTS e1, e2, a1

MCCase == {e1, e2}
MCChat == {a1}
MCMaxTurns == [c \in MCCase \cup MCChat |-> IF c = a1 THEN 2 ELSE 1]
MCSymmetry == Permutations(MCCase)
=============================================================================
