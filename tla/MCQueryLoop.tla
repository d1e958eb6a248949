------------------------------ MODULE MCQueryLoop ------------------------------
(***************************************************************************)
(* The configurations of a session that TLC checks.                         *)
(***************************************************************************)
EXTENDS QueryLoopProperties

\* A strategy with the in-memory store: aborts, torn files, a crash and a resumption.
Stored ==
  [compressor |-> "strategy", store |-> "bucket", bound |-> TRUE,
   entries |-> {"chat"}, tools |-> {"plain"}, memory |-> FALSE,
   trigger |-> 2, failures |-> 1, turns |-> 1, calls |-> 3, crashes |-> 1]

\* Several turns of the loop in one call, so that one call compresses between its rounds.
Rounds == [Stored EXCEPT !.turns = 3, !.calls = 2, !.crashes = 0, !.trigger = 1]

\* The in-memory store was not told of the session until it is resumed.
Unbound == [Stored EXCEPT !.bound = FALSE]

\* An external store, and run() as well; no crash, so that more calls interleave.
External ==
  [Stored EXCEPT !.store = "external", !.entries = {"chat", "run"},
                 !.trigger = 1, !.crashes = 0]

Legacy == [External EXCEPT !.compressor = "legacy"]

\* Freed and recalled results, and the versions of the working memory.
Context ==
  [Stored EXCEPT !.tools = {"plain", "free", "recall"}, !.memory = TRUE,
                 !.trigger = 1, !.turns = 2, !.calls = 2]

LegacyContext == [Context EXCEPT !.compressor = "legacy"]

MCSetups == {Stored, Rounds, Unbound, External, Legacy, Context, LegacyContext}
TornSetups == {Stored}
=============================================================================
