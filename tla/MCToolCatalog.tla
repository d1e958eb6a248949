---- MODULE MCToolCatalog ----
(***************************************************************************)
(* Two servers, the name of one a prefix of the name of the other.           *)
(***************************************************************************)
EXTENDS ToolCatalog, TLC

MCServer == {"a", "a__b"}
MCPrefix == {<<"a", "a">>, <<"a", "a__b">>, <<"a__b", "a__b">>}

\* Connections and sessions are interchangeable.
MCSymmetry == Permutations(Conn) \cup Permutations(Session)
====
