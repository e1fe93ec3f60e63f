-------------------------- MODULE MCPolicyLifecycle --------------------------
(* Instances of PolicyLifecycle for TLC. *)
EXTENDS PolicyLifecycle, TLC

UserSymmetry == Permutations(Users) \cup Permutations(Requests)

\* A node alone is a clean graph, two unconnected ones are not; an edge from
\* a human node to itself is clean, an edge without its node dangles.
PlainAndFin == {"plain", "fin"}
OnlyPlain   == {"plain"}
OnlyFin     == {"fin"}
SelfLoop    == {"loop"}
CleanPairs  == {{"plain"}, {"fin"}}
CleanLoop   == {{"plain"}, {"plain", "loop"}}
None        == {}

\* Where no node is financial, nothing that OneActive and FewLateEdits speak
\* of depends on the people or the dossier.
RaceView == <<status, content, late, req>>
=============================================================================
