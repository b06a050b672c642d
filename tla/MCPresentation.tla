--------------------------- MODULE MCPresentation ---------------------------
(* Two agents, a home without and a cafe with two slots: one agent can     *)
(* take a slot another leaves in the same minute, and a pair can share.    *)
EXTENDS Presentation, TLC

CONSTANTS n1, n2, home, cafe, s1, s2

MCPlaceOf == s1 :> cafe @@ s2 :> cafe
Symmetry == Permutations({n1, n2}) \cup Permutations({s1, s2})
=============================================================================
