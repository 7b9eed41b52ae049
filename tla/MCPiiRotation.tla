-------------------------- MODULE MCPiiRotation --------------------------
(***************************************************************************)
(* PiiRotation for TLC: two cities, two replicas' rotation workers and     *)
(* jobs for versions 2 and 3, over a seeded version 1.                     *)
(***************************************************************************)
EXTENDS PiiRotation, TLC

CONSTANTS c1, c2, j1, j2, w1, w2, s1

MCCity == {c1, c2}
MCVersion == 1..3
MCJob == {j1, j2}
MCJobVersion == (j1 :> 2) @@ (j2 :> 3)
MCRotator == {w1, w2}
MCSweeper == {s1}
Symmetry == Permutations(MCCity) \cup Permutations(MCRotator)

=============================================================================
