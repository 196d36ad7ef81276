------------------------ MODULE MC_EvidenceBundle ------------------------
(* Two files with two contents, two foreign writes and two builds: enough   *)
(* for a write to fall before, between and after the steps of a build and   *)
(* of a verification that overlap.                                          *)
EXTENDS EvidenceBundle, TLC

CONSTANTS p1, p2, c1, c2
MCPath == {p1, p2}
MCContent == {c1, c2}
Symmetry == Permutations(MCPath) \cup Permutations(MCContent)
=============================================================================
