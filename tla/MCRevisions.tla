----------------------------- MODULE MCRevisions -----------------------------
(* Instances of Revisions for TLC: model values and functions over them.    *)
EXTENDS Revisions, TLC
CONSTANTS p1, d1, x0, x1

MCAt == d1 :> p1
Symmetry == Permutations(Tab) \cup Permutations(File) \cup Permutations(Request)
MCUses == x0 :> {} @@ x1 :> {d1}
=============================================================================
