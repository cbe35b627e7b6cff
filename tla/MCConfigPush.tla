---------------------------- MODULE MCConfigPush ----------------------------
(* Instances of ConfigPush for TLC: model values and symmetry.              *)
EXTENDS ConfigPush, TLC

Symmetry == Permutations(Pushers) \cup Permutations(Conns)
=============================================================================
