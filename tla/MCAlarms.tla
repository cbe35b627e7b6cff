------------------------------ MODULE MCAlarms ------------------------------
(* Alarms with interchangeable pullers and users. *)
EXTENDS Alarms, TLC

MCConditions == {{"bad"}}
MCAlarmSets  == {{"bad"}}

Symmetry == Permutations(Pullers) \cup Permutations(Users)
=============================================================================
