---------------------------- MODULE MCSelfUpdate ----------------------------
(* An instance of SelfUpdate for TLC.                                       *)
EXTENDS SelfUpdate, TLC
=============================================================================
