--------------------------- MODULE MCConfigCache ---------------------------
(* An instance of ConfigCache for TLC; its actors are model values.         *)
EXTENDS ConfigCache, TLC
=============================================================================
