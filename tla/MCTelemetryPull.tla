--------------------------- MODULE MCTelemetryPull ---------------------------
(* Instances of TelemetryPull for TLC: model values and symmetry.           *)
EXTENDS TelemetryPull, TLC

Symmetry == Permutations(Devices) \cup Permutations(Conns)
=============================================================================
