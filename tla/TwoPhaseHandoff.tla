--------------------------- MODULE TwoPhaseHandoff ---------------------------
(***************************************************************************)
(* What the telemetry pull promises a site, without connections, pullers,  *)
(* batches or retries: a buffered reading is given up only once the        *)
(* Platform has settled it, and is never buffered again.                   *)
(***************************************************************************)
CONSTANT Readings  \* names of all the readings a site may ever take

VARIABLES
  buffered,  \* readings the site still holds
  settled,   \* readings of batches the Platform committed
  released   \* readings the site has given up

vars == <<buffered, settled, released>>

Init == buffered = {} /\ settled = {} /\ released = {}

Buffer(i) ==
  /\ i \notin buffered \cup released
  /\ buffered' = buffered \cup {i}
  /\ UNCHANGED <<settled, released>>

\* The Platform may settle what the site released meanwhile (a late duplicate).
Settle(S) ==
  /\ S \subseteq buffered \cup released
  /\ settled' = settled \cup S
  /\ UNCHANGED <<buffered, released>>

Release(S) ==
  /\ S \subseteq buffered \cap settled
  /\ buffered' = buffered \ S
  /\ released' = released \cup S
  /\ UNCHANGED settled

Next ==
  \/ \E i \in Readings : Buffer(i)
  \/ \E S \in SUBSET (buffered \cup released) : Settle(S)
  \/ \E S \in SUBSET buffered : Release(S)

Spec == Init /\ [][Next]_vars
=============================================================================
