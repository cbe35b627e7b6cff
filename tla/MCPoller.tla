------------------------------ MODULE MCPoller ------------------------------
(* An instance of Poller for TLC: device sets of up to three registers that *)
(* touch, overlap, leave a gap, change the function code, exceed the limit  *)
(* or run past either end of the address space.                             *)
EXTENDS Poller, TLC

Register(address, fc, length) == [address |-> address, fc |-> fc, length |-> length, enabled |-> TRUE]

A == Register(1, 3, 1)
B == Register(2, 3, 2)
C == Register(2, 3, 1)
D == Register(4, 3, 1)
Far == Register(6, 3, 4)
Input == Register(3, 4, 1)
First == Register(0, 3, 1)
Final == Register(65535, 3, 2)
Off == [Register(5, 3, 1) EXCEPT !.enabled = FALSE]

Set(mode, limit, registers) == [mode |-> mode, limit |-> limit, registers |-> registers]

MCProfiles ==
  {Set(m[1], m[2], s) :
     m \in {<<"ZERO_BASED", 3>>, <<"ONE_BASED", 0>>},
     s \in {s \in SUBSET {A, B, C, D, Far, Input, First, Final, Off} : Cardinality(s) <= 4}}

\* Two blocks, one of two registers; a register out of range; none.
MCSwept ==
  {Set("ZERO_BASED", 3, {A, B, D}), Set("ONE_BASED", 0, {First, A}), Set("ONE_BASED", 0, {Off})}
=============================================================================
