----------------------------- MODULE MCAccounts -----------------------------
(* Accounts with interchangeable sessions, links and requests. *)
EXTENDS Accounts, TLC

MCOffers == {{"user", "role"}, {"plant"}}

Symmetry == Permutations(Session) \cup Permutations(Token) \cup Permutations(Request)
=============================================================================
