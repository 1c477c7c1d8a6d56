------------------------------- MODULE MCLedger -------------------------------
(* Symmetry for checking Ledger with TLC. *)
EXTENDS Ledger, TLC

Symmetry == Permutations(Sessions) \cup Permutations(Ids)
=============================================================================
