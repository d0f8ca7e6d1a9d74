------------------------------ MODULE MCLedger -------------------------------
(* KegLedger for TLC. *)
EXTENDS KegLedger, TLC

(* A person is only told apart from another, and so is an ordinal. *)
Symmetry == Permutations(People) \cup Permutations(Ordinals)
===============================================================================
