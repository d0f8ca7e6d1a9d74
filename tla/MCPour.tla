---------------------------- MODULE MCPour ----------------------------------
(* PourSystem for TLC. *)
EXTENDS PourSystem, TLC

(* Session identities are only compared. *)
Symmetry == Permutations(Sids)
===============================================================================
