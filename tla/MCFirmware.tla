------------------------------ MODULE MCFirmware ------------------------------
(***************************************************************************)
(* Firmware for TLC.                                                       *)
(***************************************************************************)
EXTENDS Firmware, TLC

(* Session identities are only compared. *)
Symmetry == Permutations(Sids)
===============================================================================
