------------------------------ MODULE MCMedia --------------------------------
(* MediaStore for TLC. *)
EXTENDS MediaStore, TLC

(* An upload is only told apart from another. *)
Symmetry == Permutations(Uploads)
===============================================================================
