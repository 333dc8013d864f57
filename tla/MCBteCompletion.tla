--------------------------- MODULE MCBteCompletion --------------------------
(* Instances of BteCompletion for TLC.  The chips are alike. *)
EXTENDS BteCompletion, TLC

ChipSymmetry == Permutations(Chips)
=============================================================================
