---------------------------- MODULE MCBteTransfer ---------------------------
(* Instances of BteTransfer for TLC: blocks of 4 dwords, pages of 8. *)
EXTENDS BteTransfer

\* Physically contiguous, scattered, and a descending pair.
TwoPages == {<<3, 4>>, <<3, 6>>, <<6, 3>>}
=============================================================================
