---------------------------- MODULE MCQTicketLock ---------------------------
(* Instances of QTicketLock for TLC. *)
EXTENDS QTicketLock, TLC

CONSTANTS a, b   \* locks

HashZero == [l \in Locks |-> 0]

ThreadSymmetry == Permutations(Threads)
=============================================================================
