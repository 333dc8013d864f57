------------------------------ MODULE MCNcAlloc -----------------------------
(* Instances of NcAlloc for TLC: blocks of 1024 bytes with two chunks, and  *)
(* the promises of the sizes at their true values.                          *)
EXTENDS NcAlloc

CONSTANTS main, w1, w2

Real == INSTANCE NcSizes WITH BlkSize <- 2097152, AdjustMin <- 65536

\* The sizes around every bin boundary, with the last small one.
Boundaries == {s \in {2^k * m + d : k \in 3 .. 19, m \in {2, 3}, d \in -20 .. 20} \cup
                     {Real!SmallMax - 1, Real!SmallMax} \cup 0 .. 64 :
                  s \in 0 .. Real!SmallMax}

ASSUME RealSizes == \A s \in Boundaries : Real!BinServes(s)

\* At the true sizes the requests of one bin get chunks of one size, but for the
\* one of 65520 bytes.
RealBin(n) == {s \in Boundaries \ {65520} : Real!BinNdx(s) = n}

ASSUME RealBinsAgree == \A n \in 0 .. 32 : Cardinality({Real!BinSize(s) : s \in RealBin(n)}) <= 1

\* The sizes of the instance are as the proofs assume.
ASSUME InstanceBinsAgree == BinsAgree
=============================================================================
