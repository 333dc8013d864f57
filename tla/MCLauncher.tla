----------------------------- MODULE MCLauncher -----------------------------
\* Three nodes of two cores; node 1 is as near to 0 as to 2.
EXTENDS Launcher

MCNodeOf == [c \in 0 .. 5 |-> c \div 2]
MCDist ==
    [m \in 0 .. 2 |-> [n \in 0 .. 2 |->
        IF m = n THEN 10 ELSE IF 1 \in {m, n} THEN 16 ELSE 22]]
=============================================================================
