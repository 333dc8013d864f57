------------------------------ MODULE FifoLock ------------------------------
(***************************************************************************)
(* What a first-come-first-served lock promises.  A thread that arrives    *)
(* queues behind every thread that is present; it may enter once none of   *)
(* the threads that were present when it arrived is still present.         *)
(***************************************************************************)
CONSTANT Threads

VARIABLES phase,  \* what each thread is doing with the lock
          ahead   \* the threads that arrived before it and are still present

fifoVars == <<phase, ahead>>

FifoTypeOK == /\ phase \in [Threads -> {"idle", "waiting", "holding"}]
              /\ ahead \in [Threads -> SUBSET Threads]

FifoInit == /\ phase = [t \in Threads |-> "idle"]
            /\ ahead = [t \in Threads |-> {}]

Present == {t \in Threads : phase[t] # "idle"}

\* An arrival may find the lock free and hold it at once.
Arrive(t) ==
    /\ phase[t] = "idle"
    /\ ahead' = [ahead EXCEPT ![t] = Present]
    /\ phase' = [phase EXCEPT ![t] = IF Present = {} THEN "holding" ELSE "waiting"]

Enter(t) ==
    /\ phase[t] = "waiting"
    /\ ahead[t] = {}
    /\ phase' = [phase EXCEPT ![t] = "holding"]
    /\ UNCHANGED ahead

Leave(t) ==
    /\ phase[t] = "holding"
    /\ phase' = [phase EXCEPT ![t] = "idle"]
    /\ ahead' = [u \in Threads |-> ahead[u] \ {t}]

FifoNext == \E t \in Threads : Arrive(t) \/ Enter(t) \/ Leave(t)

FifoSpec == FifoInit /\ [][FifoNext]_fifoVars
=============================================================================
