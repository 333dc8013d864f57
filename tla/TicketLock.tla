----------------------------- MODULE TicketLock -----------------------------
(***************************************************************************)
(* The ticketing spin lock of lib/ncutils_lock.h: a head and a tail        *)
(* counter of fixed width packed in one word.  Acquiring takes the ticket  *)
(* at the tail with one xadd and spins until the head shows it; releasing  *)
(* increments the head.  Both counters wrap.                               *)
(***************************************************************************)
EXTENDS Tickets, FiniteSets

CONSTANT Threads   \* the threads that use the lock

\* The code relies on a counter being able to number every thread
\* (TicketMod is 2^16 there).
ASSUME ThreadsAssumption == IsFiniteSet(Threads) /\ Cardinality(Threads) <= TicketMod

VARIABLES head,    \* tickets.head: the ticket being served
          tail,    \* tickets.tail: the next ticket to hand out
          pc,      \* where each thread is
          ticket   \* inc.tail: the ticket a thread drew

vars == <<head, tail, pc, ticket>>

TypeOK == /\ head \in Tickets
          /\ tail \in Tickets
          /\ pc \in [Threads -> {"idle", "spin", "cs"}]
          /\ ticket \in [Threads -> Tickets]

\* TicketInit
Init == /\ head = 0
        /\ tail = 0
        /\ pc = [t \in Threads |-> "idle"]
        /\ ticket = [t \in Threads |-> 0]

\* TicketAcquire up to the first comparison: the xadd returns both counters
\* and advances the tail.
TicketAcquire(t) ==
    /\ pc[t] = "idle"
    /\ ticket' = [ticket EXCEPT ![t] = tail]
    /\ tail' = Inc(tail)
    /\ pc' = [pc EXCEPT ![t] = IF head = tail THEN "cs" ELSE "spin"]
    /\ UNCHANGED head

\* Fault: the comparison is by order and not for equality.
TicketSpinAtLeast(t) ==
    /\ pc[t] = "spin"
    /\ head >= ticket[t]
    /\ pc' = [pc EXCEPT ![t] = "cs"]
    /\ UNCHANGED <<head, tail, ticket>>

\* The spin loop: a read of the head that does not show the thread's ticket
\* changes nothing.
TicketSpin(t) ==
    /\ pc[t] = "spin"
    /\ head = ticket[t]
    /\ pc' = [pc EXCEPT ![t] = "cs"]
    /\ UNCHANGED <<head, tail, ticket>>

\* Fault: the increment is by two tickets.
TicketReleaseTwo(t) ==
    /\ pc[t] = "cs"
    /\ head' = Inc(Inc(head))
    /\ pc' = [pc EXCEPT ![t] = "idle"]
    /\ ticket' = [ticket EXCEPT ![t] = 0]
    /\ UNCHANGED tail

TicketRelease(t) ==
    /\ pc[t] = "cs"
    /\ head' = Inc(head)
    /\ pc' = [pc EXCEPT ![t] = "idle"]
    /\ ticket' = [ticket EXCEPT ![t] = 0]
    /\ UNCHANGED tail

Step(t) == TicketSpin(t) \/ TicketRelease(t)

Next == \E t \in Threads : TicketAcquire(t) \/ Step(t)

\* A thread that spins or is inside keeps running; none is obliged to ask.
Fairness == \A t \in Threads : WF_vars(Step(t))

Spec == Init /\ [][Next]_vars

FairSpec == Spec /\ Fairness
-----------------------------------------------------------------------------
Active == {t \in Threads : pc[t] # "idle"}

\* Two threads never hold the lock together, whatever the counters' wrap
\* (TicketAcquire, TicketRelease).
MutualExclusion == \A t, u \in Threads : pc[t] = "cs" /\ pc[u] = "cs" => t = u

\* The counters and the tickets agree: the outstanding tickets are exactly
\* the ones between head and tail, no two threads have the same one, and
\* whoever is inside has the one at the head (head and tail are equal both
\* when the lock is free and when every ticket is out).
TicketsInLine ==
    /\ tail = Behind(head, Cardinality(Active))
    /\ \A t \in Active : Offset(head, ticket[t]) < Cardinality(Active)
    /\ \A t, u \in Active : ticket[t] = ticket[u] => t = u
    /\ \A t \in Active : pc[t] = "cs" => ticket[t] = head

\* The refinement mapping to the first-come-first-served lock.
Phase == [t \in Threads |->
            CASE pc[t] = "idle" -> "idle"
              [] pc[t] = "spin" -> "waiting"
              [] pc[t] = "cs"   -> "holding"]
Ahead == [t \in Threads |->
            IF t \in Active
            THEN {u \in Active : Offset(head, ticket[u]) < Offset(head, ticket[t])}
            ELSE {}]
Fifo == INSTANCE FifoLock WITH phase <- Phase, ahead <- Ahead

\* The lock serves threads in the order of their xadd on the tail.
FirstComeFirstServed == Fifo!FifoSpec

\* A thread that drew a ticket gets the lock.
NoStarvation == \A t \in Threads : pc[t] = "spin" ~> pc[t] = "cs"
=============================================================================
