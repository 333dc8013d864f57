----------------------------- MODULE QTicketLock ----------------------------
(***************************************************************************)
(* The dynamic queue based ticket lock: QTicketAcquire and QTicketRelease  *)
(* of lib/ncutils_lock.h and all of lib/tktqlock.c.  A lock starts as a    *)
(* ticket lock; a thread that finds enough others in front of it attaches  *)
(* one of the shared queue slots to the lock and the threads then wait     *)
(* each on its own queue element; a release that finds the queue empty     *)
(* and no ticket outstanding detaches the slot again.                      *)
(*                                                                         *)
(* One action is one access to shared memory (an atomic instruction, a     *)
(* read or a store), with the thread-local work that follows it.  Tickets  *)
(* count in units: the code steps head and tail by two and keeps "this     *)
(* lock has a queue" in bit 0 of head; here the counter is head and the    *)
(* bit is queued, always read and written in one access.  A struct tkt_q   *)
(* lives on the stack of the one do_spin call its thread is in, so it is   *)
(* named by the thread.                                                    *)
(***************************************************************************)
EXTENDS Tickets, FiniteSets

CONSTANTS Threads,
          Locks,
          NQueues,   \* TKT_Q_NQUEUES: how many slots the locks share
          Switch,    \* TKT_Q_SWITCH in tickets: waiters that motivate a queue
          Hash,      \* tkt_q_hash: the slot at which the search for a lock starts
          NULL,      \* the null pointer
          BUSY       \* the pointer 0x1: a slot taken but not yet set up

Slots == 0 .. NQueues - 1

ASSUME QLockAssumption ==
    /\ IsFiniteSet(Threads)
    /\ Cardinality(Threads) <= TicketMod
    /\ NQueues \in Nat \ {0}
    /\ Switch \in Nat \ {0}
    /\ Hash \in [Locks -> Slots]
    /\ NULL \notin Threads \cup Locks
    /\ BUSY \notin Threads \cup Locks
    /\ NULL # BUSY

VARIABLES
    head, queued, tail,             \* the lock words
    ref, headTkt, spin, spinTail,   \* tkt_q_heads; spinTail NULL is &spin, t is &tq.next of t
    next, woken,                    \* the queue elements; woken is cpu = -1
    pc,                             \* where each thread is
    lk, tkt,                        \* the lock it is at and its ticket, inc.tail
    slot,                           \* the slot it looks at, i or tqhp
    old,                            \* asold, the lock word read before a CAS
    ptr                             \* oldtail of an enqueue, or tqp of a wake

lockVars == <<head, queued, tail>>
slotVars == <<ref, headTkt, spin, spinTail>>
elemVars == <<next, woken>>
argVars  == <<lk, tkt>>
vars == <<lockVars, slotVars, elemVars, argVars, pc, slot, old, ptr>>

NoTicket == -1

NoWord == [head |-> 0, queued |-> FALSE, tail |-> 0]

Word(l) == [head |-> head[l], queued |-> queued[l], tail |-> tail[l]]

\* QTicketAcquire with tkt_spin_pass, tkt_q_start_contend with
\* tkt_q_init_contend, tkt_q_do_spin with tkt_q_find_head.
PassPCs == {"spin", "contend", "bitcheck", "initspin", "inittail", "readlock",
            "setbit", "publish", "backout", "find", "check", "claim"}
QueuePCs == {"enqueue", "link", "wait", "clear", "resettail", "waitnext", "advance"}
\* tkt_q_do_wake with tkt_q_find_head and tkt_q_try_unqueue.
WakePCs == {"wakefind", "wakespin", "wakeread", "wakecas", "wakefree", "waketkt",
            "handoff"}

TypeOK ==
    /\ head \in [Locks -> Tickets]
    /\ queued \in [Locks -> BOOLEAN]
    /\ tail \in [Locks -> Tickets]
    /\ ref \in [Slots -> Locks \cup {NULL, BUSY}]
    /\ headTkt \in [Slots -> Tickets \cup {NoTicket}]
    /\ spin \in [Slots -> Threads \cup {NULL}]
    /\ spinTail \in [Slots -> Threads \cup {NULL}]
    /\ next \in [Threads -> Threads \cup {NULL}]
    /\ woken \in [Threads -> BOOLEAN]
    /\ pc \in [Threads -> {"idle", "cs"} \cup PassPCs \cup QueuePCs \cup WakePCs]
    /\ lk \in [Threads -> Locks \cup {NULL}]
    /\ \A t \in Threads : pc[t] # "idle" => lk[t] \in Locks
    /\ tkt \in [Threads -> Tickets]
    /\ slot \in [Threads -> Slots]
    /\ old \in [Threads -> [head : Tickets, queued : BOOLEAN, tail : Tickets]]
    /\ ptr \in [Threads -> Threads \cup {NULL}]
    /\ \A t \in Threads : pc[t] \in {"waketkt", "handoff"} => ptr[t] \in Threads

\* Every lock after TicketInit; tkt_q_heads and the rest are zero.
Init ==
    /\ head = [l \in Locks |-> 0]
    /\ queued = [l \in Locks |-> FALSE]
    /\ tail = [l \in Locks |-> 0]
    /\ ref = [s \in Slots |-> NULL]
    /\ headTkt = [s \in Slots |-> 0]
    /\ spin = [s \in Slots |-> NULL]
    /\ spinTail = [s \in Slots |-> NULL]
    /\ next = [t \in Threads |-> NULL]
    /\ woken = [t \in Threads |-> FALSE]
    /\ pc = [t \in Threads |-> "idle"]
    /\ lk = [t \in Threads |-> NULL]
    /\ tkt = [t \in Threads |-> 0]
    /\ slot = [t \in Threads |-> 0]
    /\ old = [t \in Threads |-> NoWord]
    /\ ptr = [t \in Threads |-> NULL]

Goto(t, label) == pc' = [pc EXCEPT ![t] = label]

\* tkt_q_next_slot
NextSlot(i) == IF i + 1 < NQueues THEN i + 1 ELSE 0

\* One comparison of tkt_q_find_head and what the caller does with the answer.
FindHead(t, found, missing) ==
    LET l == lk[t] IN
    IF ref[slot[t]] = l
    THEN Goto(t, found) /\ UNCHANGED slot
    ELSE IF NextSlot(slot[t]) # Hash[l]
         THEN slot' = [slot EXCEPT ![t] = NextSlot(@)] /\ UNCHANGED pc
         ELSE slot' = [slot EXCEPT ![t] = Hash[l]] /\ Goto(t, missing)
-----------------------------------------------------------------------------
\* What a thread does with the head h and bit q it has just read, when its
\* ticket is k: hold the lock, or tkt_spin_pass.
AfterRead(h, q, k) ==
    CASE ~q /\ h = k              -> "cs"
      [] q                        -> "find"
      [] ~q /\ h # k /\ k - Switch = h -> "contend"
      [] OTHER                    -> "spin"

\* The xadd of QTicketAcquire.
QTicketAcquire(t, l) ==
    /\ pc[t] = "idle"
    /\ lk' = [lk EXCEPT ![t] = l]
    /\ tkt' = [tkt EXCEPT ![t] = tail[l]]
    /\ slot' = [slot EXCEPT ![t] = Hash[l]]
    /\ tail' = [tail EXCEPT ![l] = Inc(@)]
    /\ Goto(t, AfterRead(head[l], queued[l], tail[l]))
    /\ UNCHANGED <<head, queued, slotVars, elemVars, old, ptr>>

\* Another turn of the loop of QTicketAcquire.
SpinOnTicket(t) ==
    /\ pc[t] = "spin"
    /\ AfterRead(head[lk[t]], queued[lk[t]], tkt[t]) # "spin"
    /\ Goto(t, AfterRead(head[lk[t]], queued[lk[t]], tkt[t]))
    /\ slot' = [slot EXCEPT ![t] = Hash[lk[t]]]
    /\ UNCHANGED <<lockVars, slotVars, elemVars, argVars, old, ptr>>
-----------------------------------------------------------------------------
\* tkt_q_start_contend: take the slot with a CAS from NULL to 0x1.
TakeSlot(t) ==
    /\ pc[t] = "contend"
    /\ IF ref[slot[t]] = NULL
       THEN ref' = [ref EXCEPT ![slot[t]] = BUSY] /\ Goto(t, "initspin")
       ELSE Goto(t, "bitcheck") /\ UNCHANGED ref
    /\ UNCHANGED <<lockVars, headTkt, spin, spinTail, elemVars, argVars, slot, old, ptr>>

\* The slot was taken: use the queue if there is one by now, else try the
\* next slot, and after the last one spin on the ticket.
BitCheck(t) ==
    /\ pc[t] = "bitcheck"
    /\ LET l == lk[t] IN
       IF queued[l]
       THEN slot' = [slot EXCEPT ![t] = Hash[l]] /\ Goto(t, "find")
       ELSE /\ slot' = [slot EXCEPT ![t] = NextSlot(@)]
            /\ Goto(t, IF NextSlot(slot[t]) # Hash[l] THEN "contend" ELSE "spin")
    /\ UNCHANGED <<lockVars, slotVars, elemVars, argVars, old, ptr>>

\* tkt_q_init_contend: empty the slot's queue.
InitSpin(t) ==
    /\ pc[t] = "initspin"
    /\ spin' = [spin EXCEPT ![slot[t]] = NULL]
    /\ Goto(t, "inittail")
    /\ UNCHANGED <<lockVars, ref, headTkt, spinTail, elemVars, argVars, slot, old, ptr>>

InitTail(t) ==
    /\ pc[t] = "inittail"
    /\ spinTail' = [spinTail EXCEPT ![slot[t]] = NULL]
    /\ Goto(t, "readlock")
    /\ UNCHANGED <<lockVars, ref, headTkt, spin, elemVars, argVars, slot, old, ptr>>

\* Read the lock word; without a queue record its head in head_tkt.
ReadLock(t) ==
    /\ pc[t] = "readlock"
    /\ LET l == lk[t] IN
       IF queued[l]
       THEN Goto(t, "backout") /\ UNCHANGED <<old, headTkt>>
       ELSE /\ old' = [old EXCEPT ![t] = Word(l)]
            /\ headTkt' = [headTkt EXCEPT ![slot[t]] = head[l]]
            /\ Goto(t, "setbit")
    /\ UNCHANGED <<lockVars, ref, spin, spinTail, elemVars, argVars, slot, ptr>>

\* Fault: the slot is kept when someone else has attached a queue.
BackOutKeepSlot(t) ==
    /\ pc[t] = "backout"
    /\ slot' = [slot EXCEPT ![t] = Hash[lk[t]]]
    /\ Goto(t, "find")
    /\ UNCHANGED <<lockVars, slotVars, elemVars, argVars, old, ptr>>

\* Someone else attached a queue: give the slot back and use theirs.
BackOut(t) ==
    /\ pc[t] = "backout"
    /\ ref' = [ref EXCEPT ![slot[t]] = NULL]
    /\ slot' = [slot EXCEPT ![t] = Hash[lk[t]]]
    /\ Goto(t, "find")
    /\ UNCHANGED <<lockVars, headTkt, spin, spinTail, elemVars, argVars, old, ptr>>

\* The CAS that says "this lock has a queue".
SetBit(t) ==
    /\ pc[t] = "setbit"
    /\ IF Word(lk[t]) = old[t]
       THEN queued' = [queued EXCEPT ![lk[t]] = TRUE] /\ Goto(t, "publish")
       ELSE Goto(t, "readlock") /\ UNCHANGED queued
    /\ old' = [old EXCEPT ![t] = NoWord]
    /\ UNCHANGED <<head, tail, slotVars, elemVars, argVars, slot, ptr>>

Publish(t) ==
    /\ pc[t] = "publish"
    /\ ref' = [ref EXCEPT ![slot[t]] = lk[t]]
    /\ slot' = [slot EXCEPT ![t] = Hash[lk[t]]]
    /\ Goto(t, "find")
    /\ UNCHANGED <<lockVars, headTkt, spin, spinTail, elemVars, argVars, old, ptr>>
-----------------------------------------------------------------------------
\* tkt_q_do_spin: look for the queue; without one go back to the ticket.
SpinFind(t) ==
    /\ pc[t] = "find"
    /\ FindHead(t, "check", "spin")
    /\ UNCHANGED <<lockVars, slotVars, elemVars, argVars, old, ptr>>

\* Initialise the element, then see whether head_tkt is the own ticket: the
\* last holder left before the queue formed.
SpinCheck(t) ==
    /\ pc[t] = "check"
    /\ next' = [next EXCEPT ![t] = NULL]
    /\ woken' = [woken EXCEPT ![t] = FALSE]
    /\ Goto(t, IF headTkt[slot[t]] = tkt[t] THEN "claim" ELSE "enqueue")
    /\ UNCHANGED <<lockVars, slotVars, argVars, slot, old, ptr>>

Claim(t) ==
    /\ pc[t] = "claim"
    /\ headTkt' = [headTkt EXCEPT ![slot[t]] = NoTicket]
    /\ Goto(t, "cs")
    /\ UNCHANGED <<lockVars, ref, spin, spinTail, elemVars, argVars, slot, old, ptr>>

\* The exchange of spin_tail.
Enqueue(t) ==
    /\ pc[t] = "enqueue"
    /\ ptr' = [ptr EXCEPT ![t] = spinTail[slot[t]]]
    /\ spinTail' = [spinTail EXCEPT ![slot[t]] = t]
    /\ Goto(t, "link")
    /\ UNCHANGED <<lockVars, ref, headTkt, spin, elemVars, argVars, slot, old>>

\* *oldtail = &tq: into the slot's spin, or into the predecessor's next.
Link(t) ==
    /\ pc[t] = "link"
    /\ IF ptr[t] = NULL
       THEN spin' = [spin EXCEPT ![slot[t]] = t] /\ UNCHANGED next
       ELSE next' = [next EXCEPT ![ptr[t]] = t] /\ UNCHANGED spin
    /\ ptr' = [ptr EXCEPT ![t] = NULL]
    /\ Goto(t, "wait")
    /\ UNCHANGED <<lockVars, ref, headTkt, spinTail, woken, argVars, slot, old>>

\* The hand-off has come; is there a successor yet?
Wait(t) ==
    /\ pc[t] = "wait"
    /\ woken[t]
    /\ Goto(t, IF next[t] = NULL THEN "clear" ELSE "advance")
    /\ UNCHANGED <<lockVars, slotVars, elemVars, argVars, slot, old, ptr>>

Clear(t) ==
    /\ pc[t] = "clear"
    /\ spin' = [spin EXCEPT ![slot[t]] = NULL]
    /\ Goto(t, "resettail")
    /\ UNCHANGED <<lockVars, ref, headTkt, spinTail, elemVars, argVars, slot, old, ptr>>

\* Fault: the tail is pointed back at the head without a comparison.
ResetTailNoCas(t) ==
    /\ pc[t] = "resettail"
    /\ spinTail' = [spinTail EXCEPT ![slot[t]] = NULL]
    /\ Goto(t, "cs")
    /\ UNCHANGED <<lockVars, ref, headTkt, spin, elemVars, argVars, slot, old, ptr>>

\* The CAS that points spin_tail back at spin, if nobody has queued behind.
ResetTail(t) ==
    /\ pc[t] = "resettail"
    /\ IF spinTail[slot[t]] = t
       THEN spinTail' = [spinTail EXCEPT ![slot[t]] = NULL] /\ Goto(t, "cs")
       ELSE Goto(t, "waitnext") /\ UNCHANGED spinTail
    /\ UNCHANGED <<lockVars, ref, headTkt, spin, elemVars, argVars, slot, old, ptr>>

WaitNext(t) ==
    /\ pc[t] = "waitnext"
    /\ next[t] # NULL
    /\ Goto(t, "advance")
    /\ UNCHANGED <<lockVars, slotVars, elemVars, argVars, slot, old, ptr>>

Advance(t) ==
    /\ pc[t] = "advance"
    /\ spin' = [spin EXCEPT ![slot[t]] = next[t]]
    /\ Goto(t, "cs")
    /\ UNCHANGED <<lockVars, ref, headTkt, spinTail, elemVars, argVars, slot, old, ptr>>
-----------------------------------------------------------------------------
\* Locals of a call that has returned.
Return(t) ==
    /\ Goto(t, "idle")
    /\ lk' = [lk EXCEPT ![t] = NULL]
    /\ tkt' = [tkt EXCEPT ![t] = 0]
    /\ slot' = [slot EXCEPT ![t] = 0]
    /\ next' = [next EXCEPT ![t] = NULL]

\* QTicketRelease: the xadd on head returns the bit as well.
QTicketRelease(t) ==
    /\ pc[t] = "cs"
    /\ LET l == lk[t] IN
       /\ head' = [head EXCEPT ![l] = Inc(@)]
       /\ IF queued[l]
          THEN /\ Goto(t, "wakefind")
               /\ slot' = [slot EXCEPT ![t] = Hash[l]]
               /\ UNCHANGED <<argVars, next>>
          ELSE Return(t)
    /\ woken' = [woken EXCEPT ![t] = FALSE]
    /\ UNCHANGED <<queued, tail, slotVars, old, ptr>>

\* tkt_q_do_wake: wait for the queue to be set up.
WakeFind(t) ==
    /\ pc[t] = "wakefind"
    /\ FindHead(t, "wakespin", "wakefind")
    /\ UNCHANGED <<lockVars, slotVars, elemVars, argVars, old, ptr>>

\* The first element, if there is one.
WakeSpin(t) ==
    /\ pc[t] = "wakespin"
    /\ ptr' = [ptr EXCEPT ![t] = spin[slot[t]]]
    /\ Goto(t, IF spin[slot[t]] # NULL THEN "waketkt" ELSE "wakeread")
    /\ UNCHANGED <<lockVars, slotVars, elemVars, argVars, slot, old>>

\* tkt_q_try_unqueue: only without outstanding tickets.
WakeRead(t) ==
    /\ pc[t] = "wakeread"
    /\ IF head[lk[t]] = tail[lk[t]]
       THEN old' = [old EXCEPT ![t] = Word(lk[t])] /\ Goto(t, "wakecas")
       ELSE Goto(t, "wakespin") /\ UNCHANGED old
    /\ UNCHANGED <<lockVars, slotVars, elemVars, argVars, slot, ptr>>

WakeCas(t) ==
    /\ pc[t] = "wakecas"
    /\ IF Word(lk[t]) = old[t]
       THEN queued' = [queued EXCEPT ![lk[t]] = FALSE] /\ Goto(t, "wakefree")
       ELSE Goto(t, "wakespin") /\ UNCHANGED queued
    /\ old' = [old EXCEPT ![t] = NoWord]
    /\ UNCHANGED <<head, tail, slotVars, elemVars, argVars, slot, ptr>>

WakeFree(t) ==
    /\ pc[t] = "wakefree"
    /\ ref' = [ref EXCEPT ![slot[t]] = NULL]
    /\ Return(t)
    /\ UNCHANGED <<lockVars, headTkt, spin, spinTail, woken, old, ptr>>

\* Fault: head_tkt keeps the ticket of a holder that has left.
WakeTktKeep(t) ==
    /\ pc[t] = "waketkt"
    /\ Goto(t, "handoff")
    /\ UNCHANGED <<lockVars, slotVars, elemVars, argVars, slot, old, ptr>>

WakeTkt(t) ==
    /\ pc[t] = "waketkt"
    /\ headTkt' = [headTkt EXCEPT ![slot[t]] = NoTicket]
    /\ Goto(t, "handoff")
    /\ UNCHANGED <<lockVars, ref, spin, spinTail, elemVars, argVars, slot, old, ptr>>

\* Fault: the thread at the head of the queue is not told.
HandOffSilent(t) ==
    /\ pc[t] = "handoff"
    /\ ptr' = [ptr EXCEPT ![t] = NULL]
    /\ Return(t)
    /\ UNCHANGED <<lockVars, slotVars, woken, old>>

HandOff(t) ==
    /\ pc[t] = "handoff"
    /\ woken' = [woken EXCEPT ![ptr[t]] = TRUE]
    /\ ptr' = [ptr EXCEPT ![t] = NULL]
    /\ Return(t)
    /\ UNCHANGED <<lockVars, slotVars, old>>
-----------------------------------------------------------------------------
Step(t) ==
    \/ SpinOnTicket(t) \/ TakeSlot(t) \/ BitCheck(t) \/ InitSpin(t) \/ InitTail(t)
    \/ ReadLock(t) \/ BackOut(t) \/ SetBit(t) \/ Publish(t) \/ SpinFind(t)
    \/ SpinCheck(t) \/ Claim(t) \/ Enqueue(t) \/ Link(t) \/ Wait(t) \/ Clear(t)
    \/ ResetTail(t) \/ WaitNext(t) \/ Advance(t) \/ QTicketRelease(t) \/ WakeFind(t)
    \/ WakeSpin(t) \/ WakeRead(t) \/ WakeCas(t) \/ WakeFree(t) \/ WakeTkt(t)
    \/ HandOff(t)

Next == \E t \in Threads : Step(t) \/ \E l \in Locks : QTicketAcquire(t, l)

\* The scheduler runs every thread that is inside a lock operation, and a
\* critical section ends; no thread is obliged to ask for the lock.
Fairness == \A t \in Threads : WF_vars(Step(t))

Spec == Init /\ [][Next]_vars

FairSpec == Spec /\ Fairness
-----------------------------------------------------------------------------
\* Threads with an outstanding ticket of l: past the xadd on tail and not
\* yet past the xadd on head.
Outstanding(l) == {t \in Threads : lk[t] = l /\ pc[t] \notin {"idle"} \cup WakePCs}

\* Two threads never hold the same lock together.
MutualExclusion ==
    \A t, u \in Threads : pc[t] = "cs" /\ pc[u] = "cs" /\ lk[t] = lk[u] => t = u

\* head and tail differ by the number of threads that wait or hold, queue or
\* no queue: this is what lets tkt_q_try_unqueue read "nobody waits" from them.
TicketsAccountForThreads ==
    \A l \in Locks : tail[l] = Behind(head[l], Cardinality(Outstanding(l)))

\* No pointer outlives the stack frame of the element it points to: spin,
\* spin_tail, next and the element a waker is about to write to all belong
\* to a thread that is still inside tkt_q_do_spin on that slot.
NoDanglingElement ==
    /\ \A s \in Slots : \A t \in {spin[s], spinTail[s]} \ {NULL} :
          pc[t] \in QueuePCs /\ slot[t] = s
    /\ \A t \in Threads : pc[t] \in QueuePCs /\ next[t] # NULL =>
          pc[next[t]] \in QueuePCs /\ slot[next[t]] = slot[t]
    /\ \A t \in Threads : ptr[t] # NULL =>
          pc[ptr[t]] \in QueuePCs /\ slot[ptr[t]] = slot[t]

\* When no thread is inside a lock operation every lock is a plain ticket
\* lock again and every slot has been given back.
SlotsComeBack ==
    (\A t \in Threads : pc[t] = "idle") =>
        /\ \A l \in Locks : ~queued[l] /\ head[l] = tail[l]
        /\ \A s \in Slots : ref[s] = NULL

\* A thread that drew a ticket gets the lock.
NoStarvation ==
    \A t \in Threads : pc[t] \in PassPCs \cup QueuePCs ~> pc[t] = "cs"
=============================================================================
