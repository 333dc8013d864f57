-------------------------- MODULE QTicketLockProofs -------------------------
(***************************************************************************)
(* Facts about the queue based ticket lock.  For any threads, locks and    *)
(* number of slots: every variable keeps its type, and the distance        *)
(* between head and tail is the number of threads that wait for the lock   *)
(* or hold it, which is what tkt_q_try_unqueue relies on when it takes     *)
(* head = tail to mean that nobody waits.  With one slot, or with no more  *)
(* threads than it takes to make one of them ask for a queue: exclusion,   *)
(* no pointer to an element that is gone, and every slot comes back.       *)
(***************************************************************************)
EXTENDS QTicketLock, FiniteSetTheorems, TLAPS

(* Ticket arithmetic: what Inc, Offset and Behind compute. *)

\* Incrementing a ticket counter, without the remainder: one more, or zero
\* after the last value (the xadd and incw of ncutils_lock.h).
LEMMA IncWraps ==
    ASSUME NEW k \in Tickets
    PROVE  Inc(k) = IF k = TicketMod - 1 THEN 0 ELSE k + 1
  <1>1. CASE k = TicketMod - 1
    BY <1>1, TicketModAssumption DEF Inc, Tickets
  <1>2. CASE k # TicketMod - 1
    BY <1>2, TicketModAssumption DEF Inc, Tickets
  <1>3. QED BY <1>1, <1>2

LEMMA IncType == \A k \in Tickets : Inc(k) \in Tickets
  BY IncWraps, TicketModAssumption DEF Tickets

LEMMA OffsetType == \A h, k \in Tickets : Offset(h, k) \in Tickets
  BY TicketModAssumption DEF Offset, Tickets

\* Only the head is at distance zero.
LEMMA OffsetZero == \A h, k \in Tickets : Offset(h, k) = 0 <=> k = h
  BY TicketModAssumption DEF Offset, Tickets

\* Serving one ticket brings every other one a place forward.
LEMMA OffsetServe ==
    \A h, k \in Tickets : k # h => Offset(Inc(h), k) = Offset(h, k) - 1
  BY IncWraps, TicketModAssumption DEF Offset, Tickets

\* The ticket n places behind the head is at offset n.
LEMMA OffsetBehind ==
    \A h \in Tickets : \A n \in 0 .. TicketMod - 1 :
        Behind(h, n) \in Tickets /\ Offset(h, Behind(h, n)) = n
  BY TicketModAssumption DEF Offset, Behind, Tickets

\* Handing out a ticket moves the tail one place back.
LEMMA BehindGive ==
    \A h \in Tickets : \A n \in 0 .. TicketMod - 1 :
        Inc(Behind(h, n)) = Behind(h, n + 1)
  BY IncWraps, TicketModAssumption DEF Behind, Tickets

\* Serving a ticket leaves the tail where it is.
LEMMA BehindServe ==
    \A h \in Tickets : \A n \in 1 .. TicketMod :
        Behind(Inc(h), n - 1) = Behind(h, n)
  BY IncWraps, TicketModAssumption DEF Behind, Tickets

LEMMA ZeroTypes == 0 \in Tickets /\ 0 \in Slots /\ NoTicket \notin Tickets
  BY TicketModAssumption, QLockAssumption DEF Tickets, Slots, NoTicket

LEMMA NextSlotType == \A s \in Slots : NextSlot(s) \in Slots
  BY QLockAssumption DEF NextSlot, Slots

LEMMA HashType == \A l \in Locks : Hash[l] \in Slots
  BY QLockAssumption

\* Where a read of the lock word can lead.
LEMMA AfterReadType ==
    \A h, q, k : AfterRead(h, q, k) \in {"cs", "find", "contend", "spin"}
  BY DEF AfterRead

LEMMA WordType ==
    ASSUME TypeOK, NEW l \in Locks
    PROVE  Word(l) \in [head : Tickets, queued : BOOLEAN, tail : Tickets]
  BY DEF TypeOK, Word

\* Every variable keeps its type through every access to shared memory: the
\* counters stay within their width, slots and pointers stay valid.
THEOREM TypeCorrect == Spec => []TypeOK
  <1>1. Init => TypeOK
    BY ZeroTypes DEF Init, TypeOK, NoWord
  <1>2. TypeOK /\ [Next]_vars => TypeOK'
    <2> SUFFICES ASSUME TypeOK, [Next]_vars PROVE TypeOK' OBVIOUS
    <2>1. ASSUME NEW t \in Threads, NEW l \in Locks, QTicketAcquire(t, l) PROVE TypeOK'
      BY <2>1, IncType, HashType, AfterReadType DEF TypeOK, QTicketAcquire, Goto, PassPCs, slotVars, elemVars
    <2>2. ASSUME NEW t \in Threads, SpinOnTicket(t) PROVE TypeOK'
      BY <2>2, HashType, AfterReadType
      DEF TypeOK, SpinOnTicket, Goto, PassPCs, QueuePCs, WakePCs, lockVars, slotVars, elemVars, argVars
    <2>3. ASSUME NEW t \in Threads, TakeSlot(t) PROVE TypeOK'
      BY <2>3
      DEF TypeOK, TakeSlot, Goto, PassPCs, QueuePCs, WakePCs, lockVars, slotVars, elemVars, argVars
    <2>4. ASSUME NEW t \in Threads, BitCheck(t) PROVE TypeOK'
      <3>1. Hash[lk[t]] \in Slots /\ NextSlot(slot[t]) \in Slots
        BY <2>4, HashType, NextSlotType DEF TypeOK, BitCheck
      <3>2. CASE queued[lk[t]]
        BY <2>4, <3>1, <3>2
        DEF TypeOK, BitCheck, Goto, PassPCs, QueuePCs, WakePCs, lockVars, slotVars, elemVars, argVars
      <3>3. CASE ~queued[lk[t]]
        <4>1. PICK label \in {"contend", "spin"} : pc' = [pc EXCEPT ![t] = label]
          BY <2>4, <3>3 DEF BitCheck, Goto
        <4>2. /\ slot' = [slot EXCEPT ![t] = NextSlot(@)]
              /\ pc[t] = "bitcheck"
              /\ UNCHANGED <<lockVars, slotVars, elemVars, argVars, old, ptr>>
          BY <2>4, <3>3 DEF BitCheck
        <4>3. slot' \in [Threads -> Slots] BY <3>1, <4>2 DEF TypeOK
        <4>4. QED
          BY <4>1, <4>2, <4>3
          DEF TypeOK, PassPCs, lockVars, slotVars, elemVars, argVars
      <3>4. QED BY <3>2, <3>3
    <2>5. ASSUME NEW t \in Threads, InitSpin(t) PROVE TypeOK'
      BY <2>5
      DEF TypeOK, InitSpin, Goto, PassPCs, QueuePCs, WakePCs, lockVars, slotVars, elemVars, argVars
    <2>6. ASSUME NEW t \in Threads, InitTail(t) PROVE TypeOK'
      BY <2>6
      DEF TypeOK, InitTail, Goto, PassPCs, QueuePCs, WakePCs, lockVars, slotVars, elemVars, argVars
    <2>7. ASSUME NEW t \in Threads, ReadLock(t) PROVE TypeOK'
      <3>1. lk[t] \in Locks BY <2>7 DEF TypeOK, ReadLock
      <3>2. Word(lk[t]) \in [head : Tickets, queued : BOOLEAN, tail : Tickets]
        BY <3>1, WordType
      <3>3. CASE queued[lk[t]]
        BY <2>7, <3>3
        DEF TypeOK, ReadLock, Goto, PassPCs, QueuePCs, WakePCs, lockVars, slotVars, elemVars, argVars
      <3>4. CASE ~queued[lk[t]]
        <4>1. head[lk[t]] \in Tickets /\ slot[t] \in Slots BY <3>1 DEF TypeOK
        <4> DEFINE w == Word(lk[t])
        <4>2. w \in [head : Tickets, queued : BOOLEAN, tail : Tickets] BY <3>2
        <4>3. /\ old' = [old EXCEPT ![t] = w]
              /\ headTkt' = [headTkt EXCEPT ![slot[t]] = head[lk[t]]]
              /\ pc' = [pc EXCEPT ![t] = "setbit"]
              /\ pc[t] = "readlock"
              /\ UNCHANGED <<lockVars, ref, spin, spinTail, elemVars, argVars, slot, ptr>>
          BY <2>7, <3>4 DEF ReadLock, Goto
        <4> HIDE DEF w
        <4>4. old' \in [Threads -> [head : Tickets, queued : BOOLEAN, tail : Tickets]]
          BY <4>2, <4>3 DEF TypeOK
        <4>5. QED
          BY <4>1, <4>3, <4>4
          DEF TypeOK, PassPCs, lockVars, elemVars, argVars
      <3>5. QED BY <3>3, <3>4
    <2>8. ASSUME NEW t \in Threads, BackOut(t) PROVE TypeOK'
      BY <2>8, HashType
      DEF TypeOK, BackOut, Goto, PassPCs, QueuePCs, WakePCs, lockVars, slotVars, elemVars, argVars
    <2>9. ASSUME NEW t \in Threads, SetBit(t) PROVE TypeOK'
      BY <2>9, ZeroTypes
      DEF TypeOK, SetBit, Goto, PassPCs, QueuePCs, WakePCs, lockVars, slotVars, elemVars, argVars, NoWord
    <2>10. ASSUME NEW t \in Threads, Publish(t) PROVE TypeOK'
      BY <2>10, HashType
      DEF TypeOK, Publish, Goto, PassPCs, QueuePCs, WakePCs, lockVars, slotVars, elemVars, argVars
    <2>11. ASSUME NEW t \in Threads, SpinFind(t) PROVE TypeOK'
      <3>1. Hash[lk[t]] \in Slots /\ NextSlot(slot[t]) \in Slots
        BY <2>11, HashType, NextSlotType DEF TypeOK, SpinFind
      <3>2. CASE ref[slot[t]] = lk[t]
        BY <2>11, <3>2
        DEF TypeOK, SpinFind, Goto, PassPCs, QueuePCs, WakePCs, lockVars, slotVars, elemVars, argVars, FindHead
      <3>3. CASE ref[slot[t]] # lk[t] /\ NextSlot(slot[t]) # Hash[lk[t]]
        BY <2>11, <3>1, <3>3
        DEF TypeOK, SpinFind, Goto, PassPCs, QueuePCs, WakePCs, lockVars, slotVars, elemVars, argVars, FindHead
      <3>4. CASE ref[slot[t]] # lk[t] /\ NextSlot(slot[t]) = Hash[lk[t]]
        BY <2>11, <3>1, <3>4
        DEF TypeOK, SpinFind, Goto, PassPCs, QueuePCs, WakePCs, lockVars, slotVars, elemVars, argVars, FindHead
      <3>5. QED BY <3>2, <3>3, <3>4
    <2>12. ASSUME NEW t \in Threads, SpinCheck(t) PROVE TypeOK'
      BY <2>12
      DEF TypeOK, SpinCheck, Goto, PassPCs, QueuePCs, WakePCs, lockVars, slotVars, elemVars, argVars
    <2>13. ASSUME NEW t \in Threads, Claim(t) PROVE TypeOK'
      BY <2>13
      DEF TypeOK, Claim, Goto, PassPCs, QueuePCs, WakePCs, lockVars, slotVars, elemVars, argVars, NoTicket
    <2>14. ASSUME NEW t \in Threads, Enqueue(t) PROVE TypeOK'
      BY <2>14
      DEF TypeOK, Enqueue, Goto, PassPCs, QueuePCs, WakePCs, lockVars, slotVars, elemVars, argVars
    <2>15. ASSUME NEW t \in Threads, Link(t) PROVE TypeOK'
      BY <2>15
      DEF TypeOK, Link, Goto, PassPCs, QueuePCs, WakePCs, lockVars, slotVars, elemVars, argVars
    <2>16. ASSUME NEW t \in Threads, Wait(t) PROVE TypeOK'
      BY <2>16
      DEF TypeOK, Wait, Goto, PassPCs, QueuePCs, WakePCs, lockVars, slotVars, elemVars, argVars
    <2>17. ASSUME NEW t \in Threads, Clear(t) PROVE TypeOK'
      BY <2>17
      DEF TypeOK, Clear, Goto, PassPCs, QueuePCs, WakePCs, lockVars, slotVars, elemVars, argVars
    <2>18. ASSUME NEW t \in Threads, ResetTail(t) PROVE TypeOK'
      BY <2>18
      DEF TypeOK, ResetTail, Goto, PassPCs, QueuePCs, WakePCs, lockVars, slotVars, elemVars, argVars
    <2>19. ASSUME NEW t \in Threads, WaitNext(t) PROVE TypeOK'
      BY <2>19
      DEF TypeOK, WaitNext, Goto, PassPCs, QueuePCs, WakePCs, lockVars, slotVars, elemVars, argVars
    <2>20. ASSUME NEW t \in Threads, Advance(t) PROVE TypeOK'
      BY <2>20
      DEF TypeOK, Advance, Goto, PassPCs, QueuePCs, WakePCs, lockVars, slotVars, elemVars, argVars
    <2>21. ASSUME NEW t \in Threads, QTicketRelease(t) PROVE TypeOK'
      <3>1. lk[t] \in Locks BY <2>21 DEF TypeOK, QTicketRelease
      <3>2. Hash[lk[t]] \in Slots /\ Inc(head[lk[t]]) \in Tickets
        BY <3>1, HashType, IncType DEF TypeOK
      <3>3. CASE queued[lk[t]]
        BY <2>21, <3>2, <3>3
        DEF TypeOK, QTicketRelease, Goto, PassPCs, QueuePCs, WakePCs, lockVars, slotVars, elemVars, argVars
      <3>4. CASE ~queued[lk[t]]
        <4>1. head' \in [Locks -> Tickets] BY <2>21, <3>2 DEF QTicketRelease, TypeOK
        <4>2. /\ pc' = [pc EXCEPT ![t] = "idle"]
              /\ lk' = [lk EXCEPT ![t] = NULL]
              /\ tkt' = [tkt EXCEPT ![t] = 0]
              /\ slot' = [slot EXCEPT ![t] = 0]
              /\ next' = [next EXCEPT ![t] = NULL]
              /\ woken' = [woken EXCEPT ![t] = FALSE]
              /\ UNCHANGED <<queued, tail, slotVars, old, ptr>>
          BY <2>21, <3>4 DEF QTicketRelease, Return, Goto
        <4>3. QED
          BY <4>1, <4>2, ZeroTypes DEF TypeOK, slotVars
      <3>5. QED BY <3>3, <3>4
    <2>22. ASSUME NEW t \in Threads, WakeFind(t) PROVE TypeOK'
      <3>1. Hash[lk[t]] \in Slots /\ NextSlot(slot[t]) \in Slots
        BY <2>22, HashType, NextSlotType DEF TypeOK, WakeFind
      <3>2. CASE ref[slot[t]] = lk[t]
        BY <2>22, <3>2
        DEF TypeOK, WakeFind, Goto, PassPCs, QueuePCs, WakePCs, lockVars, slotVars, elemVars, argVars, FindHead
      <3>3. CASE ref[slot[t]] # lk[t] /\ NextSlot(slot[t]) # Hash[lk[t]]
        BY <2>22, <3>1, <3>3
        DEF TypeOK, WakeFind, Goto, PassPCs, QueuePCs, WakePCs, lockVars, slotVars, elemVars, argVars, FindHead
      <3>4. CASE ref[slot[t]] # lk[t] /\ NextSlot(slot[t]) = Hash[lk[t]]
        BY <2>22, <3>1, <3>4
        DEF TypeOK, WakeFind, Goto, PassPCs, QueuePCs, WakePCs, lockVars, slotVars, elemVars, argVars, FindHead
      <3>5. QED BY <3>2, <3>3, <3>4
    <2>23. ASSUME NEW t \in Threads, WakeSpin(t) PROVE TypeOK'
      BY <2>23
      DEF TypeOK, WakeSpin, Goto, PassPCs, QueuePCs, WakePCs, lockVars, slotVars, elemVars, argVars
    <2>24. ASSUME NEW t \in Threads, WakeRead(t) PROVE TypeOK'
      <3>1. lk[t] \in Locks BY <2>24 DEF TypeOK, WakeRead
      <3>2. Word(lk[t]) \in [head : Tickets, queued : BOOLEAN, tail : Tickets]
        BY <3>1, WordType
      <3>3. CASE head[lk[t]] = tail[lk[t]]
        <4> DEFINE w == Word(lk[t])
        <4>1. w \in [head : Tickets, queued : BOOLEAN, tail : Tickets] BY <3>2
        <4>2. /\ old' = [old EXCEPT ![t] = w]
              /\ pc' = [pc EXCEPT ![t] = "wakecas"]
              /\ pc[t] = "wakeread"
              /\ UNCHANGED <<lockVars, slotVars, elemVars, argVars, slot, ptr>>
          BY <2>24, <3>3 DEF WakeRead, Goto
        <4> HIDE DEF w
        <4>3. old' \in [Threads -> [head : Tickets, queued : BOOLEAN, tail : Tickets]]
          BY <4>1, <4>2 DEF TypeOK
        <4>4. QED
          BY <4>2, <4>3
          DEF TypeOK, WakePCs, lockVars, slotVars, elemVars, argVars
      <3>4. CASE head[lk[t]] # tail[lk[t]]
        BY <2>24, <3>4
        DEF TypeOK, WakeRead, Goto, PassPCs, QueuePCs, WakePCs, lockVars, slotVars, elemVars, argVars
      <3>5. QED BY <3>3, <3>4
    <2>25. ASSUME NEW t \in Threads, WakeCas(t) PROVE TypeOK'
      BY <2>25, ZeroTypes
      DEF TypeOK, WakeCas, Goto, PassPCs, QueuePCs, WakePCs, lockVars, slotVars, elemVars, argVars, NoWord
    <2>26. ASSUME NEW t \in Threads, WakeFree(t) PROVE TypeOK'
      BY <2>26, ZeroTypes
      DEF TypeOK, WakeFree, Goto, PassPCs, QueuePCs, WakePCs, lockVars, slotVars, elemVars, argVars, Return
    <2>27. ASSUME NEW t \in Threads, WakeTkt(t) PROVE TypeOK'
      BY <2>27
      DEF TypeOK, WakeTkt, Goto, PassPCs, QueuePCs, WakePCs, lockVars, slotVars, elemVars, argVars, NoTicket
    <2>28. ASSUME NEW t \in Threads, HandOff(t) PROVE TypeOK'
      BY <2>28, ZeroTypes
      DEF TypeOK, HandOff, Goto, PassPCs, QueuePCs, WakePCs, lockVars, slotVars, elemVars, argVars, Return
    <2>29. CASE UNCHANGED vars
      BY <2>29 DEF TypeOK, vars, lockVars, slotVars, elemVars, argVars
    <2>30. QED
      BY <2>1, <2>2, <2>3, <2>4, <2>5, <2>6, <2>7, <2>8, <2>9, <2>10, <2>11, <2>12, <2>13, <2>14, <2>15, <2>16, <2>17, <2>18, <2>19, <2>20, <2>21, <2>22, <2>23, <2>24, <2>25, <2>26, <2>27, <2>28, <2>29 DEF Next, Step
  <1>3. QED BY <1>1, <1>2, PTL DEF Spec
-----------------------------------------------------------------------------
\* Threads past the xadd on tail and not yet past the xadd on head.
HasTicket(t) == pc[t] \notin {"idle"} \cup WakePCs

\* A step that moves neither counter and no thread in or out of the line.
Quiet ==
    /\ UNCHANGED <<head, tail>>
    /\ \A u \in Threads : /\ HasTicket(u)' = HasTicket(u)
                          /\ HasTicket(u) => lk'[u] = lk[u]

LEMMA OutstandingFinite ==
    ASSUME NEW l \in Locks
    PROVE  /\ IsFiniteSet(Outstanding(l))
           /\ Cardinality(Outstanding(l)) \in Nat
           /\ Cardinality(Outstanding(l)) <= TicketMod
  <1>1. Outstanding(l) \in SUBSET Threads BY DEF Outstanding
  <1>2. IsFiniteSet(Outstanding(l)) /\ Cardinality(Outstanding(l)) <= Cardinality(Threads)
    BY <1>1, FS_Subset, QLockAssumption
  <1>3. Cardinality(Outstanding(l)) \in Nat /\ Cardinality(Threads) \in Nat
    BY <1>2, FS_CardinalityType, QLockAssumption
  <1>4. QED BY <1>2, <1>3, QLockAssumption, TicketModAssumption

\* While some thread has no ticket of a lock, not every ticket of it is out.
LEMMA RoomForOne ==
    ASSUME NEW l \in Locks, NEW t \in Threads, t \notin Outstanding(l)
    PROVE  Cardinality(Outstanding(l)) < TicketMod
  <1>1. Outstanding(l) \in SUBSET (Threads \ {t}) BY DEF Outstanding
  <1>2. /\ IsFiniteSet(Threads \ {t})
        /\ Cardinality(Threads \ {t}) = Cardinality(Threads) - 1
    BY FS_RemoveElement, QLockAssumption
  <1>3. Cardinality(Outstanding(l)) <= Cardinality(Threads \ {t})
    BY <1>1, <1>2, FS_Subset
  <1>4. Cardinality(Threads) \in Nat BY FS_CardinalityType, QLockAssumption
  <1>5. QED BY <1>2, <1>3, <1>4, OutstandingFinite, QLockAssumption, TicketModAssumption

LEMMA QuietAccounts ==
    ASSUME TicketsAccountForThreads, Quiet PROVE TicketsAccountForThreads'
  <1>1. \A l \in Locks : Outstanding(l)' = Outstanding(l)
    BY DEF Quiet, Outstanding, HasTicket
  <1>2. QED BY <1>1 DEF Quiet, TicketsAccountForThreads

\* The xadd on tail hands out one ticket and puts one thread in line.
LEMMA AcquireAccounts ==
    ASSUME TypeOK, TicketsAccountForThreads,
           NEW t \in Threads, NEW l \in Locks, QTicketAcquire(t, l)
    PROVE  TicketsAccountForThreads'
  <1> SUFFICES ASSUME NEW m \in Locks
               PROVE  tail'[m] = Behind(head'[m], Cardinality(Outstanding(m)'))
    BY DEF TicketsAccountForThreads
  <1>1. /\ head' = head /\ head[m] \in Tickets
        /\ tail[m] = Behind(head[m], Cardinality(Outstanding(m)))
    BY DEF TypeOK, QTicketAcquire, TicketsAccountForThreads
  <1>2. pc[t] = "idle" /\ \E p \in {"cs", "find", "contend", "spin"} : pc' = [pc EXCEPT ![t] = p]
    BY AfterReadType DEF QTicketAcquire, Goto
  <1>3. lk' = [lk EXCEPT ![t] = l] BY DEF QTicketAcquire
  <1>4. CASE m = l
    <2>1. t \notin Outstanding(m) /\ Outstanding(m)' = Outstanding(m) \cup {t}
      BY <1>2, <1>3, <1>4 DEF Outstanding, TypeOK, WakePCs
    <2>2. Cardinality(Outstanding(m)') = Cardinality(Outstanding(m)) + 1
      BY <2>1, OutstandingFinite, FS_AddElement
    <2>3. Cardinality(Outstanding(m)) \in 0 .. TicketMod - 1
      BY <2>1, RoomForOne, OutstandingFinite, TicketModAssumption
    <2>4. tail'[m] = Inc(tail[m]) BY <1>4 DEF QTicketAcquire, TypeOK
    <2>5. QED BY <1>1, <2>2, <2>3, <2>4, BehindGive
  <1>5. CASE m # l
    <2>1. Outstanding(m)' = Outstanding(m)
      BY <1>2, <1>3, <1>5 DEF Outstanding, TypeOK, WakePCs
    <2>2. tail'[m] = tail[m] BY <1>5 DEF QTicketAcquire, TypeOK
    <2>3. QED BY <1>1, <2>1, <2>2
  <1>6. QED BY <1>4, <1>5

\* The xadd on head serves one ticket and takes its thread out of the line.
LEMMA ReleaseAccounts ==
    ASSUME TypeOK, TicketsAccountForThreads, NEW t \in Threads, QTicketRelease(t)
    PROVE  TicketsAccountForThreads'
  <1> SUFFICES ASSUME NEW m \in Locks
               PROVE  tail'[m] = Behind(head'[m], Cardinality(Outstanding(m)'))
    BY DEF TicketsAccountForThreads
  <1>1. /\ tail' = tail /\ head[m] \in Tickets
        /\ tail[m] = Behind(head[m], Cardinality(Outstanding(m)))
    BY DEF TypeOK, QTicketRelease, TicketsAccountForThreads
  <1>2. pc[t] = "cs" /\ \E p \in {"wakefind", "idle"} : pc' = [pc EXCEPT ![t] = p]
    BY DEF QTicketRelease, Return, Goto
  <1>3. \A u \in Threads : u # t => lk'[u] = lk[u]
    <2>1. lk' = lk \/ lk' = [lk EXCEPT ![t] = NULL]
      BY DEF QTicketRelease, Return, argVars
    <2>2. QED BY <2>1 DEF TypeOK
  <1>4. CASE m = lk[t]
    <2>1. t \in Outstanding(m) /\ Outstanding(m)' = Outstanding(m) \ {t}
      BY <1>2, <1>3, <1>4 DEF Outstanding, TypeOK, WakePCs
    <2>2. /\ Cardinality(Outstanding(m)') = Cardinality(Outstanding(m)) - 1
          /\ Cardinality(Outstanding(m)) # 0
      BY <2>1, OutstandingFinite, FS_RemoveElement, FS_EmptySet
    <2>3. Cardinality(Outstanding(m)) \in 1 .. TicketMod
      BY <2>2, OutstandingFinite, TicketModAssumption
    <2>4. head'[m] = Inc(head[m]) BY <1>4 DEF QTicketRelease, TypeOK
    <2>5. QED BY <1>1, <2>2, <2>3, <2>4, BehindServe
  <1>5. CASE m # lk[t]
    <2>1. Outstanding(m)' = Outstanding(m)
      BY <1>2, <1>3, <1>5 DEF Outstanding, TypeOK, WakePCs
    <2>2. head'[m] = head[m] BY <1>5 DEF QTicketRelease, TypeOK
    <2>3. QED BY <1>1, <2>1, <2>2
  <1>6. QED BY <1>4, <1>5

\* No other access to shared memory touches the line.
LEMMA OthersQuiet ==
    ASSUME TypeOK, NEW t \in Threads, Step(t), ~QTicketRelease(t) PROVE Quiet
  <1>1. CASE SpinOnTicket(t)
    BY <1>1, AfterReadType DEF Quiet, HasTicket, WakePCs, TypeOK, SpinOnTicket, Goto, lockVars, argVars
  <1>2. CASE TakeSlot(t)
    BY <1>2 DEF Quiet, HasTicket, WakePCs, TypeOK, TakeSlot, Goto, lockVars, argVars
  <1>3. CASE BitCheck(t)
    BY <1>3 DEF Quiet, HasTicket, WakePCs, TypeOK, BitCheck, Goto, lockVars, argVars
  <1>4. CASE InitSpin(t)
    BY <1>4 DEF Quiet, HasTicket, WakePCs, TypeOK, InitSpin, Goto, lockVars, argVars
  <1>5. CASE InitTail(t)
    BY <1>5 DEF Quiet, HasTicket, WakePCs, TypeOK, InitTail, Goto, lockVars, argVars
  <1>6. CASE ReadLock(t)
    BY <1>6 DEF Quiet, HasTicket, WakePCs, TypeOK, ReadLock, Goto, lockVars, argVars
  <1>7. CASE BackOut(t)
    BY <1>7 DEF Quiet, HasTicket, WakePCs, TypeOK, BackOut, Goto, lockVars, argVars
  <1>8. CASE SetBit(t)
    BY <1>8 DEF Quiet, HasTicket, WakePCs, TypeOK, SetBit, Goto, lockVars, argVars
  <1>9. CASE Publish(t)
    BY <1>9 DEF Quiet, HasTicket, WakePCs, TypeOK, Publish, Goto, lockVars, argVars
  <1>10. CASE SpinFind(t)
    BY <1>10 DEF Quiet, HasTicket, WakePCs, TypeOK, SpinFind, Goto, lockVars, argVars, FindHead
  <1>11. CASE SpinCheck(t)
    BY <1>11 DEF Quiet, HasTicket, WakePCs, TypeOK, SpinCheck, Goto, lockVars, argVars
  <1>12. CASE Claim(t)
    BY <1>12 DEF Quiet, HasTicket, WakePCs, TypeOK, Claim, Goto, lockVars, argVars
  <1>13. CASE Enqueue(t)
    BY <1>13 DEF Quiet, HasTicket, WakePCs, TypeOK, Enqueue, Goto, lockVars, argVars
  <1>14. CASE Link(t)
    BY <1>14 DEF Quiet, HasTicket, WakePCs, TypeOK, Link, Goto, lockVars, argVars
  <1>15. CASE Wait(t)
    BY <1>15 DEF Quiet, HasTicket, WakePCs, TypeOK, Wait, Goto, lockVars, argVars
  <1>16. CASE Clear(t)
    BY <1>16 DEF Quiet, HasTicket, WakePCs, TypeOK, Clear, Goto, lockVars, argVars
  <1>17. CASE ResetTail(t)
    BY <1>17 DEF Quiet, HasTicket, WakePCs, TypeOK, ResetTail, Goto, lockVars, argVars
  <1>18. CASE WaitNext(t)
    BY <1>18 DEF Quiet, HasTicket, WakePCs, TypeOK, WaitNext, Goto, lockVars, argVars
  <1>19. CASE Advance(t)
    BY <1>19 DEF Quiet, HasTicket, WakePCs, TypeOK, Advance, Goto, lockVars, argVars
  <1>20. CASE WakeFind(t)
    BY <1>20 DEF Quiet, HasTicket, WakePCs, TypeOK, WakeFind, Goto, lockVars, argVars, FindHead
  <1>21. CASE WakeSpin(t)
    BY <1>21 DEF Quiet, HasTicket, WakePCs, TypeOK, WakeSpin, Goto, lockVars, argVars
  <1>22. CASE WakeRead(t)
    BY <1>22 DEF Quiet, HasTicket, WakePCs, TypeOK, WakeRead, Goto, lockVars, argVars
  <1>23. CASE WakeCas(t)
    BY <1>23 DEF Quiet, HasTicket, WakePCs, TypeOK, WakeCas, Goto, lockVars, argVars
  <1>24. CASE WakeFree(t)
    BY <1>24 DEF Quiet, HasTicket, WakePCs, TypeOK, WakeFree, Goto, lockVars, argVars, Return
  <1>25. CASE WakeTkt(t)
    BY <1>25 DEF Quiet, HasTicket, WakePCs, TypeOK, WakeTkt, Goto, lockVars, argVars
  <1>26. CASE HandOff(t)
    BY <1>26 DEF Quiet, HasTicket, WakePCs, TypeOK, HandOff, Goto, lockVars, argVars, Return
  <1>27. QED
    BY <1>1, <1>2, <1>3, <1>4, <1>5, <1>6, <1>7, <1>8, <1>9, <1>10, <1>11, <1>12, <1>13, <1>14, <1>15, <1>16, <1>17, <1>18, <1>19, <1>20, <1>21, <1>22, <1>23, <1>24, <1>25, <1>26 DEF Step

\* With a queue or without, head and tail differ by the number of threads that
\* wait or hold: when tkt_q_try_unqueue reads head = tail there is none (or as
\* many as there are tickets), for any number of threads, locks and slots.
THEOREM AccountsForThreads == Spec => []TicketsAccountForThreads
  <1>1. Init => TicketsAccountForThreads
    <2> SUFFICES ASSUME Init, NEW l \in Locks
                 PROVE  tail[l] = Behind(head[l], Cardinality(Outstanding(l)))
      BY DEF TicketsAccountForThreads
    <2>1. Outstanding(l) = {} BY DEF Init, Outstanding
    <2>2. Cardinality(Outstanding(l)) = 0 BY <2>1, FS_EmptySet
    <2>3. QED BY <2>2, TicketModAssumption DEF Init, Behind
  <1>2. TypeOK /\ TicketsAccountForThreads /\ [Next]_vars => TicketsAccountForThreads'
    <2> SUFFICES ASSUME TypeOK, TicketsAccountForThreads, [Next]_vars
                 PROVE  TicketsAccountForThreads'
      OBVIOUS
    <2>1. CASE UNCHANGED vars
      <3>1. Quiet BY <2>1 DEF Quiet, HasTicket, vars, lockVars, argVars
      <3>2. QED BY <3>1, QuietAccounts
    <2>2. ASSUME NEW t \in Threads, NEW l \in Locks, QTicketAcquire(t, l)
          PROVE  TicketsAccountForThreads'
      BY <2>2, AcquireAccounts
    <2>3. ASSUME NEW t \in Threads, Step(t) PROVE TicketsAccountForThreads'
      BY <2>3, ReleaseAccounts, OthersQuiet, QuietAccounts
    <2>4. QED BY <2>1, <2>2, <2>3 DEF Next
  <1>3. QED BY <1>1, <1>2, TypeCorrect, PTL DEF Spec
-----------------------------------------------------------------------------
\* From the CAS that takes a slot to the store that publishes it or gives it
\* back; a thread that has found a slot with its lock; one that relies on the
\* queue of its lock; a release that still has the lock to pass on.
Setters == {"initspin", "inittail", "readlock", "setbit", "publish", "backout"}
Wakers == WakePCs \ {"wakefree"}
Found == {"check", "claim"} \cup QueuePCs \cup (WakePCs \ {"wakefind"})
Sure == {"publish", "backout", "find", "check", "claim"} \cup QueuePCs \cup Wakers

\* One slot, or no more threads than it takes to make one of them ask for a
\* queue: then a lock does not get a queue before its last slot is given back.
Safe == NQueues = 1 \/ Cardinality(Threads) <= Switch + 1

Apart ==
    \A t, u \in Threads : pc[t] = "wakefree" /\ lk[u] = lk[t] =>
        /\ pc[u] \notin Setters
        /\ NQueues # 1 => pc[u] \notin {"contend", "bitcheck"}

\* A slot is set up by one thread; a lock has at most one slot.
SetUp ==
    /\ \A t \in Threads : pc[t] \in Setters => ref[slot[t]] = BUSY
    /\ \A t, u \in Threads :
        pc[t] \in Setters /\ pc[u] \in Setters /\ slot[t] = slot[u] => t = u
    /\ \A t \in Threads : pc[t] = "setbit" =>
        headTkt[slot[t]] = old[t].head /\ ~old[t].queued
OneSlot ==
    /\ \A s, r \in Slots : ref[s] \in Locks /\ ref[s] = ref[r] => s = r
    /\ \A t \in Threads, s \in Slots : pc[t] = "publish" => ref[s] # lk[t]
    /\ \A t, u \in Threads :
        pc[t] = "publish" /\ pc[u] = "publish" /\ lk[t] = lk[u] => t = u

\* What a thread has found stays as it found it.
Attached ==
    /\ \A t \in Threads : pc[t] \in Found => ref[slot[t]] = lk[t]
    /\ \A t \in Threads : pc[t] \in Sure => queued[lk[t]]
    /\ \A t \in Threads : pc[t] = "wakefree" => ~queued[lk[t]]
    /\ \A t, u \in Threads :
        pc[t] = "wakefree" /\ pc[u] = "wakefree" /\ slot[t] = slot[u] => t = u
    /\ \A t \in Threads : pc[t] = "wakecas" => old[t].head = old[t].tail

\* Slot s is the queue of lock l, published or about to be.
At(s, l) ==
    /\ queued[l]
    /\ ref[s] = l \/ \E p \in Threads : pc[p] = "publish" /\ slot[p] = s /\ lk[p] = l

\* No slot is taken for nothing, and a lock with a queue has a slot.
BusyUsed ==
    \A s \in Slots : ref[s] = BUSY => \E t \in Threads : pc[t] \in Setters /\ slot[t] = s
StaleUsed ==
    \A s \in Slots : ref[s] \in Locks /\ ~queued[ref[s]] =>
        \E t \in Threads : pc[t] = "wakefree" /\ slot[t] = s
HaveSlots == \A l \in Locks : queued[l] => \E s \in Slots : At(s, l)

\* The lock passes along the queue: its first element was told, and has not
\* left the queue yet.
Baton(t) ==
    \/ pc[t] \in {"clear", "resettail", "waitnext", "advance"}
    \/ (pc[t] = "wait" /\ woken[t])

\* The ticket that is next: the head of the lock, or what the slot recorded.
Turn(l, k) ==
    \/ ~queued[l] /\ head[l] = k
    \/ \E s \in Slots : At(s, l) /\ headTkt[s] = k

\* Thread t has the lock, or it is its turn, or it has to pass the lock on.
Has(t) ==
    \/ pc[t] = "cs"
    \/ Baton(t)
    \/ pc[t] \in Wakers
    \/ pc[t] \in PassPCs /\ Turn(lk[t], tkt[t])

One == \A t, u \in Threads : Has(t) /\ Has(u) /\ lk[t] = lk[u] => t = u
Some == \A l \in Locks : queued[l] => \E t \in Threads : Has(t) /\ lk[t] = l

\* Until the recorded ticket is used up the tickets of a lock are in line.
ByTicket(l) == ~queued[l] \/ \E s \in Slots : At(s, l) /\ headTkt[s] # NoTicket

InLine(l) ==
    /\ \A t, u \in Outstanding(l) : tkt[t] = tkt[u] => t = u
    /\ \A t \in Outstanding(l) : Offset(head[l], tkt[t]) < Cardinality(Outstanding(l))
    /\ \A n \in 0 .. Cardinality(Outstanding(l)) - 1 :
        \E t \in Outstanding(l) : tkt[t] = Behind(head[l], n)
    /\ \A t \in Outstanding(l) : pc[t] = "cs" => tkt[t] = head[l]
Line == \A l \in Locks : ByTicket(l) => InLine(l)

\* While the recorded ticket is there: nobody has passed the lock on, or one
\* thread is about to.
Passing ==
    /\ \A s \in Slots, t \in Threads :
        pc[t] \in Wakers /\ At(s, lk[t]) /\ headTkt[s] # NoTicket => head[lk[t]] = Inc(headTkt[s])
    /\ \A s \in Slots, l \in Locks : At(s, l) /\ headTkt[s] # NoTicket =>
        head[l] = headTkt[s] \/ \E t \in Threads : lk[t] = l /\ pc[t] \in Wakers
    /\ \A t \in Threads : Baton(t) \/ pc[t] = "handoff" => headTkt[slot[t]] = NoTicket
    /\ \A t \in Threads : pc[t] = "claim" => headTkt[slot[t]] = tkt[t]

\* An element that is in the queue, from the exchange of spin_tail on, and one
\* with no element in front of it.
InQueue(t) == pc[t] \in QueuePCs \ {"enqueue"}
Front(t) == Baton(t) \/ (pc[t] = "link" /\ ptr[t] = NULL)

\* The two ends of the queue of a slot.
Ends ==
    /\ \A s \in Slots : spin[s] # NULL =>
        slot[spin[s]] = s /\ pc[spin[s]] \in {"wait", "clear", "advance"}
    /\ \A s \in Slots : spinTail[s] # NULL =>
        /\ InQueue(spinTail[s]) /\ slot[spinTail[s]] = s /\ next[spinTail[s]] = NULL
        /\ \A u \in Threads : pc[u] = "link" => ptr[u] # spinTail[s]
    /\ \A s \in Slots : spinTail[s] = NULL =>
        spin[s] = NULL /\ \A t \in Threads : slot[t] = s => ~Front(t)

\* What is between them: nothing has two successors or two predecessors, and
\* what has a predecessor is not the first.
Chain ==
    /\ \A p \in Threads : InQueue(p) /\ next[p] # NULL =>
        /\ pc[next[p]] = "wait" /\ ~woken[next[p]]
        /\ slot[next[p]] = slot[p] /\ spin[slot[p]] # next[p]
    /\ \A p, q \in Threads : InQueue(p) /\ InQueue(q) /\ next[p] # NULL /\ next[p] = next[q] => p = q
    /\ \A u \in Threads : pc[u] = "link" /\ ptr[u] # NULL =>
        InQueue(ptr[u]) /\ slot[ptr[u]] = slot[u] /\ next[ptr[u]] = NULL
    /\ \A u, v \in Threads :
        pc[u] = "link" /\ pc[v] = "link" /\ ptr[u] # NULL /\ ptr[u] = ptr[v] => u = v

Fronts ==
    /\ \A t, u \in Threads : Front(t) /\ Front(u) /\ slot[t] = slot[u] => t = u
    /\ \A t \in Threads : Front(t) => spin[slot[t]] \in {NULL, t}
    /\ \A t \in Threads : pc[t] \in {"resettail", "waitnext"} => spin[slot[t]] = NULL
    /\ \A t \in Threads : pc[t] = "advance" => next[t] # NULL

\* What a thread knows of its own element and of the one it will write to.
Aims == \A t \in Threads : pc[t] \in {"waketkt", "handoff"} => ptr[t] = spin[slot[t]]
Locals ==
    /\ \A t \in Threads : ptr[t] # NULL => pc[t] \in {"link", "waketkt", "handoff"}
    /\ \A t \in Threads : pc[t] = "enqueue" => next[t] = NULL
    /\ \A t \in Threads : pc[t] \in {"enqueue", "link"} => ~woken[t]

IInv ==
    /\ TypeOK /\ TicketsAccountForThreads
    /\ SetUp /\ OneSlot /\ Attached /\ Apart /\ BusyUsed /\ StaleUsed /\ HaveSlots
    /\ One /\ Some /\ Line /\ Passing
    /\ Ends /\ Chain /\ Fronts /\ Aims /\ Locals
-----------------------------------------------------------------------------
\* What a step of t leaves alone: the locals of the other threads, and, as
\* the case may be, the locks, the slots, the elements and its own arguments.
Others(t) ==
    \A u \in Threads : u # t =>
        /\ pc'[u] = pc[u] /\ lk'[u] = lk[u] /\ tkt'[u] = tkt[u]
        /\ slot'[u] = slot[u] /\ old'[u] = old[u] /\ ptr'[u] = ptr[u]
KeepLocks == head' = head /\ queued' = queued /\ tail' = tail
KeepSlots == ref' = ref /\ headTkt' = headTkt /\ spin' = spin /\ spinTail' = spinTail
KeepElems == next' = next /\ woken' = woken
Same(t) == lk'[t] = lk[t] /\ tkt'[t] = tkt[t]
Moves(t, from, to) == pc[t] = from /\ pc'[t] = to
Updates(s, f, g, v) == g[s] = v /\ \A r \in Slots : r # s => g[r] = f[r]

\* The markers are no threads and no locks.
LEMMA FxTypes == NULL \notin Threads /\ NULL \notin Locks /\ BUSY \notin Locks /\ NULL # BUSY
  BY QLockAssumption

\* A step of t changes no local of another thread.
LEMMA OthersFx ==
    ASSUME TypeOK, NEW t \in Threads, Step(t) \/ \E l \in Locks : QTicketAcquire(t, l)
    PROVE  Others(t)
  <1> USE DEF TypeOK, Others, Goto, Return, FindHead, argVars
  <1>1. CASE SpinOnTicket(t) BY <1>1 DEF SpinOnTicket
  <1>2. CASE TakeSlot(t) BY <1>2 DEF TakeSlot
  <1>3. CASE BitCheck(t) BY <1>3 DEF BitCheck
  <1>4. CASE InitSpin(t) BY <1>4 DEF InitSpin
  <1>5. CASE InitTail(t) BY <1>5 DEF InitTail
  <1>6. CASE ReadLock(t) BY <1>6 DEF ReadLock
  <1>7. CASE BackOut(t) BY <1>7 DEF BackOut
  <1>8. CASE SetBit(t) BY <1>8 DEF SetBit
  <1>9. CASE Publish(t) BY <1>9 DEF Publish
  <1>10. CASE SpinFind(t) BY <1>10 DEF SpinFind
  <1>11. CASE SpinCheck(t) BY <1>11 DEF SpinCheck
  <1>12. CASE Claim(t) BY <1>12 DEF Claim
  <1>13. CASE Enqueue(t) BY <1>13 DEF Enqueue
  <1>14. CASE Link(t) BY <1>14 DEF Link
  <1>15. CASE Wait(t) BY <1>15 DEF Wait
  <1>16. CASE Clear(t) BY <1>16 DEF Clear
  <1>17. CASE ResetTail(t) BY <1>17 DEF ResetTail
  <1>18. CASE WaitNext(t) BY <1>18 DEF WaitNext
  <1>19. CASE Advance(t) BY <1>19 DEF Advance
  <1>20. CASE QTicketRelease(t) BY <1>20 DEF QTicketRelease
  <1>21. CASE WakeFind(t) BY <1>21 DEF WakeFind
  <1>22. CASE WakeSpin(t) BY <1>22 DEF WakeSpin
  <1>23. CASE WakeRead(t) BY <1>23 DEF WakeRead
  <1>24. CASE WakeCas(t) BY <1>24 DEF WakeCas
  <1>25. CASE WakeFree(t) BY <1>25 DEF WakeFree
  <1>26. CASE WakeTkt(t) BY <1>26 DEF WakeTkt
  <1>27. CASE HandOff(t) BY <1>27 DEF HandOff
  <1>28. ASSUME NEW l \in Locks, QTicketAcquire(t, l) PROVE Others(t) BY <1>28 DEF QTicketAcquire
  <1> QED BY <1>1, <1>2, <1>3, <1>4, <1>5, <1>6, <1>7, <1>8, <1>9, <1>10, <1>11, <1>12, <1>13,
        <1>14, <1>15, <1>16, <1>17, <1>18, <1>19, <1>20, <1>21, <1>22, <1>23, <1>24, <1>25,
        <1>26, <1>27, <1>28 DEF Step

\* What each access to shared memory does, with its values spelt out.
LEMMA AcquireFx ==
    ASSUME TypeOK, NEW t \in Threads, NEW l \in Locks, QTicketAcquire(t, l)
    PROVE  /\ pc[t] = "idle" /\ lk'[t] = l /\ tkt'[t] = tail[l] /\ slot'[t] = Hash[l]
           /\ tail[l] \in Tickets /\ head[l] \in Tickets /\ queued[l] \in BOOLEAN
           /\ old'[t] = old[t] /\ ptr'[t] = ptr[t]
           /\ \/ pc'[t] = "cs" /\ ~queued[l] /\ head[l] = tail[l]
              \/ pc'[t] = "find" /\ queued[l]
              \/ pc'[t] = "contend" /\ ~queued[l] /\ tail[l] = head[l] + Switch
              \/ pc'[t] = "spin" /\ ~queued[l] /\ head[l] # tail[l]
           /\ head' = head /\ queued' = queued /\ tail'[l] = Inc(tail[l])
           /\ \A m \in Locks : m # l => tail'[m] = tail[m]
           /\ KeepSlots /\ KeepElems
  <1>1. /\ pc[t] = "idle" /\ lk'[t] = l /\ tkt'[t] = tail[l] /\ slot'[t] = Hash[l]
        /\ old' = old /\ ptr' = ptr /\ pc'[t] = AfterRead(head[l], queued[l], tail[l])
        /\ tail[l] \in Tickets /\ head[l] \in Tickets /\ queued[l] \in BOOLEAN
        /\ head' = head /\ queued' = queued /\ tail'[l] = Inc(tail[l])
        /\ \A m \in Locks : m # l => tail'[m] = tail[m]
        /\ KeepSlots /\ KeepElems
    BY DEF TypeOK, QTicketAcquire, Goto, KeepSlots, KeepElems, slotVars, elemVars
  <1>2. Switch \in Nat BY QLockAssumption
  <1> QED BY <1>1, <1>2 DEF AfterRead, Tickets

LEMMA SpinOnTicketFx ==
    ASSUME TypeOK, NEW t \in Threads, SpinOnTicket(t)
    PROVE  /\ pc[t] = "spin" /\ slot'[t] = Hash[lk[t]] /\ lk[t] \in Locks
           /\ \/ pc'[t] = "cs" /\ ~queued[lk[t]] /\ head[lk[t]] = tkt[t]
              \/ pc'[t] = "find" /\ queued[lk[t]]
              \/ pc'[t] = "contend" /\ ~queued[lk[t]] /\ tkt[t] = head[lk[t]] + Switch
           /\ KeepLocks /\ KeepSlots /\ KeepElems /\ Same(t) /\ old'[t] = old[t] /\ ptr'[t] = ptr[t]
  <1>1. /\ pc[t] = "spin" /\ slot'[t] = Hash[lk[t]]
        /\ pc'[t] = AfterRead(head[lk[t]], queued[lk[t]], tkt[t])
        /\ AfterRead(head[lk[t]], queued[lk[t]], tkt[t]) # "spin"
        /\ lk[t] \in Locks /\ tkt[t] \in Tickets /\ head[lk[t]] \in Tickets /\ queued[lk[t]] \in BOOLEAN
        /\ KeepLocks /\ KeepSlots /\ KeepElems /\ Same(t) /\ old'[t] = old[t] /\ ptr'[t] = ptr[t]
    BY DEF TypeOK, SpinOnTicket, Goto, KeepLocks, KeepSlots, KeepElems, Same,
           lockVars, slotVars, elemVars, argVars
  <1>2. Switch \in Nat BY QLockAssumption
  <1> QED BY <1>1, <1>2 DEF AfterRead, Tickets

LEMMA TakeSlotFx ==
    ASSUME TypeOK, NEW t \in Threads, TakeSlot(t)
    PROVE  /\ pc[t] = "contend" /\ lk[t] \in Locks /\ slot[t] \in Slots
           /\ \/ /\ pc'[t] = "initspin" /\ ref[slot[t]] = NULL /\ Updates(slot[t], ref, ref', BUSY)
              \/ pc'[t] = "bitcheck" /\ ref[slot[t]] # NULL /\ ref' = ref
           /\ KeepLocks /\ KeepElems /\ Same(t) /\ headTkt' = headTkt /\ spin' = spin /\ spinTail' = spinTail
           /\ slot'[t] = slot[t] /\ old'[t] = old[t] /\ ptr'[t] = ptr[t]
  BY FxTypes DEF TypeOK, TakeSlot, Goto, Return, FindHead, KeepLocks, KeepSlots, KeepElems, Same,
     Moves, Updates, lockVars, slotVars, elemVars, argVars, Word, PassPCs, QueuePCs, WakePCs

LEMMA BitCheckFx ==
    ASSUME TypeOK, NEW t \in Threads, BitCheck(t)
    PROVE  /\ pc[t] = "bitcheck" /\ lk[t] \in Locks
           /\ \/ pc'[t] = "find" /\ queued[lk[t]] /\ slot'[t] = Hash[lk[t]]
              \/ pc'[t] = "contend" /\ ~queued[lk[t]] /\ NextSlot(slot[t]) # Hash[lk[t]]
              \/ pc'[t] = "spin" /\ ~queued[lk[t]]
           /\ KeepLocks /\ KeepSlots /\ KeepElems /\ Same(t)
           /\ old'[t] = old[t] /\ ptr'[t] = ptr[t]
  BY FxTypes DEF TypeOK, BitCheck, Goto, Return, FindHead, KeepLocks, KeepSlots, KeepElems, Same,
     Moves, Updates, lockVars, slotVars, elemVars, argVars, Word, PassPCs, QueuePCs, WakePCs

LEMMA InitSpinFx ==
    ASSUME TypeOK, NEW t \in Threads, InitSpin(t)
    PROVE  /\ Moves(t, "initspin", "inittail") /\ lk[t] \in Locks /\ slot[t] \in Slots
           /\ Updates(slot[t], spin, spin', NULL) /\ ref' = ref /\ headTkt' = headTkt /\ spinTail' = spinTail
           /\ KeepLocks /\ KeepElems /\ Same(t)
           /\ slot'[t] = slot[t] /\ old'[t] = old[t] /\ ptr'[t] = ptr[t]
  BY FxTypes DEF TypeOK, InitSpin, Goto, Return, FindHead, KeepLocks, KeepSlots, KeepElems, Same,
     Moves, Updates, lockVars, slotVars, elemVars, argVars, Word, PassPCs, QueuePCs, WakePCs

LEMMA InitTailFx ==
    ASSUME TypeOK, NEW t \in Threads, InitTail(t)
    PROVE  /\ Moves(t, "inittail", "readlock") /\ lk[t] \in Locks /\ slot[t] \in Slots
           /\ Updates(slot[t], spinTail, spinTail', NULL) /\ ref' = ref /\ headTkt' = headTkt /\ spin' = spin
           /\ KeepLocks /\ KeepElems /\ Same(t)
           /\ slot'[t] = slot[t] /\ old'[t] = old[t] /\ ptr'[t] = ptr[t]
  BY FxTypes DEF TypeOK, InitTail, Goto, Return, FindHead, KeepLocks, KeepSlots, KeepElems, Same,
     Moves, Updates, lockVars, slotVars, elemVars, argVars, Word, PassPCs, QueuePCs, WakePCs

LEMMA ReadLockFx ==
    ASSUME TypeOK, NEW t \in Threads, ReadLock(t)
    PROVE  /\ pc[t] = "readlock" /\ lk[t] \in Locks /\ slot[t] \in Slots
           /\ \/ pc'[t] = "backout" /\ queued[lk[t]] /\ old'[t] = old[t] /\ headTkt' = headTkt
              \/ /\ pc'[t] = "setbit" /\ ~queued[lk[t]]
                 /\ old'[t].head = head[lk[t]] /\ ~old'[t].queued
                 /\ Updates(slot[t], headTkt, headTkt', head[lk[t]])
           /\ KeepLocks /\ KeepElems /\ Same(t) /\ ref' = ref /\ spin' = spin /\ spinTail' = spinTail
           /\ slot'[t] = slot[t] /\ ptr'[t] = ptr[t]
  BY FxTypes DEF TypeOK, ReadLock, Goto, Return, FindHead, KeepLocks, KeepSlots, KeepElems, Same,
     Moves, Updates, lockVars, slotVars, elemVars, argVars, Word, PassPCs, QueuePCs, WakePCs

LEMMA BackOutFx ==
    ASSUME TypeOK, NEW t \in Threads, BackOut(t)
    PROVE  /\ Moves(t, "backout", "find") /\ lk[t] \in Locks /\ slot[t] \in Slots
           /\ Updates(slot[t], ref, ref', NULL) /\ headTkt' = headTkt /\ spin' = spin /\ spinTail' = spinTail
           /\ KeepLocks /\ KeepElems /\ Same(t)
           /\ slot'[t] = Hash[lk[t]] /\ old'[t] = old[t] /\ ptr'[t] = ptr[t]
  BY FxTypes DEF TypeOK, BackOut, Goto, Return, FindHead, KeepLocks, KeepSlots, KeepElems, Same,
     Moves, Updates, lockVars, slotVars, elemVars, argVars, Word, PassPCs, QueuePCs, WakePCs

LEMMA SetBitFx ==
    ASSUME TypeOK, NEW t \in Threads, SetBit(t)
    PROVE  /\ pc[t] = "setbit" /\ lk[t] \in Locks /\ slot[t] \in Slots
           /\ \/ /\ pc'[t] = "publish" /\ head[lk[t]] = old[t].head /\ queued[lk[t]] = old[t].queued
                 /\ queued'[lk[t]] /\ \A l \in Locks : l # lk[t] => queued'[l] = queued[l]
              \/ pc'[t] = "readlock" /\ queued' = queued
           /\ head' = head /\ tail' = tail /\ KeepSlots /\ KeepElems /\ Same(t)
           /\ slot'[t] = slot[t] /\ ptr'[t] = ptr[t]
  BY FxTypes DEF TypeOK, SetBit, Goto, Return, FindHead, KeepLocks, KeepSlots, KeepElems, Same,
     Moves, Updates, lockVars, slotVars, elemVars, argVars, Word, PassPCs, QueuePCs, WakePCs

LEMMA PublishFx ==
    ASSUME TypeOK, NEW t \in Threads, Publish(t)
    PROVE  /\ Moves(t, "publish", "find") /\ lk[t] \in Locks /\ slot[t] \in Slots
           /\ Updates(slot[t], ref, ref', lk[t]) /\ headTkt' = headTkt /\ spin' = spin /\ spinTail' = spinTail
           /\ KeepLocks /\ KeepElems /\ Same(t)
           /\ slot'[t] = Hash[lk[t]] /\ old'[t] = old[t] /\ ptr'[t] = ptr[t]
  BY FxTypes DEF TypeOK, Publish, Goto, Return, FindHead, KeepLocks, KeepSlots, KeepElems, Same,
     Moves, Updates, lockVars, slotVars, elemVars, argVars, Word, PassPCs, QueuePCs, WakePCs

LEMMA SpinFindFx ==
    ASSUME TypeOK, NEW t \in Threads, SpinFind(t)
    PROVE  /\ pc[t] = "find" /\ lk[t] \in Locks
           /\ \/ pc'[t] = "check" /\ ref[slot[t]] = lk[t] /\ slot'[t] = slot[t]
              \/ pc'[t] \in {"find", "spin"}
           /\ KeepLocks /\ KeepSlots /\ KeepElems /\ Same(t)
           /\ old'[t] = old[t] /\ ptr'[t] = ptr[t]
  BY FxTypes DEF TypeOK, SpinFind, Goto, Return, FindHead, KeepLocks, KeepSlots, KeepElems, Same,
     Moves, Updates, lockVars, slotVars, elemVars, argVars, Word, PassPCs, QueuePCs, WakePCs

LEMMA SpinCheckFx ==
    ASSUME TypeOK, NEW t \in Threads, SpinCheck(t)
    PROVE  /\ pc[t] = "check" /\ lk[t] \in Locks /\ slot[t] \in Slots
           /\ \/ pc'[t] = "claim" /\ headTkt[slot[t]] = tkt[t]
              \/ pc'[t] = "enqueue" /\ headTkt[slot[t]] # tkt[t]
           /\ next'[t] = NULL /\ ~woken'[t]
           /\ \A u \in Threads : u # t => next'[u] = next[u] /\ woken'[u] = woken[u]
           /\ KeepLocks /\ KeepSlots /\ Same(t)
           /\ slot'[t] = slot[t] /\ old'[t] = old[t] /\ ptr'[t] = ptr[t]
  BY FxTypes DEF TypeOK, SpinCheck, Goto, Return, FindHead, KeepLocks, KeepSlots, KeepElems, Same,
     Moves, Updates, lockVars, slotVars, elemVars, argVars, Word, PassPCs, QueuePCs, WakePCs

LEMMA ClaimFx ==
    ASSUME TypeOK, NEW t \in Threads, Claim(t)
    PROVE  /\ Moves(t, "claim", "cs") /\ lk[t] \in Locks /\ slot[t] \in Slots
           /\ Updates(slot[t], headTkt, headTkt', NoTicket) /\ ref' = ref /\ spin' = spin /\ spinTail' = spinTail
           /\ KeepLocks /\ KeepElems /\ Same(t)
           /\ slot'[t] = slot[t] /\ old'[t] = old[t] /\ ptr'[t] = ptr[t]
  BY FxTypes DEF TypeOK, Claim, Goto, Return, FindHead, KeepLocks, KeepSlots, KeepElems, Same,
     Moves, Updates, lockVars, slotVars, elemVars, argVars, Word, PassPCs, QueuePCs, WakePCs

LEMMA EnqueueFx ==
    ASSUME TypeOK, NEW t \in Threads, Enqueue(t)
    PROVE  /\ Moves(t, "enqueue", "link") /\ lk[t] \in Locks /\ slot[t] \in Slots
           /\ Updates(slot[t], spinTail, spinTail', t) /\ ref' = ref /\ headTkt' = headTkt /\ spin' = spin
           /\ KeepLocks /\ KeepElems /\ Same(t) /\ ptr'[t] = spinTail[slot[t]]
           /\ slot'[t] = slot[t] /\ old'[t] = old[t]
  BY FxTypes DEF TypeOK, Enqueue, Goto, Return, FindHead, KeepLocks, KeepSlots, KeepElems, Same,
     Moves, Updates, lockVars, slotVars, elemVars, argVars, Word, PassPCs, QueuePCs, WakePCs

LEMMA LinkFx ==
    ASSUME TypeOK, NEW t \in Threads, Link(t)
    PROVE  /\ Moves(t, "link", "wait") /\ lk[t] \in Locks /\ slot[t] \in Slots
           /\ \/ ptr[t] = NULL /\ Updates(slot[t], spin, spin', t) /\ next' = next
              \/ /\ ptr[t] \in Threads /\ spin' = spin /\ next'[ptr[t]] = t
                 /\ \A u \in Threads : u # ptr[t] => next'[u] = next[u]
           /\ KeepLocks /\ woken' = woken /\ Same(t) /\ ptr'[t] = NULL /\ ref' = ref /\ headTkt' = headTkt
           /\ spinTail' = spinTail /\ slot'[t] = slot[t] /\ old'[t] = old[t]
  BY FxTypes DEF TypeOK, Link, Goto, Return, FindHead, KeepLocks, KeepSlots, KeepElems, Same,
     Moves, Updates, lockVars, slotVars, elemVars, argVars, Word, PassPCs, QueuePCs, WakePCs

LEMMA WaitFx ==
    ASSUME TypeOK, NEW t \in Threads, Wait(t)
    PROVE  /\ pc[t] = "wait" /\ woken[t] /\ lk[t] \in Locks /\ slot[t] \in Slots
           /\ \/ pc'[t] = "clear" /\ next[t] = NULL
              \/ pc'[t] = "advance" /\ next[t] # NULL
           /\ KeepLocks /\ KeepSlots /\ KeepElems /\ Same(t)
           /\ slot'[t] = slot[t] /\ old'[t] = old[t] /\ ptr'[t] = ptr[t]
  BY FxTypes DEF TypeOK, Wait, Goto, Return, FindHead, KeepLocks, KeepSlots, KeepElems, Same,
     Moves, Updates, lockVars, slotVars, elemVars, argVars, Word, PassPCs, QueuePCs, WakePCs

LEMMA ClearFx ==
    ASSUME TypeOK, NEW t \in Threads, Clear(t)
    PROVE  /\ Moves(t, "clear", "resettail") /\ lk[t] \in Locks /\ slot[t] \in Slots
           /\ Updates(slot[t], spin, spin', NULL) /\ ref' = ref /\ headTkt' = headTkt /\ spinTail' = spinTail
           /\ KeepLocks /\ KeepElems /\ Same(t)
           /\ slot'[t] = slot[t] /\ old'[t] = old[t] /\ ptr'[t] = ptr[t]
  BY FxTypes DEF TypeOK, Clear, Goto, Return, FindHead, KeepLocks, KeepSlots, KeepElems, Same,
     Moves, Updates, lockVars, slotVars, elemVars, argVars, Word, PassPCs, QueuePCs, WakePCs

LEMMA ResetTailFx ==
    ASSUME TypeOK, NEW t \in Threads, ResetTail(t)
    PROVE  /\ pc[t] = "resettail" /\ lk[t] \in Locks /\ slot[t] \in Slots
           /\ \/ /\ pc'[t] = "cs" /\ spinTail[slot[t]] = t /\ Updates(slot[t], spinTail, spinTail', NULL)
              \/ pc'[t] = "waitnext" /\ spinTail' = spinTail
           /\ ref' = ref /\ headTkt' = headTkt /\ spin' = spin /\ KeepLocks /\ KeepElems /\ Same(t)
           /\ slot'[t] = slot[t] /\ old'[t] = old[t] /\ ptr'[t] = ptr[t]
  BY FxTypes DEF TypeOK, ResetTail, Goto, Return, FindHead, KeepLocks, KeepSlots, KeepElems, Same,
     Moves, Updates, lockVars, slotVars, elemVars, argVars, Word, PassPCs, QueuePCs, WakePCs

LEMMA WaitNextFx ==
    ASSUME TypeOK, NEW t \in Threads, WaitNext(t)
    PROVE  /\ Moves(t, "waitnext", "advance") /\ next[t] # NULL /\ lk[t] \in Locks /\ slot[t] \in Slots
           /\ KeepLocks /\ KeepSlots /\ KeepElems /\ Same(t)
           /\ slot'[t] = slot[t] /\ old'[t] = old[t] /\ ptr'[t] = ptr[t]
  BY FxTypes DEF TypeOK, WaitNext, Goto, Return, FindHead, KeepLocks, KeepSlots, KeepElems, Same,
     Moves, Updates, lockVars, slotVars, elemVars, argVars, Word, PassPCs, QueuePCs, WakePCs

LEMMA AdvanceFx ==
    ASSUME TypeOK, NEW t \in Threads, Advance(t)
    PROVE  /\ Moves(t, "advance", "cs") /\ lk[t] \in Locks /\ slot[t] \in Slots
           /\ Updates(slot[t], spin, spin', next[t]) /\ ref' = ref /\ headTkt' = headTkt /\ spinTail' = spinTail
           /\ KeepLocks /\ KeepElems /\ Same(t)
           /\ slot'[t] = slot[t] /\ old'[t] = old[t] /\ ptr'[t] = ptr[t]
  BY FxTypes DEF TypeOK, Advance, Goto, Return, FindHead, KeepLocks, KeepSlots, KeepElems, Same,
     Moves, Updates, lockVars, slotVars, elemVars, argVars, Word, PassPCs, QueuePCs, WakePCs

LEMMA QTicketReleaseFx ==
    ASSUME TypeOK, NEW t \in Threads, QTicketRelease(t)
    PROVE  /\ pc[t] = "cs" /\ lk[t] \in Locks /\ head'[lk[t]] = Inc(head[lk[t]])
           /\ \A l \in Locks : l # lk[t] => head'[l] = head[l]
           /\ \/ pc'[t] = "wakefind" /\ queued[lk[t]] /\ slot'[t] = Hash[lk[t]] /\ Same(t) /\ next' = next
              \/ /\ pc'[t] = "idle" /\ ~queued[lk[t]] /\ lk'[t] = NULL
                 /\ next'[t] = NULL /\ \A u \in Threads : u # t => next'[u] = next[u]
           /\ queued' = queued /\ tail' = tail /\ KeepSlots /\ ~woken'[t]
           /\ \A u \in Threads : u # t => woken'[u] = woken[u]
           /\ old'[t] = old[t] /\ ptr'[t] = ptr[t]
  BY FxTypes DEF TypeOK, QTicketRelease, Goto, Return, FindHead, KeepLocks, KeepSlots, KeepElems,
     Same,
     Moves, Updates, lockVars, slotVars, elemVars, argVars, Word, PassPCs, QueuePCs, WakePCs

LEMMA WakeFindFx ==
    ASSUME TypeOK, NEW t \in Threads, WakeFind(t)
    PROVE  /\ pc[t] = "wakefind" /\ lk[t] \in Locks
           /\ \/ pc'[t] = "wakespin" /\ ref[slot[t]] = lk[t] /\ slot'[t] = slot[t]
              \/ pc'[t] = "wakefind"
           /\ KeepLocks /\ KeepSlots /\ KeepElems /\ Same(t)
           /\ old'[t] = old[t] /\ ptr'[t] = ptr[t]
  BY FxTypes DEF TypeOK, WakeFind, Goto, Return, FindHead, KeepLocks, KeepSlots, KeepElems, Same,
     Moves, Updates, lockVars, slotVars, elemVars, argVars, Word, PassPCs, QueuePCs, WakePCs

LEMMA WakeSpinFx ==
    ASSUME TypeOK, NEW t \in Threads, WakeSpin(t)
    PROVE  /\ pc[t] = "wakespin" /\ lk[t] \in Locks /\ slot[t] \in Slots
           /\ \/ pc'[t] = "waketkt" /\ spin[slot[t]] # NULL
              \/ pc'[t] = "wakeread" /\ spin[slot[t]] = NULL
           /\ KeepLocks /\ KeepSlots /\ KeepElems /\ Same(t) /\ ptr'[t] = spin[slot[t]]
           /\ slot'[t] = slot[t] /\ old'[t] = old[t]
  BY FxTypes DEF TypeOK, WakeSpin, Goto, Return, FindHead, KeepLocks, KeepSlots, KeepElems, Same,
     Moves, Updates, lockVars, slotVars, elemVars, argVars, Word, PassPCs, QueuePCs, WakePCs

LEMMA WakeReadFx ==
    ASSUME TypeOK, NEW t \in Threads, WakeRead(t)
    PROVE  /\ pc[t] = "wakeread" /\ lk[t] \in Locks
           /\ \/ pc'[t] = "wakespin"
              \/ pc'[t] = "wakecas" /\ old'[t].head = old'[t].tail
           /\ KeepLocks /\ KeepSlots /\ KeepElems /\ Same(t)
           /\ slot'[t] = slot[t] /\ ptr'[t] = ptr[t]
  BY FxTypes DEF TypeOK, WakeRead, Goto, Return, FindHead, KeepLocks, KeepSlots, KeepElems, Same,
     Moves, Updates, lockVars, slotVars, elemVars, argVars, Word, PassPCs, QueuePCs, WakePCs

LEMMA WakeCasFx ==
    ASSUME TypeOK, NEW t \in Threads, WakeCas(t)
    PROVE  /\ pc[t] = "wakecas" /\ lk[t] \in Locks
           /\ \/ /\ pc'[t] = "wakefree" /\ head[lk[t]] = old[t].head /\ tail[lk[t]] = old[t].tail
                 /\ ~queued'[lk[t]] /\ \A l \in Locks : l # lk[t] => queued'[l] = queued[l]
              \/ pc'[t] = "wakespin" /\ queued' = queued
           /\ head' = head /\ tail' = tail /\ KeepSlots /\ KeepElems /\ Same(t)
           /\ slot'[t] = slot[t] /\ ptr'[t] = ptr[t]
  BY FxTypes DEF TypeOK, WakeCas, Goto, Return, FindHead, KeepLocks, KeepSlots, KeepElems, Same,
     Moves, Updates, lockVars, slotVars, elemVars, argVars, Word, PassPCs, QueuePCs, WakePCs

LEMMA WakeFreeFx ==
    ASSUME TypeOK, NEW t \in Threads, WakeFree(t)
    PROVE  /\ Moves(t, "wakefree", "idle") /\ lk'[t] = NULL /\ lk[t] \in Locks /\ slot[t] \in Slots
           /\ Updates(slot[t], ref, ref', NULL) /\ headTkt' = headTkt /\ spin' = spin /\ spinTail' = spinTail
           /\ next'[t] = NULL /\ \A u \in Threads : u # t => next'[u] = next[u]
           /\ KeepLocks /\ woken' = woken
           /\ old'[t] = old[t] /\ ptr'[t] = ptr[t]
  BY FxTypes DEF TypeOK, WakeFree, Goto, Return, FindHead, KeepLocks, KeepSlots, KeepElems, Same,
     Moves, Updates, lockVars, slotVars, elemVars, argVars, Word, PassPCs, QueuePCs, WakePCs

LEMMA WakeTktFx ==
    ASSUME TypeOK, NEW t \in Threads, WakeTkt(t)
    PROVE  /\ Moves(t, "waketkt", "handoff") /\ lk[t] \in Locks /\ slot[t] \in Slots
           /\ Updates(slot[t], headTkt, headTkt', NoTicket) /\ ref' = ref /\ spin' = spin /\ spinTail' = spinTail
           /\ KeepLocks /\ KeepElems /\ Same(t)
           /\ slot'[t] = slot[t] /\ old'[t] = old[t] /\ ptr'[t] = ptr[t]
  BY FxTypes DEF TypeOK, WakeTkt, Goto, Return, FindHead, KeepLocks, KeepSlots, KeepElems, Same,
     Moves, Updates, lockVars, slotVars, elemVars, argVars, Word, PassPCs, QueuePCs, WakePCs

LEMMA HandOffFx ==
    ASSUME TypeOK, NEW t \in Threads, HandOff(t)
    PROVE  /\ Moves(t, "handoff", "idle") /\ lk'[t] = NULL /\ lk[t] \in Locks /\ slot[t] \in Slots
           /\ ptr[t] \in Threads /\ ptr'[t] = NULL /\ woken'[ptr[t]]
           /\ \A u \in Threads : u # ptr[t] => woken'[u] = woken[u]
           /\ next'[t] = NULL /\ \A u \in Threads : u # t => next'[u] = next[u]
           /\ KeepLocks /\ KeepSlots /\ old'[t] = old[t]
  BY FxTypes DEF TypeOK, HandOff, Goto, Return, FindHead, KeepLocks, KeepSlots, KeepElems, Same,
     Moves, Updates, lockVars, slotVars, elemVars, argVars, Word, PassPCs, QueuePCs, WakePCs
-----------------------------------------------------------------------------
\* The types that the steps below need.
Kinds ==
    /\ slot \in [Threads -> Slots]
    /\ ref \in [Slots -> Locks \cup {NULL, BUSY}]
    /\ \A u \in Threads : pc[u] # "idle" => lk[u] \in Locks

\* A release whose CAS takes the queue bit away is the only thread at its lock:
\* head and tail were equal, so that no ticket was outstanding.
LEMMA Alone ==
    ASSUME TypeOK, TicketsAccountForThreads, Attached, One,
           NEW t \in Threads, WakeCas(t), pc'[t] = "wakefree"
    PROVE  /\ Outstanding(lk[t]) = {}
           /\ \A u \in Threads : u # t /\ lk[u] = lk[t] => pc[u] = "idle"
  <1> DEFINE l == lk[t]
  <1>1. pc[t] = "wakecas" /\ l \in Locks /\ head[l] = tail[l] /\ queued[l]
    BY WakeCasFx DEF Attached, Sure, Wakers, WakePCs
  <1>2. t \notin Outstanding(l) BY <1>1 DEF Outstanding, WakePCs
  <1>3. /\ Cardinality(Outstanding(l)) \in Nat /\ IsFiniteSet(Outstanding(l))
        /\ Cardinality(Outstanding(l)) < TicketMod
    BY <1>1, <1>2, OutstandingFinite, RoomForOne
  <1>4. head[l] \in Tickets /\ tail[l] = Behind(head[l], Cardinality(Outstanding(l)))
    BY <1>1 DEF TypeOK, TicketsAccountForThreads
  <1>5. Cardinality(Outstanding(l)) = 0
    BY <1>1, <1>3, <1>4, TicketModAssumption DEF Behind, Tickets
  <1>6. Outstanding(l) = {} BY <1>3, <1>5, FS_EmptySet
  <1>7. ASSUME NEW u \in Threads, u # t, lk[u] = l PROVE pc[u] = "idle"
    <2>1. pc[u] \in {"idle"} \cup WakePCs BY <1>6, <1>7 DEF Outstanding
    <2>2. pc[u] # "wakefree" BY <1>1, <1>7 DEF Attached
    <2>3. Has(t) BY <1>1 DEF Has, Wakers, WakePCs
    <2>4. ~Has(u) BY <1>7, <2>3 DEF One
    <2> QED BY <2>1, <2>2, <2>4 DEF Has, Wakers
  <1> QED BY <1>6, <1>7

\* Threads that do not have a ticket of a lock leave fewer that do.
LEMMA LessThanAll ==
    ASSUME NEW l \in Locks, NEW v \in Threads, v \notin Outstanding(l)
    PROVE  /\ Cardinality(Outstanding(l)) <= Cardinality(Threads) - 1
           /\ \A w \in Threads : w # v /\ w \notin Outstanding(l) =>
                Cardinality(Outstanding(l)) <= Cardinality(Threads) - 2
           /\ Cardinality(Outstanding(l)) \in Nat /\ Cardinality(Threads) \in Nat
  <1> DEFINE o == Outstanding(l)
  <1>1. /\ IsFiniteSet(Threads \ {v}) /\ Cardinality(Threads) \in Nat
        /\ Cardinality(Threads \ {v}) = Cardinality(Threads) - 1
    BY FS_RemoveElement, FS_CardinalityType, QLockAssumption
  <1>2. o \in SUBSET (Threads \ {v}) /\ Cardinality(o) \in Nat
    BY OutstandingFinite DEF Outstanding
  <1>3. Cardinality(o) <= Cardinality(Threads) - 1 BY <1>1, <1>2, FS_Subset
  <1>4. ASSUME NEW w \in Threads, w # v, w \notin o
        PROVE  Cardinality(o) <= Cardinality(Threads) - 2
    <2>1. /\ IsFiniteSet((Threads \ {v}) \ {w})
          /\ Cardinality((Threads \ {v}) \ {w}) = Cardinality(Threads \ {v}) - 1
      BY <1>1, <1>4, FS_RemoveElement
    <2>2. o \in SUBSET ((Threads \ {v}) \ {w}) BY <1>2, <1>4
    <2>3. Cardinality(o) <= Cardinality((Threads \ {v}) \ {w}) BY <2>1, <2>2, FS_Subset
    <2> QED BY <1>1, <1>2, <2>1, <2>3
  <1> QED BY <1>1, <1>2, <1>3, <1>4

\* With few threads nobody asks for a queue while another thread is still
\* giving the last slot of the lock back.
LEMMA FewThreads ==
    ASSUME TypeOK, TicketsAccountForThreads, Line, Cardinality(Threads) <= Switch + 1,
           NEW t \in Threads, NEW v \in Threads, v # t, pc[v] = "wakefree",
           NEW l \in Locks, ~queued[l]
    PROVE  /\ pc[t] = "idle" => tail[l] # head[l] + Switch
           /\ lk[t] = l /\ pc[t] = "spin" => tkt[t] # head[l] + Switch
  <1>1. v \notin Outstanding(l) BY DEF Outstanding, WakePCs
  <1> DEFINE n == Cardinality(Outstanding(l))
  <1>2. n \in Nat /\ Cardinality(Threads) \in Nat /\ Switch \in Nat /\ n <= Switch
    BY <1>1, LessThanAll, QLockAssumption
  <1>3. head[l] \in Tickets /\ tail[l] = Behind(head[l], n) /\ n < TicketMod
    BY <1>1, RoomForOne DEF TypeOK, TicketsAccountForThreads
  <1>4. CASE pc[t] = "idle"
    <2>1. t \notin Outstanding(l) BY <1>4 DEF Outstanding
    <2>2. n <= Cardinality(Threads) - 2 BY <1>1, <2>1, LessThanAll
    <2>3. n < Switch BY <1>2, <2>2
    <2> HIDE DEF n
    <2> QED BY <1>2, <1>3, <1>4, <2>3, TicketModAssumption DEF Behind, Tickets
  <1>5. CASE lk[t] = l /\ pc[t] = "spin"
    <2>1. t \in Outstanding(l) BY <1>5 DEF Outstanding, WakePCs
    <2>2. Offset(head[l], tkt[t]) < n BY <2>1 DEF Line, ByTicket, InLine
    <2>3. tkt[t] \in Tickets BY DEF TypeOK
    <2> HIDE DEF n
    <2> QED BY <1>2, <1>3, <1>5, <2>2, <2>3 DEF Offset, Tickets
  <1> QED BY <1>4, <1>5
-----------------------------------------------------------------------------
\* A slot that is being set up belongs to one thread.
LEMMA SetUpStep ==
    ASSUME TypeOK, NEW t \in Threads, Step(t) \/ \E l \in Locks : QTicketAcquire(t, l),
           SetUp, Attached
    PROVE  SetUp'
  <1>1. Others(t) BY OthersFx
  <1>2. Kinds BY DEF Kinds, TypeOK
  <1> USE FxTypes, <1>1, <1>2 DEF Kinds, Others, Same, Moves, Updates, KeepLocks, KeepSlots,
        KeepElems,
        SetUp, Setters, QueuePCs, WakePCs
  <1>3. CASE SpinOnTicket(t) BY <1>3, SpinOnTicketFx
  <1>4. CASE TakeSlot(t) BY <1>4, TakeSlotFx
  <1>5. CASE BitCheck(t) BY <1>5, BitCheckFx
  <1>6. CASE InitSpin(t) BY <1>6, InitSpinFx
  <1>7. CASE InitTail(t) BY <1>7, InitTailFx
  <1>8. CASE ReadLock(t) BY <1>8, ReadLockFx
  <1>9. CASE BackOut(t) BY <1>9, BackOutFx
  <1>10. CASE SetBit(t) BY <1>10, SetBitFx
  <1>11. CASE Publish(t) BY <1>11, PublishFx
  <1>12. CASE SpinFind(t) BY <1>12, SpinFindFx
  <1>13. CASE SpinCheck(t) BY <1>13, SpinCheckFx
  <1>14. CASE Claim(t)
    <2>1. ref[slot[t]] = lk[t] BY <1>14, ClaimFx DEF Attached, Found
    <2> QED BY <1>14, <2>1, ClaimFx
  <1>15. CASE Enqueue(t) BY <1>15, EnqueueFx
  <1>16. CASE Link(t) BY <1>16, LinkFx
  <1>17. CASE Wait(t) BY <1>17, WaitFx
  <1>18. CASE Clear(t) BY <1>18, ClearFx
  <1>19. CASE ResetTail(t) BY <1>19, ResetTailFx
  <1>20. CASE WaitNext(t) BY <1>20, WaitNextFx
  <1>21. CASE Advance(t) BY <1>21, AdvanceFx
  <1>22. CASE QTicketRelease(t) BY <1>22, QTicketReleaseFx
  <1>23. CASE WakeFind(t) BY <1>23, WakeFindFx
  <1>24. CASE WakeSpin(t) BY <1>24, WakeSpinFx
  <1>25. CASE WakeRead(t) BY <1>25, WakeReadFx
  <1>26. CASE WakeCas(t) BY <1>26, WakeCasFx
  <1>27. CASE WakeFree(t)
    <2>1. ref[slot[t]] = lk[t] BY <1>27, WakeFreeFx DEF Attached, Found
    <2> QED BY <1>27, <2>1, WakeFreeFx
  <1>28. CASE WakeTkt(t)
    <2>1. ref[slot[t]] = lk[t] BY <1>28, WakeTktFx DEF Attached, Found
    <2> QED BY <1>28, <2>1, WakeTktFx
  <1>29. CASE HandOff(t) BY <1>29, HandOffFx
  <1>30. ASSUME NEW l \in Locks, QTicketAcquire(t, l) PROVE SetUp' BY <1>30, AcquireFx
  <1> QED
    BY <1>3, <1>4, <1>5, <1>6, <1>7, <1>8, <1>9, <1>10, <1>11, <1>12, <1>13, <1>14, <1>15, <1>16,
       <1>17, <1>18, <1>19, <1>20, <1>21, <1>22, <1>23, <1>24, <1>25, <1>26, <1>27, <1>28, <1>29, <1>30 DEF Step

\* A lock gets a slot only when it has none.
LEMMA OneSlotStep ==
    ASSUME TypeOK, NEW t \in Threads, Step(t) \/ \E l \in Locks : QTicketAcquire(t, l),
           SetUp, OneSlot, Attached, Apart, StaleUsed
    PROVE  OneSlot'
  <1>1. Others(t) BY OthersFx
  <1>2. Kinds BY DEF Kinds, TypeOK
  <1> USE FxTypes, <1>1, <1>2 DEF Kinds, Others, Same, Moves, Updates, KeepLocks, KeepSlots,
        KeepElems,
        OneSlot
  <1>3. CASE SpinOnTicket(t) BY <1>3, SpinOnTicketFx
  <1>4. CASE TakeSlot(t) BY <1>4, TakeSlotFx
  <1>5. CASE BitCheck(t) BY <1>5, BitCheckFx
  <1>6. CASE InitSpin(t) BY <1>6, InitSpinFx
  <1>7. CASE InitTail(t) BY <1>7, InitTailFx
  <1>8. CASE ReadLock(t) BY <1>8, ReadLockFx
  <1>9. CASE BackOut(t) BY <1>9, BackOutFx
  <1>10. CASE SetBit(t)
    <2>1. CASE pc'[t] = "publish"
      <3>1. ~queued[lk[t]] BY <1>10, <2>1, SetBitFx DEF SetUp
      <3>2. \A u \in Threads : pc[u] = "publish" => lk[u] # lk[t] BY <3>1 DEF Attached, Sure
      <3>3. \A u \in Threads : pc[u] = "wakefree" => lk[u] # lk[t]
        BY <1>10, SetBitFx DEF Apart, Setters
      <3>4. ASSUME NEW s \in Slots PROVE ref[s] # lk[t]
        <4>1. SUFFICES ASSUME ref[s] = lk[t] PROVE FALSE OBVIOUS
        <4>2. ref[s] \in Locks /\ ~queued[ref[s]] BY <1>10, <3>1, <4>1, SetBitFx
        <4>3. PICK u \in Threads : pc[u] = "wakefree" /\ slot[u] = s BY <4>2 DEF StaleUsed
        <4>4. lk[u] = lk[t] BY <4>1, <4>3 DEF Attached, Found, WakePCs
        <4> QED BY <3>3, <4>3, <4>4
      <3> QED BY <1>10, <2>1, <3>2, <3>4, SetBitFx
    <2>2. CASE pc'[t] # "publish" BY <1>10, <2>2, SetBitFx
    <2> QED BY <2>1, <2>2
  <1>11. CASE Publish(t) BY <1>11, PublishFx
  <1>12. CASE SpinFind(t) BY <1>12, SpinFindFx
  <1>13. CASE SpinCheck(t) BY <1>13, SpinCheckFx
  <1>14. CASE Claim(t) BY <1>14, ClaimFx
  <1>15. CASE Enqueue(t) BY <1>15, EnqueueFx
  <1>16. CASE Link(t) BY <1>16, LinkFx
  <1>17. CASE Wait(t) BY <1>17, WaitFx
  <1>18. CASE Clear(t) BY <1>18, ClearFx
  <1>19. CASE ResetTail(t) BY <1>19, ResetTailFx
  <1>20. CASE WaitNext(t) BY <1>20, WaitNextFx
  <1>21. CASE Advance(t) BY <1>21, AdvanceFx
  <1>22. CASE QTicketRelease(t) BY <1>22, QTicketReleaseFx
  <1>23. CASE WakeFind(t) BY <1>23, WakeFindFx
  <1>24. CASE WakeSpin(t) BY <1>24, WakeSpinFx
  <1>25. CASE WakeRead(t) BY <1>25, WakeReadFx
  <1>26. CASE WakeCas(t) BY <1>26, WakeCasFx
  <1>27. CASE WakeFree(t) BY <1>27, WakeFreeFx
  <1>28. CASE WakeTkt(t) BY <1>28, WakeTktFx
  <1>29. CASE HandOff(t) BY <1>29, HandOffFx
  <1>30. ASSUME NEW l \in Locks, QTicketAcquire(t, l) PROVE OneSlot' BY <1>30, AcquireFx
  <1> QED
    BY <1>3, <1>4, <1>5, <1>6, <1>7, <1>8, <1>9, <1>10, <1>11, <1>12, <1>13, <1>14, <1>15, <1>16,
       <1>17, <1>18, <1>19, <1>20, <1>21, <1>22, <1>23, <1>24, <1>25, <1>26, <1>27, <1>28, <1>29, <1>30 DEF Step

\* What a thread has found stays: only the last thread at a lock detaches its
\* queue, and it gives the slot back.
LEMMA AttachedStep ==
    ASSUME TypeOK, NEW t \in Threads, Step(t) \/ \E l \in Locks : QTicketAcquire(t, l),
           TicketsAccountForThreads, SetUp, Attached, One, Apart
    PROVE  Attached'
  <1>1. Others(t) BY OthersFx
  <1>2. Kinds BY DEF Kinds, TypeOK
  <1> USE FxTypes, <1>1, <1>2 DEF Kinds, Others, Same, Moves, Updates, KeepLocks, KeepSlots,
        KeepElems,
        Attached, Setters, Wakers, Found, Sure, PassPCs, QueuePCs, WakePCs
  <1>3. CASE SpinOnTicket(t) BY <1>3, SpinOnTicketFx
  <1>4. CASE TakeSlot(t) BY <1>4, TakeSlotFx
  <1>5. CASE BitCheck(t) BY <1>5, BitCheckFx
  <1>6. CASE InitSpin(t) BY <1>6, InitSpinFx
  <1>7. CASE InitTail(t) BY <1>7, InitTailFx
  <1>8. CASE ReadLock(t) BY <1>8, ReadLockFx
  <1>9. CASE BackOut(t)
    <2>1. ref[slot[t]] = BUSY BY <1>9, BackOutFx DEF SetUp, Setters
    <2> QED BY <1>9, <2>1, BackOutFx
  <1>10. CASE SetBit(t)
    <2>1. \A u \in Threads : pc[u] = "wakefree" => lk[u] # lk[t]
      BY <1>10, SetBitFx DEF Apart
    <2> QED BY <1>10, <2>1, SetBitFx
  <1>11. CASE Publish(t)
    <2>1. ref[slot[t]] = BUSY BY <1>11, PublishFx DEF SetUp, Setters
    <2> QED BY <1>11, <2>1, PublishFx
  <1>12. CASE SpinFind(t) BY <1>12, SpinFindFx
  <1>13. CASE SpinCheck(t) BY <1>13, SpinCheckFx
  <1>14. CASE Claim(t) BY <1>14, ClaimFx
  <1>15. CASE Enqueue(t) BY <1>15, EnqueueFx
  <1>16. CASE Link(t) BY <1>16, LinkFx
  <1>17. CASE Wait(t) BY <1>17, WaitFx
  <1>18. CASE Clear(t) BY <1>18, ClearFx
  <1>19. CASE ResetTail(t) BY <1>19, ResetTailFx
  <1>20. CASE WaitNext(t) BY <1>20, WaitNextFx
  <1>21. CASE Advance(t) BY <1>21, AdvanceFx
  <1>22. CASE QTicketRelease(t) BY <1>22, QTicketReleaseFx
  <1>23. CASE WakeFind(t) BY <1>23, WakeFindFx
  <1>24. CASE WakeSpin(t) BY <1>24, WakeSpinFx
  <1>25. CASE WakeRead(t) BY <1>25, WakeReadFx
  <1>26. CASE WakeCas(t)
    <2>1. CASE pc'[t] = "wakefree"
      <3>1. \A u \in Threads : u # t /\ lk[u] = lk[t] => pc[u] = "idle" BY <1>26, <2>1, Alone
      <3>2. \A u \in Threads : pc[u] = "wakefree" => slot[u] # slot[t]
        BY <1>26, <3>1, WakeCasFx
      <3> QED BY <1>26, <2>1, <3>1, <3>2, WakeCasFx
    <2>2. CASE pc'[t] # "wakefree" BY <1>26, <2>2, WakeCasFx
    <2> QED BY <2>1, <2>2
  <1>27. CASE WakeFree(t) BY <1>27, WakeFreeFx
  <1>28. CASE WakeTkt(t) BY <1>28, WakeTktFx
  <1>29. CASE HandOff(t) BY <1>29, HandOffFx
  <1>30. ASSUME NEW l \in Locks, QTicketAcquire(t, l) PROVE Attached' BY <1>30, AcquireFx
  <1> QED
    BY <1>3, <1>4, <1>5, <1>6, <1>7, <1>8, <1>9, <1>10, <1>11, <1>12, <1>13, <1>14, <1>15, <1>16,
       <1>17, <1>18, <1>19, <1>20, <1>21, <1>22, <1>23, <1>24, <1>25, <1>26, <1>27, <1>28, <1>29, <1>30 DEF Step

\* Nobody sets a slot up for a lock whose last slot is being given back.
LEMMA ApartStep ==
    ASSUME TypeOK, NEW t \in Threads, Step(t) \/ \E l \in Locks : QTicketAcquire(t, l),
           Safe, TicketsAccountForThreads, Attached, Apart, One, Line
    PROVE  Apart'
  <1>1. Others(t) BY OthersFx
  <1>2. Kinds BY DEF Kinds, TypeOK
  <1> USE FxTypes, <1>1, <1>2 DEF Kinds, Others, Same, Moves, Updates, KeepLocks, KeepSlots,
        KeepElems,
        Apart, Setters
  <1>3. CASE SpinOnTicket(t)
    <2>1. ASSUME NEW v \in Threads, pc[v] = "wakefree", lk[v] = lk[t], NQueues # 1
          PROVE  pc'[t] # "contend"
      <3>1. ~queued[lk[t]] BY <2>1 DEF Attached
      <3>2. Cardinality(Threads) <= Switch + 1 /\ v # t BY <1>3, <2>1, SpinOnTicketFx DEF Safe
      <3> QED BY <1>3, <2>1, <3>1, <3>2, FewThreads, SpinOnTicketFx
    <2> QED BY <1>3, <2>1, SpinOnTicketFx
  <1>4. CASE TakeSlot(t)
    <2>1. ASSUME NEW v \in Threads, pc[v] = "wakefree", lk[v] = lk[t]
          PROVE  pc'[t] # "initspin"
      <3>1. v # t /\ ref[slot[v]] = lk[v] /\ lk[v] \in Locks
        BY <1>4, <2>1, TakeSlotFx DEF Attached, Found, WakePCs
      <3>2. CASE NQueues = 1
        <4>1. slot[v] = slot[t] BY <3>2 DEF Slots
        <4> QED BY <1>4, <3>1, <4>1, TakeSlotFx
      <3>3. CASE NQueues # 1 BY <1>4, <2>1, <3>3, TakeSlotFx
      <3> QED BY <3>2, <3>3
    <2> QED BY <1>4, <2>1, TakeSlotFx
  <1>5. CASE BitCheck(t) BY <1>5, BitCheckFx
  <1>6. CASE InitSpin(t) BY <1>6, InitSpinFx
  <1>7. CASE InitTail(t) BY <1>7, InitTailFx
  <1>8. CASE ReadLock(t) BY <1>8, ReadLockFx
  <1>9. CASE BackOut(t) BY <1>9, BackOutFx
  <1>10. CASE SetBit(t) BY <1>10, SetBitFx
  <1>11. CASE Publish(t) BY <1>11, PublishFx
  <1>12. CASE SpinFind(t) BY <1>12, SpinFindFx
  <1>13. CASE SpinCheck(t) BY <1>13, SpinCheckFx
  <1>14. CASE Claim(t) BY <1>14, ClaimFx
  <1>15. CASE Enqueue(t) BY <1>15, EnqueueFx
  <1>16. CASE Link(t) BY <1>16, LinkFx
  <1>17. CASE Wait(t) BY <1>17, WaitFx
  <1>18. CASE Clear(t) BY <1>18, ClearFx
  <1>19. CASE ResetTail(t) BY <1>19, ResetTailFx
  <1>20. CASE WaitNext(t) BY <1>20, WaitNextFx
  <1>21. CASE Advance(t) BY <1>21, AdvanceFx
  <1>22. CASE QTicketRelease(t) BY <1>22, QTicketReleaseFx
  <1>23. CASE WakeFind(t) BY <1>23, WakeFindFx
  <1>24. CASE WakeSpin(t) BY <1>24, WakeSpinFx
  <1>25. CASE WakeRead(t) BY <1>25, WakeReadFx
  <1>26. CASE WakeCas(t)
    <2>1. CASE pc'[t] = "wakefree"
      <3>1. \A u \in Threads : u # t /\ lk[u] = lk[t] => pc[u] = "idle" BY <1>26, <2>1, Alone
      <3> QED BY <1>26, <2>1, <3>1, WakeCasFx
    <2>2. CASE pc'[t] # "wakefree" BY <1>26, <2>2, WakeCasFx
    <2> QED BY <2>1, <2>2
  <1>27. CASE WakeFree(t) BY <1>27, WakeFreeFx
  <1>28. CASE WakeTkt(t) BY <1>28, WakeTktFx
  <1>29. CASE HandOff(t) BY <1>29, HandOffFx
  <1>30. ASSUME NEW l \in Locks, QTicketAcquire(t, l) PROVE Apart'
    <2>1. ASSUME NEW v \in Threads, pc[v] = "wakefree", lk[v] = l, NQueues # 1
          PROVE  pc'[t] # "contend"
      <3>1. ~queued[l] BY <2>1 DEF Attached
      <3>2. Cardinality(Threads) <= Switch + 1 /\ v # t BY <1>30, <2>1, AcquireFx DEF Safe
      <3> QED BY <1>30, <2>1, <3>1, <3>2, FewThreads, AcquireFx
    <2> QED BY <1>30, <2>1, AcquireFx
  <1> QED
    BY <1>3, <1>4, <1>5, <1>6, <1>7, <1>8, <1>9, <1>10, <1>11, <1>12, <1>13, <1>14, <1>15, <1>16,
       <1>17, <1>18, <1>19, <1>20, <1>21, <1>22, <1>23, <1>24, <1>25, <1>26, <1>27, <1>28, <1>29, <1>30 DEF Step

\* A step that attaches and detaches nothing.
AtSame ==
    /\ queued' = queued
    /\ \A s \in Slots, l \in Locks : At(s, l)' <=> At(s, l)
Attaches(t) == pc'[t] = "publish"
Detaches(t) == pc[t] = "wakecas" /\ pc'[t] = "wakefree"

\* The slot of a lock stays its slot, when it is published too.
LEMMA AtStep ==
    ASSUME TypeOK, NEW t \in Threads, Step(t) \/ \E l \in Locks : QTicketAcquire(t, l),
           SetUp, Attached, ~Attaches(t), ~Detaches(t)
    PROVE  AtSame
  <1>1. Others(t) BY OthersFx
  <1>2. Kinds BY DEF Kinds, TypeOK
  <1> USE FxTypes, <1>1, <1>2 DEF Kinds, Others, Same, Moves, Updates, KeepLocks, KeepSlots,
        KeepElems,
        AtSame, At
  <1>3. CASE SpinOnTicket(t) BY <1>3, SpinOnTicketFx
  <1>4. CASE TakeSlot(t)
    <2>1. \A s \in Slots, l \in Locks : ref'[s] = l <=> ref[s] = l BY <1>4, TakeSlotFx
    <2> QED BY <1>4, <2>1, TakeSlotFx
  <1>5. CASE BitCheck(t) BY <1>5, BitCheckFx
  <1>6. CASE InitSpin(t) BY <1>6, InitSpinFx
  <1>7. CASE InitTail(t) BY <1>7, InitTailFx
  <1>8. CASE ReadLock(t) BY <1>8, ReadLockFx
  <1>9. CASE BackOut(t)
    <2>1. ref[slot[t]] = BUSY BY <1>9, BackOutFx DEF SetUp, Setters
    <2>2. \A s \in Slots, l \in Locks : ref'[s] = l <=> ref[s] = l BY <1>9, <2>1, BackOutFx
    <2> QED BY <1>9, <2>2, BackOutFx
  <1>10. CASE SetBit(t)
    BY <1>10, SetBitFx DEF Attaches
  <1>11. CASE Publish(t)
    <2>1. ref[slot[t]] = BUSY /\ queued[lk[t]] BY <1>11, PublishFx DEF SetUp, Setters, Attached,
          Sure
    <2>2. \A s \in Slots, l \in Locks :
            ref'[s] = l <=> ref[s] = l \/ (s = slot[t] /\ l = lk[t])
      BY <1>11, <2>1, PublishFx
    <2> QED BY <1>11, <2>1, <2>2, PublishFx
  <1>12. CASE SpinFind(t) BY <1>12, SpinFindFx
  <1>13. CASE SpinCheck(t) BY <1>13, SpinCheckFx
  <1>14. CASE Claim(t) BY <1>14, ClaimFx
  <1>15. CASE Enqueue(t) BY <1>15, EnqueueFx
  <1>16. CASE Link(t) BY <1>16, LinkFx
  <1>17. CASE Wait(t) BY <1>17, WaitFx
  <1>18. CASE Clear(t) BY <1>18, ClearFx
  <1>19. CASE ResetTail(t) BY <1>19, ResetTailFx
  <1>20. CASE WaitNext(t) BY <1>20, WaitNextFx
  <1>21. CASE Advance(t) BY <1>21, AdvanceFx
  <1>22. CASE QTicketRelease(t) BY <1>22, QTicketReleaseFx
  <1>23. CASE WakeFind(t) BY <1>23, WakeFindFx
  <1>24. CASE WakeSpin(t) BY <1>24, WakeSpinFx
  <1>25. CASE WakeRead(t) BY <1>25, WakeReadFx
  <1>26. CASE WakeCas(t)
    BY <1>26, WakeCasFx DEF Detaches
  <1>27. CASE WakeFree(t)
    <2>1. ref[slot[t]] = lk[t] /\ ~queued[lk[t]] BY <1>27, WakeFreeFx DEF Attached, Found, WakePCs
    <2>2. \A s \in Slots, l \in Locks : queued[l] => (ref'[s] = l <=> ref[s] = l)
      BY <1>27, <2>1, WakeFreeFx
    <2> QED BY <1>27, <2>2, WakeFreeFx
  <1>28. CASE WakeTkt(t) BY <1>28, WakeTktFx
  <1>29. CASE HandOff(t) BY <1>29, HandOffFx
  <1>30. ASSUME NEW l \in Locks, QTicketAcquire(t, l) PROVE AtSame BY <1>30, AcquireFx
  <1> QED
    BY <1>3, <1>4, <1>5, <1>6, <1>7, <1>8, <1>9, <1>10, <1>11, <1>12, <1>13, <1>14, <1>15, <1>16,
       <1>17, <1>18, <1>19, <1>20, <1>21, <1>22, <1>23, <1>24, <1>25, <1>26, <1>27, <1>28, <1>29, <1>30 DEF Step

\* The CAS that sets the bit makes the slot the queue of the lock.
LEMMA AttachFx ==
    ASSUME TypeOK, SetUp, OneSlot, Attached, StaleUsed, Apart,
           NEW t \in Threads, Step(t) \/ \E l \in Locks : QTicketAcquire(t, l), Attaches(t)
    PROVE  /\ SetBit(t) /\ pc[t] = "setbit" /\ ~queued[lk[t]] /\ lk[t] \in Locks /\ slot[t] \in Slots
           /\ head[lk[t]] = headTkt[slot[t]] /\ lk'[t] = lk[t] /\ slot'[t] = slot[t]
           /\ head' = head /\ headTkt' = headTkt /\ tkt'[t] = tkt[t]
           /\ \A l \in Locks : queued'[l] <=> queued[l] \/ l = lk[t]
           /\ \A s \in Slots, l \in Locks : At(s, l)' <=> At(s, l) \/ (s = slot[t] /\ l = lk[t])
           /\ \A s \in Slots : ~At(s, lk[t])
  <1>1. SetBit(t)
    <2> USE DEF Attaches, Moves
    <2>1. CASE SpinOnTicket(t) BY <2>1, SpinOnTicketFx
    <2>2. CASE TakeSlot(t) BY <2>2, TakeSlotFx
    <2>3. CASE BitCheck(t) BY <2>3, BitCheckFx
    <2>4. CASE InitSpin(t) BY <2>4, InitSpinFx
    <2>5. CASE InitTail(t) BY <2>5, InitTailFx
    <2>6. CASE ReadLock(t) BY <2>6, ReadLockFx
    <2>7. CASE BackOut(t) BY <2>7, BackOutFx
    <2>8. CASE Publish(t) BY <2>8, PublishFx
    <2>9. CASE SpinFind(t) BY <2>9, SpinFindFx
    <2>10. CASE SpinCheck(t) BY <2>10, SpinCheckFx
    <2>11. CASE Claim(t) BY <2>11, ClaimFx
    <2>12. CASE Enqueue(t) BY <2>12, EnqueueFx
    <2>13. CASE Link(t) BY <2>13, LinkFx
    <2>14. CASE Wait(t) BY <2>14, WaitFx
    <2>15. CASE Clear(t) BY <2>15, ClearFx
    <2>16. CASE ResetTail(t) BY <2>16, ResetTailFx
    <2>17. CASE WaitNext(t) BY <2>17, WaitNextFx
    <2>18. CASE Advance(t) BY <2>18, AdvanceFx
    <2>19. CASE QTicketRelease(t) BY <2>19, QTicketReleaseFx
    <2>20. CASE WakeFind(t) BY <2>20, WakeFindFx
    <2>21. CASE WakeSpin(t) BY <2>21, WakeSpinFx
    <2>22. CASE WakeRead(t) BY <2>22, WakeReadFx
    <2>23. CASE WakeCas(t) BY <2>23, WakeCasFx
    <2>24. CASE WakeFree(t) BY <2>24, WakeFreeFx
    <2>25. CASE WakeTkt(t) BY <2>25, WakeTktFx
    <2>26. CASE HandOff(t) BY <2>26, HandOffFx
    <2>27. ASSUME NEW l \in Locks, QTicketAcquire(t, l) PROVE FALSE BY <2>27, AcquireFx
    <2> QED BY <2>1, <2>2, <2>3, <2>4, <2>5, <2>6, <2>7, <2>8, <2>9, <2>10, <2>11, <2>12, <2>13,
          <2>14, <2>15, <2>16, <2>17, <2>18, <2>19, <2>20, <2>21, <2>22, <2>23, <2>24, <2>25,
          <2>26, <2>27 DEF Step
  <1>2. Others(t) /\ Kinds BY OthersFx DEF Kinds, TypeOK
  <1>3. /\ pc[t] = "setbit" /\ ~queued[lk[t]] /\ lk[t] \in Locks /\ slot[t] \in Slots
        /\ head[lk[t]] = headTkt[slot[t]] /\ head' = head /\ headTkt' = headTkt /\ ref' = ref
        /\ lk'[t] = lk[t] /\ tkt'[t] = tkt[t] /\ slot'[t] = slot[t] /\ pc'[t] = "publish" /\ queued'[lk[t]]
        /\ \A l \in Locks : l # lk[t] => queued'[l] = queued[l]
    BY <1>1, SetBitFx DEF Attaches, SetUp, Same, KeepSlots
  <1>4. \A u \in Threads : pc[u] = "publish" => lk[u] # lk[t] BY <1>3 DEF Attached, Sure
  <1>5. ASSUME NEW s \in Slots PROVE ref[s] # lk[t]
    <2>1. SUFFICES ASSUME ref[s] = lk[t] PROVE FALSE OBVIOUS
    <2>2. PICK u \in Threads : pc[u] = "wakefree" /\ slot[u] = s BY <1>3, <2>1 DEF StaleUsed
    <2>3. lk[u] = lk[t] BY <2>1, <2>2 DEF Attached, Found, WakePCs
    <2> QED BY <1>3, <2>2, <2>3 DEF Apart, Setters
  <1>6. \A s \in Slots, l \in Locks : At(s, l)' <=> At(s, l) \/ (s = slot[t] /\ l = lk[t])
    BY <1>2, <1>3, <1>4, <1>5 DEF At, Others
  <1>7. \A s \in Slots : ~At(s, lk[t]) BY <1>3 DEF At
  <1>8. \A l \in Locks : queued'[l] <=> queued[l] \/ l = lk[t] BY <1>3
  <1> QED BY <1>1, <1>3, <1>6, <1>7, <1>8

\* The CAS that takes the bit away leaves the lock without a slot.
LEMMA DetachFx ==
    ASSUME TypeOK, NEW t \in Threads, Step(t) \/ \E l \in Locks : QTicketAcquire(t, l), Detaches(t)
    PROVE  /\ WakeCas(t) /\ lk[t] \in Locks /\ lk'[t] = lk[t] /\ slot'[t] = slot[t]
           /\ head' = head /\ tail' = tail /\ headTkt' = headTkt /\ ref' = ref
           /\ \A l \in Locks : queued'[l] <=> queued[l] /\ l # lk[t]
           /\ \A s \in Slots, l \in Locks : At(s, l)' <=> At(s, l) /\ l # lk[t]
  <1>1. WakeCas(t)
    <2> USE DEF Detaches, Moves
    <2>1. CASE SpinOnTicket(t) BY <2>1, SpinOnTicketFx
    <2>2. CASE TakeSlot(t) BY <2>2, TakeSlotFx
    <2>3. CASE BitCheck(t) BY <2>3, BitCheckFx
    <2>4. CASE InitSpin(t) BY <2>4, InitSpinFx
    <2>5. CASE InitTail(t) BY <2>5, InitTailFx
    <2>6. CASE ReadLock(t) BY <2>6, ReadLockFx
    <2>7. CASE BackOut(t) BY <2>7, BackOutFx
    <2>8. CASE SetBit(t) BY <2>8, SetBitFx
    <2>9. CASE Publish(t) BY <2>9, PublishFx
    <2>10. CASE SpinFind(t) BY <2>10, SpinFindFx
    <2>11. CASE SpinCheck(t) BY <2>11, SpinCheckFx
    <2>12. CASE Claim(t) BY <2>12, ClaimFx
    <2>13. CASE Enqueue(t) BY <2>13, EnqueueFx
    <2>14. CASE Link(t) BY <2>14, LinkFx
    <2>15. CASE Wait(t) BY <2>15, WaitFx
    <2>16. CASE Clear(t) BY <2>16, ClearFx
    <2>17. CASE ResetTail(t) BY <2>17, ResetTailFx
    <2>18. CASE WaitNext(t) BY <2>18, WaitNextFx
    <2>19. CASE Advance(t) BY <2>19, AdvanceFx
    <2>20. CASE QTicketRelease(t) BY <2>20, QTicketReleaseFx
    <2>21. CASE WakeFind(t) BY <2>21, WakeFindFx
    <2>22. CASE WakeSpin(t) BY <2>22, WakeSpinFx
    <2>23. CASE WakeRead(t) BY <2>23, WakeReadFx
    <2>24. CASE WakeFree(t) BY <2>24, WakeFreeFx
    <2>25. CASE WakeTkt(t) BY <2>25, WakeTktFx
    <2>26. CASE HandOff(t) BY <2>26, HandOffFx
    <2>27. ASSUME NEW l \in Locks, QTicketAcquire(t, l) PROVE FALSE BY <2>27, AcquireFx
    <2> QED BY <2>1, <2>2, <2>3, <2>4, <2>5, <2>6, <2>7, <2>8, <2>9, <2>10, <2>11, <2>12, <2>13,
          <2>14, <2>15, <2>16, <2>17, <2>18, <2>19, <2>20, <2>21, <2>22, <2>23, <2>24, <2>25,
          <2>26, <2>27 DEF Step
  <1>2. Others(t) BY OthersFx
  <1>3. /\ lk[t] \in Locks /\ lk'[t] = lk[t] /\ slot'[t] = slot[t] /\ ref' = ref
        /\ head' = head /\ tail' = tail /\ headTkt' = headTkt /\ ~queued'[lk[t]]
        /\ \A l \in Locks : l # lk[t] => queued'[l] = queued[l]
    BY <1>1, WakeCasFx DEF Detaches, Same, KeepSlots
  <1>4. \A l \in Locks : queued'[l] <=> queued[l] /\ l # lk[t] BY <1>3
  <1>5. \A u \in Threads : pc'[u] = "publish" <=> pc[u] = "publish" BY <1>2 DEF Others, Detaches
  <1>6. \A s \in Slots, l \in Locks : At(s, l)' <=> At(s, l) /\ l # lk[t]
    BY <1>2, <1>3, <1>4, <1>5 DEF At, Others
  <1> QED BY <1>1, <1>3, <1>4, <1>6

\* A lock has at most one slot, a slot at most one lock.
LEMMA AtUnique ==
    ASSUME Kinds, SetUp, OneSlot, NEW s \in Slots, NEW l \in Locks, At(s, l)
    PROVE  /\ \A r \in Slots : At(r, l) => r = s
           /\ \A m \in Locks : At(s, m) => m = l
  BY FxTypes DEF Kinds, At, OneSlot, SetUp, Setters

\* A slot that is taken is being set up or the queue of a lock.
LEMMA BusyStep ==
    ASSUME TypeOK, NEW t \in Threads, Step(t) \/ \E l \in Locks : QTicketAcquire(t, l),
           SetUp, BusyUsed
    PROVE  BusyUsed'
  <1>1. Others(t) BY OthersFx
  <1>2. Kinds BY DEF Kinds, TypeOK
  <1> USE FxTypes, <1>1, <1>2 DEF Kinds, Others, Same, Moves, Updates, KeepLocks, KeepSlots,
        KeepElems,
        BusyUsed, Setters
  <1>3. CASE SpinOnTicket(t) BY <1>3, SpinOnTicketFx
  <1>4. CASE TakeSlot(t) BY <1>4, TakeSlotFx
  <1>5. CASE BitCheck(t) BY <1>5, BitCheckFx
  <1>6. CASE InitSpin(t) BY <1>6, InitSpinFx
  <1>7. CASE InitTail(t) BY <1>7, InitTailFx
  <1>8. CASE ReadLock(t) BY <1>8, ReadLockFx
  <1>9. CASE BackOut(t) BY <1>9, BackOutFx
  <1>10. CASE SetBit(t) BY <1>10, SetBitFx
  <1>11. CASE Publish(t) BY <1>11, PublishFx
  <1>12. CASE SpinFind(t) BY <1>12, SpinFindFx
  <1>13. CASE SpinCheck(t) BY <1>13, SpinCheckFx
  <1>14. CASE Claim(t) BY <1>14, ClaimFx
  <1>15. CASE Enqueue(t) BY <1>15, EnqueueFx
  <1>16. CASE Link(t) BY <1>16, LinkFx
  <1>17. CASE Wait(t) BY <1>17, WaitFx
  <1>18. CASE Clear(t) BY <1>18, ClearFx
  <1>19. CASE ResetTail(t) BY <1>19, ResetTailFx
  <1>20. CASE WaitNext(t) BY <1>20, WaitNextFx
  <1>21. CASE Advance(t) BY <1>21, AdvanceFx
  <1>22. CASE QTicketRelease(t) BY <1>22, QTicketReleaseFx
  <1>23. CASE WakeFind(t) BY <1>23, WakeFindFx
  <1>24. CASE WakeSpin(t) BY <1>24, WakeSpinFx
  <1>25. CASE WakeRead(t) BY <1>25, WakeReadFx
  <1>26. CASE WakeCas(t) BY <1>26, WakeCasFx
  <1>27. CASE WakeFree(t) BY <1>27, WakeFreeFx
  <1>28. CASE WakeTkt(t) BY <1>28, WakeTktFx
  <1>29. CASE HandOff(t) BY <1>29, HandOffFx
  <1>30. ASSUME NEW l \in Locks, QTicketAcquire(t, l) PROVE BusyUsed' BY <1>30, AcquireFx
  <1> QED
    BY <1>3, <1>4, <1>5, <1>6, <1>7, <1>8, <1>9, <1>10, <1>11, <1>12, <1>13, <1>14, <1>15, <1>16,
       <1>17, <1>18, <1>19, <1>20, <1>21, <1>22, <1>23, <1>24, <1>25, <1>26, <1>27, <1>28, <1>29, <1>30 DEF Step

\* A slot with a lock that has no queue is about to be given back.
LEMMA StaleStep ==
    ASSUME TypeOK, NEW t \in Threads, Step(t) \/ \E l \in Locks : QTicketAcquire(t, l),
           SetUp, Attached, OneSlot, StaleUsed
    PROVE  StaleUsed'
  <1>1. Others(t) BY OthersFx
  <1>2. Kinds BY DEF Kinds, TypeOK
  <1> USE FxTypes, <1>1, <1>2 DEF Kinds, Others, Same, Moves, Updates, KeepLocks, KeepSlots,
        KeepElems,
        StaleUsed
  <1>3. CASE SpinOnTicket(t) BY <1>3, SpinOnTicketFx
  <1>4. CASE TakeSlot(t) BY <1>4, TakeSlotFx
  <1>5. CASE BitCheck(t) BY <1>5, BitCheckFx
  <1>6. CASE InitSpin(t) BY <1>6, InitSpinFx
  <1>7. CASE InitTail(t) BY <1>7, InitTailFx
  <1>8. CASE ReadLock(t) BY <1>8, ReadLockFx
  <1>9. CASE BackOut(t) BY <1>9, BackOutFx
  <1>10. CASE SetBit(t) BY <1>10, SetBitFx
  <1>11. CASE Publish(t)
    <2>1. queued[lk[t]] BY <1>11, PublishFx DEF Attached, Sure
    <2> QED BY <1>11, <2>1, PublishFx
  <1>12. CASE SpinFind(t) BY <1>12, SpinFindFx
  <1>13. CASE SpinCheck(t) BY <1>13, SpinCheckFx
  <1>14. CASE Claim(t) BY <1>14, ClaimFx
  <1>15. CASE Enqueue(t) BY <1>15, EnqueueFx
  <1>16. CASE Link(t) BY <1>16, LinkFx
  <1>17. CASE Wait(t) BY <1>17, WaitFx
  <1>18. CASE Clear(t) BY <1>18, ClearFx
  <1>19. CASE ResetTail(t) BY <1>19, ResetTailFx
  <1>20. CASE WaitNext(t) BY <1>20, WaitNextFx
  <1>21. CASE Advance(t) BY <1>21, AdvanceFx
  <1>22. CASE QTicketRelease(t) BY <1>22, QTicketReleaseFx
  <1>23. CASE WakeFind(t) BY <1>23, WakeFindFx
  <1>24. CASE WakeSpin(t) BY <1>24, WakeSpinFx
  <1>25. CASE WakeRead(t) BY <1>25, WakeReadFx
  <1>26. CASE WakeCas(t)
    <2>1. ref[slot[t]] = lk[t] BY <1>26, WakeCasFx DEF Attached, Found, WakePCs
    <2>2. \A s \in Slots : ref[s] = lk[t] => s = slot[t] BY <1>26, <2>1, WakeCasFx DEF OneSlot
    <2> QED BY <1>26, <2>1, <2>2, WakeCasFx
  <1>27. CASE WakeFree(t) BY <1>27, WakeFreeFx
  <1>28. CASE WakeTkt(t) BY <1>28, WakeTktFx
  <1>29. CASE HandOff(t) BY <1>29, HandOffFx
  <1>30. ASSUME NEW l \in Locks, QTicketAcquire(t, l) PROVE StaleUsed' BY <1>30, AcquireFx
  <1> QED
    BY <1>3, <1>4, <1>5, <1>6, <1>7, <1>8, <1>9, <1>10, <1>11, <1>12, <1>13, <1>14, <1>15, <1>16,
       <1>17, <1>18, <1>19, <1>20, <1>21, <1>22, <1>23, <1>24, <1>25, <1>26, <1>27, <1>28, <1>29, <1>30 DEF Step

\* A lock with a queue keeps its slot until the bit is taken away.
LEMMA HaveSlotsStep ==
    ASSUME TypeOK, NEW t \in Threads, Step(t) \/ \E l \in Locks : QTicketAcquire(t, l),
           SetUp, OneSlot, Attached, StaleUsed, Apart, HaveSlots
    PROVE  HaveSlots'
  <1>1. CASE Attaches(t) BY <1>1, AttachFx DEF HaveSlots
  <1>2. CASE Detaches(t) BY <1>2, DetachFx DEF HaveSlots
  <1>3. CASE ~Attaches(t) /\ ~Detaches(t) BY <1>3, AtStep DEF HaveSlots, AtSame
  <1> QED BY <1>1, <1>2, <1>3
-----------------------------------------------------------------------------
\* What steps do to the heads and to the recorded tickets.
LEMMA HeadFx ==
    ASSUME TypeOK, NEW t \in Threads, Step(t) \/ \E l \in Locks : QTicketAcquire(t, l)
    PROVE  /\ pc[t] # "cs" => head' = head
           /\ pc[t] \notin {"claim", "waketkt"} =>
                \A s \in Slots : headTkt'[s] = headTkt[s] \/ (pc[t] = "readlock" /\ s = slot[t])
           /\ pc[t] \in {"claim", "waketkt"} => Updates(slot[t], headTkt, headTkt', NoTicket)
  <1> USE DEF KeepLocks, KeepSlots, KeepElems, Same, Moves, Updates
  <1>1. CASE SpinOnTicket(t) BY <1>1, SpinOnTicketFx
  <1>2. CASE TakeSlot(t) BY <1>2, TakeSlotFx
  <1>3. CASE BitCheck(t) BY <1>3, BitCheckFx
  <1>4. CASE InitSpin(t) BY <1>4, InitSpinFx
  <1>5. CASE InitTail(t) BY <1>5, InitTailFx
  <1>6. CASE ReadLock(t) BY <1>6, ReadLockFx
  <1>7. CASE BackOut(t) BY <1>7, BackOutFx
  <1>8. CASE SetBit(t) BY <1>8, SetBitFx
  <1>9. CASE Publish(t) BY <1>9, PublishFx
  <1>10. CASE SpinFind(t) BY <1>10, SpinFindFx
  <1>11. CASE SpinCheck(t) BY <1>11, SpinCheckFx
  <1>12. CASE Claim(t) BY <1>12, ClaimFx
  <1>13. CASE Enqueue(t) BY <1>13, EnqueueFx
  <1>14. CASE Link(t) BY <1>14, LinkFx
  <1>15. CASE Wait(t) BY <1>15, WaitFx
  <1>16. CASE Clear(t) BY <1>16, ClearFx
  <1>17. CASE ResetTail(t) BY <1>17, ResetTailFx
  <1>18. CASE WaitNext(t) BY <1>18, WaitNextFx
  <1>19. CASE Advance(t) BY <1>19, AdvanceFx
  <1>20. CASE QTicketRelease(t) BY <1>20, QTicketReleaseFx
  <1>21. CASE WakeFind(t) BY <1>21, WakeFindFx
  <1>22. CASE WakeSpin(t) BY <1>22, WakeSpinFx
  <1>23. CASE WakeRead(t) BY <1>23, WakeReadFx
  <1>24. CASE WakeCas(t) BY <1>24, WakeCasFx
  <1>25. CASE WakeFree(t) BY <1>25, WakeFreeFx
  <1>26. CASE WakeTkt(t) BY <1>26, WakeTktFx
  <1>27. CASE HandOff(t) BY <1>27, HandOffFx
  <1>28. CASE \E l \in Locks : QTicketAcquire(t, l) BY <1>28, AcquireFx
  <1> QED
    BY <1>1, <1>2, <1>3, <1>4, <1>5, <1>6, <1>7, <1>8, <1>9, <1>10, <1>11, <1>12, <1>13, <1>14,
       <1>15, <1>16, <1>17, <1>18, <1>19, <1>20, <1>21, <1>22, <1>23, <1>24, <1>25, <1>26, <1>27, <1>28 DEF Step

\* The recorded ticket of a queue stays until it is used up.
LEMMA HeadTktKept ==
    ASSUME TypeOK, NEW t \in Threads, Step(t) \/ \E l \in Locks : QTicketAcquire(t, l),
           SetUp, Attached, pc[t] \notin {"claim", "waketkt"}
    PROVE  /\ \A s \in Slots, l \in Locks : At(s, l) => headTkt'[s] = headTkt[s]
           /\ \A u \in Threads : pc[u] \in Found => headTkt'[slot[u]] = headTkt[slot[u]]
  <1>1. \A s \in Slots : headTkt'[s] = headTkt[s] \/ (pc[t] = "readlock" /\ s = slot[t])
    BY HeadFx
  <1>2. Kinds BY DEF Kinds, TypeOK
  <1>3. CASE pc[t] = "readlock"
    <2>1. ref[slot[t]] = BUSY BY <1>3 DEF SetUp, Setters
    <2>2. \A l \in Locks : ~At(slot[t], l) BY <1>3, <2>1, FxTypes DEF At, SetUp, Setters
    <2>3. \A u \in Threads : pc[u] \in Found => slot[u] # slot[t]
      BY <1>2, <2>1, FxTypes DEF Attached, Kinds, Found, QueuePCs, WakePCs
    <2> QED BY <1>1, <1>2, <2>2, <2>3 DEF Kinds
  <1>4. CASE pc[t] # "readlock" BY <1>1, <1>2, <1>4 DEF Kinds
  <1> QED BY <1>3, <1>4

\* Attaching a queue passes on whose turn it is, and so does every step but a
\* release, the use of the recorded ticket and detaching.
LEMMA TurnKept ==
    ASSUME TypeOK, NEW t \in Threads, Step(t) \/ \E l \in Locks : QTicketAcquire(t, l),
           SetUp, OneSlot, Attached, StaleUsed, Apart,
           ~Detaches(t), pc[t] \notin {"cs", "claim", "waketkt"}
    PROVE  \A l \in Locks : \A k : Turn(l, k)' <=> Turn(l, k)
  <1>1. head' = head BY HeadFx
  <1>2. \A s \in Slots, l \in Locks : At(s, l) => headTkt'[s] = headTkt[s] BY HeadTktKept
  <1>3. CASE Attaches(t)
    <2>1. /\ ~queued[lk[t]] /\ lk[t] \in Locks /\ slot[t] \in Slots
          /\ head[lk[t]] = headTkt[slot[t]] /\ headTkt' = headTkt
          /\ \A l \in Locks : queued'[l] <=> queued[l] \/ l = lk[t]
          /\ \A s \in Slots, l \in Locks : At(s, l)' <=> At(s, l) \/ (s = slot[t] /\ l = lk[t])
          /\ \A s \in Slots : ~At(s, lk[t])
      BY <1>3, AttachFx
    <2> QED BY <1>1, <2>1 DEF Turn
  <1>4. CASE ~Attaches(t)
    <2>1. AtSame BY <1>4, AtStep
    <2> QED BY <1>1, <1>2, <2>1 DEF Turn, AtSame
  <1> QED BY <1>3, <1>4

\* The recorded ticket is used up by the thread that has the lock, so that it
\* was nobody else's.
LEMMA TurnUsed ==
    ASSUME TypeOK, NEW t \in Threads, Step(t) \/ \E l \in Locks : QTicketAcquire(t, l),
           SetUp, OneSlot, Attached, pc[t] \in {"claim", "waketkt"}
    PROVE  /\ lk[t] \in Locks /\ At(slot[t], lk[t]) /\ AtSame
           /\ \A s \in Slots : At(s, lk[t]) => headTkt'[s] = NoTicket
           /\ \A l \in Locks : \A k : l # lk[t] => (Turn(l, k)' <=> Turn(l, k))
           /\ \A l \in Locks : \A k : l = lk[t] /\ Turn(l, k)' => k = NoTicket
  <1>1. Updates(slot[t], headTkt, headTkt', NoTicket) /\ head' = head BY HeadFx
  <1>2. ~Attaches(t) /\ ~Detaches(t)
    <2>1. CASE Claim(t) BY <2>1, ClaimFx DEF Attaches, Detaches, Moves
    <2>2. CASE WakeTkt(t) BY <2>2, WakeTktFx DEF Attaches, Detaches, Moves
    <2>3. Claim(t) \/ WakeTkt(t)
      BY DEF Step, QTicketAcquire, SpinOnTicket, TakeSlot, BitCheck, InitSpin, InitTail,
         ReadLock, BackOut, SetBit, Publish, SpinFind, SpinCheck, Enqueue, Link, Wait, Clear,
         ResetTail, WaitNext, Advance, QTicketRelease, WakeFind, WakeSpin, WakeRead, WakeCas,
         WakeFree, HandOff
    <2> QED BY <2>1, <2>2, <2>3
  <1>3. AtSame BY <1>2, AtStep
  <1>4. Kinds BY DEF Kinds, TypeOK
  <1>5. lk[t] \in Locks /\ slot[t] \in Slots /\ At(slot[t], lk[t])
    BY <1>4 DEF Kinds, At, Attached, Found, Sure, Wakers, WakePCs
  <1>6. \A s \in Slots : At(s, lk[t]) => s = slot[t] BY <1>4, <1>5, AtUnique
  <1>7. \A l \in Locks : l # lk[t] => ~At(slot[t], l) BY <1>4, <1>5, AtUnique
  <1>8. \A s \in Slots : At(s, lk[t]) => headTkt'[s] = NoTicket BY <1>1, <1>6 DEF Updates
  <1>9. \A l \in Locks : \A k : l # lk[t] => (Turn(l, k)' <=> Turn(l, k))
    BY <1>1, <1>3, <1>7 DEF Turn, AtSame, Updates
  <1>10. \A l \in Locks : \A k : l = lk[t] /\ Turn(l, k)' => k = NoTicket
    <2>1. queued'[lk[t]] BY <1>3, <1>5 DEF AtSame, At
    <2> QED BY <1>3, <1>5, <1>8, <2>1 DEF Turn, AtSame
  <1> QED BY <1>3, <1>5, <1>8, <1>9, <1>10

\* A thread that takes a step keeps the lock if it has it.
LEMMA OwnHas ==
    ASSUME TypeOK, NEW t \in Threads, Step(t) \/ \E l \in Locks : QTicketAcquire(t, l),
           SetUp, OneSlot, Attached, Locals, ~Detaches(t),
           pc[t] \notin {"idle", "cs", "handoff", "claim"},
           pc[t] \in PassPCs => (Turn(lk[t], tkt[t])' <=> Turn(lk[t], tkt[t]))
    PROVE  Has(t)' <=> Has(t)
  <1> USE DEF KeepLocks, KeepSlots, KeepElems, Same, Moves, Updates, Has, Baton, Wakers, WakePCs,
        PassPCs, Locals
  <1>1. CASE SpinOnTicket(t)
    <2>1. pc'[t] = "cs" => Turn(lk[t], tkt[t]) BY <1>1, SpinOnTicketFx DEF Turn
    <2> QED BY <1>1, <2>1, SpinOnTicketFx
  <1>2. CASE TakeSlot(t) BY <1>2, TakeSlotFx
  <1>3. CASE BitCheck(t) BY <1>3, BitCheckFx
  <1>4. CASE InitSpin(t) BY <1>4, InitSpinFx
  <1>5. CASE InitTail(t) BY <1>5, InitTailFx
  <1>6. CASE ReadLock(t) BY <1>6, ReadLockFx
  <1>7. CASE BackOut(t) BY <1>7, BackOutFx
  <1>8. CASE SetBit(t) BY <1>8, SetBitFx
  <1>9. CASE Publish(t) BY <1>9, PublishFx
  <1>10. CASE SpinFind(t) BY <1>10, SpinFindFx
  <1>11. CASE SpinCheck(t)
    <2>1. At(slot[t], lk[t]) /\ queued[lk[t]] /\ slot[t] \in Slots /\ lk[t] \in Locks
      BY <1>11, SpinCheckFx DEF At, Attached, Found, Sure
    <2>2. Kinds BY DEF Kinds, TypeOK
    <2>3. pc'[t] = "enqueue" => ~Turn(lk[t], tkt[t])
      BY <1>11, <2>1, <2>2, AtUnique, SpinCheckFx DEF Turn
    <2> QED BY <1>11, <2>3, SpinCheckFx
  <1>12. CASE Claim(t) BY <1>12, ClaimFx
  <1>13. CASE Enqueue(t) BY <1>13, EnqueueFx
  <1>14. CASE Link(t) BY <1>14, LinkFx
  <1>15. CASE Wait(t) BY <1>15, WaitFx
  <1>16. CASE Clear(t) BY <1>16, ClearFx
  <1>17. CASE ResetTail(t) BY <1>17, ResetTailFx
  <1>18. CASE WaitNext(t) BY <1>18, WaitNextFx
  <1>19. CASE Advance(t) BY <1>19, AdvanceFx
  <1>20. CASE QTicketRelease(t) BY <1>20, QTicketReleaseFx
  <1>21. CASE WakeFind(t) BY <1>21, WakeFindFx
  <1>22. CASE WakeSpin(t) BY <1>22, WakeSpinFx
  <1>23. CASE WakeRead(t) BY <1>23, WakeReadFx
  <1>24. CASE WakeCas(t)
    BY <1>24, WakeCasFx DEF Detaches
  <1>25. CASE WakeFree(t) BY <1>25, WakeFreeFx
  <1>26. CASE WakeTkt(t) BY <1>26, WakeTktFx
  <1>27. CASE HandOff(t) BY <1>27, HandOffFx
  <1>28. CASE \E l \in Locks : QTicketAcquire(t, l) BY <1>28, AcquireFx
  <1> QED
    BY <1>1, <1>2, <1>3, <1>4, <1>5, <1>6, <1>7, <1>8, <1>9, <1>10, <1>11, <1>12, <1>13, <1>14,
       <1>15, <1>16, <1>17, <1>18, <1>19, <1>20, <1>21, <1>22, <1>23, <1>24, <1>25, <1>26, <1>27, <1>28 DEF Step

\* A thread that takes no step keeps the lock if its turn is not touched.
LEMMA OtherHas ==
    ASSUME TypeOK, NEW t \in Threads, Others(t), NEW u \in Threads, u # t, woken'[u] = woken[u],
           pc[u] \in PassPCs => (Turn(lk[u], tkt[u])' <=> Turn(lk[u], tkt[u]))
    PROVE  Has(u)' <=> Has(u)
  BY DEF Others, Has, Baton

\* Who is told, and when a thread has returned.
LEMMA ArgsFx ==
    ASSUME TypeOK, NEW t \in Threads, Step(t) \/ \E l \in Locks : QTicketAcquire(t, l)
    PROVE  /\ pc[t] # "handoff" => \A u \in Threads : u # t => woken'[u] = woken[u]
           /\ pc[t] \notin {"idle", "cs", "handoff", "wakefree"} => lk'[t] = lk[t] /\ tkt'[t] = tkt[t]
  <1> USE DEF KeepLocks, KeepSlots, KeepElems, Same, Moves, Updates
  <1>1. CASE SpinOnTicket(t) BY <1>1, SpinOnTicketFx
  <1>2. CASE TakeSlot(t) BY <1>2, TakeSlotFx
  <1>3. CASE BitCheck(t) BY <1>3, BitCheckFx
  <1>4. CASE InitSpin(t) BY <1>4, InitSpinFx
  <1>5. CASE InitTail(t) BY <1>5, InitTailFx
  <1>6. CASE ReadLock(t) BY <1>6, ReadLockFx
  <1>7. CASE BackOut(t) BY <1>7, BackOutFx
  <1>8. CASE SetBit(t) BY <1>8, SetBitFx
  <1>9. CASE Publish(t) BY <1>9, PublishFx
  <1>10. CASE SpinFind(t) BY <1>10, SpinFindFx
  <1>11. CASE SpinCheck(t) BY <1>11, SpinCheckFx
  <1>12. CASE Claim(t) BY <1>12, ClaimFx
  <1>13. CASE Enqueue(t) BY <1>13, EnqueueFx
  <1>14. CASE Link(t) BY <1>14, LinkFx
  <1>15. CASE Wait(t) BY <1>15, WaitFx
  <1>16. CASE Clear(t) BY <1>16, ClearFx
  <1>17. CASE ResetTail(t) BY <1>17, ResetTailFx
  <1>18. CASE WaitNext(t) BY <1>18, WaitNextFx
  <1>19. CASE Advance(t) BY <1>19, AdvanceFx
  <1>20. CASE QTicketRelease(t) BY <1>20, QTicketReleaseFx
  <1>21. CASE WakeFind(t) BY <1>21, WakeFindFx
  <1>22. CASE WakeSpin(t) BY <1>22, WakeSpinFx
  <1>23. CASE WakeRead(t) BY <1>23, WakeReadFx
  <1>24. CASE WakeCas(t) BY <1>24, WakeCasFx
  <1>25. CASE WakeFree(t) BY <1>25, WakeFreeFx
  <1>26. CASE WakeTkt(t) BY <1>26, WakeTktFx
  <1>27. CASE HandOff(t) BY <1>27, HandOffFx
  <1>28. CASE \E l \in Locks : QTicketAcquire(t, l) BY <1>28, AcquireFx
  <1> QED
    BY <1>1, <1>2, <1>3, <1>4, <1>5, <1>6, <1>7, <1>8, <1>9, <1>10, <1>11, <1>12, <1>13, <1>14,
       <1>15, <1>16, <1>17, <1>18, <1>19, <1>20, <1>21, <1>22, <1>23, <1>24, <1>25, <1>26, <1>27, <1>28 DEF Step

\* Turn of a thread in the next state, for rigid values of its lock and ticket.
LEMMA TurnOf ==
    ASSUME NEW u \in Threads, NEW l, NEW k, lk'[u] = l, tkt'[u] = k
    PROVE  Turn(lk[u], tkt[u])' <=> Turn(l, k)'
  BY DEF Turn, At

LEMMA PassTypes ==
    ASSUME TypeOK, NEW u \in Threads
    PROVE  /\ tkt[u] \in Tickets /\ tkt[u] # NoTicket /\ slot[u] \in Slots
           /\ Has(u) \/ pc[u] \in PassPCs \/ pc[u] # "idle" => lk[u] \in Locks
           /\ lk[u] \in Locks => head[lk[u]] \in Tickets
  <1>1. tkt[u] \in Tickets /\ slot[u] \in Slots BY DEF TypeOK
  <1>2. pc[u] # "idle" => lk[u] \in Locks BY DEF TypeOK
  <1>3. Has(u) \/ pc[u] \in PassPCs => pc[u] # "idle" BY DEF Has, Baton, Wakers, WakePCs, PassPCs
  <1>4. lk[u] \in Locks => head[lk[u]] \in Tickets BY DEF TypeOK
  <1> QED BY <1>1, <1>2, <1>3, <1>4, ZeroTypes

\* Who has a lock keeps it, in every step but an acquire, a release, the
\* hand-off, and detaching.
LEMMA HasSame ==
    ASSUME TypeOK, NEW t \in Threads, Step(t) \/ \E l \in Locks : QTicketAcquire(t, l),
           SetUp, OneSlot, Attached, StaleUsed, Apart, One, Passing, Locals,
           ~Detaches(t), pc[t] \notin {"idle", "cs", "handoff"}
    PROVE  /\ \A u \in Threads : Has(u)' <=> Has(u)
           /\ \A u \in Threads : Has(u) => lk'[u] = lk[u]
  <1>1. Others(t) BY OthersFx
  <1>2. \A u \in Threads : u # t => woken'[u] = woken[u] BY ArgsFx
  <1>3. pc[t] # "wakefree" => lk'[t] = lk[t] /\ tkt'[t] = tkt[t] BY ArgsFx
  <1>4. pc[t] = "wakefree" => ~Has(t) /\ pc[t] \notin PassPCs
    BY DEF Has, Baton, Wakers, WakePCs, PassPCs
  <1>5. \A u \in Threads : pc[u] \in PassPCs => lk'[u] = lk[u] /\ tkt'[u] = tkt[u]
    BY <1>1, <1>3, <1>4 DEF Others
  <1>6. \A u \in Threads : Has(u) => lk'[u] = lk[u] BY <1>1, <1>3, <1>4 DEF Others
  <1>7. ASSUME NEW u \in Threads PROVE Has(u)' <=> Has(u)
    <2>1. PICK l : l = lk[u] OBVIOUS
    <2>2. PICK k : k = tkt[u] OBVIOUS
    <2>3. pc[u] \in PassPCs => l \in Locks BY <2>1, PassTypes
    <2>4. pc[u] \in PassPCs => (Turn(lk[u], tkt[u])' <=> Turn(l, k)')
      BY <1>5, <2>1, <2>2, TurnOf
    <2>5. CASE pc[t] \notin {"claim", "waketkt"}
      <3>1. pc[u] \in PassPCs => (Turn(l, k)' <=> Turn(l, k)) BY <2>3, <2>5, TurnKept
      <3>2. pc[u] \in PassPCs => (Turn(lk[u], tkt[u])' <=> Turn(lk[u], tkt[u]))
        BY <2>1, <2>2, <2>4, <3>1
      <3>3. CASE u = t BY <2>5, <3>2, <3>3, OwnHas
      <3>4. CASE u # t BY <1>1, <1>2, <3>2, <3>4, OtherHas
      <3> QED BY <3>3, <3>4
    <2>6. CASE pc[t] \in {"claim", "waketkt"}
      <3>1. /\ lk[t] \in Locks /\ At(slot[t], lk[t])
            /\ \A m \in Locks : \A j : m # lk[t] => (Turn(m, j)' <=> Turn(m, j))
            /\ \A m \in Locks : \A j : m = lk[t] /\ Turn(m, j)' => j = NoTicket
        BY <2>6, TurnUsed
      <3>2. Has(t)
        <4>1. CASE pc[t] = "waketkt" BY <4>1 DEF Has, Wakers, WakePCs
        <4>2. CASE pc[t] = "claim"
          <5>1. headTkt[slot[t]] = tkt[t] BY <4>2 DEF Passing
          <5> QED BY <3>1, <4>2, <5>1, PassTypes DEF Has, PassPCs, Turn
        <4> QED BY <2>6, <4>1, <4>2
      <3>3. CASE u = t
        <4>1. CASE Claim(t) BY <3>2, <3>3, <4>1, ClaimFx DEF Has, Moves
        <4>2. CASE WakeTkt(t) BY <3>2, <3>3, <4>2, WakeTktFx DEF Has, Moves, Wakers, WakePCs
        <4>3. Claim(t) \/ WakeTkt(t)
          BY <2>6 DEF Step, QTicketAcquire, SpinOnTicket, TakeSlot, BitCheck, InitSpin, InitTail,
             ReadLock, BackOut, SetBit, Publish, SpinFind, SpinCheck, Enqueue, Link, Wait, Clear,
             ResetTail, WaitNext, Advance, QTicketRelease, WakeFind, WakeSpin, WakeRead, WakeCas,
             WakeFree, HandOff
        <4> QED BY <4>1, <4>2, <4>3
      <3>4. CASE u # t
        <4>1. pc[u] \in PassPCs /\ l = lk[t] => ~Turn(lk[u], tkt[u])
          BY <2>1, <3>2, <3>4 DEF One, Has
        <4>2. k # NoTicket BY <2>2, PassTypes
        <4>3. pc[u] \in PassPCs => (Turn(lk[u], tkt[u])' <=> Turn(lk[u], tkt[u]))
          BY <2>1, <2>2, <2>3, <2>4, <3>1, <4>1, <4>2
        <4> QED BY <1>1, <1>2, <3>4, <4>3, OtherHas
      <3> QED BY <3>3, <3>4
    <2> QED BY <2>5, <2>6
  <1> QED BY <1>6, <1>7

\* The three steps that give a ticket, take it back, and pass the lock on.
LEMMA PlaceFx ==
    ASSUME NEW t \in Threads, Step(t) \/ \E l \in Locks : QTicketAcquire(t, l)
    PROVE  /\ pc[t] = "idle" => \E l \in Locks : QTicketAcquire(t, l)
           /\ pc[t] = "cs" => QTicketRelease(t)
           /\ pc[t] = "handoff" => HandOff(t)
  <1>1. pc[t] = "idle" => \E l \in Locks : QTicketAcquire(t, l)
    BY DEF Step, SpinOnTicket, TakeSlot, BitCheck, InitSpin, InitTail, ReadLock, BackOut, SetBit,
       Publish,
           SpinFind, SpinCheck, Claim, Enqueue, Link, Wait, Clear, ResetTail, WaitNext, Advance,
           QTicketRelease, WakeFind, WakeSpin, WakeRead, WakeCas, WakeFree, WakeTkt, HandOff
  <1>2. pc[t] = "cs" => QTicketRelease(t)
    BY DEF Step, QTicketAcquire, SpinOnTicket, TakeSlot, BitCheck, InitSpin, InitTail, ReadLock,
       BackOut, SetBit,
           Publish, SpinFind, SpinCheck, Claim, Enqueue, Link, Wait, Clear, ResetTail, WaitNext,
           Advance, WakeFind, WakeSpin, WakeRead, WakeCas, WakeFree, WakeTkt, HandOff
  <1>3. pc[t] = "handoff" => HandOff(t)
    BY DEF Step, QTicketAcquire, SpinOnTicket, TakeSlot, BitCheck, InitSpin, InitTail, ReadLock,
       BackOut, SetBit,
           Publish, SpinFind, SpinCheck, Claim, Enqueue, Link, Wait, Clear, ResetTail, WaitNext,
           Advance, QTicketRelease, WakeFind, WakeSpin, WakeRead, WakeCas, WakeFree, WakeTkt
  <1> QED BY <1>1, <1>2, <1>3

\* No ticket of a lock is out when its head and tail are equal.
LEMMA NoneOut ==
    ASSUME TypeOK, TicketsAccountForThreads, NEW l \in Locks, head[l] = tail[l],
           NEW t \in Threads, t \notin Outstanding(l)
    PROVE  Outstanding(l) = {}
  <1>1. /\ Cardinality(Outstanding(l)) \in Nat /\ IsFiniteSet(Outstanding(l))
        /\ Cardinality(Outstanding(l)) < TicketMod
    BY OutstandingFinite, RoomForOne
  <1>2. head[l] \in Tickets /\ tail[l] = Behind(head[l], Cardinality(Outstanding(l)))
    BY DEF TypeOK, TicketsAccountForThreads
  <1>3. Cardinality(Outstanding(l)) = 0
    BY <1>1, <1>2, TicketModAssumption DEF Behind, Tickets
  <1> QED BY <1>1, <1>3, FS_EmptySet

\* The ticket that an acquire draws is not next while somebody has the lock.
LEMMA FreshTurn ==
    ASSUME TypeOK, TicketsAccountForThreads, Attached, Passing, Some,
           NEW t \in Threads, pc[t] = "idle", NEW l \in Locks, Turn(l, tail[l]),
           NEW u \in Threads, Has(u), lk[u] = l
    PROVE  FALSE
  <1>1. t \notin Outstanding(l) BY DEF Outstanding
  <1>2. tail[l] \in Tickets /\ head[l] \in Tickets BY DEF TypeOK
  <1>3. ASSUME NEW v \in Threads, Has(v), lk[v] = l, head[l] = tail[l] PROVE pc[v] \in Wakers
    <2>1. v \notin Outstanding(l) BY <1>1, <1>3, NoneOut
    <2> QED BY <1>3, <2>1 DEF Outstanding, Has, Baton, Wakers, PassPCs, WakePCs
  <1>4. CASE ~queued[l]
    <2>1. head[l] = tail[l] BY <1>4 DEF Turn, At
    <2>2. pc[u] \in Wakers BY <1>3, <2>1
    <2> QED BY <1>4, <2>2 DEF Attached, Sure
  <1>5. CASE queued[l]
    <2>1. PICK s \in Slots : At(s, l) /\ headTkt[s] = tail[l] BY <1>5 DEF Turn
    <2>2. headTkt[s] # NoTicket BY <1>2, <2>1, ZeroTypes
    <2>3. PICK w \in Threads : lk[w] = l /\ pc[w] \in Wakers
      BY <1>3, <2>1, <2>2 DEF Passing
    <2>4. head[l] = Inc(tail[l]) BY <2>1, <2>2, <2>3 DEF Passing
    <2>5. w # t /\ w \notin Outstanding(l) BY <2>3 DEF Outstanding, Wakers, WakePCs
    <2> DEFINE n == Cardinality(Outstanding(l))
    <2>6. n \in Nat /\ n <= Cardinality(Threads) - 2 /\ Cardinality(Threads) \in Nat
      BY <1>1, <2>5, LessThanAll
    <2>7. tail[l] = Behind(head[l], n) BY DEF TicketsAccountForThreads
    <2> HIDE DEF n
    <2>8. n \in 0 .. TicketMod - 2 BY <2>6, QLockAssumption, TicketModAssumption
    <2>9. n \in 0 .. TicketMod - 1 BY <2>8, TicketModAssumption
    <2>10. Inc(tail[l]) = Behind(head[l], n + 1) BY <1>2, <2>7, <2>9, BehindGive
    <2> QED BY <1>2, <2>4, <2>8, <2>10, TicketModAssumption DEF Behind, Tickets
  <1> QED BY <1>4, <1>5

\* An acquire changes nothing for the others, and finds nobody with the lock
\* if it gets it.
LEMMA AcquireHas ==
    ASSUME TypeOK, NEW t \in Threads, NEW l \in Locks, QTicketAcquire(t, l),
           SetUp, OneSlot, Attached, StaleUsed, Apart
    PROVE  /\ ~Has(t) /\ lk'[t] = l /\ queued' = queued
           /\ \A u \in Threads : u # t => (Has(u)' <=> Has(u)) /\ lk'[u] = lk[u]
           /\ Has(t)' => Turn(l, tail[l])
  <1>1. Others(t) /\ pc[t] = "idle" /\ lk'[t] = l BY OthersFx, AcquireFx
  <1>2. \A u \in Threads : u # t => woken'[u] = woken[u] BY ArgsFx, <1>1
  <1>3. ~Detaches(t) BY <1>1 DEF Detaches
  <1>4. \A m \in Locks : \A k : Turn(m, k)' <=> Turn(m, k) BY <1>1, <1>3, TurnKept
  <1>5. ~Has(t) BY <1>1 DEF Has, Baton, Wakers, WakePCs, PassPCs
  <1>6. ASSUME NEW u \in Threads, u # t PROVE Has(u)' <=> Has(u)
    <2>1. PICK m : m = lk[u] OBVIOUS
    <2>2. PICK k : k = tkt[u] OBVIOUS
    <2>3. lk'[u] = m /\ tkt'[u] = k BY <1>1, <1>6, <2>1, <2>2 DEF Others
    <2>4. Turn(lk[u], tkt[u])' <=> Turn(m, k)' BY <2>3, TurnOf
    <2>5. pc[u] \in PassPCs => (Turn(lk[u], tkt[u])' <=> Turn(lk[u], tkt[u]))
      BY <1>4, <2>1, <2>2, <2>4, PassTypes
    <2> QED BY <1>1, <1>2, <1>6, <2>5, OtherHas
  <1>7. Has(t)' => Turn(l, tail[l])
    <2>1. PICK k : k = tail[l] OBVIOUS
    <2>2. tkt'[t] = k BY <2>1, AcquireFx
    <2>3. Turn(lk[t], tkt[t])' <=> Turn(l, k) BY <1>1, <1>4, <2>2, TurnOf
    <2>4. pc'[t] = "cs" => Turn(l, k) BY <2>1, AcquireFx DEF Turn
    <2>5. pc'[t] \in {"cs", "find", "contend", "spin"} BY AcquireFx
    <2> QED BY <2>1, <2>3, <2>4, <2>5 DEF Has, Baton, Wakers, WakePCs
  <1>8. queued' = queued BY AcquireFx
  <1> QED BY <1>1, <1>5, <1>6, <1>7, <1>8 DEF Others

\* A release of a lock with a queue still has to pass it on; without a queue
\* the turn goes to the next ticket.
LEMMA ReleaseHas ==
    ASSUME TypeOK, NEW t \in Threads, QTicketRelease(t), SetUp, OneSlot, Attached, One
    PROVE  /\ lk[t] \in Locks /\ queued' = queued /\ Has(t)
           /\ \A u \in Threads : lk[u] # lk[t] => (Has(u)' <=> Has(u)) /\ lk'[u] = lk[u]
           /\ queued[lk[t]] => \A u \in Threads :
                lk[u] = lk[t] => (Has(u)' <=> Has(u)) /\ lk'[u] = lk[u]
           /\ ~queued[lk[t]] => ~Has(t)'
           /\ ~queued[lk[t]] => \A u \in Threads : u # t /\ lk[u] = lk[t] =>
                /\ lk'[u] = lk[u]
                /\ Has(u)' => pc[u] \in PassPCs /\ tkt[u] = Inc(head[lk[t]])
  <1>1. Step(t) BY DEF Step
  <1>2. Others(t) BY <1>1, OthersFx
  <1>3. PICK l : l = lk[t] OBVIOUS
  <1>4. /\ pc[t] = "cs" /\ l \in Locks /\ head'[l] = Inc(head[l])
        /\ \A m \in Locks : m # l => head'[m] = head[m]
        /\ \/ pc'[t] = "wakefind" /\ queued[l] /\ lk'[t] = l
           \/ pc'[t] = "idle" /\ ~queued[l]
        /\ queued' = queued /\ headTkt' = headTkt
        /\ \A u \in Threads : u # t => woken'[u] = woken[u]
    BY <1>3, QTicketReleaseFx DEF KeepSlots, Same
  <1>5. ~Attaches(t) /\ ~Detaches(t) BY <1>4 DEF Attaches, Detaches
  <1>6. AtSame BY <1>1, <1>5, AtStep
  <1>7. Has(t) BY <1>4 DEF Has
  <1>8. \A m \in Locks : \A k : m # l \/ queued[m] => (Turn(m, k)' <=> Turn(m, k))
    BY <1>4, <1>6 DEF Turn, AtSame
  <1>9. \A k : ~queued[l] /\ Turn(l, k)' => k = Inc(head[l])
    BY <1>4, <1>6 DEF Turn, AtSame, At
  <1>10. ASSUME NEW u \in Threads, u # t
         PROVE  /\ lk'[u] = lk[u]
                /\ lk[u] # l \/ queued[l] => (Has(u)' <=> Has(u))
                /\ lk[u] = l /\ ~queued[l] /\ Has(u)' => pc[u] \in PassPCs /\ tkt[u] = Inc(head[l])
    <2>1. PICK m : m = lk[u] OBVIOUS
    <2>2. PICK k : k = tkt[u] OBVIOUS
    <2>3. lk'[u] = m /\ tkt'[u] = k BY <1>2, <1>10, <2>1, <2>2 DEF Others
    <2>4. Turn(lk[u], tkt[u])' <=> Turn(m, k)' BY <2>3, TurnOf
    <2>5. pc[u] \in PassPCs /\ (m # l \/ queued[l]) =>
            (Turn(lk[u], tkt[u])' <=> Turn(lk[u], tkt[u]))
      BY <1>8, <2>1, <2>2, <2>4, PassTypes
    <2>6. m # l \/ queued[l] => (Has(u)' <=> Has(u)) BY <1>2, <1>4, <1>10, <2>5, OtherHas
    <2>7. m = l /\ ~queued[l] /\ Has(u)' => pc[u] \in PassPCs /\ tkt[u] = Inc(head[l])
      <3>1. m = l => ~Has(u) BY <1>3, <1>7, <1>10, <2>1 DEF One
      <3>2. Has(u)' => Has(u) \/ (pc[u] \in PassPCs /\ Turn(m, k)')
        BY <1>2, <1>4, <1>10, <2>4 DEF Has, Baton, Others
      <3> QED BY <1>9, <2>2, <3>1, <3>2
    <2> QED BY <2>1, <2>3, <2>6, <2>7
  <1>11. queued[l] => (Has(t)' <=> Has(t)) /\ lk'[t] = lk[t]
    BY <1>3, <1>4, <1>7 DEF Has, Wakers, WakePCs
  <1>12. ~queued[l] => ~Has(t)' BY <1>4 DEF Has, Baton, Wakers, WakePCs, PassPCs
  <1> QED BY <1>3, <1>4, <1>7, <1>10, <1>11, <1>12

\* The hand-off passes the lock to the first element of the queue.
LEMMA HandOffHas ==
    ASSUME TypeOK, NEW t \in Threads, HandOff(t),
           SetUp, OneSlot, Attached, StaleUsed, Apart, One, Ends, Aims
    PROVE  /\ ptr[t] \in Threads /\ ptr[t] # t /\ lk[ptr[t]] = lk[t] /\ lk[t] \in Locks
           /\ pc[ptr[t]] = "wait" /\ slot[ptr[t]] = slot[t]
           /\ queued' = queued /\ Has(t) /\ ~Has(t)'
           /\ \A u \in Threads : u = ptr[t] => Has(u)'
           /\ \A u \in Threads : u # t => lk'[u] = lk[u]
           /\ \A u \in Threads : u # t /\ u # ptr[t] => (Has(u)' <=> Has(u))
  <1>1. Step(t) BY DEF Step
  <1>2. Others(t) /\ Kinds BY <1>1, OthersFx DEF Kinds, TypeOK
  <1>3. /\ pc[t] = "handoff" /\ pc'[t] = "idle" /\ ptr[t] \in Threads /\ woken'[ptr[t]]
        /\ \A u \in Threads : u # ptr[t] => woken'[u] = woken[u]
        /\ queued' = queued /\ lk[t] \in Locks /\ slot[t] \in Slots
    BY HandOffFx DEF Moves, KeepLocks
  <1>4. Has(t) BY <1>3 DEF Has, Wakers, WakePCs
  <1>5. ptr[t] = spin[slot[t]] BY <1>3 DEF Aims
  <1>6. slot[ptr[t]] = slot[t] /\ pc[ptr[t]] \in {"wait", "clear", "advance"}
    BY <1>3, <1>5, FxTypes DEF Ends
  <1>7. ref[slot[t]] = lk[t] /\ ref[slot[ptr[t]]] = lk[ptr[t]]
    BY <1>3, <1>6 DEF Attached, Found, QueuePCs, WakePCs
  <1>8. ptr[t] # t BY <1>3, <1>6
  <1>9. ~Has(ptr[t]) BY <1>3, <1>4, <1>6, <1>7, <1>8 DEF One
  <1>10. pc[ptr[t]] = "wait" BY <1>6, <1>9 DEF Has, Baton
  <1>11. ~Has(t)' BY <1>3 DEF Has, Baton, Wakers, WakePCs, PassPCs
  <1>12. ASSUME NEW u \in Threads, u = ptr[t] PROVE Has(u)'
    <2>1. pc'[u] = "wait" /\ woken'[u] BY <1>2, <1>3, <1>8, <1>10, <1>12 DEF Others
    <2> QED BY <2>1 DEF Has, Baton
  <1>13. ASSUME NEW u \in Threads, u # t, u # ptr[t] PROVE Has(u)' <=> Has(u)
    <2>1. PICK m : m = lk[u] OBVIOUS
    <2>2. PICK k : k = tkt[u] OBVIOUS
    <2>3. lk'[u] = m /\ tkt'[u] = k BY <1>2, <1>13, <2>1, <2>2 DEF Others
    <2>4. Turn(lk[u], tkt[u])' <=> Turn(m, k)' BY <2>3, TurnOf
    <2>5. ~Detaches(t) BY <1>3 DEF Detaches
    <2>6. \A j \in Locks : \A i : Turn(j, i)' <=> Turn(j, i) BY <1>1, <1>3, <2>5, TurnKept
    <2>7. pc[u] \in PassPCs => (Turn(lk[u], tkt[u])' <=> Turn(lk[u], tkt[u]))
      BY <2>1, <2>2, <2>4, <2>6, PassTypes
    <2> QED BY <1>2, <1>3, <1>13, <2>7, OtherHas
  <1> QED BY <1>2, <1>3, <1>4, <1>6, <1>7, <1>8, <1>10, <1>11, <1>12, <1>13 DEF Others

\* Who detaches the queue of a lock is alone there, and the others keep theirs.
LEMMA DetachHas ==
    ASSUME TypeOK, TicketsAccountForThreads, NEW t \in Threads,
           Step(t) \/ \E l \in Locks : QTicketAcquire(t, l), Detaches(t), Attached, One
    PROVE  \A u \in Threads : /\ lk'[u] = lk[u]
                              /\ lk[u] = lk[t] => ~Has(u)'
                              /\ lk[u] # lk[t] => (Has(u)' <=> Has(u))
  <1>1. Others(t) BY OthersFx
  <1>2. /\ WakeCas(t) /\ lk[t] \in Locks /\ lk'[t] = lk[t] /\ head' = head /\ headTkt' = headTkt
        /\ \A l \in Locks : queued'[l] <=> queued[l] /\ l # lk[t]
        /\ \A s \in Slots, l \in Locks : At(s, l)' <=> At(s, l) /\ l # lk[t]
    BY DetachFx
  <1>3. pc[t] = "wakecas" /\ pc'[t] = "wakefree" BY DEF Detaches
  <1>4. \A u \in Threads : u # t /\ lk[u] = lk[t] => pc[u] = "idle" BY <1>2, <1>3, Alone
  <1>5. \A u \in Threads : u # t => woken'[u] = woken[u] BY <1>3, ArgsFx
  <1>6. \A l \in Locks : \A k : l # lk[t] => (Turn(l, k)' <=> Turn(l, k)) BY <1>2 DEF Turn
  <1>7. ASSUME NEW u \in Threads, u # t, lk[u] # lk[t] PROVE Has(u)' <=> Has(u)
    <2>1. PICK m : m = lk[u] OBVIOUS
    <2>2. PICK k : k = tkt[u] OBVIOUS
    <2>3. lk'[u] = m /\ tkt'[u] = k BY <1>1, <1>7, <2>1, <2>2 DEF Others
    <2>4. Turn(lk[u], tkt[u])' <=> Turn(m, k)' BY <2>3, TurnOf
    <2>5. pc[u] \in PassPCs => (Turn(lk[u], tkt[u])' <=> Turn(lk[u], tkt[u]))
      BY <1>6, <1>7, <2>1, <2>2, <2>4, PassTypes
    <2> QED BY <1>1, <1>5, <1>7, <2>5, OtherHas
  <1>8. ~Has(t)' BY <1>3 DEF Has, Baton, Wakers, WakePCs, PassPCs
  <1>9. ASSUME NEW u \in Threads, u # t, lk[u] = lk[t] PROVE ~Has(u)'
    <2>1. pc'[u] = "idle" BY <1>1, <1>4, <1>9 DEF Others
    <2> QED BY <2>1 DEF Has, Baton, Wakers, WakePCs, PassPCs
  <1> QED BY <1>1, <1>2, <1>7, <1>8, <1>9 DEF Others

\* No step gives a lock to a second thread.
LEMMA OneStep ==
    ASSUME TypeOK, TicketsAccountForThreads, NEW t \in Threads,
           Step(t) \/ \E l \in Locks : QTicketAcquire(t, l),
           SetUp, OneSlot, Attached, StaleUsed, Apart, One, Some, Line, Passing, Ends, Aims, Locals
    PROVE  One'
  <1> SUFFICES ASSUME NEW u \in Threads, NEW v \in Threads, Has(u)', Has(v)', lk'[u] = lk'[v]
               PROVE  u = v
    BY DEF One
  <1>1. CASE Detaches(t)
    <2>1. lk[u] = lk[v] /\ Has(u) /\ Has(v) BY <1>1, DetachHas
    <2> QED BY <2>1 DEF One
  <1>2. CASE pc[t] = "idle"
    <2>1. PICK l \in Locks : QTicketAcquire(t, l) BY <1>2, PlaceFx
    <2>2. /\ lk'[t] = l
          /\ \A w \in Threads : w # t => (Has(w)' <=> Has(w)) /\ lk'[w] = lk[w]
          /\ Has(t)' => Turn(l, tail[l])
      BY <2>1, AcquireHas
    <2>3. ASSUME NEW w \in Threads, w # t, Has(w)', lk'[w] = l, Has(t)' PROVE FALSE
      BY <1>2, <2>2, <2>3, FreshTurn
    <2> QED BY <2>2, <2>3 DEF One
  <1>3. CASE pc[t] = "cs"
    <2>1. QTicketRelease(t) BY <1>3, PlaceFx
    <2>2. lk[t] \in Locks BY <2>1, ReleaseHas
    <2>3. CASE queued[lk[t]]
      <3>1. Has(u) /\ Has(v) /\ lk[u] = lk[v] BY <2>1, <2>3, ReleaseHas
      <3> QED BY <3>1 DEF One
    <2>4. CASE ~queued[lk[t]]
      <3>1. u # t /\ v # t BY <2>1, <2>4, ReleaseHas
      <3>2. lk'[u] = lk[u] /\ lk'[v] = lk[v] BY <2>1, <2>4, <3>1, ReleaseHas
      <3>3. CASE lk[u] # lk[t]
        <4>1. Has(u) /\ Has(v) /\ lk[u] = lk[v] BY <2>1, <3>2, <3>3, ReleaseHas
        <4> QED BY <4>1 DEF One
      <3>4. CASE lk[u] = lk[t]
        <4>1. /\ pc[u] \in PassPCs /\ pc[v] \in PassPCs /\ tkt[u] = tkt[v] /\ lk[v] = lk[t]
          BY <2>1, <2>4, <3>1, <3>2, <3>4, ReleaseHas
        <4>2. u \in Outstanding(lk[t]) /\ v \in Outstanding(lk[t])
          BY <3>4, <4>1 DEF Outstanding, PassPCs, WakePCs
        <4> QED BY <2>2, <2>4, <4>1, <4>2 DEF Line, ByTicket, InLine
      <3> QED BY <3>3, <3>4
    <2> QED BY <2>3, <2>4
  <1>4. CASE pc[t] = "handoff"
    <2>1. HandOff(t) BY <1>4, PlaceFx
    <2>2. /\ ptr[t] \in Threads /\ ptr[t] # t /\ lk[ptr[t]] = lk[t] /\ Has(t) /\ ~Has(t)'
          /\ \A w \in Threads : w # t => lk'[w] = lk[w]
          /\ \A w \in Threads : w # t /\ w # ptr[t] => (Has(w)' <=> Has(w))
      BY <2>1, HandOffHas
    <2>3. u # t /\ v # t /\ lk[u] = lk[v] BY <2>2
    <2> QED BY <2>2, <2>3 DEF One
  <1>5. CASE ~Detaches(t) /\ pc[t] \notin {"idle", "cs", "handoff"}
    <2>1. Has(u) /\ Has(v) /\ lk'[u] = lk[u] /\ lk'[v] = lk[v] BY <1>5, HasSame
    <2> QED BY <2>1 DEF One
  <1> QED BY <1>1, <1>2, <1>3, <1>4, <1>5

\* A lock with a queue always has somebody who will pass it on.
LEMMA SomeStep ==
    ASSUME TypeOK, TicketsAccountForThreads, NEW t \in Threads,
           Step(t) \/ \E l \in Locks : QTicketAcquire(t, l),
           SetUp, OneSlot, Attached, StaleUsed, Apart, One, Some, Line, Passing, Ends, Aims, Locals
    PROVE  Some'
  <1> SUFFICES ASSUME NEW l \in Locks, queued'[l]
               PROVE  \E u \in Threads : Has(u)' /\ lk'[u] = l
    BY DEF Some
  <1>1. CASE Detaches(t)
    <2>1. queued[l] /\ l # lk[t] BY <1>1, DetachFx
    <2> QED BY <1>1, <2>1, DetachHas DEF Some
  <1>2. CASE pc[t] = "idle"
    <2>1. PICK m \in Locks : QTicketAcquire(t, m) BY <1>2, PlaceFx
    <2>2. /\ ~Has(t) /\ queued' = queued
          /\ \A w \in Threads : w # t => (Has(w)' <=> Has(w)) /\ lk'[w] = lk[w]
      BY <2>1, AcquireHas
    <2> QED BY <2>2 DEF Some
  <1>3. CASE pc[t] = "cs"
    <2>1. QTicketRelease(t) BY <1>3, PlaceFx
    <2>2. queued[l] BY <2>1, ReleaseHas
    <2>3. PICK w \in Threads : Has(w) /\ lk[w] = l BY <2>2 DEF Some
    <2>4. Has(w)' /\ lk'[w] = lk[w] BY <2>1, <2>2, <2>3, ReleaseHas
    <2> QED BY <2>3, <2>4
  <1>4. CASE pc[t] = "handoff"
    <2>1. HandOff(t) BY <1>4, PlaceFx
    <2>2. /\ ptr[t] \in Threads /\ ptr[t] # t /\ lk[ptr[t]] = lk[t] /\ Has(t)
          /\ queued' = queued /\ \A w \in Threads : w = ptr[t] => Has(w)'
          /\ \A w \in Threads : w # t => lk'[w] = lk[w]
          /\ \A w \in Threads : w # t /\ w # ptr[t] => (Has(w)' <=> Has(w))
      BY <2>1, HandOffHas
    <2>3. PICK w \in Threads : Has(w) /\ lk[w] = l BY <2>2 DEF Some
    <2>4. PICK p \in Threads : p = ptr[t] BY <2>2
    <2>5. Has(p)' /\ lk'[p] = lk[t] BY <2>2, <2>4
    <2>6. CASE l = lk[t] BY <2>5, <2>6
    <2>7. CASE l # lk[t] /\ w = p BY <2>2, <2>3, <2>4, <2>7
    <2>8. CASE l # lk[t] /\ w # p BY <2>2, <2>3, <2>4, <2>8
    <2> QED BY <2>6, <2>7, <2>8
  <1>5. CASE ~Detaches(t) /\ pc[t] \notin {"idle", "cs", "handoff"}
    <2>1. \A u \in Threads : (Has(u)' <=> Has(u)) /\ (Has(u) => lk'[u] = lk[u]) BY <1>5, HasSame
    <2>2. CASE queued[l] BY <2>1, <2>2 DEF Some
    <2>3. CASE ~queued[l]
      <3>1. Attaches(t) BY <1>5, <2>3, AtStep DEF AtSame
      <3>2. l = lk[t] /\ pc[t] = "setbit" BY <2>3, <3>1, AttachFx
      <3>3. t \in Outstanding(l) BY <3>2 DEF Outstanding, WakePCs
      <3>4. Cardinality(Outstanding(l)) \in Nat /\ Cardinality(Outstanding(l)) # 0
        BY <3>3, OutstandingFinite, FS_EmptySet
      <3>5. 0 \in 0 .. Cardinality(Outstanding(l)) - 1 BY <3>4
      <3>6. PICK u \in Outstanding(l) : tkt[u] = Behind(head[l], 0)
        BY <2>3, <3>5 DEF Line, ByTicket, InLine
      <3>7. Behind(head[l], 0) = head[l]
        <4>1. head[l] \in Tickets BY DEF TypeOK
        <4> QED BY <4>1, TicketModAssumption DEF Behind, Tickets
      <3>8. u \in Threads /\ lk[u] = l /\ pc[u] \notin {"idle"} \cup WakePCs BY <3>6 DEF Outstanding
      <3>9. pc[u] \notin QueuePCs BY <2>3, <3>8 DEF Attached, Sure
      <3>10. pc[u] = "cs" \/ pc[u] \in PassPCs BY <3>8, <3>9 DEF TypeOK
      <3>11. Turn(lk[u], tkt[u]) BY <2>3, <3>6, <3>7, <3>8 DEF Turn
      <3>12. Has(u) BY <3>10, <3>11 DEF Has
      <3> QED BY <2>1, <3>8, <3>12
    <2> QED BY <2>2, <2>3
  <1> QED BY <1>1, <1>2, <1>3, <1>4, <1>5
-----------------------------------------------------------------------------
\* A lock comes to be served by tickets again only when its queue is detached.
LEMMA ByTicketBack ==
    ASSUME TypeOK, NEW t \in Threads, Step(t) \/ \E l \in Locks : QTicketAcquire(t, l),
           SetUp, OneSlot, Attached, StaleUsed, Apart, NEW m \in Locks, ByTicket(m)'
    PROVE  ByTicket(m) \/ (Detaches(t) /\ m = lk[t])
  <1>1. CASE Detaches(t) BY <1>1, DetachFx DEF ByTicket
  <1>2. CASE Attaches(t) BY <1>2, AttachFx DEF ByTicket
  <1>3. CASE ~Detaches(t) /\ ~Attaches(t)
    <2>1. AtSame BY <1>3, AtStep
    <2>2. CASE pc[t] \notin {"claim", "waketkt"}
      BY <2>1, <2>2, HeadTktKept DEF ByTicket, AtSame
    <2>3. CASE pc[t] \in {"claim", "waketkt"}
      <3>1. Updates(slot[t], headTkt, headTkt', NoTicket) BY <2>3, HeadFx
      <3> QED BY <2>1, <3>1 DEF ByTicket, AtSame, Updates
    <2> QED BY <2>2, <2>3
  <1> QED BY <1>1, <1>2, <1>3

\* A thread gets a lock that is served by tickets with the ticket at its head.
LEMMA NewHolder ==
    ASSUME TypeOK, NEW t \in Threads, Step(t), pc'[t] = "cs",
           SetUp, OneSlot, Attached, StaleUsed, Apart, Passing
    PROVE  \A l \in Locks : l = lk[t] /\ ByTicket(l)' => tkt[t] = head[l]
  <1> SUFFICES ASSUME NEW l \in Locks, l = lk[t], ByTicket(l)' PROVE tkt[t] = head[l] OBVIOUS
  <1>1. SpinOnTicket(t) \/ Claim(t) \/ ResetTail(t) \/ Advance(t)
    <2> USE DEF Moves
    <2>1. CASE TakeSlot(t) BY <2>1, TakeSlotFx
    <2>2. CASE BitCheck(t) BY <2>2, BitCheckFx
    <2>3. CASE InitSpin(t) BY <2>3, InitSpinFx
    <2>4. CASE InitTail(t) BY <2>4, InitTailFx
    <2>5. CASE ReadLock(t) BY <2>5, ReadLockFx
    <2>6. CASE BackOut(t) BY <2>6, BackOutFx
    <2>7. CASE SetBit(t) BY <2>7, SetBitFx
    <2>8. CASE Publish(t) BY <2>8, PublishFx
    <2>9. CASE SpinFind(t) BY <2>9, SpinFindFx
    <2>10. CASE SpinCheck(t) BY <2>10, SpinCheckFx
    <2>11. CASE Enqueue(t) BY <2>11, EnqueueFx
    <2>12. CASE Link(t) BY <2>12, LinkFx
    <2>13. CASE Wait(t) BY <2>13, WaitFx
    <2>14. CASE Clear(t) BY <2>14, ClearFx
    <2>15. CASE WaitNext(t) BY <2>15, WaitNextFx
    <2>16. CASE QTicketRelease(t) BY <2>16, QTicketReleaseFx
    <2>17. CASE WakeFind(t) BY <2>17, WakeFindFx
    <2>18. CASE WakeSpin(t) BY <2>18, WakeSpinFx
    <2>19. CASE WakeRead(t) BY <2>19, WakeReadFx
    <2>20. CASE WakeCas(t) BY <2>20, WakeCasFx
    <2>21. CASE WakeFree(t) BY <2>21, WakeFreeFx
    <2>22. CASE WakeTkt(t) BY <2>22, WakeTktFx
    <2>23. CASE HandOff(t) BY <2>23, HandOffFx
    <2> QED
      BY <2>1, <2>2, <2>3, <2>4, <2>5, <2>6, <2>7, <2>8, <2>9, <2>10, <2>11, <2>12, <2>13, <2>14,
         <2>15, <2>16, <2>17, <2>18, <2>19, <2>20, <2>21, <2>22, <2>23
      DEF Step
  <1>2. CASE SpinOnTicket(t) BY <1>2, SpinOnTicketFx
  <1>3. CASE Claim(t)
    <2>1. pc[t] = "claim" BY <1>3, ClaimFx DEF Moves
    <2>2. /\ At(slot[t], lk[t]) /\ AtSame
          /\ \A s \in Slots : At(s, lk[t]) => headTkt'[s] = NoTicket
      BY <2>1, TurnUsed
    <2> QED BY <2>2 DEF ByTicket, AtSame, At
  <1>4. CASE ResetTail(t) \/ Advance(t)
    <2>1. pc[t] \in {"resettail", "advance"} BY <1>4, ResetTailFx, AdvanceFx DEF Moves
    <2>2. slot[t] \in Slots /\ Kinds BY DEF TypeOK, Kinds
    <2>3. headTkt[slot[t]] = NoTicket BY <2>1 DEF Passing, Baton
    <2>4. At(slot[t], l) /\ queued[l] BY <2>1 DEF At, Attached, Found, Sure, QueuePCs
    <2>5. \A s \in Slots : At(s, l) => s = slot[t] BY <2>2, <2>4, AtUnique
    <2>6. ~ByTicket(l) BY <2>3, <2>4, <2>5 DEF ByTicket
    <2>7. ~Detaches(t) BY <2>1 DEF Detaches
    <2> QED BY <2>6, <2>7, ByTicketBack
  <1> QED BY <1>1, <1>2, <1>3, <1>4

\* A step that neither hands out a ticket nor serves one leaves the line.
LEMMA QuietLine ==
    ASSUME TypeOK, TicketsAccountForThreads, NEW t \in Threads, Step(t), ~QTicketRelease(t),
           SetUp, OneSlot, Attached, StaleUsed, Apart, One, Line, Passing
    PROVE  Line'
  <1> SUFFICES ASSUME NEW l \in Locks, ByTicket(l)' PROVE InLine(l)'
    BY DEF Line
  <1>1. Others(t) BY OthersFx
  <1>2. Quiet BY OthersQuiet
  <1>3. Outstanding(l)' = Outstanding(l) /\ head'[l] = head[l] BY <1>2 DEF Quiet, Outstanding,
        HasTicket
  <1>4. pc[t] # "idle" /\ pc[t] # "cs"
    <2>1. pc[t] # "cs" BY PlaceFx
    <2>2. pc[t] # "idle" BY DEF Step, SpinOnTicket, TakeSlot, BitCheck, InitSpin, InitTail,
          ReadLock, BackOut, SetBit, Publish,
           SpinFind, SpinCheck, Claim, Enqueue, Link, Wait, Clear, ResetTail, WaitNext, Advance,
           QTicketRelease, WakeFind, WakeSpin, WakeRead, WakeCas, WakeFree, WakeTkt, HandOff
    <2> QED BY <2>1, <2>2
  <1>5. \A u \in Outstanding(l) : tkt'[u] = tkt[u]
    <2>1. pc[t] \notin {"idle", "cs", "handoff", "wakefree"} => tkt'[t] = tkt[t] BY ArgsFx
    <2> QED BY <1>1, <1>4, <2>1 DEF Others, Outstanding, WakePCs
  <1>6. CASE ByTicket(l)
    <2>1. InLine(l) BY <1>6 DEF Line
    <2>2. ASSUME NEW u \in Outstanding(l), pc'[u] = "cs" PROVE tkt[u] = head[l]
      <3>1. CASE u = t
        <4>1. l = lk[t] BY <2>2, <3>1 DEF Outstanding
        <4> QED BY <2>2, <3>1, <4>1, NewHolder
      <3>2. CASE u # t
        <4>1. pc[u] = "cs" BY <1>1, <2>2, <3>2 DEF Others, Outstanding
        <4> QED BY <2>1, <4>1 DEF InLine
      <3> QED BY <3>1, <3>2
    <2> QED BY <1>3, <1>5, <2>1, <2>2 DEF InLine
  <1>7. CASE ~ByTicket(l)
    <2>1. Detaches(t) /\ l = lk[t] BY <1>7, ByTicketBack
    <2>2. WakeCas(t) /\ pc'[t] = "wakefree" BY <2>1, DetachFx DEF Detaches
    <2>3. Outstanding(l) = {} BY <2>1, <2>2, Alone
    <2>4. Cardinality(Outstanding(l)') = 0 BY <1>3, <2>3, FS_EmptySet
    <2> QED BY <1>3, <2>3, <2>4 DEF InLine
  <1> QED BY <1>6, <1>7

\* The ticket an acquire draws goes to the end of the line.
LEMMA AcquireLine ==
    ASSUME TypeOK, TicketsAccountForThreads, NEW t \in Threads, NEW l \in Locks,
           QTicketAcquire(t, l), SetUp, OneSlot, Attached, StaleUsed, Apart, Line
    PROVE  Line'
  <1> SUFFICES ASSUME NEW m \in Locks, ByTicket(m)' PROVE InLine(m)'
    BY DEF Line
  <1>1. Others(t) BY OthersFx
  <1>2. /\ pc[t] = "idle" /\ lk'[t] = l /\ tkt'[t] = tail[l] /\ head' = head
        /\ pc'[t] \in {"cs", "find", "contend", "spin"}
        /\ pc'[t] = "cs" => head[l] = tail[l]
    BY AcquireFx
  <1>3. InLine(m)
    <2>1. ~Detaches(t) BY <1>2 DEF Detaches
    <2> QED BY <2>1, ByTicketBack DEF Line
  <1>4. head[m] \in Tickets /\ \A u \in Threads : tkt[u] \in Tickets BY DEF TypeOK
  <1>5. CASE m # l
    <2>1. Outstanding(m)' = Outstanding(m) BY <1>1, <1>2, <1>5 DEF Outstanding, Others
    <2>2. \A u \in Outstanding(m) : tkt'[u] = tkt[u] /\ pc'[u] = pc[u]
      BY <1>1, <1>2 DEF Outstanding, Others
    <2> QED BY <1>2, <1>3, <2>1, <2>2 DEF InLine
  <1>6. CASE m = l
    <2> DEFINE o == Outstanding(l)
               n == Cardinality(o)
    <2>1. t \notin o /\ Outstanding(l)' = o \cup {t}
      BY <1>1, <1>2 DEF Outstanding, Others, WakePCs
    <2>2. \A u \in o : u \in Threads /\ u # t /\ tkt'[u] = tkt[u] /\ pc'[u] = pc[u]
      BY <1>1, <1>2, <2>1 DEF Outstanding, Others
    <2>3. n \in 0 .. TicketMod - 1 /\ IsFiniteSet(o)
      BY <2>1, RoomForOne, OutstandingFinite, TicketModAssumption
    <2>4. Cardinality(Outstanding(l)') = n + 1 BY <2>1, <2>3, FS_AddElement
    <2>5. tail[l] = Behind(head[l], n) BY DEF TicketsAccountForThreads
    <2>6. tail[l] \in Tickets /\ Offset(head[l], tail[l]) = n
      BY <1>4, <1>6, <2>3, <2>5, OffsetBehind
    <2> HIDE DEF n, o
    <2>7. \A u \in o : Offset(head[l], tkt[u]) < n /\ Offset(head[l], tkt[u]) \in Tickets
      BY <1>3, <1>4, <1>6, <2>2, OffsetType DEF InLine, n, o
    <2>8. \A u \in o : tkt[u] # tail[l] BY <2>3, <2>6, <2>7
    <2>9. \A u, v \in o \cup {t} : tkt'[u] = tkt'[v] => u = v
      <3>1. \A u, v \in o : tkt[u] = tkt[v] => u = v BY <1>3, <1>6 DEF InLine, o
      <3> QED BY <1>2, <2>2, <2>8, <3>1
    <2>10. \A u \in o \cup {t} : Offset(head[l], tkt'[u]) < n + 1
      <3>1. \A u \in o : Offset(head[l], tkt[u]) < n + 1 BY <2>3, <2>7 DEF Tickets
      <3>2. Offset(head[l], tkt'[t]) < n + 1 BY <1>2, <2>3, <2>6
      <3> QED BY <2>2, <3>1, <3>2
    <2>11. ASSUME NEW i \in 0 .. n PROVE \E u \in o \cup {t} : tkt'[u] = Behind(head[l], i)
      <3>1. CASE i = n BY <1>2, <2>5, <3>1
      <3>2. CASE i # n
        <4>1. i \in 0 .. n - 1 BY <2>3, <3>2
        <4>2. \E u \in o : tkt[u] = Behind(head[l], i) BY <1>3, <1>6, <4>1 DEF InLine, n, o
        <4> QED BY <2>2, <4>2
      <3> QED BY <3>1, <3>2
    <2>12. \A u \in o \cup {t} : pc'[u] = "cs" => tkt'[u] = head[l]
      <3>1. \A u \in o : pc[u] = "cs" => tkt[u] = head[l] BY <1>3, <1>6 DEF InLine, o
      <3> QED BY <1>2, <2>2, <3>1
    <2>13. 0 .. (n + 1) - 1 = 0 .. n BY <2>3
    <2>14. Outstanding(l)' = o \cup {t} /\ Cardinality(Outstanding(l)') = n + 1 /\ head'[l] = head[l]
      BY <1>2, <2>1, <2>4 DEF n, o
    <2> QED BY <1>6, <2>9, <2>10, <2>11, <2>12, <2>13, <2>14 DEF InLine
  <1> QED BY <1>5, <1>6

\* A release takes the first of the line out of it.
LEMMA ReleaseLine ==
    ASSUME TypeOK, NEW t \in Threads, QTicketRelease(t),
           SetUp, OneSlot, Attached, StaleUsed, Apart, Line
    PROVE  Line'
  <1> SUFFICES ASSUME NEW m \in Locks, ByTicket(m)' PROVE InLine(m)'
    BY DEF Line
  <1>1. Step(t) BY DEF Step
  <1>2. Others(t) BY <1>1, OthersFx
  <1>3. /\ pc[t] = "cs" /\ lk[t] \in Locks /\ head'[lk[t]] = Inc(head[lk[t]])
        /\ \A l \in Locks : l # lk[t] => head'[l] = head[l]
        /\ pc'[t] \in {"wakefind", "idle"}
    BY QTicketReleaseFx
  <1>4. InLine(m)
    <2>1. ~Detaches(t) BY <1>3 DEF Detaches
    <2> QED BY <1>1, <2>1, ByTicketBack DEF Line
  <1>5. head[m] \in Tickets /\ \A u \in Threads : tkt[u] \in Tickets BY DEF TypeOK
  <1>6. CASE m # lk[t]
    <2>1. Outstanding(m)' = Outstanding(m) BY <1>2, <1>3, <1>6 DEF Outstanding, Others, WakePCs
    <2>2. \A u \in Outstanding(m) : tkt'[u] = tkt[u] /\ pc'[u] = pc[u]
      BY <1>2, <1>6 DEF Outstanding, Others
    <2> QED BY <1>3, <1>4, <1>6, <2>1, <2>2 DEF InLine
  <1>7. CASE m = lk[t]
    <2> DEFINE o == Outstanding(m)
               n == Cardinality(o)
               h == head[m]
    <2>1. t \in o /\ Outstanding(m)' = o \ {t}
      BY <1>2, <1>3, <1>7 DEF Outstanding, Others, WakePCs
    <2>2. \A u \in o \ {t} : u \in Threads /\ tkt'[u] = tkt[u] /\ pc'[u] = pc[u]
      BY <1>2 DEF Outstanding, Others
    <2>3. IsFiniteSet(o) /\ n \in Nat /\ n <= TicketMod BY OutstandingFinite
    <2>4. n # 0 BY <2>1, <2>3, FS_EmptySet
    <2>5. Cardinality(Outstanding(m)') = n - 1 BY <2>1, <2>3, FS_RemoveElement
    <2>6. h \in Tickets /\ head'[m] = Inc(h) BY <1>3, <1>5, <1>7
    <2>7. /\ \A u, v \in o : tkt[u] = tkt[v] => u = v
          /\ \A u \in o : Offset(h, tkt[u]) < n
          /\ \A i \in 0 .. n - 1 : \E u \in o : tkt[u] = Behind(h, i)
          /\ \A u \in o : pc[u] = "cs" => tkt[u] = h
      BY <1>4 DEF InLine
    <2>8. \A u \in o : u \in Threads BY DEF Outstanding
    <2> HIDE DEF o, n, h
    <2>9. tkt[t] = h BY <1>3, <2>1, <2>7
    <2>10. \A u \in o \ {t} : tkt[u] # h BY <2>1, <2>7, <2>9
    <2>11. \A u \in o \ {t} : Offset(Inc(h), tkt[u]) < n - 1
      <3> SUFFICES ASSUME NEW u \in o \ {t} PROVE Offset(Inc(h), tkt[u]) < n - 1 OBVIOUS
      <3>1. tkt[u] \in Tickets /\ tkt[u] # h BY <1>5, <2>8, <2>10
      <3>2. Offset(Inc(h), tkt[u]) = Offset(h, tkt[u]) - 1 /\ Offset(h, tkt[u]) \in Tickets
        BY <2>6, <3>1, OffsetServe, OffsetType
      <3>3. Offset(h, tkt[u]) < n BY <2>7
      <3> QED BY <2>3, <3>2, <3>3 DEF Tickets
    <2>12. ASSUME NEW i \in 0 .. (n - 1) - 1
           PROVE  \E u \in o \ {t} : tkt[u] = Behind(Inc(h), i)
      <3>1. i + 1 \in 0 .. n - 1 /\ i + 1 \in 1 .. TicketMod /\ i + 1 \in 0 .. TicketMod - 1
        BY <2>3, TicketModAssumption
      <3>2. PICK u \in o : tkt[u] = Behind(h, i + 1) BY <2>7, <3>1
      <3>3. Behind(Inc(h), (i + 1) - 1) = Behind(h, i + 1) BY <2>6, <3>1, BehindServe
      <3>4. Offset(h, Behind(h, i + 1)) = i + 1 BY <2>6, <3>1, OffsetBehind
      <3>5. Offset(h, h) = 0 BY <2>6, OffsetZero
      <3>6. u # t BY <2>9, <3>2, <3>4, <3>5
      <3>7. (i + 1) - 1 = i OBVIOUS
      <3> QED BY <3>2, <3>3, <3>6, <3>7
    <2>13. /\ \A u, v \in o \ {t} : tkt'[u] = tkt'[v] => u = v
           /\ \A u \in o \ {t} : Offset(Inc(h), tkt'[u]) < n - 1
           /\ \A i \in 0 .. (n - 1) - 1 : \E u \in o \ {t} : tkt'[u] = Behind(Inc(h), i)
      BY <2>2, <2>7, <2>11, <2>12
    <2>14. \A u \in o \ {t} : pc'[u] # "cs" BY <2>2, <2>7, <2>10
    <2>15. Outstanding(m)' = o \ {t} /\ Cardinality(Outstanding(m)') = n - 1 /\ head'[m] = Inc(h)
      BY <2>1, <2>5, <2>6 DEF o, n, h
    <2> QED BY <2>13, <2>14, <2>15 DEF InLine
  <1> QED BY <1>6, <1>7

\* The tickets of a lock stay in line while it is served by tickets.
LEMMA LineStep ==
    ASSUME TypeOK, TicketsAccountForThreads, NEW t \in Threads,
           Step(t) \/ \E l \in Locks : QTicketAcquire(t, l),
           SetUp, OneSlot, Attached, StaleUsed, Apart, One, Line, Passing
    PROVE  Line'
  BY QuietLine, AcquireLine, ReleaseLine
-----------------------------------------------------------------------------
\* Where the threads that pass a lock on, or are passed it, come from.
LEMMA PassFx ==
    ASSUME TypeOK, NEW t \in Threads, Step(t) \/ \E l \in Locks : QTicketAcquire(t, l),
           Attached, Locals
    PROVE  /\ pc'[t] \in Wakers =>
                lk'[t] = lk[t] /\ (pc[t] \in Wakers \/ (pc[t] = "cs" /\ queued[lk[t]]))
           /\ pc[t] \in Wakers /\ pc[t] # "handoff" /\ ~Detaches(t) =>
                pc'[t] \in Wakers /\ lk'[t] = lk[t]
           /\ pc[t] = "cs" /\ queued[lk[t]] => pc'[t] \in Wakers /\ lk'[t] = lk[t]
           /\ pc'[t] = "handoff" => pc[t] = "waketkt" /\ slot'[t] = slot[t]
           /\ pc'[t] = "claim" => /\ pc[t] = "check" /\ headTkt[slot[t]] = tkt[t]
                                  /\ slot'[t] = slot[t] /\ tkt'[t] = tkt[t]
           /\ Baton(t)' => Baton(t) /\ slot'[t] = slot[t]
  <1> USE DEF KeepLocks, KeepSlots, KeepElems, Same, Moves, Updates, Baton, Wakers, WakePCs
  <1>1. CASE SpinOnTicket(t) BY <1>1, SpinOnTicketFx
  <1>2. CASE TakeSlot(t) BY <1>2, TakeSlotFx
  <1>3. CASE BitCheck(t) BY <1>3, BitCheckFx
  <1>4. CASE InitSpin(t) BY <1>4, InitSpinFx
  <1>5. CASE InitTail(t) BY <1>5, InitTailFx
  <1>6. CASE ReadLock(t) BY <1>6, ReadLockFx
  <1>7. CASE BackOut(t) BY <1>7, BackOutFx
  <1>8. CASE SetBit(t) BY <1>8, SetBitFx
  <1>9. CASE Publish(t) BY <1>9, PublishFx
  <1>10. CASE SpinFind(t) BY <1>10, SpinFindFx
  <1>11. CASE SpinCheck(t) BY <1>11, SpinCheckFx
  <1>12. CASE Claim(t) BY <1>12, ClaimFx
  <1>13. CASE Enqueue(t) BY <1>13, EnqueueFx
  <1>14. CASE Link(t) BY <1>14, LinkFx DEF Locals
  <1>15. CASE Wait(t) BY <1>15, WaitFx
  <1>16. CASE Clear(t) BY <1>16, ClearFx
  <1>17. CASE ResetTail(t) BY <1>17, ResetTailFx
  <1>18. CASE WaitNext(t) BY <1>18, WaitNextFx
  <1>19. CASE Advance(t) BY <1>19, AdvanceFx
  <1>20. CASE QTicketRelease(t) BY <1>20, QTicketReleaseFx
  <1>21. CASE WakeFind(t) BY <1>21, WakeFindFx
  <1>22. CASE WakeSpin(t) BY <1>22, WakeSpinFx
  <1>23. CASE WakeRead(t) BY <1>23, WakeReadFx
  <1>24. CASE WakeCas(t) BY <1>24, WakeCasFx DEF Detaches
  <1>25. CASE WakeFree(t) BY <1>25, WakeFreeFx
  <1>26. CASE WakeTkt(t) BY <1>26, WakeTktFx
  <1>27. CASE HandOff(t) BY <1>27, HandOffFx
  <1>28. CASE \E l \in Locks : QTicketAcquire(t, l) BY <1>28, AcquireFx
  <1> QED
    BY <1>1, <1>2, <1>3, <1>4, <1>5, <1>6, <1>7, <1>8, <1>9, <1>10, <1>11, <1>12, <1>13, <1>14,
       <1>15, <1>16, <1>17, <1>18, <1>19, <1>20, <1>21, <1>22, <1>23, <1>24, <1>25, <1>26, <1>27, <1>28 DEF Step

\* A thread that has read its own ticket from the slot has the lock.
LEMMA ClaimHas ==
    ASSUME TypeOK, Attached, Passing, NEW u \in Threads, pc[u] = "claim"
    PROVE  Has(u)
  <1>1. headTkt[slot[u]] = tkt[u] /\ slot[u] \in Slots BY DEF Passing, TypeOK
  <1>2. At(slot[u], lk[u]) BY DEF At, Attached, Found, Sure
  <1> QED BY <1>1, <1>2 DEF Has, PassPCs, Turn

\* The recorded ticket of a thread that has found the queue, in the next state.
LEMMA RecordedFx ==
    ASSUME TypeOK, NEW t \in Threads, Step(t) \/ \E l \in Locks : QTicketAcquire(t, l),
           SetUp, Attached, NEW u \in Threads, pc[u] \in Found
    PROVE  \/ headTkt'[slot[u]] = headTkt[slot[u]]
           \/ headTkt'[slot[u]] = NoTicket /\ pc[t] \in {"claim", "waketkt"} /\ slot[u] = slot[t]
  <1>1. slot[u] \in Slots BY DEF TypeOK
  <1>2. CASE pc[t] \notin {"claim", "waketkt"} BY <1>2, HeadTktKept
  <1>3. CASE pc[t] \in {"claim", "waketkt"} BY <1>1, <1>3, HeadFx DEF Updates
  <1> QED BY <1>2, <1>3

\* A release that passes the lock on has moved head one past the recorded ticket.
LEMMA WakerPasses ==
    ASSUME TypeOK, NEW t \in Threads, Step(t) \/ \E l \in Locks : QTicketAcquire(t, l),
           SetUp, OneSlot, Attached, StaleUsed, Apart, One, Passing, Locals,
           NEW s \in Slots, NEW u \in Threads, NEW l \in Locks,
           pc'[u] \in Wakers, lk'[u] = l, At(s, l)', headTkt'[s] # NoTicket
    PROVE  head'[l] = Inc(headTkt'[s])
  <1>1. Others(t) BY OthersFx
  <1>2. lk[u] = l /\ (pc[u] \in Wakers \/ (u = t /\ pc[t] = "cs" /\ queued[l]))
    BY <1>1, PassFx DEF Others
  <1>3. queued[l] BY <1>2 DEF Attached, Sure
  <1>4. At(s, l)
    <2>1. CASE Attaches(t) BY <1>3, <2>1, AttachFx
    <2>2. CASE Detaches(t) BY <2>2, DetachFx
    <2>3. CASE ~Attaches(t) /\ ~Detaches(t) BY <2>3, AtStep DEF AtSame
    <2> QED BY <2>1, <2>2, <2>3
  <1>5. headTkt'[s] = headTkt[s]
    <2>1. CASE pc[t] \notin {"claim", "waketkt"} BY <1>4, <2>1, HeadTktKept
    <2>2. CASE pc[t] \in {"claim", "waketkt"} BY <2>2, HeadFx DEF Updates
    <2> QED BY <2>1, <2>2
  <1>6. CASE pc[t] = "cs"
    <2>1. QTicketRelease(t) BY <1>6, PlaceFx
    <2>2. /\ head'[lk[t]] = Inc(head[lk[t]]) /\ lk[t] \in Locks
          /\ \A m \in Locks : m # lk[t] => head'[m] = head[m]
      BY <2>1, QTicketReleaseFx
    <2>3. Has(t) BY <1>6 DEF Has
    <2>4. \A w \in Threads : lk[w] = lk[t] => pc[w] \notin Wakers
      <3>1. pc[t] \notin Wakers BY <1>6 DEF Wakers, WakePCs
      <3> QED BY <2>3, <3>1 DEF One, Has
    <2>5. CASE l = lk[t]
      <3>1. head[l] = headTkt[s] BY <1>4, <1>5, <2>4, <2>5 DEF Passing
      <3> QED BY <1>5, <2>2, <2>5, <3>1
    <2>6. CASE l # lk[t]
      <3>1. pc[u] \in Wakers BY <1>2, <2>6
      <3> QED BY <1>2, <1>4, <1>5, <2>2, <2>6, <3>1 DEF Passing
    <2> QED BY <2>5, <2>6
  <1>7. CASE pc[t] # "cs"
    <2>1. head' = head BY <1>7, HeadFx
    <2> QED BY <1>2, <1>4, <1>5, <1>7, <2>1 DEF Passing
  <1> QED BY <1>6, <1>7

\* The recorded ticket is the head of the lock until somebody passes it on.
LEMMA RecordHolds ==
    ASSUME TypeOK, NEW t \in Threads, Step(t) \/ \E l \in Locks : QTicketAcquire(t, l),
           SetUp, OneSlot, Attached, StaleUsed, Apart, One, Passing, Locals,
           NEW s \in Slots, NEW l \in Locks, At(s, l)', headTkt'[s] # NoTicket
    PROVE  head'[l] = headTkt'[s] \/ \E w \in Threads : lk'[w] = l /\ pc'[w] \in Wakers
  <1>1. Others(t) /\ Kinds BY OthersFx DEF Kinds, TypeOK
  <1>2. CASE Attaches(t) /\ l = lk[t]
    <2>1. /\ head[lk[t]] = headTkt[slot[t]] /\ head' = head /\ headTkt' = headTkt
          /\ At(s, l)' <=> At(s, l) \/ (s = slot[t] /\ l = lk[t])
          /\ ~At(s, lk[t])
      BY <1>2, AttachFx
    <2> QED BY <1>2, <2>1
  <1>3. CASE ~(Attaches(t) /\ l = lk[t])
    <2>1. At(s, l)
      <3>1. CASE Attaches(t) BY <1>3, <3>1, AttachFx
      <3>2. CASE Detaches(t) BY <3>2, DetachFx
      <3>3. CASE ~Attaches(t) /\ ~Detaches(t) BY <3>3, AtStep DEF AtSame
      <3> QED BY <3>1, <3>2, <3>3
    <2>2. headTkt'[s] = headTkt[s]
      <3>1. CASE pc[t] \notin {"claim", "waketkt"} BY <2>1, <3>1, HeadTktKept
      <3>2. CASE pc[t] \in {"claim", "waketkt"} BY <3>2, HeadFx DEF Updates
      <3> QED BY <3>1, <3>2
    <2>3. CASE pc[t] = "cs" /\ l = lk[t]
      <3>1. queued[lk[t]] BY <2>1, <2>3 DEF At
      <3> QED BY <2>3, <3>1, PassFx
    <2>4. CASE ~(pc[t] = "cs" /\ l = lk[t])
      <3>1. head'[l] = head[l]
        <4>1. CASE pc[t] = "cs"
          <5>1. QTicketRelease(t) BY <4>1, PlaceFx
          <5> QED BY <2>4, <4>1, <5>1, QTicketReleaseFx
        <4>2. CASE pc[t] # "cs" BY <4>2, HeadFx
        <4> QED BY <4>1, <4>2
      <3>2. head[l] = headTkt[s] \/ \E w \in Threads : lk[w] = l /\ pc[w] \in Wakers
        BY <2>1, <2>2 DEF Passing
      <3>3. ASSUME NEW w \in Threads, lk[w] = l, pc[w] \in Wakers PROVE lk'[w] = l /\ pc'[w] \in Wakers
        <4>1. CASE w # t BY <1>1, <3>3, <4>1 DEF Others
        <4>2. CASE w = t
          <5>1. ~Detaches(t) BY <3>3, <4>2, DetachFx DEF At
          <5>2. pc[t] # "handoff"
            <6>1. SUFFICES ASSUME pc[t] = "handoff" PROVE FALSE OBVIOUS
            <6>2. At(slot[t], l) /\ slot[t] \in Slots
              BY <1>1, <3>3, <4>2, <6>1 DEF At, Attached, Found, Sure, Wakers, WakePCs, Kinds
            <6>3. s = slot[t] BY <1>1, <2>1, <6>2, AtUnique
            <6>4. headTkt[slot[t]] = NoTicket BY <6>1 DEF Passing
            <6> QED BY <2>2, <6>3, <6>4
          <5> QED BY <3>3, <4>2, <5>1, <5>2, PassFx
        <4> QED BY <4>1, <4>2
      <3> QED BY <2>2, <3>1, <3>2, <3>3
    <2> QED BY <2>3, <2>4
  <1> QED BY <1>2, <1>3

\* When the lock is handed along the queue the recorded ticket is used up.
LEMMA TicketUsed ==
    ASSUME TypeOK, NEW t \in Threads, Step(t) \/ \E l \in Locks : QTicketAcquire(t, l),
           SetUp, OneSlot, Attached, StaleUsed, Apart, One, Passing, Ends, Aims, Locals,
           NEW u \in Threads, Baton(u)' \/ pc'[u] = "handoff"
    PROVE  headTkt'[slot'[u]] = NoTicket
  <1>1. Others(t) BY OthersFx
  <1>2. ASSUME Baton(u) \/ pc[u] = "handoff", slot'[u] = slot[u] PROVE headTkt'[slot'[u]] = NoTicket
    <2>1. headTkt[slot[u]] = NoTicket BY <1>2 DEF Passing
    <2>2. pc[u] \in Found BY <1>2 DEF Baton, Found, QueuePCs, WakePCs
    <2> QED BY <1>2, <2>1, <2>2, RecordedFx
  <1>3. CASE u = t
    <2>1. CASE Baton(t)' BY <1>2, <1>3, <2>1, PassFx
    <2>2. CASE pc'[t] = "handoff"
      <3>1. pc[t] = "waketkt" /\ slot'[t] = slot[t] BY <2>2, PassFx
      <3> QED BY <1>3, <3>1, HeadFx DEF Updates
    <2> QED BY <1>3, <2>1, <2>2
  <1>4. CASE u # t
    <2>1. slot'[u] = slot[u] /\ pc'[u] = pc[u] BY <1>1, <1>4 DEF Others
    <2>2. CASE pc[t] = "handoff" /\ u = ptr[t]
      <3>1. HandOff(t) BY <2>2, PlaceFx
      <3>2. slot[u] = slot[t] BY <2>2, <3>1, HandOffHas
      <3>3. headTkt[slot[t]] = NoTicket BY <2>2 DEF Passing
      <3>4. headTkt' = headTkt BY <3>1, HandOffFx DEF KeepSlots
      <3> QED BY <2>1, <3>2, <3>3, <3>4
    <2>3. CASE ~(pc[t] = "handoff" /\ u = ptr[t])
      <3>1. woken'[u] = woken[u]
        <4>1. CASE pc[t] = "handoff"
          <5>1. HandOff(t) BY <4>1, PlaceFx
          <5> QED BY <2>3, <4>1, <5>1, HandOffFx
        <4>2. CASE pc[t] # "handoff" BY <1>4, <4>2, ArgsFx
        <4> QED BY <4>1, <4>2
      <3>2. Baton(u) \/ pc[u] = "handoff" BY <2>1, <3>1 DEF Baton
      <3> QED BY <1>2, <2>1, <3>2
    <2> QED BY <2>2, <2>3
  <1> QED BY <1>3, <1>4

\* Nobody takes the recorded ticket from the thread that has seen its own in it.
LEMMA ClaimHolds ==
    ASSUME TypeOK, NEW t \in Threads, Step(t) \/ \E l \in Locks : QTicketAcquire(t, l),
           SetUp, OneSlot, Attached, One, Passing, Locals, NEW u \in Threads, pc'[u] = "claim"
    PROVE  headTkt'[slot'[u]] = tkt'[u]
  <1>1. Others(t) BY OthersFx
  <1>2. CASE u = t
    <2>1. /\ pc[t] = "check" /\ headTkt[slot[t]] = tkt[t]
          /\ slot'[t] = slot[t] /\ tkt'[t] = tkt[t]
      BY <1>2, PassFx
    <2>2. pc[t] \in Found BY <2>1 DEF Found
    <2> QED BY <1>2, <2>1, <2>2, RecordedFx
  <1>3. CASE u # t
    <2>1. slot'[u] = slot[u] /\ pc[u] = "claim" /\ tkt'[u] = tkt[u] BY <1>1, <1>3 DEF Others
    <2>2. headTkt[slot[u]] = tkt[u] /\ pc[u] \in Found BY <2>1 DEF Passing, Found
    <2>3. ASSUME pc[t] \in {"claim", "waketkt"}, slot[u] = slot[t] PROVE FALSE
      <3>1. Has(t)
        <4>1. CASE pc[t] = "claim" BY <4>1, ClaimHas
        <4>2. CASE pc[t] = "waketkt" BY <4>2 DEF Has, Wakers, WakePCs
        <4> QED BY <2>3, <4>1, <4>2
      <3>2. Has(u) BY <2>1, ClaimHas
      <3>3. lk[u] = lk[t] BY <2>2, <2>3 DEF Attached, Found, WakePCs
      <3> QED BY <1>3, <3>1, <3>2, <3>3 DEF One
    <2> QED BY <2>1, <2>2, <2>3, RecordedFx
  <1> QED BY <1>2, <1>3

\* How a recorded ticket is used holds through every access.
LEMMA PassingStep ==
    ASSUME TypeOK, NEW t \in Threads, Step(t) \/ \E l \in Locks : QTicketAcquire(t, l),
           SetUp, OneSlot, Attached, StaleUsed, Apart, One, Passing, Ends, Aims, Locals
    PROVE  Passing'
  <1>1. ASSUME NEW s \in Slots, NEW u \in Threads,
               pc'[u] \in Wakers, At(s, lk[u])', headTkt'[s] # NoTicket
        PROVE  head'[lk'[u]] = Inc(headTkt'[s])
    <2>1. PICK l : l = lk'[u] OBVIOUS
    <2>2. At(s, l)' BY <1>1, <2>1 DEF At
    <2>3. l \in Locks
      <3>1. Others(t) BY OthersFx
      <3>2. lk'[u] = lk[u] /\ pc[u] # "idle" BY <1>1, <3>1, PassFx DEF Others, Wakers, WakePCs
      <3> QED BY <2>1, <3>2 DEF TypeOK
    <2> QED BY <1>1, <2>1, <2>2, <2>3, WakerPasses
  <1>2. ASSUME NEW s \in Slots, NEW l \in Locks, At(s, l)', headTkt'[s] # NoTicket
        PROVE  head'[l] = headTkt'[s] \/ \E w \in Threads : lk'[w] = l /\ pc'[w] \in Wakers
    BY <1>2, RecordHolds
  <1>3. ASSUME NEW u \in Threads, Baton(u)' \/ pc'[u] = "handoff"
        PROVE  headTkt'[slot'[u]] = NoTicket
    BY <1>3, TicketUsed
  <1>4. ASSUME NEW u \in Threads, pc'[u] = "claim" PROVE headTkt'[slot'[u]] = tkt'[u]
    BY <1>4, ClaimHolds
  <1> QED BY <1>1, <1>2, <1>3, <1>4 DEF Passing
-----------------------------------------------------------------------------
\* The types of what the queues consist of.
QKinds ==
    /\ \A s \in Slots : spin[s] \in Threads \cup {NULL} /\ spinTail[s] \in Threads \cup {NULL}
    /\ \A u \in Threads : next[u] \in Threads \cup {NULL} /\ ptr[u] \in Threads \cup {NULL}
    /\ \A u \in Threads : woken[u] \in BOOLEAN
    /\ \A u \in Threads : pc[u] \in {"waketkt", "handoff"} => ptr[u] \in Threads

LEMMA QTypes == ASSUME TypeOK PROVE QKinds /\ Kinds /\ NULL \notin Threads
  BY QLockAssumption DEF TypeOK, QKinds, Kinds

\* A step of a thread that is in no queue.
Aside(t) ==
    /\ ~InQueue(t) /\ ~InQueue(t)'
    /\ spin' = spin /\ spinTail' = spinTail
    /\ \A u \in Threads : u # t => next'[u] = next[u] /\ woken'[u] = woken[u]

\* Such a step leaves every queue as it is.
LEMMA AsideKeeps ==
    ASSUME TypeOK, NEW t \in Threads, Others(t), Aside(t), Ends, Chain, Fronts
    PROVE  Ends' /\ Chain' /\ Fronts'
  <1>1. QKinds /\ Kinds /\ NULL \notin Threads BY QTypes
  <1> USE <1>1 DEF QKinds, Kinds, Others, Aside, InQueue, Front, Baton, QueuePCs
  <1>2. \A u \in Threads : (Front(u)' <=> Front(u)) /\ (Front(u) => u # t) OBVIOUS
  <1>3. Ends' BY <1>2 DEF Ends
  <1>4. Chain' BY <1>2 DEF Chain, Ends
  <1>5. Fronts' BY <1>2 DEF Fronts
  <1> QED BY <1>3, <1>4, <1>5

\* Only the steps of a queued thread, the hand-off and the two stores that empty
\* a new slot touch a queue.
LEMMA AsideFx ==
    ASSUME TypeOK, NEW t \in Threads, Step(t) \/ \E l \in Locks : QTicketAcquire(t, l),
           pc[t] \notin QueuePCs \cup {"handoff", "initspin", "inittail"}
    PROVE  Aside(t)
  <1> USE DEF Aside, InQueue, QueuePCs, KeepSlots, KeepElems, Moves
  <1>1. CASE SpinOnTicket(t) BY <1>1, SpinOnTicketFx
  <1>2. CASE TakeSlot(t) BY <1>2, TakeSlotFx
  <1>3. CASE BitCheck(t) BY <1>3, BitCheckFx
  <1>4. CASE InitSpin(t) BY <1>4, InitSpinFx
  <1>5. CASE InitTail(t) BY <1>5, InitTailFx
  <1>6. CASE ReadLock(t) BY <1>6, ReadLockFx
  <1>7. CASE BackOut(t) BY <1>7, BackOutFx
  <1>8. CASE SetBit(t) BY <1>8, SetBitFx
  <1>9. CASE Publish(t) BY <1>9, PublishFx
  <1>10. CASE SpinFind(t) BY <1>10, SpinFindFx
  <1>11. CASE SpinCheck(t) BY <1>11, SpinCheckFx
  <1>12. CASE Claim(t) BY <1>12, ClaimFx
  <1>13. CASE Enqueue(t) BY <1>13, EnqueueFx
  <1>14. CASE Link(t) BY <1>14, LinkFx
  <1>15. CASE Wait(t) BY <1>15, WaitFx
  <1>16. CASE Clear(t) BY <1>16, ClearFx
  <1>17. CASE ResetTail(t) BY <1>17, ResetTailFx
  <1>18. CASE WaitNext(t) BY <1>18, WaitNextFx
  <1>19. CASE Advance(t) BY <1>19, AdvanceFx
  <1>20. CASE QTicketRelease(t) BY <1>20, QTicketReleaseFx
  <1>21. CASE WakeFind(t) BY <1>21, WakeFindFx
  <1>22. CASE WakeSpin(t) BY <1>22, WakeSpinFx
  <1>23. CASE WakeRead(t) BY <1>23, WakeReadFx
  <1>24. CASE WakeCas(t) BY <1>24, WakeCasFx
  <1>25. CASE WakeFree(t) BY <1>25, WakeFreeFx
  <1>26. CASE WakeTkt(t) BY <1>26, WakeTktFx
  <1>27. CASE HandOff(t) BY <1>27, HandOffFx
  <1>28. ASSUME NEW l \in Locks, QTicketAcquire(t, l) PROVE Aside(t) BY <1>28, AcquireFx
  <1> QED
    BY <1>1, <1>2, <1>3, <1>4, <1>5, <1>6, <1>7, <1>8, <1>9, <1>10, <1>11, <1>12, <1>13, <1>14,
       <1>15, <1>16, <1>17, <1>18, <1>19, <1>20, <1>21, <1>22, <1>23, <1>24, <1>25, <1>26, <1>27, <1>28 DEF Step

LEMMA InsideFx ==
    ASSUME TypeOK, NEW t \in Threads, Step(t) \/ \E l \in Locks : QTicketAcquire(t, l),
           pc[t] \in QueuePCs \cup {"handoff", "initspin", "inittail"}
    PROVE  \/ Enqueue(t) \/ Link(t) \/ Wait(t) \/ Clear(t) \/ ResetTail(t) \/ WaitNext(t)
           \/ Advance(t) \/ HandOff(t) \/ InitSpin(t) \/ InitTail(t)
  BY DEF Step, QueuePCs, QTicketAcquire, SpinOnTicket, TakeSlot, BitCheck, ReadLock, BackOut,
     SetBit, Publish, SpinFind, SpinCheck, Claim, QTicketRelease, WakeFind, WakeSpin, WakeRead,
     WakeCas, WakeFree, WakeTkt

\* The ends of the queues hold through every access: through the exchange of
\* spin_tail, the link behind it, and the CAS that takes the last element out.
LEMMA EndsStep ==
    ASSUME TypeOK, NEW t \in Threads, Step(t) \/ \E l \in Locks : QTicketAcquire(t, l),
           SetUp, Attached, Ends, Chain, Fronts, Aims, Locals
    PROVE  Ends'
  <1>1. Others(t) BY OthersFx
  <1>2. QKinds /\ Kinds /\ NULL \notin Threads BY QTypes
  <1>3. CASE pc[t] \notin QueuePCs \cup {"handoff", "initspin", "inittail"}
    BY <1>1, <1>3, AsideFx, AsideKeeps
  <1> USE <1>1, <1>2 DEF QKinds, Kinds, Others, Same, Moves, Updates, KeepLocks, KeepSlots,
        KeepElems,
        InQueue, Front, Baton, QueuePCs, Ends, Chain, Fronts, Aims, Locals
  <1>4. CASE Enqueue(t) BY <1>4, EnqueueFx
  <1>5. CASE Link(t) BY <1>5, LinkFx
  <1>6. CASE Wait(t) BY <1>6, WaitFx
  <1>7. CASE Clear(t) BY <1>7, ClearFx
  <1>8. CASE ResetTail(t)
    <2>1. Front(t) /\ spin[slot[t]] = NULL BY <1>8, ResetTailFx
    <2>2. \A u \in Threads : u # t /\ slot[u] = slot[t] => ~Front(u) BY <1>8, <2>1, ResetTailFx
    <2>3. CASE pc'[t] = "cs"
      <3>1. \A u \in Threads : u # t => (Front(u)' <=> Front(u)) /\ (InQueue(u)' <=> InQueue(u))
        BY <1>8, <2>3, ResetTailFx
      <3>2. ~Front(t)' /\ ~InQueue(t)' BY <2>3
      <3> HIDE DEF Front, InQueue, Baton
      <3> QED BY <1>8, <2>1, <2>2, <2>3, <3>1, <3>2, ResetTailFx
    <2>4. CASE pc'[t] # "cs" BY <1>8, <2>4, ResetTailFx
    <2> QED BY <2>3, <2>4
  <1>9. CASE WaitNext(t) BY <1>9, WaitNextFx
  <1>10. CASE Advance(t)
    <2>1. /\ next[t] \in Threads /\ pc[next[t]] = "wait" /\ ~woken[next[t]]
          /\ slot[next[t]] = slot[t] /\ next[t] # t
      BY <1>10, AdvanceFx
    <2>2. spinTail[slot[t]] # NULL /\ spinTail[slot[t]] # t BY <1>10, AdvanceFx
    <2> QED BY <1>10, <2>1, <2>2, AdvanceFx
  <1>11. CASE HandOff(t) BY <1>11, HandOffFx
  <1>12. CASE InitSpin(t)
    <2>1. \A u \in Threads : InQueue(u) => slot[u] # slot[t]
      BY <1>12, FxTypes, InitSpinFx DEF SetUp, Setters, Attached, Found
    <2> QED BY <1>12, <2>1, InitSpinFx
  <1>13. CASE InitTail(t)
    <2>1. \A u \in Threads : InQueue(u) => slot[u] # slot[t]
      BY <1>13, FxTypes, InitTailFx DEF SetUp, Setters, Attached, Found
    <2> QED BY <1>13, <2>1, InitTailFx
  <1>14. CASE pc[t] \in QueuePCs \cup {"handoff", "initspin", "inittail"}
    <2>1. Enqueue(t) \/ Link(t) \/ Wait(t) \/ Clear(t) \/ ResetTail(t) \/ WaitNext(t)
          \/ Advance(t) \/ HandOff(t) \/ InitSpin(t) \/ InitTail(t)
      BY <1>14, InsideFx
    <2> QED BY <2>1, <1>4, <1>5, <1>6, <1>7, <1>8, <1>9, <1>10, <1>11, <1>12, <1>13
  <1> QED BY <1>3, <1>14

\* Elements that are linked stay linked until the first one leaves.
LEMMA ChainStep ==
    ASSUME TypeOK, NEW t \in Threads, Step(t) \/ \E l \in Locks : QTicketAcquire(t, l),
           SetUp, Attached, Ends, Chain, Fronts, Aims, Locals
    PROVE  Chain'
  <1>1. Others(t) BY OthersFx
  <1>2. QKinds /\ Kinds /\ NULL \notin Threads BY QTypes
  <1>3. CASE pc[t] \notin QueuePCs \cup {"handoff", "initspin", "inittail"}
    BY <1>1, <1>3, AsideFx, AsideKeeps
  <1> USE <1>1, <1>2 DEF QKinds, Kinds, Others, Same, Moves, Updates, KeepLocks, KeepSlots,
        KeepElems,
        InQueue, Front, Baton, QueuePCs, Ends, Chain, Fronts, Aims, Locals
  <1>4. CASE Enqueue(t) BY <1>4, EnqueueFx
  <1>5. CASE Link(t)
    <2>1. /\ \A p \in Threads : InQueue(p) => next[p] # t
          /\ \A s \in Slots : spin[s] # t
          /\ InQueue(t)' /\ pc'[t] = "wait" /\ ~woken'[t] /\ slot'[t] = slot[t] /\ slot[t] \in Slots
          /\ \A p \in Threads : (InQueue(p)' <=> InQueue(p)) /\ slot'[p] = slot[p]
      BY <1>5, LinkFx
    <2>2. CASE ptr[t] = NULL
      <3>1. next' = next /\ Updates(slot[t], spin, spin', t) BY <1>5, <2>2, LinkFx
      <3>2. ASSUME NEW p \in Threads, InQueue(p)', next'[p] # NULL
            PROVE  /\ pc'[next'[p]] = "wait" /\ ~woken'[next'[p]]
                   /\ slot'[next'[p]] = slot'[p] /\ spin'[slot'[p]] # next'[p]
        BY <1>5, <2>1, <3>1, <3>2, LinkFx
      <3> QED BY <1>5, <2>1, <3>1, <3>2, LinkFx
    <2>3. CASE ptr[t] # NULL
      <3>1. /\ ptr[t] \in Threads /\ spin' = spin /\ next'[ptr[t]] = t
            /\ \A u \in Threads : u # ptr[t] => next'[u] = next[u]
            /\ InQueue(ptr[t]) /\ slot[ptr[t]] = slot[t]
        BY <1>5, <2>3, LinkFx
      <3>2. ASSUME NEW p \in Threads, InQueue(p)', next'[p] # NULL
            PROVE  /\ pc'[next'[p]] = "wait" /\ ~woken'[next'[p]]
                   /\ slot'[next'[p]] = slot'[p] /\ spin'[slot'[p]] # next'[p]
        <4>1. CASE p = ptr[t] BY <2>1, <3>1, <4>1
        <4>2. CASE p # ptr[t] BY <1>5, <2>1, <3>1, <3>2, <4>2, LinkFx
        <4> QED BY <4>1, <4>2
      <3>3. ASSUME NEW p \in Threads, NEW q \in Threads, InQueue(p)', InQueue(q)',
                   next'[p] # NULL, next'[p] = next'[q]
            PROVE  p = q
        BY <2>1, <3>1, <3>3
      <3>4. ASSUME NEW u \in Threads, pc'[u] = "link", ptr'[u] # NULL
            PROVE  InQueue(ptr[u])' /\ slot'[ptr'[u]] = slot'[u] /\ next'[ptr'[u]] = NULL
        <4>1. u # t /\ pc[u] = "link" /\ ptr'[u] = ptr[u] /\ ptr[u] # ptr[t] BY <2>1, <3>4, <1>5,
              <2>3, LinkFx
        <4> QED BY <2>1, <3>1, <3>4, <4>1
      <3>5. ASSUME NEW u \in Threads, NEW v \in Threads, pc'[u] = "link", pc'[v] = "link",
                   ptr'[u] # NULL, ptr'[u] = ptr'[v]
            PROVE  u = v
        BY <2>1, <3>5
      <3> QED BY <3>2, <3>3, <3>4, <3>5
    <2> QED BY <2>2, <2>3
  <1>6. CASE Wait(t) BY <1>6, WaitFx
  <1>7. CASE Clear(t) BY <1>7, ClearFx
  <1>8. CASE ResetTail(t)
    <2>1. Front(t) /\ spin[slot[t]] = NULL BY <1>8, ResetTailFx
    <2>2. \A u \in Threads : u # t /\ slot[u] = slot[t] => ~Front(u) BY <1>8, <2>1, ResetTailFx
    <2>3. CASE pc'[t] = "cs"
      <3>1. \A u \in Threads : u # t => (Front(u)' <=> Front(u)) /\ (InQueue(u)' <=> InQueue(u))
        BY <1>8, <2>3, ResetTailFx
      <3>2. ~Front(t)' /\ ~InQueue(t)' BY <2>3
      <3> HIDE DEF Front, InQueue, Baton
      <3> QED BY <1>8, <2>1, <2>2, <2>3, <3>1, <3>2, ResetTailFx
    <2>4. CASE pc'[t] # "cs" BY <1>8, <2>4, ResetTailFx
    <2> QED BY <2>3, <2>4
  <1>9. CASE WaitNext(t) BY <1>9, WaitNextFx
  <1>10. CASE Advance(t) BY <1>10, AdvanceFx
  <1>11. CASE HandOff(t)
    <2>1. /\ ptr[t] = spin[slot[t]] /\ ptr[t] \in Threads /\ slot[ptr[t]] = slot[t]
      BY <1>11, HandOffFx
    <2>2. \A p \in Threads : InQueue(p) => next[p] # ptr[t] BY <1>11, <2>1
    <2> QED BY <1>11, <2>1, <2>2, HandOffFx
  <1>12. CASE InitSpin(t)
    <2>1. \A u \in Threads : InQueue(u) => slot[u] # slot[t]
      BY <1>12, FxTypes, InitSpinFx DEF SetUp, Setters, Attached, Found
    <2> QED BY <1>12, <2>1, InitSpinFx
  <1>13. CASE InitTail(t)
    <2>1. \A u \in Threads : InQueue(u) => slot[u] # slot[t]
      BY <1>13, FxTypes, InitTailFx DEF SetUp, Setters, Attached, Found
    <2> QED BY <1>13, <2>1, InitTailFx
  <1>14. CASE pc[t] \in QueuePCs \cup {"handoff", "initspin", "inittail"}
    <2>1. Enqueue(t) \/ Link(t) \/ Wait(t) \/ Clear(t) \/ ResetTail(t) \/ WaitNext(t)
          \/ Advance(t) \/ HandOff(t) \/ InitSpin(t) \/ InitTail(t)
      BY <1>14, InsideFx
    <2> QED BY <2>1, <1>4, <1>5, <1>6, <1>7, <1>8, <1>9, <1>10, <1>11, <1>12, <1>13
  <1> QED BY <1>3, <1>14

\* A queue has at most one first element.
LEMMA FrontsStep ==
    ASSUME TypeOK, NEW t \in Threads, Step(t) \/ \E l \in Locks : QTicketAcquire(t, l),
           SetUp, Attached, Ends, Chain, Fronts, Aims, Locals
    PROVE  Fronts'
  <1>1. Others(t) BY OthersFx
  <1>2. QKinds /\ Kinds /\ NULL \notin Threads BY QTypes
  <1>3. CASE pc[t] \notin QueuePCs \cup {"handoff", "initspin", "inittail"}
    BY <1>1, <1>3, AsideFx, AsideKeeps
  <1> USE <1>1, <1>2 DEF QKinds, Kinds, Others, Same, Moves, Updates, KeepLocks, KeepSlots,
        KeepElems,
        InQueue, Front, Baton, QueuePCs, Ends, Chain, Fronts, Aims, Locals
  <1>4. CASE Enqueue(t) BY <1>4, EnqueueFx
  <1>5. CASE Link(t) BY <1>5, LinkFx
  <1>6. CASE Wait(t) BY <1>6, WaitFx
  <1>7. CASE Clear(t) BY <1>7, ClearFx
  <1>8. CASE ResetTail(t)
    <2>1. Front(t) /\ spin[slot[t]] = NULL BY <1>8, ResetTailFx
    <2>2. \A u \in Threads : u # t /\ slot[u] = slot[t] => ~Front(u) BY <1>8, <2>1, ResetTailFx
    <2>3. CASE pc'[t] = "cs"
      <3>1. \A u \in Threads : u # t => (Front(u)' <=> Front(u)) /\ (InQueue(u)' <=> InQueue(u))
        BY <1>8, <2>3, ResetTailFx
      <3>2. ~Front(t)' /\ ~InQueue(t)' BY <2>3
      <3> HIDE DEF Front, InQueue, Baton
      <3> QED BY <1>8, <2>1, <2>2, <2>3, <3>1, <3>2, ResetTailFx
    <2>4. CASE pc'[t] # "cs" BY <1>8, <2>4, ResetTailFx
    <2> QED BY <2>3, <2>4
  <1>9. CASE WaitNext(t) BY <1>9, WaitNextFx
  <1>10. CASE Advance(t) BY <1>10, AdvanceFx
  <1>11. CASE HandOff(t) BY <1>11, HandOffFx
  <1>12. CASE InitSpin(t)
    <2>1. \A u \in Threads : InQueue(u) => slot[u] # slot[t]
      BY <1>12, FxTypes, InitSpinFx DEF SetUp, Setters, Attached, Found
    <2> QED BY <1>12, <2>1, InitSpinFx
  <1>13. CASE InitTail(t)
    <2>1. \A u \in Threads : InQueue(u) => slot[u] # slot[t]
      BY <1>13, FxTypes, InitTailFx DEF SetUp, Setters, Attached, Found
    <2> QED BY <1>13, <2>1, InitTailFx
  <1>14. CASE pc[t] \in QueuePCs \cup {"handoff", "initspin", "inittail"}
    <2>1. Enqueue(t) \/ Link(t) \/ Wait(t) \/ Clear(t) \/ ResetTail(t) \/ WaitNext(t)
          \/ Advance(t) \/ HandOff(t) \/ InitSpin(t) \/ InitTail(t)
      BY <1>14, InsideFx
    <2> QED BY <2>1, <1>4, <1>5, <1>6, <1>7, <1>8, <1>9, <1>10, <1>11, <1>12, <1>13
  <1> QED BY <1>3, <1>14

\* The element a release is about to write to stays the first of its queue.
LEMMA AimsStep ==
    ASSUME TypeOK, NEW t \in Threads, Step(t) \/ \E l \in Locks : QTicketAcquire(t, l),
           SetUp, Attached, One, Ends, Fronts, Aims
    PROVE  Aims'
  <1>1. Others(t) BY OthersFx
  <1>2. Kinds BY DEF Kinds, TypeOK
  <1> USE FxTypes, <1>1, <1>2 DEF Kinds, Others, Same, Moves, Updates, KeepLocks, KeepSlots,
        KeepElems,
        Aims
  <1>3. CASE SpinOnTicket(t) BY <1>3, SpinOnTicketFx
  <1>4. CASE TakeSlot(t) BY <1>4, TakeSlotFx
  <1>5. CASE BitCheck(t) BY <1>5, BitCheckFx
  <1>6. CASE InitSpin(t)
    <2>1. \A u \in Threads : pc[u] \in {"waketkt", "handoff"} => slot[u] # slot[t]
      BY <1>6, InitSpinFx DEF SetUp, Setters, Attached, Found, WakePCs
    <2> QED BY <1>6, <2>1, InitSpinFx
  <1>7. CASE InitTail(t) BY <1>7, InitTailFx
  <1>8. CASE ReadLock(t) BY <1>8, ReadLockFx
  <1>9. CASE BackOut(t) BY <1>9, BackOutFx
  <1>10. CASE SetBit(t) BY <1>10, SetBitFx
  <1>11. CASE Publish(t) BY <1>11, PublishFx
  <1>12. CASE SpinFind(t) BY <1>12, SpinFindFx
  <1>13. CASE SpinCheck(t) BY <1>13, SpinCheckFx
  <1>14. CASE Claim(t) BY <1>14, ClaimFx
  <1>15. CASE Enqueue(t) BY <1>15, EnqueueFx
  <1>16. CASE Link(t)
    <2>1. \A u \in Threads : pc[u] \in {"waketkt", "handoff"} /\ slot[u] = slot[t] => ptr[t] # NULL
      <3>1. SUFFICES ASSUME NEW u \in Threads, pc[u] \in {"waketkt", "handoff"}, slot[u] = slot[t], ptr[t] = NULL
                     PROVE  FALSE
        OBVIOUS
      <3>2. spin[slot[t]] \in Threads BY <3>1, QTypes DEF QKinds
      <3>3. spin[slot[t]] = t BY <1>16, <3>1, <3>2, LinkFx, QTypes DEF Fronts, Front
      <3> QED BY <1>16, <3>3, LinkFx, QTypes DEF Ends
    <2> QED BY <1>16, <2>1, LinkFx
  <1>17. CASE Wait(t) BY <1>17, WaitFx
  <1>18. CASE Clear(t)
    <2>1. \A u \in Threads : pc[u] \in {"waketkt", "handoff"} => slot[u] # slot[t]
      <3>1. Has(t) /\ ref[slot[t]] = lk[t] /\ pc[t] \notin {"waketkt", "handoff"}
        BY <1>18, ClearFx DEF Has, Baton, Attached, Found, QueuePCs
      <3>2. \A u \in Threads : pc[u] \in {"waketkt", "handoff"} => Has(u) /\ ref[slot[u]] = lk[u]
        BY DEF Has, Attached, Found, Wakers, WakePCs
      <3> QED BY <3>1, <3>2 DEF One
    <2> QED BY <1>18, <2>1, ClearFx
  <1>19. CASE ResetTail(t) BY <1>19, ResetTailFx
  <1>20. CASE WaitNext(t) BY <1>20, WaitNextFx
  <1>21. CASE Advance(t)
    <2>1. \A u \in Threads : pc[u] \in {"waketkt", "handoff"} => slot[u] # slot[t]
      <3>1. Has(t) /\ ref[slot[t]] = lk[t] /\ pc[t] \notin {"waketkt", "handoff"}
        BY <1>21, AdvanceFx DEF Has, Baton, Attached, Found, QueuePCs
      <3>2. \A u \in Threads : pc[u] \in {"waketkt", "handoff"} => Has(u) /\ ref[slot[u]] = lk[u]
        BY DEF Has, Attached, Found, Wakers, WakePCs
      <3> QED BY <3>1, <3>2 DEF One
    <2> QED BY <1>21, <2>1, AdvanceFx
  <1>22. CASE QTicketRelease(t) BY <1>22, QTicketReleaseFx
  <1>23. CASE WakeFind(t) BY <1>23, WakeFindFx
  <1>24. CASE WakeSpin(t) BY <1>24, WakeSpinFx
  <1>25. CASE WakeRead(t) BY <1>25, WakeReadFx
  <1>26. CASE WakeCas(t) BY <1>26, WakeCasFx
  <1>27. CASE WakeFree(t) BY <1>27, WakeFreeFx
  <1>28. CASE WakeTkt(t) BY <1>28, WakeTktFx
  <1>29. CASE HandOff(t) BY <1>29, HandOffFx
  <1>30. ASSUME NEW l \in Locks, QTicketAcquire(t, l) PROVE Aims' BY <1>30, AcquireFx
  <1> QED
    BY <1>3, <1>4, <1>5, <1>6, <1>7, <1>8, <1>9, <1>10, <1>11, <1>12, <1>13, <1>14, <1>15, <1>16,
       <1>17, <1>18, <1>19, <1>20, <1>21, <1>22, <1>23, <1>24, <1>25, <1>26, <1>27, <1>28, <1>29, <1>30 DEF Step

\* A thread sets its element up before it queues, and nobody tells it early.
LEMMA LocalsStep ==
    ASSUME TypeOK, NEW t \in Threads, Step(t) \/ \E l \in Locks : QTicketAcquire(t, l),
           Ends, Chain, Aims, Locals
    PROVE  Locals'
  <1>1. Others(t) BY OthersFx
  <1>2. Kinds BY DEF Kinds, TypeOK
  <1> USE FxTypes, <1>1, <1>2 DEF Kinds, Others, Same, Moves, Updates, KeepLocks, KeepSlots,
        KeepElems,
        Locals
  <1>3. CASE SpinOnTicket(t) BY <1>3, SpinOnTicketFx
  <1>4. CASE TakeSlot(t) BY <1>4, TakeSlotFx
  <1>5. CASE BitCheck(t) BY <1>5, BitCheckFx
  <1>6. CASE InitSpin(t) BY <1>6, InitSpinFx
  <1>7. CASE InitTail(t) BY <1>7, InitTailFx
  <1>8. CASE ReadLock(t) BY <1>8, ReadLockFx
  <1>9. CASE BackOut(t) BY <1>9, BackOutFx
  <1>10. CASE SetBit(t) BY <1>10, SetBitFx
  <1>11. CASE Publish(t) BY <1>11, PublishFx
  <1>12. CASE SpinFind(t) BY <1>12, SpinFindFx
  <1>13. CASE SpinCheck(t) BY <1>13, SpinCheckFx
  <1>14. CASE Claim(t) BY <1>14, ClaimFx
  <1>15. CASE Enqueue(t) BY <1>15, EnqueueFx
  <1>16. CASE Link(t)
    <2>1. ptr[t] # NULL => pc[ptr[t]] # "enqueue" BY <1>16, LinkFx DEF Chain, InQueue
    <2> QED BY <1>16, <2>1, LinkFx
  <1>17. CASE Wait(t) BY <1>17, WaitFx
  <1>18. CASE Clear(t) BY <1>18, ClearFx
  <1>19. CASE ResetTail(t) BY <1>19, ResetTailFx
  <1>20. CASE WaitNext(t) BY <1>20, WaitNextFx
  <1>21. CASE Advance(t) BY <1>21, AdvanceFx
  <1>22. CASE QTicketRelease(t) BY <1>22, QTicketReleaseFx
  <1>23. CASE WakeFind(t) BY <1>23, WakeFindFx
  <1>24. CASE WakeSpin(t) BY <1>24, WakeSpinFx
  <1>25. CASE WakeRead(t) BY <1>25, WakeReadFx
  <1>26. CASE WakeCas(t) BY <1>26, WakeCasFx
  <1>27. CASE WakeFree(t) BY <1>27, WakeFreeFx
  <1>28. CASE WakeTkt(t) BY <1>28, WakeTktFx
  <1>29. CASE HandOff(t)
    <2>1. pc[ptr[t]] \in {"wait", "clear", "advance"} BY <1>29, HandOffFx, QTypes DEF Aims, Ends
    <2> QED BY <1>29, <2>1, HandOffFx
  <1>30. ASSUME NEW l \in Locks, QTicketAcquire(t, l) PROVE Locals' BY <1>30, AcquireFx
  <1> QED
    BY <1>3, <1>4, <1>5, <1>6, <1>7, <1>8, <1>9, <1>10, <1>11, <1>12, <1>13, <1>14, <1>15, <1>16,
       <1>17, <1>18, <1>19, <1>20, <1>21, <1>22, <1>23, <1>24, <1>25, <1>26, <1>27, <1>28, <1>29, <1>30 DEF Step
-----------------------------------------------------------------------------
\* No thread is at any lock in the beginning.
LEMMA InitHolds == Init => IInv
  <1> SUFFICES ASSUME Init PROVE IInv OBVIOUS
  <1>1. TypeOK BY ZeroTypes DEF Init, TypeOK, NoWord
  <1>2. \A l \in Locks : Outstanding(l) = {} BY DEF Init, Outstanding
  <1>3. \A l \in Locks : Cardinality(Outstanding(l)) = 0 BY <1>2, FS_EmptySet
  <1>4. TicketsAccountForThreads
    BY <1>3, TicketModAssumption DEF Init, TicketsAccountForThreads, Behind
  <1>5. \A l \in Locks : ~queued[l] BY DEF Init
  <1>6. /\ \A s \in Slots : ref[s] = NULL /\ spin[s] = NULL /\ spinTail[s] = NULL
        /\ \A u \in Threads : pc[u] = "idle" /\ ptr[u] = NULL /\ next[u] = NULL
    BY DEF Init
  <1>7. \A u \in Threads : ~Has(u) /\ ~Baton(u) /\ ~Front(u) /\ ~InQueue(u)
    BY <1>6 DEF Has, Baton, Front, InQueue, Wakers, WakePCs, PassPCs, QueuePCs
  <1>8. \A s \in Slots, l \in Locks : ~At(s, l) BY <1>5 DEF At
  <1>9. SetUp /\ OneSlot /\ Attached /\ Apart /\ BusyUsed /\ StaleUsed /\ HaveSlots
    BY <1>5, <1>6, FxTypes
    DEF SetUp, OneSlot, Attached, Apart, BusyUsed, StaleUsed, HaveSlots, Setters, Found, Sure,
        Wakers, WakePCs, QueuePCs
  <1>10. One /\ Some /\ Passing
    BY <1>5, <1>6, <1>7, <1>8 DEF One, Some, Passing, Wakers, WakePCs
  <1>11. Line BY <1>2, <1>3 DEF Line, InLine
  <1>12. Ends /\ Chain /\ Fronts /\ Aims /\ Locals
    BY <1>6, <1>7 DEF Ends, Chain, Fronts, Aims, Locals
  <1> QED BY <1>1, <1>4, <1>9, <1>10, <1>11, <1>12 DEF IInv

\* A step that changes nothing.
LEMMA IdleHolds == ASSUME IInv, UNCHANGED vars PROVE IInv'
  <1> USE DEF vars, lockVars, slotVars, elemVars, argVars
  <1>1. TypeOK' BY DEF IInv, TypeOK
  <1>2. \A l : Outstanding(l)' = Outstanding(l) BY DEF Outstanding
  <1>3. TicketsAccountForThreads' BY <1>2 DEF IInv, TicketsAccountForThreads
  <1>4. SetUp' /\ OneSlot' /\ Attached' /\ Apart' BY DEF IInv, SetUp, OneSlot, Attached, Apart
  <1>5. \A s, l : At(s, l)' <=> At(s, l) BY DEF At
  <1>6. BusyUsed' /\ StaleUsed' /\ HaveSlots' BY <1>5 DEF IInv, BusyUsed, StaleUsed, HaveSlots
  <1>7. \A u \in Threads : Baton(u)' <=> Baton(u) BY DEF Baton
  <1>8. \A u \in Threads : Has(u)' <=> Has(u) BY <1>7 DEF Has, Turn, At
  <1>9. One' /\ Some' BY <1>8 DEF IInv, One, Some
  <1>10. \A l \in Locks : (ByTicket(l)' <=> ByTicket(l)) /\ (InLine(l)' <=> InLine(l))
    BY <1>2, <1>5 DEF ByTicket, InLine
  <1>11. Line' BY <1>10 DEF IInv, Line
  <1>12. Passing' BY <1>7 DEF IInv, Passing, At
  <1>13. Ends' /\ Chain' /\ Fronts' BY DEF IInv, Ends, Chain, Fronts, Front, InQueue, Baton
  <1>14. Aims' /\ Locals' BY DEF IInv, Aims, Locals
  <1> QED
    BY <1>1, <1>3, <1>4, <1>6, <1>9, <1>11, <1>12, <1>13, <1>14 DEF IInv

\* Every access to shared memory preserves every part of the invariant.
LEMMA StepHolds ==
    ASSUME Safe, IInv, TypeOK', TicketsAccountForThreads', NEW t \in Threads,
           Step(t) \/ \E l \in Locks : QTicketAcquire(t, l)
    PROVE  IInv'
  <1> USE DEF IInv
  <1>1. SetUp' /\ OneSlot' /\ Attached' /\ Apart'
    BY SetUpStep, OneSlotStep, AttachedStep, ApartStep
  <1>2. BusyUsed' /\ StaleUsed' /\ HaveSlots' BY BusyStep, StaleStep, HaveSlotsStep
  <1>3. One' /\ Some' BY OneStep, SomeStep
  <1>4. Line' /\ Passing' BY LineStep, PassingStep
  <1>5. Ends' /\ Chain' /\ Fronts' BY EndsStep, ChainStep, FrontsStep
  <1>6. Aims' /\ Locals' BY AimsStep, LocalsStep
  <1> QED BY <1>1, <1>2, <1>3, <1>4, <1>5, <1>6

\* The inductive invariant: one slot, or few enough threads.
LEMMA Inductive == ASSUME Safe PROVE Spec => []IInv
  <1>1. Init => IInv BY InitHolds
  <1>2. IInv /\ TypeOK' /\ TicketsAccountForThreads' /\ [Next]_vars => IInv'
    BY StepHolds, IdleHolds DEF Next
  <1> QED BY <1>1, <1>2, TypeCorrect, AccountsForThreads, PTL DEF Spec

\* With one slot, or with no more than Switch + 1 threads, two threads never
\* hold a lock together: not while a queue is attached or detached, and not
\* when the lock is handed over.
THEOREM ExclusionHolds == ASSUME Safe PROVE Spec => []MutualExclusion
  <1>1. IInv => MutualExclusion BY DEF IInv, One, Has, MutualExclusion
  <1> QED BY <1>1, Inductive, PTL

\* Under the same condition no pointer outlives the stack frame of the element
\* it points to: the enqueue that writes through the tail and the hand-off that
\* writes to the first element write to threads that are still in the queue.
THEOREM NoDanglingHolds == ASSUME Safe PROVE Spec => []NoDanglingElement
  <1>1. IInv => NoDanglingElement
    <2> SUFFICES ASSUME IInv PROVE NoDanglingElement OBVIOUS
    <2>1. TypeOK /\ Ends /\ Chain /\ Aims /\ Locals BY DEF IInv
    <2>2. QKinds /\ NULL \notin Threads BY <2>1, QTypes
    <2>3. ASSUME NEW s \in Slots, NEW u \in {spin[s], spinTail[s]} \ {NULL}
          PROVE  pc[u] \in QueuePCs /\ slot[u] = s
      BY <2>1, <2>3 DEF Ends, InQueue, QueuePCs
    <2>4. ASSUME NEW u \in Threads, pc[u] \in QueuePCs, next[u] # NULL
          PROVE  pc[next[u]] \in QueuePCs /\ slot[next[u]] = slot[u]
      <3>1. InQueue(u) BY <2>1, <2>4 DEF Locals, InQueue
      <3> QED BY <2>1, <2>4, <3>1 DEF Chain, QueuePCs
    <2>5. ASSUME NEW u \in Threads, ptr[u] # NULL
          PROVE  pc[ptr[u]] \in QueuePCs /\ slot[ptr[u]] = slot[u]
      <3>1. CASE pc[u] = "link" BY <2>1, <2>5, <3>1 DEF Chain, InQueue
      <3>2. CASE pc[u] \in {"waketkt", "handoff"}
        <4>1. ptr[u] = spin[slot[u]] /\ slot[u] \in Slots BY <2>1, <3>2 DEF Aims, TypeOK
        <4> QED BY <2>3, <2>5, <4>1
      <3> QED BY <2>1, <2>5, <3>1, <3>2 DEF Locals
    <2> QED BY <2>3, <2>4, <2>5 DEF NoDanglingElement
  <1> QED BY <1>1, Inductive, PTL

\* Under the same condition every slot has been given back, and every lock is a
\* plain ticket lock again, when no thread is inside a lock operation.
THEOREM SlotsComeBackHolds == ASSUME Safe PROVE Spec => []SlotsComeBack
  <1>1. IInv => SlotsComeBack
    <2> SUFFICES ASSUME IInv, \A u \in Threads : pc[u] = "idle"
                 PROVE  /\ \A l \in Locks : ~queued[l] /\ head[l] = tail[l]
                        /\ \A s \in Slots : ref[s] = NULL
      BY DEF SlotsComeBack
    <2>1. \A l \in Locks : ~queued[l]
      <3>1. \A u \in Threads : ~Has(u) BY DEF Has, Baton, Wakers, WakePCs, PassPCs
      <3> QED BY <3>1 DEF IInv, Some
    <2>2. ASSUME NEW l \in Locks PROVE head[l] = tail[l]
      <3>1. Outstanding(l) = {} BY DEF Outstanding
      <3>2. Cardinality(Outstanding(l)) = 0 BY <3>1, FS_EmptySet
      <3>3. head[l] \in Tickets /\ tail[l] = Behind(head[l], 0)
        BY <3>2 DEF IInv, TypeOK, TicketsAccountForThreads
      <3> QED BY <3>3, TicketModAssumption DEF Behind, Tickets
    <2>3. ASSUME NEW s \in Slots PROVE ref[s] = NULL
      <3>1. ref[s] \in Locks \cup {NULL, BUSY} BY DEF IInv, TypeOK
      <3>2. ref[s] # BUSY BY DEF IInv, BusyUsed, Setters
      <3>3. ref[s] \notin Locks BY <2>1 DEF IInv, StaleUsed
      <3> QED BY <3>1, <3>2, <3>3
    <2> QED BY <2>1, <2>2, <2>3
  <1> QED BY <1>1, Inductive, PTL
=============================================================================
