-------------------------- MODULE TicketLockProofs --------------------------
(***************************************************************************)
(* The ticket lock excludes, for any finite set of threads that the ticket *)
(* counters can number, and serves in order of arrival.  MutualExclusion   *)
(* is not inductive: it rests on TicketsInLine, which ties the counters to *)
(* the number of outstanding tickets.                                      *)
(***************************************************************************)
EXTENDS TicketLock, FiniteSetTheorems, TLAPS

(* Ticket arithmetic: what Inc, Offset and Behind compute. *)

\* Incrementing a ticket counter, without the remainder: one more, or zero
\* after the last value (the xadd and incw of ncutils_lock.h).
LEMMA IncWraps ==
    ASSUME NEW k \in Tickets
    PROVE  Inc(k) = IF k = TicketMod - 1 THEN 0 ELSE k + 1
  <1>1. CASE k = TicketMod - 1
    BY <1>1, TicketModAssumption DEF Inc, Tickets
  <1>2. CASE k # TicketMod - 1
    BY <1>2, TicketModAssumption DEF Inc, Tickets
  <1>3. QED BY <1>1, <1>2

LEMMA IncType == \A k \in Tickets : Inc(k) \in Tickets
  BY IncWraps, TicketModAssumption DEF Tickets

LEMMA OffsetType == \A h, k \in Tickets : Offset(h, k) \in Tickets
  BY TicketModAssumption DEF Offset, Tickets

\* Only the head is at distance zero.
LEMMA OffsetZero == \A h, k \in Tickets : Offset(h, k) = 0 <=> k = h
  BY TicketModAssumption DEF Offset, Tickets

\* Serving one ticket brings every other one a place forward.
LEMMA OffsetServe ==
    \A h, k \in Tickets : k # h => Offset(Inc(h), k) = Offset(h, k) - 1
  BY IncWraps, TicketModAssumption DEF Offset, Tickets

\* The ticket n places behind the head is at offset n.
LEMMA OffsetBehind ==
    \A h \in Tickets : \A n \in 0 .. TicketMod - 1 :
        Behind(h, n) \in Tickets /\ Offset(h, Behind(h, n)) = n
  BY TicketModAssumption DEF Offset, Behind, Tickets

\* Handing out a ticket moves the tail one place back.
LEMMA BehindGive ==
    \A h \in Tickets : \A n \in 0 .. TicketMod - 1 :
        Inc(Behind(h, n)) = Behind(h, n + 1)
  BY IncWraps, TicketModAssumption DEF Behind, Tickets

\* Serving a ticket leaves the tail where it is.
LEMMA BehindServe ==
    \A h \in Tickets : \A n \in 1 .. TicketMod :
        Behind(Inc(h), n - 1) = Behind(h, n)
  BY IncWraps, TicketModAssumption DEF Behind, Tickets

\* The number of threads with a ticket, and what a step does to it.
LEMMA ActiveFinite ==
    /\ IsFiniteSet(Active)
    /\ Cardinality(Active) \in Nat
    /\ Cardinality(Active) <= TicketMod
  <1>1. Active \in SUBSET Threads BY DEF Active
  <1>2. IsFiniteSet(Active) /\ Cardinality(Active) <= Cardinality(Threads)
    BY <1>1, FS_Subset, ThreadsAssumption
  <1>3. Cardinality(Active) \in Nat /\ Cardinality(Threads) \in Nat
    BY <1>2, FS_CardinalityType, ThreadsAssumption
  <1>4. QED BY <1>2, <1>3, ThreadsAssumption, TicketModAssumption

\* While some thread has no ticket, not every ticket is out.
LEMMA RoomForOne ==
    ASSUME NEW t \in Threads, t \notin Active
    PROVE  Cardinality(Active) < TicketMod
  <1>1. Active \in SUBSET (Threads \ {t}) BY DEF Active
  <1>2. /\ IsFiniteSet(Threads \ {t})
        /\ Cardinality(Threads \ {t}) = Cardinality(Threads) - 1
    BY FS_RemoveElement, ThreadsAssumption
  <1>3. Cardinality(Active) <= Cardinality(Threads \ {t})
    BY <1>1, <1>2, FS_Subset
  <1>4. Cardinality(Threads) \in Nat BY FS_CardinalityType, ThreadsAssumption
  <1>5. QED BY <1>2, <1>3, <1>4, ActiveFinite, ThreadsAssumption, TicketModAssumption

LEMMA AcquireActive ==
    ASSUME NEW t \in Threads, TypeOK, TicketAcquire(t)
    PROVE  /\ t \notin Active
           /\ Active' = Active \cup {t}
           /\ Cardinality(Active') = Cardinality(Active) + 1
  <1>1. t \notin Active /\ Active' = Active \cup {t}
    BY DEF TicketAcquire, Active, TypeOK
  <1>2. QED BY <1>1, ActiveFinite, FS_AddElement

LEMMA ReleaseActive ==
    ASSUME NEW t \in Threads, TypeOK, TicketRelease(t)
    PROVE  /\ t \in Active
           /\ Active' = Active \ {t}
           /\ Cardinality(Active') = Cardinality(Active) - 1
  <1>1. t \in Active /\ Active' = Active \ {t}
    BY DEF TicketRelease, Active, TypeOK
  <1>2. QED BY <1>1, ActiveFinite, FS_RemoveElement
-----------------------------------------------------------------------------
\* Every variable keeps its type: counters and tickets stay within the width
\* of a __ticket_t through every acquire, spin and release.
THEOREM TypeCorrect == Spec => []TypeOK
  <1>1. Init => TypeOK
    BY TicketModAssumption DEF Init, TypeOK, Tickets
  <1>2. TypeOK /\ [Next]_vars => TypeOK'
    <2> SUFFICES ASSUME TypeOK, [Next]_vars PROVE TypeOK' OBVIOUS
    <2> 0 \in Tickets BY TicketModAssumption DEF Tickets
    <2>1. ASSUME NEW t \in Threads, TicketAcquire(t) PROVE TypeOK'
      BY <2>1, IncType DEF TypeOK, TicketAcquire
    <2>2. ASSUME NEW t \in Threads, TicketSpin(t) PROVE TypeOK'
      BY <2>2 DEF TypeOK, TicketSpin
    <2>3. ASSUME NEW t \in Threads, TicketRelease(t) PROVE TypeOK'
      BY <2>3, IncType DEF TypeOK, TicketRelease
    <2>4. CASE UNCHANGED vars
      BY <2>4 DEF TypeOK, vars
    <2>5. QED BY <2>1, <2>2, <2>3, <2>4 DEF Next, Step
  <1>3. QED BY <1>1, <1>2, PTL DEF Spec

\* An acquire appends its ticket to the line (the xadd of TicketAcquire).
LEMMA AcquireInLine ==
    ASSUME TypeOK, TicketsInLine, NEW t \in Threads, TicketAcquire(t)
    PROVE  TicketsInLine'
  <1> DEFINE n == Cardinality(Active)
  <1>1. n \in 0 .. TicketMod - 1
    BY AcquireActive, RoomForOne, ActiveFinite, TicketModAssumption
  <1>2. head \in Tickets /\ tail \in Tickets /\ head' = head
    BY DEF TypeOK, TicketAcquire
  <1>3. tail = Behind(head, n) BY DEF TicketsInLine
  <1>4. tail' = Behind(head', Cardinality(Active'))
    BY <1>1, <1>2, <1>3, AcquireActive, BehindGive DEF TicketAcquire
  <1>5. Offset(head, tail) = n BY <1>1, <1>2, <1>3, OffsetBehind
  <1>6. ticket'[t] = tail /\ \A u \in Active : u # t /\ ticket'[u] = ticket[u]
    BY AcquireActive DEF TicketAcquire, TypeOK, Active
  <1>7. \A u \in Active : Offset(head, ticket[u]) < n /\ ticket[u] \in Tickets
    BY DEF TicketsInLine, TypeOK, Active
  <1>8. \A u \in Active' : Offset(head', ticket'[u]) < Cardinality(Active')
    <2> TAKE u \in Active'
    <2>1. CASE u = t BY <2>1, <1>1, <1>2, <1>5, <1>6, AcquireActive
    <2>2. CASE u # t
      <3>1. u \in Active BY <2>2, AcquireActive
      <3>2. Offset(head, ticket[u]) \in Tickets /\ Offset(head, ticket[u]) < n
        BY <3>1, <1>7, <1>2, OffsetType
      <3>3. QED BY <3>1, <3>2, <1>1, <1>2, <1>6, AcquireActive DEF Tickets
    <2>3. QED BY <2>1, <2>2
  <1>9. \A u \in Active : ticket[u] # tail
    BY <1>1, <1>5, <1>7
  <1>10. \A u, v \in Active' : ticket'[u] = ticket'[v] => u = v
    BY <1>6, <1>9, AcquireActive DEF TicketsInLine
  <1>11. \A u \in Active' : pc'[u] = "cs" => ticket'[u] = head'
    <2> TAKE u \in Active'
    <2>1. CASE u = t BY <2>1, <1>2, <1>6 DEF TicketAcquire, TypeOK
    <2>2. CASE u # t
      <3>1. u \in Active /\ pc'[u] = pc[u]
        BY <2>2, AcquireActive DEF TicketAcquire, TypeOK, Active
      <3>2. QED BY <3>1, <1>2, <1>6 DEF TicketsInLine
    <2>3. QED BY <2>1, <2>2
  <1>12. QED BY <1>4, <1>8, <1>10, <1>11 DEF TicketsInLine

\* A release takes the ticket at the head out of the line.
LEMMA ReleaseInLine ==
    ASSUME TypeOK, TicketsInLine, NEW t \in Threads, TicketRelease(t)
    PROVE  TicketsInLine'
  <1> DEFINE n == Cardinality(Active)
  <1>1. n \in 1 .. TicketMod
    <2>1. n # 0 BY ReleaseActive, ActiveFinite, FS_EmptySet
    <2>2. QED BY <2>1, ActiveFinite, TicketModAssumption
  <1>2. head \in Tickets /\ head' = Inc(head) /\ tail' = tail
    BY DEF TypeOK, TicketRelease
  <1>3. tail' = Behind(head', Cardinality(Active'))
    BY <1>1, <1>2, ReleaseActive, BehindServe DEF TicketsInLine
  <1>4. ticket[t] = head BY ReleaseActive DEF TicketRelease, TicketsInLine
  <1>5. \A u \in Active' : /\ u \in Active
                           /\ u # t
                           /\ pc'[u] = pc[u]
                           /\ ticket'[u] = ticket[u]
                           /\ ticket[u] \in Tickets
                           /\ ticket[u] # head
    BY <1>4, ReleaseActive DEF TicketRelease, TypeOK, Active, TicketsInLine
  <1>6. \A u \in Active' : Offset(head', ticket'[u]) < Cardinality(Active')
    <2> TAKE u \in Active'
    <2>1. Offset(head', ticket'[u]) = Offset(head, ticket[u]) - 1
      BY <1>2, <1>5, OffsetServe
    <2>2. Offset(head, ticket[u]) \in Int /\ Offset(head, ticket[u]) < n
      BY <1>2, <1>5, OffsetType DEF TicketsInLine, Tickets
    <2>3. QED BY <2>1, <2>2, <1>1, ReleaseActive
  <1>7. \A u, v \in Active' : ticket'[u] = ticket'[v] => u = v
    BY <1>5 DEF TicketsInLine
  <1>8. \A u \in Active' : pc'[u] = "cs" => ticket'[u] = head'
    BY <1>5 DEF TicketsInLine
  <1>9. QED BY <1>3, <1>6, <1>7, <1>8 DEF TicketsInLine

\* The outstanding tickets are the ones from head to tail, each drawn once,
\* and whoever is inside has the one at the head.
THEOREM LineCorrect == Spec => []TicketsInLine
  <1>1. Init => TicketsInLine
    <2> SUFFICES ASSUME Init PROVE TicketsInLine OBVIOUS
    <2>1. Active = {} BY DEF Init, Active
    <2>2. Cardinality(Active) = 0 BY <2>1, FS_EmptySet
    <2>3. QED BY <2>1, <2>2, TicketModAssumption DEF Init, TicketsInLine, Behind
  <1>2. TypeOK /\ TicketsInLine /\ [Next]_vars => TicketsInLine'
    <2> SUFFICES ASSUME TypeOK, TicketsInLine, [Next]_vars PROVE TicketsInLine'
      OBVIOUS
    <2>1. ASSUME NEW t \in Threads, TicketAcquire(t) PROVE TicketsInLine'
      BY <2>1, AcquireInLine
    <2>2. ASSUME NEW t \in Threads, TicketSpin(t) PROVE TicketsInLine'
      <3>1. Active' = Active BY <2>2 DEF TicketSpin, Active, TypeOK
      <3>2. QED BY <2>2, <3>1 DEF TicketSpin, TicketsInLine, Active, TypeOK
    <2>3. ASSUME NEW t \in Threads, TicketRelease(t) PROVE TicketsInLine'
      BY <2>3, ReleaseInLine
    <2>4. CASE UNCHANGED vars
      BY <2>4 DEF vars, TicketsInLine, Active
    <2>5. QED BY <2>1, <2>2, <2>3, <2>4 DEF Next, Step
  <1>3. QED BY <1>1, <1>2, TypeCorrect, PTL DEF Spec

\* No two threads are between TicketAcquire and TicketRelease together.
THEOREM Exclusion == Spec => []MutualExclusion
  <1>1. TicketsInLine => MutualExclusion
    BY DEF TicketsInLine, MutualExclusion, Active
  <1>2. QED BY <1>1, LineCorrect, PTL
-----------------------------------------------------------------------------
\* Drawing a ticket is an arrival behind every thread that is present.
LEMMA AcquireArrives ==
    ASSUME TypeOK, TicketsInLine, NEW t \in Threads, TicketAcquire(t)
    PROVE  Fifo!Arrive(t)
  <1> DEFINE n == Cardinality(Active)
  <1>1. n \in 0 .. TicketMod - 1
    BY AcquireActive, RoomForOne, ActiveFinite, TicketModAssumption
  <1>2. head \in Tickets /\ tail \in Tickets /\ head' = head
    BY DEF TypeOK, TicketAcquire
  <1>3. Offset(head, tail) = n BY <1>1, <1>2, OffsetBehind DEF TicketsInLine
  <1>4. ticket'[t] = tail /\ \A u \in Active : u # t /\ ticket'[u] = ticket[u]
    BY AcquireActive DEF TicketAcquire, TypeOK, Active
  <1>5. \A u \in Active : Offset(head, ticket[u]) \in Tickets /\ Offset(head, ticket[u]) < n
    BY <1>2, OffsetType DEF TicketsInLine, TypeOK, Active
  <1>6. Phase[t] = "idle" /\ Fifo!Present = Active
    BY DEF Phase, Fifo!Present, Active, TicketAcquire, TypeOK
  <1>7. Ahead' = [Ahead EXCEPT ![t] = Active]
    <2>1. Ahead'[t] = Active
      <3>1. ~(n < n) BY <1>1
      <3>2. QED BY <1>2, <1>3, <1>4, <1>5, <3>1, AcquireActive DEF Ahead
    <2>2. \A u \in Threads : u # t => Ahead'[u] = Ahead[u]
      <3> SUFFICES ASSUME NEW u \in Threads, u # t PROVE Ahead'[u] = Ahead[u]
        OBVIOUS
      <3>1. CASE u \notin Active BY <3>1, AcquireActive DEF Ahead
      <3>2. CASE u \in Active
        <4>1. ~(Offset(head', ticket'[t]) < Offset(head', ticket'[u]))
          BY <3>2, <1>1, <1>2, <1>3, <1>4, <1>5 DEF Tickets
        <4>2. QED BY <3>2, <4>1, <1>2, <1>4, AcquireActive DEF Ahead
      <3>3. QED BY <3>1, <3>2
    <2>3. QED BY <2>1, <2>2 DEF Ahead
  <1>8. head = tail <=> Active = {}
    <2>1. head = tail <=> n = 0 BY <1>2, <1>3, OffsetZero
    <2>2. QED BY <2>1, ActiveFinite, FS_EmptySet
  <1>9. Phase' = [Phase EXCEPT ![t] = IF Active = {} THEN "holding" ELSE "waiting"]
    BY <1>8 DEF Phase, TicketAcquire, TypeOK
  <1>10. QED BY <1>6, <1>7, <1>9 DEF Fifo!Arrive

\* Seeing one's ticket at the head is entering with nobody ahead.
LEMMA SpinEnters ==
    ASSUME TypeOK, TicketsInLine, NEW t \in Threads, TicketSpin(t)
    PROVE  Fifo!Enter(t)
  <1>1. Active' = Active /\ head' = head /\ ticket' = ticket
    BY DEF TicketSpin, Active, TypeOK
  <1>2. Ahead' = Ahead BY <1>1 DEF Ahead
  <1>3. Ahead[t] = {}
    <2>1. t \in Active /\ head \in Tickets /\ ticket[t] = head
      BY DEF TicketSpin, TypeOK, Active
    <2>2. Offset(head, ticket[t]) = 0 BY <2>1, OffsetZero
    <2>3. \A u \in Active : Offset(head, ticket[u]) \in Tickets
      BY <2>1, OffsetType DEF TypeOK, Active
    <2>4. \A u \in Active : ~(Offset(head, ticket[u]) < Offset(head, ticket[t]))
      BY <2>2, <2>3 DEF Tickets
    <2>5. QED BY <2>1, <2>4 DEF Ahead
  <1>4. Phase[t] = "waiting" /\ Phase' = [Phase EXCEPT ![t] = "holding"]
    BY DEF Phase, TicketSpin, TypeOK
  <1>5. QED BY <1>2, <1>3, <1>4 DEF Fifo!Enter

\* Advancing the head is leaving, and nobody else changes places.
LEMMA ReleaseLeaves ==
    ASSUME TypeOK, TicketsInLine, NEW t \in Threads, TicketRelease(t)
    PROVE  Fifo!Leave(t)
  <1>1. head \in Tickets /\ head' = Inc(head) /\ t \in Active /\ ticket[t] = head
    BY ReleaseActive DEF TypeOK, TicketRelease, TicketsInLine
  <1>2. \A u \in Active \ {t} :
          /\ Offset(head, ticket[u]) \in Tickets
          /\ Offset(head', ticket'[u]) = Offset(head, ticket[u]) - 1
    <2> SUFFICES ASSUME NEW u \in Active, u # t
                 PROVE  /\ Offset(head, ticket[u]) \in Tickets
                        /\ Offset(head', ticket'[u]) = Offset(head, ticket[u]) - 1
      OBVIOUS
    <2>1. ticket[u] \in Tickets /\ ticket'[u] = ticket[u]
      BY DEF TypeOK, TicketRelease, Active
    <2>2. ticket[u] # head BY <1>1 DEF TicketsInLine
    <2>3. QED BY <1>1, <2>1, <2>2, OffsetType, OffsetServe
  <1>3. Ahead' = [u \in Threads |-> Ahead[u] \ {t}]
    <2> SUFFICES ASSUME NEW u \in Threads PROVE Ahead'[u] = Ahead[u] \ {t}
      BY DEF Ahead
    <2>1. CASE u \notin Active BY <2>1, ReleaseActive DEF Ahead
    <2>2. CASE u = t
      <3>1. Ahead'[u] = {} BY <2>2, ReleaseActive DEF Ahead
      <3>2. Offset(head, ticket[t]) = 0 BY <1>1, OffsetZero
      <3>3. \A v \in Active \ {t} : ~(Offset(head, ticket[v]) < Offset(head, ticket[t]))
        BY <3>2, <1>2 DEF Tickets
      <3>4. Ahead[t] \subseteq {t} BY <1>1, <3>3 DEF Ahead
      <3>5. QED BY <2>2, <3>1, <3>4
    <2>3. CASE u \in Active /\ u # t
      <3>1. \A v \in Active \ {t} : Offset(head', ticket'[v]) < Offset(head', ticket'[u])
                                 <=> Offset(head, ticket[v]) < Offset(head, ticket[u])
        BY <2>3, <1>2 DEF Tickets
      <3>2. Ahead'[u] = {v \in Active \ {t} : Offset(head', ticket'[v]) < Offset(head', ticket'[u])}
        BY <2>3, ReleaseActive DEF Ahead
      <3>3. Ahead[u] = {v \in Active : Offset(head, ticket[v]) < Offset(head, ticket[u])}
        BY <2>3 DEF Ahead
      <3>4. QED BY <3>1, <3>2, <3>3
    <2>4. QED BY <2>1, <2>2, <2>3
  <1>4. Phase[t] = "holding" /\ Phase' = [Phase EXCEPT ![t] = "idle"]
    BY DEF Phase, TicketRelease, TypeOK
  <1>5. QED BY <1>3, <1>4 DEF Fifo!Leave

\* The ticket lock implements the first-come-first-served lock: threads get
\* it in the order of their xadd on the tail.
THEOREM ServesInOrder == Spec => FirstComeFirstServed
  <1>1. Init => Fifo!FifoInit
    BY DEF Init, Fifo!FifoInit, Phase, Ahead, Active
  <1>2. TypeOK /\ TicketsInLine /\ [Next]_vars => [Fifo!FifoNext]_(Fifo!fifoVars)
    <2> SUFFICES ASSUME TypeOK, TicketsInLine, [Next]_vars
                 PROVE  [Fifo!FifoNext]_(Fifo!fifoVars)
      OBVIOUS
    <2>1. ASSUME NEW t \in Threads, TicketAcquire(t) PROVE Fifo!FifoNext
      BY <2>1, AcquireArrives DEF Fifo!FifoNext
    <2>2. ASSUME NEW t \in Threads, TicketSpin(t) PROVE Fifo!FifoNext
      BY <2>2, SpinEnters DEF Fifo!FifoNext
    <2>3. ASSUME NEW t \in Threads, TicketRelease(t) PROVE Fifo!FifoNext
      BY <2>3, ReleaseLeaves DEF Fifo!FifoNext
    <2>4. CASE UNCHANGED vars
      BY <2>4 DEF vars, Fifo!fifoVars, Phase, Ahead, Active
    <2>5. QED BY <2>1, <2>2, <2>3, <2>4 DEF Next, Step
  <1>3. QED
    BY <1>1, <1>2, TypeCorrect, LineCorrect, PTL DEF Spec, FirstComeFirstServed, Fifo!FifoSpec
=============================================================================
