------------------------ MODULE BteCompletionProofs -------------------------
(***************************************************************************)
(* Proofs about BteCompletion, in three layers, each inductive with the    *)
(* ones before it:                                                         *)
(*   IType    types, and where a thread's completion points;               *)
(*   Control  who owns a queue, the lock and the regions; for any client;  *)
(*   Fences   which fence words and descriptors there are; for clients     *)
(*            that know when they are done (Patient).                      *)
(***************************************************************************)
EXTENDS BteCompletion, TLAPS, SequenceTheorems

Outside == {"out", "close"}

\* A thread inside the library has a completion, and from the moment its
\* queue is marked the queue is one of the chip's.
Placed ==
    \A t \in Threads :
        /\ pc[t] \notin Outside => comp[t] \in Comps
        /\ pc[t] \in InUse => comp[t].queue \in Queues

IType == TypeOK /\ Placed

\* Queue 0 exists, and NULL is neither a chip nor a thread (BteAssumption).
LEMMA Consts == 0 \in Queues /\ NQueues \in Nat /\ NULL \notin Chips /\ NULL \notin Threads
  BY BteAssumption DEF Queues

\* A completion is its chip and its queue (struct ncbte_completion).
LEMMA FieldTypes ==
    \A c \in Comps : c.chip \in Chips /\ c.queue \in 0 .. NQueues
                     /\ c = [chip |-> c.chip, queue |-> c.queue]
  BY DEF Comps

\* What ncbte_alloc_completion starts its search with is a completion.
LEMMA NewComp == \A c \in Chips : [chip |-> c, queue |-> 0] \in Comps
  BY Consts DEF Comps

\* So is what _get_available_queue goes on to.
LEMMA NextComp ==
    \A c \in Comps : c.queue # NQueues => [chip |-> c.chip, queue |-> c.queue + 1] \in Comps
  BY Consts DEF Comps

\* A function on 1 .. n is a sequence: Disown keeps queues queues.
LEMMA FunctionIsSeq ==
    ASSUME NEW S, NEW n \in Nat, NEW f \in [1 .. n -> S] PROVE f \in Seq(S)
  BY SeqDef, Zenon

\* Every step keeps the types and the place of every completion.
LEMMA TypeStep == ASSUME IType, [Next]_vars PROVE IType'
  <1> USE DEF InUse, Outside, Placed, IType, TypeOK
  <1>1. ASSUME NEW t \in Threads, AllocCompletion(t) PROVE IType'
    BY <1>1, NewComp DEF AllocCompletion, Goto, CurrentChip
  <1>2. ASSUME NEW t \in Threads, GetAvailableQueue(t) PROVE IType'
    <2>0. comp[t] \in Comps BY <1>2 DEF GetAvailableQueue
    <2>1. CASE comp[t].queue = NQueues
      BY <1>2, <2>1 DEF GetAvailableQueue, Goto
    <2>2. CASE comp[t].queue # NQueues /\ comp[t].queue \in bits[comp[t].chip]
      <3>1. comp' = [comp EXCEPT ![t] = [chip |-> comp[t].chip, queue |-> comp[t].queue + 1]]
        BY <1>2, <2>2 DEF GetAvailableQueue
      <3>2. comp' \in [Threads -> Comps \cup {NoComp}]
        BY <2>0, <2>2, <3>1, NextComp
      <3>3. comp'[t] \in Comps
        BY <2>0, <2>2, <3>1, NextComp
      <3> QED BY <1>2, <2>2, <3>1, <3>2, <3>3 DEF GetAvailableQueue
    <2>3. CASE comp[t].queue # NQueues /\ comp[t].queue \notin bits[comp[t].chip]
      <3>1. comp[t].queue \in Queues BY <2>0, <2>3, Consts, FieldTypes DEF Queues
      <3>2. /\ bits' = [bits EXCEPT ![comp[t].chip] = @ \cup {comp[t].queue}]
            /\ pc' = [pc EXCEPT ![t] = "lock"]
            /\ pc[t] = "scan"
            /\ UNCHANGED <<chip, region, lock, fence, engine, comp, idle, split, open, lost>>
        BY <1>2, <2>3 DEF GetAvailableQueue, Goto
      <3>3. bits' \in [Chips -> SUBSET Queues]
        BY <2>0, <3>1, <3>2, FieldTypes
      <3> QED BY <2>0, <3>1, <3>2, <3>3
    <2> QED BY <2>1, <2>2, <2>3
  <1>3. ASSUME NEW t \in Threads, TakeLock(t) PROVE IType'
    BY <1>3 DEF TakeLock, Goto
  <1>4. ASSUME NEW t \in Threads, FindRegion(t) PROVE IType'
    BY <1>4 DEF FindRegion, Goto
  <1>5. ASSUME NEW t \in Threads, StoreRegion(t) PROVE IType'
    BY <1>5, FieldTypes DEF StoreRegion, Goto, CurrentChip
  <1>6. ASSUME NEW t \in Threads, AllocDone(t) PROVE IType'
    BY <1>6 DEF AllocDone, Goto
  <1>7. ASSUME NEW t \in Threads, AllocFailed(t) PROVE IType'
    BY <1>7, FieldTypes DEF AllocFailed, Goto
  <1>8. ASSUME NEW t \in Threads, TransferMark(t) PROVE IType'
    BY <1>8, FieldTypes DEF TransferMark, Goto
  <1>9. ASSUME NEW t \in Threads, TransferFence(t) PROVE IType'
    <2>1. Fence(t, comp[t]) \in Descriptors BY <1>9 DEF TransferFence, Fence, Descriptors
    <2> QED BY <1>9, <2>1 DEF TransferFence, Goto, Post, CurrentChip
  <1>10. ASSUME NEW t \in Threads, WaitReturns(t) PROVE IType'
    BY <1>10 DEF WaitReturns, Believe, Goto
  <1>11. ASSUME NEW t \in Threads, CloseFailed(t) PROVE IType'
    BY <1>11 DEF CloseFailed, Goto
  <1>12. ASSUME NEW t \in Threads, CloseEnd(t) PROVE IType'
    BY <1>12 DEF CloseEnd, Goto
  <1>13. ASSUME NEW t \in Threads, NEW c \in Chips, CloseRegion(t, c) PROVE IType'
    BY <1>13 DEF CloseRegion
  <1>14. ASSUME NEW t \in Threads, Transfer(t) PROVE IType'
    <2>1. Data(t) \in Descriptors BY DEF Data, Descriptors
    <2>2. engine' \in [Chips -> [Queues -> Seq(Descriptors)]]
      BY <1>14, <2>1 DEF Transfer, Post, CurrentChip
    <2> QED BY <1>14, <2>2 DEF Transfer, Goto
  <1>15. ASSUME NEW t \in Threads, TransferPlain(t) PROVE IType'
    <2>1. Data(NULL) \in Descriptors BY DEF Data, Descriptors
    <2> QED BY <1>15, <2>1, Consts DEF TransferPlain, Post, CurrentChip
  <1>16. ASSUME NEW t \in Threads, WaitCompletion(t) PROVE IType'
    BY <1>16 DEF WaitCompletion, Believe, Goto
  <1>22. ASSUME NEW t \in Threads, PollCompletion(t) PROVE IType'
    BY <1>22 DEF PollCompletion
  <1>17. ASSUME NEW t \in Threads, FreeCompletion(t) PROVE IType'
    <2>1. Disown(t) \in [Chips -> [Queues -> Seq(Descriptors)]]
      <3>1. ASSUME NEW c \in Chips, NEW q \in Queues
            PROVE  [i \in DOMAIN engine[c][q] |->
                      IF engine[c][q][i].of = t THEN Orphan(engine[c][q][i])
                                                ELSE engine[c][q][i]] \in Seq(Descriptors)
        <4>1. engine[c][q] \in Seq(Descriptors) OBVIOUS
        <4>2. \A d \in Descriptors : Orphan(d) \in Descriptors
          BY DEF Descriptors, Orphan
        <4>3. /\ Len(engine[c][q]) \in Nat
              /\ DOMAIN engine[c][q] = 1 .. Len(engine[c][q])
              /\ \A i \in 1 .. Len(engine[c][q]) : engine[c][q][i] \in Descriptors
          BY <4>1
        <4> DEFINE f == [i \in 1 .. Len(engine[c][q]) |->
                          IF engine[c][q][i].of = t THEN Orphan(engine[c][q][i])
                                                    ELSE engine[c][q][i]]
        <4>4. f \in [1 .. Len(engine[c][q]) -> Descriptors]
          BY <4>2, <4>3
        <4>5. f \in Seq(Descriptors)
          <5> HIDE DEF f
          <5> QED BY <4>3, <4>4, FunctionIsSeq
        <4> QED BY <4>3, <4>5
      <3> QED BY <3>1 DEF Disown
    <2> QED BY <1>17, <2>1, FieldTypes DEF FreeCompletion, Goto
  <1>18. ASSUME NEW t \in Threads, CloseBegin(t) PROVE IType'
    BY <1>18 DEF CloseBegin, Goto
  <1>19. ASSUME NEW c \in Chips, NEW q \in Queues, Engine(c, q) PROVE IType'
    <2>1. engine[c][q] \in Seq(Descriptors) /\ engine[c][q] # <<>>
      BY <1>19 DEF Engine
    <2>2. Tail(engine[c][q]) \in Seq(Descriptors) BY <2>1
    <2>3. Head(engine[c][q]) \in Descriptors BY <2>1
    <2> QED BY <1>19, <2>2, <2>3 DEF Engine
  <1>20. ASSUME NEW t \in Threads, NEW c \in Chips, Migrate(t, c) PROVE IType'
    BY <1>20 DEF Migrate
  <1>21. CASE UNCHANGED vars
    BY <1>21 DEF vars
  <1> QED
    BY <1>1, <1>2, <1>3, <1>4, <1>5, <1>6, <1>7, <1>8, <1>9, <1>10, <1>11, <1>12, <1>13, <1>14,
       <1>15, <1>16, <1>17, <1>18, <1>19, <1>20, <1>21, <1>22 DEF Next, Inside, Call

\* Every variable keeps its type: a completion names a queue of its chip, the
\* engines hold descriptors (_get_available_queue stops at the last queue).
THEOREM TypeCorrect == Spec => []TypeOK
  <1>1. Init => IType
    <2> SUFFICES ASSUME Init PROVE IType OBVIOUS
    <2>1. TypeOK BY Consts DEF Init, TypeOK, NoComp
    <2>2. Placed BY DEF Init, Placed, InUse, Outside
    <2> QED BY <2>1, <2>2 DEF IType
  <1>2. IType /\ [Next]_vars => IType' BY TypeStep
  <1>3. IType => TypeOK BY DEF IType
  <1> QED BY <1>1, <1>2, <1>3, PTL DEF Spec
-----------------------------------------------------------------------------
\* The queue of a completion is marked in use.
Owns == \A t \in Threads : pc[t] \in InUse => comp[t].queue \in bits[comp[t].chip]

\* comp_lock is held around the work on the completion regions.
LockHeld ==
    \A t \in Threads : pc[t] \in {"region", "store", "unlock", "fail", "close"} => lock = t

\* ncbte_close runs alone.
ClosesAlone ==
    \A t \in Threads : pc[t] = "close" => ~open /\ \A u \in Threads : u # t => pc[u] = "out"

\* A completion that was handed out has a region; one is stored only where
\* there is none.
RegionThere ==
    \A t \in Threads :
        /\ pc[t] \in {"unlock", "have", "mark", "post", "wait"} => region[comp[t].chip] # NULL
        /\ pc[t] = "store" => region[comp[t].chip] = NULL

\* A transfer under way is not waited for yet.
Busy == \A t \in Threads : pc[t] \in {"mark", "post"} => t \notin idle

\* A thread that does not migrate stays on the chip of its completion.
AtHome == \A t \in Threads \ Migrants : pc[t] \notin Outside => comp[t].chip = chip[t]

Control == /\ IType /\ Owns /\ QueueHasOneOwner /\ NoQueueLeak
           /\ LockHeld /\ ClosesAlone /\ RegionThere /\ Busy /\ AtHome

PcTypes == [Threads -> {"out", "scan", "lock", "region", "store", "unlock", "fail",
                        "have", "mark", "post", "wait", "close"}]

\* The parts of IType that the proofs below use.
LEMMA Types ==
    ASSUME IType
    PROVE  /\ chip \in [Threads -> Chips]
           /\ bits \in [Chips -> SUBSET Queues]
           /\ region \in [Chips -> Chips \cup {NULL}]
           /\ pc \in PcTypes
           /\ comp \in [Threads -> Comps \cup {NoComp}]
           /\ idle \subseteq Threads /\ split \subseteq Threads
           /\ lost \in [Chips -> SUBSET Queues]
           /\ \A t \in Threads : pc[t] \notin Outside =>
                 comp[t].chip \in Chips /\ comp[t] = [chip |-> comp[t].chip, queue |-> comp[t].queue]
  BY FieldTypes DEF IType, TypeOK, Placed, PcTypes

\* Every step keeps Control: allocation, free and close hand queues, lock and
\* regions from one thread to another as they should.
LEMMA ControlStep == ASSUME Control, [Next]_vars PROVE Control'
  <1>0. IType' BY TypeStep DEF Control
  <1>t. IType BY DEF Control
  <1> DEFINE Rest == /\ Owns /\ QueueHasOneOwner /\ NoQueueLeak
                     /\ LockHeld /\ ClosesAlone /\ RegionThere /\ Busy /\ AtHome
  <1>r. Rest BY DEF Control
  <1> SUFFICES Rest' BY <1>0 DEF Control
  <1> USE <1>t, <1>r, Types, Consts
      DEF Owns, QueueHasOneOwner, NoQueueLeak, LockHeld, ClosesAlone, RegionThere, Busy,
          AtHome, InUse, Outside, PcTypes, CurrentChip
  <1>1. ASSUME NEW t \in Threads, AllocCompletion(t) PROVE Rest'
    BY <1>1 DEF AllocCompletion, Goto
  <1>2. ASSUME NEW t \in Threads, GetAvailableQueue(t) PROVE Rest'
    BY <1>2 DEF GetAvailableQueue, Goto
  <1>3. ASSUME NEW t \in Threads, TakeLock(t) PROVE Rest'
    BY <1>3 DEF TakeLock, Goto
  <1>4. ASSUME NEW t \in Threads, FindRegion(t) PROVE Rest'
    BY <1>4 DEF FindRegion, Goto
  <1>5. ASSUME NEW t \in Threads, StoreRegion(t) PROVE Rest'
    BY <1>5 DEF StoreRegion, Goto
  <1>6. ASSUME NEW t \in Threads, AllocDone(t) PROVE Rest'
    BY <1>6 DEF AllocDone, Goto
  <1>7. ASSUME NEW t \in Threads, AllocFailed(t) PROVE Rest'
    BY <1>7 DEF AllocFailed, Goto
  <1>8. ASSUME NEW t \in Threads, TransferMark(t) PROVE Rest'
    BY <1>8 DEF TransferMark, Goto
  <1>9. ASSUME NEW t \in Threads, TransferFence(t) PROVE Rest'
    BY <1>9 DEF TransferFence, Goto
  <1>10. ASSUME NEW t \in Threads, WaitReturns(t) PROVE Rest'
    BY <1>10 DEF WaitReturns, Believe, Goto
  <1>11. ASSUME NEW t \in Threads, CloseFailed(t) PROVE Rest'
    BY <1>11 DEF CloseFailed, Goto
  <1>12. ASSUME NEW t \in Threads, CloseEnd(t) PROVE Rest'
    BY <1>12 DEF CloseEnd, Goto
  <1>13. ASSUME NEW t \in Threads, NEW c \in Chips, CloseRegion(t, c) PROVE Rest'
    BY <1>13 DEF CloseRegion
  <1>14. ASSUME NEW t \in Threads, Transfer(t) PROVE Rest'
    BY <1>14 DEF Transfer, Goto
  <1>15. ASSUME NEW t \in Threads, TransferPlain(t) PROVE Rest'
    BY <1>15 DEF TransferPlain
  <1>16. ASSUME NEW t \in Threads, WaitCompletion(t) PROVE Rest'
    BY <1>16 DEF WaitCompletion, Believe, Goto
  <1>22. ASSUME NEW t \in Threads, PollCompletion(t) PROVE Rest'
    BY <1>22 DEF PollCompletion
  <1>17. ASSUME NEW t \in Threads, FreeCompletion(t) PROVE Rest'
    BY <1>17 DEF FreeCompletion, Goto
  <1>18. ASSUME NEW t \in Threads, CloseBegin(t) PROVE Rest'
    BY <1>18 DEF CloseBegin, Goto
  <1>19. ASSUME NEW c \in Chips, NEW q \in Queues, Engine(c, q) PROVE Rest'
    BY <1>19 DEF Engine
  <1>20. ASSUME NEW t \in Threads, NEW c \in Chips, Migrate(t, c) PROVE Rest'
    BY <1>20 DEF Migrate
  <1>21. CASE UNCHANGED vars
    BY <1>21 DEF vars
  <1> HIDE DEF Rest
  <1> QED
    BY <1>1, <1>2, <1>3, <1>4, <1>5, <1>6, <1>7, <1>8, <1>9, <1>10, <1>11, <1>12, <1>13, <1>14,
       <1>15, <1>16, <1>17, <1>18, <1>19, <1>20, <1>21, <1>22 DEF Next, Inside, Call

\* ncbte_open establishes Control.
LEMMA ControlInit == Init => Control
  <1> SUFFICES ASSUME Init PROVE Control OBVIOUS
  <1>1. TypeOK BY Consts DEF Init, TypeOK, NoComp
  <1>2. Placed BY DEF Init, Placed, InUse, Outside
  <1> QED
    BY <1>1, <1>2
    DEF Init, Control, IType, Owns, QueueHasOneOwner, NoQueueLeak, LockHeld, ClosesAlone,
        RegionThere, Busy, AtHome, InUse, Outside

\* Whatever the clients do, a hardware queue and its fence word have one owner.
THEOREM OneOwner == Spec => []QueueHasOneOwner
  <1>1. Control => QueueHasOneOwner BY DEF Control
  <1> QED BY <1>1, ControlInit, ControlStep, PTL DEF Spec

\* The only path that loses a queue is an allocation that fails.
THEOREM NoLeak == Spec => []NoQueueLeak
  <1>1. Control => NoQueueLeak BY DEF Control
  <1> QED BY <1>1, ControlInit, ControlStep, PTL DEF Spec

\* A region, once there, stays until ncbte_close: ncbte_alloc_completion
\* stores one only where it found none, and no other thread has the lock then.
THEOREM RegionsStay == Spec => RegionStays
  <1> DEFINE Stays == \A c \in Chips : region[c] # NULL /\ open => region'[c] = region[c]
  <1>1. ASSUME Control, [Next]_vars PROVE [Stays]_vars
    <2> SUFFICES ASSUME Next PROVE Stays BY <1>1
    <2>0. /\ region \in [Chips -> Chips \cup {NULL}]
          /\ \A t \in Threads : pc[t] = "store" => region[comp[t].chip] = NULL
          /\ \A t \in Threads : pc[t] = "close" => ~open
      BY <1>1, Types DEF Control, RegionThere, ClosesAlone
    <2>1. ASSUME NEW t \in Threads, StoreRegion(t) PROVE Stays
      BY <2>0, <2>1 DEF StoreRegion
    <2>2. ASSUME NEW t \in Threads, NEW c \in Chips, CloseRegion(t, c) PROVE Stays
      BY <2>0, <2>2 DEF CloseRegion
    <2>3. CASE UNCHANGED region BY <2>3
    <2> HIDE DEF Stays
    <2> QED
      BY <2>1, <2>2, <2>3
      DEF Next, Inside, Call, Engine, Migrate, GetAvailableQueue, TakeLock, FindRegion,
          AllocDone, AllocFailed, TransferMark, TransferFence, WaitReturns, CloseFailed,
          CloseEnd, AllocCompletion, Transfer, TransferPlain, PollCompletion, WaitCompletion,
          FreeCompletion, CloseBegin
  <1>2. Control /\ [Next]_vars => [Stays]_vars BY <1>1
  <1> QED BY <1>2, ControlInit, ControlStep, PTL DEF Spec, RegionStays
-----------------------------------------------------------------------------
Live == {"have", "wait"}
UnderWay == {"mark", "post", "have", "wait"}

\* The thread's fence word is set.
Set(t) == comp[t].queue \in fence[comp[t].chip]

\* The fence word is set before the fence descriptor is queued.
Marked == \A t \in Threads : pc[t] = "post" => Set(t)

Signals(c, q, i, t) == engine[c][q][i].kind = "fence" /\ engine[c][q][i].of = t

\* A thread with a fence descriptor in flight: its transfer is under way and
\* the word is set.
InTransfer(t) == t \in Threads /\ pc[t] \in Live /\ t \notin idle /\ Set(t)

\* A fence descriptor is that of a thread whose transfer is under way and
\* addresses that thread's fence word.
FenceOwned ==
    \A c \in Chips, q \in Queues : \A i \in DOMAIN engine[c][q] :
        engine[c][q][i].kind = "fence" =>
            /\ InTransfer(engine[c][q][i].of)
            /\ engine[c][q][i].at = comp[engine[c][q][i].of]

\* A thread has at most one fence descriptor in all the queues.
OneFence ==
    \A c, e \in Chips, q, r \in Queues :
        \A i \in DOMAIN engine[c][q], j \in DOMAIN engine[e][r] : \A t \in Threads :
            Signals(c, q, i, t) /\ Signals(e, r, j, t) => c = e /\ q = r /\ i = j

\* A fence descriptor of the thread is in some queue.
Pending(t) ==
    \E c \in Chips, q \in Queues : \E i \in DOMAIN engine[c][q] : Signals(c, q, i, t)

\* A fence word is set only while its owner is about to queue, or has queued,
\* the descriptor that clears it.
Keeps(t) == t \notin idle /\ (pc[t] = "post" \/ (pc[t] \in Live /\ Pending(t)))

SetIsOwned ==
    \A c \in Chips, q \in Queues : q \in fence[c] =>
        \E t \in Threads : comp[t] = [chip |-> c, queue |-> q] /\ Keeps(t)

\* Behind position i of a queue there is a fence descriptor of the thread.
Follows(c, q, i, t) == \E j \in DOMAIN engine[c][q] : j > i /\ Signals(c, q, j, t)

\* The thread has a transfer under way on queue q, and while it is still
\* queueing it does so on chip c.
Moving(t, c, q) ==
    /\ pc[t] \in UnderWay /\ t \notin idle /\ comp[t].queue = q
    /\ pc[t] \in {"mark", "post"} => chip[t] = c

Carries(c, q, i, t) == engine[c][q][i].kind = "data" /\ engine[c][q][i].of = t

\* The data of a thread that was not moved in the middle of a transfer is, on
\* whichever chip, in the queue of its completion, before its fence descriptor.
InOrder ==
    \A t \in Threads \ split, c \in Chips, q \in Queues : \A i \in DOMAIN engine[c][q] :
        Carries(c, q, i, t) =>
            Moving(t, c, q) /\ (pc[t] \in Live => Follows(c, q, i, t))

Fences == Marked /\ FenceOwned /\ OneFence /\ SetIsOwned /\ InOrder

\* What is in one queue.
LEMMA QueueTypes ==
    ASSUME IType, NEW c \in Chips, NEW q \in Queues
    PROVE  /\ engine[c][q] \in Seq(Descriptors)
           /\ Len(engine[c][q]) \in Nat
           /\ DOMAIN engine[c][q] = 1 .. Len(engine[c][q])
           /\ \A i \in DOMAIN engine[c][q] : engine[c][q][i] \in Descriptors
  <1>1. engine[c][q] \in Seq(Descriptors) BY DEF IType, TypeOK
  <1> QED BY <1>1

\* Steps that leave the engines alone and do not disturb a transfer under way.
LEMMA StillStep ==
    ASSUME Fences, UNCHANGED engine, split \subseteq split',
           \A t \in Threads \ split' : pc[t] \in {"mark", "post"} => chip'[t] = chip[t],
           \A t \in Threads : pc[t] \in UnderWay /\ t \notin idle =>
              /\ comp'[t] = comp[t] /\ (Set(t) => Set(t)')
              /\ \/ pc'[t] = pc[t] /\ t \notin idle'
                 \/ pc[t] = "mark" /\ pc'[t] = "post" /\ t \notin idle'
                 \/ pc[t] \in Live /\ pc'[t] \in Live /\ (t \notin idle' \/ ~Set(t)),
           \A t \in Threads : pc'[t] = "post" => Set(t)',
           \A c \in Chips : \A q \in fence'[c] :
              \/ q \in fence[c]
              \/ \E t \in Threads : /\ comp'[t] = [chip |-> c, queue |-> q]
                                    /\ t \notin idle' /\ pc'[t] = "post"
    PROVE  Fences'
  <1>0. \A t \in Threads : Pending(t)' <=> Pending(t)
    BY DEF Pending, Signals
  <1>1. Marked' BY DEF Marked
  <1>2. ASSUME NEW t, InTransfer(t) PROVE InTransfer(t)' /\ comp'[t] = comp[t]
    BY <1>2 DEF InTransfer, Live, UnderWay
  <1>3. FenceOwned'
    BY <1>2 DEF Fences, FenceOwned
  <1>4. OneFence'
    BY DEF Fences, OneFence, Signals
  <1>5. SetIsOwned'
    <2>1. ASSUME NEW t \in Threads, Keeps(t), Set(t) PROVE Keeps(t)' /\ comp'[t] = comp[t]
      BY <1>0, <2>1 DEF Keeps, Live, UnderWay
    <2>2. ASSUME NEW c \in Chips, NEW q \in Queues, q \in fence'[c]
          PROVE  \E t \in Threads : comp'[t] = [chip |-> c, queue |-> q] /\ Keeps(t)'
      <3>1. CASE q \in fence[c]
        <4>1. PICK t \in Threads : comp[t] = [chip |-> c, queue |-> q] /\ Keeps(t)
          BY <3>1 DEF Fences, SetIsOwned
        <4>2. Set(t) BY <3>1, <4>1 DEF Set
        <4> QED BY <2>1, <4>1, <4>2
      <3>2. CASE q \notin fence[c]
        BY <2>2, <3>2 DEF Keeps
      <3> QED BY <3>1, <3>2
    <2> QED BY <2>2 DEF SetIsOwned
  <1>6. InOrder'
    <2>1. ASSUME NEW t \in Threads \ split', NEW c \in Chips, NEW q \in Queues,
                 NEW i \in DOMAIN engine'[c][q], Carries(c, q, i, t)'
          PROVE  Moving(t, c, q)' /\ (pc'[t] \in Live => Follows(c, q, i, t)')
      <3>2. Moving(t, c, q) /\ (pc[t] \in Live => Follows(c, q, i, t))
        BY <2>1 DEF Fences, InOrder, Carries
      <3>3. pc[t] \in Live => Set(t)
        <4>1. SUFFICES ASSUME pc[t] \in Live PROVE Set(t) OBVIOUS
        <4>2. PICK j \in DOMAIN engine[c][q] : Signals(c, q, j, t)
          BY <3>2, <4>1 DEF Follows
        <4> QED BY <4>2 DEF Fences, FenceOwned, Signals, InTransfer
      <3>4. Follows(c, q, i, t)' <=> Follows(c, q, i, t)
        BY DEF Follows, Signals
      <3>5. Moving(t, c, q)' /\ (pc'[t] \in Live => pc[t] \in Live)
        BY <3>2, <3>3 DEF Moving, Live, UnderWay
      <3> QED BY <3>2, <3>4, <3>5
    <2> QED BY <2>1 DEF InOrder
  <1> QED BY <1>1, <1>3, <1>4, <1>5, <1>6 DEF Fences

\* A new region is cleared; it has no fence word in use, since the chip of a
\* transfer under way has a region already.
LEMMA StoreRegionKeeps ==
    ASSUME Control, Fences, NEW t \in Threads, StoreRegion(t)
    PROVE  Fences'
  <1>1. IType /\ RegionThere /\ Busy /\ Marked BY DEF Control, Fences
  <1>2. /\ fence \in [Chips -> SUBSET Queues] /\ pc \in PcTypes
        /\ \A u \in Threads : pc[u] \in UnderWay => comp[u].chip \in Chips
        /\ comp[t].chip \in Chips
    BY <1>1, Types DEF IType, TypeOK, UnderWay, Outside, StoreRegion
  <1>3. /\ fence' = [fence EXCEPT ![comp[t].chip] = {}]
        /\ pc' = [pc EXCEPT ![t] = "unlock"]
        /\ UNCHANGED <<chip, engine, comp, idle, split>>
        /\ pc[t] = "store"
    BY DEF StoreRegion, Goto
  <1>4. \A c \in Chips : fence'[c] \subseteq fence[c]
    BY <1>2, <1>3
  <1>5. ASSUME NEW u \in Threads, pc[u] \in UnderWay
        PROVE  comp'[u] = comp[u] /\ pc'[u] = pc[u] /\ (Set(u) => Set(u)')
    <2>1. comp[u].chip # comp[t].chip
      BY <1>1, <1>3, <1>5 DEF RegionThere, UnderWay
    <2>2. fence'[comp[u].chip] = fence[comp[u].chip]
      BY <1>2, <1>3, <1>5, <2>1
    <2>3. u # t BY <1>3, <1>5 DEF UnderWay
    <2> QED BY <1>2, <1>3, <2>2, <2>3 DEF Set, PcTypes
  <1>6. \A u \in Threads : pc'[u] = "post" => pc[u] = "post"
    BY <1>2, <1>3 DEF PcTypes
  <1>7. \A u \in Threads : pc'[u] = "post" => Set(u)'
    BY <1>1, <1>5, <1>6 DEF Marked, UnderWay
  <1> QED BY <1>3, <1>4, <1>5, <1>7, StillStep

\* ncbte_transfer_region sets the fence word of the completion.
LEMMA TransferMarkKeeps ==
    ASSUME Control, Fences, NEW t \in Threads, TransferMark(t)
    PROVE  Fences'
  <1>1. IType /\ Busy /\ Marked BY DEF Control, Fences
  <1>2. /\ fence \in [Chips -> SUBSET Queues] /\ pc \in PcTypes
        /\ comp[t].chip \in Chips /\ comp[t] = [chip |-> comp[t].chip, queue |-> comp[t].queue]
        /\ \A u \in Threads : pc[u] \in UnderWay => comp[u].chip \in Chips
    BY <1>1, Types DEF IType, TypeOK, UnderWay, Outside, TransferMark
  <1>3. /\ fence' = [fence EXCEPT ![comp[t].chip] = @ \cup {comp[t].queue}]
        /\ pc' = [pc EXCEPT ![t] = "post"]
        /\ UNCHANGED <<chip, engine, comp, idle, split>>
        /\ pc[t] = "mark" /\ t \notin idle
    BY <1>1 DEF TransferMark, Goto, Busy
  <1>4. \A c \in Chips : \A q \in fence'[c] :
          q \in fence[c] \/ (c = comp[t].chip /\ q = comp[t].queue)
    BY <1>2, <1>3
  <1>5. \A c \in Chips : fence[c] \subseteq fence'[c]
    BY <1>2, <1>3
  <1>6. \A u \in Threads : pc[u] \in UnderWay => (Set(u) => Set(u)')
    BY <1>2, <1>3, <1>5 DEF Set
  <1>7. pc'[t] = "post" /\ Set(t)' BY <1>2, <1>3 DEF Set, PcTypes
  <1>8. \A u \in Threads : u # t => pc'[u] = pc[u]
    BY <1>2, <1>3 DEF PcTypes
  <1>9. \A u \in Threads : pc'[u] = "post" => Set(u)'
    BY <1>1, <1>6, <1>7, <1>8 DEF Marked, UnderWay
  <1>10. \A c \in Chips : \A q \in fence'[c] :
            \/ q \in fence[c]
            \/ \E u \in Threads : /\ comp'[u] = [chip |-> c, queue |-> q]
                                  /\ u \notin idle' /\ pc'[u] = "post"
    BY <1>2, <1>3, <1>4, <1>7
  <1>11. \A u \in Threads : pc[u] \in UnderWay /\ u \notin idle =>
            /\ comp'[u] = comp[u] /\ (Set(u) => Set(u)')
            /\ \/ pc'[u] = pc[u] /\ u \notin idle'
               \/ pc[u] = "mark" /\ pc'[u] = "post" /\ u \notin idle'
               \/ pc[u] \in Live /\ pc'[u] \in Live /\ (u \notin idle' \/ ~Set(u))
    BY <1>3, <1>6, <1>7, <1>8
  <1> QED BY <1>3, <1>9, <1>10, <1>11, StillStep

\* What a store to the engine adds.
LEMMA PostFacts ==
    ASSUME IType, NEW t \in Threads, NEW r \in Queues, NEW d \in Descriptors, Post(t, r, d)
    PROVE  /\ chip[t] \in Chips
           /\ \A c \in Chips, q \in Queues : \A i \in DOMAIN engine[c][q] :
                 i \in DOMAIN engine'[c][q] /\ engine'[c][q][i] = engine[c][q][i]
           /\ \A c \in Chips, q \in Queues : \A i \in DOMAIN engine'[c][q] :
                 \/ i \in DOMAIN engine[c][q] /\ engine'[c][q][i] = engine[c][q][i]
                 \/ c = chip[t] /\ q = r /\ i = Len(engine[c][q]) + 1 /\ engine'[c][q][i] = d
           /\ Len(engine[chip[t]][r]) + 1 \in DOMAIN engine'[chip[t]][r]
           /\ engine'[chip[t]][r][Len(engine[chip[t]][r]) + 1] = d
           /\ \A i \in DOMAIN engine[chip[t]][r] : Len(engine[chip[t]][r]) + 1 > i
  <1>1. chip[t] \in Chips /\ engine \in [Chips -> [Queues -> Seq(Descriptors)]]
    BY DEF IType, TypeOK
  <1>2. engine' = [engine EXCEPT ![chip[t]][r] = Append(@, d)]
    BY DEF Post, CurrentChip
  <1>3. engine'[chip[t]][r] = Append(engine[chip[t]][r], d)
    BY <1>1, <1>2
  <1>4. \A c \in Chips, q \in Queues :
          c # chip[t] \/ q # r => engine'[c][q] = engine[c][q]
    BY <1>1, <1>2
  <1>5. ASSUME NEW e \in Seq(Descriptors)
        PROVE  /\ \A i \in DOMAIN e : i \in DOMAIN Append(e, d) /\ Append(e, d)[i] = e[i]
               /\ \A i \in DOMAIN Append(e, d) : i \in DOMAIN e \/ i = Len(e) + 1
               /\ Len(e) + 1 \in DOMAIN Append(e, d)
               /\ Append(e, d)[Len(e) + 1] = d
               /\ \A i \in DOMAIN e : Len(e) + 1 > i
    OBVIOUS
  <1>6. engine[chip[t]][r] \in Seq(Descriptors) BY <1>1
  <1>7. /\ \A i \in DOMAIN engine[chip[t]][r] :
              /\ i \in DOMAIN engine'[chip[t]][r]
              /\ engine'[chip[t]][r][i] = engine[chip[t]][r][i]
        /\ \A i \in DOMAIN engine'[chip[t]][r] :
              i \in DOMAIN engine[chip[t]][r] \/ i = Len(engine[chip[t]][r]) + 1
        /\ Len(engine[chip[t]][r]) + 1 \in DOMAIN engine'[chip[t]][r]
        /\ engine'[chip[t]][r][Len(engine[chip[t]][r]) + 1] = d
        /\ \A i \in DOMAIN engine[chip[t]][r] : Len(engine[chip[t]][r]) + 1 > i
    BY <1>3, <1>5, <1>6
  <1>8. ASSUME NEW c \in Chips, NEW q \in Queues, NEW i \in DOMAIN engine[c][q]
        PROVE  i \in DOMAIN engine'[c][q] /\ engine'[c][q][i] = engine[c][q][i]
    <2>1. CASE c = chip[t] /\ q = r BY <2>1, <1>7, Zenon
    <2>2. CASE c # chip[t] \/ q # r
      <3>1. engine'[c][q] = engine[c][q] BY <2>2, <1>4
      <3> QED BY <3>1, Zenon
    <2> QED BY <2>1, <2>2
  <1>9. ASSUME NEW c \in Chips, NEW q \in Queues, NEW i \in DOMAIN engine'[c][q]
        PROVE  \/ i \in DOMAIN engine[c][q] /\ engine'[c][q][i] = engine[c][q][i]
               \/ c = chip[t] /\ q = r /\ i = Len(engine[c][q]) + 1 /\ engine'[c][q][i] = d
    <2>1. CASE c = chip[t] /\ q = r BY <2>1, <1>7, Zenon
    <2>2. CASE c # chip[t] \/ q # r
      <3>1. engine'[c][q] = engine[c][q] BY <2>2, <1>4
      <3> QED BY <3>1, Zenon
    <2> QED BY <2>1, <2>2
  <1> QED BY <1>1, <1>7, <1>8, <1>9

\* A data descriptor joins a queue: that of a thread at the start of its
\* transfer, or of nobody.
LEMMA DataKeeps ==
    ASSUME Control, Fences, NEW t \in Threads, NEW r \in Queues, NEW d \in Descriptors,
           Post(t, r, d), d.kind = "data", UNCHANGED <<chip, fence, comp, split>>,
           \A u \in Threads : pc[u] \in UnderWay /\ u \notin idle =>
              pc'[u] = pc[u] /\ u \notin idle',
           \A u \in Threads : pc'[u] = "post" => pc[u] = "post",
           d.of \in Threads =>
              /\ comp[d.of].queue = r /\ chip[d.of] = chip[t]
              /\ pc'[d.of] = "mark" /\ d.of \notin idle'
    PROVE  Fences'
  <1>1. IType BY DEF Control
  <1>2. /\ \A c \in Chips, q \in Queues : \A i \in DOMAIN engine[c][q] :
              i \in DOMAIN engine'[c][q] /\ engine'[c][q][i] = engine[c][q][i]
        /\ \A c \in Chips, q \in Queues : \A i \in DOMAIN engine'[c][q] :
              \/ i \in DOMAIN engine[c][q] /\ engine'[c][q][i] = engine[c][q][i]
              \/ c = chip[t] /\ q = r /\ engine'[c][q][i] = d
    BY <1>1, PostFacts
  <1>3. Marked' BY DEF Fences, Marked, Set
  <1>4. ASSUME NEW u, InTransfer(u) PROVE InTransfer(u)'
    BY <1>4 DEF InTransfer, Set, Live, UnderWay
  <1>5. FenceOwned' BY <1>2, <1>4 DEF Fences, FenceOwned
  <1>6. OneFence' BY <1>2 DEF Fences, OneFence, Signals
  <1>7. ASSUME NEW u \in Threads, Keeps(u) PROVE Keeps(u)'
    <2>1. Pending(u) => Pending(u)' BY <1>2 DEF Pending, Signals
    <2> QED BY <1>7, <2>1 DEF Keeps, Live, UnderWay
  <1>8. SetIsOwned' BY <1>7 DEF Fences, SetIsOwned
  <1>9. ASSUME NEW u \in Threads \ split', NEW c \in Chips, NEW q \in Queues,
               NEW i \in DOMAIN engine'[c][q], Carries(c, q, i, u)'
        PROVE  Moving(u, c, q)' /\ (pc'[u] \in Live => Follows(c, q, i, u)')
    <2>1. CASE i \in DOMAIN engine[c][q] /\ engine'[c][q][i] = engine[c][q][i]
      <3>1. Moving(u, c, q) /\ (pc[u] \in Live => Follows(c, q, i, u))
        BY <1>9, <2>1 DEF Fences, InOrder, Carries
      <3>2. Follows(c, q, i, u) => Follows(c, q, i, u)'
        BY <1>2 DEF Follows, Signals
      <3>3. pc'[u] = pc[u] /\ Moving(u, c, q)'
        BY <3>1 DEF Moving, UnderWay
      <3> QED BY <3>1, <3>2, <3>3
    <2>2. CASE c = chip[t] /\ q = r /\ engine'[c][q][i] = d
      <3>1. d.of = u BY <1>9, <2>2 DEF Carries
      <3> QED BY <2>2, <3>1 DEF Moving, Live, UnderWay
    <2> QED BY <1>2, <2>1, <2>2
  <1>10. InOrder' BY <1>9 DEF InOrder
  <1> QED BY <1>3, <1>5, <1>6, <1>8, <1>10 DEF Fences

\* The client keeps one transfer of a completion in flight, frees the completion
\* only when it thinks that is done, and does not trust ncbte_wait_completion
\* in a thread that may be moved to another chip.
Patient == OneInFlight /\ WaitBeforeFree /\ TrustsWait \cap Migrants = {}

\* ncbte_transfer_region queues data; the completion was waited for.
LEMMA TransferKeeps ==
    ASSUME Patient, Control, Fences, NEW t \in Threads, Transfer(t)
    PROVE  Fences'
  <1>1. IType BY DEF Control
  <1>2. /\ pc[t] = "have" /\ t \in idle
        /\ Post(t, comp[t].queue, Data(t))
        /\ idle' = idle \ {t}
        /\ pc' = [pc EXCEPT ![t] = "mark"]
        /\ UNCHANGED <<chip, fence, comp, split>>
    BY DEF Transfer, Goto, Patient
  <1>3. comp[t].queue \in Queues /\ Data(t) \in Descriptors
    BY <1>1, <1>2 DEF IType, Placed, InUse, Data, Descriptors
  <1>4. Data(t).kind = "data" /\ Data(t).of = t BY DEF Data
  <1>5. pc \in PcTypes /\ pc'[t] = "mark" /\ \A u \in Threads : u # t => pc'[u] = pc[u]
    BY <1>1, <1>2, Types DEF PcTypes
  <1>7. \A u \in Threads : pc[u] \in UnderWay /\ u \notin idle => pc'[u] = pc[u] /\ u \notin idle'
    BY <1>2, <1>5
  <1>8. \A u \in Threads : pc'[u] = "post" => pc[u] = "post"
    BY <1>5
  <1> HIDE DEF Data
  <1> QED BY <1>2, <1>3, <1>4, <1>5, <1>7, <1>8, DataKeeps

\* A transfer without a completion.
LEMMA TransferPlainKeeps ==
    ASSUME Control, Fences, NEW t \in Threads, TransferPlain(t)
    PROVE  Fences'
  <1>1. Post(t, 0, Data(NULL)) /\ UNCHANGED <<chip, fence, comp, pc, idle, split>>
    BY DEF TransferPlain
  <1>2. Data(NULL) \in Descriptors /\ Data(NULL).kind = "data" /\ Data(NULL).of = NULL
    BY DEF Data, Descriptors
  <1> QED BY <1>1, <1>2, Consts, DataKeeps

\* ncbte_transfer_region queues the fence descriptor, behind the data.
LEMMA TransferFenceKeeps ==
    ASSUME Control, Fences, NEW t \in Threads, TransferFence(t)
    PROVE  Fences'
  <1>1. IType /\ Busy BY DEF Control
  <1>2. /\ pc[t] = "post" /\ t \notin idle /\ Set(t)
        /\ Post(t, comp[t].queue, Fence(t, comp[t]))
        /\ pc' = [pc EXCEPT ![t] = "have"]
        /\ UNCHANGED <<chip, fence, comp, idle, split>>
    BY <1>1 DEF TransferFence, Goto, Busy, Fences, Marked
  <1>3. comp[t].queue \in Queues /\ Fence(t, comp[t]) \in Descriptors
    <2>1. comp[t] \in Comps /\ comp[t].queue \in Queues
      BY <1>1, <1>2 DEF IType, Placed, InUse, Outside
    <2> QED BY <2>1 DEF Fence, Descriptors
  <1>4. /\ Fence(t, comp[t]).kind = "fence" /\ Fence(t, comp[t]).of = t
        /\ Fence(t, comp[t]).at = comp[t]
    BY DEF Fence
  <1>5. pc \in PcTypes /\ pc'[t] = "have" /\ \A u \in Threads : u # t => pc'[u] = pc[u]
    BY <1>1, <1>2, Types DEF PcTypes
  <1>d. PICK r \in Queues, d \in Descriptors : r = comp[t].queue /\ d = Fence(t, comp[t])
    BY <1>3
  <1>n. PICK n : n = Len(engine[chip[t]][r]) + 1 OBVIOUS
  <1>6. /\ \A c \in Chips, q \in Queues : \A i \in DOMAIN engine[c][q] :
              i \in DOMAIN engine'[c][q] /\ engine'[c][q][i] = engine[c][q][i]
        /\ \A c \in Chips, q \in Queues : \A i \in DOMAIN engine'[c][q] :
              \/ i \in DOMAIN engine[c][q] /\ engine'[c][q][i] = engine[c][q][i]
              \/ c = chip[t] /\ q = r /\ i = n /\ engine'[c][q][i] = d
        /\ chip[t] \in Chips
        /\ n \in DOMAIN engine'[chip[t]][r]
        /\ engine'[chip[t]][r][n] = d
        /\ \A i \in DOMAIN engine[chip[t]][r] : n > i
    <2>1. Post(t, r, d) BY <1>2, <1>d
    <2> QED BY <1>1, <2>1, <1>n, PostFacts
  <1>7. d.kind = "fence" /\ d.of = t /\ d.at = comp[t] BY <1>4, <1>d
  <1>8. Marked' BY <1>2, <1>5 DEF Fences, Marked, Set
  <1>9. InTransfer(t)'
    BY <1>2, <1>5 DEF InTransfer, Set, Live
  <1>10. ASSUME NEW u, InTransfer(u) PROVE InTransfer(u)' /\ u # t
    BY <1>10, <1>2, <1>5 DEF InTransfer, Set, Live
  <1>11. FenceOwned'
    BY <1>2, <1>6, <1>7, <1>9, <1>10 DEF Fences, FenceOwned
  <1>12. ASSUME NEW c \in Chips, NEW q \in Queues, NEW i \in DOMAIN engine'[c][q],
                NEW u \in Threads, Signals(c, q, i, u)'
         PROVE  \/ u # t /\ i \in DOMAIN engine[c][q] /\ Signals(c, q, i, u)
                \/ u = t /\ c = chip[t] /\ q = r /\ i = n
    <2>1. CASE i \in DOMAIN engine[c][q] /\ engine'[c][q][i] = engine[c][q][i]
      <3>1. Signals(c, q, i, u) BY <1>12, <2>1 DEF Signals
      <3>2. u # t BY <2>1, <3>1, <1>10 DEF Fences, FenceOwned, Signals
      <3> QED BY <2>1, <3>1, <3>2
    <2>2. CASE c = chip[t] /\ q = r /\ i = n /\ engine'[c][q][i] = d
      BY <1>12, <1>7, <2>2 DEF Signals
    <2> QED BY <1>6, <2>1, <2>2
  <1>13. OneFence'
    BY <1>12 DEF Fences, OneFence
  <1>14. ASSUME NEW u \in Threads, Keeps(u) PROVE Keeps(u)'
    <2>1. Pending(u) => Pending(u)' BY <1>6 DEF Pending, Signals
    <2>2. Pending(t)' BY <1>3, <1>6, <1>7 DEF Pending, Signals
    <2> QED BY <1>2, <1>5, <1>14, <2>1, <2>2 DEF Keeps, Live
  <1>15. SetIsOwned' BY <1>2, <1>14 DEF Fences, SetIsOwned
  <1>16. ASSUME NEW u \in Threads \ split', NEW c \in Chips, NEW q \in Queues,
                NEW i \in DOMAIN engine'[c][q], Carries(c, q, i, u)'
         PROVE  Moving(u, c, q)' /\ (pc'[u] \in Live => Follows(c, q, i, u)')
    <2>1. i \in DOMAIN engine[c][q] /\ engine'[c][q][i] = engine[c][q][i]
      BY <1>6, <1>7, <1>16 DEF Carries
    <2>2. Moving(u, c, q) /\ (pc[u] \in Live => Follows(c, q, i, u))
      BY <1>2, <1>16, <2>1 DEF Fences, InOrder, Carries
    <2>3. Moving(u, c, q)' BY <1>2, <1>5, <2>2 DEF Moving, UnderWay
    <2>4. CASE u # t
      <3>1. Follows(c, q, i, u) => Follows(c, q, i, u)'
        BY <1>6 DEF Follows, Signals
      <3> QED BY <1>5, <2>2, <2>3, <2>4, <3>1
    <2>5. CASE u = t
      <3>2. c = chip[t] /\ q = r
        BY <1>2, <1>d, <2>2, <2>5 DEF Moving
      <3>3. n \in DOMAIN engine'[c][q] /\ n > i /\ Signals(c, q, n, u)'
        BY <1>6, <1>7, <2>1, <2>5, <3>2 DEF Signals
      <3> QED BY <2>3, <3>3 DEF Follows
    <2> QED BY <2>4, <2>5
  <1>17. InOrder' BY <1>16 DEF InOrder
  <1> QED BY <1>8, <1>11, <1>13, <1>15, <1>17 DEF Fences

\* A completion that is freed after a wait has no fence descriptor, so all of
\* them stay the owner's.
LEMMA FreeKeeps ==
    ASSUME Patient, Control, Fences, NEW t \in Threads, FreeCompletion(t)
    PROVE  Fences'
  <1>1. IType BY DEF Control
  <1>2. /\ pc[t] = "have" /\ t \in idle
        /\ pc' = [pc EXCEPT ![t] = "out"]
        /\ comp' = [comp EXCEPT ![t] = NoComp]
        /\ UNCHANGED <<chip, fence, idle>>
        /\ split' = split \ {t}
        /\ engine' = Disown(t)
    BY DEF FreeCompletion, Goto, Patient
  <1>3. /\ pc'[t] = "out"
        /\ \A u \in Threads : u # t => pc'[u] = pc[u] /\ comp'[u] = comp[u]
    BY <1>1, <1>2, Types DEF PcTypes
  <1>4. \A c \in Chips, q \in Queues :
           /\ DOMAIN engine'[c][q] = DOMAIN engine[c][q]
           /\ \A i \in DOMAIN engine[c][q] :
                 IF engine[c][q][i].of = t
                 THEN /\ engine'[c][q][i].kind = engine[c][q][i].kind
                      /\ engine'[c][q][i].of = NULL
                 ELSE engine'[c][q][i] = engine[c][q][i]
    BY <1>2 DEF Disown, Orphan
  <1>5. ASSUME NEW u, InTransfer(u) PROVE InTransfer(u)' /\ u # t /\ comp'[u] = comp[u]
    BY <1>5, <1>2, <1>3 DEF InTransfer, Set
  <1>6. \A c \in Chips, q \in Queues : \A i \in DOMAIN engine[c][q] :
           engine[c][q][i].kind = "fence" \/ engine'[c][q][i].kind = "fence" =>
              engine'[c][q][i] = engine[c][q][i] /\ InTransfer(engine[c][q][i].of)
    BY <1>4, <1>5 DEF Fences, FenceOwned
  <1>7. \A c \in Chips, q \in Queues : \A i \in DOMAIN engine[c][q] : \A u \in Threads :
           Signals(c, q, i, u)' <=> Signals(c, q, i, u)
    BY <1>6 DEF Signals
  <1>8. Marked' BY <1>2, <1>3 DEF Fences, Marked, Set
  <1>9. FenceOwned' BY <1>4, <1>5, <1>6 DEF Fences, FenceOwned
  <1>10. OneFence' BY <1>4, <1>7 DEF Fences, OneFence
  <1>11. ASSUME NEW u \in Threads, Keeps(u) PROVE Keeps(u)' /\ comp'[u] = comp[u]
    <2>1. Pending(u) => Pending(u)' BY <1>4, <1>7 DEF Pending
    <2>2. u # t BY <1>2, <1>11 DEF Keeps
    <2> QED BY <1>2, <1>3, <1>11, <2>1, <2>2 DEF Keeps
  <1>12. SetIsOwned' BY <1>2, <1>11 DEF Fences, SetIsOwned
  <1>13. ASSUME NEW u \in Threads \ split', NEW c \in Chips, NEW q \in Queues,
                NEW i \in DOMAIN engine'[c][q], Carries(c, q, i, u)'
         PROVE  Moving(u, c, q)' /\ (pc'[u] \in Live => Follows(c, q, i, u)')
    <2>1. i \in DOMAIN engine[c][q] /\ engine'[c][q][i] = engine[c][q][i]
      BY <1>4, <1>13, Consts DEF Carries
    <2>3. u # t BY <1>4, <1>13, <2>1, Consts DEF Carries
    <2>2. Moving(u, c, q) /\ (pc[u] \in Live => Follows(c, q, i, u))
      BY <1>2, <1>13, <2>1, <2>3 DEF Fences, InOrder, Carries
    <2>4. Moving(u, c, q)' /\ pc'[u] = pc[u] BY <1>2, <1>3, <2>2, <2>3 DEF Moving
    <2>5. Follows(c, q, i, u) => Follows(c, q, i, u)'
      BY <1>4, <1>7 DEF Follows
    <2> QED BY <2>2, <2>4, <2>5
  <1>14. InOrder' BY <1>13 DEF InOrder
  <1> QED BY <1>8, <1>9, <1>10, <1>12, <1>14 DEF Fences

\* What the engine takes off: the first descriptor of queue r of chip e.
LEMMA PopFacts ==
    ASSUME IType, NEW e \in Chips, NEW r \in Queues, Engine(e, r)
    PROVE  /\ \A c \in Chips, q \in Queues :
                 c # e \/ q # r => engine'[c][q] = engine[c][q]
           /\ DOMAIN engine[e][r] = 1 .. Len(engine[e][r])
           /\ Len(engine[e][r]) \in Nat \ {0}
           /\ DOMAIN engine'[e][r] = 1 .. Len(engine[e][r]) - 1
           /\ \A i \in DOMAIN engine'[e][r] : engine'[e][r][i] = engine[e][r][i + 1]
           /\ Head(engine[e][r]) = engine[e][r][1]
  <1>1. engine \in [Chips -> [Queues -> Seq(Descriptors)]] BY DEF IType, TypeOK
  <1>2. engine' = [engine EXCEPT ![e][r] = Tail(@)] /\ engine[e][r] # <<>>
    BY DEF Engine
  <1>3. engine[e][r] \in Seq(Descriptors) /\ engine'[e][r] = Tail(engine[e][r])
    BY <1>1, <1>2
  <1>4. /\ DOMAIN Tail(engine[e][r]) = 1 .. Len(engine[e][r]) - 1
        /\ \A i \in 1 .. Len(engine[e][r]) - 1 : Tail(engine[e][r])[i] = engine[e][r][i + 1]
        /\ Len(engine[e][r]) \in Nat \ {0}
        /\ DOMAIN engine[e][r] = 1 .. Len(engine[e][r])
        /\ Head(engine[e][r]) = engine[e][r][1]
    BY <1>2, <1>3
  <1>5. \A c \in Chips, q \in Queues : c # e \/ q # r => engine'[c][q] = engine[c][q]
    BY <1>1, <1>2
  <1> QED BY <1>3, <1>4, <1>5

\* The engine clears the word of the one completion whose fence it was: a
\* thread has one fence descriptor, and no other thread has that word.
LEMMA EngineKeeps ==
    ASSUME Control, Fences, NEW e \in Chips, NEW r \in Queues, Engine(e, r)
    PROVE  Fences'
  <1>1. IType /\ QueueHasOneOwner BY DEF Control
  <1>2. UNCHANGED <<chip, pc, comp, idle, split>> BY DEF Engine
  \* Where the descriptor at position i was before.
  <1> DEFINE Was(c, q, i) == IF c = e /\ q = r THEN i + 1 ELSE i
             First(c, q, i) == c = e /\ q = r /\ i = 1
  <1>3. \A c \in Chips, q \in Queues : \A i \in DOMAIN engine'[c][q] :
          /\ i \in Nat /\ i # 0
          /\ Was(c, q, i) \in DOMAIN engine[c][q]
          /\ engine'[c][q][i] = engine[c][q][Was(c, q, i)]
    <2> SUFFICES ASSUME NEW c \in Chips, NEW q \in Queues, NEW i \in DOMAIN engine'[c][q]
                 PROVE  /\ i \in Nat /\ i # 0
                        /\ Was(c, q, i) \in DOMAIN engine[c][q]
                        /\ engine'[c][q][i] = engine[c][q][Was(c, q, i)]
      OBVIOUS
    <2>1. CASE c = e /\ q = r BY <1>1, <2>1, PopFacts
    <2>2. CASE c # e \/ q # r
      <3>1. engine'[c][q] = engine[c][q] BY <1>1, <2>2, PopFacts
      <3>2. DOMAIN engine[c][q] = 1 .. Len(engine[c][q]) /\ Len(engine[c][q]) \in Nat
        BY <1>1, QueueTypes
      <3> QED BY <2>2, <3>1, <3>2
    <2> QED BY <2>1, <2>2
  <1>4. \A c \in Chips, q \in Queues : \A j \in DOMAIN engine[c][q] :
          j \in Nat /\ (First(c, q, j) \/ \E i \in DOMAIN engine'[c][q] : Was(c, q, i) = j)
    <2> SUFFICES ASSUME NEW c \in Chips, NEW q \in Queues, NEW j \in DOMAIN engine[c][q]
                 PROVE  /\ j \in Nat
                        /\ First(c, q, j) \/ \E i \in DOMAIN engine'[c][q] : Was(c, q, i) = j
      OBVIOUS
    <2>1. j \in Nat /\ j # 0 BY <1>1, QueueTypes
    <2>2. CASE c = e /\ q = r
      <3>1. j = 1 \/ j - 1 \in DOMAIN engine'[c][q]
        BY <1>1, <2>1, <2>2, PopFacts
      <3>2. j = (j - 1) + 1 BY <2>1
      <3> QED BY <2>1, <2>2, <3>1, <3>2
    <2>3. CASE c # e \/ q # r
      BY <1>1, <2>1, <2>3, PopFacts
    <2> QED BY <2>2, <2>3
  <1>5. /\ \A c, q : \A i, j \in Nat : Was(c, q, i) = Was(c, q, j) => i = j
        /\ \A c, q : \A i, j \in Nat : Was(c, q, j) > Was(c, q, i) => j > i
        /\ \A c, q : \A i \in Nat : Was(c, q, i) \in Nat
        /\ \A c, q : \A i \in Nat : i # 0 => ~First(c, q, Was(c, q, i))
        /\ \A c, q : \A i, j \in Nat : i # 0 /\ j > Was(c, q, i) => ~First(c, q, j)
    OBVIOUS
  <1> HIDE DEF Was, First
  <1>6. PICK d \in Descriptors : d = engine[e][r][1] /\ 1 \in DOMAIN engine[e][r]
    BY <1>1, PopFacts, QueueTypes
  <1>7. fence' = IF d.kind = "fence" THEN [fence EXCEPT ![d.at.chip] = @ \ {d.at.queue}] ELSE fence
    <2>1. Head(engine[e][r]) = d BY <1>1, <1>6, PopFacts
    <2> QED BY <2>1 DEF Engine
  <1>8. d.kind = "fence" => InTransfer(d.of) /\ d.at = comp[d.of]
    BY <1>6 DEF Fences, FenceOwned
  <1>9. fence \in [Chips -> SUBSET Queues] BY <1>1 DEF IType, TypeOK
  <1>10. \A w \in Threads : pc[w] \in Live \cup {"post"} =>
            comp[w].chip \in Chips /\ comp[w] = [chip |-> comp[w].chip, queue |-> comp[w].queue]
    BY <1>1, Types DEF Live, Outside
  <1>11. \A c \in Chips : fence'[c] \subseteq fence[c]
    BY <1>7, <1>9
  <1>12. d.kind = "fence" => ~(Set(d.of)')
    BY <1>2, <1>7, <1>8, <1>9, <1>10 DEF InTransfer, Set
  <1>13. ASSUME NEW w \in Threads, pc[w] \in Live \cup {"post"}, Set(w),
                d.kind = "fence" => w # d.of
         PROVE  Set(w)'
    <2>1. CASE d.kind # "fence" BY <1>2, <1>7, <1>13, <2>1 DEF Set
    <2>2. CASE d.kind = "fence"
      <3>1. comp[w] # comp[d.of]
        BY <1>1, <1>8, <1>13, <2>2 DEF QueueHasOneOwner, InTransfer, Live, InUse
      <3>2. comp[w].chip # d.at.chip \/ comp[w].queue # d.at.queue
        BY <1>8, <1>10, <1>13, <2>2, <3>1 DEF InTransfer
      <3> QED BY <1>2, <1>7, <1>9, <1>10, <1>13, <2>2, <3>2 DEF Set
    <2> QED BY <2>1, <2>2
  <1>14. Marked'
    BY <1>2, <1>8, <1>13 DEF Fences, Marked, InTransfer, Live
  <1>15. ASSUME NEW c \in Chips, NEW q \in Queues, NEW i \in DOMAIN engine'[c][q]
         PROVE  \A t : Signals(c, q, i, t)' <=> Signals(c, q, Was(c, q, i), t)
    BY <1>3 DEF Signals
  <1>16. ASSUME NEW c \in Chips, NEW q \in Queues, NEW j \in DOMAIN engine[c][q],
                NEW w \in Threads, Signals(c, q, j, w), ~First(c, q, j)
         PROVE  d.kind = "fence" => w # d.of
    BY <1>6, <1>16 DEF Fences, OneFence, Signals, First
  <1>17. FenceOwned'
    <2>1. ASSUME NEW c \in Chips, NEW q \in Queues, NEW i \in DOMAIN engine'[c][q],
                 engine'[c][q][i].kind = "fence"
          PROVE  \E w \in Threads : /\ engine'[c][q][i].of = w /\ engine'[c][q][i].at = comp[w]
                                    /\ InTransfer(w)'
      <3>1. PICK j \in DOMAIN engine[c][q] : j = Was(c, q, i) /\ engine'[c][q][i] = engine[c][q][j]
        BY <1>3
      <3>2. PICK w \in Threads : /\ engine[c][q][j].of = w /\ engine[c][q][j].at = comp[w]
                                 /\ InTransfer(w)
        BY <2>1, <3>1 DEF Fences, FenceOwned, InTransfer
      <3>3. ~First(c, q, j) BY <1>3, <1>5, <3>1
      <3>4. d.kind = "fence" => w # d.of
        BY <1>16, <2>1, <3>1, <3>2, <3>3 DEF Signals
      <3>5. InTransfer(w)' BY <1>2, <1>13, <3>2, <3>4 DEF InTransfer
      <3> QED BY <3>1, <3>2, <3>5
    <2> QED BY <1>2, <2>1 DEF FenceOwned
  <1>18. OneFence'
    <2>1. ASSUME NEW c \in Chips, NEW a \in Chips, NEW q \in Queues, NEW b \in Queues,
                 NEW i \in DOMAIN engine'[c][q], NEW j \in DOMAIN engine'[a][b],
                 NEW t \in Threads, Signals(c, q, i, t)', Signals(a, b, j, t)'
          PROVE  c = a /\ q = b /\ i = j
      <3>1. Signals(c, q, Was(c, q, i), t) /\ Signals(a, b, Was(a, b, j), t)
        BY <1>15, <2>1
      <3>2. c = a /\ q = b /\ Was(c, q, i) = Was(a, b, j)
        BY <1>3, <3>1 DEF Fences, OneFence
      <3> QED BY <1>3, <1>5, <3>2
    <2> QED BY <2>1 DEF OneFence
  <1>19. SetIsOwned'
    <2>1. ASSUME NEW c \in Chips, NEW q \in Queues, q \in fence'[c]
          PROVE  \E t \in Threads : comp'[t] = [chip |-> c, queue |-> q] /\ Keeps(t)'
      <3>1. PICK t \in Threads : comp[t] = [chip |-> c, queue |-> q] /\ Keeps(t)
        BY <1>11, <2>1 DEF Fences, SetIsOwned
      <3>2. Set(t)' BY <1>2, <2>1, <3>1 DEF Set
      <3>3. Pending(t) => Pending(t)'
        <4> SUFFICES ASSUME NEW a \in Chips, NEW b \in Queues, NEW j \in DOMAIN engine[a][b],
                            Signals(a, b, j, t)
                     PROVE  Pending(t)'
          BY DEF Pending
        <4>1. ~First(a, b, j)
          BY <1>6, <1>12, <3>2 DEF Signals, First
        <4>2. PICK i \in DOMAIN engine'[a][b] : Was(a, b, i) = j BY <1>4, <4>1
        <4>3. Signals(a, b, i, t)' BY <1>15, <4>2
        <4> QED BY <4>3 DEF Pending
      <3> QED BY <1>2, <3>1, <3>3 DEF Keeps
    <2> QED BY <2>1 DEF SetIsOwned
  <1>20. InOrder'
    <2>1. ASSUME NEW t \in Threads \ split', NEW c \in Chips, NEW q \in Queues,
                 NEW i \in DOMAIN engine'[c][q], Carries(c, q, i, t)'
          PROVE  Moving(t, c, q)' /\ (pc'[t] \in Live => Follows(c, q, i, t)')
      <3>1. PICK k \in DOMAIN engine[c][q] : k = Was(c, q, i) /\ engine'[c][q][i] = engine[c][q][k]
        BY <1>3
      <3>2. Moving(t, c, q) /\ (pc[t] \in Live => Follows(c, q, k, t))
        BY <1>2, <2>1, <3>1 DEF Fences, InOrder, Carries
      <3>3. Follows(c, q, k, t) => Follows(c, q, i, t)'
        <4> SUFFICES ASSUME NEW j \in DOMAIN engine[c][q], j > k, Signals(c, q, j, t)
                     PROVE  Follows(c, q, i, t)'
          BY DEF Follows
        <4>1. ~First(c, q, j) BY <1>3, <1>4, <1>5, <3>1
        <4>2. PICK m \in DOMAIN engine'[c][q] : Was(c, q, m) = j BY <1>4, <4>1
        <4>3. m > i BY <1>3, <1>5, <3>1, <4>2
        <4>4. Signals(c, q, m, t)' BY <1>15, <4>2
        <4> QED BY <4>3, <4>4 DEF Follows
      <3>4. Moving(t, c, q)' BY <1>2, <3>2 DEF Moving
      <3> QED BY <1>2, <3>2, <3>3, <3>4
    <2> QED BY <2>1 DEF InOrder
  <1> QED BY <1>14, <1>17, <1>18, <1>19, <1>20 DEF Fences

\* The steps that touch neither the engines nor the fence words.
LEMMA QuietStep ==
    ASSUME Fences, UNCHANGED <<engine, fence>>, split \subseteq split',
           \A t \in Threads \ split' : pc[t] \in {"mark", "post"} => chip'[t] = chip[t],
           \A t \in Threads : pc[t] \in UnderWay /\ t \notin idle =>
              /\ comp'[t] = comp[t]
              /\ \/ pc'[t] = pc[t] /\ t \notin idle'
                 \/ pc[t] \in Live /\ pc'[t] \in Live /\ (t \notin idle' \/ ~Set(t)),
           \A t \in Threads : pc'[t] = "post" => pc[t] = "post" /\ comp'[t] = comp[t]
    PROVE  Fences'
  <1>1. \A t \in Threads : comp'[t] = comp[t] => (Set(t)' <=> Set(t)) BY DEF Set
  <1>2. \A t \in Threads : pc'[t] = "post" => Set(t)' BY <1>1 DEF Fences, Marked
  <1> QED BY <1>1, <1>2, StillStep

\* Every step keeps Fences, for such a client.
LEMMA FencesStep == ASSUME Patient, Control, Fences, [Next]_vars PROVE Fences'
  <1>0. /\ pc \in PcTypes /\ comp \in [Threads -> Comps \cup {NoComp}]
        /\ chip \in [Threads -> Chips]
    BY Types DEF Control
  <1> DEFINE Quiet ==
        /\ UNCHANGED <<engine, fence>> /\ split \subseteq split'
        /\ \A t \in Threads \ split' : pc[t] \in {"mark", "post"} => chip'[t] = chip[t]
        /\ \A t \in Threads : pc[t] \in UnderWay /\ t \notin idle =>
              /\ comp'[t] = comp[t]
              /\ \/ pc'[t] = pc[t] /\ t \notin idle'
                 \/ pc[t] \in Live /\ pc'[t] \in Live /\ (t \notin idle' \/ ~Set(t))
        /\ \A t \in Threads : pc'[t] = "post" => pc[t] = "post" /\ comp'[t] = comp[t]
  <1>q. Quiet => Fences' BY QuietStep
  <1> USE <1>0 DEF PcTypes, UnderWay, Live, Goto
  <1>1. ASSUME NEW t \in Threads, AllocCompletion(t) PROVE Quiet
    BY <1>1 DEF AllocCompletion
  <1>2. ASSUME NEW t \in Threads, GetAvailableQueue(t) PROVE Quiet
    BY <1>2 DEF GetAvailableQueue
  <1>3. ASSUME NEW t \in Threads, TakeLock(t) PROVE Quiet
    BY <1>3 DEF TakeLock
  <1>4. ASSUME NEW t \in Threads, FindRegion(t) PROVE Quiet
    BY <1>4 DEF FindRegion
  <1>5. ASSUME NEW t \in Threads, AllocDone(t) PROVE Quiet
    BY <1>5 DEF AllocDone
  <1>6. ASSUME NEW t \in Threads, AllocFailed(t) PROVE Quiet
    BY <1>6 DEF AllocFailed
  <1>7. ASSUME NEW t \in Threads, WaitReturns(t) PROVE Quiet
    BY <1>7 DEF WaitReturns, Believe, Set
  <1>8. ASSUME NEW t \in Threads, CloseFailed(t) PROVE Quiet
    BY <1>8 DEF CloseFailed
  <1>9. ASSUME NEW t \in Threads, CloseEnd(t) PROVE Quiet
    BY <1>9 DEF CloseEnd
  <1>10. ASSUME NEW t \in Threads, NEW c \in Chips, CloseRegion(t, c) PROVE Quiet
    BY <1>10 DEF CloseRegion
  <1>11. ASSUME NEW t \in Threads, WaitCompletion(t) PROVE Quiet
    <2>1. t \in TrustsWait /\ pc[t] = "have" => comp[t].chip = CurrentChip(t)
      BY DEF Patient, Control, AtHome, Outside, CurrentChip
    <2>2. UNCHANGED idle
      BY <1>11, <2>1 DEF WaitCompletion, Believe
    <2> QED BY <1>11, <2>2 DEF WaitCompletion
  <1>15. ASSUME NEW t \in Threads, PollCompletion(t) PROVE Quiet
    BY <1>15 DEF PollCompletion, CheckCompletion, Set
  <1>12. ASSUME NEW t \in Threads, CloseBegin(t) PROVE Quiet
    BY <1>12 DEF CloseBegin
  <1>13. ASSUME NEW t \in Threads, NEW c \in Chips, Migrate(t, c) PROVE Quiet
    BY <1>13 DEF Migrate
  <1>14. CASE UNCHANGED vars
    <2>1. Quiet BY <1>14 DEF vars
    <2> QED BY <2>1, <1>q
  <1> HIDE DEF Quiet
  <1> QED
    BY <1>q, <1>1, <1>2, <1>3, <1>4, <1>5, <1>6, <1>7, <1>8, <1>9, <1>10, <1>11, <1>12, <1>13,
       <1>14, <1>15, StoreRegionKeeps, TransferMarkKeeps, TransferKeeps, TransferPlainKeeps,
       TransferFenceKeeps, FreeKeeps, EngineKeeps
    DEF Next, Inside, Call

\* ncbte_open establishes Fences.
LEMMA FencesInit == Init => Fences
  <1> SUFFICES ASSUME Init PROVE Fences OBVIOUS
  <1>1. \A c \in Chips, q \in Queues : DOMAIN engine[c][q] = {} /\ q \notin fence[c]
    BY DEF Init
  <1>2. Marked BY DEF Init, Marked
  <1>3. FenceOwned /\ OneFence /\ SetIsOwned /\ InOrder
    BY <1>1 DEF FenceOwned, OneFence, SetIsOwned, InOrder
  <1> QED BY <1>2, <1>3 DEF Fences

\* The inductive invariant holds throughout.
LEMMA PatientInv == ASSUME Patient PROVE Spec => [](Control /\ Fences)
  <1>1. Init => Control /\ Fences BY ControlInit, FencesInit
  <1>2. Control /\ Fences /\ [Next]_vars => (Control /\ Fences)'
    BY ControlStep, FencesStep
  <1> QED BY <1>1, <1>2, PTL DEF Spec

\* When clients free a completion, or use it again, only once they were told
\* that its transfers are done - by ncbte_check_completion, or by the return of
\* ncbte_wait_completion in a thread that no scheduler moves - no late fence
\* descriptor signals the next owner of a queue.
THEOREM FencesHaveOwners == ASSUME Patient PROVE Spec => []NoLateFence
  <1>1. Control /\ Fences => NoLateFence
    BY Consts DEF Fences, FenceOwned, InTransfer, NoLateFence
  <1> QED BY <1>1, PatientInv, PTL

\* For such clients no fence descriptor addresses a region that ncbte_close has
\* unpinned.
THEOREM FencesPinned == ASSUME Patient PROVE Spec => []FenceIsPinned
  <1>1. Control /\ Fences => FenceIsPinned
    BY DEF Control, RegionThere, Fences, FenceOwned, InTransfer, FenceIsPinned, Live
  <1> QED BY <1>1, PatientInv, PTL

\* For such clients ncbte_wait_completion never spins on a word that no queued
\* descriptor clears.
THEOREM WaitsEnd == ASSUME Patient PROVE Spec => []FenceComes
  <1>1. ASSUME Control, Fences PROVE FenceComes
    <2> SUFFICES ASSUME NEW t \in Threads, pc[t] \in Live, Set(t)
                 PROVE  \E c \in Chips, q \in Queues : \E i \in DOMAIN engine[c][q] :
                           engine[c][q][i].kind = "fence" /\ engine[c][q][i].at = comp[t]
      BY DEF FenceComes, Live, Set
    <2>1. /\ comp[t].chip \in Chips /\ comp[t].queue \in Queues
          /\ comp[t] = [chip |-> comp[t].chip, queue |-> comp[t].queue]
      BY <1>1, Types DEF Control, IType, Placed, InUse, Outside, Live
    <2>2. PICK u \in Threads : comp[u] = comp[t] /\ Keeps(u)
      BY <1>1, <2>1 DEF Fences, SetIsOwned, Set
    <2>3. u = t
      BY <1>1, <2>2 DEF Control, QueueHasOneOwner, InUse, Live, Keeps
    <2>4. PICK c \in Chips, q \in Queues : \E i \in DOMAIN engine[c][q] : Signals(c, q, i, t)
      BY <2>2, <2>3 DEF Keeps, Pending, Live
    <2> QED BY <1>1, <2>4 DEF Signals, Fences, FenceOwned
  <1> QED BY <1>1, PatientInv, PTL

\* What a thread has in an engine shows in its fence word.
LEMMA InFlightIsMoving ==
    ASSUME Control, Fences, NEW t \in Threads \ split, pc[t] = "have", InFlight(t)
    PROVE  t \notin idle /\ Set(t)
  <1>1. PICK c \in Chips, q \in Queues : \E i \in DOMAIN engine[c][q] : engine[c][q][i].of = t
    BY DEF InFlight
  <1>2. PICK i \in DOMAIN engine[c][q] : engine[c][q][i].of = t BY <1>1
  <1>3. engine[c][q][i].kind \in {"data", "fence"}
    BY QueueTypes DEF Control, Descriptors
  <1>4. CASE Signals(c, q, i, t)
    BY <1>4 DEF Fences, FenceOwned, Signals, InTransfer
  <1>5. CASE Carries(c, q, i, t)
    <2>1. Follows(c, q, i, t) BY <1>5 DEF Fences, InOrder, Live
    <2>2. PICK j \in DOMAIN engine[c][q] : Signals(c, q, j, t) BY <2>1 DEF Follows
    <2> QED BY <2>2 DEF Fences, FenceOwned, Signals, InTransfer
  <1> QED BY <1>2, <1>3, <1>4, <1>5 DEF Signals, Carries

\* Such clients are not deceived: what they were told is done has left the
\* engines of all chips, unless they were moved in the middle of a transfer.
THEOREM WaitTellsTheTruth == ASSUME Patient PROVE Spec => []WaitMeansDone
  <1>1. Control /\ Fences => WaitMeansDone
    BY InFlightIsMoving DEF WaitMeansDone
  <1> QED BY <1>1, PatientInv, PTL

\* For such clients, migrating or not, ncbte_check_completion says "no pending
\* events" only when nothing of the completion is left in an engine, with the
\* same exception.
THEOREM CheckTellsTheTruth == ASSUME Patient PROVE Spec => []CheckMeansDone
  <1>1. ASSUME Control, Fences PROVE CheckMeansDone
    <2> SUFFICES ASSUME NEW t \in Threads \ split, pc[t] = "have", InFlight(t)
                 PROVE  CheckCompletion(t) # 1
      BY DEF CheckMeansDone
    <2>1. Set(t) BY <1>1, InFlightIsMoving
    <2> QED BY <2>1 DEF CheckCompletion, Set
  <1> QED BY <1>1, PatientInv, PTL
=============================================================================
