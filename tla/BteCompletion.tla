---------------------------- MODULE BteCompletion ---------------------------
(***************************************************************************)
(* The completion objects of the block transfer engine library             *)
(* (lib/libncbte.c): a completion owns one of the hardware queues of its   *)
(* chip and a fence word in that chip's completion region; a transfer      *)
(* queues its descriptors, sets the fence word to -1 and queues a fence    *)
(* descriptor; the engine works each queue off in order and writes 0 to    *)
(* the fence word when it reaches the fence descriptor.                    *)
(*                                                                         *)
(* One ncbte_context, used by several threads, each with at most one       *)
(* completion at a time.  The engine and the kernel driver are external:   *)
(* a store through bte_io reaches the engine of the chip the thread runs   *)
(* on.  comp_lock is taken as a lock that excludes (see QTicketLock).      *)
(***************************************************************************)
EXTENDS Integers, Sequences, FiniteSets

CONSTANTS Threads, Chips,
          NQueues,       \* hardware queues of a chip: 64 in the code
          MaxQueued,     \* bound on the descriptors in one queue
          NULL,
          \* What the client and its surroundings do:
          OneInFlight,   \* a completion is not given to a transfer before the last one is known done
          WaitBeforeFree,\* a completion is freed only when its transfers are known done
          TrustsWait,    \* the threads that take a return of wait for the end of their transfers;
                         \* the others believe only a 1 of ncbte_check_completion
          Migrants       \* the threads the scheduler moves between chips

ASSUME BteAssumption ==
    /\ NQueues \in Nat \ {0}
    /\ MaxQueued \in Nat
    /\ MaxQueued >= 2
    /\ {OneInFlight, WaitBeforeFree} \subseteq BOOLEAN
    /\ Migrants \subseteq Threads /\ TrustsWait \subseteq Threads
    /\ NULL \notin Threads \cup Chips

Queues == 0 .. NQueues - 1

VARIABLES
    chip,      \* the chip each thread runs on
    bits,      \* comp_queues: the queues of each chip that are in use
    region,    \* comp_regions: NULL, or the chip that holds the memory of a chip's fence words
    lock,      \* comp_lock: the thread that holds it
    fence,     \* the queues of each chip whose fence word is -1; the others' is 0
    engine,    \* the descriptors queued at each chip and queue
    pc,        \* where each thread is
    comp,      \* its completion: chip_no and queue_num
    idle,      \* the threads that know, or think they know, that all they submitted is done
    split,     \* history: the threads moved to another chip in the middle of a transfer
               \* with their present completion
    open,      \* no ncbte_close is under way or has succeeded
    lost       \* queues whose bit an allocation that failed has left set

vars == <<chip, bits, region, lock, fence, engine, pc, comp, idle, split, open, lost>>

NoComp == [chip |-> NULL, queue |-> NQueues]

Comps == [chip : Chips, queue : 0 .. NQueues]

\* of is the thread whose transfer a descriptor belongs to, NULL when it has
\* no completion or the completion was freed meanwhile; at is the fence word
\* that a fence descriptor addresses.
Data(t) == [kind |-> "data", of |-> t, at |-> NoComp]
Fence(t, c) == [kind |-> "fence", of |-> t, at |-> c]
Descriptors == [kind : {"data", "fence"}, of : Threads \cup {NULL}, at : Comps \cup {NoComp}]

TypeOK ==
    /\ chip \in [Threads -> Chips]
    /\ bits \in [Chips -> SUBSET Queues]
    /\ region \in [Chips -> Chips \cup {NULL}]
    /\ lock \in Threads \cup {NULL}
    /\ fence \in [Chips -> SUBSET Queues]
    /\ engine \in [Chips -> [Queues -> Seq(Descriptors)]]
    /\ pc \in [Threads -> {"out", "scan", "lock", "region", "store", "unlock", "fail",
                           "have", "mark", "post", "wait", "close"}]
    /\ comp \in [Threads -> Comps \cup {NoComp}]
    /\ idle \subseteq Threads /\ split \subseteq Threads
    /\ open \in BOOLEAN
    /\ lost \in [Chips -> SUBSET Queues]

\* ncbte_open
Init ==
    /\ chip \in [Threads -> Chips]
    /\ bits = [c \in Chips |-> {}]
    /\ region = [c \in Chips |-> NULL]
    /\ lock = NULL
    /\ fence = [c \in Chips |-> {}]
    /\ engine = [c \in Chips |-> [q \in Queues |-> <<>>]]
    /\ pc = [t \in Threads |-> "out"]
    /\ comp = [t \in Threads |-> NoComp]
    /\ idle = Threads /\ split = {}
    /\ open = TRUE
    /\ lost = [c \in Chips |-> {}]

Goto(t, label) == pc' = [pc EXCEPT ![t] = label]

\* get_current_chip
CurrentChip(t) == chip[t]
-----------------------------------------------------------------------------
\* ncbte_alloc_completion: note the current chip and look for a queue.
AllocCompletion(t) ==
    /\ pc[t] = "out"
    /\ open
    /\ comp' = [comp EXCEPT ![t] = [chip |-> CurrentChip(t), queue |-> 0]]
    /\ idle' = idle \cup {t}
    /\ Goto(t, "scan")
    /\ UNCHANGED <<chip, bits, region, lock, fence, engine, split, open, lost>>

\* Fault: the bit is tested but the set is lost.
GetAvailableQueueNoSet(t) ==
    /\ pc[t] = "scan"
    /\ LET c == comp[t] IN
       IF c.queue = NQueues
       THEN comp' = [comp EXCEPT ![t] = NoComp] /\ Goto(t, "out")
       ELSE IF c.queue \in bits[c.chip]
            THEN /\ comp' = [comp EXCEPT ![t] = [chip |-> c.chip, queue |-> c.queue + 1]]
                 /\ UNCHANGED pc
            ELSE Goto(t, "lock") /\ UNCHANGED comp
    /\ UNCHANGED <<chip, bits, region, lock, fence, engine, idle, split, open, lost>>

\* Fault: the loop runs one bit too far.
GetAvailableQueuePast(t) ==
    /\ pc[t] = "scan"
    /\ LET c == comp[t] IN
       IF c.queue \in bits[c.chip]
       THEN /\ comp' = [comp EXCEPT ![t] = [chip |-> c.chip, queue |-> c.queue + 1]]
            /\ UNCHANGED <<bits, pc>>
       ELSE /\ bits' = [bits EXCEPT ![c.chip] = @ \cup {c.queue}]
            /\ Goto(t, "lock")
            /\ UNCHANGED comp
    /\ UNCHANGED <<chip, region, lock, fence, engine, idle, split, open, lost>>

\* One bit test-and-set of _get_available_queue; after the last bit the
\* allocation fails.
GetAvailableQueue(t) ==
    /\ pc[t] = "scan"
    /\ LET c == comp[t] IN
       IF c.queue = NQueues
       THEN comp' = [comp EXCEPT ![t] = NoComp] /\ Goto(t, "out") /\ UNCHANGED bits
       ELSE IF c.queue \in bits[c.chip]
            THEN /\ comp' = [comp EXCEPT ![t] = [chip |-> c.chip, queue |-> c.queue + 1]]
                 /\ UNCHANGED <<bits, pc>>
            ELSE /\ bits' = [bits EXCEPT ![c.chip] = @ \cup {c.queue}]
                 /\ Goto(t, "lock")
                 /\ UNCHANGED comp
    /\ UNCHANGED <<chip, region, lock, fence, engine, idle, split, open, lost>>

TakeLock(t) ==
    /\ pc[t] = "lock"
    /\ lock = NULL
    /\ lock' = t
    /\ Goto(t, "region")
    /\ UNCHANGED <<chip, bits, region, fence, engine, comp, idle, split, open, lost>>

\* Fault: a region is allocated whether there is one or not.
FindRegionAgain(t) ==
    /\ pc[t] = "region"
    /\ Goto(t, "store")
    /\ UNCHANGED <<chip, bits, region, lock, fence, engine, comp, idle, split, open, lost>>

\* Without a completion region for the chip allocate and pin one, which may
\* fail (memory, NCBTE_PIN_MEM).
FindRegion(t) ==
    /\ pc[t] = "region"
    /\ IF region[comp[t].chip] # NULL
       THEN Goto(t, "unlock")
       ELSE Goto(t, "store") \/ Goto(t, "fail")
    /\ UNCHANGED <<chip, bits, region, lock, fence, engine, comp, idle, split, open, lost>>

\* ncbte_alloc_region asks again on which chip the thread is and takes memory
\* there, cleared.
StoreRegion(t) ==
    /\ pc[t] = "store"
    /\ region' = [region EXCEPT ![comp[t].chip] = CurrentChip(t)]
    /\ fence' = [fence EXCEPT ![comp[t].chip] = {}]
    /\ Goto(t, "unlock")
    /\ UNCHANGED <<chip, bits, lock, engine, comp, idle, split, open, lost>>

AllocDone(t) ==
    /\ pc[t] = "unlock"
    /\ lock' = NULL
    /\ Goto(t, "have")
    /\ UNCHANGED <<chip, bits, region, fence, engine, comp, idle, split, open, lost>>

\* The error path releases the lock and frees the object; it leaves the
\* queue's bit set.
AllocFailed(t) ==
    /\ pc[t] = "fail"
    /\ lock' = NULL
    /\ lost' = [lost EXCEPT ![comp[t].chip] = @ \cup {comp[t].queue}]
    /\ comp' = [comp EXCEPT ![t] = NoComp]
    /\ Goto(t, "out")
    /\ UNCHANGED <<chip, bits, region, fence, engine, idle, split, open>>
-----------------------------------------------------------------------------
Room(c, q, n) == Len(engine[c][q]) + n <= MaxQueued

Post(t, q, d) == engine' = [engine EXCEPT ![CurrentChip(t)][q] = Append(@, d)]

\* ncbte_transfer_region with a completion: the data descriptors (one stands
\* for all of them) ...
Transfer(t) ==
    /\ pc[t] = "have"
    /\ OneInFlight => t \in idle
    /\ Room(CurrentChip(t), comp[t].queue, 2)
    /\ Post(t, comp[t].queue, Data(t))
    /\ idle' = idle \ {t}
    /\ Goto(t, "mark")
    /\ UNCHANGED <<chip, bits, region, lock, fence, comp, split, open, lost>>

\* Fault: the fence word is left as it was.
TransferMarkNot(t) ==
    /\ pc[t] = "mark"
    /\ Goto(t, "post")
    /\ UNCHANGED <<chip, bits, region, lock, fence, engine, comp, idle, split, open, lost>>

\* ... then the fence word ...
TransferMark(t) ==
    /\ pc[t] = "mark"
    /\ fence' = [fence EXCEPT ![comp[t].chip] = @ \cup {comp[t].queue}]
    /\ Goto(t, "post")
    /\ UNCHANGED <<chip, bits, region, lock, engine, comp, idle, split, open, lost>>

\* Fault: no fence descriptor is queued.
TransferFenceNot(t) ==
    /\ pc[t] = "post"
    /\ Room(CurrentChip(t), comp[t].queue, 1)
    /\ Goto(t, "have")
    /\ UNCHANGED <<chip, bits, region, lock, fence, engine, comp, idle, split, open, lost>>

\* ... then the fence descriptor.
TransferFence(t) ==
    /\ pc[t] = "post"
    /\ Room(CurrentChip(t), comp[t].queue, 1)
    /\ Post(t, comp[t].queue, Fence(t, comp[t]))
    /\ Goto(t, "have")
    /\ UNCHANGED <<chip, bits, region, lock, fence, comp, idle, split, open, lost>>

\* A transfer without a completion uses queue 0, whoever has that.
TransferPlain(t) ==
    /\ pc[t] = "have" \/ (pc[t] = "out" /\ open)
    /\ Room(CurrentChip(t), 0, 1)
    /\ Post(t, 0, Data(NULL))
    /\ UNCHANGED <<chip, bits, region, lock, fence, pc, comp, idle, split, open, lost>>
-----------------------------------------------------------------------------
\* Fault: the comparison with zero the other way round.
CheckCompletionInverted(t) ==
    CASE comp[t].chip # CurrentChip(t)          -> -1
      [] comp[t].queue \in fence[comp[t].chip] -> 1
      [] OTHER                                  -> 0

\* ncbte_check_completion: 1 without pending events, 0 with, -1 on another chip.
CheckCompletion(t) ==
    CASE comp[t].chip # CurrentChip(t)          -> -1
      [] comp[t].queue \in fence[comp[t].chip] -> 0
      [] OTHER                                  -> 1

\* The client asks; 1 tells it that its transfers are done, 0 and -1 nothing.
PollCompletion(t) ==
    /\ pc[t] = "have"
    /\ idle' = IF CheckCompletion(t) = 1 THEN idle \cup {t} ELSE idle
    /\ UNCHANGED <<chip, bits, region, lock, fence, engine, pc, comp, split, open, lost>>

\* What a return of ncbte_wait_completion, which has no value, tells a client.
Believe(t) == idle' = idle \cup ({t} \cap TrustsWait)

\* ncbte_wait_completion: on another chip it returns at once, whatever is
\* pending; else it goes to spin on the fence word.
WaitCompletion(t) ==
    /\ pc[t] = "have"
    /\ IF comp[t].chip = CurrentChip(t)
       THEN Goto(t, "wait") /\ UNCHANGED idle
       ELSE Believe(t) /\ UNCHANGED pc
    /\ UNCHANGED <<chip, bits, region, lock, fence, engine, comp, split, open, lost>>

\* Fault: the wait does not look at the fence word.
WaitReturnsAtOnce(t) ==
    /\ pc[t] = "wait"
    /\ Believe(t)
    /\ Goto(t, "have")
    /\ UNCHANGED <<chip, bits, region, lock, fence, engine, comp, split, open, lost>>

WaitReturns(t) ==
    /\ pc[t] = "wait"
    /\ comp[t].queue \notin fence[comp[t].chip]
    /\ Believe(t)
    /\ Goto(t, "have")
    /\ UNCHANGED <<chip, bits, region, lock, fence, engine, comp, split, open, lost>>

\* Descriptors of a completion that is gone belong to nobody.
Orphan(d) == [kind |-> d.kind, of |-> NULL, at |-> d.at]

Disown(t) ==
    [c \in Chips |-> [q \in Queues |->
        [i \in DOMAIN engine[c][q] |->
            IF engine[c][q][i].of = t THEN Orphan(engine[c][q][i]) ELSE engine[c][q][i]]]]

\* Fault: the queue's bit is not cleared.
FreeCompletionKeepBit(t) ==
    /\ pc[t] = "have"
    /\ WaitBeforeFree => t \in idle
    /\ comp' = [comp EXCEPT ![t] = NoComp]
    /\ engine' = Disown(t)
    /\ split' = split \ {t}
    /\ Goto(t, "out")
    /\ UNCHANGED <<chip, bits, region, lock, fence, idle, open, lost>>

\* ncbte_free_completion clears the bit and frees the object.
FreeCompletion(t) ==
    /\ pc[t] = "have"
    /\ WaitBeforeFree => t \in idle
    /\ bits' = [bits EXCEPT ![comp[t].chip] = @ \ {comp[t].queue}]
    /\ comp' = [comp EXCEPT ![t] = NoComp]
    /\ engine' = Disown(t)
    /\ split' = split \ {t}
    /\ Goto(t, "out")
    /\ UNCHANGED <<chip, region, lock, fence, idle, open, lost>>

\* ncbte_close, by a thread when no other is in the library: takes the lock
\* and frees the regions one by one; when NCBTE_UNPIN_MEM fails for one it
\* returns with the context as it is by then, else the context is gone.
CloseBegin(t) ==
    /\ open
    /\ \A u \in Threads : pc[u] = "out"
    /\ lock = NULL
    /\ lock' = t
    /\ open' = FALSE
    /\ Goto(t, "close")
    /\ UNCHANGED <<chip, bits, region, fence, engine, comp, idle, split, lost>>

CloseRegion(t, c) ==
    /\ pc[t] = "close"
    /\ region[c] # NULL
    /\ region' = [region EXCEPT ![c] = NULL]
    /\ UNCHANGED <<chip, bits, lock, fence, engine, pc, comp, idle, split, open, lost>>

CloseFailed(t) ==
    /\ pc[t] = "close"
    /\ \E c \in Chips : region[c] # NULL
    /\ lock' = NULL
    /\ open' = TRUE
    /\ Goto(t, "out")
    /\ UNCHANGED <<chip, bits, region, fence, engine, comp, idle, split, lost>>

CloseEnd(t) ==
    /\ pc[t] = "close"
    /\ \A c \in Chips : region[c] = NULL
    /\ lock' = NULL
    /\ Goto(t, "out")
    /\ UNCHANGED <<chip, bits, region, fence, engine, comp, idle, split, open, lost>>
-----------------------------------------------------------------------------
\* The engine, external: the first descriptor of a queue is done.
Engine(c, q) ==
    /\ engine[c][q] # <<>>
    /\ engine' = [engine EXCEPT ![c][q] = Tail(@)]
    /\ LET d == Head(engine[c][q]) IN
       fence' = IF d.kind = "fence" THEN [fence EXCEPT ![d.at.chip] = @ \ {d.at.queue}] ELSE fence
    /\ UNCHANGED <<chip, bits, region, lock, pc, comp, idle, split, open, lost>>

\* The scheduler, external.
Migrate(t, c) ==
    /\ t \in Migrants
    /\ chip[t] # c
    /\ chip' = [chip EXCEPT ![t] = c]
    /\ split' = IF pc[t] \in {"mark", "post"} THEN split \cup {t} ELSE split
    /\ UNCHANGED <<bits, region, lock, fence, engine, pc, comp, idle, open, lost>>

Inside(t) ==
    \/ GetAvailableQueue(t) \/ TakeLock(t) \/ FindRegion(t) \/ StoreRegion(t)
    \/ AllocDone(t) \/ AllocFailed(t) \/ TransferMark(t) \/ TransferFence(t)
    \/ WaitReturns(t) \/ CloseFailed(t) \/ CloseEnd(t) \/ \E c \in Chips : CloseRegion(t, c)

Call(t) ==
    \/ AllocCompletion(t) \/ Transfer(t) \/ TransferPlain(t) \/ PollCompletion(t)
    \/ WaitCompletion(t) \/ FreeCompletion(t) \/ CloseBegin(t)

Next ==
    \/ \E t \in Threads : Inside(t) \/ Call(t)
    \/ \E c \in Chips, q \in Queues : Engine(c, q)
    \/ \E t \in Threads, c \in Chips : Migrate(t, c)

Spec == Init /\ [][Next]_vars
-----------------------------------------------------------------------------
InUse == {"lock", "region", "store", "unlock", "fail", "have", "mark", "post", "wait"}

\* Two completions never have the same queue of the same chip: a queue and
\* its fence word have one owner (_get_available_queue, ncbte_free_completion).
QueueHasOneOwner ==
    \A t, u \in Threads :
        pc[t] \in InUse /\ pc[u] \in InUse /\ comp[t] = comp[u] => t = u

InFlight(t) ==
    \E c \in Chips, q \in Queues : \E i \in DOMAIN engine[c][q] : engine[c][q][i].of = t

\* A client that thinks its transfers are done, because ncbte_wait_completion
\* returned or ncbte_check_completion said so, is right: nothing that was
\* submitted with its completion is still in a queue of an engine, unless it
\* was moved to another chip in the middle of a transfer.
WaitMeansDone == \A t \in Threads \ split : pc[t] = "have" /\ t \in idle => ~InFlight(t)

\* When ncbte_check_completion answers "no pending events", every transfer
\* that was submitted with the completion has left the engines, those of
\* other chips included, with the same exception.
CheckMeansDone ==
    \A t \in Threads \ split : pc[t] = "have" => (CheckCompletion(t) = 1 => ~InFlight(t))

\* No fence descriptor addresses a region that has been unpinned: the engine
\* never writes to memory that was given back.
FenceIsPinned ==
    \A c \in Chips, q \in Queues : \A i \in DOMAIN engine[c][q] :
        engine[c][q][i].kind = "fence" => region[engine[c][q][i].at.chip] # NULL

\* A fence descriptor in a queue belongs to the completion that owns its
\* fence word: a late one never signals the next owner of the queue.
NoLateFence ==
    \A c \in Chips, q \in Queues : \A i \in DOMAIN engine[c][q] :
        engine[c][q][i].kind = "fence" => engine[c][q][i].of # NULL

\* Once a chip has a completion region, allocations keep using that one: the
\* fence pointers handed out stay valid until ncbte_close.
RegionStays ==
    [][\A c \in Chips : region[c] # NULL /\ open => region'[c] = region[c]]_vars

\* A queue that is marked in use has a completion, or is one that an
\* allocation failed on; no other path loses a queue.
NoQueueLeak ==
    \A c \in Chips : \A q \in bits[c] \ lost[c] :
        \E t \in Threads : pc[t] \in InUse /\ comp[t] = [chip |-> c, queue |-> q]

\* No wait hangs: while the fence word of a completion is set, a fence
\* descriptor that will clear it is queued at an engine.
FenceComes ==
    \A t \in Threads :
        pc[t] \in {"have", "wait"} /\ comp[t].queue \in fence[comp[t].chip] =>
            \E c \in Chips, q \in Queues : \E i \in DOMAIN engine[c][q] :
                engine[c][q][i].kind = "fence" /\ engine[c][q][i].at = comp[t]
=============================================================================
