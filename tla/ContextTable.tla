---------------------------- MODULE ContextTable ----------------------------
(***************************************************************************)
(* The shared table of numaplace instances (numaplace/libnumaplace.c): a   *)
(* shared memory segment with a lock word that holds the pid of its        *)
(* holder, a count of allocated contexts and the contexts, each with the   *)
(* pid of the process that has it.  The constructor of the library takes   *)
(* a context, the destructor gives it back, sched_getaffinity reads it;    *)
(* a process may be killed at any point.                                   *)
(*                                                                         *)
(* Each process of the model starts at most once: no pid is used again.    *)
(***************************************************************************)
EXTENDS Integers, FiniteSets

CONSTANTS Procs,       \* processes, named by their pid
          NContexts,   \* CONTEXTS
          CountMod,    \* values of the count: 2^32
          NONE         \* the pid 0

ASSUME TableAssumption ==
    /\ IsFiniteSet(Procs)
    /\ NContexts \in Nat
    /\ NContexts >= Cardinality(Procs)
    /\ CountMod \in Nat
    /\ CountMod > Cardinality(Procs)
    /\ NONE \notin Procs

Contexts == 1 .. NContexts

VARIABLES
    lock,        \* table->lock
    allocated,   \* table->allocated
    owner,       \* the pid of each context
    pc,          \* where each process is
    ret,         \* where its table_lock returns to
    seen,        \* the pid its failed compare-and-swap returned
    context,     \* its context, 0 for NULL
    count,       \* the count it has read in order to change it
    left,        \* contexts left to look at in context_allocate
    at           \* the context it looks at

vars == <<lock, allocated, owner, pc, ret, seen, context, count, left, at>>

\* Places outside the table, and places that are reached with the lock.
Ended == {"exited", "killed", "aborted"}
Outside == {"off", "init", "run", "cas", "probe", "clear"} \cup Ended
Locked == {"sweep", "free", "take", "mark", "inc", "dec", "copy", "unlock", "stale"}

TypeOK ==
    /\ lock \in Procs \cup {NONE}
    /\ allocated \in 0 .. CountMod - 1
    /\ owner \in [Contexts -> Procs \cup {NONE}]
    /\ pc \in [Procs -> Outside \cup Locked]
    /\ ret \in [Procs -> Locked \cup {"run"}]
    /\ seen \in [Procs -> Procs \cup {NONE}]
    /\ context \in [Procs -> Contexts \cup {0}]
    /\ count \in [Procs -> 0 .. CountMod - 1]
    /\ left \in [Procs -> 0 .. CountMod - 1]
    /\ at \in [Procs -> 0 .. NContexts]

\* shm_open creates the segment zeroed.
Init ==
    /\ lock = NONE
    /\ allocated = 0
    /\ owner = [c \in Contexts |-> NONE]
    /\ pc = [p \in Procs |-> "off"]
    /\ ret = [p \in Procs |-> "run"]
    /\ seen = [p \in Procs |-> NONE]
    /\ context = [p \in Procs |-> 0]
    /\ count = [p \in Procs |-> 0]
    /\ left = [p \in Procs |-> 0]
    /\ at = [p \in Procs |-> 0]

Goto(p, label) == pc' = [pc EXCEPT ![p] = label]

\* kill(pid, 0): a process that has ended does not exist any more.
Exists(p) == pc[p] \notin Ended

\* A call of table_lock by p; dest is what follows it.
CallLock(p, dest) == Goto(p, "cas") /\ ret' = [ret EXCEPT ![p] = dest]
\* A process ends, and its memory with it.
End(p, how) ==
    /\ Goto(p, how)
    /\ ret' = [ret EXCEPT ![p] = "run"]
    /\ seen' = [seen EXCEPT ![p] = NONE]
    /\ context' = [context EXCEPT ![p] = 0]
    /\ count' = [count EXCEPT ![p] = 0]
    /\ left' = [left EXCEPT ![p] = 0]
    /\ at' = [at EXCEPT ![p] = 0]
-----------------------------------------------------------------------------
Start(p) ==
    /\ pc[p] = "off"
    /\ Goto(p, "init")
    /\ UNCHANGED <<lock, allocated, owner, ret, seen, context, count, left, at>>

\* init: the assertion, then context_allocate.
InitCheck(p) ==
    /\ pc[p] = "init"
    /\ IF allocated = 0
       THEN CallLock(p, "sweep") /\ UNCHANGED <<seen, context, count, left, at>>
       ELSE End(p, "aborted")
    /\ UNCHANGED <<lock, allocated, owner>>

\* Fault: the lock is taken without a comparison.
LockCasBlind(p) ==
    /\ pc[p] = "cas"
    /\ lock' = p
    /\ Goto(p, ret[p])
    /\ left' = [left EXCEPT ![p] = IF ret[p] = "sweep" THEN allocated ELSE @]
    /\ at' = [at EXCEPT ![p] = IF ret[p] = "sweep" THEN 1 ELSE @]
    /\ UNCHANGED <<allocated, owner, ret, seen, context, count>>

\* table_lock: the compare-and-swap.  context_allocate starts with the count.
LockCas(p) ==
    /\ pc[p] = "cas"
    /\ IF lock = NONE
       THEN /\ lock' = p
            /\ Goto(p, ret[p])
            /\ left' = [left EXCEPT ![p] = IF ret[p] = "sweep" THEN allocated ELSE @]
            /\ at' = [at EXCEPT ![p] = IF ret[p] = "sweep" THEN 1 ELSE @]
            /\ UNCHANGED seen
       ELSE /\ seen' = [seen EXCEPT ![p] = lock]
            /\ Goto(p, "probe")
            /\ UNCHANGED <<lock, left, at>>
    /\ UNCHANGED <<allocated, owner, ret, context, count>>

\* Fault: a holder that is gone is waited for.
LockProbeTrusts(p) ==
    /\ pc[p] = "probe"
    /\ seen' = [seen EXCEPT ![p] = NONE]
    /\ Goto(p, "cas")
    /\ UNCHANGED <<lock, allocated, owner, ret, context, count, left, at>>

\* Does the process whose pid was in the lock exist?
LockProbe(p) ==
    /\ pc[p] = "probe"
    /\ Goto(p, IF Exists(seen[p]) THEN "cas" ELSE "clear")
    /\ seen' = [seen EXCEPT ![p] = NONE]
    /\ UNCHANGED <<lock, allocated, owner, ret, context, count, left, at>>

\* It does not: store 0, whatever is in the lock by now.
LockClear(p) ==
    /\ pc[p] = "clear"
    /\ lock' = NONE
    /\ Goto(p, "cas")
    /\ UNCHANGED <<allocated, owner, ret, seen, context, count, left, at>>

\* table_unlock, and the end of the call that took the lock.
Unlock(p) ==
    /\ pc[p] = "unlock"
    /\ lock' = NONE
    /\ IF ret[p] = "free"
       THEN End(p, "exited")
       ELSE Goto(p, "run") /\ UNCHANGED <<ret, seen, context, count, left, at>>
    /\ UNCHANGED <<allocated, owner>>
-----------------------------------------------------------------------------
\* One turn of the loop of context_allocate: skip a context that is not
\* allocated, free one whose process is gone.  The index stays where it is
\* at an allocated context; a count that does not match the contexts runs
\* into the assertion.
Sweep(p) ==
    /\ pc[p] = "sweep"
    /\ CASE left[p] = 0 ->
               /\ Goto(p, "take")
               /\ at' = [at EXCEPT ![p] = 0]
               /\ UNCHANGED <<ret, seen, context, count, left>>
         [] left[p] # 0 /\ owner[at[p]] = NONE /\ at[p] < NContexts ->
               /\ at' = [at EXCEPT ![p] = @ + 1]
               /\ UNCHANGED <<pc, ret, seen, context, count, left>>
         [] left[p] # 0 /\ owner[at[p]] = NONE /\ at[p] = NContexts ->
               End(p, "aborted")
         [] left[p] # 0 /\ owner[at[p]] # NONE ->
               /\ left' = [left EXCEPT ![p] = @ - 1]
               /\ IF Exists(owner[at[p]]) THEN UNCHANGED <<pc, ret>>
                                          ELSE CallLock(p, "stale")
               /\ UNCHANGED <<seen, context, count, at>>
    /\ UNCHANGED <<lock, allocated, owner>>

\* context_deallocate called from context_allocate, should its table_lock
\* ever return: it writes through context, which is still NULL.
FreeStale(p) ==
    /\ pc[p] = "stale"
    /\ End(p, "aborted")
    /\ UNCHANGED <<lock, allocated, owner>>

FirstFree == CHOOSE c \in Contexts :
                owner[c] = NONE /\ \A d \in Contexts : owner[d] = NONE => c <= d

\* The first context that is free ...
Take(p) ==
    /\ pc[p] = "take"
    /\ context' = [context EXCEPT ![p] = FirstFree]
    /\ Goto(p, "mark")
    /\ UNCHANGED <<lock, allocated, owner, ret, seen, count, left, at>>

\* ... gets the pid, and the count is read ...
Mark(p) ==
    /\ pc[p] = "mark"
    /\ owner' = [owner EXCEPT ![context[p]] = p]
    /\ count' = [count EXCEPT ![p] = allocated]
    /\ Goto(p, "inc")
    /\ UNCHANGED <<lock, allocated, ret, seen, context, left, at>>

\* ... and stored: the increment is not one atomic instruction.
Count(p) ==
    /\ pc[p] = "inc"
    /\ allocated' = (count[p] + 1) % CountMod
    /\ count' = [count EXCEPT ![p] = 0]
    /\ Goto(p, "unlock")
    /\ UNCHANGED <<lock, owner, ret, seen, context, left, at>>

\* sched_getaffinity of the own process.
GetAffinity(p) ==
    /\ pc[p] = "run"
    /\ CallLock(p, "copy")
    /\ UNCHANGED <<lock, allocated, owner, seen, context, count, left, at>>

Copy(p) ==
    /\ pc[p] = "copy"
    /\ Goto(p, "unlock")
    /\ UNCHANGED <<lock, allocated, owner, ret, seen, context, count, left, at>>

\* finit, context_deallocate
Finit(p) ==
    /\ pc[p] = "run"
    /\ CallLock(p, "free")
    /\ UNCHANGED <<lock, allocated, owner, seen, context, count, left, at>>

Free(p) ==
    /\ pc[p] = "free"
    /\ owner' = [owner EXCEPT ![context[p]] = NONE]
    /\ count' = [count EXCEPT ![p] = allocated]
    /\ Goto(p, "dec")
    /\ UNCHANGED <<lock, allocated, ret, seen, context, left, at>>

\* Fault: the count is signed.
UncountSigned(p) ==
    /\ pc[p] = "dec"
    /\ allocated' = count[p] - 1
    /\ count' = [count EXCEPT ![p] = 0]
    /\ Goto(p, "unlock")
    /\ UNCHANGED <<lock, owner, ret, seen, context, left, at>>

Uncount(p) ==
    /\ pc[p] = "dec"
    /\ allocated' = (count[p] - 1) % CountMod
    /\ count' = [count EXCEPT ![p] = 0]
    /\ Goto(p, "unlock")
    /\ UNCHANGED <<lock, owner, ret, seen, context, left, at>>

\* The outside world, external.
Kill(p) ==
    /\ pc[p] \notin Ended \cup {"off"}
    /\ End(p, "killed")
    /\ UNCHANGED <<lock, allocated, owner>>

Step(p) ==
    \/ InitCheck(p) \/ LockCas(p) \/ LockProbe(p) \/ LockClear(p) \/ Unlock(p)
    \/ Sweep(p) \/ FreeStale(p) \/ Take(p) \/ Mark(p) \/ Count(p) \/ Copy(p)
    \/ Free(p) \/ Uncount(p)

Next == \E p \in Procs : Start(p) \/ Step(p) \/ GetAffinity(p) \/ Finit(p) \/ Kill(p)

\* A process that is inside the library keeps running unless it is killed.
Fairness == \A p \in Procs : WF_vars(Step(p))

Spec == Init /\ [][Next]_vars

FairSpec == Spec /\ Fairness
-----------------------------------------------------------------------------
\* The table lock excludes: no two processes are between table_lock and
\* table_unlock (a process that waits inside context_allocate is, too).
InTable(p) == pc[p] \in Locked \/ (pc[p] \in {"cas", "probe", "clear"} /\ ret[p] = "stale")
LockExcludes == \A p, q \in Procs : InTable(p) /\ InTable(q) => p = q

\* No process has exited or been killed yet; one that gave up in init, before
\* its first table_lock, does no harm.
Calm == \A p \in Procs : pc[p] \notin {"exited", "killed"}

\* Until the first process exits or is killed the lock excludes, every process
\* that runs has a context of its own, and whenever the lock is free the count
\* is the number of contexts that are taken.
CalmTable ==
    Calm => /\ LockExcludes
            /\ \A p \in Procs : pc[p] = "run" => owner[context[p]] = p
            /\ lock = NONE =>
                  allocated = Cardinality({c \in Contexts : owner[c] # NONE})

\* A process that dies with the lock does not block the others for good: when
\* some process waits, the dead one's pid is taken out of the lock.
Waiting == {p \in Procs : pc[p] \in {"cas", "probe", "clear"}}
DeadHolderCleared ==
    \A p \in Procs :
        (lock = p /\ pc[p] \in Ended /\ Waiting # {}) ~> (lock # p \/ Waiting = {})
=============================================================================
