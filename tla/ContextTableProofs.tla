------------------------- MODULE ContextTableProofs -------------------------
(***************************************************************************)
(* Proofs about ContextTable, in two layers:                               *)
(*   IType    types; no process has two contexts, and none before it has   *)
(*            marked one, so that context_allocate always finds one free;  *)
(*            true however processes exit and are killed;                  *)
(*   Orderly  until the first process exits or is killed: the lock word is *)
(*            the process inside the table, and the count is off by one    *)
(*            exactly between the two halves of its update.                *)
(***************************************************************************)
EXTENDS ContextTable, TLAPS, FiniteSetTheorems, WellFoundedInduction

Waits(p) == pc[p] \in {"cas", "probe", "clear"}

\* A process that has not marked a context yet.
Unmarked(p) ==
    \/ pc[p] \in {"off", "init", "sweep", "take", "mark", "stale"}
    \/ Waits(p) /\ ret[p] \in {"sweep", "stale"}

\* A process inside table_lock was called for one of four things; one that has
\* not marked a context has none, and no process has two.
Owners ==
    /\ \A p \in Procs : Waits(p) => ret[p] \in {"sweep", "stale", "copy", "free"}
    /\ \A p \in Procs : Unmarked(p) => \A c \in Contexts : owner[c] # p
    /\ \A c, d \in Contexts : owner[c] # NONE /\ owner[c] = owner[d] => c = d

IType == TypeOK /\ Owners

\* The contexts that some process has.
TakenContexts == {c \in Contexts : owner[c] # NONE}

\* A process that has a context that is its own.
HasContext(p) ==
    \/ pc[p] \in {"inc", "run", "copy", "free"}
    \/ pc[p] = "unlock" /\ ret[p] \in {"sweep", "copy"}
    \/ Waits(p) /\ ret[p] \in {"copy", "free"}

\* The pid in the lock word is that of the process inside the table; nobody
\* takes the lock from a holder that is gone, since none is.
Holder ==
    /\ \A p \in Procs : pc[p] \in Locked <=> lock = p
    /\ \A p \in Procs : pc[p] \notin {"clear", "stale"} /\ ret[p] # "stale"
    /\ \A p \in Procs : pc[p] = "probe" =>
          seen[p] \in Procs /\ pc[seen[p]] \notin {"off", "init", "aborted"}
    /\ \A p \in Procs :
          /\ pc[p] \in {"sweep", "take", "mark", "inc"} => ret[p] = "sweep"
          /\ pc[p] \in {"free", "dec"} => ret[p] = "free"
          /\ pc[p] = "copy" => ret[p] = "copy"
          /\ pc[p] = "unlock" => ret[p] \in {"sweep", "copy", "free"}

\* What each context is to its process, and its process to it.
Contents ==
    /\ \A c \in Contexts, p \in Procs : owner[c] = p => pc[p] # "aborted"
    /\ \A p \in Procs : HasContext(p) =>
          context[p] \in Contexts /\ owner[context[p]] = p
    /\ \A p \in Procs : pc[p] = "mark" =>
          context[p] \in Contexts /\ owner[context[p]] = NONE
    /\ \A p \in Procs : pc[p] = "sweep" =>
          /\ at[p] \in Contexts
          /\ left[p] # 0 => \E c \in Contexts : c >= at[p] /\ owner[c] # NONE

\* The count, while a process is inside the table and while none is.
Counted ==
    /\ lock = NONE => allocated = Cardinality(TakenContexts)
    /\ \A p \in Procs :
          /\ pc[p] \in Locked \ {"inc", "dec"} => allocated = Cardinality(TakenContexts)
          /\ pc[p] = "inc" => allocated + 1 = Cardinality(TakenContexts)
          /\ pc[p] = "dec" => allocated = Cardinality(TakenContexts) + 1
          /\ pc[p] \in {"inc", "dec"} => count[p] = allocated

Orderly == Calm => Holder /\ Contents /\ Counted
-----------------------------------------------------------------------------
\* A set of naturals that is not empty has a least element.
LEMMA Least ==
    ASSUME NEW T, T \subseteq Nat, T # {} PROVE \E x \in T : \A y \in T : x <= y
  <1>1. \E x \in T : \A y \in T : ~ (<<y, x>> \in OpToRel(<, Nat))
    BY WFMin, NatLessThanWellFounded
  <1>2. PICK x \in T : \A y \in T : ~ (<<y, x>> \in OpToRel(<, Nat))
    BY <1>1
  <1>3. ASSUME NEW y \in T PROVE x <= y
    <2>1. x \in Nat /\ y \in Nat OBVIOUS
    <2>2. y < x => <<y, x>> \in OpToRel(<, Nat) BY <2>1 DEF OpToRel
    <2>3. ~ (y < x) BY <1>2, <2>2
    <2> QED BY <2>1, <2>3
  <1> QED BY <1>3
\* There are as many contexts as processes at least, and the count can hold
\* the number of processes (TableAssumption).
LEMMA Consts ==
    /\ NContexts \in Nat /\ CountMod \in Nat /\ NONE \notin Procs
    /\ IsFiniteSet(Procs) /\ Cardinality(Procs) \in Nat
    /\ NContexts >= Cardinality(Procs) /\ CountMod > Cardinality(Procs)
    /\ IsFiniteSet(Contexts) /\ Cardinality(Contexts) = NContexts
    /\ \A p \in Procs : NContexts >= 1
  <1>1. /\ NContexts \in Nat /\ CountMod \in Nat /\ NONE \notin Procs
        /\ IsFiniteSet(Procs) /\ Cardinality(Procs) \in Nat
        /\ NContexts >= Cardinality(Procs) /\ CountMod > Cardinality(Procs)
    BY TableAssumption, FS_CardinalityType
  <1>2. IsFiniteSet(Contexts) /\ Cardinality(Contexts) = NContexts
    BY <1>1, FS_Interval DEF Contexts
  <1>3. ASSUME NEW p \in Procs PROVE Cardinality(Procs) # 0
    BY <1>1, FS_EmptySet
  <1> QED BY <1>1, <1>2, <1>3

\* Contexts with different processes are as many as processes at most.
LEMMA OneEach ==
    ASSUME IType, NEW S \in SUBSET Procs, \A c \in TakenContexts : owner[c] \in S
    PROVE  IsFiniteSet(TakenContexts) /\ Cardinality(TakenContexts) \in Nat
           /\ Cardinality(TakenContexts) <= Cardinality(S)
  <1>1. [c \in TakenContexts |-> owner[c]] \in Injection(TakenContexts, S)
    BY DEF IType, Owners, TakenContexts, Injection, IsInjective
  <1>2. IsFiniteSet(S) BY Consts, FS_Subset
  <1>3. IsFiniteSet(TakenContexts) /\ Cardinality(TakenContexts) <= Cardinality(S)
    BY <1>1, <1>2, FS_Injection
  <1> QED BY <1>3, FS_CardinalityType

\* No more contexts are taken than there are processes, so the count does not
\* reach its modulus.
LEMMA TakenBound ==
    ASSUME IType
    PROVE  /\ IsFiniteSet(TakenContexts) /\ Cardinality(TakenContexts) \in Nat
           /\ Cardinality(TakenContexts) < CountMod
  <1>1. \A c \in TakenContexts : owner[c] \in Procs
    BY DEF IType, TypeOK, TakenContexts
  <1> QED BY <1>1, OneEach, Consts

\* context_allocate finds a context: the process that asks has none.
LEMMA SomeFree ==
    ASSUME IType, NEW p \in Procs, pc[p] = "take"
    PROVE  FirstFree \in Contexts /\ owner[FirstFree] = NONE
  <1>1. \A c \in TakenContexts : owner[c] \in Procs \ {p}
    BY DEF IType, TypeOK, Owners, Unmarked, TakenContexts
  <1>2. Cardinality(TakenContexts) <= Cardinality(Procs \ {p})
        /\ Cardinality(TakenContexts) \in Nat
    BY <1>1, OneEach
  <1>3. Cardinality(Procs \ {p}) = Cardinality(Procs) - 1
    BY Consts, FS_RemoveElement
  <1>4. TakenContexts # Contexts BY <1>2, <1>3, Consts
  <1> DEFINE F == {c \in Contexts : owner[c] = NONE}
  <1>5. F # {} BY <1>4 DEF TakenContexts
  <1>6. F \subseteq Nat BY Consts DEF Contexts
  <1>7. \E x \in F : \A y \in F : x <= y BY <1>5, <1>6, Least
  <1>8. \E c \in Contexts : owner[c] = NONE /\ \A d \in Contexts : owner[d] = NONE => c <= d
    BY <1>7
  <1> QED BY <1>8 DEF FirstFree
-----------------------------------------------------------------------------
\* A turn of the loop of context_allocate is one of five: the end, the next
\* context, the assertion, and an allocated context with or without its
\* process.
LEMMA SweepCases ==
    ASSUME NEW p \in Procs, at[p] \in 0 .. NContexts, Sweep(p)
    PROVE  /\ pc[p] = "sweep" /\ UNCHANGED <<lock, allocated, owner>>
           /\ \/ /\ left[p] = 0 /\ Goto(p, "take") /\ at' = [at EXCEPT ![p] = 0]
                 /\ UNCHANGED <<ret, seen, context, count, left>>
              \/ /\ left[p] # 0 /\ owner[at[p]] = NONE /\ at[p] < NContexts
                 /\ at' = [at EXCEPT ![p] = at[p] + 1]
                 /\ UNCHANGED <<pc, ret, seen, context, count, left>>
              \/ /\ left[p] # 0 /\ owner[at[p]] = NONE /\ at[p] = NContexts
                 /\ End(p, "aborted")
              \/ /\ left[p] # 0 /\ owner[at[p]] # NONE /\ Exists(owner[at[p]])
                 /\ left' = [left EXCEPT ![p] = left[p] - 1]
                 /\ UNCHANGED <<pc, ret, seen, context, count, at>>
              \/ /\ left[p] # 0 /\ owner[at[p]] # NONE /\ ~ Exists(owner[at[p]])
                 /\ left' = [left EXCEPT ![p] = left[p] - 1]
                 /\ CallLock(p, "stale")
                 /\ UNCHANGED <<seen, context, count, at>>
  <1>1. at[p] < NContexts \/ at[p] = NContexts BY Consts
  <1>2. CASE left[p] = 0 BY <1>2 DEF Sweep
  <1>3. CASE left[p] # 0 /\ owner[at[p]] = NONE /\ at[p] < NContexts
    <2>1. at[p] # NContexts BY <1>3, Consts
    <2> QED BY <1>3, <2>1 DEF Sweep
  <1>4. CASE left[p] # 0 /\ owner[at[p]] = NONE /\ at[p] = NContexts
    <2>1. ~ (at[p] < NContexts) BY <1>4, Consts
    <2> QED BY <1>4, <2>1 DEF Sweep
  <1>5. CASE left[p] # 0 /\ owner[at[p]] # NONE BY <1>5 DEF Sweep
  <1> QED BY <1>1, <1>2, <1>3, <1>4, <1>5

\* The table starts with all contexts free.
LEMMA TypeInit == Init => IType
  BY Consts DEF Init, IType, TypeOK, Owners, Unmarked, Waits, Outside, Ended, Locked, Contexts

\* Every step keeps the types.
LEMMA TypeStep == ASSUME IType, [Next]_vars PROVE TypeOK'
  <1> USE Consts DEF IType, TypeOK, Outside, Ended, Locked, Goto, CallLock, End
  <1>1. ASSUME NEW p \in Procs, Start(p) PROVE TypeOK' BY <1>1 DEF Start
  <1>2. ASSUME NEW p \in Procs, InitCheck(p) PROVE TypeOK' BY <1>2 DEF InitCheck
  <1>3. ASSUME NEW p \in Procs, LockCas(p) PROVE TypeOK' BY <1>3 DEF LockCas
  <1>4. ASSUME NEW p \in Procs, LockProbe(p) PROVE TypeOK' BY <1>4 DEF LockProbe
  <1>5. ASSUME NEW p \in Procs, LockClear(p) PROVE TypeOK' BY <1>5 DEF LockClear
  <1>6. ASSUME NEW p \in Procs, Unlock(p) PROVE TypeOK' BY <1>6 DEF Unlock
  <1>7. ASSUME NEW p \in Procs, Sweep(p) PROVE TypeOK'
    BY <1>7, SweepCases
  <1>8. ASSUME NEW p \in Procs, FreeStale(p) PROVE TypeOK' BY <1>8 DEF FreeStale
  <1>9. ASSUME NEW p \in Procs, Take(p) PROVE TypeOK'
    <2>1. FirstFree \in Contexts BY <1>9, SomeFree DEF Take
    <2> QED BY <1>9, <2>1 DEF Take
  <1>10. ASSUME NEW p \in Procs, Mark(p) PROVE TypeOK' BY <1>10 DEF Mark
  <1>11. ASSUME NEW p \in Procs, Count(p) PROVE TypeOK' BY <1>11 DEF Count
  <1>12. ASSUME NEW p \in Procs, GetAffinity(p) PROVE TypeOK' BY <1>12 DEF GetAffinity
  <1>13. ASSUME NEW p \in Procs, Copy(p) PROVE TypeOK' BY <1>13 DEF Copy
  <1>14. ASSUME NEW p \in Procs, Finit(p) PROVE TypeOK' BY <1>14 DEF Finit
  <1>15. ASSUME NEW p \in Procs, Free(p) PROVE TypeOK' BY <1>15 DEF Free
  <1>16. ASSUME NEW p \in Procs, Uncount(p) PROVE TypeOK' BY <1>16 DEF Uncount
  <1>17. ASSUME NEW p \in Procs, Kill(p) PROVE TypeOK' BY <1>17 DEF Kill
  <1>18. CASE UNCHANGED vars BY <1>18 DEF vars
  <1> QED
    BY <1>1, <1>2, <1>3, <1>4, <1>5, <1>6, <1>7, <1>8, <1>9, <1>10, <1>11, <1>12, <1>13,
       <1>14, <1>15, <1>16, <1>17, <1>18 DEF Next, Step

\* Every step keeps what is known of the owners: a process marks a context
\* only once in its life.
LEMMA OwnersStep == ASSUME IType, [Next]_vars, TypeOK' PROVE Owners'
  <1> USE Consts DEF IType, TypeOK, Owners, Unmarked, Waits, Outside, Ended, Locked,
                     Goto, CallLock, End
  <1>1. ASSUME NEW p \in Procs, Start(p) PROVE Owners' BY <1>1 DEF Start
  <1>2. ASSUME NEW p \in Procs, InitCheck(p) PROVE Owners' BY <1>2 DEF InitCheck
  <1>3. ASSUME NEW p \in Procs, LockCas(p) PROVE Owners' BY <1>3 DEF LockCas
  <1>4. ASSUME NEW p \in Procs, LockProbe(p) PROVE Owners' BY <1>4 DEF LockProbe
  <1>5. ASSUME NEW p \in Procs, LockClear(p) PROVE Owners' BY <1>5 DEF LockClear
  <1>6. ASSUME NEW p \in Procs, Unlock(p) PROVE Owners' BY <1>6 DEF Unlock
  <1>7. ASSUME NEW p \in Procs, Sweep(p) PROVE Owners'
    BY <1>7, SweepCases
  <1>8. ASSUME NEW p \in Procs, FreeStale(p) PROVE Owners' BY <1>8 DEF FreeStale
  <1>9. ASSUME NEW p \in Procs, Take(p) PROVE Owners' BY <1>9 DEF Take
  <1>10. ASSUME NEW p \in Procs, Mark(p) PROVE Owners' BY <1>10 DEF Mark
  <1>11. ASSUME NEW p \in Procs, Count(p) PROVE Owners' BY <1>11 DEF Count
  <1>12. ASSUME NEW p \in Procs, GetAffinity(p) PROVE Owners' BY <1>12 DEF GetAffinity
  <1>13. ASSUME NEW p \in Procs, Copy(p) PROVE Owners' BY <1>13 DEF Copy
  <1>14. ASSUME NEW p \in Procs, Finit(p) PROVE Owners' BY <1>14 DEF Finit
  <1>15. ASSUME NEW p \in Procs, Free(p) PROVE Owners' BY <1>15 DEF Free
  <1>16. ASSUME NEW p \in Procs, Uncount(p) PROVE Owners' BY <1>16 DEF Uncount
  <1>17. ASSUME NEW p \in Procs, Kill(p) PROVE Owners' BY <1>17 DEF Kill
  <1>18. CASE UNCHANGED vars BY <1>18 DEF vars
  <1> QED
    BY <1>1, <1>2, <1>3, <1>4, <1>5, <1>6, <1>7, <1>8, <1>9, <1>10, <1>11, <1>12, <1>13,
       <1>14, <1>15, <1>16, <1>17, <1>18 DEF Next, Step

\* In every state of the table the variables have their types, and the owners
\* are as described; whoever exits, aborts or is killed, and wherever.
LEMMA ITypeInvariant == Spec => []IType
  <1>1. IType /\ [Next]_vars => IType'
    BY TypeStep, OwnersStep DEF IType
  <1> QED BY <1>1, TypeInit, PTL DEF Spec

\* The types of libnumaplace.c's table.  Above all, the search of
\* context_allocate always ends at a context, after any exits and kills: a
\* process marks at most one, so those left behind are never more than the
\* processes there were, and TableAssumption has a context for each.
THEOREM TypeCorrect == Spec => []TypeOK
  <1>1. IType => TypeOK BY DEF IType
  <1> QED BY <1>1, ITypeInvariant, PTL
-----------------------------------------------------------------------------
\* An exit or a kill is for good.
LEMMA CalmBefore ==
    ASSUME IType, [Next]_vars, Calm'
    PROVE  Calm
  <1> USE Consts DEF IType, TypeOK, Calm, Outside, Ended, Locked, Goto, CallLock, End
  <1>1. ASSUME NEW p \in Procs, Start(p) PROVE Calm BY <1>1 DEF Start
  <1>2. ASSUME NEW p \in Procs, InitCheck(p) PROVE Calm BY <1>2 DEF InitCheck
  <1>3. ASSUME NEW p \in Procs, LockCas(p) PROVE Calm BY <1>3 DEF LockCas
  <1>4. ASSUME NEW p \in Procs, LockProbe(p) PROVE Calm BY <1>4 DEF LockProbe
  <1>5. ASSUME NEW p \in Procs, LockClear(p) PROVE Calm BY <1>5 DEF LockClear
  <1>6. ASSUME NEW p \in Procs, Unlock(p) PROVE Calm BY <1>6 DEF Unlock
  <1>7. ASSUME NEW p \in Procs, Sweep(p) PROVE Calm
    BY <1>7, SweepCases
  <1>8. ASSUME NEW p \in Procs, FreeStale(p) PROVE Calm BY <1>8 DEF FreeStale
  <1>9. ASSUME NEW p \in Procs, Take(p) PROVE Calm BY <1>9 DEF Take
  <1>10. ASSUME NEW p \in Procs, Mark(p) PROVE Calm BY <1>10 DEF Mark
  <1>11. ASSUME NEW p \in Procs, Count(p) PROVE Calm BY <1>11 DEF Count
  <1>12. ASSUME NEW p \in Procs, GetAffinity(p) PROVE Calm BY <1>12 DEF GetAffinity
  <1>13. ASSUME NEW p \in Procs, Copy(p) PROVE Calm BY <1>13 DEF Copy
  <1>14. ASSUME NEW p \in Procs, Finit(p) PROVE Calm BY <1>14 DEF Finit
  <1>15. ASSUME NEW p \in Procs, Free(p) PROVE Calm BY <1>15 DEF Free
  <1>16. ASSUME NEW p \in Procs, Uncount(p) PROVE Calm BY <1>16 DEF Uncount
  <1>17. ASSUME NEW p \in Procs, Kill(p) PROVE Calm BY <1>17 DEF Kill
  <1>18. CASE UNCHANGED vars BY <1>18 DEF vars
  <1> QED
    BY <1>1, <1>2, <1>3, <1>4, <1>5, <1>6, <1>7, <1>8, <1>9, <1>10, <1>11, <1>12, <1>13,
       <1>14, <1>15, <1>16, <1>17, <1>18 DEF Next, Step

\* While the table is calm, context_allocate meets neither the assertion nor
\* a context whose process is gone.
LEMMA SweepCalm ==
    ASSUME IType, Calm, Holder, Contents, NEW p \in Procs, Sweep(p)
    PROVE  /\ pc[p] = "sweep" /\ UNCHANGED <<lock, allocated, owner>>
           /\ \/ /\ left[p] = 0 /\ Goto(p, "take") /\ at' = [at EXCEPT ![p] = 0]
                 /\ UNCHANGED <<ret, seen, context, count, left>>
              \/ /\ left[p] # 0 /\ owner[at[p]] = NONE /\ at[p] < NContexts
                 /\ at' = [at EXCEPT ![p] = at[p] + 1]
                 /\ UNCHANGED <<pc, ret, seen, context, count, left>>
              \/ /\ left[p] # 0 /\ owner[at[p]] # NONE
                 /\ left' = [left EXCEPT ![p] = left[p] - 1]
                 /\ UNCHANGED <<pc, ret, seen, context, count, at>>
  <1>1. pc[p] = "sweep" BY SweepCases DEF IType, TypeOK
  <1>2. at[p] \in Contexts BY <1>1 DEF Contents
  <1>3. ~ (left[p] # 0 /\ owner[at[p]] = NONE /\ at[p] = NContexts)
    BY <1>1, Consts DEF Contents, Contexts
  <1>4. owner[at[p]] # NONE => Exists(owner[at[p]])
    <2>1. owner[at[p]] \in Procs \cup {NONE} BY <1>2 DEF IType, TypeOK
    <2> QED BY <1>2, <2>1 DEF Contents, Exists, Calm, Ended
  <1> QED BY <1>3, <1>4, SweepCases DEF IType, TypeOK

\* The lock word keeps naming the process inside the table.
LEMMA HolderStep ==
    ASSUME IType, TypeOK', [Next]_vars, Calm, Calm', Holder, Contents, Counted
    PROVE  Holder'
  <1> USE Consts DEF IType, TypeOK, Owners, Calm, Holder, Outside, Ended, Locked, Waits, Exists,
                     Goto, CallLock, End
  <1>1. ASSUME NEW p \in Procs, Start(p) PROVE Holder' BY <1>1 DEF Start
  <1>2. ASSUME NEW p \in Procs, InitCheck(p) PROVE Holder' BY <1>2 DEF InitCheck
  <1>3. ASSUME NEW p \in Procs, LockCas(p) PROVE Holder' BY <1>3 DEF LockCas
  <1>4. ASSUME NEW p \in Procs, LockProbe(p) PROVE Holder' BY <1>4 DEF LockProbe
  <1>5. ASSUME NEW p \in Procs, LockClear(p) PROVE Holder' BY <1>5 DEF LockClear
  <1>6. ASSUME NEW p \in Procs, Unlock(p) PROVE Holder' BY <1>6 DEF Unlock
  <1>7. ASSUME NEW p \in Procs, Sweep(p) PROVE Holder'
    BY <1>7, SweepCalm
  <1>8. ASSUME NEW p \in Procs, FreeStale(p) PROVE Holder' BY <1>8 DEF FreeStale
  <1>9. ASSUME NEW p \in Procs, Take(p) PROVE Holder' BY <1>9 DEF Take
  <1>10. ASSUME NEW p \in Procs, Mark(p) PROVE Holder' BY <1>10 DEF Mark
  <1>11. ASSUME NEW p \in Procs, Count(p) PROVE Holder' BY <1>11 DEF Count
  <1>12. ASSUME NEW p \in Procs, GetAffinity(p) PROVE Holder' BY <1>12 DEF GetAffinity
  <1>13. ASSUME NEW p \in Procs, Copy(p) PROVE Holder' BY <1>13 DEF Copy
  <1>14. ASSUME NEW p \in Procs, Finit(p) PROVE Holder' BY <1>14 DEF Finit
  <1>15. ASSUME NEW p \in Procs, Free(p) PROVE Holder' BY <1>15 DEF Free
  <1>16. ASSUME NEW p \in Procs, Uncount(p) PROVE Holder' BY <1>16 DEF Uncount
  <1>17. ASSUME NEW p \in Procs, Kill(p) PROVE Holder' BY <1>17 DEF Kill
  <1>18. CASE UNCHANGED vars BY <1>18 DEF vars
  <1> QED
    BY <1>1, <1>2, <1>3, <1>4, <1>5, <1>6, <1>7, <1>8, <1>9, <1>10, <1>11, <1>12, <1>13,
       <1>14, <1>15, <1>16, <1>17, <1>18 DEF Next, Step

\* Contexts and processes keep belonging to each other.
LEMMA ContentsStep ==
    ASSUME IType, TypeOK', [Next]_vars, Calm, Calm', Holder, Contents, Counted
    PROVE  Contents'
  <1> USE Consts DEF IType, TypeOK, Owners, Calm, Holder, Contents, HasContext, Unmarked, Waits,
                     Outside, Ended, Locked, Goto, CallLock, End
  <1>1. ASSUME NEW p \in Procs, Start(p) PROVE Contents' BY <1>1 DEF Start
  <1>2. ASSUME NEW p \in Procs, InitCheck(p) PROVE Contents' BY <1>2 DEF InitCheck
  <1>3. ASSUME NEW p \in Procs, LockCas(p) PROVE Contents'
    <2>1. CASE lock = NONE /\ ret[p] = "sweep"
      <3>1. Cardinality(TakenContexts) = allocated BY <2>1 DEF Counted
      <3>2. allocated # 0 => \E c \in Contexts : owner[c] # NONE
        <4>1. ASSUME TakenContexts = {} PROVE allocated = 0 BY <3>1, <4>1, FS_EmptySet
        <4> QED BY <4>1 DEF TakenContexts
      <3>3. 1 \in Contexts /\ \A c \in Contexts : c >= 1 BY DEF Contexts
      <3> QED BY <1>3, <2>1, <3>2, <3>3 DEF LockCas
    <2>2. CASE ~ (lock = NONE /\ ret[p] = "sweep") BY <1>3, <2>2 DEF LockCas
    <2> QED BY <2>1, <2>2
  <1>4. ASSUME NEW p \in Procs, LockProbe(p) PROVE Contents' BY <1>4 DEF LockProbe
  <1>5. ASSUME NEW p \in Procs, LockClear(p) PROVE Contents' BY <1>5 DEF LockClear
  <1>6. ASSUME NEW p \in Procs, Unlock(p) PROVE Contents' BY <1>6 DEF Unlock
  <1>7. ASSUME NEW p \in Procs, Sweep(p) PROVE Contents'
    <2>1. pc[p] = "sweep" /\ at[p] \in Contexts /\ Contexts = 1 .. NContexts
      BY <1>7, SweepCalm DEF Contexts
    <2>2. CASE left[p] = 0 BY <1>7, <2>2, SweepCalm
    <2>3. CASE left[p] # 0 /\ owner[at[p]] = NONE
      <3>1. /\ at[p] < NContexts /\ at' = [at EXCEPT ![p] = at[p] + 1]
            /\ UNCHANGED <<lock, allocated, owner, pc, ret, seen, context, count, left>>
        BY <1>7, <2>3, SweepCalm
      <3>2. at'[p] \in Contexts BY <2>1, <3>1
      <3>3. PICK c \in Contexts : c >= at[p] /\ owner[c] # NONE BY <2>1, <2>3
      <3>4. c >= at'[p] BY <2>1, <2>3, <3>1, <3>3
      <3> QED BY <2>1, <3>1, <3>2, <3>3, <3>4
    <2>4. CASE left[p] # 0 /\ owner[at[p]] # NONE
      <3>1. /\ left' = [left EXCEPT ![p] = left[p] - 1]
            /\ UNCHANGED <<lock, allocated, owner, pc, ret, seen, context, count, at>>
        BY <1>7, <2>4, SweepCalm
      <3>2. \E c \in Contexts : c >= at[p] /\ owner[c] # NONE BY <2>1, <2>4
      <3> QED BY <2>1, <3>1, <3>2
    <2> QED BY <2>2, <2>3, <2>4
  <1>8. ASSUME NEW p \in Procs, FreeStale(p) PROVE Contents' BY <1>8 DEF FreeStale
  <1>9. ASSUME NEW p \in Procs, Take(p) PROVE Contents'
    BY <1>9, SomeFree DEF Take
  <1>10. ASSUME NEW p \in Procs, Mark(p) PROVE Contents' BY <1>10 DEF Mark
  <1>11. ASSUME NEW p \in Procs, Count(p) PROVE Contents' BY <1>11 DEF Count
  <1>12. ASSUME NEW p \in Procs, GetAffinity(p) PROVE Contents' BY <1>12 DEF GetAffinity
  <1>13. ASSUME NEW p \in Procs, Copy(p) PROVE Contents' BY <1>13 DEF Copy
  <1>14. ASSUME NEW p \in Procs, Finit(p) PROVE Contents' BY <1>14 DEF Finit
  <1>15. ASSUME NEW p \in Procs, Free(p) PROVE Contents' BY <1>15 DEF Free
  <1>16. ASSUME NEW p \in Procs, Uncount(p) PROVE Contents' BY <1>16 DEF Uncount
  <1>17. ASSUME NEW p \in Procs, Kill(p) PROVE Contents' BY <1>17 DEF Kill
  <1>18. CASE UNCHANGED vars BY <1>18 DEF vars
  <1> QED
    BY <1>1, <1>2, <1>3, <1>4, <1>5, <1>6, <1>7, <1>8, <1>9, <1>10, <1>11, <1>12, <1>13,
       <1>14, <1>15, <1>16, <1>17, <1>18 DEF Next, Step

\* The count does not wrap where it fits.
LEMMA SmallMod == \A m \in Nat \ {0} : \A k \in 0 .. m - 1 : k % m = k
  OBVIOUS

\* The count keeps being that of the contexts.
LEMMA CountedStep ==
    ASSUME IType, TypeOK', [Next]_vars, Calm, Calm', Holder, Contents, Counted
    PROVE  Counted'
  <1> USE Consts DEF IType, TypeOK, Calm, Holder, Counted, Outside, Ended, Locked, TakenContexts,
                     Goto, CallLock, End
  <1>1. ASSUME NEW p \in Procs, Start(p) PROVE Counted' BY <1>1 DEF Start
  <1>2. ASSUME NEW p \in Procs, InitCheck(p) PROVE Counted' BY <1>2 DEF InitCheck
  <1>3. ASSUME NEW p \in Procs, LockCas(p) PROVE Counted'
    <2>1. TakenContexts' = TakenContexts BY <1>3 DEF LockCas
    <2>2. ret[p] \in {"sweep", "copy", "free"}
      BY <1>3 DEF LockCas, Owners, Waits
    <2> HIDE DEF TakenContexts
    <2> QED BY <1>3, <2>1, <2>2 DEF LockCas
  <1>4. ASSUME NEW p \in Procs, LockProbe(p) PROVE Counted' BY <1>4 DEF LockProbe
  <1>5. ASSUME NEW p \in Procs, LockClear(p) PROVE Counted' BY <1>5 DEF LockClear
  <1>6. ASSUME NEW p \in Procs, Unlock(p) PROVE Counted' BY <1>6 DEF Unlock
  <1>7. ASSUME NEW p \in Procs, Sweep(p) PROVE Counted'
    BY <1>7, SweepCalm
  <1>8. ASSUME NEW p \in Procs, FreeStale(p) PROVE Counted' BY <1>8 DEF FreeStale
  <1>9. ASSUME NEW p \in Procs, Take(p) PROVE Counted' BY <1>9 DEF Take
  <1>10. ASSUME NEW p \in Procs, Mark(p) PROVE Counted'
    <2>1. context[p] \in Contexts /\ owner[context[p]] = NONE BY <1>10 DEF Mark, Contents
    <2>2. TakenContexts' = TakenContexts \cup {context[p]}
      BY <1>10, <2>1 DEF Mark, TakenContexts
    <2>3. Cardinality(TakenContexts') = Cardinality(TakenContexts) + 1
      <3>1. context[p] \notin TakenContexts BY <2>1
      <3> HIDE DEF TakenContexts
      <3> QED BY <2>2, <3>1, TakenBound, FS_AddElement
    <2> HIDE DEF TakenContexts
    <2> QED BY <1>10, <2>3, TakenBound DEF Mark
  <1>11. ASSUME NEW p \in Procs, Count(p) PROVE Counted'
    <2>1. allocated' = allocated + 1
      <3>1. allocated' = (count[p] + 1) % CountMod /\ count[p] = allocated
        BY <1>11 DEF Count
      <3>2. allocated + 1 = Cardinality(TakenContexts) BY <1>11 DEF Count
      <3>3. allocated + 1 \in 0 .. CountMod - 1
        <4> HIDE DEF TakenContexts
        <4> QED BY <3>2, TakenBound
      <3> QED BY ONLY <3>1, <3>3, SmallMod, Consts
    <2>2. TakenContexts' = TakenContexts BY <1>11 DEF Count
    <2> HIDE DEF TakenContexts
    <2> QED BY <1>11, <2>1, <2>2 DEF Count
  <1>12. ASSUME NEW p \in Procs, GetAffinity(p) PROVE Counted' BY <1>12 DEF GetAffinity
  <1>13. ASSUME NEW p \in Procs, Copy(p) PROVE Counted' BY <1>13 DEF Copy
  <1>14. ASSUME NEW p \in Procs, Finit(p) PROVE Counted' BY <1>14 DEF Finit
  <1>15. ASSUME NEW p \in Procs, Free(p) PROVE Counted'
    <2>1. context[p] \in Contexts /\ owner[context[p]] = p
      BY <1>15 DEF Free, Contents, HasContext
    <2>2. TakenContexts' = TakenContexts \ {context[p]}
      BY <1>15, <2>1 DEF Free, TakenContexts
    <2>3. Cardinality(TakenContexts') = Cardinality(TakenContexts) - 1
      <3>1. context[p] \in TakenContexts BY <2>1
      <3> HIDE DEF TakenContexts
      <3> QED BY <2>2, <3>1, TakenBound, FS_RemoveElement
    <2> HIDE DEF TakenContexts
    <2> QED BY <1>15, <2>3, TakenBound DEF Free
  <1>16. ASSUME NEW p \in Procs, Uncount(p) PROVE Counted'
    <2>1. allocated' = allocated - 1
      <3>1. allocated' = (count[p] - 1) % CountMod /\ count[p] = allocated
        BY <1>16 DEF Uncount
      <3>2. allocated = Cardinality(TakenContexts) + 1 /\ allocated < CountMod
        BY <1>16 DEF Uncount
      <3>3. allocated - 1 \in 0 .. CountMod - 1
        <4> HIDE DEF TakenContexts
        <4> QED BY <3>2, TakenBound
      <3> QED BY ONLY <3>1, <3>3, SmallMod, Consts
    <2>2. TakenContexts' = TakenContexts BY <1>16 DEF Uncount
    <2> HIDE DEF TakenContexts
    <2> QED BY <1>16, <2>1, <2>2, TakenBound DEF Uncount
  <1>17. ASSUME NEW p \in Procs, Kill(p) PROVE Counted' BY <1>17 DEF Kill
  <1>18. CASE UNCHANGED vars BY <1>18 DEF vars
  <1> QED
    BY <1>1, <1>2, <1>3, <1>4, <1>5, <1>6, <1>7, <1>8, <1>9, <1>10, <1>11, <1>12, <1>13,
       <1>14, <1>15, <1>16, <1>17, <1>18 DEF Next, Step

\* Orderly is inductive: what disturbs it is an exit or a kill.
LEMMA OrderlyInvariant == Spec => []Orderly
  <1>1. Init => Orderly
    <2> SUFFICES ASSUME Init PROVE Holder /\ Contents /\ Counted BY DEF Orderly
    <2>1. TakenContexts = {} BY DEF Init, TakenContexts
    <2>2. Cardinality(TakenContexts) = 0 BY <2>1, FS_EmptySet
    <2>3. Holder BY Consts DEF Init, Holder, Locked
    <2>4. Contents BY Consts DEF Init, Contents, HasContext, Waits
    <2>5. Counted BY <2>2 DEF Init, Counted, Locked
    <2> QED BY <2>3, <2>4, <2>5
  <1>2. IType /\ IType' /\ Orderly /\ [Next]_vars => Orderly'
    <2> SUFFICES ASSUME IType, IType', Orderly, [Next]_vars, Calm'
                 PROVE  Holder' /\ Contents' /\ Counted'
      BY DEF Orderly
    <2>1. Calm BY CalmBefore
    <2>2. Holder /\ Contents /\ Counted BY <2>1 DEF Orderly
    <2>3. TypeOK' BY DEF IType
    <2> QED BY <2>1, <2>2, <2>3, HolderStep, ContentsStep, CountedStep
  <1> QED BY <1>1, <1>2, ITypeInvariant, PTL DEF Spec

\* Until the first process exits or is killed, table_lock excludes, a process
\* that runs has the context it was given, and the count that the constructor
\* asserts on is right whenever the lock is free; for any number of processes.
THEOREM CalmTableHolds == Spec => []CalmTable
  <1>1. IType /\ Orderly => CalmTable
    <2> SUFFICES ASSUME IType, Calm, Holder, Contents, Counted
                 PROVE  /\ LockExcludes
                        /\ \A p \in Procs : pc[p] = "run" => owner[context[p]] = p
                        /\ lock = NONE => allocated = Cardinality(TakenContexts)
      BY DEF Orderly, CalmTable, TakenContexts
    <2>1. LockExcludes BY DEF LockExcludes, InTable, Holder
    <2>2. \A p \in Procs : pc[p] = "run" => owner[context[p]] = p
      BY DEF Contents, HasContext
    <2> QED BY <2>1, <2>2 DEF Counted
  <1> QED BY <1>1, ITypeInvariant, OrderlyInvariant, PTL
=============================================================================
