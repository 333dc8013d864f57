--------------------------- MODULE LauncherProofs ---------------------------
(***************************************************************************)
(* Proofs about Launcher: its types, and that however launchers, kills and *)
(* the release agent interleave no core is in two cpusets and every        *)
(* application runs on the cores and memory asked for.                     *)
(*                                                                         *)
(* A launcher decides on a mask that may be stale.  What saves it is that  *)
(* its cpuset is exclusive before the cores are written (Exclusive), that  *)
(* the name of a launcher that has left its cpuset behind is not used      *)
(* again (Sets), and that it brings what it chose to its cpuset unchanged  *)
(* (Chosen).                                                               *)
(***************************************************************************)
EXTENDS Launcher, TLAPS, FiniteSetTheorems, WellFoundedInduction

\* A launcher that goes on to allocate has seen a core that is free.
SeenFree == \A p \in Launchers : pc[p] \in {"mkdir", "setup"} => my[p].available # {}

Places ==
    {"off", "scan", "mkdir", "setup", "allocate", "cpus", "mems", "tasks", "exec", "run", "done"}

\* The variables of a launcher, and a cpuset.
MyType ==
    [stride : Nat, available : SUBSET Cores, must : SUBSET Launchers,
     read : SUBSET Launchers, cores : SUBSET Cores, mems : SUBSET Nodes, last : Cores]
SetType ==
    [exclusive : BOOLEAN, notify : BOOLEAN, cpus : SUBSET Cores,
     mems : SUBSET Nodes, tasks : BOOLEAN, left : BOOLEAN]

\* TypeOK in terms of these, and SeenFree.
IType ==
    /\ pc \in [Launchers -> Places]
    /\ req \in [Launchers -> 0 .. NCores]
    /\ my \in [Launchers -> MyType]
    /\ dir \subseteq Launchers /\ killed \subseteq Launchers
    /\ cpuset \in [Launchers -> SetType]
    /\ SeenFree

\* Which cpusets exist when, and which of them have lost their last task.
Sets ==
    \A p \in Launchers :
        /\ p \notin dir => cpuset[p].cpus = {} /\ ~ cpuset[p].left
        /\ pc[p] \in {"off", "scan", "mkdir"} => p \notin dir
        /\ pc[p] \in {"setup", "allocate", "cpus", "mems", "tasks", "exec", "run"} => p \in dir
        /\ cpuset[p].tasks => pc[p] \in {"exec", "run"}
        /\ cpuset[p].left => pc[p] = "done"

\* A cpuset with cores is exclusive, and has no core of another.
Exclusive ==
    /\ \A p \in Launchers :
        /\ pc[p] \in {"allocate", "cpus"} => cpuset[p].exclusive
        /\ cpuset[p].cpus # {} => cpuset[p].exclusive
    /\ \A p, q \in Launchers : p # q => cpuset[p].cpus \cap cpuset[q].cpus = {}

NodesOf(s) == {NodeOf[c] : c \in s}

\* What launcher p has chosen, from the scan to the cpuset.
ChosenBy(p) ==
    /\ pc[p] \in {"off", "scan", "mkdir", "setup", "done"} =>
        my[p].cores = {} /\ my[p].mems = {}
    /\ pc[p] \in {"allocate", "cpus", "mems", "tasks"} => my[p].mems = NodesOf(my[p].cores)
    /\ pc[p] \in {"cpus", "mems", "tasks"} => Cardinality(my[p].cores) = req[p]
    /\ pc[p] \in {"mems", "tasks"} => cpuset[p].cpus = my[p].cores
    /\ pc[p] = "tasks" => cpuset[p].mems = my[p].mems
    /\ pc[p] \in {"exec", "run"} =>
        /\ Cardinality(cpuset[p].cpus) = req[p]
        /\ cpuset[p].mems = NodesOf(cpuset[p].cpus)

Chosen == \A p \in Launchers : ChosenBy(p)

IInv == IType /\ Sets /\ Exclusive /\ Chosen
-----------------------------------------------------------------------------
\* A set of naturals that is not empty has a least element.
LEMMA Least ==
    ASSUME NEW T, T \subseteq Nat, T # {} PROVE \E x \in T : \A y \in T : x <= y
  <1>1. \E x \in T : \A y \in T : ~ (<<y, x>> \in OpToRel(<, Nat))
    BY WFMin, NatLessThanWellFounded
  <1>2. PICK x \in T : \A y \in T : ~ (<<y, x>> \in OpToRel(<, Nat))
    BY <1>1
  <1>3. ASSUME NEW y \in T PROVE x <= y
    <2>1. x \in Nat /\ y \in Nat OBVIOUS
    <2>2. y < x => <<y, x>> \in OpToRel(<, Nat) BY <2>1 DEF OpToRel
    <2>3. ~ (y < x) BY <1>2, <2>2
    <2> QED BY <2>1, <2>3
  <1> QED BY <1>3

\* Cores are naturals below NCores (LauncherAssumption).
LEMMA Consts ==
    /\ NCores \in Nat /\ NCores > 0 /\ Cores \subseteq Nat /\ 0 \in Cores
    /\ NodeOf \in [Cores -> Nodes] /\ Requests \subseteq 0 .. NCores /\ Strides \subseteq Nat
    /\ IsFiniteSet(Cores) /\ Cardinality(Cores) = NCores
  <1>1. NCores \in Nat /\ NCores > 0 /\ NodeOf \in [Cores -> Nodes]
        /\ Requests \subseteq 0 .. NCores /\ Strides \subseteq Nat
    BY LauncherAssumption
  <1>2. IsFiniteSet(Cores) /\ Cardinality(Cores) = NCores
    BY <1>1, FS_Interval DEF Cores
  <1> QED BY <1>1, <1>2 DEF Cores

\* Min and Max of cores are cores.
LEMMA Ends ==
    ASSUME NEW S \in SUBSET Cores, S # {} PROVE Min(S) \in S /\ Max(S) \in S
  <1>1. S \subseteq Nat /\ \A x \in S : x < NCores BY Consts DEF Cores
  <1>2. \E x \in S : \A y \in S : x <= y BY <1>1, Least
  <1>3. Min(S) \in S BY <1>2 DEF Min
  <1> DEFINE T == {NCores - x : x \in S}
  <1>4. T \subseteq Nat /\ T # {}
    <2>1. \A x \in S : NCores - x \in Nat BY <1>1, Consts
    <2> QED BY <2>1
  <1>5. PICK t \in T : \A u \in T : t <= u BY <1>4, Least
  <1>6. PICK x \in S : t = NCores - x BY <1>5
  <1>7. ASSUME NEW y \in S PROVE y <= x
    <2>1. NCores - y \in T OBVIOUS
    <2>2. NCores - x <= NCores - y BY <1>5, <1>6, <2>1
    <2> QED BY <2>2, <1>1, Consts
  <1>8. \E z \in S : \A y \in S : y <= z BY <1>7
  <1>9. Max(S) \in S BY <1>8 DEF Max
  <1> QED BY <1>3, <1>9

\* There are as many cores in a mask as there are cores at most.
LEMMA MaskSize ==
    ASSUME NEW S \in SUBSET Cores
    PROVE  Cardinality(S) \in 0 .. NCores /\ (Cardinality(S) = 0 <=> S = {})
  <1>1. IsFiniteSet(S) /\ Cardinality(S) <= NCores BY Consts, FS_Subset
  <1>2. Cardinality(S) \in Nat BY <1>1, FS_CardinalityType
  <1>3. Cardinality(S) = 0 <=> S = {} BY <1>1, FS_EmptySet
  <1> QED BY <1>1, <1>2, <1>3, Consts

\* The cores a turn takes are cores of its node.
LEMMA TakenType == \A p, n : Taken(p, n) \subseteq CoresOf(n) /\ CoresOf(n) \subseteq Cores
  BY DEF Taken, CoresOf

\* The fields of a launcher's variables.
LEMMA MyFields ==
    \A m \in MyType :
        /\ m.stride \in Nat /\ m.available \in SUBSET Cores /\ m.must \in SUBSET Launchers
        /\ m.read \in SUBSET Launchers /\ m.cores \in SUBSET Cores
        /\ m.mems \in SUBSET Nodes /\ m.last \in Cores
  BY DEF MyType

\* The fields of a cpuset.
LEMMA SetFields ==
    \A s \in SetType :
        /\ s.exclusive \in BOOLEAN /\ s.notify \in BOOLEAN /\ s.cpus \in SUBSET Cores
        /\ s.mems \in SUBSET Nodes /\ s.tasks \in BOOLEAN /\ s.left \in BOOLEAN
  BY DEF SetType

\* A process that is gone has lost its variables; its cpuset is left as it is
\* but for the task, or removed.
LEMMA GoneTypes ==
    ASSUME IType, NEW p \in Launchers, Gone(p), (Leave(p) /\ UNCHANGED dir) \/ Rmdir(p)
    PROVE  /\ pc' = [pc EXCEPT ![p] = "done"]
           /\ my' \in [Launchers -> MyType] /\ my' = [my EXCEPT ![p] = Fresh]
           /\ dir' \subseteq Launchers /\ cpuset' \in [Launchers -> SetType]
  <1>1. Fresh \in MyType BY Consts DEF Fresh, MyType
  <1>2. NewSet \in SetType BY DEF NewSet, SetType
  <1>3. my \in [Launchers -> MyType] /\ cpuset \in [Launchers -> SetType] /\ dir \subseteq Launchers
    BY DEF IType
  <1>4. my' \in [Launchers -> MyType] BY <1>1, <1>3 DEF Gone
  <1>5. CASE Leave(p) /\ UNCHANGED dir
    <2>1. cpuset[p] \in SetType BY <1>3
    <2>2. [cpuset[p] EXCEPT !.tasks = FALSE, !.left = cpuset[p].left \/ cpuset[p].tasks] \in SetType
      BY <2>1 DEF SetType
    <2>3. cpuset' = [cpuset EXCEPT ![p] =
                [cpuset[p] EXCEPT !.tasks = FALSE, !.left = cpuset[p].left \/ cpuset[p].tasks]]
      BY <1>3, <1>5 DEF Leave
    <2> QED BY <1>3, <1>4, <1>5, <2>2, <2>3 DEF Gone
  <1>6. CASE Rmdir(p) BY <1>2, <1>3, <1>4, <1>6 DEF Gone, Rmdir
  <1> QED BY <1>5, <1>6

\* An exit of the launcher is one of the two.
LEMMA ExitTypes ==
    ASSUME IType, NEW p \in Launchers, Exit(p)
    PROVE  Gone(p) /\ ((Leave(p) /\ UNCHANGED dir) \/ Rmdir(p))
  BY DEF Exit
-----------------------------------------------------------------------------
\* Every step keeps the types.
LEMMA TypeStep ==
    ASSUME IType, [Next]_vars
    PROVE  IType'
  <1> USE Consts DEF IType, SeenFree, Places, Goto, KeepSets
  <1>1. ASSUME NEW p \in Launchers, Open(p) PROVE IType'
    <2>1. PICK n \in Requests, s \in Strides :
            /\ req' = [req EXCEPT ![p] = n]
            /\ my' = [my EXCEPT ![p] =
                        [Fresh EXCEPT !.stride = s, !.available = Cores, !.must = dir]]
      BY <1>1 DEF Open
    <2>2. [Fresh EXCEPT !.stride = s, !.available = Cores, !.must = dir] \in MyType
      BY DEF MyType, Fresh
    <2> QED BY <1>1, <2>1, <2>2 DEF Open
  <1>2. ASSUME NEW p \in Launchers, ScanNext(p) PROVE IType'
    <2> DEFINE Seen(q) == [my[p] EXCEPT !.available = my[p].available \ Listed(cpuset[q].cpus),
                                        !.read = my[p].read \cup {q}]
    <2>1. PICK q \in dir : my' = [my EXCEPT ![p] = Seen(q)] BY <1>2 DEF ScanNext
    <2>2. Seen(q) \in MyType
      <3>1. my[p] \in MyType /\ q \in Launchers OBVIOUS
      <3> QED BY <3>1 DEF MyType
    <2> HIDE DEF Seen
    <2> QED BY <1>2, <2>1, <2>2 DEF ScanNext
  <1>3. ASSUME NEW p \in Launchers, ScanMisses(p) PROVE IType'
    BY <1>3, GoneTypes, ExitTypes DEF ScanMisses
  <1>4. ASSUME NEW p \in Launchers, ScanEnds(p) PROVE IType'
    <2>1. my[p].available \in SUBSET Cores BY MyFields
    <2>2. CASE Cardinality(my[p].available) = 0 \/ req[p] > Cardinality(my[p].available)
      BY <1>4, <2>2, GoneTypes, ExitTypes DEF ScanEnds
    <2>3. CASE ~ (Cardinality(my[p].available) = 0 \/ req[p] > Cardinality(my[p].available))
      BY <1>4, <2>1, <2>3, MaskSize DEF ScanEnds
    <2> QED BY <2>2, <2>3
  <1>5. ASSUME NEW p \in Launchers, Mkdir(p) PROVE IType' BY <1>5 DEF Mkdir
  <1>6. ASSUME NEW p \in Launchers, SetUp(p) PROVE IType'
    <2>1. Min(my[p].available) \in Cores BY <1>6, Ends, MyFields DEF SetUp
    <2>2. [my[p] EXCEPT !.last = Min(my[p].available)] \in MyType
      <3>1. my[p] \in MyType OBVIOUS
      <3> QED BY <2>1, <3>1 DEF MyType
    <2>3. [cpuset[p] EXCEPT !.exclusive = TRUE, !.notify = TRUE] \in SetType
      <3>1. cpuset[p] \in SetType OBVIOUS
      <3> QED BY <3>1 DEF SetType
    <2>4. /\ my' = [my EXCEPT ![p] = [my[p] EXCEPT !.last = Min(my[p].available)]]
          /\ cpuset' = [cpuset EXCEPT ![p] =
                            [cpuset[p] EXCEPT !.exclusive = TRUE, !.notify = TRUE]]
      BY <1>6 DEF SetUp, LowestFree
    <2> QED BY <1>6, <2>2, <2>3, <2>4 DEF SetUp
  <1>7. ASSUME NEW p \in Launchers, Turn(p) PROVE IType'
    <2>1. CASE Nodes \subseteq my[p].mems
      BY <1>7, <2>1, GoneTypes, ExitTypes DEF Turn
    <2>2. CASE ~ (Nodes \subseteq my[p].mems)
      <3>1. PICK n \in Nodes \ my[p].mems : \E new \in {Taken(p, n)} :
                /\ IF new = {} THEN UNCHANGED my ELSE Mark(p, n, new)
                /\ Goto(p, IF Cardinality(my[p].cores \cup new) = req[p]
                           THEN "cpus" ELSE "allocate")
        BY <1>7, <2>2 DEF Turn
      <3> DEFINE new == Taken(p, n)
      <3>2. /\ IF new = {} THEN UNCHANGED my ELSE Mark(p, n, new)
            /\ pc' = [pc EXCEPT ![p] = IF Cardinality(my[p].cores \cup new) = req[p]
                           THEN "cpus" ELSE "allocate"]
            /\ UNCHANGED <<req, dir, cpuset, killed>>
        BY <1>7, <2>2, <3>1 DEF Turn
      <3>3. new \subseteq Cores BY TakenType
      <3>4. new # {} => Max(new) \in Cores BY <3>3, Ends
      <3> HIDE DEF new
      <3>5. my' \in [Launchers -> MyType]
        <4>1. my \in [Launchers -> MyType] OBVIOUS
        <4>2. CASE new # {}
          <5>1. my[p] \in MyType BY <4>1
          <5>2. [my[p] EXCEPT !.cores = my[p].cores \cup new, !.available = my[p].available \ new,
                     !.mems = my[p].mems \cup {n}, !.last = Max(new)] \in MyType
            BY <3>3, <3>4, <4>2, <5>1 DEF MyType
          <5> QED BY <3>2, <4>1, <4>2, <5>2 DEF Mark
        <4> QED BY <3>2, <4>1, <4>2
      <3>6. \A q \in Launchers : q # p => my'[q] = my[q] BY <3>2 DEF Mark
      <3> QED BY <3>2, <3>5, <3>6
    <2> QED BY <2>1, <2>2
  <1>8. ASSUME NEW p \in Launchers, WriteCpus(p) PROVE IType'
    <2>1. CASE Conflict(p, my[p].cores)
      BY <1>8, <2>1, GoneTypes, ExitTypes DEF WriteCpus
    <2>2. CASE ~ Conflict(p, my[p].cores)
      <3>1. [cpuset[p] EXCEPT !.cpus = my[p].cores] \in SetType
        <4>1. cpuset[p] \in SetType /\ my[p].cores \in SUBSET Cores BY MyFields
        <4> QED BY <4>1 DEF SetType
      <3>2. cpuset' = [cpuset EXCEPT ![p] = [cpuset[p] EXCEPT !.cpus = my[p].cores]]
        BY <1>8, <2>2 DEF WriteCpus
      <3> QED BY <1>8, <2>2, <3>1, <3>2 DEF WriteCpus
    <2> QED BY <2>1, <2>2
  <1>9. ASSUME NEW p \in Launchers, WriteMems(p) PROVE IType'
    <2>1. [cpuset[p] EXCEPT !.mems = my[p].mems] \in SetType
      <3>1. cpuset[p] \in SetType /\ my[p].mems \in SUBSET Nodes BY MyFields
      <3> QED BY <3>1 DEF SetType
    <2>2. cpuset' = [cpuset EXCEPT ![p] = [cpuset[p] EXCEPT !.mems = my[p].mems]]
      BY <1>9 DEF WriteMems
    <2> QED BY <1>9, <2>1, <2>2 DEF WriteMems
  <1>10. ASSUME NEW p \in Launchers, MoveIn(p) PROVE IType'
    <2>1. CASE cpuset[p].cpus = {} \/ cpuset[p].mems = {}
      BY <1>10, <2>1, GoneTypes, ExitTypes DEF MoveIn
    <2>2. CASE ~ (cpuset[p].cpus = {} \/ cpuset[p].mems = {})
      <3>1. [cpuset[p] EXCEPT !.tasks = TRUE] \in SetType
        <4>1. cpuset[p] \in SetType OBVIOUS
        <4> QED BY <4>1 DEF SetType
      <3>2. cpuset' = [cpuset EXCEPT ![p] = [cpuset[p] EXCEPT !.tasks = TRUE]]
        BY <1>10, <2>2 DEF MoveIn
      <3> QED BY <1>10, <2>2, <3>1, <3>2 DEF MoveIn
    <2> QED BY <2>1, <2>2
  <1>11. ASSUME NEW p \in Launchers, Exec(p) PROVE IType'
    <2>1. Fresh \in MyType BY DEF Fresh, MyType
    <2> QED BY <1>11, <2>1 DEF Exec
  <1>12. ASSUME NEW p \in Launchers, ExecFails(p) PROVE IType'
    BY <1>12, GoneTypes, ExitTypes DEF ExecFails
  <1>13. ASSUME NEW p \in Launchers, AppEnds(p) PROVE IType'
    BY <1>13, GoneTypes, ExitTypes DEF AppEnds
  <1>14. ASSUME NEW p \in Launchers, Kill(p) PROVE IType'
    BY <1>14, GoneTypes, ExitTypes DEF Kill
  <1>15. ASSUME NEW p \in Launchers, ReleaseAgent(p) PROVE IType'
    <2>1. NewSet \in SetType BY DEF NewSet, SetType
    <2> QED BY <1>15, <2>1 DEF ReleaseAgent, Rmdir
  <1>16. ASSUME NEW p \in Launchers, Again(p) PROVE IType' BY <1>16 DEF Again
  <1>17. CASE UNCHANGED vars BY <1>17 DEF vars
  <1> QED
    BY <1>1, <1>2, <1>3, <1>4, <1>5, <1>6, <1>7, <1>8, <1>9, <1>10, <1>11, <1>12, <1>13,
       <1>14, <1>15, <1>16, <1>17 DEF Next, Step

-----------------------------------------------------------------------------
\* What a process that is gone leaves of its cpuset; the other launchers and
\* their cpusets are as before.
GoneEffect(p) ==
    /\ pc'[p] = "done" /\ my'[p].cores = {} /\ my'[p].mems = {}
    /\ \A q \in Launchers : q # p =>
         pc'[q] = pc[q] /\ my'[q] = my[q] /\ cpuset'[q] = cpuset[q]
    /\ cpuset'[p].tasks = FALSE
    /\ cpuset'[p].cpus \subseteq cpuset[p].cpus
    /\ cpuset'[p].cpus # {} => cpuset'[p].exclusive = cpuset[p].exclusive
    /\ p \notin dir' => cpuset'[p].cpus = {} /\ ~ cpuset'[p].left
    /\ dir' \cup {p} = dir \cup {p}

\* This is what Leave and Rmdir do.
LEMMA GoneHas ==
    ASSUME IType, Sets, NEW p \in Launchers, Gone(p), (Leave(p) /\ UNCHANGED dir) \/ Rmdir(p)
    PROVE  GoneEffect(p)
  <1> USE DEF GoneEffect
  <1>1. /\ pc'[p] = "done" /\ my'[p].cores = {} /\ my'[p].mems = {}
        /\ \A q \in Launchers : q # p => pc'[q] = pc[q] /\ my'[q] = my[q]
    BY DEF IType, Gone, Fresh
  <1>2. CASE Leave(p) /\ UNCHANGED dir
    <2> DEFINE new == [cpuset[p] EXCEPT !.tasks = FALSE, !.left = @ \/ cpuset[p].tasks]
    <2>1. cpuset' = [cpuset EXCEPT ![p] = new] BY <1>2 DEF Leave
    <2>2. cpuset[p] \in SetType /\ cpuset'[p] = new BY <2>1 DEF IType
    <2>3. /\ new.tasks = FALSE /\ new.cpus = cpuset[p].cpus
          /\ new.exclusive = cpuset[p].exclusive
      BY <2>2 DEF SetType
    <2>4. ASSUME p \notin dir PROVE new.cpus = {} /\ ~ new.left
      <3>1. cpuset[p].cpus = {} /\ ~ cpuset[p].left /\ ~ cpuset[p].tasks
        BY <2>4 DEF Sets
      <3>2. new.left = (cpuset[p].left \/ cpuset[p].tasks) BY <2>2 DEF SetType
      <3> QED BY <2>3, <3>1, <3>2
    <2>5. \A q \in Launchers : q # p => cpuset'[q] = cpuset[q] BY <2>1 DEF IType
    <2> HIDE DEF new
    <2> QED BY <1>1, <1>2, <2>2, <2>3, <2>4, <2>5
  <1>3. CASE Rmdir(p)
    <2>1. cpuset'[p] = NewSet /\ \A q \in Launchers : q # p => cpuset'[q] = cpuset[q]
      BY <1>3 DEF Rmdir, IType
    <2>2. NewSet.tasks = FALSE /\ NewSet.cpus = {} /\ NewSet.left = FALSE BY DEF NewSet
    <2> QED BY <1>1, <1>3, <2>1, <2>2 DEF Rmdir
  <1> QED BY <1>2, <1>3

\* The end of a process keeps all three: it cannot take or free what is not
\* its own.
LEMMA GoneKeeps ==
    ASSUME IType, Sets, Exclusive, Chosen, UNCHANGED req,
           NEW p \in Launchers, Gone(p), (Leave(p) /\ UNCHANGED dir) \/ Rmdir(p)
    PROVE  Sets' /\ Exclusive' /\ Chosen'
  <1>0. GoneEffect(p) BY GoneHas
  <1>1. Sets' BY <1>0 DEF Sets, GoneEffect
  <1>2. Exclusive' BY <1>0 DEF Exclusive, GoneEffect
  <1>3. Chosen' BY <1>0 DEF Chosen, ChosenBy, GoneEffect
  <1> QED BY <1>1, <1>2, <1>3

\* Every step keeps the three.
LEMMA KeepStep ==
    ASSUME IType, Sets, Exclusive, Chosen, [Next]_vars
    PROVE  Sets' /\ Exclusive' /\ Chosen'
  <1> USE DEF IType, Goto, KeepSets
  <1>1. ASSUME NEW p \in Launchers, Open(p) PROVE Sets' /\ Exclusive' /\ Chosen'
    <2>1. /\ pc[p] = "off" /\ pc'[p] = "scan" /\ UNCHANGED <<dir, cpuset>>
          /\ my'[p].cores = {} /\ my'[p].mems = {}
          /\ \A q \in Launchers : q # p =>
               pc'[q] = pc[q] /\ my'[q] = my[q] /\ req'[q] = req[q]
      BY <1>1 DEF Open, Fresh
    <2>2. Sets' BY <2>1 DEF Sets
    <2>3. Exclusive' BY <2>1 DEF Exclusive
    <2>4. Chosen' BY <2>1 DEF Chosen, ChosenBy
    <2> QED BY <2>2, <2>3, <2>4
  <1>2. ASSUME NEW p \in Launchers, ScanNext(p) PROVE Sets' /\ Exclusive' /\ Chosen'
    <2>1. /\ UNCHANGED <<pc, req, dir, cpuset>>
          /\ \A q \in Launchers : my'[q].cores = my[q].cores /\ my'[q].mems = my[q].mems
      BY <1>2 DEF ScanNext, MyType
    <2>2. Sets' BY <2>1 DEF Sets
    <2>3. Exclusive' BY <2>1 DEF Exclusive
    <2>4. Chosen' BY <2>1 DEF Chosen, ChosenBy
    <2> QED BY <2>2, <2>3, <2>4
  <1>3. ASSUME NEW p \in Launchers, ScanMisses(p) PROVE Sets' /\ Exclusive' /\ Chosen'
    BY <1>3, GoneKeeps, ExitTypes DEF ScanMisses
  <1>4. ASSUME NEW p \in Launchers, ScanEnds(p) PROVE Sets' /\ Exclusive' /\ Chosen'
    <2>1. CASE Cardinality(my[p].available) = 0 \/ req[p] > Cardinality(my[p].available)
      BY <1>4, <2>1, GoneKeeps, ExitTypes DEF ScanEnds
    <2>2. CASE ~ (Cardinality(my[p].available) = 0 \/ req[p] > Cardinality(my[p].available))
      <3>1. /\ pc[p] = "scan" /\ pc'[p] = "mkdir" /\ UNCHANGED <<my, dir, cpuset>>
            /\ \A q \in Launchers : q # p => pc'[q] = pc[q] /\ req'[q] = req[q]
        BY <1>4, <2>2 DEF ScanEnds
      <3>2. Sets' BY <3>1 DEF Sets
      <3>3. Exclusive' BY <3>1 DEF Exclusive
      <3>4. Chosen' BY <3>1 DEF Chosen, ChosenBy
      <3> QED BY <3>2, <3>3, <3>4
    <2> QED BY <2>1, <2>2
  <1>5. ASSUME NEW p \in Launchers, Mkdir(p) PROVE Sets' /\ Exclusive' /\ Chosen'
    <2>1. /\ pc[p] = "mkdir" /\ pc'[p] = "setup" /\ dir' = dir \cup {p}
          /\ UNCHANGED <<req, my, cpuset>>
          /\ \A q \in Launchers : q # p => pc'[q] = pc[q]
      BY <1>5 DEF Mkdir
    <2>2. Sets' BY <2>1 DEF Sets
    <2>3. Exclusive' BY <2>1 DEF Exclusive
    <2>4. Chosen' BY <2>1 DEF Chosen, ChosenBy
    <2> QED BY <2>2, <2>3, <2>4
  <1>6. ASSUME NEW p \in Launchers, SetUp(p) PROVE Sets' /\ Exclusive' /\ Chosen'
    <2>1. /\ pc[p] = "setup" /\ pc'[p] = "allocate" /\ UNCHANGED <<req, dir>>
          /\ \A q \in Launchers : q # p => pc'[q] = pc[q]
      BY <1>6 DEF SetUp
    <2>2. \A q \in Launchers : my'[q].cores = my[q].cores /\ my'[q].mems = my[q].mems
      BY <1>6 DEF SetUp, LowestFree, MyType
    <2>3. /\ cpuset'[p].exclusive = TRUE /\ cpuset'[p].cpus = cpuset[p].cpus
          /\ cpuset'[p].tasks = cpuset[p].tasks /\ cpuset'[p].left = cpuset[p].left
          /\ \A q \in Launchers : q # p => cpuset'[q] = cpuset[q]
      BY <1>6 DEF SetUp, SetType
    <2>4. p \in dir
      BY <1>6 DEF SetUp, Sets
    <2>5. NodesOf({}) = {}
      BY <1>6 DEF NodesOf
    <2>6. Sets' BY <2>1, <2>2, <2>3, <2>4, <2>5 DEF Sets
    <2>7. Exclusive' BY <2>1, <2>2, <2>3, <2>4, <2>5 DEF Exclusive
    <2>8. Chosen'
      <3>1. my[p].cores = {} /\ my[p].mems = {} BY <2>1 DEF Chosen, ChosenBy
      <3>2. ChosenBy(p)' BY <2>1, <2>2, <2>5, <3>1 DEF ChosenBy
      <3>3. ASSUME NEW q \in Launchers, q # p PROVE ChosenBy(q)'
        <4>1. ChosenBy(q) BY DEF Chosen
        <4>2. my'[q] = my[q] BY <1>6, <3>3 DEF SetUp, LowestFree
        <4> QED BY <2>1, <2>3, <3>3, <4>1, <4>2 DEF ChosenBy
      <3> QED BY <3>2, <3>3 DEF Chosen
    <2> QED BY <2>6, <2>7, <2>8
  <1>7. ASSUME NEW p \in Launchers, Turn(p) PROVE Sets' /\ Exclusive' /\ Chosen'
    <2>1. CASE Nodes \subseteq my[p].mems BY <1>7, <2>1, GoneKeeps, ExitTypes DEF Turn
    <2>2. CASE ~ (Nodes \subseteq my[p].mems)
      <3>1. PICK n \in Nodes \ my[p].mems : \E new \in {Taken(p, n)} :
                /\ IF new = {} THEN UNCHANGED my ELSE Mark(p, n, new)
                /\ Goto(p, IF Cardinality(my[p].cores \cup new) = req[p]
                           THEN "cpus" ELSE "allocate")
        BY <1>7, <2>2 DEF Turn
      <3> DEFINE new == Taken(p, n)
      <3>2. /\ IF new = {} THEN UNCHANGED my ELSE Mark(p, n, new)
            /\ pc[p] = "allocate"
            /\ pc' = [pc EXCEPT ![p] = IF Cardinality(my[p].cores \cup new) = req[p]
                           THEN "cpus" ELSE "allocate"]
            /\ UNCHANGED <<req, dir, cpuset>>
        BY <1>7, <2>2, <3>1 DEF Turn
      <3>3. new \subseteq Cores /\ \A c \in new : NodeOf[c] = n BY TakenType DEF CoresOf
      <3> HIDE DEF new
      <3>4. /\ my'[p].cores = my[p].cores \cup new
            /\ my'[p].mems = my[p].mems \cup {NodeOf[c] : c \in new}
            /\ \A q \in Launchers : q # p => my'[q] = my[q]
        <4>1. CASE new = {} BY <3>2, <4>1
        <4>2. CASE new # {}
          <5>1. {NodeOf[c] : c \in new} = {n} BY <3>3, <4>2
          <5>2. my[p] \in MyType OBVIOUS
          <5> QED BY <3>2, <4>2, <5>1, <5>2 DEF Mark, MyType
        <4> QED BY <4>1, <4>2
      <3>5. my[p].mems = NodesOf(my[p].cores) BY <3>2 DEF Chosen, ChosenBy
      <3>6. my'[p].mems = NodesOf(my'[p].cores) BY <3>4, <3>5 DEF NodesOf
      <3>7. /\ pc'[p] \in {"cpus", "allocate"}
            /\ pc'[p] = "cpus" => Cardinality(my'[p].cores) = req'[p]
            /\ \A q \in Launchers : q # p => pc'[q] = pc[q]
        BY <3>2, <3>4
      <3>8. Sets' BY <3>2, <3>7 DEF Sets
      <3>9. Exclusive' BY <3>2, <3>7 DEF Exclusive
      <3>10. Chosen'
        <4>1. UNCHANGED <<req, cpuset>> BY <3>2
        <4>2. ChosenBy(p)' BY <3>6, <3>7 DEF ChosenBy
        <4>3. ASSUME NEW q \in Launchers, q # p PROVE ChosenBy(q)'
          <5>1. ChosenBy(q) BY DEF Chosen
          <5> QED BY <4>1, <3>4, <3>7, <4>3, <5>1 DEF ChosenBy
        <4> QED BY <4>2, <4>3 DEF Chosen
      <3> QED BY <3>8, <3>9, <3>10
    <2> QED BY <2>1, <2>2
  <1>8. ASSUME NEW p \in Launchers, WriteCpus(p) PROVE Sets' /\ Exclusive' /\ Chosen'
    <2>1. CASE Conflict(p, my[p].cores)
      BY <1>8, <2>1, GoneKeeps, ExitTypes DEF WriteCpus
    <2>2. CASE ~ (Conflict(p, my[p].cores))
      <3>1. /\ pc[p] = "cpus" /\ pc'[p] = "mems" /\ UNCHANGED <<req, my, dir>>
            /\ \A q \in Launchers : q # p => pc'[q] = pc[q]
        BY <1>8, <2>2 DEF WriteCpus
      <3>2. /\ cpuset'[p].cpus = my[p].cores /\ cpuset'[p].exclusive = cpuset[p].exclusive
            /\ cpuset'[p].tasks = cpuset[p].tasks /\ cpuset'[p].left = cpuset[p].left
            /\ \A q \in Launchers : q # p => cpuset'[q] = cpuset[q]
        BY <1>8, <2>2 DEF WriteCpus, SetType
      <3>3. p \in dir /\ cpuset[p].exclusive
        BY <1>8, <2>2 DEF WriteCpus, Sets, Exclusive
      <3>4. \A q \in Launchers : q # p => my[p].cores \cap cpuset[q].cpus = {}
        BY <1>8, <2>2, <3>3 DEF WriteCpus, Conflict, Sets
      <3>5. Sets' BY <3>1, <3>2, <3>3, <3>4 DEF Sets
      <3>6. Exclusive' BY <3>1, <3>2, <3>3, <3>4 DEF Exclusive
      <3>7. Chosen' BY <3>1, <3>2, <3>3, <3>4 DEF Chosen, ChosenBy
      <3> QED BY <3>5, <3>6, <3>7
    <2> QED BY <2>1, <2>2
  <1>9. ASSUME NEW p \in Launchers, WriteMems(p) PROVE Sets' /\ Exclusive' /\ Chosen'
    <2>1. /\ pc[p] = "mems" /\ pc'[p] = "tasks" /\ UNCHANGED <<req, my, dir>>
          /\ \A q \in Launchers : q # p => pc'[q] = pc[q]
      BY <1>9 DEF WriteMems
    <2>2. /\ cpuset'[p].cpus = cpuset[p].cpus /\ cpuset'[p].exclusive = cpuset[p].exclusive
          /\ cpuset'[p].tasks = cpuset[p].tasks /\ cpuset'[p].left = cpuset[p].left
          /\ cpuset'[p].mems = my[p].mems
          /\ \A q \in Launchers : q # p => cpuset'[q] = cpuset[q]
      BY <1>9 DEF WriteMems, SetType
    <2>3. p \in dir
      BY <1>9 DEF WriteMems, Sets
    <2>4. Sets' BY <2>1, <2>2, <2>3 DEF Sets
    <2>5. Exclusive' BY <2>1, <2>2, <2>3 DEF Exclusive
    <2>6. Chosen' BY <2>1, <2>2, <2>3 DEF Chosen, ChosenBy
    <2> QED BY <2>4, <2>5, <2>6
  <1>10. ASSUME NEW p \in Launchers, MoveIn(p) PROVE Sets' /\ Exclusive' /\ Chosen'
    <2>1. CASE cpuset[p].cpus = {} \/ cpuset[p].mems = {}
      BY <1>10, <2>1, GoneKeeps, ExitTypes DEF MoveIn
    <2>2. CASE ~ (cpuset[p].cpus = {} \/ cpuset[p].mems = {})
      <3>1. /\ pc[p] = "tasks" /\ pc'[p] = "exec" /\ UNCHANGED <<req, my, dir>>
            /\ \A q \in Launchers : q # p => pc'[q] = pc[q]
        BY <1>10, <2>2 DEF MoveIn
      <3>2. /\ cpuset'[p].cpus = cpuset[p].cpus /\ cpuset'[p].exclusive = cpuset[p].exclusive
            /\ cpuset'[p].tasks = TRUE /\ cpuset'[p].left = cpuset[p].left
            /\ cpuset'[p].mems = cpuset[p].mems
            /\ \A q \in Launchers : q # p => cpuset'[q] = cpuset[q]
        BY <1>10, <2>2 DEF MoveIn, SetType
      <3>3. p \in dir
        BY <1>10, <2>2 DEF MoveIn, Sets
      <3>4. Sets' BY <3>1, <3>2, <3>3 DEF Sets
      <3>5. Exclusive' BY <3>1, <3>2, <3>3 DEF Exclusive
      <3>6. Chosen' BY <3>1, <3>2, <3>3 DEF Chosen, ChosenBy
      <3> QED BY <3>4, <3>5, <3>6
    <2> QED BY <2>1, <2>2
  <1>11. ASSUME NEW p \in Launchers, Exec(p) PROVE Sets' /\ Exclusive' /\ Chosen'
    <2>1. /\ pc[p] = "exec" /\ pc'[p] = "run" /\ UNCHANGED <<req, dir, cpuset>>
          /\ \A q \in Launchers : q # p => pc'[q] = pc[q] /\ my'[q] = my[q]
      BY <1>11 DEF Exec
    <2>2. Sets' BY <2>1 DEF Sets
    <2>3. Exclusive' BY <2>1 DEF Exclusive
    <2>4. Chosen' BY <2>1 DEF Chosen, ChosenBy
    <2> QED BY <2>2, <2>3, <2>4
  <1>12. ASSUME NEW p \in Launchers, ExecFails(p) PROVE Sets' /\ Exclusive' /\ Chosen'
    BY <1>12, GoneKeeps, ExitTypes DEF ExecFails
  <1>13. ASSUME NEW p \in Launchers, AppEnds(p) PROVE Sets' /\ Exclusive' /\ Chosen'
    BY <1>13, GoneKeeps, ExitTypes DEF AppEnds
  <1>14. ASSUME NEW p \in Launchers, Kill(p) PROVE Sets' /\ Exclusive' /\ Chosen'
    BY <1>14, GoneKeeps, ExitTypes DEF Kill
  <1>15. ASSUME NEW p \in Launchers, ReleaseAgent(p) PROVE Sets' /\ Exclusive' /\ Chosen'
    <2>1. /\ cpuset[p].left /\ dir' = dir \ {p} /\ UNCHANGED <<pc, req, my>>
          /\ cpuset'[p] = NewSet /\ \A q \in Launchers : q # p => cpuset'[q] = cpuset[q]
      BY <1>15 DEF ReleaseAgent, Rmdir
    <2>2. pc[p] = "done"
      BY <1>15 DEF ReleaseAgent, Sets
    <2>3. NewSet.cpus = {} /\ NewSet.tasks = FALSE /\ NewSet.left = FALSE
      BY <1>15 DEF NewSet
    <2>4. Sets' BY <2>1, <2>2, <2>3 DEF Sets
    <2>5. Exclusive' BY <2>1, <2>2, <2>3 DEF Exclusive
    <2>6. Chosen' BY <2>1, <2>2, <2>3 DEF Chosen, ChosenBy
    <2> QED BY <2>4, <2>5, <2>6
  <1>16. ASSUME NEW p \in Launchers, Again(p) PROVE Sets' /\ Exclusive' /\ Chosen'
    <2>1. /\ pc[p] = "done" /\ pc'[p] = "off" /\ p \notin dir /\ UNCHANGED <<my, dir, cpuset>>
          /\ \A q \in Launchers : q # p => pc'[q] = pc[q] /\ req'[q] = req[q]
      BY <1>16 DEF Again
    <2>2. Sets' BY <2>1 DEF Sets
    <2>3. Exclusive' BY <2>1 DEF Exclusive
    <2>4. Chosen' BY <2>1 DEF Chosen, ChosenBy
    <2> QED BY <2>2, <2>3, <2>4
  <1>17. CASE UNCHANGED vars
    <2>1. Sets' BY <1>17 DEF vars, Sets
    <2>2. Exclusive' BY <1>17 DEF vars, Exclusive
    <2>3. Chosen' BY <1>17 DEF vars, Chosen, ChosenBy
    <2> QED BY <2>1, <2>2, <2>3
  <1> QED
    BY <1>1, <1>2, <1>3, <1>4, <1>5, <1>6, <1>7, <1>8, <1>9, <1>10, <1>11, <1>12, <1>13,
       <1>14, <1>15, <1>16, <1>17 DEF Next, Step

-----------------------------------------------------------------------------
\* IInv is inductive.
LEMMA IInvInvariant == Spec => []IInv
  <1>1. Init => IInv
    <2> SUFFICES ASSUME Init PROVE IInv OBVIOUS
    <2>1. Fresh \in MyType BY Consts DEF Fresh, MyType
    <2>2. NewSet \in SetType BY DEF NewSet, SetType
    <2>3. IType BY Consts, <2>1, <2>2 DEF Init, IType, SeenFree, Places
    <2>4. Fresh.cores = {} /\ Fresh.mems = {} BY DEF Fresh
    <2>5. NewSet.cpus = {} /\ NewSet.left = FALSE /\ NewSet.tasks = FALSE BY DEF NewSet
    <2>6. Sets BY <2>5 DEF Init, Sets
    <2>7. Exclusive BY <2>5 DEF Init, Exclusive
    <2>8. Chosen BY <2>4 DEF Init, Chosen, ChosenBy
    <2> QED BY <2>3, <2>6, <2>7, <2>8 DEF IInv
  <1>2. IInv /\ [Next]_vars => IInv'
    BY TypeStep, KeepStep DEF IInv
  <1> QED BY <1>1, <1>2, PTL DEF Spec

\* The types of the launcher: what allocate takes for the first and the last
\* core is a core, since a launcher that saw none free has given up before.
THEOREM TypeCorrect == Spec => []TypeOK
  <1>1. IInv => TypeOK BY DEF IInv, IType, TypeOK, Places, MyType, SetType
  <1> QED BY <1>1, IInvInvariant, PTL

\* For any number of launchers, cores and nodes: no core is in two cpusets,
\* and a running application has the number of cores that was asked for and
\* the memory of exactly their nodes.
THEOREM CoresApartHolds == Spec => []CoresApart
  <1>1. IInv => CoresApart
    <2> SUFFICES ASSUME IInv PROVE CoresApart OBVIOUS
    <2>1. \A p, q \in dir : p # q => cpuset[p].cpus \cap cpuset[q].cpus = {}
      BY DEF IInv, IType, Exclusive
    <2>2. ASSUME NEW p \in Launchers, pc[p] = "run"
          PROVE  /\ p \in dir /\ Cardinality(cpuset[p].cpus) = req[p]
                 /\ cpuset[p].mems = {NodeOf[c] : c \in cpuset[p].cpus}
      BY <2>2 DEF IInv, Sets, Chosen, ChosenBy, NodesOf
    <2> QED BY <2>1, <2>2 DEF CoresApart
  <1> QED BY <1>1, IInvInvariant, PTL
=============================================================================
