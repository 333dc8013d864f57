------------------------------ MODULE Launcher ------------------------------
(***************************************************************************)
(* The launcher numaplace (numaplace/numaplace.cc).  It looks for cores    *)
(* that are in no cpuset, makes a cpuset of its own under the top one,     *)
(* puts cores of near NUMA nodes into it, moves itself in and becomes the  *)
(* application.  Any number of launchers run at the same time; what they   *)
(* share is the directory of cpusets, which the kernel keeps.              *)
(*                                                                         *)
(* Every access to the directory is a step.  A turn of the loop in         *)
(* allocate is a step too.  Options, messages, the formatting of core      *)
(* lists and the calls that only tune the scheduler are left out.          *)
(***************************************************************************)
EXTENDS Integers, FiniteSets, FiniteSetsExt

CONSTANTS Launchers,    \* the processes, each with a cpuset named by its pid
          NCores,
          Nodes,        \* 0 .. nnodes - 1
          NodeOf,       \* node_of_core
          Dist,         \* the distances the kernel gives
          Requests,     \* numbers of cores asked for; 0: all there are
          Strides,
          MaxKills      \* bound: killed launchers whose names are not in use again

Cores == 0 .. NCores - 1
CoresOf(n) == {c \in Cores : NodeOf[c] = n}

ASSUME LauncherAssumption ==
    /\ NCores \in Nat \ {0} /\ IsFiniteSet(Nodes) /\ Nodes \subseteq Nat
    /\ NodeOf \in [Cores -> Nodes]
    /\ \A n \in Nodes :
        /\ Cardinality(CoresOf(n)) >= 2
        /\ CoresOf(n) = Min(CoresOf(n)) .. Max(CoresOf(n))
    /\ \A m, n \in Nodes : Dist[m][n] \in Nat /\ (m # n => Dist[m][m] < Dist[m][n])
    /\ Requests \subseteq 0 .. NCores /\ Strides \subseteq Nat \ {0}
    /\ MaxKills \in Nat

VARIABLES
    pc,         \* where each launcher is
    req,        \* its req_cores
    my,         \* its other variables, see Fresh
    dir,        \* the cpusets that exist
    cpuset,     \* their contents
    killed

vars == <<pc, req, my, dir, cpuset, killed>>

\* stride; available: the mask of cores that seem free; must, read: the cpusets
\* there were when it opened the directory, and those it has looked at; cores,
\* mems, last: what allocate has chosen, and the core it chose last.
Fresh ==
    [stride |-> 1, available |-> {}, must |-> {}, read |-> {},
     cores |-> {}, mems |-> {}, last |-> 0]

\* The cpuset of a launcher as mkdir makes it.
NewSet ==
    [exclusive |-> FALSE, notify |-> FALSE, cpus |-> {}, mems |-> {},
     tasks |-> FALSE, left |-> FALSE]

Init ==
    /\ pc = [p \in Launchers |-> "off"]
    /\ req = [p \in Launchers |-> 0]
    /\ my = [p \in Launchers |-> Fresh]
    /\ dir = {} /\ cpuset = [p \in Launchers |-> NewSet]
    /\ killed = {}

Goto(p, l) == pc' = [pc EXCEPT ![p] = l]
Gone(p) == pc' = [pc EXCEPT ![p] = "done"] /\ my' = [my EXCEPT ![p] = Fresh]
KeepSets == UNCHANGED <<dir, cpuset>>
-----------------------------------------------------------------------------
\* The process leaves its cpuset, if it is in it, and with it the last task.
Leave(p) ==
    cpuset' = [cpuset EXCEPT ![p].tasks = FALSE, ![p].left = @ \/ cpuset[p].tasks]

Rmdir(p) == dir' = dir \ {p} /\ cpuset' = [cpuset EXCEPT ![p] = NewSet]

\* Fault: exit without cleanup.
ExitOnly(p) == Gone(p) /\ Leave(p) /\ UNCHANGED dir

\* The launcher ends itself; cleanup is registered once the directory is made.
\* If it has moved into its cpuset it still is in there when cleanup runs, and
\* rmdir fails.
Exit(p) ==
    /\ Gone(p)
    /\ IF cpuset[p].tasks THEN Leave(p) /\ UNCHANGED dir ELSE Rmdir(p)

\* The options, and scan_cores: the mask of the top cpuset, and its directory
\* opened.
Open(p) ==
    /\ pc[p] = "off" /\ Goto(p, "scan")
    /\ \E n \in Requests, s \in Strides :
        /\ req' = [req EXCEPT ![p] = n]
        /\ my' = [my EXCEPT ![p] =
                    [Fresh EXCEPT !.stride = s, !.available = Cores, !.must = dir]]
    /\ UNCHANGED killed /\ KeepSets

\* What string_to_mask makes of the contents of cpuset.cpus.  An empty list
\* is a line end, which it takes for core 0.
Listed(s) == IF s = {} THEN {0} ELSE s

\* A cpuset made while the directory is read may be met as well.
ScanNext(p) ==
    /\ pc[p] = "scan"
    /\ \E q \in dir \ my[p].read :
        my' = [my EXCEPT ![p].available = @ \ Listed(cpuset[q].cpus),
                         ![p].read = @ \cup {q}]
    /\ UNCHANGED <<pc, req, killed>> /\ KeepSets

\* A cpuset goes between readdir and open.
ScanMisses(p) ==
    /\ pc[p] = "scan" /\ (my[p].must \ my[p].read) \ dir # {}
    /\ Exit(p)
    /\ UNCHANGED <<req, killed>>

ScanEnds(p) ==
    LET count == Cardinality(my[p].available) IN
    /\ pc[p] = "scan" /\ (my[p].must \ my[p].read) \cap dir = {}
    /\ IF count = 0 \/ req[p] > count
       THEN Exit(p) /\ UNCHANGED req
       ELSE /\ req' = [req EXCEPT ![p] = IF @ = 0 THEN count ELSE @]
            /\ Goto(p, "mkdir") /\ UNCHANGED my /\ KeepSets
    /\ UNCHANGED killed

Mkdir(p) ==
    /\ pc[p] = "mkdir" /\ Goto(p, "setup")
    /\ dir' = dir \cup {p}
    /\ UNCHANGED <<req, my, cpuset, killed>>

LowestFree(p) == my' = [my EXCEPT ![p].last = Min(my[p].available)]

\* Fault: SetUp that leaves the cpuset shared.
SetUpShared(p) ==
    /\ pc[p] = "setup" /\ Goto(p, "allocate")
    /\ cpuset' = [cpuset EXCEPT ![p].notify = TRUE]
    /\ LowestFree(p) /\ UNCHANGED <<req, dir, killed>>

\* The settings before the cores, and the start of allocate.
SetUp(p) ==
    /\ pc[p] = "setup" /\ Goto(p, "allocate")
    /\ cpuset' = [cpuset EXCEPT ![p].exclusive = TRUE, ![p].notify = TRUE]
    /\ LowestFree(p) /\ UNCHANGED <<req, dir, killed>>
-----------------------------------------------------------------------------
\* The node is the first of those nearest to the core taken last.
Nearest(p, n) ==
    LET from == NodeOf[my[p].last] IN
    \A m \in Nodes \ my[p].mems :
        Dist[from][n] < Dist[from][m] \/ (Dist[from][n] = Dist[from][m] /\ n <= m)

\* The cores the loop over a node takes: by the stride, and until there are
\* as many as were asked for.
Taken(p, n) ==
    LET a == Min(CoresOf(n))
        free == {c \in CoresOf(n) \cap my[p].available : (c - a) % my[p].stride = 0}
        need == req[p] - Cardinality(my[p].cores)
    IN {c \in free : Cardinality({d \in free : d < c}) < need}

\* Fault: Mark that goes on after the core taken last.
MarkNext(p, n, new) ==
    my' = [my EXCEPT ![p].cores = @ \cup new, ![p].available = @ \ new,
                     ![p].mems = @ \cup {n}, ![p].last = Max(new) + 1]

\* Marks the cores new of node n as taken.
Mark(p, n, new) ==
    my' = [my EXCEPT ![p].cores = @ \cup new, ![p].available = @ \ new,
                     ![p].mems = @ \cup {n}, ![p].last = Max(new)]

\* A turn of allocate.  A node with no core to take is not marked, so the next
\* turn is the same and the loop has no end.
Turn(p) ==
    /\ pc[p] = "allocate"
    /\ IF Nodes \subseteq my[p].mems
       THEN Exit(p)
       ELSE /\ \E n \in Nodes \ my[p].mems : \E new \in {Taken(p, n)} :
                /\ Nearest(p, n)
                /\ IF new = {} THEN UNCHANGED my ELSE Mark(p, n, new)
                /\ Goto(p, IF Cardinality(my[p].cores \cup new) = req[p]
                           THEN "cpus" ELSE "allocate")
            /\ KeepSets
    /\ UNCHANGED <<req, killed>>
-----------------------------------------------------------------------------
\* The kernel: the cores of an exclusive cpuset are in no other.
Conflict(p, s) ==
    \E q \in dir \ {p} :
        /\ cpuset[p].exclusive \/ cpuset[q].exclusive
        /\ s \cap cpuset[q].cpus # {}

WriteCpus(p) ==
    /\ pc[p] = "cpus"
    /\ IF Conflict(p, my[p].cores)
       THEN Exit(p)
       ELSE /\ cpuset' = [cpuset EXCEPT ![p].cpus = my[p].cores]
            /\ Goto(p, "mems") /\ UNCHANGED <<my, dir>>
    /\ UNCHANGED <<req, killed>>

WriteMems(p) ==
    /\ pc[p] = "mems" /\ Goto(p, "tasks")
    /\ cpuset' = [cpuset EXCEPT ![p].mems = my[p].mems]
    /\ UNCHANGED <<req, my, dir, killed>>

\* The kernel takes no task into a cpuset without cores or memory.
MoveIn(p) ==
    /\ pc[p] = "tasks"
    /\ IF cpuset[p].cpus = {} \/ cpuset[p].mems = {}
       THEN Exit(p)
       ELSE /\ cpuset' = [cpuset EXCEPT ![p].tasks = TRUE]
            /\ Goto(p, "exec") /\ UNCHANGED <<my, dir>>
    /\ UNCHANGED <<req, killed>>

Exec(p) ==
    /\ pc[p] = "exec" /\ Goto(p, "run")
    /\ my' = [my EXCEPT ![p] = Fresh]
    /\ UNCHANGED <<req, killed>> /\ KeepSets

ExecFails(p) == pc[p] = "exec" /\ Exit(p) /\ UNCHANGED <<req, killed>>
-----------------------------------------------------------------------------
\* The application ends, by itself or by a signal.
AppEnds(p) ==
    /\ pc[p] = "run" /\ Gone(p) /\ Leave(p)
    /\ UNCHANGED <<req, dir, killed>>

\* The launcher is killed: cleanup does not run.
Kill(p) ==
    /\ pc[p] \notin {"off", "run", "done"} /\ Cardinality(killed) < MaxKills
    /\ killed' = killed \cup {p}
    /\ Gone(p) /\ Leave(p)
    /\ UNCHANGED <<req, dir>>

\* Another launcher, under a name that is free.
Again(p) ==
    /\ pc[p] = "done" /\ p \notin dir /\ Goto(p, "off")
    /\ req' = [req EXCEPT ![p] = 0] /\ killed' = killed \ {p}
    /\ UNCHANGED my /\ KeepSets

\* The kernel calls the release agent when the last task has left a cpuset,
\* and the agent removes it.
ReleaseAgent(p) ==
    /\ p \in dir /\ cpuset[p].notify /\ cpuset[p].left
    /\ Rmdir(p)
    /\ UNCHANGED <<pc, req, my, killed>>
-----------------------------------------------------------------------------
Step(p) ==
    \/ ScanNext(p) \/ ScanMisses(p) \/ ScanEnds(p) \/ Mkdir(p) \/ SetUp(p)
    \/ Turn(p) \/ WriteCpus(p) \/ WriteMems(p) \/ MoveIn(p) \/ Exec(p) \/ ExecFails(p)

Next ==
    \E p \in Launchers :
        Open(p) \/ Step(p) \/ AppEnds(p) \/ Kill(p) \/ ReleaseAgent(p) \/ Again(p)

Spec == Init /\ [][Next]_vars

\* A process runs unless it is waiting, and launchers never wait; the kernel
\* calls the agent.  An application may run for ever.
Fairness == \A p \in Launchers : WF_vars(Step(p)) /\ WF_vars(ReleaseAgent(p))

FairSpec == Spec /\ Fairness
-----------------------------------------------------------------------------
TypeOK ==
    /\ pc \in [Launchers -> {"off", "scan", "mkdir", "setup", "allocate", "cpus", "mems",
                             "tasks", "exec", "run", "done"}]
    /\ req \in [Launchers -> 0 .. NCores]
    /\ my \in [Launchers ->
                [stride : Nat, available : SUBSET Cores, must : SUBSET Launchers,
                 read : SUBSET Launchers, cores : SUBSET Cores, mems : SUBSET Nodes,
                 last : Cores]]
    /\ dir \subseteq Launchers /\ killed \subseteq Launchers
    /\ cpuset \in [Launchers -> [exclusive : BOOLEAN, notify : BOOLEAN, cpus : SUBSET Cores,
                                 mems : SUBSET Nodes, tasks : BOOLEAN, left : BOOLEAN]]

\* However launchers, ends, kills and the release agent interleave, no core is
\* in two cpusets, although every launcher decides on a mask it read earlier;
\* and an application runs on as many cores as were asked for, with the
\* memory of exactly the nodes they are on.
CoresApart ==
    /\ \A p, q \in dir : p # q => cpuset[p].cpus \cap cpuset[q].cpus = {}
    /\ \A p \in Launchers : pc[p] = "run" =>
        /\ p \in dir /\ Cardinality(cpuset[p].cpus) = req[p]
        /\ cpuset[p].mems = {NodeOf[c] : c \in cpuset[p].cpus}

\* The nearest node a launcher has not visited has no core it could take, so
\* that the loop of allocate never ends.
Stranded(p) ==
    /\ pc[p] = "allocate"
    /\ \E n \in Nodes \ my[p].mems : Nearest(p, n) /\ Taken(p, n) = {}

\* A launcher gets to its application or gives up, and when it or the
\* application has ended its cpuset goes, and the cores are free again; unless
\* it was killed, or is stranded, which is then the only way to hang.
Settles ==
    \A p \in Launchers :
        pc[p] \notin {"off", "run"}
        ~> \/ pc[p] = "run" \/ (pc[p] = "done" /\ p \notin dir)
           \/ p \in killed \/ Stranded(p)
=============================================================================
