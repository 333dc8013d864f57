-------------------------- MODULE StatDaemonProofs --------------------------
(***************************************************************************)
(* Proofs about StatDaemon and the counters under it, in layers, each      *)
(* inductive with the ones before it:                                      *)
(*   IType    types, and that a pair of PAPI events stays a pair;          *)
(*   Plan     the order of the calls that are still to be made;            *)
(*   Setting  what is in the fields of each counter at each point of that  *)
(*            order, so that no call finds a counter busy;                 *)
(*   Counting how the values relate to the events that happened.           *)
(* The worker threads are apart from all this (Following).                 *)
(***************************************************************************)
EXTENDS StatDaemon, TLAPS, SequenceTheorems

Hits == {cachehit, cachemiss}
SetUpOps == {"clear", "select", "mask"}

\* The calls the daemons make, each kind on its counters.
Calls ==
    [op : SetUpOps, c : Caves \cup Tots] \cup [op : {"restart"}, c : Caves]
    \cup [op : {"stop", "start"}, c : Hits] \cup [op : {"read"}, c : Counters]

\* Call a may come before call b: setting up before measuring, in a
\* measurement the restarts, the stops, the starts and the reads, and on one
\* counter nothing twice, and the select before the mask.
Before(a, b) ==
    /\ b.op = "clear" => a.op = "clear"
    /\ b.op \in {"select", "mask"} => a.op \in SetUpOps
    /\ b.op = "restart" => a.op \notin {"stop", "start", "read"}
    /\ b.op = "stop" => a.op \notin {"start", "read"}
    /\ b.op = "start" => a.op # "read"
    /\ a.c = b.c => a.op # b.op /\ ~ (a.op = "mask" /\ b.op = "select")

Ordered(s) == \A i, j \in DOMAIN s : i < j => Before(s[i], s[j])

\* The call of op on c is still to be made.
Has(s, op, c) == [op |-> op, c |-> c] \in Members(s)
In(op, c) == Has(todo, op, c)

\* What is still to come after what.
Plan ==
    /\ todo \in Seq(Calls) /\ Ordered(todo)
    /\ \A c \in Caves \cup Tots :
        /\ (In("clear", c) => In("select", c)) /\ (In("select", c) => In("mask", c))
        /\ In("mask", c) => In("read", c)
    /\ \A c \in Caves : (In("mask", c) => In("restart", c)) /\ (In("restart", c) => In("read", c))
    /\ \A c, d \in Hits : (In("stop", c) => In("start", d)) /\ (In("start", c) => In("read", c))
    /\ half # Idle => todo # <<>> /\ Head(todo).op \in {"restart", "read"}

\* The counter counts the events it is there for.
Runs(c) == reg.select[c] = UnitOf(c) /\ reg.mask[c] = {EventOf[c]}

Setting ==
    /\ \A c \in Caves \cup Tots :
        /\ In("mask", c) /\ ~ In("clear", c) =>
            /\ reg.mask[c] = {} /\ reg.hi[c] = 0 /\ reg.lo[c] = 0
            /\ reg.select[c] = IF In("select", c) THEN {} ELSE cave
        /\ ~ In("mask", c) => Runs(c)
    /\ \A c \in Hits : ~ In("start", c) => Runs(c)

Size == LowMod * HighMod

\* A counter of the totals: its value is what happened.
CountsTot(c) ==
    /\ ~ In("mask", c) => Value(reg, c) = since[c] % Size
    /\ ~ In("read", c) => stat[c] <= since[c]

\* A counter of hits or misses, and its sum over all measurements.
CountsHit(c) ==
    /\ ~ In("start", c) => Value(reg, c) <= since[c]
    /\ ~ In("read", c) => stat[c] <= since[c]
    /\ total[c] <= seen[Kind(c)]
    /\ In("read", c) /\ ~ In("start", c) => total[c] + since[c] <= seen[Kind(c)]

\* A counter that is restarted: only its lower part is.
CountsCave(c) ==
    /\ ~ In("restart", c) => reg.lo[c] <= since[c]
    /\ ~ In("read", c) => stat[c] % LowMod <= since[c]

\* Between the two accesses of a read.
HalfRead ==
    half # Idle /\ Head(todo).op = "read" /\ At \notin Caves =>
        half * LowMod + reg.lo[At] <= since[At]

Counting ==
    /\ \A c \in Tots : CountsTot(c)
    /\ \A c \in Hits : CountsHit(c)
    /\ \A c \in Caves : CountsCave(c)
    /\ HalfRead

\* A worker that has not ended the daemon: what is in its event set.
OneEvent(S) == \E a : S = {a}
TwoEvents(S) == \E a, b : a # b /\ S = {a, b}

Sound(w) ==
    /\ wpc[w] \in {"copy0", "copy1", "add0"} => evset[w] = {}
    /\ wpc[w] = "add1" => OneEvent(evset[w])
    /\ wpc[w] \in {"lower", "look"} => TwoEvents(evset[w])

\* A worker whose last takeover met no change of the events: no change is
\* being stored while it takes over, and one that is finds its flag up.
Follows(w) ==
    /\ wpc[w] # "look" => ~Storing /\ shown[w] = {}
    /\ wpc[w] = "look" /\ Storing => flag[w]
    /\ wpc[w] = "copy1" => copy[w][1] = papi[1]
    /\ wpc[w] \in {"add0", "add1", "lower"} => copy[w] = papi
    /\ wpc[w] = "add1" => evset[w] = {papi[1]}
    /\ wpc[w] = "lower" => evset[w] = Members(papi)
    /\ wpc[w] = "look" => evset[w] = Members(copy[w]) /\ copy[w][1] # copy[w][2]
    /\ wpc[w] = "look" /\ ~flag[w] => copy[w] = papi /\ shown[w] \in {{}, Members(papi)}

Following ==
    /\ exited => torn # {}
    /\ ~Storing => papi = asked
    /\ pc = "store1" => papi[1] = asked[1]
    /\ ~exited => \A w \in Workers : Sound(w)
    /\ \A w \in Workers \ torn : Follows(w)

PairType == [1 .. 2 -> PapiEvents]

IType ==
    /\ TypeOK
    /\ papi \in PairType /\ copy \in [Workers -> PairType]
-----------------------------------------------------------------------------
\* Which counters there are (DaemonAssumption).
LEMMA Consts ==
    /\ LowMod \in Nat \ {0} /\ HighMod \in Nat \ {0} /\ Counters \subseteq 0 .. 7
    /\ CaveSeq \in Seq({2, 3}) /\ TotSeq \in Seq({4, 5}) /\ ProbeSeq \in Seq({6, 7})
    /\ Distinct(CaveSeq) /\ Distinct(TotSeq) /\ Distinct(ProbeSeq)
    /\ Counters = {0, 1} \cup Caves \cup Tots /\ Hits = {0, 1}
    /\ Caves \subseteq {2, 3} /\ Members(TotSeq) \subseteq {4, 5}
    /\ Members(ProbeSeq) \subseteq {6, 7} /\ Tots \subseteq {4, 5, 6, 7}
    /\ Tots = Members(TotSeq) \cup Members(ProbeSeq) /\ Caves = Members(CaveSeq)
  <1>1. /\ LowMod \in Nat \ {0} /\ HighMod \in Nat \ {0} /\ Counters \subseteq 0 .. 7
        /\ CaveSeq \in Seq({2, 3}) /\ TotSeq \in Seq({4, 5}) /\ ProbeSeq \in Seq({6, 7})
        /\ Distinct(CaveSeq) /\ Distinct(TotSeq) /\ Distinct(ProbeSeq)
        /\ Counters = {cachehit, cachemiss} \cup Caves \cup Tots
    BY CounterAssumption, DaemonAssumption
  <1>2. ASSUME NEW S, NEW s \in Seq(S) PROVE Members(s) \subseteq S
    BY DEF Members
  <1>3. /\ Members(CaveSeq) \subseteq {2, 3} /\ Members(TotSeq) \subseteq {4, 5}
        /\ Members(ProbeSeq) \subseteq {6, 7}
    BY <1>1, <1>2
  <1> QED BY <1>1, <1>3 DEF Caves, Tots, Hits, cachehit, cachemiss

\* A sequence without its first element.
LEMMA TailFacts ==
    ASSUME NEW S, NEW s \in Seq(S), s # <<>>
    PROVE  /\ Head(s) \in S /\ Tail(s) \in Seq(S) /\ Members(s) \subseteq S
           /\ Members(s) = {Head(s)} \cup Members(Tail(s))
           /\ Ordered(s) => /\ Ordered(Tail(s))
                            /\ \A y \in Members(Tail(s)) : Before(Head(s), y)
  <1>1. /\ Head(s) \in S /\ Tail(s) \in Seq(S) /\ Len(s) \in Nat \ {0}
        /\ Len(Tail(s)) = Len(s) - 1 /\ Head(s) = s[1]
        /\ \A i \in 1 .. Len(s) - 1 : Tail(s)[i] = s[i + 1]
        /\ DOMAIN s = 1 .. Len(s) /\ DOMAIN Tail(s) = 1 .. Len(s) - 1
    BY HeadTailProperties, EmptySeq, LenProperties
  <1>2. Members(s) \subseteq S BY DEF Members
  <1>3. Members(s) = {Head(s)} \cup Members(Tail(s))
    <2>1. ASSUME NEW i \in DOMAIN s PROVE s[i] \in {Head(s)} \cup Members(Tail(s))
      <3>1. CASE i = 1 BY <1>1, <3>1
      <3>2. CASE i # 1
        <4>1. i - 1 \in DOMAIN Tail(s) /\ s[i] = Tail(s)[i - 1] BY <1>1, <3>2
        <4> QED BY <4>1 DEF Members
      <3> QED BY <3>1, <3>2
    <2>2. ASSUME NEW i \in DOMAIN Tail(s) PROVE Tail(s)[i] \in Members(s)
      <3>1. i + 1 \in DOMAIN s /\ Tail(s)[i] = s[i + 1] BY <1>1
      <3> QED BY <3>1 DEF Members
    <2>3. Head(s) \in Members(s) BY <1>1 DEF Members
    <2> QED BY <2>1, <2>2, <2>3 DEF Members
  <1>4. ASSUME Ordered(s), NEW i \in DOMAIN Tail(s), NEW j \in DOMAIN Tail(s), i < j
        PROVE  Before(Tail(s)[i], Tail(s)[j])
    <2>1. /\ i + 1 \in DOMAIN s /\ j + 1 \in DOMAIN s /\ i + 1 < j + 1
          /\ Tail(s)[i] = s[i + 1] /\ Tail(s)[j] = s[j + 1]
      BY <1>1, <1>4
    <2> QED BY <1>4, <2>1 DEF Ordered
  <1>5. ASSUME Ordered(s), NEW i \in DOMAIN Tail(s) PROVE Before(Head(s), Tail(s)[i])
    <2>1. 1 \in DOMAIN s /\ i + 1 \in DOMAIN s /\ 1 < i + 1 /\ Tail(s)[i] = s[i + 1]
      BY <1>1
    <2> QED BY <1>1, <1>5, <2>1 DEF Ordered
  <1> QED BY <1>1, <1>2, <1>3, <1>4, <1>5 DEF Ordered, Members

\* Two sequences of calls, one after the other.
LEMMA ConcatFacts ==
    ASSUME NEW S, NEW s \in Seq(S), NEW t \in Seq(S)
    PROVE  /\ s \o t \in Seq(S) /\ Members(s \o t) = Members(s) \cup Members(t)
           /\ Ordered(s) /\ Ordered(t)
              /\ (\A x \in Members(s), y \in Members(t) : Before(x, y)) => Ordered(s \o t)
           /\ Distinct(s) /\ Distinct(t) /\ Members(s) \cap Members(t) = {} => Distinct(s \o t)
  <1> DEFINE m == Len(s)  n == Len(t)  u == s \o t
  <1>1. /\ m \in Nat /\ n \in Nat /\ DOMAIN s = 1 .. m /\ DOMAIN t = 1 .. n
        /\ u \in Seq(S) /\ Len(u) = m + n /\ DOMAIN u = 1 .. m + n
    BY ConcatProperties, LenProperties
  <1>2. \A i \in 1 .. m : i \in DOMAIN u /\ u[i] = s[i]
    BY <1>1, ConcatProperties
  <1>3. \A i \in 1 .. n : m + i \in DOMAIN u /\ u[m + i] = t[i]
    <2>1. ASSUME NEW i \in 1 .. n PROVE m + i \in 1 .. m + n /\ ~ (m + i <= m) /\ (m + i) - m = i
      BY <1>1
    <2> QED BY <1>1, <2>1, ConcatProperties
  <1>4. \A k \in DOMAIN u : k \in 1 .. m \/ \E i \in 1 .. n : k = m + i
    <2>1. ASSUME NEW k \in DOMAIN u, k \notin 1 .. m PROVE k - m \in 1 .. n /\ k = m + (k - m)
      BY <1>1, <2>1
    <2> QED BY <2>1
  <1> HIDE DEF m, n, u
  <1>5. Members(u) = Members(s) \cup Members(t)
    <2>1. \A k \in DOMAIN u : u[k] \in Members(s) \cup Members(t)
      BY <1>1, <1>2, <1>3, <1>4 DEF Members
    <2>2. \A i \in DOMAIN s : s[i] \in Members(u) BY <1>1, <1>2 DEF Members
    <2>3. \A i \in DOMAIN t : t[i] \in Members(u)
      <3>1. ASSUME NEW i \in DOMAIN t PROVE t[i] \in Members(u)
        <4>1. m + i \in DOMAIN u /\ u[m + i] = t[i] BY <1>1, <1>3
        <4> QED BY <4>1 DEF Members
      <3> QED BY <3>1
    <2> QED BY <2>1, <2>2, <2>3 DEF Members
  <1>6. ASSUME Ordered(s), Ordered(t), \A x \in Members(s), y \in Members(t) : Before(x, y)
        PROVE  Ordered(u)
    <2> SUFFICES ASSUME NEW i \in DOMAIN u, NEW j \in DOMAIN u, i < j
                 PROVE  Before(u[i], u[j])
      BY DEF Ordered
    <2>1. CASE i \in 1 .. m /\ j \in 1 .. m BY <1>1, <1>2, <1>6, <2>1 DEF Ordered
    <2>2. CASE i \in 1 .. m /\ j \notin 1 .. m
      <3>1. PICK l \in 1 .. n : j = m + l BY <1>4, <2>2
      <3>2. u[i] = s[i] /\ u[j] = t[l] BY <1>2, <1>3, <2>2, <3>1
      <3>3. s[i] \in Members(s) /\ t[l] \in Members(t) BY <1>1, <2>2 DEF Members
      <3> QED BY <1>6, <3>2, <3>3
    <2>3. CASE i \notin 1 .. m
      <3>1. PICK k \in 1 .. n : i = m + k BY <1>4, <2>3
      <3>2. j \notin 1 .. m BY <1>1, <2>3
      <3>3. PICK l \in 1 .. n : j = m + l BY <1>4, <3>2
      <3>4. u[i] = t[k] /\ u[j] = t[l] /\ k < l BY <1>1, <1>3, <3>1, <3>3
      <3> QED BY <1>1, <1>6, <3>4 DEF Ordered
    <2> QED BY <2>1, <2>2, <2>3
  <1>7. ASSUME Distinct(s), Distinct(t), Members(s) \cap Members(t) = {} PROVE Distinct(u)
    <2> SUFFICES ASSUME NEW i \in DOMAIN u, NEW j \in DOMAIN u, u[i] = u[j] PROVE i = j
      BY DEF Distinct
    <2>0. /\ \A k \in 1 .. m : u[k] \in Members(s)
          /\ \A k \in 1 .. n : u[m + k] \in Members(t)
      BY <1>1, <1>2, <1>3 DEF Members
    <2>1. CASE i \in 1 .. m /\ j \in 1 .. m BY <1>1, <1>2, <1>7, <2>1 DEF Distinct
    <2>2. CASE i \notin 1 .. m /\ j \notin 1 .. m
      <3>1. PICK k \in 1 .. n : i = m + k BY <1>4, <2>2
      <3>2. PICK l \in 1 .. n : j = m + l BY <1>4, <2>2
      <3>3. t[k] = t[l] BY <1>3, <3>1, <3>2
      <3> QED BY <1>1, <1>7, <3>1, <3>2, <3>3 DEF Distinct
    <2>3. CASE i \in 1 .. m /\ j \notin 1 .. m
      <3>1. PICK l \in 1 .. n : j = m + l BY <1>4, <2>3
      <3> QED BY <1>7, <2>0, <2>3, <3>1
    <2>4. CASE i \notin 1 .. m /\ j \in 1 .. m
      <3>1. PICK l \in 1 .. n : i = m + l BY <1>4, <2>4
      <3> QED BY <1>7, <2>0, <2>4, <3>1
    <2> QED BY <2>1, <2>2, <2>3, <2>4
  <1> QED BY <1>1, <1>5, <1>6, <1>7 DEF u

\* A function on 1 .. n is a sequence.
LEMMA FunctionIsSeq ==
    ASSUME NEW S, NEW n \in Nat, NEW f \in [1 .. n -> S] PROVE f \in Seq(S)
  BY SeqDef, Zenon

\* One call for each of some counters.
Each1(op, S) == {[op |-> op, c |-> c] : c \in S}

\* The calls of Each are those, and in any order.
LEMMA EachFacts ==
    ASSUME NEW op, NEW cs \in Seq(Counters), Distinct(cs), Each1(op, Members(cs)) \subseteq Calls
    PROVE  /\ Each(op, cs) \in Seq(Calls) /\ Members(Each(op, cs)) = Each1(op, Members(cs))
           /\ Ordered(Each(op, cs))
  <1> DEFINE e == Each(op, cs)
  <1>1. Len(cs) \in Nat /\ DOMAIN cs = 1 .. Len(cs) BY LenProperties
  <1>2. DOMAIN e = DOMAIN cs /\ \A i \in DOMAIN cs : e[i] = [op |-> op, c |-> cs[i]]
    BY DEF Each
  <1>3. Members(e) = Each1(op, Members(cs)) BY <1>2 DEF Members, Each1
  <1>4. e \in [1 .. Len(cs) -> Calls]
    <2>1. \A i \in DOMAIN cs : e[i] \in Calls BY <1>2 DEF Members, Each1
    <2> QED BY <1>1, <2>1 DEF Each
  <1>5. e \in Seq(Calls) BY <1>1, <1>4, FunctionIsSeq
  <1>6. ASSUME NEW i \in DOMAIN e, NEW j \in DOMAIN e, i < j PROVE Before(e[i], e[j])
    <2>1. i # j /\ i \in DOMAIN cs /\ j \in DOMAIN cs BY <1>1, <1>2, <1>6
    <2>2. cs[i] # cs[j] BY <2>1 DEF Distinct
    <2>3. e[i].op = op /\ e[j].op = op /\ e[i].c # e[j].c BY <1>2, <2>1, <2>2
    <2> QED BY <2>3 DEF Before, SetUpOps
  <1> QED BY <1>3, <1>5, <1>6 DEF Ordered

\* The counters of each list.
LEMMA ListFacts ==
    /\ CaveSeq \in Seq(Counters) /\ TotSeq \in Seq(Counters) /\ ProbeSeq \in Seq(Counters)
    /\ <<cachehit, cachemiss>> \in Seq(Counters) /\ Members(<<cachehit, cachemiss>>) = Hits
    /\ Distinct(<<cachehit, cachemiss>>)
    /\ <<1, 0>> \in Seq(Counters) /\ Members(<<1, 0>>) = Hits /\ Distinct(<<1, 0>>)
    /\ CaveSeq \o TotSeq \o ProbeSeq \in Seq(Counters)
    /\ Members(CaveSeq \o TotSeq \o ProbeSeq) = Caves \cup Tots
    /\ Distinct(CaveSeq \o TotSeq \o ProbeSeq)
    /\ <<1, 0>> \o CaveSeq \o TotSeq \o ProbeSeq \in Seq(Counters)
    /\ Members(<<1, 0>> \o CaveSeq \o TotSeq \o ProbeSeq) = Counters
    /\ Distinct(<<1, 0>> \o CaveSeq \o TotSeq \o ProbeSeq)
  <1>0. ASSUME NEW s \in Seq(Nat), Members(s) \subseteq Counters PROVE s \in Seq(Counters)
    <2>1. Len(s) \in Nat /\ DOMAIN s = 1 .. Len(s) /\ s \in [1 .. Len(s) -> Nat]
      BY LenProperties
    <2>2. s \in [1 .. Len(s) -> Counters] BY <1>0, <2>1 DEF Members
    <2> QED BY <2>1, <2>2, FunctionIsSeq
  <1>1. CaveSeq \in Seq(Nat) /\ TotSeq \in Seq(Nat) /\ ProbeSeq \in Seq(Nat)
    BY Consts, SeqMonotonic
  <1>2. CaveSeq \in Seq(Counters) /\ TotSeq \in Seq(Counters) /\ ProbeSeq \in Seq(Counters)
    BY <1>0, <1>1, Consts
  <1>3. 0 \in Counters /\ 1 \in Counters /\ cachehit = 0 /\ cachemiss = 1
    BY Consts DEF cachehit, cachemiss
  <1>4. ASSUME NEW a \in {0, 1}, NEW b \in {0, 1}, a # b
        PROVE  <<a, b>> \in Seq(Counters) /\ Members(<<a, b>>) = {0, 1} /\ Distinct(<<a, b>>)
    <2>1. <<a, b>> \in Seq(Counters) BY <1>3
    <2>2. DOMAIN <<a, b>> = {1, 2} /\ <<a, b>>[1] = a /\ <<a, b>>[2] = b OBVIOUS
    <2>3. Members(<<a, b>>) = {a, b} BY <2>2 DEF Members
    <2>4. Distinct(<<a, b>>) BY <1>4, <2>2 DEF Distinct
    <2> QED BY <1>4, <2>1, <2>3, <2>4
  <1>5. /\ <<0, 1>> \in Seq(Counters) /\ Members(<<0, 1>>) = Hits /\ Distinct(<<0, 1>>)
        /\ <<1, 0>> \in Seq(Counters) /\ Members(<<1, 0>>) = Hits /\ Distinct(<<1, 0>>)
    BY <1>4, Consts
  <1> DEFINE ct == CaveSeq \o TotSeq  ctp == ct \o ProbeSeq
             z == <<1, 0>>  h == z \o CaveSeq  ht == h \o TotSeq  htp == ht \o ProbeSeq
  <1>6. /\ Caves \cap Members(TotSeq) = {} /\ (Caves \cup Members(TotSeq)) \cap Members(ProbeSeq) = {}
        /\ Hits \cap Caves = {} /\ (Hits \cup Caves) \cap Members(TotSeq) = {}
        /\ ((Hits \cup Caves) \cup Members(TotSeq)) \cap Members(ProbeSeq) = {}
    BY Consts
  <1> HIDE DEF z
  <1>7. ct \in Seq(Counters) /\ Members(ct) = Caves \cup Members(TotSeq) /\ Distinct(ct)
    BY <1>2, <1>6, ConcatFacts, Consts
  <1>8. h \in Seq(Counters) /\ Members(h) = Hits \cup Caves /\ Distinct(h)
    <2>1. z \in Seq(Counters) /\ Members(z) = Hits /\ Distinct(z) BY <1>5 DEF z
    <2> QED BY <2>1, <1>2, <1>6, ConcatFacts, Consts
  <1> HIDE DEF ct, h
  <1>9. /\ ctp \in Seq(Counters) /\ Members(ctp) = (Caves \cup Members(TotSeq)) \cup Members(ProbeSeq)
        /\ Distinct(ctp)
    BY <1>2, <1>6, <1>7, ConcatFacts, Consts
  <1>10. /\ ht \in Seq(Counters) /\ Members(ht) = (Hits \cup Caves) \cup Members(TotSeq)
         /\ Distinct(ht)
    BY <1>2, <1>6, <1>8, ConcatFacts, Consts
  <1> HIDE DEF ht
  <1>11. /\ htp \in Seq(Counters)
         /\ Members(htp) = ((Hits \cup Caves) \cup Members(TotSeq)) \cup Members(ProbeSeq)
         /\ Distinct(htp)
    BY <1>2, <1>6, <1>10, ConcatFacts, Consts
  <1> HIDE DEF ctp, htp
  <1>12. Members(ctp) = Caves \cup Tots /\ Members(htp) = Counters
    BY <1>9, <1>11, Consts
  <1> QED BY <1>2, <1>3, <1>5, <1>9, <1>11, <1>12 DEF ctp, ct, htp, ht, h, z

\* The calls of a measurement, in an order that Before allows.
MeasureSet ==
    Each1("restart", Caves) \cup Each1("stop", Hits) \cup Each1("start", Hits)
    \cup Each1("read", Counters)

\* Measure is what count_rate and the restarts before it do.
LEMMA MeasureFacts ==
    Measure \in Seq(Calls) /\ Members(Measure) = MeasureSet /\ Ordered(Measure)
  <1> DEFINE hm == <<cachehit, cachemiss>>
             r == Each("restart", CaveSeq)  p == Each("stop", hm)  s == Each("start", hm)
             g == Each("read", <<1, 0>> \o CaveSeq \o TotSeq \o ProbeSeq)
             rp == r \o p  rps == rp \o s
  <1>1. /\ Each1("restart", Caves) \subseteq Calls /\ Each1("stop", Hits) \subseteq Calls
        /\ Each1("start", Hits) \subseteq Calls /\ Each1("read", Counters) \subseteq Calls
    BY DEF Each1, Calls
  <1>2. r \in Seq(Calls) /\ Members(r) = Each1("restart", Caves) /\ Ordered(r)
    BY <1>1, EachFacts, ListFacts, Consts
  <1>3. p \in Seq(Calls) /\ Members(p) = Each1("stop", Hits) /\ Ordered(p)
    BY <1>1, EachFacts, ListFacts
  <1>4. s \in Seq(Calls) /\ Members(s) = Each1("start", Hits) /\ Ordered(s)
    BY <1>1, EachFacts, ListFacts
  <1>5. g \in Seq(Calls) /\ Members(g) = Each1("read", Counters) /\ Ordered(g)
    BY <1>1, EachFacts, ListFacts
  <1> HIDE DEF r, p, s, g
  <1>6. \A x \in Members(r), y \in Members(p) : Before(x, y)
    BY <1>2, <1>3, Consts DEF Each1, Before, SetUpOps
  <1>7. rp \in Seq(Calls) /\ Members(rp) = Members(r) \cup Members(p) /\ Ordered(rp)
    BY <1>2, <1>3, <1>6, ConcatFacts
  <1> HIDE DEF rp
  <1>8. \A x \in Members(rp), y \in Members(s) : Before(x, y)
    BY <1>2, <1>3, <1>4, <1>7, Consts DEF Each1, Before, SetUpOps
  <1>9. rps \in Seq(Calls) /\ Members(rps) = Members(rp) \cup Members(s) /\ Ordered(rps)
    BY <1>4, <1>7, <1>8, ConcatFacts
  <1> HIDE DEF rps
  <1>10. \A x \in Members(rps), y \in Members(g) : Before(x, y)
    BY <1>2, <1>3, <1>4, <1>5, <1>7, <1>9, Consts DEF Each1, Before, SetUpOps
  <1>11. /\ rps \o g \in Seq(Calls) /\ Members(rps \o g) = Members(rps) \cup Members(g)
         /\ Ordered(rps \o g)
    BY <1>5, <1>9, <1>10, ConcatFacts
  <1>12. Members(rps \o g) = MeasureSet
    BY <1>2, <1>3, <1>4, <1>5, <1>7, <1>9, <1>11 DEF MeasureSet
  <1>13. Measure = rps \o g BY DEF Measure, rps, rp, r, p, s, g
  <1> QED BY <1>11, <1>12, <1>13

\* Selecting and masking some counters.
LEMMA SetUpFacts ==
    ASSUME NEW cs \in Seq(Counters), Distinct(cs), Members(cs) \subseteq Caves \cup Tots
    PROVE  /\ SetUp(cs) \in Seq(Calls) /\ Ordered(SetUp(cs))
           /\ Members(SetUp(cs)) = Each1("select", Members(cs)) \cup Each1("mask", Members(cs))
  <1> DEFINE s == Each("select", cs)  m == Each("mask", cs)
  <1>1. Each1("select", Members(cs)) \subseteq Calls /\ Each1("mask", Members(cs)) \subseteq Calls
    BY DEF Each1, Calls, SetUpOps
  <1>2. s \in Seq(Calls) /\ Members(s) = Each1("select", Members(cs)) /\ Ordered(s)
    BY <1>1, EachFacts
  <1>3. m \in Seq(Calls) /\ Members(m) = Each1("mask", Members(cs)) /\ Ordered(m)
    BY <1>1, EachFacts
  <1> HIDE DEF s, m
  <1>4. \A x \in Members(s), y \in Members(m) : Before(x, y)
    BY <1>2, <1>3 DEF Each1, Before, SetUpOps
  <1>5. s \o m \in Seq(Calls) /\ Members(s \o m) = Members(s) \cup Members(m) /\ Ordered(s \o m)
    BY <1>2, <1>3, <1>4, ConcatFacts
  <1> QED BY <1>2, <1>3, <1>5 DEF SetUp, s, m

\* start_numachip_counters, with the measurement after it.
StartSet ==
    Each1("clear", Caves \cup Tots) \cup Each1("select", Caves \cup Tots)
    \cup Each1("mask", Caves \cup Tots) \cup MeasureSet

\* Its order is one that Before allows.
LEMMA StartFacts ==
    StartCounters \in Seq(Calls) /\ Members(StartCounters) = StartSet /\ Ordered(StartCounters)
  <1> DEFINE k == Each("clear", CaveSeq \o TotSeq \o ProbeSeq)
             a == SetUp(CaveSeq)  b == SetUp(TotSeq)  d == SetUp(ProbeSeq)
             ka == k \o a  kab == ka \o b  kabd == kab \o d
             Two(S) == Each1("select", S) \cup Each1("mask", S)
  <1>1. Each1("clear", Caves \cup Tots) \subseteq Calls BY DEF Each1, Calls, SetUpOps
  <1>2. k \in Seq(Calls) /\ Members(k) = Each1("clear", Caves \cup Tots) /\ Ordered(k)
    BY <1>1, EachFacts, ListFacts
  <1>3. a \in Seq(Calls) /\ Members(a) = Two(Caves) /\ Ordered(a)
    BY SetUpFacts, ListFacts, Consts
  <1>4. b \in Seq(Calls) /\ Members(b) = Two(Members(TotSeq)) /\ Ordered(b)
    BY SetUpFacts, ListFacts, Consts
  <1>5. d \in Seq(Calls) /\ Members(d) = Two(Members(ProbeSeq)) /\ Ordered(d)
    BY SetUpFacts, ListFacts, Consts
  <1> HIDE DEF k, a, b, d
  <1>6. \A x \in Members(k), y \in Members(a) : Before(x, y)
    BY <1>2, <1>3, Consts DEF Each1, Before, SetUpOps
  <1>7. ka \in Seq(Calls) /\ Members(ka) = Members(k) \cup Members(a) /\ Ordered(ka)
    BY <1>2, <1>3, <1>6, ConcatFacts
  <1> HIDE DEF ka
  <1>8. \A x \in Members(ka), y \in Members(b) : Before(x, y)
    <2>1. \A x \in Members(k), y \in Members(b) : Before(x, y)
      BY <1>2, <1>4, Consts DEF Each1, Before, SetUpOps
    <2>2. Caves \cap Members(TotSeq) = {} BY Consts
    <2>3. \A x \in Members(a), y \in Members(b) : Before(x, y)
      BY <1>3, <1>4, <2>2 DEF Each1, Before, SetUpOps
    <2> QED BY <1>7, <2>1, <2>3
  <1>9. kab \in Seq(Calls) /\ Members(kab) = Members(ka) \cup Members(b) /\ Ordered(kab)
    BY <1>4, <1>7, <1>8, ConcatFacts
  <1> HIDE DEF kab
  <1>10. \A x \in Members(kab), y \in Members(d) : Before(x, y)
    <2>1. \A x \in Members(k), y \in Members(d) : Before(x, y)
      BY <1>2, <1>5, Consts DEF Each1, Before, SetUpOps
    <2>2. Caves \cap Members(ProbeSeq) = {} /\ Members(TotSeq) \cap Members(ProbeSeq) = {}
      BY Consts
    <2>3. \A x \in Members(a), y \in Members(d) : Before(x, y)
      BY <1>3, <1>5, <2>2 DEF Each1, Before, SetUpOps
    <2>4. \A x \in Members(b), y \in Members(d) : Before(x, y)
      BY <1>4, <1>5, <2>2 DEF Each1, Before, SetUpOps
    <2> QED BY <1>7, <1>9, <2>1, <2>3, <2>4
  <1>11. kabd \in Seq(Calls) /\ Members(kabd) = Members(kab) \cup Members(d) /\ Ordered(kabd)
    BY <1>5, <1>9, <1>10, ConcatFacts
  <1>12. Members(kabd) = Each1("clear", Caves \cup Tots) \cup Two(Caves \cup Tots)
    <2>1. \A op, S, T : Each1(op, S \cup T) = Each1(op, S) \cup Each1(op, T) BY DEF Each1
    <2>2. Caves \cup Tots = (Caves \cup Members(TotSeq)) \cup Members(ProbeSeq) BY Consts
    <2>3. \A op : Each1(op, Caves \cup Tots)
                  = (Each1(op, Caves) \cup Each1(op, Members(TotSeq))) \cup Each1(op, Members(ProbeSeq))
      <3> SUFFICES ASSUME NEW op
                   PROVE  Each1(op, Caves \cup Tots)
                          = (Each1(op, Caves) \cup Each1(op, Members(TotSeq)))
                            \cup Each1(op, Members(ProbeSeq))
        OBVIOUS
      <3>1. Each1(op, Caves \cup Tots) = Each1(op, (Caves \cup Members(TotSeq)) \cup Members(ProbeSeq))
        BY <2>2
      <3>2. Each1(op, (Caves \cup Members(TotSeq)) \cup Members(ProbeSeq))
            = Each1(op, Caves \cup Members(TotSeq)) \cup Each1(op, Members(ProbeSeq))
        BY <2>1
      <3>3. Each1(op, Caves \cup Members(TotSeq)) = Each1(op, Caves) \cup Each1(op, Members(TotSeq))
        BY <2>1
      <3> QED BY <3>1, <3>2, <3>3
    <2>4. Members(kabd) = (((Members(k) \cup Members(a)) \cup Members(b)) \cup Members(d))
      BY <1>7, <1>9, <1>11
    <2> QED BY <1>2, <1>3, <1>4, <1>5, <2>3, <2>4
  <1> HIDE DEF kabd
  <1>13. \A x \in Members(kabd), y \in Members(Measure) : Before(x, y)
    BY <1>12, MeasureFacts, Consts DEF MeasureSet, Each1, Before, SetUpOps
  <1>14. /\ kabd \o Measure \in Seq(Calls) /\ Ordered(kabd \o Measure)
         /\ Members(kabd \o Measure) = Members(kabd) \cup Members(Measure)
    BY <1>11, <1>13, MeasureFacts, ConcatFacts
  <1>15. StartCounters = kabd \o Measure BY DEF StartCounters, kabd, kab, ka, k, a, b, d
  <1> QED BY <1>12, <1>14, <1>15, MeasureFacts DEF StartSet
-----------------------------------------------------------------------------
\* The calls of pcounter.c and pcounter_test.c: what each does to each of the
\* four parts of the registers.
LEMMA RegFields ==
    \A r \in Registers :
        /\ r.select \in [Counters -> Unit] /\ r.mask \in [Counters -> SUBSET Events]
        /\ r.hi \in [Counters -> 0 .. HighMod - 1] /\ r.lo \in [Counters -> 0 .. LowMod - 1]
  BY DEF Registers

\* Every counter of the daemons has a unit and an event.
LEMMA KindFacts ==
    \A c \in Counters :
        /\ EventOf[c] \in Events /\ UnitOf(c) \in Unit /\ UnitOf(c) # {}
        /\ UnitOf(c) = IF c \in Hits THEN cache ELSE cave
  <1> SUFFICES ASSUME NEW c \in Counters
               PROVE  /\ EventOf[c] \in Events /\ UnitOf(c) \in Unit /\ UnitOf(c) # {}
                      /\ UnitOf(c) = IF c \in Hits THEN cache ELSE cave
    OBVIOUS
  <1>1. c \in {0, 1, 2, 3, 4, 5, 6, 7} BY Consts
  <1>2. EventOf[c] \in Events BY <1>1 DEF EventOf, Events
  <1>3. UnitOf(c) \in Unit /\ UnitOf(c) # {} /\ UnitOf(c) = IF c \in Hits THEN cache ELSE cave
    BY DEF UnitOf, Unit, cache, cave, Hits
  <1> QED BY <1>2, <1>3

\* Zero is a value of both registers.
LEMMA ZeroFits == 0 \in 0 .. HighMod - 1 /\ 0 \in 0 .. LowMod - 1
  BY Consts

\* numachip_clear_pcounter
LEMMA ClearFacts ==
    ASSUME NEW r \in Registers, NEW c \in Counters
    PROVE  /\ Clear(r, c) \in Registers
           /\ Clear(r, c).select = [r.select EXCEPT ![c] = {}]
           /\ Clear(r, c).mask = [r.mask EXCEPT ![c] = {}]
           /\ Clear(r, c).hi = [r.hi EXCEPT ![c] = 0] /\ Clear(r, c).lo = [r.lo EXCEPT ![c] = 0]
  BY ZeroFits DEF Clear, Registers, Unit

\* numachip_select_pcounter, when the counter is free
LEMMA SelectFacts ==
    ASSUME NEW r \in Registers, NEW c \in Counters, NEW u \in Unit, ~ SelectBusy(r, c, u)
    PROVE  /\ Select(r, c, u) \in Registers
           /\ Select(r, c, u).select = [r.select EXCEPT ![c] = @ \cup u]
           /\ Select(r, c, u).mask = r.mask
           /\ Select(r, c, u).hi = r.hi /\ Select(r, c, u).lo = r.lo
  BY DEF Select, Registers, Unit

\* numachip_mask_pcounter, when the counter is free
LEMMA MaskFacts ==
    ASSUME NEW r \in Registers, NEW c \in Counters, NEW e \in Events, ~ MaskBusy(r, c, e)
    PROVE  /\ Mask(r, c, e) \in Registers
           /\ Mask(r, c, e).select = r.select
           /\ Mask(r, c, e).mask = [r.mask EXCEPT ![c] = {e}]
           /\ Mask(r, c, e).hi = r.hi /\ Mask(r, c, e).lo = r.lo
  BY DEF Mask, Registers

\* numachip_stop_pcounter
LEMMA StopFacts ==
    ASSUME NEW r \in Registers, NEW c \in Counters
    PROVE  /\ Stop(r, c) \in Registers
           /\ Stop(r, c).select = [d \in Counters |-> IF d = c THEN {} ELSE 0 .. 2]
           /\ Stop(r, c).mask = [r.mask EXCEPT ![c] = {}]
           /\ Stop(r, c).hi = r.hi /\ Stop(r, c).lo = r.lo
  BY DEF Stop, Registers, Unit

\* The two writes of numachip_restart_pcounter
LEMMA RestartFacts ==
    ASSUME NEW r \in Registers, NEW c \in Counters
    PROVE  /\ RestartUpper(r, c) \in Registers /\ RestartLower(r, c) \in Registers
           /\ RestartUpper(r, c).select = r.select /\ RestartLower(r, c).select = r.select
           /\ RestartUpper(r, c).mask = r.mask /\ RestartLower(r, c).mask = r.mask
           /\ RestartUpper(r, c).hi = [r.hi EXCEPT ![c] = 0] /\ RestartLower(r, c).hi = r.hi
           /\ RestartUpper(r, c).lo = r.lo /\ RestartLower(r, c).lo = [r.lo EXCEPT ![c] = 0]
  BY ZeroFits DEF RestartUpper, RestartLower, Registers

\* numachip_fullstart_pcounter: having cleared the counter it finds it free.
LEMMA FullStartFacts ==
    ASSUME NEW r \in Registers, NEW c \in Counters, NEW u \in Unit, NEW e \in Events
    PROVE  /\ FullStart(r, c, u, e) \in Registers
           /\ FullStart(r, c, u, e).select = [r.select EXCEPT ![c] = u]
           /\ FullStart(r, c, u, e).mask = [r.mask EXCEPT ![c] = {e}]
           /\ FullStart(r, c, u, e).hi = [r.hi EXCEPT ![c] = 0]
           /\ FullStart(r, c, u, e).lo = [r.lo EXCEPT ![c] = 0]
  <1> DEFINE k == Clear(r, c)  s == Select(k, c, u)
  <1>1. /\ k \in Registers
        /\ k.select = [r.select EXCEPT ![c] = {}] /\ k.mask = [r.mask EXCEPT ![c] = {}]
        /\ k.hi = [r.hi EXCEPT ![c] = 0] /\ k.lo = [r.lo EXCEPT ![c] = 0]
        /\ r.select \in [Counters -> Unit] /\ r.mask \in [Counters -> SUBSET Events]
    BY ClearFacts, RegFields
  <1> HIDE DEF k
  <1>2. ~ SelectBusy(k, c, u) BY <1>1 DEF SelectBusy
  <1>3. /\ s \in Registers /\ s.select = [k.select EXCEPT ![c] = @ \cup u]
        /\ s.mask = k.mask /\ s.hi = k.hi /\ s.lo = k.lo
    BY <1>1, <1>2, SelectFacts
  <1> HIDE DEF s
  <1>4. ~ MaskBusy(s, c, e) BY <1>1, <1>3 DEF MaskBusy
  <1>5. /\ Mask(s, c, e) \in Registers /\ Mask(s, c, e).select = s.select
        /\ Mask(s, c, e).mask = [s.mask EXCEPT ![c] = {e}]
        /\ Mask(s, c, e).hi = s.hi /\ Mask(s, c, e).lo = s.lo
    BY <1>3, <1>4, MaskFacts
  <1>6. FullStart(r, c, u, e) = Mask(s, c, e) BY <1>2 DEF FullStart, k, s
  <1>7. s.select = [r.select EXCEPT ![c] = u] BY <1>1, <1>3
  <1>8. [s.mask EXCEPT ![c] = {e}] = [r.mask EXCEPT ![c] = {e}] BY <1>1, <1>3
  <1> QED BY <1>1, <1>3, <1>5, <1>6, <1>7, <1>8

\* An event of the chip.
LEMMA TickFacts ==
    ASSUME NEW r \in Registers, NEW u, NEW e
    PROVE  /\ Tick(r, u, e) \in Registers
           /\ Tick(r, u, e).select = r.select /\ Tick(r, u, e).mask = r.mask
           /\ \A c \in Counters :
                IF r.select[c] = u /\ e \in r.mask[c]
                THEN /\ Tick(r, u, e).lo[c] = (r.lo[c] + 1) % LowMod
                     /\ Tick(r, u, e).hi[c] = IF r.lo[c] = LowMod - 1
                                              THEN (r.hi[c] + 1) % HighMod ELSE r.hi[c]
                ELSE Tick(r, u, e).lo[c] = r.lo[c] /\ Tick(r, u, e).hi[c] = r.hi[c]
  <1> DEFINE hit == {c \in Counters : r.select[c] = u /\ e \in r.mask[c]}
             l == [c \in Counters |-> IF c \in hit THEN (r.lo[c] + 1) % LowMod ELSE r.lo[c]]
             h == [c \in Counters |-> IF c \in hit /\ r.lo[c] = LowMod - 1
                                      THEN (r.hi[c] + 1) % HighMod ELSE r.hi[c]]
  <1>0. /\ r.select \in [Counters -> Unit] /\ r.mask \in [Counters -> SUBSET Events]
        /\ r.hi \in [Counters -> 0 .. HighMod - 1] /\ r.lo \in [Counters -> 0 .. LowMod - 1]
    BY RegFields
  <1>1. l \in [Counters -> 0 .. LowMod - 1]
    <2>1. \A c \in Counters : r.lo[c] \in 0 .. LowMod - 1 /\ (r.lo[c] + 1) % LowMod \in 0 .. LowMod - 1
      BY <1>0, Consts
    <2> QED BY <2>1
  <1>2. h \in [Counters -> 0 .. HighMod - 1]
    <2>1. \A c \in Counters : r.hi[c] \in 0 .. HighMod - 1 /\ (r.hi[c] + 1) % HighMod \in 0 .. HighMod - 1
      BY <1>0, Consts
    <2> QED BY <2>1
  <1>3. Tick(r, u, e) = [r EXCEPT !.lo = l, !.hi = h] BY DEF Tick
  <1>4. \A c \in Counters : /\ c \in hit <=> (r.select[c] = u /\ e \in r.mask[c])
                            /\ l[c] = IF c \in hit THEN (r.lo[c] + 1) % LowMod ELSE r.lo[c]
                            /\ h[c] = IF c \in hit /\ r.lo[c] = LowMod - 1
                                      THEN (r.hi[c] + 1) % HighMod ELSE r.hi[c]
    OBVIOUS
  <1> HIDE DEF hit, l, h
  <1>5. /\ Tick(r, u, e) \in Registers /\ Tick(r, u, e).select = r.select
        /\ Tick(r, u, e).mask = r.mask /\ Tick(r, u, e).lo = l /\ Tick(r, u, e).hi = h
    BY <1>1, <1>2, <1>3 DEF Registers
  <1> QED BY <1>4, <1>5

\* The two parts of a value make a number below Size (40 bits).
LEMMA PartsFit ==
    ASSUME NEW h \in 0 .. HighMod - 1, NEW l \in 0 .. LowMod - 1
    PROVE  Size \in Nat \ {0} /\ h * LowMod \in Nat /\ h * LowMod + l \in 0 .. Size - 1
  <1>1. LowMod \in Nat \ {0} /\ HighMod \in Nat \ {0} BY Consts
  <1>2. PICK x \in Nat : HighMod = h + 1 + x
    <2>1. HighMod - 1 - h \in Nat /\ HighMod = h + 1 + (HighMod - 1 - h) BY <1>1
    <2> QED BY <2>1
  <1>3. Size = h * LowMod + LowMod + x * LowMod
    <2>1. (h + 1 + x) * LowMod = h * LowMod + LowMod + x * LowMod BY <1>1, <1>2
    <2>2. LowMod * HighMod = HighMod * LowMod BY <1>1
    <2> QED BY <1>2, <2>1, <2>2 DEF Size
  <1>4. h * LowMod \in Nat /\ x * LowMod \in Nat BY <1>1, <1>2
  <1> QED BY <1>1, <1>3, <1>4

\* Counting on carries into the upper part, and over the last value to zero.
LEMMA NextValue ==
    ASSUME NEW h \in 0 .. HighMod - 1, NEW l \in 0 .. LowMod - 1
    PROVE  (IF l = LowMod - 1 THEN (h + 1) % HighMod ELSE h) * LowMod + ((l + 1) % LowMod)
           = IF h * LowMod + l = Size - 1 THEN 0 ELSE h * LowMod + l + 1
  <1> DEFINE H == IF l = LowMod - 1 THEN (h + 1) % HighMod ELSE h
             V == IF h * LowMod + l = Size - 1 THEN 0 ELSE h * LowMod + l + 1
  <1> SUFFICES H * LowMod + ((l + 1) % LowMod) = V OBVIOUS
  <1>0. LowMod \in Nat \ {0} /\ HighMod \in Nat \ {0} BY Consts
  <1>1. Size \in Nat \ {0} /\ h * LowMod \in Nat /\ h * LowMod + l \in 0 .. Size - 1
    BY PartsFit
  <1>2. CASE l # LowMod - 1
    <2>1. (l + 1) % LowMod = l + 1 BY <1>0, <1>2
    <2>2. h * LowMod + LowMod - 1 \in 0 .. Size - 1
      <3>1. LowMod - 1 \in 0 .. LowMod - 1 BY <1>0
      <3>2. h * LowMod + (LowMod - 1) \in 0 .. Size - 1 BY <3>1, PartsFit
      <3> QED BY <1>0, <1>1, <3>2
    <2>3. h * LowMod + l # Size - 1 BY <1>0, <1>1, <1>2, <2>2
    <2>4. H = h /\ V = h * LowMod + l + 1 BY <1>2, <2>3
    <2> HIDE DEF H, V
    <2>5. h * LowMod + (l + 1) = h * LowMod + l + 1 BY <1>0, <1>1
    <2> QED BY <2>1, <2>4, <2>5
  <1>3. CASE l = LowMod - 1 /\ h = HighMod - 1
    <2>1. (l + 1) % LowMod = 0 /\ (h + 1) % HighMod = 0 BY <1>0, <1>3
    <2>2. h * LowMod + LowMod = Size
      <3>1. HighMod * LowMod = (h + 1) * LowMod BY <1>0, <1>3
      <3>2. (h + 1) * LowMod = h * LowMod + LowMod BY <1>0
      <3>3. LowMod * HighMod = HighMod * LowMod BY <1>0
      <3> QED BY <3>1, <3>2, <3>3 DEF Size
    <2>3. 0 * LowMod + 0 = 0 BY <1>0
    <2>4. h * LowMod + l = Size - 1 BY <1>0, <1>1, <1>3, <2>2
    <2>5. H = 0 /\ V = 0 BY <1>3, <2>1, <2>4
    <2> HIDE DEF H, V
    <2> QED BY <2>1, <2>3, <2>5
  <1>4. CASE l = LowMod - 1 /\ h # HighMod - 1
    <2>1. (l + 1) % LowMod = 0 /\ (h + 1) % HighMod = h + 1 /\ h + 1 \in 0 .. HighMod - 1
      BY <1>0, <1>4
    <2>2. (h + 1) * LowMod = h * LowMod + LowMod BY <1>0
    <2>3. (h + 1) * LowMod + 0 \in 0 .. Size - 1 BY <1>0, <2>1, PartsFit
    <2>4. h * LowMod + l # Size - 1 BY <1>0, <1>1, <1>4, <2>2, <2>3
    <2>5. H = h + 1 /\ V = h * LowMod + l + 1 BY <1>4, <2>1, <2>4
    <2> HIDE DEF H, V
    <2>6. (h + 1) * LowMod + 0 = h * LowMod + l + 1 BY <1>0, <1>1, <1>4, <2>2
    <2> QED BY <2>1, <2>5, <2>6
  <1> QED BY <1>2, <1>3, <1>4

\* The remainder is the only number that can be one.
LEMMA ModIs ==
    ASSUME NEW m \in Nat \ {0}
    PROVE  \A n, q \in Nat, r \in 0 .. m - 1 : n = m * q + r => n % m = r
  <1>1. SUFFICES ASSUME NEW n \in Nat, NEW q \in Nat, NEW r \in 0 .. m - 1, n = m * q + r
               PROVE  n % m = r
    OBVIOUS
  <1> QED BY <1>1

\* Counting on, modulo a number.
LEMMA NextMod ==
    ASSUME NEW n \in Nat, NEW m \in Nat \ {0}
    PROVE  /\ (n + 1) % m = IF n % m = m - 1 THEN 0 ELSE (n % m) + 1
           /\ n % m <= n /\ n % m \in 0 .. m - 1
  <1>1. n % m \in 0 .. m - 1 /\ n % m <= n /\ n \div m \in Nat OBVIOUS
  <1>2. n % m = n - m * (n \div m) OBVIOUS
  <1>3. PICK q \in Nat : q = n \div m BY <1>1
  <1>4. PICK r \in 0 .. m - 1 : r = n % m BY <1>1
  <1>5. m * q \in Nat OBVIOUS
  <1>6. n = m * q + r BY <1>2, <1>3, <1>4, <1>5
  <1>a. PICK k \in Nat : k = n + 1 OBVIOUS
  <1>7. CASE r = m - 1
    <2>0. PICK p \in Nat : p = q + 1 OBVIOUS
    <2>1. k = m * p + 0
      <3>1. m * (q + 1) = m * q + m OBVIOUS
      <3>2. m * p = m * q + m BY <2>0, <3>1
      <3> QED BY <1>a, <1>5, <1>6, <1>7, <3>2
    <2>9. 0 \in 0 .. m - 1 OBVIOUS
    <2>2. k % m = 0 BY <2>1, <2>9, ModIs, Zenon
    <2> QED BY <1>1, <1>4, <1>7, <2>2, <1>a
  <1>8. CASE r # m - 1
    <2>0. PICK s \in 0 .. m - 1 : s = r + 1 BY <1>8
    <2>1. k = m * q + s BY <1>5, <1>6, <1>8, <1>a, <2>0
    <2>2. k % m = s BY <2>1, ModIs, Zenon
    <2> QED BY <1>1, <1>4, <1>8, <2>2, <1>a, <2>0
  <1> QED BY <1>7, <1>8
-----------------------------------------------------------------------------
\* Types.

\* A sequence is a function, and one over a larger set too.
LEMMA SeqIsFunction ==
    ASSUME NEW S, NEW s \in Seq(S) PROVE Len(s) \in Nat /\ s \in [1 .. Len(s) -> S]
  OBVIOUS

\* A sequence over a set is one over a larger set.
LEMMA SeqWider == ASSUME NEW S, NEW T, S \subseteq T, NEW s \in Seq(S) PROVE s \in Seq(T)
  <1>1. Len(s) \in Nat /\ s \in [1 .. Len(s) -> S] BY SeqIsFunction
  <1>2. s \in [1 .. Len(s) -> T] BY <1>1
  <1> QED BY <1>1, <1>2, FunctionIsSeq

\* The calls have the type of todo; a pair of PAPI events is a pair.
LEMMA CallsType == \A s \in Seq(Calls) : s \in Seq([op : CallOps, c : Counters])
  <1>1. Calls \subseteq [op : CallOps, c : Counters]
    <2>1. Caves \subseteq Counters /\ Tots \subseteq Counters /\ Hits \subseteq Counters BY Consts
    <2>2. ASSUME NEW k \in Calls PROVE k \in [op : CallOps, c : Counters]
      <3>1. CASE k \in [op : SetUpOps, c : Caves \cup Tots]
        <4>1. k = [op |-> k.op, c |-> k.c] /\ k.op \in SetUpOps /\ k.c \in Caves \cup Tots BY <3>1
        <4>2. k.op \in CallOps BY <4>1 DEF SetUpOps, CallOps
        <4> QED BY <2>1, <4>1, <4>2
      <3>2. CASE k \in [op : {"restart"}, c : Caves]
        <4>1. k = [op |-> k.op, c |-> k.c] /\ k.op = "restart" /\ k.c \in Caves BY <3>2
        <4> QED BY <2>1, <4>1 DEF CallOps
      <3>3. CASE k \in [op : {"stop", "start"}, c : Hits]
        <4>1. k = [op |-> k.op, c |-> k.c] /\ k.op \in {"stop", "start"} /\ k.c \in Hits BY <3>3
        <4> QED BY <2>1, <4>1 DEF CallOps
      <3>4. CASE k \in [op : {"read"}, c : Counters]
        <4>1. k = [op |-> k.op, c |-> k.c] /\ k.op = "read" /\ k.c \in Counters BY <3>4
        <4> QED BY <4>1 DEF CallOps
      <3> QED BY <2>2, <3>1, <3>2, <3>3, <3>4 DEF Calls
    <2> QED BY <2>2
  <1> QED BY <1>1, SeqWider

\* What the client may ask for are pairs of two different events.
LEMMA PairFacts ==
    /\ \A p \in PapiPairs : p \in PairType /\ Members(p) \subseteq PapiEvents /\ p[1] # p[2]
    /\ \A q \in PairType : q \in Seq(PapiEvents) /\ Members(q) = {q[1], q[2]}
  <1>1. ASSUME NEW p \in PapiPairs
        PROVE  p \in PairType /\ Members(p) \subseteq PapiEvents /\ p[1] # p[2]
    <2>1. p \in Seq(Members(p)) /\ Len(p) = 2 /\ p[1] # p[2] BY DaemonAssumption
    <2>2. p \in [1 .. 2 -> Members(p)]
      <3>1. p \in [1 .. Len(p) -> Members(p)] BY <2>1, SeqIsFunction
      <3> QED BY <2>1, <3>1
    <2>3. Members(p) \subseteq PapiEvents BY DEF PapiEvents
    <2> QED BY <2>1, <2>2, <2>3 DEF PairType
  <1>2. ASSUME NEW q \in PairType PROVE q \in Seq(PapiEvents) /\ Members(q) = {q[1], q[2]}
    <2>1. q \in [1 .. 2 -> PapiEvents] BY DEF PairType
    <2>2. q \in Seq(PapiEvents) BY <2>1, FunctionIsSeq
    <2>3. DOMAIN q = {1, 2} BY <2>1
    <2>4. Members(q) = {q[1], q[2]} BY <2>3 DEF Members
    <2> QED BY <2>2, <2>4
  <1> QED BY <1>1, <1>2

\* Whatever a call finds, the registers keep their widths.
LEMMA CallTypes ==
    ASSUME NEW r \in Registers, NEW c \in Counters
    PROVE  Select(r, c, UnitOf(c)) \in Registers /\ Mask(r, c, EventOf[c]) \in Registers
  <1>1. EventOf[c] \in Events /\ UnitOf(c) \in Unit BY KindFacts
  <1>2. Select(r, c, UnitOf(c)) \in Registers
    <2>1. CASE SelectBusy(r, c, UnitOf(c)) BY <2>1 DEF Select
    <2>2. CASE ~ SelectBusy(r, c, UnitOf(c)) BY <1>1, <2>2, SelectFacts
    <2> QED BY <2>1, <2>2
  <1>3. Mask(r, c, EventOf[c]) \in Registers
    <2>1. CASE MaskBusy(r, c, EventOf[c]) BY <2>1 DEF Mask
    <2>2. CASE ~ MaskBusy(r, c, EventOf[c]) BY <1>1, <2>2, MaskFacts
    <2> QED BY <2>1, <2>2
  <1> QED BY <1>2, <1>3

\* The types hold when the daemons begin, whatever the registers held.
LEMMA InitType == Init => IType
  <1> SUFFICES ASSUME Init PROVE IType OBVIOUS
  <1>1. reg \in Registers
    <2>1. PICK s \in {{}, cave}, m \in {{}, {5}} :
            reg = [select |-> [c \in Counters |-> s], mask |-> [c \in Counters |-> m],
                   hi |-> Zero, lo |-> [c \in Counters |-> LowMod - 1]]
      BY DEF Init, LeftOver
    <2>2. s \in Unit /\ m \in SUBSET Events BY DEF Unit, Events, cave
    <2>3. Zero \in [Counters -> 0 .. HighMod - 1] BY ZeroFits DEF Zero
    <2>4. LowMod - 1 \in 0 .. LowMod - 1 BY Consts
    <2> QED BY <2>1, <2>2, <2>3, <2>4 DEF Registers
  <1>2. todo \in Seq([op : CallOps, c : Counters])
    BY StartFacts, CallsType DEF Init
  <1>3. stat \in [Counters -> 0 .. LowMod * HighMod - 1]
    <2>1. 0 \in 0 .. Size - 1 BY ZeroFits, PartsFit
    <2> QED BY <2>1 DEF Init, Zero, Size
  <1>4. PapiStart \in PapiPairs /\ PapiStart \in PairType /\ PapiStart \in Seq(PapiEvents)
    BY DaemonAssumption, PairFacts
  <1>5. half \in Idle .. HighMod - 1 BY Consts DEF Init, Idle
  <1>6. fds \in 0 .. MaxFd BY DaemonAssumption DEF Init
  <1>7. total \in [{cachehit, cachemiss} -> Nat] /\ since \in [Counters -> Nat] /\ seen \in [Kinds -> Nat]
    BY DEF Init, Zero
  <1>8. /\ flag \in [Workers -> BOOLEAN] /\ shown \in [Workers -> SUBSET PapiEvents]
        /\ wpc \in [Workers -> {"none", "look", "copy0", "copy1", "add0", "add1", "lower"}]
        /\ copy \in [Workers -> PairType] /\ copy \in [Workers -> Seq(PapiEvents)]
        /\ evset \in [Workers -> SUBSET PapiEvents]
        /\ papi \in PairType /\ papi \in Seq(PapiEvents) /\ asked \in PapiPairs
        /\ changes \in Nat /\ torn \subseteq Workers
    BY <1>4 DEF Init, InitPapi
  <1>9. daemon \in {"stat", "log"} /\ pc = "begin" /\ link \in BOOLEAN /\ exited \in BOOLEAN BY DEF Init
  <1> QED BY <1>1, <1>2, <1>3, <1>5, <1>6, <1>7, <1>8, <1>9 DEF IType, TypeOK

\* The next call is on one of the counters.
LEMMA HeadType ==
    ASSUME IType, todo # <<>>
    PROVE  /\ At \in Counters /\ Tail(todo) \in Seq([op : CallOps, c : Counters])
           /\ <<>> \in Seq([op : CallOps, c : Counters])
  <1>1. todo \in Seq([op : CallOps, c : Counters]) BY DEF IType, TypeOK
  <1>2. Head(todo) \in [op : CallOps, c : Counters] /\ Tail(todo) \in Seq([op : CallOps, c : Counters])
    BY <1>1, TailFacts
  <1> QED BY <1>2 DEF At

\* A call leaves all but the registers, the list and the values read alone.
LEMMA CallType ==
    ASSUME IType, todo # <<>>, KeepRest, reg' \in Registers,
           since' = since \/ Started(At),
           todo' \in {todo, <<>>, Tail(todo)}, half' \in Idle .. HighMod - 1,
           stat' \in [Counters -> 0 .. LowMod * HighMod - 1],
           total' \in [{cachehit, cachemiss} -> Nat]
    PROVE  IType'
  <1>1. since' \in [Counters -> Nat]
    <2>1. since \in [Counters -> Nat] BY DEF IType, TypeOK
    <2>2. since' = since \/ since' = [since EXCEPT ![At] = 0] BY DEF Started
    <2> QED BY <2>1, <2>2
  <1>2. todo' \in Seq([op : CallOps, c : Counters])
    <2>1. todo \in Seq([op : CallOps, c : Counters]) BY DEF IType, TypeOK
    <2> QED BY <2>1, HeadType
  <1> QED BY <1>1, <1>2 DEF IType, TypeOK, KeepRest, work

\* Both values of half that mark a first access are in its range.
LEMMA IdleFits == Idle \in Idle .. HighMod - 1 /\ 0 \in Idle .. HighMod - 1
  BY Consts DEF Idle

\* The types hold after every register access, ...
LEMMA TypeOfCalls ==
    ASSUME IType,
           CallClear \/ CallSelect \/ CallMask \/ CallStop \/ CallStart \/ CallRestart \/ RestartRest
           \/ CallRead \/ ReadRest
    PROVE  IType'
  <1>1. todo # <<>>
    BY DEF CallClear, CallSelect, CallMask, CallStop, CallStart, CallRestart, RestartRest, CallRead,
           ReadRest, Call
  <1>2. At \in Counters BY <1>1, HeadType
  <1>3. /\ reg \in Registers /\ half \in Idle .. HighMod - 1
        /\ stat \in [Counters -> 0 .. LowMod * HighMod - 1]
        /\ total \in [{cachehit, cachemiss} -> Nat]
    BY DEF IType, TypeOK
  <1>4. CASE CallClear
    <2>1. reg' \in Registers BY <1>2, <1>3, <1>4, ClearFacts DEF CallClear
    <2> QED BY <1>1, <1>3, <1>4, <2>1, IdleFits, CallType DEF CallClear, Return
  <1>5. CASE CallSelect
    <2>1. reg' \in Registers BY <1>2, <1>3, <1>5, CallTypes DEF CallSelect
    <2> QED BY <1>1, <1>3, <1>5, <2>1, IdleFits, CallType DEF CallSelect
  <1>6. CASE CallMask
    <2>1. reg' \in Registers BY <1>2, <1>3, <1>6, CallTypes DEF CallMask
    <2> QED BY <1>1, <1>3, <1>6, <2>1, IdleFits, CallType DEF CallMask
  <1>7. CASE CallStop
    <2>1. reg' \in Registers BY <1>2, <1>3, <1>7, StopFacts DEF CallStop
    <2> QED BY <1>1, <1>3, <1>7, <2>1, IdleFits, CallType DEF CallStop, Return
  <1>8. CASE CallStart
    <2>1. EventOf[At] \in Events /\ UnitOf(At) \in Unit BY <1>2, KindFacts
    <2>2. reg' \in Registers BY <1>2, <1>3, <1>8, <2>1, FullStartFacts DEF CallStart
    <2> QED BY <1>1, <1>3, <1>8, <2>2, IdleFits, CallType DEF CallStart, Return
  <1>9. CASE CallRestart
    <2>1. reg' \in Registers BY <1>2, <1>3, <1>9, RestartFacts DEF CallRestart
    <2> QED BY <1>1, <1>3, <1>9, <2>1, IdleFits, CallType DEF CallRestart
  <1>10. CASE RestartRest
    <2>1. reg' \in Registers BY <1>2, <1>3, <1>10, RestartFacts DEF RestartRest
    <2> QED BY <1>1, <1>3, <1>10, <2>1, IdleFits, CallType DEF RestartRest, Return
  <1>11. CASE CallRead
    <2>1. reg' \in Registers BY <1>3, <1>11 DEF CallRead
    <2>2. half' \in Idle .. HighMod - 1
      <3>1. reg.hi[At] \in 0 .. HighMod - 1 BY <1>2, <1>3, RegFields
      <3> QED BY <1>11, <3>1, Consts DEF CallRead, Idle
    <2> QED BY <1>1, <1>3, <1>11, <2>1, <2>2, CallType DEF CallRead
  <1>12. CASE ReadRest
    <2> DEFINE value == half * LowMod + reg.lo[At]
    <2>1. value \in 0 .. Size - 1 /\ value \in Nat
      <3>1. half \in 0 .. HighMod - 1 BY <1>3, <1>12, Consts DEF ReadRest, Idle
      <3>2. reg.lo[At] \in 0 .. LowMod - 1 BY <1>2, <1>3, RegFields
      <3> QED BY <3>1, <3>2, PartsFit
    <2>2. /\ stat' = [stat EXCEPT ![At] = value]
          /\ total' = IF At \in DOMAIN total THEN [total EXCEPT ![At] = @ + value] ELSE total
      BY <1>12 DEF ReadRest
    <2> HIDE DEF value
    <2>3. stat' \in [Counters -> 0 .. LowMod * HighMod - 1] BY <1>2, <1>3, <2>1, <2>2 DEF Size
    <2>4. total' \in [{cachehit, cachemiss} -> Nat] BY <1>3, <2>1, <2>2
    <2>5. reg' \in Registers BY <1>3, <1>12 DEF ReadRest
    <2> QED BY <1>1, <1>12, <2>3, <2>4, <2>5, IdleFits, CallType DEF ReadRest, Return
  <1> QED BY <1>4, <1>5, <1>6, <1>7, <1>8, <1>9, <1>10, <1>11, <1>12

\* ... after an event of the chip, ...
LEMMA TypeOfEvent ==
    ASSUME IType, NEW k \in Kinds, Event(k) PROVE IType'
  <1>1. reg' \in Registers BY TickFacts DEF IType, TypeOK, Event
  <1>2. seen' \in [Kinds -> Nat]
    <2>1. seen \in [Kinds -> Nat] BY DEF IType, TypeOK
    <2>2. seen' = [seen EXCEPT ![k] = @ + 1] BY DEF Event
    <2> QED BY <2>1, <2>2
  <1>3. since' \in [Counters -> Nat]
    <2>1. since \in [Counters -> Nat] BY DEF IType, TypeOK
    <2>2. since' = [c \in Counters |-> IF Kind(c) = k THEN since[c] + 1 ELSE since[c]] BY DEF Event
    <2> QED BY <2>1, <2>2
  <1> QED BY <1>1, <1>2, <1>3 DEF IType, TypeOK, Event, main, work

MainSteps ==
    \/ Begin \/ LogAgain \/ socklisten \/ ReadFails \/ StoreRegisters \/ Hello \/ Reply \/ WriteFails
    \/ \E p \in PapiPairs : ClientAsks(p)

\* ... after a step of the main loop, ...
LEMMA TypeOfMain == ASSUME IType, MainSteps PROVE IType'
  <1>1. /\ todo' \in Seq([op : CallOps, c : Counters])
    <2>1. todo' \in {todo, Measure}
      BY DEF MainSteps, Begin, LogAgain, socklisten, ReadFails, StoreRegisters, Hello, Reply, WriteFails,
             ClientAsks
    <2>2. todo \in Seq([op : CallOps, c : Counters]) BY DEF IType, TypeOK
    <2> QED BY <2>1, <2>2, MeasureFacts, CallsType
  <1>2. UNCHANGED <<reg, since, seen, daemon, half, stat, total, exited, shown, wpc, copy, evset>>
    BY DEF MainSteps, Begin, LogAgain, socklisten, ReadFails, StoreRegisters, Hello, Reply, WriteFails,
           ClientAsks, KeepMain, chip, work
  <1>3. pc' \in {"begin", "sleep", "accept", "read", "store0", "store1", "hello", "reply", "papi"}
    BY DEF MainSteps, Begin, LogAgain, socklisten, ReadFails, StoreRegisters, Hello, Reply, WriteFails,
           ClientAsks, IType, TypeOK
  <1>4. fds' \in 0 .. MaxFd /\ link' \in BOOLEAN
    <2>1. CASE socklisten BY <2>1, DaemonAssumption DEF socklisten, IType, TypeOK
    <2>2. CASE ~ socklisten
      BY <2>2 DEF MainSteps, Begin, LogAgain, ReadFails, StoreRegisters, Hello, Reply, WriteFails,
           ClientAsks, IType, TypeOK
    <2> QED BY <2>1, <2>2
  <1>5. papi' \in PairType /\ papi' \in Seq(PapiEvents)
    <2>1. CASE StoreRegisters
      <3>1. asked \in PairType BY PairFacts DEF IType, TypeOK
      <3>2. papi' \in PairType BY <2>1, <3>1 DEF StoreRegisters, IType, PairType
      <3> QED BY <3>2, PairFacts
    <2>2. CASE ~ StoreRegisters
      BY <2>2 DEF MainSteps, Begin, LogAgain, socklisten, ReadFails, Hello, Reply, WriteFails,
           ClientAsks, work, IType, TypeOK
    <2> QED BY <2>1, <2>2
  <1>6. /\ asked' \in PapiPairs /\ flag' \in [Workers -> BOOLEAN]
        /\ changes' \in Nat /\ torn' \subseteq Workers
    <2>0. /\ asked \in PapiPairs /\ flag \in [Workers -> BOOLEAN]
          /\ changes \in Nat /\ torn \subseteq Workers
      BY DEF IType, TypeOK
    <2>1. ASSUME NEW p \in PapiPairs, ClientAsks(p)
          PROVE  /\ asked' \in PapiPairs /\ flag' \in [Workers -> BOOLEAN]
                 /\ changes' \in Nat /\ torn' \subseteq Workers
      <3>1. CASE p = asked BY <2>0, <2>1, <3>1 DEF ClientAsks
      <3>2. CASE p # asked
        <4>1. /\ asked' = p /\ changes' = changes + 1 /\ flag' = [w \in Workers |-> TRUE]
              /\ torn' = torn \cup {w \in Workers : wpc[w] # "look"}
          BY <2>1, <3>2 DEF ClientAsks
        <4>2. asked' \in PapiPairs /\ changes' \in Nat /\ torn' \subseteq Workers
          BY <2>0, <4>1
        <4>3. flag' \in [Workers -> BOOLEAN] BY <4>1
        <4> QED BY <4>2, <4>3
      <3> QED BY <3>1, <3>2
    <2>2. CASE Begin \/ LogAgain \/ socklisten \/ ReadFails \/ StoreRegisters \/ Hello \/ Reply \/ WriteFails
      BY <2>0, <2>2 DEF Begin, LogAgain, socklisten, ReadFails, StoreRegisters, Hello, Reply, WriteFails,
           work
    <2> QED BY <2>1, <2>2 DEF MainSteps
  <1> QED BY <1>1, <1>2, <1>3, <1>4, <1>5, <1>6 DEF IType, TypeOK

WorkSteps == \E w \in Workers : Look(w) \/ Sample(w) \/ CopyRegister(w) \/ AddEvent(w) \/ LowerFlag(w)

\* ... and after a step of a worker.
LEMMA TypeOfWork == ASSUME IType, WorkSteps PROVE IType'
  <1>0. PICK w \in Workers : Look(w) \/ Sample(w) \/ CopyRegister(w) \/ AddEvent(w) \/ LowerFlag(w)
    BY DEF WorkSteps
  <1>a. UNCHANGED <<chip, main, papi, asked, changes>>
    BY <1>0 DEF Look, Sample, CopyRegister, AddEvent, LowerFlag, KeepWork
  <1>1. wpc' \in [Workers -> {"none", "look", "copy0", "copy1", "add0", "add1", "lower"}]
    BY <1>0 DEF Look, Sample, CopyRegister, AddEvent, LowerFlag, Goto, IType, TypeOK
  <1>2. copy' \in [Workers -> PairType] /\ copy' \in [Workers -> Seq(PapiEvents)]
    <2>1. copy' \in [Workers -> PairType]
      <3>1. papi[1] \in PapiEvents /\ papi[2] \in PapiEvents BY DEF IType, PairType
      <3>2. CASE CopyRegister(w) BY <3>1, <3>2 DEF CopyRegister, IType, PairType
      <3>3. CASE ~ CopyRegister(w) BY <1>0, <3>3 DEF Look, Sample, AddEvent, LowerFlag, IType
      <3> QED BY <3>2, <3>3
    <2> QED BY <2>1, PairFacts
  <1>3. evset' \in [Workers -> SUBSET PapiEvents]
    <2>1. papi[1] \in PapiEvents /\ papi[2] \in PapiEvents BY DEF IType, PairType
    <2>2. evset \in [Workers -> SUBSET PapiEvents] BY DEF IType, TypeOK
    <2>3. CASE AddEvent(w)
      <3>1. \E e \in PapiEvents : evset' = [evset EXCEPT ![w] = @ \cup {e}]
        BY <2>1, <2>3 DEF AddEvent, Add
      <3> QED BY <2>2, <3>1
    <2>4. CASE ~ AddEvent(w) BY <1>0, <2>2, <2>4 DEF Look, Remove, Sample, CopyRegister, LowerFlag
    <2> QED BY <2>3, <2>4
  <1>4. shown' \in [Workers -> SUBSET PapiEvents]
    <2>1. evset[w] \in SUBSET PapiEvents /\ shown \in [Workers -> SUBSET PapiEvents]
      BY DEF IType, TypeOK
    <2> QED BY <1>0, <2>1 DEF Look, Sample, CopyRegister, AddEvent, LowerFlag
  <1>5. flag' \in [Workers -> BOOLEAN]
    BY <1>0 DEF Look, Sample, CopyRegister, AddEvent, LowerFlag, IType, TypeOK
  <1>6. exited' \in BOOLEAN
    <2>1. CASE Look(w)
      <3>1. exited' = Stuck(w) BY <2>1 DEF Look, Remove
      <3>2. Stuck(w) \in BOOLEAN BY DEF Stuck
      <3> QED BY <3>1, <3>2, Zenon
    <2>2. CASE AddEvent(w)
      <3>1. CASE Add(w, papi[1])
        <4>1. CASE papi[1] \in evset[w] BY <3>1, <4>1 DEF Add
        <4>2. CASE papi[1] \notin evset[w] BY <3>1, <4>2 DEF Add
        <4> QED BY <4>1, <4>2
      <3>2. CASE Add(w, papi[2])
        <4>1. CASE papi[2] \in evset[w] BY <3>2, <4>1 DEF Add
        <4>2. CASE papi[2] \notin evset[w] BY <3>2, <4>2 DEF Add
        <4> QED BY <4>1, <4>2
      <3> QED BY <2>2, <3>1, <3>2 DEF AddEvent
    <2>3. CASE Sample(w) \/ CopyRegister(w) \/ LowerFlag(w)
      BY <2>3 DEF Sample, CopyRegister, LowerFlag, IType, TypeOK
    <2> QED BY <1>0, <2>1, <2>2, <2>3
  <1>7. torn' \subseteq Workers
    <2>1. torn \subseteq Workers BY DEF IType, TypeOK
    <2>2. torn' \in {torn, torn \cup {w}, torn \ {w}}
      BY <1>0 DEF Look, Remove, Sample, CopyRegister, AddEvent, LowerFlag
    <2> QED BY <2>1, <2>2
  <1> QED BY <1>a, <1>1, <1>2, <1>3, <1>4, <1>5, <1>6, <1>7 DEF IType, TypeOK, chip, main

\* IType is inductive.
LEMMA TypeStep == IType /\ [Next]_vars => IType'
  <1> SUFFICES ASSUME IType, [Next]_vars PROVE IType' OBVIOUS
  <1>1. CASE UNCHANGED vars BY <1>1 DEF vars, chip, main, work, IType, TypeOK
  <1>2. CASE Next /\ ~Gone
    BY <1>2, TypeOfEvent, TypeOfCalls, TypeOfMain, TypeOfWork DEF Next, MainSteps, WorkSteps
  <1> QED BY <1>1, <1>2 DEF Gone

\* Every variable keeps its type, the values read their 40 bits.
THEOREM TypeCorrect == Spec => []TypeOK
  <1>1. IType => TypeOK BY DEF IType
  <1> QED BY <1>1, InitType, TypeStep, PTL DEF Spec
-----------------------------------------------------------------------------
\* The worker threads.

\* The workers begin with an empty event set.
LEMMA InitFollowing == Init => Following
  <1> SUFFICES ASSUME Init PROVE Following OBVIOUS
  <1>1. ~exited /\ papi = asked /\ pc = "begin" BY DEF Init, InitPapi
  <1>2. ASSUME NEW w \in Workers PROVE Follows(w) /\ Sound(w)
    <2>1. wpc[w] \in {"copy0", "none"} /\ evset[w] = {} /\ shown[w] = {} BY DEF Init, InitPapi
    <2> QED BY <1>1, <2>1 DEF Follows, Sound, Storing
  <1> QED BY <1>1, <1>2 DEF Following, Storing

\* A change of the events leaves the flags of the workers at rest up, and the
\* others torn.
LEMMA MainFollowing ==
    ASSUME IType, Following, MainSteps PROVE Following'
  <1>0. ~exited /\ UNCHANGED <<exited, shown, wpc, copy, evset>>
    BY DEF MainSteps, Begin, LogAgain, socklisten, ReadFails, StoreRegisters, Hello, Reply, WriteFails,
           ClientAsks, AtMain, KeepMain, chip, work
  <1>a. ~exited' /\ \A w \in Workers : Sound(w)' BY <1>0 DEF Following, Sound
  <1>1. CASE Begin \/ LogAgain \/ socklisten \/ ReadFails \/ Hello \/ Reply \/ WriteFails
    <2>1. UNCHANGED <<papi, asked, flag, torn>>
      BY <1>1 DEF Begin, LogAgain, socklisten, ReadFails, Hello, Reply, WriteFails, work
    <2>2. ~Storing /\ ~Storing' /\ pc' # "store1"
      BY <1>1 DEF Begin, LogAgain, socklisten, ReadFails, Hello, Reply, WriteFails, AtMain, Storing
    <2>3. \A w \in Workers \ torn' : Follows(w)' BY <1>0, <2>1, <2>2 DEF Following, Follows
    <2> QED BY <1>a, <2>1, <2>2, <2>3 DEF Following
  <1>2. CASE StoreRegisters
    <2>1. UNCHANGED <<asked, flag, torn>> /\ Storing
      BY <1>2 DEF StoreRegisters, AtMain, Storing
    <2>2. \A w \in Workers \ torn : wpc[w] = "look" /\ flag[w] BY <2>1 DEF Following, Follows
    <2>3. \A w \in Workers \ torn' : Follows(w)' BY <1>0, <2>1, <2>2 DEF Following, Follows
    <2>4. papi \in PairType /\ asked \in PairType BY PairFacts DEF IType, TypeOK
    <2>5. CASE pc = "store0"
      <3>1. papi' = [papi EXCEPT ![1] = asked[1]] /\ pc' = "store1"
        BY <1>2, <2>5 DEF StoreRegisters, AtMain
      <3>2. papi'[1] = asked'[1] BY <2>1, <2>4, <3>1 DEF PairType
      <3> QED BY <1>a, <2>3, <3>1, <3>2 DEF Following, Storing
    <2>6. CASE pc = "store1"
      <3>1. papi' = [papi EXCEPT ![2] = asked[2]] /\ pc' = "hello"
        BY <1>2, <2>6 DEF StoreRegisters, AtMain
      <3>2. papi[1] = asked[1] BY <2>6 DEF Following
      <3>3. papi' = asked BY <2>4, <3>1, <3>2 DEF PairType
      <3> QED BY <1>a, <2>1, <2>3, <3>1, <3>3 DEF Following, Storing
    <2> QED BY <2>1, <2>5, <2>6 DEF Storing
  <1>3. ASSUME NEW p \in PapiPairs, ClientAsks(p) PROVE Following'
    <2>1. papi' = papi /\ pc = "read" /\ ~Storing /\ papi = asked
      BY <1>3 DEF ClientAsks, AtMain, Following, Storing
    <2>2. CASE p = asked
      <3>1. pc' = "hello" /\ UNCHANGED <<asked, flag, torn>> BY <1>3, <2>2 DEF ClientAsks
      <3>2. ~Storing' BY <3>1 DEF Storing
      <3>3. \A w \in Workers \ torn' : Follows(w)' BY <1>0, <2>1, <3>1, <3>2 DEF Following, Follows
      <3> QED BY <1>a, <2>1, <3>1, <3>2, <3>3 DEF Following
    <2>3. CASE p # asked
      <3>1. /\ pc' = "store0" /\ flag' = [w \in Workers |-> TRUE]
            /\ torn' = torn \cup {w \in Workers : wpc[w] # "look"}
        BY <1>3, <2>3 DEF ClientAsks
      <3>2. \A w \in Workers \ torn' : w \notin torn /\ wpc[w] = "look" /\ flag'[w] BY <3>1
      <3>3. \A w \in Workers \ torn' : Follows(w)' BY <1>0, <2>1, <3>2 DEF Following, Follows
      <3> QED BY <1>a, <3>1, <3>3 DEF Following, Storing
    <2> QED BY <2>2, <2>3
  <1> QED BY <1>1, <1>2, <1>3 DEF MainSteps

\* A worker that is not torn adds two events to an empty set, and removes what
\* it added; a torn one that can remove two events has removed all.
LEMMA WorkFollowing ==
    ASSUME IType, Following, WorkSteps PROVE Following'
  <1>0. PICK w \in Workers : Look(w) \/ Sample(w) \/ CopyRegister(w) \/ AddEvent(w) \/ LowerFlag(w)
    BY DEF WorkSteps
  <1>1. UNCHANGED <<pc, papi, asked>> /\ ~exited
    BY <1>0 DEF Look, Sample, CopyRegister, AddEvent, LowerFlag, AtWork, KeepWork, main
  <1>a. Storing' = Storing BY <1>1 DEF Storing
  <1>2. \A v \in Workers \ {w} : UNCHANGED <<wpc[v], copy[v], evset[v], shown[v], flag[v]>>
    BY <1>0 DEF Look, Remove, Sample, CopyRegister, AddEvent, Add, LowerFlag, Goto, IType, TypeOK
  <1>3. torn' \in {torn, torn \cup {w}, torn \ {w}}
    BY <1>0 DEF Look, Remove, Sample, CopyRegister, AddEvent, LowerFlag
  <1>4. SUFFICES /\ exited' => w \in torn'
                 /\ ~exited' => Sound(w)'
                 /\ w \notin torn' => Follows(w)'
    <2>1. ASSUME NEW v \in Workers \ {w} PROVE Sound(v)' /\ (v \notin torn' => Follows(v)')
      <3>1. UNCHANGED <<wpc[v], copy[v], evset[v], shown[v], flag[v]>> BY <1>2
      <3>2. Sound(v)' BY <1>1, <3>1 DEF Following, Sound
      <3>3. ASSUME v \notin torn' PROVE Follows(v)'
        <4>1. Follows(v) BY <1>3, <3>3 DEF Following
        <4> QED BY <1>1, <1>a, <3>1, <4>1 DEF Follows
      <3> QED BY <3>2, <3>3
    <2>2. exited' => torn' # {} BY <1>4
    <2>3. ~exited' => \A v \in Workers : Sound(v)' BY <1>4, <2>1
    <2>4. \A v \in Workers \ torn' : Follows(v)' BY <1>4, <2>1
    <2> QED BY <1>1, <1>a, <2>2, <2>3, <2>4 DEF Following
  <1>5. /\ Sound(w) /\ (w \notin torn => Follows(w)) /\ papi \in PairType /\ copy[w] \in PairType
        /\ copy \in [Workers -> PairType] /\ (~Storing => papi = asked)
    BY <1>1 DEF Following, IType
  <1>6. /\ wpc \in [Workers -> {"none", "look", "copy0", "copy1", "add0", "add1", "lower"}]
        /\ evset \in [Workers -> SUBSET PapiEvents] /\ DOMAIN shown = Workers /\ DOMAIN flag = Workers
    BY DEF IType, TypeOK
  <1>b. \A q \in PairType : Members(q) = {q[1], q[2]} BY PairFacts
  <1>c. ~Storing => papi[1] # papi[2] BY <1>5, PairFacts DEF IType, TypeOK
  <1>7. CASE Look(w)
    <2>1. /\ wpc[w] = "look" /\ wpc'[w] = "copy0" /\ shown'[w] = {} /\ flag' = flag
          /\ evset'[w] = evset[w] \ Members(copy[w]) /\ exited' = Stuck(w)
          /\ torn' = IF Storing THEN torn \cup {w} ELSE IF Stuck(w) THEN torn ELSE torn \ {w}
      BY <1>6, <1>7 DEF Look, Remove, AtWork, Goto
    <2>2. w \notin torn => ~ Stuck(w) BY <1>5, <2>1 DEF Follows, Stuck
    <2>3. ASSUME ~ Stuck(w) PROVE evset'[w] = {}
      <3>1. PICK a, b : evset[w] = {a, b} BY <1>5, <2>1 DEF Sound, TwoEvents
      <3>2. {copy[w][1], copy[w][2]} \subseteq {a, b} /\ copy[w][1] # copy[w][2]
        BY <1>5, <1>b, <2>3, <3>1 DEF Stuck
      <3>3. Members(copy[w]) = {a, b} BY <1>5, <1>b, <3>2
      <3> QED BY <2>1, <3>1, <3>3
    <2>4. ~exited' => Sound(w)' BY <2>1, <2>3 DEF Sound
    <2>5. exited' => w \in torn' BY <2>1, <2>2
    <2>6. w \notin torn' => ~ Storing BY <2>1
    <2>7. w \notin torn' => Follows(w)' BY <1>a, <2>1, <2>6 DEF Follows
    <2> QED BY <2>4, <2>5, <2>7
  <1>8. CASE Sample(w)
    <2>1. /\ wpc[w] = "look" /\ ~flag[w] /\ UNCHANGED <<flag, wpc, copy, evset, exited, torn>>
          /\ shown'[w] = evset[w]
      BY <1>6, <1>8 DEF Sample, AtWork
    <2>2. w \notin torn => Follows(w)' BY <1>1, <1>5, <1>a, <2>1 DEF Follows
    <2> QED BY <1>1, <1>5, <2>1, <2>2 DEF Sound
  <1>9. CASE CopyRegister(w)
    <2>1. UNCHANGED <<flag, shown, evset, exited, torn>> BY <1>9 DEF CopyRegister
    <2>2. CASE wpc[w] = "copy0"
      <3>1. copy' = [copy EXCEPT ![w][1] = papi[1]] /\ wpc'[w] = "copy1"
        BY <1>6, <1>9, <2>2 DEF CopyRegister, AtWork, Goto
      <3>2. copy'[w][1] = papi[1] BY <1>5, <3>1 DEF PairType
      <3>3. Sound(w)' BY <1>5, <2>1, <2>2, <3>1 DEF Sound
      <3>4. w \notin torn => Follows(w)' BY <1>1, <1>a, <1>5, <2>1, <2>2, <3>1, <3>2 DEF Follows
      <3> QED BY <1>1, <2>1, <3>3, <3>4
    <2>3. CASE wpc[w] = "copy1"
      <3>1. copy' = [copy EXCEPT ![w][2] = papi[2]] /\ wpc'[w] = "add0"
        BY <1>6, <1>9, <2>3 DEF CopyRegister, AtWork, Goto
      <3>2. ASSUME w \notin torn PROVE copy'[w] = papi
        <4>1. copy[w][1] = papi[1] BY <1>5, <2>3, <3>2 DEF Follows
        <4>2. copy'[w] = [copy[w] EXCEPT ![2] = papi[2]] BY <1>5, <3>1
        <4> QED BY <1>5, <4>1, <4>2 DEF PairType
      <3>3. Sound(w)' BY <1>5, <2>1, <2>3, <3>1 DEF Sound
      <3>4. w \notin torn => Follows(w)' BY <1>1, <1>a, <1>5, <2>1, <2>3, <3>1, <3>2 DEF Follows
      <3> QED BY <1>1, <2>1, <3>3, <3>4
    <2> QED BY <1>9, <2>2, <2>3 DEF CopyRegister, AtWork
  <1>10. CASE AddEvent(w)
    <2>1. UNCHANGED <<flag, shown, copy, torn>> /\ wpc[w] \in {"add0", "add1"}
      BY <1>10 DEF AddEvent, AtWork
    <2>2. w \notin torn => ~Storing /\ papi[1] # papi[2] /\ copy[w] = papi /\ shown[w] = {}
      BY <1>5, <1>c, <2>1 DEF Follows
    <2>3. Members(papi) = {papi[1], papi[2]} BY <1>5, <1>b
    <2>4. CASE wpc[w] = "add0"
      <3>1. Add(w, papi[1]) /\ wpc'[w] = "add1" BY <1>6, <1>10, <2>4 DEF AddEvent, AtWork, Goto
      <3>2. evset[w] = {} BY <1>5, <2>4 DEF Sound
      <3>3. ~exited' /\ evset'[w] = {papi[1]} BY <1>6, <3>1, <3>2 DEF Add
      <3>4. Sound(w)' BY <3>1, <3>3 DEF Sound, OneEvent
      <3>5. w \notin torn' => Follows(w)' BY <1>1, <1>a, <2>1, <2>2, <3>1, <3>3 DEF Follows
      <3> QED BY <3>3, <3>4, <3>5
    <2>5. CASE wpc[w] = "add1"
      <3>1. Add(w, papi[2]) /\ wpc'[w] = "lower" BY <1>6, <1>10, <2>5 DEF AddEvent, AtWork, Goto
      <3>2. PICK a : evset[w] = {a} BY <1>5, <2>5 DEF Sound, OneEvent
      <3>3. exited' = (papi[2] = a) /\ evset'[w] = {a, papi[2]}
        <4>1. exited' = (papi[2] \in {a}) /\ evset'[w] = {a} \cup {papi[2]}
          BY <1>6, <3>1, <3>2 DEF Add
        <4> QED BY <4>1
      <3>4. w \notin torn => a = papi[1] BY <1>5, <2>5, <3>2 DEF Follows
      <3>5. ~exited' => Sound(w)' BY <3>1, <3>3 DEF Sound, TwoEvents
      <3>6. w \notin torn => evset'[w] = Members(papi) /\ ~exited' BY <2>2, <2>3, <3>3, <3>4
      <3>7. w \notin torn' => Follows(w)' BY <1>1, <1>a, <2>1, <2>2, <3>1, <3>6 DEF Follows
      <3> QED BY <2>1, <3>5, <3>6, <3>7
    <2> QED BY <2>1, <2>4, <2>5
  <1>11. CASE LowerFlag(w)
    <2>1. UNCHANGED <<shown, copy, evset, exited, torn>> /\ wpc[w] = "lower" /\ wpc'[w] = "look"
      BY <1>6, <1>11 DEF LowerFlag, AtWork, Goto
    <2>2. w \notin torn => /\ evset[w] = Members(papi) /\ copy[w] = papi /\ shown[w] = {}
                           /\ ~Storing /\ papi[1] # papi[2]
      BY <1>5, <1>c, <2>1 DEF Follows
    <2>3. Sound(w)' BY <1>5, <2>1 DEF Sound
    <2>4. w \notin torn' => Follows(w)' BY <1>1, <1>a, <2>1, <2>2 DEF Follows
    <2> QED BY <1>1, <2>1, <2>3, <2>4
  <1> QED BY <1>0, <1>7, <1>8, <1>9, <1>10, <1>11

\* Following is inductive.
LEMMA FollowingStep == IType /\ Following /\ [Next]_vars => Following'
  <1> SUFFICES ASSUME IType, Following, [Next]_vars PROVE Following' OBVIOUS
  <1>1. CASE UNCHANGED <<pc, asked, work, exited>>
    <2>1. UNCHANGED <<pc, asked, papi, flag, shown, wpc, copy, evset, torn, exited>> BY <1>1 DEF work
    <2> QED BY <2>1 DEF Following, Follows, Sound, Storing
  <1>2. UNCHANGED vars => UNCHANGED <<pc, asked, work, exited>> BY DEF vars, main
  <1>3. (\E k \in Kinds : Event(k)) => UNCHANGED <<pc, asked, work, exited>> BY DEF Event, main
  <1>4. CallClear \/ CallSelect \/ CallMask \/ CallStop \/ CallStart \/ CallRestart \/ RestartRest
        \/ CallRead \/ ReadRest => UNCHANGED <<pc, asked, work, exited>>
    BY DEF CallClear, CallSelect, CallMask, CallStop, CallStart, CallRestart, RestartRest, CallRead,
           ReadRest, KeepRest
  <1>5. CASE MainSteps BY <1>5, MainFollowing
  <1>6. CASE WorkSteps BY <1>6, WorkFollowing
  <1> QED BY <1>1, <1>2, <1>3, <1>4, <1>5, <1>6 DEF Next, Gone, MainSteps, WorkSteps

\* Whichever pairs the client asks for and whenever it asks, and however many
\* workers there are: a worker whose last takeover met no change of the events
\* follows the client, and only a worker of which that is not true ends the
\* daemon.
THEOREM WorkersFollowHolds == Spec => []WorkersFollow
  <1>1. Following => WorkersFollow BY DEF Following, Follows, WorkersFollow
  <1>2. Init => IType /\ Following BY InitType, InitFollowing
  <1>3. IType /\ Following /\ [Next]_vars => (IType /\ Following)' BY TypeStep, FollowingStep
  <1> QED BY <1>1, <1>2, <1>3, PTL DEF Spec
-----------------------------------------------------------------------------
\* The order of the calls.

\* What the first call says about the ones still to be made.
LEMMA AheadFacts ==
    ASSUME Plan, todo # <<>>
    PROVE  /\ In(Head(todo).op, At) /\ Head(todo).op \in CallOps /\ At \in Counters
           /\ Head(todo).op \in SetUpOps => At \in Caves \cup Tots
           /\ Head(todo).op = "restart" => At \in Caves
           /\ Head(todo).op \in {"stop", "start"} => At \in Hits
           /\ Head(todo).op # "clear" => \A c \in Counters : ~ In("clear", c)
           /\ Head(todo).op \notin SetUpOps => \A c \in Counters : ~ In("select", c) /\ ~ In("mask", c)
           /\ Head(todo).op \in {"stop", "start", "read"} => \A c \in Counters : ~ In("restart", c)
           /\ Head(todo).op \in {"start", "read"} => \A c \in Counters : ~ In("stop", c)
           /\ Head(todo).op = "read" => \A c \in Counters : ~ In("start", c)
           /\ Head(todo).op = "mask" => ~ In("select", At)
  <1> DEFINE h == Head(todo)
  <1>1. todo \in Seq(Calls) /\ Ordered(todo) BY DEF Plan
  <1>2. /\ h \in Calls /\ Members(todo) = {h} \cup Members(Tail(todo))
        /\ \A y \in Members(Tail(todo)) : Before(h, y)
    BY <1>1, TailFacts
  <1> HIDE DEF h
  <1>3. Caves \subseteq Counters /\ Tots \subseteq Counters /\ Hits \subseteq Counters BY Consts
  <1>4. /\ h = [op |-> h.op, c |-> h.c] /\ h.op \in CallOps /\ h.c \in Counters
        /\ h.op \in SetUpOps => h.c \in Caves \cup Tots
        /\ h.op = "restart" => h.c \in Caves
        /\ h.op \in {"stop", "start"} => h.c \in Hits
    <2>1. CASE h \in [op : SetUpOps, c : Caves \cup Tots]
      <3>1. h = [op |-> h.op, c |-> h.c] /\ h.op \in SetUpOps /\ h.c \in Caves \cup Tots BY <2>1
      <3> QED BY <1>3, <3>1 DEF CallOps, SetUpOps
    <2>2. CASE h \in [op : {"restart"}, c : Caves]
      <3>1. h = [op |-> h.op, c |-> h.c] /\ h.op = "restart" /\ h.c \in Caves BY <2>2
      <3> QED BY <1>3, <3>1 DEF CallOps, SetUpOps
    <2>3. CASE h \in [op : {"stop", "start"}, c : Hits]
      <3>1. h = [op |-> h.op, c |-> h.c] /\ h.op \in {"stop", "start"} /\ h.c \in Hits BY <2>3
      <3> QED BY <1>3, <3>1 DEF CallOps, SetUpOps
    <2>4. CASE h \in [op : {"read"}, c : Counters]
      <3>1. h = [op |-> h.op, c |-> h.c] /\ h.op = "read" /\ h.c \in Counters BY <2>4
      <3> QED BY <3>1 DEF CallOps, SetUpOps
    <2> QED BY <1>2, <2>1, <2>2, <2>3, <2>4 DEF Calls
  <1>5. In(h.op, h.c) BY <1>2, <1>4 DEF In, Has
  <1>6. ASSUME NEW op, NEW c, In(op, c)
        PROVE  \/ op = h.op /\ c = h.c
               \/ /\ op = "clear" => h.op = "clear"
                  /\ op \in {"select", "mask"} => h.op \in SetUpOps
                  /\ op = "restart" => h.op \notin {"stop", "start", "read"}
                  /\ op = "stop" => h.op \notin {"start", "read"}
                  /\ op = "start" => h.op # "read"
                  /\ h.c = c => h.op # op /\ ~ (h.op = "mask" /\ op = "select")
    <2> DEFINE k == [op |-> op, c |-> c]
    <2>1. k = h \/ Before(h, k) BY <1>2, <1>6 DEF In, Has
    <2>2. k.op = op /\ k.c = c OBVIOUS
    <2> HIDE DEF k
    <2> QED BY <2>1, <2>2 DEF Before
  <1>7. h = Head(todo) /\ h.c = At BY DEF h, At
  <1>8. /\ h.op # "clear" => \A c \in Counters : ~ In("clear", c)
        /\ h.op \notin SetUpOps => \A c \in Counters : ~ In("select", c) /\ ~ In("mask", c)
        /\ h.op \in {"stop", "start", "read"} => \A c \in Counters : ~ In("restart", c)
    BY <1>6 DEF SetUpOps
  <1>9. /\ h.op \in {"start", "read"} => \A c \in Counters : ~ In("stop", c)
        /\ h.op = "read" => \A c \in Counters : ~ In("start", c)
        /\ h.op = "mask" => ~ In("select", h.c)
    BY <1>6
  <1> QED BY <1>4, <1>5, <1>7, <1>8, <1>9

\* A call that is made is not made again.
LEMMA DoneFacts ==
    ASSUME Plan, todo # <<>>, todo' = Tail(todo)
    PROVE  /\ todo' \in Seq(Calls) /\ Ordered(todo')
           /\ \A op \in CallOps, c \in Counters :
                In(op, c)' <=> In(op, c) /\ ~ (op = Head(todo).op /\ c = At)
  <1>1. todo \in Seq(Calls) /\ Ordered(todo) BY DEF Plan
  <1>2. /\ Head(todo) \in Calls /\ Members(todo) = {Head(todo)} \cup Members(todo')
        /\ \A y \in Members(todo') : Before(Head(todo), y)
        /\ todo' \in Seq(Calls) /\ Ordered(todo')
    BY <1>1, TailFacts
  <1>3. Head(todo) \notin Members(todo') BY <1>2 DEF Before
  <1>4. Members(todo') = Members(todo) \ {Head(todo)} BY <1>2, <1>3
  <1>5. Head(todo) = [op |-> Head(todo).op, c |-> At]
    <2>1. \A k \in Calls : k = [op |-> k.op, c |-> k.c]
      <3>1. \A k \in [op : SetUpOps, c : Caves \cup Tots] : k = [op |-> k.op, c |-> k.c] OBVIOUS
      <3>2. \A k \in [op : {"restart"}, c : Caves] : k = [op |-> k.op, c |-> k.c] OBVIOUS
      <3>3. \A k \in [op : {"stop", "start"}, c : Hits] : k = [op |-> k.op, c |-> k.c] OBVIOUS
      <3>4. \A k \in [op : {"read"}, c : Counters] : k = [op |-> k.op, c |-> k.c] OBVIOUS
      <3> QED BY <3>1, <3>2, <3>3, <3>4 DEF Calls
    <2> QED BY <1>2, <2>1 DEF At
  <1>6. ASSUME NEW op \in CallOps, NEW c \in Counters
        PROVE  In(op, c)' <=> In(op, c) /\ ~ (op = Head(todo).op /\ c = At)
    <2>1. [op |-> op, c |-> c] = Head(todo) <=> op = Head(todo).op /\ c = At BY <1>5
    <2>2. In(op, c)' <=> [op |-> op, c |-> c] \in Members(todo') BY DEF In, Has
    <2> QED BY <1>4, <2>1, <2>2 DEF In, Has
  <1> QED BY <1>2, <1>6

\* What is to come when a measurement begins, and at the start.
LEMMA NewIn ==
    /\ \A op \in CallOps, c \in Counters : ~ Has(<<>>, op, c)
    /\ \A op \in CallOps, c \in Counters :
        Has(Measure, op, c) <=> \/ op = "restart" /\ c \in Caves
                                \/ op \in {"stop", "start"} /\ c \in Hits
                                \/ op = "read"
    /\ \A op \in CallOps, c \in Counters :
        Has(StartCounters, op, c) <=> \/ op \in SetUpOps /\ c \in Caves \cup Tots
                                      \/ op = "restart" /\ c \in Caves
                                      \/ op \in {"stop", "start"} /\ c \in Hits
                                      \/ op = "read"
  <1>0. ASSUME NEW o, NEW S, NEW op, NEW c
        PROVE  [op |-> op, c |-> c] \in Each1(o, S) <=> op = o /\ c \in S
    <2>1. ASSUME NEW d PROVE [op |-> op, c |-> c] = [op |-> o, c |-> d] <=> op = o /\ c = d OBVIOUS
    <2> QED BY <2>1 DEF Each1
  <1>1. ASSUME NEW op, NEW c
        PROVE  [op |-> op, c |-> c] \in MeasureSet
               <=> \/ op = "restart" /\ c \in Caves
                   \/ op = "stop" /\ c \in Hits
                   \/ op = "start" /\ c \in Hits
                   \/ op = "read" /\ c \in Counters
    <2>1. [op |-> op, c |-> c] \in Each1("restart", Caves) <=> op = "restart" /\ c \in Caves BY <1>0
    <2>2. [op |-> op, c |-> c] \in Each1("stop", Hits) <=> op = "stop" /\ c \in Hits BY <1>0
    <2>3. [op |-> op, c |-> c] \in Each1("start", Hits) <=> op = "start" /\ c \in Hits BY <1>0
    <2>4. [op |-> op, c |-> c] \in Each1("read", Counters) <=> op = "read" /\ c \in Counters BY <1>0
    <2> QED BY <2>1, <2>2, <2>3, <2>4, Zenon DEF MeasureSet
  <1>2. ASSUME NEW op, NEW c
        PROVE  [op |-> op, c |-> c] \in StartSet
               <=> \/ op = "clear" /\ c \in Caves \cup Tots
                   \/ op = "select" /\ c \in Caves \cup Tots
                   \/ op = "mask" /\ c \in Caves \cup Tots
                   \/ [op |-> op, c |-> c] \in MeasureSet
    BY <1>0 DEF StartSet
  <1>3. \A op \in CallOps, c \in Counters : ~ Has(<<>>, op, c)
    <2>1. Members(<<>>) = {} BY DEF Members
    <2> QED BY <2>1 DEF Has
  <1>4. \A op \in CallOps, c \in Counters :
        Has(Measure, op, c) <=> \/ op = "restart" /\ c \in Caves
                                \/ op \in {"stop", "start"} /\ c \in Hits
                                \/ op = "read"
    <2>1. Members(Measure) = MeasureSet BY MeasureFacts
    <2>2. SUFFICES ASSUME NEW op \in CallOps, NEW c \in Counters
                   PROVE  Has(Measure, op, c) <=> \/ op = "restart" /\ c \in Caves
                                                  \/ op \in {"stop", "start"} /\ c \in Hits
                                                  \/ op = "read"
      OBVIOUS
    <2>3. Has(Measure, op, c) <=> [op |-> op, c |-> c] \in MeasureSet BY <2>1 DEF Has
    <2>4. [op |-> op, c |-> c] \in MeasureSet
          <=> \/ op = "restart" /\ c \in Caves
              \/ op = "stop" /\ c \in Hits
              \/ op = "start" /\ c \in Hits
              \/ op = "read" /\ c \in Counters
      BY <1>1
    <2> QED BY <2>3, <2>4
  <1>5. \A op \in CallOps, c \in Counters :
        Has(StartCounters, op, c) <=> \/ op \in SetUpOps /\ c \in Caves \cup Tots
                                      \/ op = "restart" /\ c \in Caves
                                      \/ op \in {"stop", "start"} /\ c \in Hits
                                      \/ op = "read"
    <2>1. Members(StartCounters) = StartSet BY StartFacts
    <2>2. SUFFICES ASSUME NEW op \in CallOps, NEW c \in Counters
                   PROVE  Has(StartCounters, op, c) <=> \/ op \in SetUpOps /\ c \in Caves \cup Tots
                                                        \/ op = "restart" /\ c \in Caves
                                                        \/ op \in {"stop", "start"} /\ c \in Hits
                                                        \/ op = "read"
      OBVIOUS
    <2>3. Has(StartCounters, op, c) <=> [op |-> op, c |-> c] \in StartSet BY <2>1 DEF Has
    <2>4. [op |-> op, c |-> c] \in MeasureSet
          <=> \/ op = "restart" /\ c \in Caves
              \/ op = "stop" /\ c \in Hits
              \/ op = "start" /\ c \in Hits
              \/ op = "read" /\ c \in Counters
      BY <1>1
    <2>5. [op |-> op, c |-> c] \in StartSet
          <=> \/ op = "clear" /\ c \in Caves \cup Tots
              \/ op = "select" /\ c \in Caves \cup Tots
              \/ op = "mask" /\ c \in Caves \cup Tots
              \/ [op |-> op, c |-> c] \in MeasureSet
      BY <1>2
    <2> QED BY <2>3, <2>4, <2>5 DEF SetUpOps
  <1> QED BY <1>3, <1>4, <1>5

\* The names of the calls, and the three groups of counters.
LEMMA OpsFacts ==
    /\ \A op \in SetUpOps : op \in CallOps
    /\ {"clear", "select", "mask", "restart", "stop", "start", "read"} = CallOps
    /\ Caves \subseteq Counters /\ Tots \subseteq Counters /\ Hits \subseteq Counters
    /\ Caves \cap Tots = {} /\ Caves \cap Hits = {} /\ Tots \cap Hits = {}
  BY Consts DEF SetUpOps, CallOps

\* start_numachip_counters has everything still to do.
LEMMA PlanInit == Init => Plan
  <1> SUFFICES ASSUME Init PROVE Plan OBVIOUS
  <1>1. todo = StartCounters /\ half = Idle BY DEF Init
  <1>2. todo \in Seq(Calls) /\ Ordered(todo) BY <1>1, StartFacts
  <1>3. \A c \in Counters :
          /\ c \in Caves => In("restart", c)
          /\ c \in Hits => In("start", c) 
          /\ c \in Caves \cup Tots => In("clear", c) /\ In("select", c) /\ In("mask", c)
          /\ In("read", c)
    BY <1>1, NewIn, OpsFacts DEF SetUpOps, In
  <1> QED BY <1>1, <1>2, <1>3, OpsFacts DEF Plan

\* A call is made.
LEMMA PlanDone == ASSUME Plan, todo # <<>>, todo' = Tail(todo), half' = Idle PROVE Plan'
  <1>0. DEFINE o == Head(todo).op
  <1>1. todo' \in Seq(Calls) /\ Ordered(todo') BY DoneFacts
  <1>2. \A op \in CallOps, c \in Counters : In(op, c)' <=> In(op, c) /\ ~ (op = o /\ c = At)
    BY DoneFacts
  <1>3. /\ o # "clear" => \A c \in Counters : ~ In("clear", c)
        /\ o \notin SetUpOps => \A c \in Counters : ~ In("select", c) /\ ~ In("mask", c)
        /\ o \in {"stop", "start", "read"} => \A c \in Counters : ~ In("restart", c)
        /\ o \in {"start", "read"} => \A c \in Counters : ~ In("stop", c)
        /\ o = "read" => \A c \in Counters : ~ In("start", c)
        /\ o = "mask" => ~ In("select", At)
    BY AheadFacts
  <1> HIDE DEF o
  <1>4. \A c \in Caves \cup Tots :
          /\ (In("clear", c) => In("select", c)) /\ (In("select", c) => In("mask", c))
          /\ In("mask", c) => In("read", c)
    BY DEF Plan
  <1>5. \A c \in Caves : (In("mask", c) => In("restart", c)) /\ (In("restart", c) => In("read", c))
    BY DEF Plan
  <1>6. \A c, d \in Hits : (In("stop", c) => In("start", d)) /\ (In("start", c) => In("read", c))
    BY DEF Plan
  <1>7. ASSUME NEW c \in Caves \cup Tots
        PROVE  /\ (In("clear", c)' => In("select", c)') /\ (In("select", c)' => In("mask", c)')
               /\ In("mask", c)' => In("read", c)'
    BY <1>2, <1>3, <1>4, OpsFacts DEF SetUpOps
  <1>8. ASSUME NEW c \in Caves
        PROVE  (In("mask", c)' => In("restart", c)') /\ (In("restart", c)' => In("read", c)')
    BY <1>2, <1>3, <1>5, OpsFacts DEF SetUpOps
  <1>9. ASSUME NEW c \in Hits, NEW d \in Hits
        PROVE  (In("stop", c)' => In("start", d)') /\ (In("start", c)' => In("read", c)')
    BY <1>2, <1>3, <1>6, OpsFacts
  <1> QED BY <1>1, <1>7, <1>8, <1>9, Consts DEF Plan

\* The list stays as it is, or another measurement begins.
LEMMA PlanSame ==
    ASSUME Plan, todo' = todo,
           half' = half \/ (todo # <<>> /\ Head(todo).op \in {"restart", "read"})
    PROVE  Plan' /\ \A op, c : In(op, c)' <=> In(op, c)
  <1>1. \A op, c : In(op, c)' <=> In(op, c) BY DEF In
  <1> QED BY <1>1 DEF Plan

\* ... with the calls of Measure.
LEMMA PlanNew == ASSUME todo' = Measure, half' = Idle PROVE Plan'
  <1>2. todo' \in Seq(Calls) /\ Ordered(todo') BY MeasureFacts
  <1>3. \A op \in CallOps, c \in Counters :
          In(op, c)' <=> \/ op = "restart" /\ c \in Caves
                         \/ op \in {"stop", "start"} /\ c \in Hits
                         \/ op = "read"
    BY NewIn DEF In
  <1> QED BY <1>2, <1>3, OpsFacts DEF Plan
-----------------------------------------------------------------------------
\* What is in the fields.

\* At the start nothing is claimed of any field: every counter is still to be cleared.
LEMMA SettingInit == Init => Setting
  <1> SUFFICES ASSUME Init PROVE Setting OBVIOUS
  <1>1. todo = StartCounters BY DEF Init
  <1>2. \A c \in Counters :
          /\ c \in Hits => In("start", c)
          /\ c \in Caves \cup Tots => In("clear", c) /\ In("mask", c)
    BY <1>1, NewIn, OpsFacts DEF SetUpOps, In
  <1> QED BY <1>2, OpsFacts DEF Setting

\* The calls that set a counter up find it free.
LEMMA NeverBusy ==
    ASSUME Plan, Setting, todo # <<>>
    PROVE  /\ Head(todo).op = "select" => /\ ~ SelectBusy(reg, At, UnitOf(At))
                                          /\ reg.select[At] = {} /\ In("mask", At)
           /\ Head(todo).op = "mask" => /\ ~ MaskBusy(reg, At, EventOf[At])
                                        /\ reg.select[At] = cave /\ In("mask", At)
                                        /\ reg.hi[At] = 0 /\ reg.lo[At] = 0
  <1>1. CASE Head(todo).op = "select"
    <2>1. At \in Caves \cup Tots /\ In("select", At) /\ ~ In("clear", At)
      BY <1>1, AheadFacts DEF SetUpOps
    <2>2. In("mask", At) BY <2>1 DEF Plan
    <2>3. reg.select[At] = {} BY <2>1, <2>2 DEF Setting
    <2> QED BY <1>1, <2>2, <2>3 DEF SelectBusy
  <1>2. CASE Head(todo).op = "mask"
    <2>1. At \in Caves \cup Tots /\ In("mask", At) /\ ~ In("clear", At) /\ ~ In("select", At)
      BY <1>2, AheadFacts DEF SetUpOps
    <2>2. reg.select[At] = cave /\ reg.mask[At] = {} /\ reg.hi[At] = 0 /\ reg.lo[At] = 0
      BY <2>1 DEF Setting
    <2> QED BY <1>2, <2>1, <2>2 DEF MaskBusy
  <1> QED BY <1>1, <1>2

\* A call changes the fields of its own counter only, but for the stop.
LEMMA OwnFields ==
    ASSUME IType, Plan, Setting, todo # <<>>, todo' = Tail(todo), NEW a \in Counters, a = At,
           \A c \in Counters \ {a} : UNCHANGED <<reg.select[c], reg.mask[c], reg.hi[c], reg.lo[c]>>,
           a \in Caves \cup Tots =>
              /\ In("mask", a)' /\ ~ In("clear", a)' =>
                    /\ reg'.mask[a] = {} /\ reg'.hi[a] = 0 /\ reg'.lo[a] = 0
                    /\ reg'.select[a] = IF In("select", a)' THEN {} ELSE cave
              /\ ~ In("mask", a)' => Runs(a)',
           a \in Hits /\ ~ In("start", a)' => Runs(a)'
    PROVE  Setting'
  <1>1. \A op \in CallOps, c \in Counters : c # a => (In(op, c)' <=> In(op, c)) BY DoneFacts
  <1>2. ASSUME NEW c \in Caves \cup Tots
        PROVE  /\ In("mask", c)' /\ ~ In("clear", c)' =>
                    /\ reg'.mask[c] = {} /\ reg'.hi[c] = 0 /\ reg'.lo[c] = 0
                    /\ reg'.select[c] = IF In("select", c)' THEN {} ELSE cave
               /\ ~ In("mask", c)' => Runs(c)'
    <2>1. CASE c = a BY <1>2, <2>1
    <2>2. CASE c # a
      <3>1. c \in Counters /\ UNCHANGED <<reg.select[c], reg.mask[c], reg.hi[c], reg.lo[c]>>
        BY <2>2, OpsFacts
      <3>2. (In("mask", c)' <=> In("mask", c)) /\ (In("clear", c)' <=> In("clear", c))
            /\ (In("select", c)' <=> In("select", c))
        BY <1>1, <2>2, <3>1, OpsFacts
      <3> QED BY <3>1, <3>2 DEF Setting, Runs
    <2> QED BY <2>1, <2>2
  <1>3. ASSUME NEW c \in Hits, ~ In("start", c)' PROVE Runs(c)'
    <2>1. CASE c = a BY <1>3, <2>1
    <2>2. CASE c # a
      <3>1. c \in Counters /\ UNCHANGED <<reg.select[c], reg.mask[c], reg.hi[c], reg.lo[c]>>
        BY <2>2, OpsFacts
      <3>2. ~ In("start", c) BY <1>1, <1>3, <2>2, <3>1, OpsFacts
      <3> QED BY <3>1, <3>2 DEF Setting, Runs
    <2> QED BY <2>1, <2>2
  <1> QED BY <1>2, <1>3 DEF Setting

\* Every call leaves the fields as the calls after it expect them.
LEMMA SettingCalls ==
    ASSUME IType, Plan, Setting,
           CallClear \/ CallSelect \/ CallMask \/ CallStop \/ CallStart \/ CallRestart \/ RestartRest
           \/ CallRead \/ ReadRest
    PROVE  Setting' /\ todo' \in {todo, Tail(todo)}
  <1>1. todo # <<>>
    BY DEF CallClear, CallSelect, CallMask, CallStop, CallStart, CallRestart, RestartRest, CallRead,
           ReadRest, Call
  <1>2. PICK a \in Counters : a = At /\ reg \in Registers BY <1>1, AheadFacts DEF IType, TypeOK
  <1>3. /\ reg.select \in [Counters -> Unit] /\ reg.mask \in [Counters -> SUBSET Events]
        /\ reg.hi \in [Counters -> 0 .. HighMod - 1] /\ reg.lo \in [Counters -> 0 .. LowMod - 1]
    BY <1>2, RegFields
  <1>4. CASE CallClear
    <2>1. Head(todo).op = "clear" /\ todo' = Tail(todo) /\ reg' = Clear(reg, a)
      BY <1>2, <1>4 DEF CallClear, Call, Return
    <2>2. a \in Caves \cup Tots /\ In("clear", a) BY <1>2, <1>1, <2>1, AheadFacts DEF SetUpOps
    <2>3. In("select", a) /\ In("mask", a) /\ a \notin Hits BY <1>2, <2>2, OpsFacts DEF Plan
    <2>4. In("select", a)' /\ In("mask", a)' BY <1>1, <1>2, <2>1, <2>3, DoneFacts, OpsFacts
    <2>5. /\ reg'.select = [reg.select EXCEPT ![a] = {}] /\ reg'.mask = [reg.mask EXCEPT ![a] = {}]
          /\ reg'.hi = [reg.hi EXCEPT ![a] = 0] /\ reg'.lo = [reg.lo EXCEPT ![a] = 0]
      BY <1>2, <2>1, ClearFacts
    <2>6. /\ \A c \in Counters \ {a} : UNCHANGED <<reg.select[c], reg.mask[c], reg.hi[c], reg.lo[c]>>
          /\ reg'.select[a] = {} /\ reg'.mask[a] = {} /\ reg'.hi[a] = 0 /\ reg'.lo[a] = 0
      BY <1>2, <1>3, <2>5
    <2> QED BY <1>2, <1>1, <2>1, <2>3, <2>4, <2>6, OwnFields
  <1>5. CASE CallSelect
    <2>1. Head(todo).op = "select" /\ reg' = Select(reg, a, UnitOf(a))
      BY <1>2, <1>5 DEF CallSelect, Call
    <2>2. ~ SelectBusy(reg, a, UnitOf(a)) /\ reg.select[a] = {} /\ In("mask", a)
      BY <1>2, <1>1, <2>1, NeverBusy
    <2>3. todo' = Tail(todo) BY <1>2, <1>5, <2>2 DEF CallSelect
    <2>4. /\ a \in Caves \cup Tots /\ In("select", a) /\ ~ In("clear", a) /\ a \notin Hits
          /\ UnitOf(a) = cave /\ UnitOf(a) \in Unit
      BY <1>1, <1>2, <2>1, AheadFacts, OpsFacts, KindFacts DEF SetUpOps
    <2>5. ~ In("select", a)' /\ In("mask", a)' BY <1>1, <1>2, <2>1, <2>2, <2>3, DoneFacts, OpsFacts
    <2>6. reg.mask[a] = {} /\ reg.hi[a] = 0 /\ reg.lo[a] = 0 BY <1>2, <2>2, <2>4 DEF Setting
    <2>7. /\ reg'.select = [reg.select EXCEPT ![a] = @ \cup cave]
          /\ reg'.mask = reg.mask /\ reg'.hi = reg.hi /\ reg'.lo = reg.lo
      BY <1>2, <2>1, <2>2, <2>4, SelectFacts
    <2>8. /\ \A c \in Counters \ {a} : UNCHANGED <<reg.select[c], reg.mask[c], reg.hi[c], reg.lo[c]>>
          /\ reg'.select[a] = cave /\ reg'.mask[a] = {} /\ reg'.hi[a] = 0 /\ reg'.lo[a] = 0
      BY <1>2, <1>3, <2>2, <2>6, <2>7
    <2> QED BY <1>2, <1>1, <2>3, <2>4, <2>5, <2>8, OwnFields
  <1>6. CASE CallMask
    <2>1. Head(todo).op = "mask" /\ reg' = Mask(reg, a, EventOf[a]) BY <1>2, <1>6 DEF CallMask, Call
    <2>2. ~ MaskBusy(reg, a, EventOf[a]) /\ reg.select[a] = cave BY <1>2, <1>1, <2>1, NeverBusy
    <2>3. todo' = Tail(todo) BY <1>2, <1>6, <2>2 DEF CallMask
    <2>4. /\ a \in Caves \cup Tots /\ a \notin Hits /\ UnitOf(a) = cave /\ EventOf[a] \in Events
      BY <1>1, <1>2, <2>1, AheadFacts, OpsFacts, KindFacts DEF SetUpOps
    <2>5. ~ In("mask", a)' BY <1>1, <1>2, <2>1, <2>3, DoneFacts, OpsFacts
    <2>6. /\ reg'.select = reg.select /\ reg'.mask = [reg.mask EXCEPT ![a] = {EventOf[a]}]
          /\ reg'.hi = reg.hi /\ reg'.lo = reg.lo
      BY <1>2, <2>1, <2>2, <2>4, MaskFacts
    <2>7. /\ \A c \in Counters \ {a} : UNCHANGED <<reg.select[c], reg.mask[c], reg.hi[c], reg.lo[c]>>
          /\ reg'.select[a] = cave /\ reg'.mask[a] = {EventOf[a]}
      BY <1>2, <1>3, <2>2, <2>6
    <2>8. \A c \in Counters : c = a => Runs(c)' BY <1>2, <2>4, <2>7 DEF Runs
    <2> QED BY <1>1, <1>2, <2>3, <2>4, <2>5, <2>7, <2>8, OwnFields
  <1>7. CASE CallStop
    <2>1. Head(todo).op = "stop" /\ todo' = Tail(todo) /\ reg' = Stop(reg, a)
      BY <1>2, <1>7 DEF CallStop, Call, Return
    <2>2. /\ a \in Hits /\ In("stop", a)
          /\ \A c \in Counters : ~ In("mask", c)
      BY <1>2, <1>1, <2>1, AheadFacts DEF SetUpOps
    <2>3. \A c \in Hits : In("start", c) BY <1>2, <2>2 DEF Plan
    <2>4. /\ \A c \in Hits : In("start", c)'
          /\ \A c \in Counters : ~ In("mask", c)'
      BY <1>2, <1>1, <2>1, <2>2, <2>3, DoneFacts, OpsFacts
    <2>5. reg'.select = [d \in Counters |-> IF d = a THEN {} ELSE 0 .. 2] /\ reg'.mask = [reg.mask EXCEPT ![a] = {}]
      BY <1>2, <2>1, StopFacts
    <2>6. ASSUME NEW c \in Caves \cup Tots PROVE Runs(c)'
      <3>1. c \in Counters /\ c # a /\ UnitOf(c) = cave BY <1>2, <2>2, OpsFacts, KindFacts
      <3>2. Runs(c) BY <1>2, <2>2, <3>1 DEF Setting
      <3>3. reg'.select[c] = cave /\ reg'.mask[c] = reg.mask[c] BY <1>2, <1>3, <2>5, <3>1 DEF cave
      <3> QED BY <1>2, <3>1, <3>2, <3>3 DEF Runs
    <2> QED BY <1>2, <2>1, <2>4, <2>6, OpsFacts DEF Setting
  <1>8. CASE CallStart
    <2>1. /\ Head(todo).op = "start" /\ todo' = Tail(todo)
          /\ reg' = FullStart(reg, a, UnitOf(a), EventOf[a])
      BY <1>2, <1>8 DEF CallStart, Call, Return
    <2>2. a \in Hits /\ a \notin Caves \cup Tots /\ EventOf[a] \in Events /\ UnitOf(a) \in Unit
          /\ UnitOf(a) # {}
      BY <1>1, <1>2, <2>1, AheadFacts, OpsFacts, KindFacts
    <2>3. /\ reg'.select = [reg.select EXCEPT ![a] = UnitOf(a)]
          /\ reg'.mask = [reg.mask EXCEPT ![a] = {EventOf[a]}]
          /\ reg'.hi = [reg.hi EXCEPT ![a] = 0] /\ reg'.lo = [reg.lo EXCEPT ![a] = 0]
      BY <1>2, <2>1, <2>2, FullStartFacts
    <2>4. /\ \A c \in Counters \ {a} : UNCHANGED <<reg.select[c], reg.mask[c], reg.hi[c], reg.lo[c]>>
          /\ reg'.select[a] = UnitOf(a) /\ reg'.mask[a] = {EventOf[a]}
      BY <1>2, <1>3, <2>3
    <2>5. \A c \in Counters : c = a => Runs(c)' BY <1>2, <2>4 DEF Runs
    <2> QED BY <1>1, <1>2, <2>1, <2>2, <2>4, <2>5, OwnFields
  <1>9. CASE CallRestart \/ RestartRest \/ CallRead \/ ReadRest
    <2>1. Head(todo).op \in {"restart", "read"} /\ todo' \in {todo, Tail(todo)}
      BY <1>2, <1>9 DEF CallRestart, RestartRest, CallRead, ReadRest, Call, Return
    <2>2. \A c \in Counters : ~ In("mask", c) BY <1>2, <1>1, <2>1, AheadFacts DEF SetUpOps
    <2>3. /\ \A c \in Counters : ~ In("mask", c)'
          /\ \A c \in Hits : In("start", c)' <=> In("start", c)
      <3>1. CASE todo' = todo BY <1>2, <2>2, <3>1 DEF In
      <3>2. CASE todo' = Tail(todo) BY <1>2, <1>1, <2>1, <2>2, <3>2, DoneFacts, OpsFacts
      <3> QED BY <1>2, <2>1, <3>1, <3>2
    <2>4. reg'.select = reg.select /\ reg'.mask = reg.mask
      <3>1. CASE CallRestart
        <4>1. reg' = RestartUpper(reg, a) BY <1>2, <3>1 DEF CallRestart
        <4> QED BY <1>2, <4>1, RestartFacts
      <3>2. CASE RestartRest
        <4>1. reg' = RestartLower(reg, a) BY <1>2, <3>2 DEF RestartRest
        <4> QED BY <1>2, <4>1, RestartFacts
      <3>3. CASE CallRead \/ ReadRest
        <4>1. reg' = reg BY <3>3 DEF CallRead, ReadRest
        <4> QED BY <4>1
      <3> QED BY <1>9, <3>1, <3>2, <3>3
    <2>5. \A c \in Counters : Runs(c)' <=> Runs(c) BY <1>2, <2>4 DEF Runs
    <2> QED BY <1>2, <2>1, <2>2, <2>3, <2>5, OpsFacts DEF Setting
  <1> QED BY <1>4, <1>5, <1>6, <1>7, <1>8, <1>9

\* An event changes no field, and no value of a counter without a mask.
LEMMA SettingEvent ==
    ASSUME IType, Plan, Setting, NEW k \in Kinds, Event(k) PROVE Plan' /\ Setting'
  <1>1. todo' = todo /\ half' = half BY DEF Event, main
  <1>2. Plan' /\ \A op, c : In(op, c)' <=> In(op, c) BY <1>1, PlanSame
  <1>3. reg \in Registers /\ reg' = Tick(reg, k[1], k[2]) BY DEF IType, TypeOK, Event
  <1>4. /\ reg'.select = reg.select /\ reg'.mask = reg.mask
        /\ \A c \in Counters : reg.mask[c] = {} => reg'.lo[c] = reg.lo[c] /\ reg'.hi[c] = reg.hi[c]
    BY <1>3, TickFacts
  <1>5. \A c \in Counters : Runs(c)' <=> Runs(c) BY <1>4 DEF Runs
  <1>6. Setting' BY <1>2, <1>4, <1>5, OpsFacts DEF Setting
  <1> QED BY <1>2, <1>6

\* The next measurement finds every counter running.
LEMMA SettingMain == ASSUME Plan, Setting, MainSteps PROVE Plan' /\ Setting'
  <1>1. todo = <<>> /\ todo' \in {todo, Measure} /\ half' = half /\ reg' = reg
    BY DEF MainSteps, Begin, LogAgain, socklisten, ReadFails, StoreRegisters, Hello, Reply, WriteFails,
           ClientAsks, AtMain, KeepMain, chip
  <1>2. half = Idle BY <1>1 DEF Plan
  <1>3. \A c \in Counters : Runs(c)' <=> Runs(c) BY <1>1 DEF Runs
  <1>4. CASE todo' = todo
    <2>1. Plan' /\ \A op, c : In(op, c)' <=> In(op, c) BY <1>1, <1>4, PlanSame
    <2> QED BY <1>1, <1>3, <2>1, OpsFacts DEF Setting
  <1>5. CASE todo' = Measure
    <2>1. Plan' BY <1>1, <1>2, <1>5, PlanNew
    <2>2. \A op \in CallOps, c \in Counters : ~ In(op, c) BY <1>1, NewIn DEF In
    <2>3. \A c \in Counters : (c \in Caves \cup Tots => ~ In("mask", c)') /\ (c \in Hits => In("start", c)')
      BY <1>5, NewIn, OpsFacts DEF In
    <2>4. Setting' BY <1>3, <2>2, <2>3, OpsFacts DEF Setting
    <2> QED BY <2>1, <2>4
  <1> QED BY <1>1, <1>4, <1>5

\* No call is left out: the set-up is never abandoned for a busy counter.
LEMMA PlanCalls ==
    ASSUME IType, Plan, Setting,
           CallClear \/ CallSelect \/ CallMask \/ CallStop \/ CallStart \/ CallRestart \/ RestartRest
           \/ CallRead \/ ReadRest
    PROVE  Plan' /\ Setting'
  <1>1. Setting' /\ todo' \in {todo, Tail(todo)} BY SettingCalls
  <1>2. CASE CallRestart \/ CallRead
    <2>1. todo' = todo /\ todo # <<>> /\ Head(todo).op \in {"restart", "read"}
      BY <1>2 DEF CallRestart, CallRead, Call
    <2> QED BY <1>1, <2>1, PlanSame
  <1>3. CASE CallClear \/ CallStop \/ CallStart \/ RestartRest \/ ReadRest
    <2>1. todo # <<>> /\ todo' = Tail(todo) /\ half' = Idle
      BY <1>3 DEF CallClear, CallStop, CallStart, RestartRest, ReadRest, Call, Return
    <2> QED BY <1>1, <2>1, PlanDone
  <1>4. CASE CallSelect
    <2>1. todo # <<>> /\ Head(todo).op = "select" /\ half' = Idle BY <1>4 DEF CallSelect, Call
    <2>2. todo' = Tail(todo) BY <1>4, <2>1, NeverBusy DEF CallSelect
    <2> QED BY <1>1, <2>1, <2>2, PlanDone
  <1>5. CASE CallMask
    <2>1. todo # <<>> /\ Head(todo).op = "mask" /\ half' = Idle BY <1>5 DEF CallMask, Call
    <2>2. todo' = Tail(todo) BY <1>5, <2>1, NeverBusy DEF CallMask
    <2> QED BY <1>1, <2>1, <2>2, PlanDone
  <1> QED BY <1>2, <1>3, <1>4, <1>5
-----------------------------------------------------------------------------
\* What the values say.

\* All of these are numbers.
LEMMA NumFacts ==
    ASSUME IType
    PROVE  /\ \A c \in Counters :
                /\ since[c] \in Nat /\ stat[c] \in Nat
                /\ reg.lo[c] \in 0 .. LowMod - 1 /\ reg.hi[c] \in 0 .. HighMod - 1
                /\ reg.lo[c] \in Nat /\ Value(reg, c) \in Nat
                /\ Kind(c) \in Kinds /\ seen[Kind(c)] \in Nat
           /\ \A c \in Hits : total[c] \in Nat
           /\ LowMod \in Nat \ {0} /\ HighMod \in Nat \ {0} /\ Size \in Nat \ {0}
           /\ half # Idle => half \in 0 .. HighMod - 1 /\ half * LowMod \in Nat
  <1>0. LowMod \in Nat \ {0} /\ HighMod \in Nat \ {0} BY Consts
  <1>1. ASSUME NEW c \in Counters
        PROVE  /\ since[c] \in Nat /\ stat[c] \in Nat
               /\ reg.lo[c] \in 0 .. LowMod - 1 /\ reg.hi[c] \in 0 .. HighMod - 1
               /\ reg.lo[c] \in Nat /\ Value(reg, c) \in Nat
               /\ Kind(c) \in Kinds /\ seen[Kind(c)] \in Nat
    <2>1. since[c] \in Nat BY DEF IType, TypeOK
    <2>2. stat[c] \in Nat BY DEF IType, TypeOK
    <2>3. reg.lo[c] \in 0 .. LowMod - 1 /\ reg.hi[c] \in 0 .. HighMod - 1 BY RegFields DEF IType, TypeOK
    <2>4. Value(reg, c) \in Nat BY <2>3, PartsFit DEF Value
    <2>5. Kind(c) \in Kinds BY DEF Kinds
    <2>6. seen[Kind(c)] \in Nat BY <2>5 DEF IType, TypeOK
    <2> QED BY <1>0, <2>1, <2>2, <2>3, <2>4, <2>5, <2>6
  <1>2. \A c \in Hits : total[c] \in Nat BY DEF IType, TypeOK, Hits
  <1>3. Size \in Nat \ {0} BY ZeroFits, PartsFit
  <1>4. half # Idle => half \in 0 .. HighMod - 1 BY Consts DEF IType, TypeOK, Idle
  <1>5. half # Idle => half * LowMod \in Nat BY <1>0, <1>4
  <1> QED BY <1>0, <1>1, <1>2, <1>3, <1>4, <1>5

\* At the start nothing has been counted.
LEMMA CountingInit == Init => Counting
  <1> SUFFICES ASSUME Init PROVE Counting OBVIOUS
  <1>1. todo = StartCounters /\ half = Idle BY DEF Init
  <1>2. \A c \in Counters :
          /\ c \in Caves => In("restart", c)
          /\ c \in Hits => In("start", c)
          /\ c \in Caves \cup Tots => In("mask", c)
          /\ In("read", c)
    BY <1>1, NewIn, OpsFacts DEF SetUpOps, In
  <1>3. \A c \in Hits : total[c] = 0 /\ seen[Kind(c)] = 0
    <2>1. \A c \in Hits : Kind(c) \in Kinds BY OpsFacts DEF Kinds
    <2>2. seen = [k \in Kinds |-> 0] /\ total = [c \in {cachehit, cachemiss} |-> 0] BY DEF Init
    <2> QED BY <2>1, <2>2 DEF Hits
  <1> QED BY <1>1, <1>2, <1>3, OpsFacts DEF Counting, CountsTot, CountsHit, CountsCave, HalfRead

\* A counter that runs counts its own events and no others.
LEMMA RunsCounts ==
    ASSUME IType, NEW k \in Kinds, Event(k), NEW c \in Counters, Runs(c)
    PROVE  IF Kind(c) = k
           THEN /\ since'[c] = since[c] + 1 /\ Value(reg, c)' <= Value(reg, c) + 1
                /\ reg'.lo[c] <= reg.lo[c] + 1
                /\ Value(reg, c)' = IF Value(reg, c) = Size - 1 THEN 0 ELSE Value(reg, c) + 1
           ELSE since'[c] = since[c] /\ Value(reg, c)' = Value(reg, c) /\ reg'.lo[c] = reg.lo[c]
  <1> DEFINE lo == reg.lo[c]
             hi == reg.hi[c]
  <1>1. since'[c] = IF Kind(c) = k THEN since[c] + 1 ELSE since[c] BY DEF Event
  <1>2. reg' = Tick(reg, k[1], k[2]) /\ reg \in Registers BY DEF Event, IType, TypeOK
  <1>3. k = <<k[1], k[2]>>
    <2>1. CASE k = <<cave, 5>> BY <2>1
    <2>2. ASSUME NEW d \in Counters, k = Kind(d) PROVE k = <<k[1], k[2]>> BY <2>2 DEF Kind
    <2> QED BY <2>1, <2>2 DEF Kinds
  <1>4. reg.select[c] = k[1] /\ k[2] \in reg.mask[c] <=> Kind(c) = k
    BY <1>3 DEF Runs, Kind
  <1>5. CASE Kind(c) = k
    <2>1. /\ reg'.lo[c] = (lo + 1) % LowMod
          /\ reg'.hi[c] = IF lo = LowMod - 1 THEN (hi + 1) % HighMod ELSE hi
      BY <1>2, <1>4, <1>5, TickFacts
    <2>2. Value(reg, c)' = (IF lo = LowMod - 1 THEN (hi + 1) % HighMod ELSE hi) * LowMod + ((lo + 1) % LowMod)
      BY <2>1 DEF Value
    <2>3. lo \in 0 .. LowMod - 1 /\ hi \in 0 .. HighMod - 1 BY NumFacts
    <2>4. Value(reg, c) = hi * LowMod + lo BY DEF Value
    <2>5. (lo + 1) % LowMod <= lo + 1
      <3>1. lo + 1 \in Nat /\ LowMod \in Nat \ {0} BY <2>3, Consts
      <3> QED BY <3>1, NextMod
    <2> HIDE DEF lo, hi
    <2>6. (IF lo = LowMod - 1 THEN (hi + 1) % HighMod ELSE hi) * LowMod + ((lo + 1) % LowMod)
          = IF hi * LowMod + lo = Size - 1 THEN 0 ELSE hi * LowMod + lo + 1
      BY <2>3, NextValue
    <2>7. Value(reg, c)' = IF Value(reg, c) = Size - 1 THEN 0 ELSE Value(reg, c) + 1
      BY <2>2, <2>4, <2>6
    <2>8. Value(reg, c)' <= Value(reg, c) + 1 BY <2>7, NumFacts
    <2>9. reg'.lo[c] <= reg.lo[c] + 1 BY <2>1, <2>5 DEF lo
    <2> QED BY <1>1, <1>5, <2>7, <2>8, <2>9
  <1>6. CASE Kind(c) # k
    <2>1. reg'.lo[c] = lo /\ reg'.hi[c] = hi BY <1>2, <1>4, <1>6, TickFacts
    <2>2. Value(reg, c)' = Value(reg, c) BY <2>1 DEF Value
    <2> QED BY <1>1, <1>6, <2>1, <2>2
  <1> QED BY <1>5, <1>6

\* An event: the counters of its kind and the history count together.
LEMMA CountingEvent ==
    ASSUME IType, Plan, Setting, Counting, NEW k \in Kinds, Event(k) PROVE Counting'
  <1>1. todo' = todo /\ half' = half /\ stat' = stat /\ total' = total BY DEF Event, main
  <1>2. \A op, c : In(op, c)' <=> In(op, c) BY <1>1 DEF In
  <1>3. \A c \in Counters : since'[c] \in {since[c], since[c] + 1} /\ since[c] <= since'[c]
    <2>1. since' = [c \in Counters |-> IF Kind(c) = k THEN since[c] + 1 ELSE since[c]] BY DEF Event
    <2> QED BY <2>1, NumFacts
  <1>4. \A c \in Counters : seen'[Kind(c)] = IF Kind(c) = k THEN seen[Kind(c)] + 1 ELSE seen[Kind(c)]
    <2>1. seen' = [seen EXCEPT ![k] = @ + 1] BY DEF Event
    <2>2. seen \in [Kinds -> Nat] BY DEF IType, TypeOK
    <2> QED BY <2>1, <2>2, NumFacts
  <1>5. ASSUME NEW c \in Tots
        PROVE  /\ ~ In("mask", c)' => Value(reg, c)' = since'[c] % Size
               /\ ~ In("read", c)' => stat'[c] <= since'[c]
    <2>0. c \in Counters BY OpsFacts
    <2>1. ~ In("read", c)' => stat'[c] <= since'[c]
      <3>1. ~ In("read", c) => stat[c] <= since[c] BY DEF Counting, CountsTot
      <3> QED BY <1>1, <1>2, <1>3, <2>0, <3>1, NumFacts
    <2>2. ASSUME ~ In("mask", c)' PROVE Value(reg, c)' = since'[c] % Size
      <3>1. Runs(c) /\ Value(reg, c) = since[c] % Size BY <1>2, <2>2 DEF Setting, Counting, CountsTot
      <3>2. CASE Kind(c) = k
        <4>1. /\ since'[c] = since[c] + 1
              /\ Value(reg, c)' = IF Value(reg, c) = Size - 1 THEN 0 ELSE Value(reg, c) + 1
          BY <2>0, <3>1, <3>2, RunsCounts
        <4>2. (since[c] + 1) % Size = IF since[c] % Size = Size - 1 THEN 0 ELSE (since[c] % Size) + 1
          BY <2>0, NextMod, NumFacts
        <4> QED BY <3>1, <4>1, <4>2
      <3>3. CASE Kind(c) # k BY <2>0, <3>1, <3>3, RunsCounts
      <3> QED BY <3>2, <3>3
    <2> QED BY <2>1, <2>2
  <1>6. ASSUME NEW c \in Hits
        PROVE  /\ ~ In("start", c)' => Value(reg, c)' <= since'[c]
               /\ ~ In("read", c)' => stat'[c] <= since'[c]
               /\ total'[c] <= seen'[Kind(c)]
               /\ In("read", c)' /\ ~ In("start", c)' => total'[c] + since'[c] <= seen'[Kind(c)]
    <2>0. c \in Counters BY OpsFacts
    <2>1. /\ ~ In("read", c) => stat[c] <= since[c]
          /\ total[c] <= seen[Kind(c)]
          /\ ~ In("start", c) => Runs(c) /\ Value(reg, c) <= since[c]
          /\ In("read", c) /\ ~ In("start", c) => total[c] + since[c] <= seen[Kind(c)]
      BY DEF Counting, CountsHit, Setting
    <2>2. ~ In("read", c)' => stat'[c] <= since'[c] BY <1>1, <1>2, <1>3, <2>0, <2>1, NumFacts
    <2>3. total'[c] <= seen'[Kind(c)] BY <1>1, <1>4, <2>0, <2>1, NumFacts
    <2>4. ASSUME ~ In("start", c)'
          PROVE  /\ Value(reg, c)' <= since'[c]
                 /\ In("read", c)' => total'[c] + since'[c] <= seen'[Kind(c)]
      <3>1. Runs(c) /\ Value(reg, c) <= since[c] BY <1>2, <2>1, <2>4
      <3>2. CASE Kind(c) = k
        <4>1. since'[c] = since[c] + 1 /\ Value(reg, c)' <= Value(reg, c) + 1
              /\ Value(reg, c)' = IF Value(reg, c) = Size - 1 THEN 0 ELSE Value(reg, c) + 1
          BY <2>0, <3>1, <3>2, RunsCounts
        <4>2. Value(reg, c)' <= since'[c] BY <2>0, <3>1, <4>1, NumFacts
        <4>3. In("read", c)' => total'[c] + since'[c] <= seen'[Kind(c)]
          BY <1>1, <1>2, <1>4, <2>0, <2>1, <2>4, <3>2, <4>1, NumFacts
        <4> QED BY <4>2, <4>3
      <3>3. CASE Kind(c) # k
        <4>1. since'[c] = since[c] /\ Value(reg, c)' = Value(reg, c) BY <2>0, <3>1, <3>3, RunsCounts
        <4> QED BY <1>1, <1>2, <1>4, <2>0, <2>1, <2>4, <3>1, <3>3, <4>1
      <3> QED BY <3>2, <3>3
    <2> QED BY <2>2, <2>3, <2>4
  <1>7. ASSUME NEW c \in Caves
        PROVE  /\ ~ In("restart", c)' => reg'.lo[c] <= since'[c]
               /\ ~ In("read", c)' => stat'[c] % LowMod <= since'[c]
    <2>0. c \in Counters BY OpsFacts
    <2>1. ~ In("read", c)' => stat'[c] % LowMod <= since'[c]
      <3>1. ~ In("read", c) => stat[c] % LowMod <= since[c] BY DEF Counting, CountsCave
      <3>0. stat[c] \in Nat /\ LowMod \in Nat \ {0} BY <2>0, NumFacts
      <3>2. stat[c] % LowMod \in Nat
        <4>1. stat[c] % LowMod \in 0 .. LowMod - 1 BY <3>0, NextMod
        <4> QED BY <3>0, <4>1
      <3> QED BY <1>1, <1>2, <1>3, <2>0, <3>1, <3>2, NumFacts
    <2>2. ASSUME ~ In("restart", c)' PROVE reg'.lo[c] <= since'[c]
      <3>1. ~ In("mask", c) /\ reg.lo[c] <= since[c] BY <1>2, <2>2 DEF Plan, Counting, CountsCave
      <3>2. Runs(c) BY <3>1 DEF Setting
      <3>3. CASE Kind(c) = k
        <4>1. since'[c] = since[c] + 1 /\ reg'.lo[c] <= reg.lo[c] + 1 BY <2>0, <3>2, <3>3, RunsCounts
        <4>2. reg'.lo[c] \in Nat
          <5>1. reg' \in Registers BY TickFacts DEF Event, IType, TypeOK
          <5> QED BY <2>0, <5>1, RegFields
        <4> QED BY <2>0, <3>1, <4>1, <4>2, NumFacts
      <3>4. CASE Kind(c) # k BY <2>0, <3>1, <3>2, <3>4, RunsCounts
      <3> QED BY <3>3, <3>4
    <2> QED BY <2>1, <2>2
  <1>8. ASSUME half' # Idle, Head(todo').op = "read", Head(todo').c \notin Caves
        PROVE  half' * LowMod + reg'.lo[Head(todo').c] <= since'[Head(todo').c]
    <2>1. half # Idle /\ todo # <<>> /\ Head(todo).op = "read" BY <1>1, <1>8 DEF Plan
    <2>2. PICK a \in Counters : a = At /\ a = Head(todo').c BY <1>1, <2>1, AheadFacts DEF At
    <2>3. a \in Tots \/ a \in Hits BY <1>8, <2>2, Consts
    <2>4. ~ In("mask", a) /\ ~ In("start", a) BY <2>1, <2>2, AheadFacts DEF SetUpOps
    <2>5. Runs(a) BY <2>3, <2>4 DEF Setting
    <2>6. half * LowMod + reg.lo[a] <= since[a] BY <1>8, <2>1, <2>2 DEF Counting, HalfRead
    <2>7. reg'.lo[a] \in Nat
      <3>1. reg' \in Registers BY TickFacts DEF Event, IType, TypeOK
      <3> QED BY <3>1, RegFields
    <2>8. CASE Kind(a) = k
      <3>1. since'[a] = since[a] + 1 /\ reg'.lo[a] <= reg.lo[a] + 1 BY <2>5, <2>8, RunsCounts
      <3>2. half * LowMod \in Nat BY <2>1, NumFacts
      <3>3. half * LowMod + reg'.lo[a] <= since'[a] BY <2>6, <2>7, <3>1, <3>2, NumFacts
      <3> QED BY <1>1, <2>2, <3>3
    <2>9. CASE Kind(a) # k
      <3>1. since'[a] = since[a] /\ reg'.lo[a] = reg.lo[a] BY <2>5, <2>9, RunsCounts
      <3> QED BY <1>1, <2>2, <2>6, <3>1
    <2> QED BY <2>8, <2>9
  <1> QED BY <1>5, <1>6, <1>7, <1>8 DEF Counting, CountsTot, CountsHit, CountsCave, HalfRead, At

\* A call changes what is known of its own counter only.
LEMMA OwnCount ==
    ASSUME IType, Plan, Counting, todo # <<>>, todo' = Tail(todo), half' = Idle, seen' = seen,
           NEW a \in Counters, a = At,
           \A c \in Counters \ {a} : UNCHANGED <<reg.lo[c], reg.hi[c], since[c], stat[c]>>,
           \A c \in Hits \ {a} : UNCHANGED total[c],
           a \in Tots => CountsTot(a)', a \in Hits => CountsHit(a)', a \in Caves => CountsCave(a)'
    PROVE  Counting'
  <1>1. \A op \in CallOps, c \in Counters : c # a => (In(op, c)' <=> In(op, c)) BY DoneFacts
  <1>2. ASSUME NEW c \in Tots PROVE CountsTot(c)'
    <2>1. CASE c = a BY <1>2, <2>1
    <2>2. CASE c # a
      <3>1. c \in Counters /\ UNCHANGED <<reg.lo[c], reg.hi[c], since[c], stat[c]>> BY <2>2, OpsFacts
      <3>2. (In("mask", c)' <=> In("mask", c)) /\ (In("read", c)' <=> In("read", c))
        BY <1>1, <2>2, <3>1, OpsFacts
      <3>3. Value(reg, c)' = Value(reg, c) BY <3>1 DEF Value
      <3> QED BY <3>1, <3>2, <3>3 DEF Counting, CountsTot
    <2> QED BY <2>1, <2>2
  <1>3. ASSUME NEW c \in Hits PROVE CountsHit(c)'
    <2>1. CASE c = a BY <1>3, <2>1
    <2>2. CASE c # a
      <3>1. /\ c \in Counters /\ UNCHANGED <<reg.lo[c], reg.hi[c], since[c], stat[c]>>
            /\ total'[c] = total[c]
        BY <2>2, OpsFacts
      <3>2. (In("start", c)' <=> In("start", c)) /\ (In("read", c)' <=> In("read", c))
        BY <1>1, <2>2, <3>1, OpsFacts
      <3>3. Value(reg, c)' = Value(reg, c) BY <3>1 DEF Value
      <3> QED BY <3>1, <3>2, <3>3 DEF Counting, CountsHit
    <2> QED BY <2>1, <2>2
  <1>4. ASSUME NEW c \in Caves PROVE CountsCave(c)'
    <2>1. CASE c = a BY <1>4, <2>1
    <2>2. CASE c # a
      <3>1. c \in Counters /\ UNCHANGED <<reg.lo[c], reg.hi[c], since[c], stat[c]>> BY <2>2, OpsFacts
      <3>2. (In("restart", c)' <=> In("restart", c)) /\ (In("read", c)' <=> In("read", c))
        BY <1>1, <2>2, <3>1, OpsFacts
      <3> QED BY <3>1, <3>2 DEF Counting, CountsCave
    <2> QED BY <2>1, <2>2
  <1> QED BY <1>2, <1>3, <1>4 DEF Counting, HalfRead

\* A call: what it sets to zero is counted from zero, what it reads has happened.
LEMMA CountingCalls ==
    ASSUME IType, Plan, Setting, Counting,
           CallClear \/ CallSelect \/ CallMask \/ CallStop \/ CallStart \/ CallRestart \/ RestartRest
           \/ CallRead \/ ReadRest
    PROVE  Counting'
  <1>1. todo # <<>>
    BY DEF CallClear, CallSelect, CallMask, CallStop, CallStart, CallRestart, RestartRest, CallRead,
           ReadRest, Call
  <1>2. PICK a \in Counters : a = At /\ reg \in Registers BY <1>1, AheadFacts DEF IType, TypeOK
  <1>3. /\ reg.select \in [Counters -> Unit] /\ reg.mask \in [Counters -> SUBSET Events]
        /\ reg.hi \in [Counters -> 0 .. HighMod - 1] /\ reg.lo \in [Counters -> 0 .. LowMod - 1]
        /\ DOMAIN since = Counters /\ DOMAIN stat = Counters /\ DOMAIN total = Hits
    BY <1>2, RegFields DEF IType, TypeOK, Hits
  <1>4. seen' = seen
    BY DEF CallClear, CallSelect, CallMask, CallStop, CallStart, CallRestart, RestartRest, CallRead,
           ReadRest, KeepRest
  <1>5. CASE CallClear
    <2>1. /\ Head(todo).op = "clear" /\ todo' = Tail(todo) /\ half' = Idle /\ reg' = Clear(reg, a)
          /\ UNCHANGED <<since, stat, total>>
      BY <1>2, <1>5 DEF CallClear, Call, Return
    <2>2. /\ a \in Caves \cup Tots /\ a \notin Hits /\ In("mask", a) /\ In("read", a)
          /\ a \in Caves => In("restart", a)
      BY <1>1, <1>2, <2>1, AheadFacts, OpsFacts DEF SetUpOps, Plan
    <2>3. In("mask", a)' /\ In("read", a)' /\ (a \in Caves => In("restart", a)')
      BY <1>1, <1>2, <2>1, <2>2, DoneFacts, OpsFacts
    <2>4. reg'.hi = [reg.hi EXCEPT ![a] = 0] /\ reg'.lo = [reg.lo EXCEPT ![a] = 0]
      BY <1>2, <2>1, ClearFacts
    <2>5. \A c \in Counters \ {a} : UNCHANGED <<reg.lo[c], reg.hi[c], since[c], stat[c]>>
      BY <1>2, <1>3, <2>1, <2>4
    <2>6. CountsTot(a)' BY <2>3 DEF CountsTot
    <2>7. a \in Caves => CountsCave(a)' BY <2>3 DEF CountsCave
    <2> QED BY <1>1, <1>2, <1>4, <2>1, <2>2, <2>5, <2>6, <2>7, OwnCount
  <1>6. CASE CallSelect \/ CallStop
    <2>1. /\ Head(todo).op \in {"select", "stop"} /\ half' = Idle /\ UNCHANGED <<since, stat, total>>
          /\ reg'.hi = reg.hi /\ reg'.lo = reg.lo /\ todo' = Tail(todo)
      <3>1. CASE CallSelect
        <4>1. Head(todo).op = "select" /\ reg' = Select(reg, a, UnitOf(a)) /\ half' = Idle
          BY <1>2, <3>1 DEF CallSelect, Call
        <4>2. ~ SelectBusy(reg, a, UnitOf(a)) /\ UnitOf(a) \in Unit
          BY <1>1, <1>2, <4>1, NeverBusy, KindFacts
        <4>3. reg'.hi = reg.hi /\ reg'.lo = reg.lo BY <1>2, <4>1, <4>2, SelectFacts
        <4> QED BY <1>2, <3>1, <4>1, <4>2, <4>3 DEF CallSelect
      <3>2. CASE CallStop
        <4>1. reg' = Stop(reg, a) BY <1>2, <3>2 DEF CallStop
        <4>2. reg'.hi = reg.hi /\ reg'.lo = reg.lo BY <1>2, <4>1, StopFacts
        <4> QED BY <3>2, <4>2 DEF CallStop, Call, Return
      <3> QED BY <1>6, <3>1, <3>2
    <2>2. \A op \in CallOps \ {"select", "stop"} : In(op, a)' <=> In(op, a)
      BY <1>1, <1>2, <2>1, DoneFacts
    <2>3. /\ In("mask", a)' <=> In("mask", a)
          /\ In("read", a)' <=> In("read", a)
          /\ In("start", a)' <=> In("start", a)
          /\ In("restart", a)' <=> In("restart", a)
      BY <2>2, OpsFacts
    <2>4. Value(reg, a)' = Value(reg, a) BY <2>1 DEF Value
    <2>5. a \in Tots => CountsTot(a)' BY <2>1, <2>3, <2>4 DEF Counting, CountsTot
    <2>6. a \in Hits => CountsHit(a)' BY <1>4, <2>1, <2>3, <2>4 DEF Counting, CountsHit
    <2>7. a \in Caves => CountsCave(a)' BY <2>1, <2>3 DEF Counting, CountsCave
    <2>8. \A c \in Counters \ {a} : UNCHANGED <<reg.lo[c], reg.hi[c], since[c], stat[c]>> BY <2>1
    <2> QED BY <1>1, <1>2, <1>4, <2>1, <2>5, <2>6, <2>7, <2>8, OwnCount
  <1>7. CASE CallMask
    <2>1. /\ Head(todo).op = "mask" /\ half' = Idle /\ UNCHANGED <<stat, total>>
          /\ since' = [since EXCEPT ![a] = 0] /\ reg' = Mask(reg, a, EventOf[a])
      BY <1>2, <1>7 DEF CallMask, Call, Started
    <2>2. /\ ~ MaskBusy(reg, a, EventOf[a]) /\ EventOf[a] \in Events
          /\ reg.hi[a] = 0 /\ reg.lo[a] = 0 /\ In("mask", a)
      BY <1>1, <1>2, <2>1, NeverBusy, KindFacts
    <2>3. todo' = Tail(todo) BY <1>2, <1>7, <2>2 DEF CallMask
    <2>4. reg'.hi = reg.hi /\ reg'.lo = reg.lo BY <1>2, <2>1, <2>2, MaskFacts
    <2>5. /\ a \in Caves \cup Tots /\ a \notin Hits /\ In("read", a)
          /\ a \in Caves => In("restart", a)
      BY <1>1, <1>2, <2>1, <2>2, AheadFacts, OpsFacts DEF SetUpOps, Plan
    <2>6. In("read", a)' /\ (a \in Caves => In("restart", a)')
      BY <1>1, <1>2, <2>1, <2>3, <2>5, DoneFacts, OpsFacts
    <2>7. Value(reg, a)' = 0 /\ since'[a] = 0
      <3>1. 0 * LowMod + 0 = 0 BY NumFacts
      <3>2. Value(reg, a)' = 0 * LowMod + 0 BY <2>2, <2>4 DEF Value
      <3> QED BY <1>3, <2>1, <3>1, <3>2
    <2>8. 0 % Size = 0 BY NumFacts
    <2>9. CountsTot(a)' BY <2>6, <2>7, <2>8 DEF CountsTot
    <2>10. a \in Caves => CountsCave(a)' BY <2>6 DEF CountsCave
    <2>11. \A c \in Counters \ {a} : UNCHANGED <<reg.lo[c], reg.hi[c], since[c], stat[c]>>
      BY <1>3, <2>1, <2>4
    <2> QED BY <1>1, <1>2, <1>4, <2>1, <2>3, <2>5, <2>9, <2>10, <2>11, OwnCount
  <1>8. CASE CallStart
    <2>1. /\ Head(todo).op = "start" /\ half' = Idle /\ todo' = Tail(todo) /\ UNCHANGED <<stat, total>>
          /\ since' = [since EXCEPT ![a] = 0] /\ reg' = FullStart(reg, a, UnitOf(a), EventOf[a])
      BY <1>2, <1>8 DEF CallStart, Call, Started, Return
    <2>2. EventOf[a] \in Events /\ UnitOf(a) \in Unit /\ UnitOf(a) # {} BY <1>2, KindFacts
    <2>3. /\ reg'.select = [reg.select EXCEPT ![a] = UnitOf(a)]
          /\ reg'.mask = [reg.mask EXCEPT ![a] = {EventOf[a]}]
          /\ reg'.hi = [reg.hi EXCEPT ![a] = 0] /\ reg'.lo = [reg.lo EXCEPT ![a] = 0]
      <3>1. reg \in Registers /\ a \in Counters /\ EventOf[a] \in Events /\ UnitOf(a) \in Unit
        BY <1>2, <2>2
      <3> DEFINE f == FullStart(reg, a, UnitOf(a), EventOf[a])
      <3>2. /\ f.select = [reg.select EXCEPT ![a] = UnitOf(a)]
            /\ f.mask = [reg.mask EXCEPT ![a] = {EventOf[a]}]
            /\ f.hi = [reg.hi EXCEPT ![a] = 0] /\ f.lo = [reg.lo EXCEPT ![a] = 0]
        BY <3>1, FullStartFacts
      <3>3. reg' = f BY <2>1
      <3> HIDE DEF f
      <3> QED BY <3>2, <3>3
    <2>4. a \in Hits /\ a \notin Tots /\ a \notin Caves /\ In("start", a)
      BY <1>1, <1>2, <2>1, AheadFacts, OpsFacts
    <2>5. In("read", a) BY <2>4 DEF Plan
    <2>6. In("read", a)' BY <1>1, <1>2, <2>1, <2>5, DoneFacts, OpsFacts
    <2>7. reg'.hi[a] = 0 /\ reg'.lo[a] = 0 /\ since'[a] = 0 BY <1>3, <2>1, <2>3
    <2>8. Value(reg, a)' = 0
      <3>1. 0 * LowMod + 0 = 0 BY NumFacts
      <3> QED BY <2>7, <3>1 DEF Value
    <2>9. total[a] <= seen[Kind(a)] BY <2>4 DEF Counting, CountsHit
    <2>10. total'[a] + since'[a] <= seen[Kind(a)] BY <2>1, <2>4, <2>7, <2>9, NumFacts
    <2>11. CountsHit(a)' BY <1>4, <2>1, <2>6, <2>7, <2>8, <2>9, <2>10 DEF CountsHit
    <2>12. \A c \in Counters \ {a} : UNCHANGED <<reg.lo[c], reg.hi[c], since[c], stat[c]>>
      BY <1>3, <2>1, <2>3
    <2> QED BY <1>1, <1>2, <1>4, <2>1, <2>4, <2>11, <2>12, OwnCount
  <1>9. CASE CallRestart
    <2>1. /\ Head(todo).op = "restart" /\ todo' = todo /\ UNCHANGED <<since, stat, total>>
          /\ reg' = RestartUpper(reg, a)
      BY <1>2, <1>9 DEF CallRestart, Call
    <2>2. a \in Caves /\ a \notin Tots /\ a \notin Hits BY <1>1, <1>2, <2>1, AheadFacts, OpsFacts
    <2>3. reg'.hi = [reg.hi EXCEPT ![a] = 0] /\ reg'.lo = reg.lo BY <1>2, <2>1, RestartFacts
    <2>4. \A op, c : In(op, c)' <=> In(op, c) BY <2>1 DEF In
    <2>5. \A c \in Counters \ {a} : Value(reg, c)' = Value(reg, c) BY <1>3, <2>3 DEF Value
    <2>6. \A c \in Tots : CountsTot(c)' BY <2>1, <2>2, <2>4, <2>5, OpsFacts DEF Counting, CountsTot
    <2>7. \A c \in Hits : CountsHit(c)'
      BY <1>4, <2>1, <2>2, <2>4, <2>5, OpsFacts DEF Counting, CountsHit
    <2>8. \A c \in Caves : CountsCave(c)' BY <2>1, <2>3, <2>4 DEF Counting, CountsCave
    <2>9. HalfRead' BY <2>1 DEF HalfRead
    <2> QED BY <2>6, <2>7, <2>8, <2>9 DEF Counting
  <1>10. CASE RestartRest
    <2>1. /\ Head(todo).op = "restart" /\ todo' = Tail(todo) /\ half' = Idle /\ UNCHANGED <<stat, total>>
          /\ since' = [since EXCEPT ![a] = 0] /\ reg' = RestartLower(reg, a)
      BY <1>2, <1>10 DEF RestartRest, Call, Return, Started
    <2>2. a \in Caves /\ a \notin Tots /\ a \notin Hits /\ In("restart", a)
      BY <1>1, <1>2, <2>1, AheadFacts, OpsFacts
    <2>3. In("read", a)' BY <1>1, <1>2, <2>1, <2>2, DoneFacts, OpsFacts DEF Plan
    <2>4. reg'.hi = reg.hi /\ reg'.lo = [reg.lo EXCEPT ![a] = 0] BY <1>2, <2>1, RestartFacts
    <2>5. reg'.lo[a] = 0 /\ since'[a] = 0 BY <1>3, <2>1, <2>4
    <2>6. CountsCave(a)' BY <2>3, <2>5 DEF CountsCave
    <2>7. \A c \in Counters \ {a} : UNCHANGED <<reg.lo[c], reg.hi[c], since[c], stat[c]>>
      BY <1>3, <2>1, <2>4
    <2> QED BY <1>1, <1>2, <1>4, <2>1, <2>2, <2>6, <2>7, OwnCount
  <1>11. CASE CallRead
    <2>1. /\ Head(todo).op = "read" /\ todo' = todo /\ UNCHANGED <<reg, since, stat, total>>
          /\ half' = reg.hi[a]
      BY <1>2, <1>11 DEF CallRead, Call
    <2>2. \A op, c : In(op, c)' <=> In(op, c) BY <2>1 DEF In
    <2>3. \A c \in Tots : CountsTot(c)' BY <2>1, <2>2 DEF Counting, CountsTot, Value
    <2>4. \A c \in Hits : CountsHit(c)' BY <1>4, <2>1, <2>2 DEF Counting, CountsHit, Value
    <2>5. \A c \in Caves : CountsCave(c)' BY <2>1, <2>2 DEF Counting, CountsCave
    <2>6. ~ In("mask", a) /\ ~ In("start", a) BY <1>1, <1>2, <2>1, AheadFacts DEF SetUpOps
    <2>7. a \notin Caves => Value(reg, a) <= since[a]
      <3>1. CASE a \in Tots
        <4>1. Value(reg, a) = since[a] % Size BY <2>6, <3>1 DEF Counting, CountsTot
        <4>2. since[a] % Size <= since[a] BY NumFacts, NextMod
        <4> QED BY <4>1, <4>2
      <3>2. CASE a \in Hits BY <2>6, <3>2 DEF Counting, CountsHit
      <3> QED BY <1>2, <3>1, <3>2, Consts
    <2>8. HalfRead'
      <3>1. At' = a BY <1>2, <2>1 DEF At
      <3> QED BY <2>1, <2>7, <3>1 DEF HalfRead, Value
    <2> QED BY <2>3, <2>4, <2>5, <2>8 DEF Counting
  <1>12. CASE ReadRest
    <2> DEFINE value == half * LowMod + reg.lo[a]
    <2>1. /\ Head(todo).op = "read" /\ todo' = Tail(todo) /\ half # Idle /\ half' = Idle
          /\ UNCHANGED <<reg, since>> /\ stat' = [stat EXCEPT ![a] = value]
          /\ total' = IF a \in DOMAIN total THEN [total EXCEPT ![a] = @ + value] ELSE total
      BY <1>2, <1>12 DEF ReadRest, Call, Return
    <2>2. /\ ~ In("mask", a) /\ ~ In("start", a) /\ ~ In("restart", a) /\ In("read", a)
      BY <1>1, <1>2, <2>1, AheadFacts DEF SetUpOps
    <2>3. ~ In("mask", a)' /\ ~ In("start", a)' /\ ~ In("restart", a)' /\ ~ In("read", a)'
      BY <1>1, <1>2, <2>1, <2>2, DoneFacts, OpsFacts
    <2>4. a \notin Caves => value <= since[a] BY <1>2, <2>1 DEF Counting, HalfRead
    <2>5. a \in Caves => value % LowMod <= since[a]
      <3>1. value = LowMod * half + reg.lo[a] /\ value \in Nat /\ half \in Nat
        <4>1. half \in 0 .. HighMod - 1 /\ half * LowMod \in Nat /\ LowMod \in Nat \ {0}
          BY <2>1, NumFacts
        <4>2. half \in Nat /\ half * LowMod = LowMod * half BY <4>1, Consts
        <4> QED BY <4>1, <4>2, NumFacts
      <3>2. value % LowMod = reg.lo[a] BY <3>1, ModIs, NumFacts
      <3>3. a \in Caves => reg.lo[a] <= since[a] BY <2>2 DEF Counting, CountsCave
      <3> QED BY <3>2, <3>3
    <2>6. value \in Nat BY <2>1, NumFacts
    <2> HIDE DEF value
    <2>7. stat'[a] = value /\ (a \in Hits => total'[a] = total[a] + value) BY <1>3, <2>1
    <2>8. a \in Tots => CountsTot(a)'
      <3>1. a \in Tots => a \notin Caves /\ CountsTot(a) BY OpsFacts DEF Counting
      <3>2. Value(reg, a)' = Value(reg, a) BY <2>1 DEF Value
      <3> QED BY <2>1, <2>2, <2>3, <2>4, <2>7, <3>1, <3>2 DEF CountsTot
    <2>9. a \in Hits => CountsHit(a)'
      <3>0. SUFFICES ASSUME a \in Hits PROVE CountsHit(a)' OBVIOUS
      <3>1. a \notin Caves /\ CountsHit(a) BY <3>0, OpsFacts DEF Counting
      <3>2. Value(reg, a)' = Value(reg, a) BY <2>1 DEF Value
      <3>3. total[a] + since[a] <= seen[Kind(a)] /\ Value(reg, a) <= since[a]
        BY <2>2, <3>1 DEF CountsHit
      <3>4. total'[a] <= seen[Kind(a)] BY <2>4, <2>6, <2>7, <3>0, <3>1, <3>3, NumFacts
      <3> QED BY <1>4, <2>1, <2>3, <2>4, <2>7, <3>1, <3>2, <3>3, <3>4 DEF CountsHit
    <2>10. a \in Caves => CountsCave(a)'
      <3>1. a \in Caves => reg.lo[a] <= since[a] BY <2>2 DEF Counting, CountsCave
      <3> QED BY <2>1, <2>3, <2>5, <2>7, <3>1 DEF CountsCave
    <2>11. /\ \A c \in Counters \ {a} : UNCHANGED <<reg.lo[c], reg.hi[c], since[c], stat[c]>>
           /\ \A c \in Hits \ {a} : UNCHANGED total[c]
      BY <1>3, <2>1
    <2> QED BY <1>1, <1>2, <1>4, <2>1, <2>8, <2>9, <2>10, <2>11, OwnCount
  <1> QED BY <1>5, <1>6, <1>7, <1>8, <1>9, <1>10, <1>11, <1>12

\* The main loop reads and starts nothing itself.
LEMMA CountingMain == ASSUME Plan, Counting, MainSteps PROVE Counting'
  <1>1. /\ todo = <<>> /\ todo' \in {todo, Measure} /\ half' = half
        /\ UNCHANGED <<reg, since, seen, stat, total>>
    BY DEF MainSteps, Begin, LogAgain, socklisten, ReadFails, StoreRegisters, Hello, Reply, WriteFails,
           ClientAsks, AtMain, KeepMain, chip
  <1>2. half = Idle BY <1>1 DEF Plan
  <1>3. HalfRead' BY <1>1, <1>2 DEF HalfRead
  <1>4. CASE todo' = todo
    <2>1. \A op, c : In(op, c)' <=> In(op, c) BY <1>4 DEF In
    <2>2. \A c \in Tots : CountsTot(c)' BY <1>1, <2>1 DEF Counting, CountsTot, Value
    <2>3. \A c \in Hits : CountsHit(c)' BY <1>1, <2>1 DEF Counting, CountsHit, Value
    <2>4. \A c \in Caves : CountsCave(c)' BY <1>1, <2>1 DEF Counting, CountsCave
    <2> QED BY <1>3, <2>2, <2>3, <2>4 DEF Counting
  <1>5. CASE todo' = Measure
    <2>1. \A op \in CallOps, c \in Counters : ~ In(op, c) BY <1>1, NewIn DEF In
    <2>2. \A c \in Counters : /\ In("read", c)'
                              /\ c \in Hits => In("start", c)'
                              /\ c \in Caves => In("restart", c)'
      BY <1>5, NewIn, OpsFacts DEF In
    <2>3. \A c \in Tots : CountsTot(c)' BY <1>1, <2>1, <2>2, OpsFacts DEF Counting, CountsTot, Value
    <2>4. \A c \in Hits : CountsHit(c)' BY <1>1, <2>2, OpsFacts DEF Counting, CountsHit
    <2>5. \A c \in Caves : CountsCave(c)' BY <2>2, OpsFacts DEF CountsCave
    <2> QED BY <1>3, <2>3, <2>4, <2>5 DEF Counting
  <1> QED BY <1>1, <1>4, <1>5
-----------------------------------------------------------------------------
IInv == IType /\ Plan /\ Setting /\ Counting

\* All layers hold at the start ...
LEMMA IInvInit == Init => IInv
  BY InitType, PlanInit, SettingInit, CountingInit DEF IInv

\* ... and together are inductive.
LEMMA IInvStep == IInv /\ [Next]_vars => IInv'
  <1> SUFFICES ASSUME IType, Plan, Setting, Counting, [Next]_vars PROVE IInv' BY DEF IInv
  <1>0. IType' BY TypeStep
  <1>1. CASE UNCHANGED <<todo, half, reg, since, seen, stat, total>>
    <2>1. /\ todo' = todo /\ half' = half /\ reg' = reg /\ since' = since /\ seen' = seen
          /\ stat' = stat /\ total' = total
      BY <1>1
    <2>2. Plan' /\ \A op, c : In(op, c)' <=> In(op, c) BY <2>1, PlanSame
    <2>3. Setting' BY <2>1, <2>2 DEF Setting, Runs
    <2>4. \A c \in Tots : CountsTot(c)' BY <2>1, <2>2 DEF Counting, CountsTot, Value
    <2>5. \A c \in Hits : CountsHit(c)' BY <2>1, <2>2 DEF Counting, CountsHit, Value
    <2>6. \A c \in Caves : CountsCave(c)' BY <2>1, <2>2 DEF Counting, CountsCave
    <2>7. HalfRead' BY <2>1 DEF Counting, HalfRead, At
    <2> QED BY <1>0, <2>2, <2>3, <2>4, <2>5, <2>6, <2>7 DEF IInv, Counting
  <1>2. UNCHANGED vars => UNCHANGED <<todo, half, reg, since, seen, stat, total>>
    BY DEF vars, chip, main
  <1>3. WorkSteps => UNCHANGED <<todo, half, reg, since, seen, stat, total>>
    BY DEF WorkSteps, Look, Sample, CopyRegister, AddEvent, LowerFlag, KeepWork, chip, main
  <1>4. ASSUME NEW k \in Kinds, Event(k) PROVE IInv'
    BY <1>0, <1>4, SettingEvent, CountingEvent DEF IInv
  <1>5. CASE CallClear \/ CallSelect \/ CallMask \/ CallStop \/ CallStart \/ CallRestart \/ RestartRest
             \/ CallRead \/ ReadRest
    BY <1>0, <1>5, PlanCalls, CountingCalls DEF IInv
  <1>6. CASE MainSteps BY <1>0, <1>6, SettingMain, CountingMain DEF IInv
  <1> QED BY <1>1, <1>2, <1>3, <1>4, <1>5, <1>6 DEF Next, Gone, MainSteps, WorkSteps

\* The totals miss nothing, at any number of events and any width of the
\* registers: no measurement of the other counters stops them or makes them
\* count what is not theirs.
THEOREM TotalsExactHolds == Spec => []TotalsExact
  <1>1. IInv => TotalsExact BY DEF IInv, Counting, CountsTot, TotalsExact, In, Has, Size
  <1> QED BY <1>1, IInvInit, IInvStep, PTL DEF Spec

\* Nothing is reported that has not happened, although a value is read in two
\* parts and the counters are started anew while the chip counts.
THEOREM ReportsRealHolds == Spec => []ReportsReal
  <1>1. IInv => ReportsReal
    <2> SUFFICES ASSUME IInv, todo = <<>> PROVE ReportsReal BY DEF ReportsReal
    <2>1. \A c \in Counters : ~ In("read", c) BY NewIn, OpsFacts DEF In
    <2>2. \A c \in Hits \cup Tots : stat[c] <= since[c]
      BY <2>1, OpsFacts DEF IInv, Counting, CountsTot, CountsHit
    <2>3. \A c \in Caves : stat[c] % LowMod <= since[c] BY <2>1, OpsFacts DEF IInv, Counting, CountsCave
    <2>4. DOMAIN total = Hits BY DEF IInv, IType, TypeOK, Hits
    <2>5. \A c \in DOMAIN total : total[c] <= seen[Kind(c)] BY <2>4 DEF IInv, Counting, CountsHit
    <2> QED BY <2>2, <2>3, <2>5 DEF ReportsReal, Hits
  <1> QED BY <1>1, IInvInit, IInvStep, PTL DEF Spec
=============================================================================
