----------------------------- MODULE StatDaemon -----------------------------
(***************************************************************************)
(* The statistics daemon (nc_test/nc_stat_d/nc_stat_d.c) and the log       *)
(* daemon (nc_test/nc_log_d/nc_log_d.c).  Both set the counters of the     *)
(* chips up and then measure again and again: the statistics daemon when   *)
(* a client asks over a socket, the log daemon every few seconds.  The     *)
(* statistics daemon also has one thread per core that counts two PAPI     *)
(* events, which the client may change.                                    *)
(*                                                                         *)
(* The chip counts while the daemon works: an event may happen between any *)
(* two register accesses.  The daemons treat all chips alike and one after *)
(* the other, so there is one chip here.  The hit and miss rates, which    *)
(* are only printed, and the wording of packets are left out.              *)
(***************************************************************************)
EXTENDS PCounter, Sequences, FiniteSets
LOCAL INSTANCE Functions

CONSTANTS CaveSeq,      \* cave_in, cave_out: restarted for every request
          TotSeq,       \* tot_cave_in, tot_cave_out
          ProbeSeq,     \* tot_probe_in, tot_probe_out
          Workers,      \* the threads that count PAPI events
          PapiPairs,    \* pairs of PAPI events, the first of which is PapiStart
          PapiStart,
          MaxFd,        \* bound: connections the process can have open
          MaxEvents     \* bound: events of the chip and changes of the PAPI
                        \* events, together

cachehit == 0
cachemiss == 1
cache == {0}
cave == 0 .. 2
UnitOf(c) == IF c \in {cachehit, cachemiss} THEN cache ELSE cave
EventOf == [c \in 0 .. 7 |-> <<6, 5, 0, 4, 0, 4, 3, 7>>[c + 1]]
Kind(c) == <<UnitOf(c), EventOf[c]>>

Members(s) == {s[i] : i \in DOMAIN s}
Distinct(s) == \A i, j \in DOMAIN s : s[i] = s[j] => i = j
Caves == Members(CaveSeq)
Tots == Members(TotSeq) \cup Members(ProbeSeq)

ASSUME DaemonAssumption ==
    /\ CaveSeq \in Seq({2, 3}) /\ TotSeq \in Seq({4, 5}) /\ ProbeSeq \in Seq({6, 7})
    /\ Distinct(CaveSeq) /\ Distinct(TotSeq) /\ Distinct(ProbeSeq)
    /\ Counters = {cachehit, cachemiss} \cup Caves \cup Tots
    /\ IsFiniteSet(Workers)
    /\ PapiStart \in PapiPairs
    /\ \A p \in PapiPairs : p \in Seq(Members(p)) /\ Len(p) = 2 /\ p[1] # p[2]
    /\ MaxFd \in Nat \ {0} /\ MaxEvents \in Nat

\* What the chip does: the events the daemons count, and one that counter 1
\* meets while its select field names another unit.
Kinds == {Kind(c) : c \in Counters} \cup {<<cave, 5>>}
-----------------------------------------------------------------------------
\* The calls of the daemons on the counters, in their order.
Each(op, cs) == [i \in DOMAIN cs |-> [op |-> op, c |-> cs[i]]]

SetUp(cs) == Each("select", cs) \o Each("mask", cs)

Measure ==
    Each("restart", CaveSeq)
    \o Each("stop", <<cachehit, cachemiss>>) \o Each("start", <<cachehit, cachemiss>>)
    \o Each("read", <<1, 0>> \o CaveSeq \o TotSeq \o ProbeSeq)

StartCounters ==
    Each("clear", CaveSeq \o TotSeq \o ProbeSeq)
    \o SetUp(CaveSeq) \o SetUp(TotSeq) \o SetUp(ProbeSeq) \o Measure

VARIABLES
    \* the chip
    reg,        \* its registers
    since,      \* history: events of a counter's kind since it was set to zero
    seen,       \* history: events of each kind so far
    \* the main thread
    daemon,     \* "stat" or "log"
    pc,         \* where it is, besides the calls in todo
    todo,       \* the calls on the counters still to make
    half,       \* inside a call of two register accesses: what the first gave
    stat,       \* countstat: what was last read of each counter
    total,      \* totalhit and totalmiss, by counter
    fds,        \* connections ever accepted; none is closed
    link,       \* newsockfd is a connection
    \* shared with the workers
    papi,       \* papi_select_registers
    asked,      \* devices.PAPI_EVENT_0 and _1
    changes,    \* history: how often they were changed
    flag,       \* new_counters
    shown,      \* papistat: the events its values are of, {} when zeroed
    \* the workers
    wpc, copy, evset,
    exited,     \* a worker has met an error and ended the process
    torn        \* history: the workers whose last takeover met a change of the events

chip == <<reg, since, seen>>
main == <<daemon, pc, todo, half, stat, total, fds, link>>
work == <<papi, flag, shown, wpc, copy, evset, torn>>
vars == <<chip, main, asked, changes, work, exited>>

Idle == -1
Zero == [c \in Counters |-> 0]

\* The registers as another program may have left them.
LeftOver ==
    {[select |-> [c \in Counters |-> s], mask |-> [c \in Counters |-> m],
      hi |-> Zero, lo |-> [c \in Counters |-> LowMod - 1]] :
        s \in {{}, cave}, m \in {{}, {5}}}

\* init_papi_counters, in the statistics daemon only.  new_counters is not
\* initialized.
InitPapi ==
    /\ papi = PapiStart /\ asked = PapiStart
    /\ flag \in [Workers -> BOOLEAN] /\ shown = [w \in Workers |-> {}]
    /\ wpc = [w \in Workers |-> IF daemon = "stat" THEN "copy0" ELSE "none"]
    /\ copy = [w \in Workers |-> PapiStart] /\ evset = [w \in Workers |-> {}]

\* main up to start_numachip_counters.
Init ==
    /\ reg \in LeftOver /\ since = Zero /\ seen = [k \in Kinds |-> 0]
    /\ daemon \in {"stat", "log"} /\ pc = "begin" /\ todo = StartCounters /\ half = Idle
    /\ stat = Zero /\ total = [c \in {cachehit, cachemiss} |-> 0]
    /\ fds = 0 /\ link = FALSE
    /\ InitPapi
    /\ exited = FALSE /\ changes = 0 /\ torn = {}
-----------------------------------------------------------------------------
InBound == FoldFunction(+, 0, seen) + changes < MaxEvents

\* The chip counts, whatever the daemon does.
Event(k) ==
    /\ ~exited
    /\ InBound
    /\ seen' = [seen EXCEPT ![k] = @ + 1]
    /\ since' = [c \in Counters |-> IF Kind(c) = k THEN since[c] + 1 ELSE since[c]]
    /\ reg' = Tick(reg, k[1], k[2])
    /\ UNCHANGED <<main, asked, changes, work, exited>>
-----------------------------------------------------------------------------
\* A call on the counters.
Call(op) == ~exited /\ todo # <<>> /\ Head(todo).op = op
At == Head(todo).c
Return == todo' = Tail(todo) /\ half' = Idle
Started(c) == since' = [since EXCEPT ![c] = 0]
KeepRest == UNCHANGED <<seen, daemon, pc, fds, link, asked, changes, work, exited>>

CallClear ==
    /\ Call("clear") /\ reg' = Clear(reg, At) /\ Return
    /\ UNCHANGED <<since, stat, total>> /\ KeepRest

\* A busy counter ends start_numachip_counters, and nobody asks why.
CallSelect ==
    /\ Call("select") /\ reg' = Select(reg, At, UnitOf(At))
    /\ half' = Idle
    /\ todo' = IF SelectBusy(reg, At, UnitOf(At)) THEN <<>> ELSE Tail(todo)
    /\ UNCHANGED <<since, stat, total>> /\ KeepRest

CallMask ==
    /\ Call("mask") /\ reg' = Mask(reg, At, EventOf[At])
    /\ half' = Idle
    /\ todo' = IF MaskBusy(reg, At, EventOf[At]) THEN <<>> ELSE Tail(todo)
    /\ Started(At)
    /\ UNCHANGED <<stat, total>> /\ KeepRest

CallStop ==
    /\ Call("stop") /\ reg' = Stop(reg, At) /\ Return
    /\ UNCHANGED <<since, stat, total>> /\ KeepRest

CallStart ==
    /\ Call("start") /\ reg' = FullStart(reg, At, UnitOf(At), EventOf[At]) /\ Return
    /\ Started(At)
    /\ UNCHANGED <<stat, total>> /\ KeepRest

CallRestart ==
    /\ Call("restart") /\ half = Idle
    /\ reg' = RestartUpper(reg, At) /\ half' = 0
    /\ UNCHANGED <<since, todo, stat, total>> /\ KeepRest

RestartRest ==
    /\ Call("restart") /\ half # Idle
    /\ reg' = RestartLower(reg, At) /\ Return
    /\ Started(At)
    /\ UNCHANGED <<stat, total>> /\ KeepRest

\* numachip_get_pcounter: the upper part, then the lower.
CallRead ==
    /\ Call("read") /\ half = Idle
    /\ half' = reg.hi[At]
    /\ UNCHANGED <<reg, since, todo, stat, total>> /\ KeepRest

\* Fault: ReadRest with the upper part shifted too far.
ReadRestShift ==
    LET value == half * LowMod * LowMod + reg.lo[At] IN
    /\ Call("read") /\ half # Idle
    /\ stat' = [stat EXCEPT ![At] = value]
    /\ total' = IF At \in DOMAIN total THEN [total EXCEPT ![At] = @ + value] ELSE total
    /\ Return
    /\ UNCHANGED <<reg, since>> /\ KeepRest

\* ... and what count_rate and get_cave keep of it.
ReadRest ==
    LET value == half * LowMod + reg.lo[At] IN
    /\ Call("read") /\ half # Idle
    /\ stat' = [stat EXCEPT ![At] = value]
    /\ total' = IF At \in DOMAIN total THEN [total EXCEPT ![At] = @ + value] ELSE total
    /\ Return
    /\ UNCHANGED <<reg, since>> /\ KeepRest
-----------------------------------------------------------------------------
\* The main loop.
AtMain(l) == ~exited /\ todo = <<>> /\ pc = l
KeepMain == UNCHANGED <<chip, daemon, half, stat, total, exited>>

Begin ==
    /\ AtMain("begin")
    /\ pc' = IF daemon = "stat" THEN "accept" ELSE "sleep"
    /\ UNCHANGED <<todo, fds, link, asked, changes, work>> /\ KeepMain

\* The log daemon, each time it wakes up.
LogAgain ==
    /\ AtMain("sleep") /\ todo' = Measure
    /\ UNCHANGED <<pc, fds, link, asked, changes, work>> /\ KeepMain

\* socklisten.  The connection before is not closed; a failure of accept goes
\* unnoticed, because the pointer is tested and not the descriptor.
socklisten ==
    /\ AtMain("accept") /\ pc' = "read"
    /\ link' = (fds < MaxFd) /\ fds' = IF fds < MaxFd THEN fds + 1 ELSE fds
    /\ UNCHANGED <<todo, asked, changes, work>> /\ KeepMain

\* The client goes away, or sends less than a packet; or there is none.
ReadFails ==
    /\ AtMain("read") /\ pc' = "accept"
    /\ UNCHANGED <<todo, fds, link, asked, changes, work>> /\ KeepMain

\* A packet.  If it names other PAPI events than the last one, the flags of
\* all workers are raised; a worker heeds its own flag only, so they are
\* raised in one step.  Nothing is known of what the workers are doing: one
\* that is taking the last selection over reads part of the new one, and will
\* lower the flag that was meant for it.
ClientAsks(p) ==
    /\ AtMain("read") /\ link
    /\ IF p = asked
       THEN pc' = "hello" /\ UNCHANGED <<asked, changes, flag, torn>>
       ELSE /\ InBound
            /\ asked' = p /\ changes' = changes + 1
            /\ flag' = [w \in Workers |-> TRUE]
            /\ torn' = torn \cup {w \in Workers : wpc[w] # "look"}
            /\ pc' = "store0"
    /\ UNCHANGED <<todo, fds, link, papi, shown, wpc, copy, evset>> /\ KeepMain

\* Between raising the flags and the end of StoreRegisters.
Storing == pc \in {"store0", "store1"}

StoreRegisters ==
    /\ \/ AtMain("store0") /\ papi' = [papi EXCEPT ![1] = asked[1]] /\ pc' = "store1"
       \/ AtMain("store1") /\ papi' = [papi EXCEPT ![2] = asked[2]] /\ pc' = "hello"
    /\ UNCHANGED <<todo, fds, link, asked, changes, flag, shown, wpc, copy, evset, torn>> /\ KeepMain

\* The answer of the handshake, and the measurement if it could be sent.
Hello ==
    /\ AtMain("hello") /\ pc' = "reply" /\ todo' = Measure
    /\ UNCHANGED <<fds, link, asked, changes, work>> /\ KeepMain

Reply ==
    /\ \/ AtMain("reply") /\ pc' = IF Workers = {} THEN "read" ELSE "papi"
       \/ AtMain("papi") /\ pc' = "read"
    /\ UNCHANGED <<todo, fds, link, asked, changes, work>> /\ KeepMain

WriteFails ==
    /\ AtMain("hello") \/ AtMain("reply") \/ AtMain("papi")
    /\ pc' = "accept"
    /\ UNCHANGED <<todo, fds, link, asked, changes, work>> /\ KeepMain
-----------------------------------------------------------------------------
\* A worker.  It reads the registers twice, for its copy and for the calls
\* that add the events.
AtWork(w, l) == ~exited /\ wpc[w] = l
Goto(w, l) == wpc' = [wpc EXCEPT ![w] = l]
KeepWork == UNCHANGED <<chip, main, papi, asked, changes>>

\* The events of the copy cannot be removed from the set, the one or the other.
Stuck(w) == ~ (Members(copy[w]) \subseteq evset[w]) \/ copy[w][1] = copy[w][2]

\* Stop and remove the events of the copy; the process ends where that fails.
\* A takeover that begins while the registers are stored is torn, one that
\* begins later is not.
Remove(w) ==
    /\ exited' = Stuck(w)
    /\ evset' = [evset EXCEPT ![w] = @ \ Members(copy[w])]
    /\ torn' = IF Storing THEN torn \cup {w} ELSE IF Stuck(w) THEN torn ELSE torn \ {w}

\* Fault: Look with the values in papistat left as they are.
LookKeepsValues(w) ==
    /\ AtWork(w, "look") /\ flag[w]
    /\ Remove(w) /\ Goto(w, "copy0")
    /\ UNCHANGED <<shown, flag, copy>> /\ KeepWork

\* The flag is up.
Look(w) ==
    /\ AtWork(w, "look") /\ flag[w]
    /\ shown' = [shown EXCEPT ![w] = {}]
    /\ Remove(w) /\ Goto(w, "copy0")
    /\ UNCHANGED <<flag, copy>> /\ KeepWork

\* The flag is down: read the events into papistat, and sleep.
Sample(w) ==
    /\ AtWork(w, "look") /\ ~flag[w]
    /\ shown' = [shown EXCEPT ![w] = evset[w]]
    /\ UNCHANGED <<flag, wpc, copy, evset, exited, torn>> /\ KeepWork

CopyRegister(w) ==
    /\ \/ AtWork(w, "copy0") /\ copy' = [copy EXCEPT ![w][1] = papi[1]] /\ Goto(w, "copy1")
       \/ AtWork(w, "copy1") /\ copy' = [copy EXCEPT ![w][2] = papi[2]] /\ Goto(w, "add0")
    /\ UNCHANGED <<flag, shown, evset, exited, torn>> /\ KeepWork

\* An event that is in the set already cannot be added.
Add(w, e) ==
    /\ exited' = (e \in evset[w])
    /\ evset' = [evset EXCEPT ![w] = @ \cup {e}]

AddEvent(w) ==
    /\ \/ AtWork(w, "add0") /\ Add(w, papi[1]) /\ Goto(w, "add1")
       \/ AtWork(w, "add1") /\ Add(w, papi[2]) /\ Goto(w, "lower")
    /\ UNCHANGED <<flag, shown, copy, torn>> /\ KeepWork

LowerFlag(w) ==
    /\ AtWork(w, "lower") /\ flag' = [flag EXCEPT ![w] = FALSE] /\ Goto(w, "look")
    /\ UNCHANGED <<shown, copy, evset, exited, torn>> /\ KeepWork

\* The process has ended.
Gone == exited /\ UNCHANGED vars
-----------------------------------------------------------------------------
Next ==
    \/ \E k \in Kinds : Event(k)
    \/ CallClear \/ CallSelect \/ CallMask \/ CallStop \/ CallStart
    \/ CallRestart \/ RestartRest \/ CallRead \/ ReadRest
    \/ Begin \/ LogAgain \/ socklisten \/ ReadFails
    \/ \E p \in PapiPairs : ClientAsks(p)
    \/ StoreRegisters \/ Hello \/ Reply \/ WriteFails
    \/ \E w \in Workers : Look(w) \/ Sample(w) \/ CopyRegister(w) \/ AddEvent(w) \/ LowerFlag(w)
    \/ Gone

Spec == Init /\ [][Next]_vars
-----------------------------------------------------------------------------
CallOps == {"clear", "select", "mask", "restart", "stop", "start", "read"}
PapiEvents == UNION {Members(p) : p \in PapiPairs}

TypeOK ==
    /\ reg \in Registers
    /\ since \in [Counters -> Nat] /\ seen \in [Kinds -> Nat]
    /\ daemon \in {"stat", "log"}
    /\ pc \in {"begin", "sleep", "accept", "read", "store0", "store1", "hello", "reply", "papi"}
    /\ todo \in Seq([op : CallOps, c : Counters])
    /\ half \in Idle .. HighMod - 1
    /\ stat \in [Counters -> 0 .. LowMod * HighMod - 1]
    /\ total \in [{cachehit, cachemiss} -> Nat]
    /\ fds \in 0 .. MaxFd /\ link \in BOOLEAN
    /\ asked \in PapiPairs /\ changes \in Nat /\ papi \in Seq(PapiEvents)
    /\ flag \in [Workers -> BOOLEAN] /\ shown \in [Workers -> SUBSET PapiEvents]
    /\ wpc \in [Workers -> {"none", "look", "copy0", "copy1", "add0", "add1", "lower"}]
    /\ copy \in [Workers -> Seq(PapiEvents)] /\ evset \in [Workers -> SUBSET PapiEvents]
    /\ exited \in BOOLEAN /\ torn \subseteq Workers

\* The counters of the totals are set up once and read for ever, while each
\* measurement stops two other counters and thereby writes to the select
\* field of all (numachip_stop_pcounter).  They miss nothing: from its mask on
\* such a counter has counted every event of its kind, up to its 40 bits.
TotalsExact ==
    \A c \in Tots : [op |-> "mask", c |-> c] \notin Members(todo) =>
        Value(reg, c) = since[c] % (LowMod * HighMod)

\* What a measurement reports has happened.  The counts of hits and misses and
\* the totals are never above the events since the counter was set to zero,
\* although a value is read in two parts while it changes, and although the
\* counters pass through foreign units when others are stopped; the sums are
\* never above the events of the whole run.  The cave counters are set to zero
\* in two parts while they run: the upper part may keep the carries that
\* happen in between, the lower part never counts more than has happened.
ReportsReal ==
    todo = <<>> =>
        /\ \A c \in {cachehit, cachemiss} \cup Tots : stat[c] <= since[c]
        /\ \A c \in Caves : stat[c] % LowMod <= since[c]
        /\ \A c \in DOMAIN total : total[c] <= seen[Kind(c)]

\* The flags are raised before the registers are stored, a worker reads the
\* registers twice, and nobody waits for it.  Whatever the interleaving, that
\* harms only workers whose own last takeover met a change of the events: any
\* other one whose flag is down counts what the client asked for last, knows
\* the events it will have to remove, and shows no values of other events.  A
\* worker that missed or mixed a selection is right again after its next
\* takeover, unless that meets a change too, or ends the daemon - which only a
\* worker with a torn takeover behind it does.
WorkersFollow ==
    /\ exited => torn # {}
    /\ \A w \in Workers \ torn :
        wpc[w] = "look" /\ ~flag[w] /\ ~Storing =>
            /\ papi = asked /\ copy[w] = papi /\ evset[w] = Members(papi)
            /\ shown[w] \in {{}, Members(papi)}
=============================================================================
