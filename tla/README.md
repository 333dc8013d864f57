# A TLA+ model of nc-utils

nc-utils is the user-space side of Numascale's NumaChip machines: a small C library
(locks, block transfer engine, performance counters, copies), the numaplace thread and
memory placement library, two statistics daemons and a set of tools. This directory holds
TLA+ modules for the parts whose correctness depends on interleavings, failures or
arithmetic, the TLC configurations that check them, and TLAPS proofs. Paths below are
relative to the repository, line numbers are in `PROJECT.json` ("map").

## Inventory

| component | state it keeps | operations | interacts with | what makes it correct |
|---|---|---|---|---|
| ticket lock (`lib/ncutils_lock.h`) | head and tail, 16 bits each in one word | init, acquire, release | every user of the library | exclusion, arrival order, no starvation, across the counters' wrap |
| queued ticket lock (`lib/ncutils_lock.h`, `lib/tktqlock.c`) | the lock words, bit 0 of head for "has a queue"; a global array of slots; a queue element on each waiter's stack | acquire, release, attach a slot, enqueue, hand off, detach | all locks share the slots; used as `comp_lock` by the block transfer engine | exclusion, no starvation, no pointer into a stack frame that is gone, slots come back |
| block transfer engine, completions (`lib/libncbte.c`) | per chip a bit mask of hardware queues and a pinned region of fence words; per completion chip, queue, fence pointer | open, alloc, free, check, wait, transfer, close | engine (descriptor stores, fence writes), kernel driver (pin), scheduler (which chip a thread is on), `comp_lock` | a queue has one owner; wait and check tell the truth; nothing is written to memory given back |
| block transfer engine, transfers (`lib/libncbte.c`) | the loop's offsets, lengths and addresses | write, read and clear a region | engine | exactly the requested dwords are moved, larger descriptors are block aligned |
| context table (`numaplace/libnumaplace.c`) | shared memory: lock word (a pid), count, contexts with pid and cores | constructor, destructor, `sched_getaffinity` | other processes, which may be killed | the lock excludes and survives its holder; contexts and count agree |
| core placement (`numaplace/libnumaplace.c`) | abstract socket names as core locks, a bitmap of the process's own cores, thread data | `pthread_create`, `bind_current`, `core_allocate`, `core_deallocate` | other processes through socket names; the allocator's `exit_heap` | a core has one thread; it comes back when the thread or process ends |
| per-thread allocator (`numaplace/ncalloc.c`) | heaps with bins of blocks, chunk stacks, an LRU of big blocks, a table of all heaps | malloc, free, realloc, memalign, `exit_heap` | frees from other threads | no chunk is handed out twice; lists and counts agree; frees reach the owner's heap |
| launcher (`numaplace/numaplace.cc`) | a mask of cores that seem free, the cores and nodes chosen; in the kernel the directory of cpusets | `scan_cores`, `allocate`, the writes to the cpuset, exec, `cleanup` | other launchers through the cpusets; the kernel's release agent | no core in two cpusets; the number of cores asked for, nearest nodes first; what ends leaves nothing |
| performance counters (`lib/pcounter.c`, `lib/pcounter_test.c`), device list (`lib/device.c`, `lib/init.c`) | one select register with a field per counter, mask and 40 bit value per counter; a list made once | clear, select, mask, fullstart, restart, stop, read | hardware, the daemons | a started counter counts its event; operations on one leave the others alone |
| statistics daemons (`nc_test/nc_stat_d`, `nc_test/nc_log_d`) | shared flags, PAPI registers and results; sums of hits and misses | set-up, main loop, one counting thread per core | PAPI, counters, client socket | what is reported has happened; totals miss nothing; a new selection reaches every thread |
| copies (`lib/memops.c`) | none | alignment, vector body, tail | - | equals a plain copy |
| raw engine (`tools/nclib.py`) | transmit and receive registers | raw read and write with retry | hardware | a request is answered by its own response |

Hard behaviours, in the order of the damage they can do: the lock-free hand-over between
the two modes of the queued lock; queue and fence re-use in the block transfer engine,
with threads that migrate and clients that free early; death of a process inside the
shared table; wrap-around of tickets, lengths and counts; flags and registers shared
between daemon threads without a lock. `PROJECT.json` lists them line by line under
"hazards".

## Modules

**Tickets** is the arithmetic of a wrapping counter: `Inc`, the distance `Offset` of a
ticket behind the head and its inverse `Behind`. It is shared by both locks.

**TicketLock** has one action for the `xadd` of `TicketAcquire` (with the first
comparison, which uses the value it returned), one for the read of the head that ends the
spin loop, one for `TicketRelease`. **FifoLock** is the abstract lock: a thread that
arrives queues behind all that are present. `TicketLock!FirstComeFirstServed` is
FifoLock's specification under the mapping `Phase`/`Ahead`, where the threads ahead are
those whose ticket is nearer to the head.

**QTicketLock** is `QTicketAcquire`, `QTicketRelease` and all of `tktqlock.c`. Each action
is one access to shared memory together with the local computation up to the next access,
so TLC explores every interleaving of those accesses (memory is sequentially consistent;
on x86 the only reordering is a store passing a later load of another location). The code steps tickets by two and keeps
the queue bit in bit 0 of head; the model has the counter in `head` and the bit in
`queued`, always accessed together as the word they are. A `struct tkt_q` is on the stack
of `tkt_q_do_spin`, and a thread is in at most one call of it, so an element is named by its
thread, and the pointer `spin_tail` is NULL for `&tqhp->spin` and t for `&tq.next` of t.
`QTicketRelease`, `WakeFind` ... `HandOff` are the release; `WakeRead`, `WakeCas`,
`WakeFree` are `tkt_q_try_unqueue`. Two reads that can not be told apart from being
skipped are left out: the plain test of `ref` before its compare-and-exchange and the test
of `head_tkt` before it is set to -1. The hash is a constant function; a cfg gives every lock the same start.

**BteCompletion** has the threads of one context, with at most one completion each. The
chip a thread runs on is state that `Migrate` changes, because `get_current_chip` is asked
again at every step; descriptors go to the engine of that chip. `Engine` works each queue
off in order and clears the fence word when it meets a fence descriptor. Pinning may fail
(`FindRegion`), and so may unpinning (`CloseFailed`). `lost` remembers queues whose bit the
error path of the allocation left set; `fence` has the queues whose fence word is -1.
`ncbte_wait_completion` has two ways: on the completion's chip it spins on the fence word
(`WaitReturns`), on another it returns at once (`WaitCompletion`), and since it has no value
the caller cannot tell which. `idle` is what clients believe: the threads that take all their
transfers for done, because `ncbte_check_completion` said 1 (`PollCompletion`) or, if they are
in `TrustsWait`, because wait returned, in either way. `OneInFlight` and `WaitBeforeFree` say
that clients re-use and free a completion only when they believe this, `Migrants` whom the
scheduler moves. `split` remembers the threads moved in the middle of a transfer: the chip is
asked for anew at every descriptor, so that their data and their fence are in the queues of
two engines. `comp_lock` is a lock that excludes. One data descriptor stands for the data
part of a transfer.

**BteTransfer** is the loop of `ncbte_transfer_region` for one request, one action per
part (segment, head, bulk, tail), in dwords, with the widths of the C types (`bulk` is
`__u32`, the byte count of a part is computed in `__u32`, `length` is `size_t`). A region is
its sequence of physical pages. `Init` takes every request the callers' checks accept;
`Short` says whether it may end inside the 64 byte block it starts in; `MaxOffset` and
`MaxLength` bound the requests. That a page is in a region once is an assumption on the
page list the pin call of the driver returns.

**ContextTable** has the processes that use the shared segment. `table_lock` is three
steps (compare-and-swap, `kill(pid, 0)`, store of 0), the count is read and stored in two,
and `Kill` ends a process at any point, leaving the shared words as they are. Start-up
includes the assertion that the table is empty and the sweep for stale contexts with its
nested `context_deallocate`. Every process of the model starts once; pids are not re-used.

**NcSizes** is the arithmetic of the allocator: the bin of a request (powers of two and
their halves, 24 left out), the distance of its chunks, the chunks of a block, the size of a
large block. `MCNcAlloc` checks `BinServes` at the true block size of 2 MiB around every bin
boundary, as an assumption that TLC evaluates.

**NcAlloc** is `ncalloc.c` and the two places of `libnumaplace.c` that tie it to the life of
a thread. The bins are doubly linked lists of blocks with their `head`, `tail`, `prev` and
`next`; a block has the part never handed out (`rest`, `restcnt`) and the free stack at its
end (`free`). `nc_malloc_small` looks at the first block of a bin only; `nc_free_small` moves
a block to the front, keeps it or unmaps it; `nc_malloc_big` and `nc_free_big` work on the
list of large blocks last used. What happens under the lock of a heap is one step; `nc_free`
is two, because it looks the heap of the block up before it takes the lock. `nc_memalign`
leaves the shift in the header of the chunk, which `nc_free` takes out again (`shift`,
`Unshift`). `nc_realloc` keeps the buffer, or is an allocation and, in a later step, a free.
`ExitHeap`, `ExitUnmap` and `FreeInfo` are `core_deallocate`: the heap leaves the table, its
lists are unmapped, and the `thread_info` is freed through a heap that `nc_free` makes anew.
An access to memory that is not mapped ends the model with `stop = "fault"`, a full table
with `stop = "threads"`. `Clients` says which habits the program has.

**PCounter** has the calls of `pcounter.c` as operators on the registers of a chip. A select
field is a set of bits, because `numachip_select_pcounter` adds to a field it does not share
a bit with, and because `numachip_stop_pcounter` writes all bits of all other fields.

**StatDaemon** is both daemons on top of it. The calls on the counters still to be made are a
sequence (`todo`), and between any two the chip counts (`Event`). A read is two accesses,
each a step of its own (`CallRead`, `ReadRest`), and so is a restart; the accesses of a clear,
of a select or mask, of a stop and of a full start are one step each. `since` and
`seen` are history: what the chip did. A client may go at every read and write of the main
loop. A worker copies the two PAPI registers, adds the events, reading the registers again,
and lowers its flag, one access per step; it does so at any time, and so does the main thread,
which raises the flags and then stores the two registers one after the other (`Storing`). A
PAPI call that fails ends the process (`exited`): an event added that is in the set
(`AddEvent`), or one removed that is not (`Stuck`). `torn` is history: the workers whose last
takeover of a selection was met by a change, that is, began while the registers were being
stored or was under way when the flags were raised again; a takeover that meets none clears
it. `changes` counts the changes of the selection, for the bound only.

**Launcher** has the processes that run `numaplace` and the directory of cpusets. Each
access to the directory is a step and so is a turn of the loop of `allocate`. The kernel
refuses cores that are in another exclusive cpuset (`Conflict`), takes no task into an empty
one, and calls the release agent when the last task has left; `Kill` ends a launcher at any
point, without `cleanup`. A cpuset without cores is read as core 0 (`Listed`), and one that
goes while the directory is read ends the launcher (`ScanMisses`).

The modules with a name that begins with MC give TLC its definitions. Definitions whose
comment begins with "Fault" are wrong variants of the definition that follows; each shows
which property notices that mistake ("mutants" in `PROJECT.json`).

## Runs

| run | instance | shows |
|---|---|---|
| ticket_lock | 4 threads, 4 tickets | exclusion, tickets in line, first come first served, no starvation, with head = tail both when free and when every ticket is out |
| qticket_lock | 3 threads, 3 tickets, 2 locks, 1 slot, switch at 1 waiter | exclusion, accounting, no dangling element, no starvation |
| qticket_pair | 2 threads, 2 locks, 2 slots | slots come back when both threads take a slot for one lock and one of them backs out |
| qticket_two_slots | 3 threads, 1 lock, 2 slots | **violated**: threads hang in a stale slot |
| bte_completion | 2 threads, one that stays and trusts wait, one that migrates and polls; 2 chips with 2 queues of 2 descriptors; the chips symmetric | ownership, truth of wait and check, fences |
| bte_free | 2 threads that trust wait, one of them migrates; 2 chips with 1 queue | **violated**: a fence is left behind for the next owner |
| bte_transfer | blocks of 4 dwords, pages of 8, three layouts of two pages on each side, every request that does not end inside its first block | exactly the requested dwords, large descriptors block aligned |
| context_table | 3 processes, deaths at any point | consistent without deaths; a dead holder is cleared |
| context_table_steal | the same | **violated**: two live holders |
| ncalloc | 2 threads, one of which starts and ends; 3 blocks of 2 chunks, one large size, alignment 32; 4 buffers | one user per piece of memory, sound lists, every chunk and block accounted for, no fault |
| stat_daemon | a chip with 4 counters of two bits in two registers of one, events and changes of the selection 4 together, 1 connection, 1 worker, 2 selections that share an event | totals exact, reports real, workers follow |
| launcher | 2 launchers, 3 nodes of 2 cores, requests for all and for 3 cores, strides 1 and 2, 1 kill | cores apart, launchers settle |

Why the bounds are enough for what is asked. In the locks the third thread is the one that
arrives during a hand-over between two; a switch at one waiter makes queues form with three
threads; a ticket space no larger than the set of threads makes the counters wrap all the time. Two
locks and one slot make slots scarce. In BteCompletion two threads can race for a queue,
a region and the lock, and two descriptors are one transfer, so that a queue is full with
one; the second chip is there for migration. In BteTransfer two pages of two blocks have every kind
of boundary: block, page, contiguous and not, on either side first. In ContextTable two
processes are needed to race on a dead one's lock. In NcAlloc blocks of two
chunks are full, partly free and empty after few calls, three blocks make a list with a
middle, the limits on kept blocks (`KeepBlk`, `KeepBig`) are below the number of blocks, and
a thread that ends leaves a free of another thread in the air. In StatDaemon registers of
one bit carry at every second event and overflow at the fourth, and there is one counter of
each sort. Events and changes of the selection share a bound, since the chip and the workers
have nothing to do with each other: there are runs with four events, with four changes, which
is twice what it takes to tear a takeover and the next one, and with each mix of the two. In Launcher three nodes are needed for a node without a free core between two
others. Deadlock is checked in the lock, daemon and launcher runs and in ncalloc; in the
others the system may stop (a closed context, a finished transfer, ended processes).

Fairness. Weak fairness of each thread's steps inside a lock operation and of leaving the
critical section: the scheduler runs every thread and critical sections end. No thread is
obliged to ask for a lock. In ContextTable a process inside the library keeps running
unless killed. In BteTransfer the loop runs. In Launcher every launcher runs on, since it
never waits for anything, and the kernel calls the release agent; an application may run for
ever and nobody is obliged to start one. BteCompletion has no fairness: that a wait
ends is stated as the invariant `FenceComes`.

### What the violated runs show

* `qticket_two_slots`: `tkt_q_try_unqueue` clears the bit of the lock word and then, in a
  second store, the slot's `ref`. In between a lock can get a second slot and its bit back;
  a thread that looks for the queue then finds the first slot and waits there for ever. With
  a single slot nobody can attach in between, and with two threads nobody is left to find
  the stale slot, which is why the other runs pass. In
  the real program (1026 slots, switch at 8 waiters) the window is one store wide and needs
  nine arrivals, which a stress test will hardly hit.
* `bte_free`: a client submits a transfer and is moved to the other chip; it waits, which returns
  at once there, and frees its completion while the fence descriptor is queued, which then
  addresses the fence word of whoever gets the queue next. Two comments are contradicted: wait
  does not wait (`libncbte.c:715-716`), and `ncbte_free_completion` does not wait for pending
  transfers either (`libncbte.c:673-674`). With `WaitBeforeFree = FALSE` no migration is needed.
  With `CheckMeansDone` in its place the run shows the same wait followed by a second
  transfer: the fence of the first clears the word, and check answers 1 for the second.
* `context_table_steal`: clearing a dead process's lock is a plain store, not a
  compare-and-swap from the pid that was seen.

### What the models show without a run of their own

Each of these is reproduced by changing constants of a cfg as given, or read off the model.

* Queued lock, `QTicketLockTwoSlots.cfg` with `MutualExclusion`, `NoDanglingElement` or
  `SlotsComeBack`: they fail too. Exclusion fails only after the counter has wrapped past a
  `head_tkt` left in the stale slot, which 16 bits make rare.
* Short transfers, `Short = TRUE`: `NeverBeyond` fails. The head part is extended to the next
  64 byte boundary (`libncbte.c:440`) whatever the length, so `bulk` and `length` wrap.
* Long transfers, `Word = 8` in `BteTransfer.cfg`: `NeverBeyond` fails. A part of 4 GiB has a
  byte count of 0 in 32 bits (`libncbte.c:402`): the part is moved, `length` stays as it was,
  and the loop moves it again.
* Table: a process killed without its destructor leaves the count above zero, and then every
  later start aborts in `init` (its assertion comes before the sweep that is meant to free
  stale contexts).
* Allocator, `Clients = {"leave"}`: `NoFault` fails. When a thread ends, `exit_heap` unmaps
  its blocks with the buffers other threads still use; `numaplace.tex:87` promises a library
  transparent to pthreads programs, which may hand buffers on.
* Allocator, `Clients = {"regrow"}` with `Sizes = {300, 410}`: `BuffersApart` fails. `nc_realloc` does not subtract the
  shift of an aligned buffer from the size of its chunk.
* Allocator, `Sizes = {170, 176, 190}` with `AdjustMin = 192`: `BuffersApart` fails. Requests
  below and at the bound where bins are stretched share a bin and compute different distances
  (in the code, requests up to 64 KiB in the 64 KiB bin).
* Allocator: every ended thread leaves the heap that the free of its `thread_info` made, and
  with it a slot; after `MAX_THREADS` ends the process exits. Besides, `bklalloc` advances a
  misaligned mapping by the misalignment itself; `exit_heap` does not add up the counts of
  mappings, and two of the statistics are never counted.
* Daemon, `WorkersFollow` with `torn` left out: it fails. The flags are raised before the
  registers are stored and a worker reads the registers twice, so a worker in a takeover that
  meets a change can keep the old selection, count a mixture, or fail to add or remove an
  event, which ends the daemon. The comment at `nc_stat_d.c:619-620` foresees race conditions.
  It takes the next change of the selection to right such a worker, since its flag is down.
* Daemon: the lists of counters are assumed to name no counter twice, as those of the code
  do. The proof needs this: the second select of a counter would find its field in use, and
  the error ends the set-up (`start_numachip_counters` returns), at which nobody looks.
* Daemon: hits and misses cover only the time between start and read of a measurement; a
  total that is read across a carry is short by it; the upper part of a restarted counter
  keeps the carries that fall between the two writes that set it to zero, so that only its
  lower part is bounded by what has happened; connections are never closed, and a failed
  accept goes unnoticed. A select adds to a field that shares no bit, although the NOTE of
  the daemons says that it has to be cleared first.
* Launcher: `allocate` loops for ever when the nearest node not yet visited has no core left
  (`Stranded`); a cpuset that is just being made hides core 0; one that goes at the wrong
  moment ends the launcher; a launcher killed before its task has moved leaves its cpuset.

## Proofs

TLAPS proves for every value of the constants that satisfies the assumptions:

* `TicketLockProofs`: `TypeCorrect`, `LineCorrect`, `Exclusion` and `ServesInOrder`.
  Exclusion is not inductive; the inductive invariant is `TypeOK /\ TicketsInLine`: the
  outstanding tickets are those from head to tail, all different, and whoever is inside has
  the head's. It needs that there are no more threads than ticket values, which gives room
  for one more ticket whenever some thread is idle (`RoomForOne`). Exclusion follows from
  the last two conjuncts. `ServesInOrder` proves the refinement: an acquire is `Arrive`,
  the end of the spin `Enter`, a release `Leave`, since `Offset` orders tickets the way
  threads arrived and a release moves everybody up by one.
* `QTicketLockProofs`: `TypeCorrect` and `AccountsForThreads`, for any number of threads,
  locks and slots: that head and tail differ by the number of outstanding tickets. The
  inductive invariant is `TypeOK` with `TicketsAccountForThreads`; only the two `xadd`s
  change a counter, and the proof shows that each moves exactly one thread in or out of
  `Outstanding` and that all other actions leave that set alone. This holds with any number
  of slots, so the hang of `qticket_two_slots` is not one of the counters.
  `ExclusionHolds`, `NoDanglingHolds` and `SlotsComeBackHolds` need `Safe`: one slot, or at
  most `Switch + 1` threads. With `TKT_Q_SWITCH` at eight tickets and two slots or more, as
  the code is built, that is any program of up to nine threads, queues and all.
  `qticket_lock` and `qticket_pair` are instances of `Safe`; `qticket_two_slots` is the
  smallest one outside it, and there all three fail. What `Safe` gives is `Apart`: while a
  thread that has taken the queue bit away still has to free the slot, nobody attaches
  another to that lock. With one slot there is none to take; with few threads nobody is
  far enough behind head to ask. The inductive invariant `IInv` has three more layers.
  Slots: each is set up by one thread, a lock has at most one (`SetUp`, `OneSlot`), what a
  thread has found stays as it found it (`Attached`), and none is taken for nothing
  (`BusyUsed`, `StaleUsed`, `HaveSlots`). Turn: `Has(t)` says that t holds the lock, is to
  get it next, or has to pass it on; at most one thread has a lock (`One`), somebody has one
  with a queue (`Some`), the tickets are in line for as long as the lock is served by ticket
  (`Line`), and `head_tkt` is used once, by the thread whose turn it records (`Passing`).
  Queue: its ends and links, between the exchange of `spin_tail` and the store of the link
  too (`Ends`, `Chain`, `Fronts`), and the element a hand-off writes to (`Aims`, `Locals`).
  `One` gives exclusion, the last layer pointer safety, the first with `Some` the slots.
* `BteCompletionProofs`, for any number of threads, chips and queues, in three layers.
  `IType` adds to `TypeOK` that a completion in use names a queue of its chip.
  `Control` adds who owns what: a completion's queue is marked (`Owns`), the lock is held
  around the regions (`LockHeld`), close runs alone (`ClosesAlone`), a completion that was
  handed out has a region and one is stored only where there is none (`RegionThere`). It is
  inductive for any client and gives `OneOwner`, `NoLeak` and `RegionsStay`. `Fences` needs
  clients that free and re-use a completion only when they take its transfers for done, and
  that go by a return of wait only in threads that are never moved (`Patient`: `OneInFlight`,
  `WaitBeforeFree`, and nobody both in `TrustsWait` and in `Migrants`; `bte_free` shows what
  happens without the last). The threads that poll may be moved at any point. Every fence
  descriptor is that of a thread whose transfer is under way, with its word set
  (`FenceOwned`); there is one per thread (`OneFence`); a word is set only while its owner
  will queue or has queued the descriptor that clears it (`SetIsOwned`); data of a thread that
  is not in `split` is in the queue of its completion in front of its fence (`InOrder`). `OneFence` and `OneOwner` together give that an engine that takes a
  fence off clears nobody else's word. From it follow `FencesHaveOwners`, `FencesPinned`,
  `WaitsEnd` (the invariant, not termination), `WaitTellsTheTruth` and `CheckTellsTheTruth`.
  The bound `MaxQueued` is a parameter of these theorems like the others.

* `ContextTableProofs`: `TypeCorrect`, with deaths at any point: a process that has not
  marked a context has none and no process has two (`Owners`), so that with as many contexts
  as processes the search of `context_allocate` ends inside the table. `CalmTableHolds` adds
  `Orderly`, which is stated for the time before the first exit or kill, because after it
  `context_table_steal` happens: the lock word is the process inside the table (`Holder`),
  contexts and processes refer to each other (`Contents`), and the count is that of the
  contexts in use, off by one exactly between the two halves of its update (`Counted`).
* `LauncherProofs`: `TypeCorrect` and `CoresApartHolds`, for any machine and any number of
  launchers, kills included. A launcher decides on a stale mask, so nothing about its
  choice keeps cores apart. The inductive invariant says that a cpuset is exclusive before
  cores are written to it and that cpusets are disjoint (`Exclusive`), which cpusets exist
  and are left behind at each point (`Sets`), and that the choice, its number and its nodes
  come to the cpuset unchanged (`Chosen`). The refusal of the kernel is what carries the step
  that writes the cores.
* `StatDaemonProofs`: `TypeCorrect`, `TotalsExactHolds` and `ReportsRealHolds`, for counters
  of any width and any lists of counters. What a counter holds depends on the calls made and
  on those still to be made, so the invariant has four layers: types; `Plan`, the order of
  the calls left in `todo` (set-up before measurement, in a measurement restarts, stops,
  starts, reads); `Setting`, what is in the fields of each counter between which calls, from
  which no call finds a counter busy (`NeverBusy`), and from which the pattern that
  `numachip_stop_pcounter` writes over the other fields changes none of them; `Counting`,
  how values relate to events, in the middle of a read or a restart too (`HalfRead`).
  `WorkersFollowHolds` is proved apart from this, from `Following`, without any assumption on
  how fast workers or the client are. `Sound` is about every worker: how many events its set has
  at each point of a takeover, from which a worker that can remove two different events has an
  empty set again, whatever it had mixed up before. `Follows` is about the workers that are not
  in `torn`: none of them is in a takeover while registers are stored, and each has copied and
  added the events of the present selection as far as it has come.

* `BteTransferProofs`: `TransferTypes` for every request the callers accept;
  `TransferExact` and `TransferNeverBeyond` for regions of any number of pages in any order,
  blocks, pages and descriptors of any size that fit each other, and requests as
  `RequestsFit` says: they reach the end of the block they start in (`Short = FALSE`) and
  are shorter than 4 GiB (`MaxLength < Word`). The code checks neither, and outside of
  either the properties fail (above). The inductive invariant: the offsets have moved on
  by what the length has come down and the descriptors move exactly that prefix of the
  request (`Progress`, by `Moves`: every pair is the i-th dword of the request, each is
  there, no remote dword is in two); the two addresses run along the request for the rest of
  the segment, which is the last one or ends at a block boundary (`SegmentRest`); the head
  part ends at a block boundary of both sides and fits into the segment (`Boundary`). Below
  it are lemmas on what the code computes: `Contiguous` for `_get_region_phys_addr` (what it
  returns is contiguous, inside the region and ends with a page), `SetupIs` and
  `SetupAligned` for the loops of `SETUP_BTCE`, `PhysInjective` and `Count` for "none twice".
  No induction is needed: the descriptors of a part are given by a formula, and the pages
  `Run` counts are an interval because their set is closed downwards.

* `NcAllocProofs`, with the invariant in `NcAllocInvariant`: `AllocTypes`, `AllocBuffersApart`,
  `AllocListsSound`, `AllocChunksAccounted`, `AllocRoomFirst` and `AllocNoFault`, for any number
  of threads, blocks and table slots, any thresholds, request sizes and alignments, and blocks
  of any size; each from `AllocInvariant`, `Spec => []IInv`. Two hypotheses. `Clients = {}`:
  the program frees the buffers of a thread before the thread ends and passes no aligned
  buffer to `realloc`; without it the properties fail (above). `BinsAgree`: the small requests
  of one bin get chunks of one size. At the sizes of the code this excludes one request only,
  the one of 65520 bytes, which `MCNcAlloc` evaluates around the bin boundaries
  (`RealBinsAgree`); the instance of the run satisfies it (`InstanceBinsAgree`).
  None of the six is inductive. They speak of what a walk along `next` or `prev` meets, and a
  step that changes one link changes every walk, so `IInv` says instead that there are `own`,
  `kown` and `held` (`Sound`): the list a block is on, the heap that keeps it as unused, and
  its chunks in use. With them every fact is about a block and its neighbours (`DLNode`,
  `SLNode`), ranks that grow along `next` exclude cycles, and each list operation changes
  `own` at one block. `Mem` adds what a block holds: chunks in use, free and never used yet
  are apart and make up `cnt` (`SmallOK`), and the counters of a heap are those of its blocks
  (`CountOK`). `Claim` ties `held` to the buffers of the program and to the chunks that
  threads within `nc_free` are about to give back, one to one. `Place` and `Table` say where
  the heap of a block is: a free that has looked up its heap and not yet taken the lock still
  finds it, because the heap of a chunk in use is in the table and a thread that ends has none
  in use. `Fitting` and `Shifts` are about lengths and the shifts of aligned buffers. The proof
  goes up by layers: lists as functions (`DLTakeOut`, `DLPutFirst`, `DLPutLast`), the records
  that hold them (`LinksUnlink`, `ShapeDrop`), what a walk meets (`WalkAll`, `ListWalk`), one
  chunk taken or put back (`TakeOK`, `PutOK`), the heap operations (`AllocMem`, `BackSmall`,
  `BackBig`), then one lemma per action (`StepBegin`, `StepFreeLocked`, `StepExitHeap`, ...).
  That a walk meets every block of its list once needs no induction over data: the blocks are
  finitely many, and the ranks order them. Since `IInv` quantifies over functions, TLC checks
  what follows from it, not `IInv` itself.

Only model-checked: liveness (the prover has no fairness) and the sizes at their true
values.

## Not modelled, and why

The spin lock (one exchange), NUMA masks and PCI scan (system calls), the device list (read
once), the time stamp library (wall-clock calibration), command line tools and test programs
(input, output and timing), `numaplace.c` (not built). Weak memory ordering is not modelled.
`ncbte_alloc_region` for user buffers is represented by `Regions`. Of core placement only the
`thread_info` is modelled: the socket names by which processes lock cores and the bitmap of a
process are not. `count_api_start` and `count_api_stop`, which the daemons do not call, are
left out; the latter returns after its first counter.

Within the modules these paths are left out:

* NcAlloc: a thread ends (`ExitHeap`, by `Quiet`) when no buffer or `thread_info` of another
  thread is in its heap and no free of its blocks is under way. The window of `nc_free`
  between looking up a heap and taking its lock (`ncalloc.c:656`) is therefore not explored
  against the end of the heap's owner, and no passing run speaks of it; `Clients = {"leave"}`
  above does. The library itself leaves a buffer behind when a thread that created another one
  ends first, because the `thread_info` of the new thread comes from its heap. An `mmap` that
  fails and ends the process (`ncalloc.c:208`) and the stack that `pthread_create` takes with
  `posix_memalign` (`libnumaplace.c:640`) are left out.
* ContextTable: there are as many contexts as processes, so the message "out of contexts" and
  the exit after it (`libnumaplace.c:489-492`) do not occur. `CalmTable` speaks of the time up
  to the first exit, normal ones included. A `kill` that fails with EPERM, for a holder of
  another user, ends in an assertion in the code (`libnumaplace.c:430`); here all processes
  are one user's.
* BteTransfer: offsets and lengths whose sum wraps in `size_t`, and negative offsets, which
  pass the checks of the callers (`libncbte.c:517-518`), are not among the requests.
* Launcher: process identifiers do not come back while a cpuset with their name is left over
  (`mkdir` would fail, `numaplace.cc:525`). A write of cores that fails with anything but
  EINVAL is ignored by the code and leaves the cpuset without cores (`numaplace.cc:550`); here
  only the refusal for a conflict occurs. Lists of cores longer than the 64 bytes of the buffer
  (`numaplace.cc:208`) are cut in the code.
* StatDaemon: a selection of the same event twice is excluded (`PapiPairs`); it would end the
  daemon at the second `PAPI_add_event`.

## Plan

1. Core placement composed with process death: one thread per core, cores come back.
2. Copies as operators against a plain copy; the raw engine's retry.
