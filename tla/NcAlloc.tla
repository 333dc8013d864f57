------------------------------- MODULE NcAlloc ------------------------------
(***************************************************************************)
(* The per-thread memory allocator (numaplace/ncalloc.c) and the life of   *)
(* the threads that use it (numaplace/libnumaplace.c).  Every thread has a *)
(* heap: bins of blocks cut into chunks of one size, blocks kept for later *)
(* use, and large blocks kept for later use.  A thread allocates from its  *)
(* own heap only; a buffer goes back to the heap its block belongs to,     *)
(* whoever frees it.  When a thread ends its heap is given up.             *)
(*                                                                         *)
(* What is done under the lock of a heap is one step.  A heap is named by  *)
(* its thread, a block by a number; 0 is the null pointer.  The statistics *)
(* are left out.                                                           *)
(***************************************************************************)
EXTENDS NcSizes, Sequences, FiniteSets

CONSTANTS Threads,
          Main,          \* the thread that never ends
          NBlk,          \* bound: blocks that can be mapped at one time
          MaxThreads,    \* MAX_THREADS
          KeepBlk,       \* PAGE_BLK_MAP_TRESH
          KeepBig,       \* BIG_BLK_MAP_TRESH
          Sizes,         \* sizes the program asks for
          Aligns,        \* alignments above 16 it asks for
          InfoSize,      \* sizeof(struct thread_info)
          MaxLive,       \* bound: buffers in use at one time
          Clients,       \* what the program does, see ClientHabits
          NULL

\* "leave": a thread ends while buffers of its heap are in use.
\* "regrow": buffers that came from memalign are passed to realloc.
ClientHabits == {"leave", "regrow"}

ASSUME HeapAssumption ==
    /\ IsFiniteSet(Threads) /\ Main \in Threads /\ NULL \notin Threads
    /\ NBlk \in Nat /\ MaxThreads \in Nat \ {0} /\ MaxLive \in Nat
    /\ KeepBlk \in Nat /\ KeepBig \in Nat \ {0}
    /\ Sizes \subseteq Nat /\ InfoSize \in 0 .. SmallMax
    /\ \A a \in Aligns : a \in Nat /\ a > 16 /\ \E k \in 0 .. 30 : a = 2^k
    /\ Clients \subseteq ClientHabits

Blocks == 1 .. NBlk

\* The lists of blocks of a heap: its bins, and the large ones last used.
Requests == Sizes \cup {InfoSize} \cup {a + s : a \in Aligns, s \in Sizes}
Bins == {BinNdx(s) : s \in {r \in Requests : r <= SmallMax}}
BigList == -1
Lists == Bins \cup {BigList}

\* The small requests of one bin get chunks of one size that hold them.
BinsAgree ==
    \A s, u \in {r \in Requests : r <= SmallMax} :
        /\ BinServes(s) /\ BinNdx(s) \in Nat /\ BinSize(s) \in Nat
        /\ BinNdx(s) = BinNdx(u) => BinSize(s) = BinSize(u)

VARIABLES
    pc,      \* where each thread is
    tid,     \* __tid of each thread, -1 for none
    slot,    \* __allheaps
    count,   \* __thrcount
    heap,    \* the heap of each thread (__thrheap), NoHeap when not mapped
    blk,     \* the blocks, NoBlk when not mapped
    live,    \* the buffers the program uses
    arg,     \* what each thread is about to free
    stop     \* "no", or how the process has ended

vars == <<pc, tid, slot, count, heap, blk, live, arg, stop>>

NoHeap == [mapped |-> FALSE]
NoBlk == [mapped |-> FALSE]
NoArg == [b |-> 0]

NewHeap ==
    [mapped |-> TRUE, lock |-> FALSE, blkfree |-> 0, blkfreecnt |-> 0, biglrucnt |-> 0,
     head |-> [l \in Lists |-> 0], tail |-> [l \in Lists |-> 0]]

Init ==
    /\ pc = [t \in Threads |-> IF t = Main THEN "run" ELSE "off"]
    /\ tid = [t \in Threads |-> -1]
    /\ slot = [i \in 0 .. MaxThreads - 1 |-> NULL]
    /\ count = 0
    /\ heap = [t \in Threads |-> NoHeap]
    /\ blk = [b \in Blocks |-> NoBlk]
    /\ live = {}
    /\ arg = [t \in Threads |-> NoArg]
    /\ stop = "no"
-----------------------------------------------------------------------------
(* Linked lists.  A pair of a heap h and the blocks B is changed.           *)

\* p and n become neighbours; either may be the null pointer.
Join(B, p, n) ==
    [b \in Blocks |-> IF b = p THEN [B[b] EXCEPT !.next = n]
                      ELSE IF b = n THEN [B[b] EXCEPT !.prev = p]
                      ELSE B[b]]

\* Fault: the block behind the one taken out keeps its link to it.
UnlinkForward(s, l, b) ==
    LET p == s.B[b].prev
        n == s.B[b].next
    IN  [h |-> [s.h EXCEPT !.head[l] = IF p = 0 THEN n ELSE @,
                           !.tail[l] = IF n = 0 THEN p ELSE @],
         B |-> IF p = 0 THEN s.B ELSE [s.B EXCEPT ![p].next = n]]

Unlink(s, l, b) ==
    LET p == s.B[b].prev
        n == s.B[b].next
    IN  [h |-> [s.h EXCEPT !.head[l] = IF p = 0 THEN n ELSE @,
                           !.tail[l] = IF n = 0 THEN p ELSE @],
         B |-> Join(s.B, p, n)]

PushHead(s, l, b) ==
    [h |-> [s.h EXCEPT !.head[l] = b],
     B |-> [Join(s.B, b, s.h.head[l]) EXCEPT ![b].prev = 0]]

PushTail(s, l, b) ==
    [h |-> [s.h EXCEPT !.tail[l] = b],
     B |-> [Join(s.B, s.h.tail[l], b) EXCEPT ![b].next = 0]]

\* The blocks from b on, first to last, by next or by prev; 0 after the end.
Forward(B, b) ==
    LET p[k \in 0 .. NBlk] == IF k = 0 THEN b ELSE IF p[k-1] = 0 THEN 0 ELSE B[p[k-1]].next
    IN  p
Backward(B, b) ==
    LET p[k \in 0 .. NBlk] == IF k = 0 THEN b ELSE IF p[k-1] = 0 THEN 0 ELSE B[p[k-1]].prev
    IN  p
Members(path) == {path[k] : k \in DOMAIN path} \ {0}
-----------------------------------------------------------------------------
(* The heap operations, each under the lock of the heap.                    *)

Freecnt(b) == Len(blk[b].free)
HasRoom(b) == blk[b].restcnt + Freecnt(b) > 0

\* The next chunk of block b: from the rest first, then from the free stack.
\* A chunk that was never used gets a header, others keep theirs.
NextChunk(B, b) == IF B[b].restcnt > 0 THEN B[b].rest ELSE Head(B[b].free)
TakeChunk(B, b, binsize) ==
    IF B[b].restcnt > 0
    THEN [B EXCEPT ![b].restcnt = @ - 1,
                   ![b].rest = @ + binsize,
                   ![b].shift = {p \in @ : p[1] # B[b].rest}]
    ELSE [B EXCEPT ![b].free = Tail(@)]

\* Fault: a full block stays at the head of its bin.
ToTailNever(s, l, b) == s

\* A full block goes to the tail, if it is not alone.
ToTail(s, l, b) ==
    IF s.B[b].restcnt = 0 /\ s.B[b].free = <<>> /\ s.B[b].next # 0
    THEN PushTail(Unlink(s, l, b), l, b)
    ELSE s

\* bklalloc and initblk: a block without chunks in use.
InitBlk(t, binsize, l) ==
    [mapped |-> TRUE, small |-> TRUE, tid |-> tid[t], binndx |-> l, size |-> binsize,
     cnt |-> ChunkCount(binsize), restcnt |-> ChunkCount(binsize), rest |-> BlkHdr,
     free |-> <<>>, shift |-> {}, prev |-> 0, next |-> 0]
BigBlk(t, size) ==
    [mapped |-> TRUE, small |-> FALSE, tid |-> tid[t], binndx |-> BigList, size |-> size,
     cnt |-> 1, restcnt |-> 0, rest |-> BlkHdr, free |-> <<>>, shift |-> {}, prev |-> 0, next |-> 0]

Unmapped == {b \in Blocks : ~blk[b].mapped}
\* bklalloc: which address it maps does not matter.
AnyUnmapped == CHOOSE b \in Unmapped : \A c \in Unmapped : b <= c

\* A block at the head of bin l: one kept for later use, or a new mapping.
NewBlock(t, s, l, binsize) ==
    LET b  == IF s.h.blkfree # 0 THEN s.h.blkfree ELSE AnyUnmapped
        h1 == IF s.h.blkfree # 0
              THEN [s.h EXCEPT !.blkfree = s.B[b].next, !.blkfreecnt = @ - 1]
              ELSE s.h
        B1 == TakeChunk([s.B EXCEPT ![b] = InitBlk(t, binsize, l)], b, binsize)
        s1 == PushHead([h |-> h1, B |-> B1], l, b)
    IN  [b |-> b, off |-> BlkHdr,
         h |-> [s1.h EXCEPT !.tail[l] = IF @ = 0 THEN b ELSE @], B |-> s1.B]

\* Fault: a chunk is handed out and stays on the free stack.
MallocSmallTwice(t, size) ==
    LET l == BinNdx(size)
        b == heap[t].head[l]
        s == [h |-> heap[t], B |-> blk]
    IN  IF b # 0 /\ HasRoom(b)
        THEN LET r == [h |-> s.h, B |-> IF blk[b].restcnt > 0 THEN TakeChunk(blk, b, BinSize(size)) ELSE blk]
             IN  [b |-> b, off |-> NextChunk(blk, b), h |-> r.h, B |-> r.B]
        ELSE NewBlock(t, s, l, BinSize(size))

\* nc_malloc_small: the heap, the blocks and the header of the chunk.
MallocSmall(t, size) ==
    LET l == BinNdx(size)
        b == heap[t].head[l]
        s == [h |-> heap[t], B |-> blk]
    IN  IF b # 0 /\ HasRoom(b)
        THEN LET r == ToTail([h |-> s.h, B |-> TakeChunk(blk, b, BinSize(size))], l, b)
             IN  [b |-> b, off |-> NextChunk(blk, b), h |-> r.h, B |-> r.B]
        ELSE NewBlock(t, IF b = 0 THEN s ELSE ToTail(s, l, b), l, BinSize(size))

\* Large blocks kept for later use that are big enough, the last used first.
Fits(t, size) ==
    LET path == Forward(blk, heap[t].head[BigList])
    IN  {k \in DOMAIN path : path[k] # 0 /\ blk[path[k]].size >= BigNeed(size)}

\* nc_malloc_big
MallocBig(t, size) ==
    LET fits == Fits(t, size)
        k    == CHOOSE i \in fits : \A j \in fits : i <= j
        b    == IF fits # {} THEN Forward(blk, heap[t].head[BigList])[k] ELSE AnyUnmapped
        s    == IF fits # {}
                THEN Unlink([h |-> [heap[t] EXCEPT !.biglrucnt = @ - 1], B |-> blk], BigList, b)
                ELSE [h |-> heap[t], B |-> [blk EXCEPT ![b] = BigBlk(t, BigSize(size))]]
    IN  [b |-> b, off |-> BlkHdr, h |-> s.h,
         B |-> [s.B EXCEPT ![b].shift = {p \in @ : p[1] # BlkHdr}, ![b].prev = 0, ![b].next = 0]]

Malloc(t, size) == IF size <= SmallMax THEN MallocSmall(t, size) ELSE MallocBig(t, size)

\* Is there a block for the request (bound on mappings)?
CanMalloc(t, size) ==
    \/ Unmapped # {}
    \/ size <= SmallMax /\ heap[t].blkfree # 0
    \/ size <= SmallMax /\ heap[t].head[BinNdx(size)] # 0 /\ HasRoom(heap[t].head[BinNdx(size)])
    \/ size > SmallMax /\ Fits(t, size) # {}

\* Fault: a block is given up one chunk too early.
FreeSmallEarly(s, b, off) ==
    LET l == s.B[b].binndx IN
    IF Len(s.B[b].free) + 2 < s.B[b].cnt
    THEN [s EXCEPT !.B[b].free = <<off>> \o @]
    ELSE [Unlink(s, l, b) EXCEPT !.B[b] = NoBlk]

\* nc_free_small: a chunk goes on the free stack and its block to the head
\* of the bin; a block all of whose chunks came back leaves the bin.
FreeSmall(s, b, off) ==
    LET l == s.B[b].binndx IN
    IF Len(s.B[b].free) + 1 < s.B[b].cnt
    THEN LET s1 == [s EXCEPT !.B[b].free = <<off>> \o @]
         IN  IF s1.B[b].prev # 0 THEN PushHead(Unlink(s1, l, b), l, b) ELSE s1
    ELSE LET s1 == Unlink(s, l, b)
         IN  IF s1.h.blkfreecnt < KeepBlk
             THEN [h |-> [s1.h EXCEPT !.blkfree = b, !.blkfreecnt = @ + 1],
                   B |-> [s1.B EXCEPT ![b].next = s1.h.blkfree, ![b].prev = 0, ![b].free = <<>>]]
             ELSE [s1 EXCEPT !.B[b] = NoBlk]

\* Fault: large blocks are kept without a limit.
FreeBigKeepsAll(s, b) ==
    LET s1 == PushHead(s, BigList, b)
    IN  [s1 EXCEPT !.h.biglrucnt = @ + 1,
                   !.h.tail[BigList] = IF s1.h.biglrucnt = 0 THEN b ELSE @]

\* nc_free_big: a large block is kept, and the one not used for longest goes.
FreeBig(s, b) ==
    LET s1   == PushHead(s, BigList, b)
        tail == s1.h.tail[BigList]
        last == s1.B[tail].prev
    IN  IF s1.h.biglrucnt < KeepBig
        THEN [s1 EXCEPT !.h.biglrucnt = @ + 1,
                        !.h.tail[BigList] = IF s1.h.biglrucnt = 0 THEN b ELSE @]
        ELSE [h |-> [s1.h EXCEPT !.tail[BigList] = last],
              B |-> [s1.B EXCEPT ![last].next = 0, ![tail] = NoBlk]]

FreeIn(h, b, off) ==
    LET s == [h |-> heap[h], B |-> blk]
    IN  IF blk[b].small THEN FreeSmall(s, b, off) ELSE FreeBig(s, b)
-----------------------------------------------------------------------------
(* Threads.                                                                 *)

Goto(t, label) == pc' = [pc EXCEPT ![t] = label]
Running == stop = "no"
Halt(why) == stop' = why /\ UNCHANGED <<pc, tid, slot, count, heap, blk, live, arg>>

\* A buffer: its block, the place of the header before it, its length, how
\* far memalign shifted it, and the thread whose thread_info it is (or NULL).
Buffer(b, off, len, shift, use) ==
    [b |-> b, off |-> off, len |-> len, shift |-> shift, use |-> use]

\* init_heap: the first slot that is empty.
InitHeap(t) ==
    /\ Running /\ pc[t] \in {"run", "info"} /\ ~heap[t].mapped
    /\ IF count >= MaxThreads
       THEN Halt("threads")
       ELSE LET i == CHOOSE j \in DOMAIN slot :
                        slot[j] = NULL /\ \A k \in DOMAIN slot : slot[k] = NULL => j <= k
            IN  /\ heap' = [heap EXCEPT ![t] = NewHeap]
                /\ slot' = [slot EXCEPT ![i] = t]
                /\ tid' = [tid EXCEPT ![t] = i]
                /\ count' = count + 1
                /\ UNCHANGED <<pc, blk, live, arg, stop>>

\* The program gets buffer u out of an allocation r.
Got(t, r, u) ==
    /\ heap' = [heap EXCEPT ![t] = r.h]
    /\ blk' = r.B
    /\ live' = live \cup {u}
    /\ UNCHANGED <<tid, slot, count, stop>>

CanAsk(t) == Running /\ pc[t] = "run" /\ heap[t].mapped /\ Cardinality(live) < MaxLive

DoMalloc(t, size) ==
    /\ CanAsk(t) /\ CanMalloc(t, size)
    /\ LET r == Malloc(t, size) IN Got(t, r, Buffer(r.b, r.off, size, 0, NULL))
    /\ UNCHANGED <<pc, arg>>

\* nc_memalign: the header is copied to the place before the aligned buffer,
\* with the shift in both.  A block starts at a page, so what is aligned in
\* it is aligned.
Memalign(t, a, size) ==
    /\ CanAsk(t) /\ CanMalloc(t, a + size)
    /\ LET r     == Malloc(t, a + size)
           p     == r.off + Hdr
           shift == RoundUp(p, a) - p
           r1    == IF shift = 0 THEN r ELSE [r EXCEPT !.B[r.b].shift = @ \cup {<<r.off, shift>>}]
       IN  Got(t, r1, Buffer(r.b, r.off + shift, size, shift, NULL))
    /\ UNCHANGED <<pc, arg>>

\* The alignment field of the header before buffer u.
HdrShift(u) ==
    IF u.shift # 0 THEN u.shift
    ELSE IF \E p \in blk[u.b].shift : p[1] = u.off
         THEN (CHOOSE p \in blk[u.b].shift : p[1] = u.off)[2]
         ELSE 0

\* Fault: the header of the chunk keeps the shift.
UnshiftKeeps(u) == blk

\* The header of its chunk again, as nc_free leaves it.
Unshift(u) == [blk EXCEPT ![u.b].shift = {p \in @ : p[1] # u.off - HdrShift(u)}]

\* nc_free up to the lock: the owner of the block is looked up.
BeginFree(t, u, after) ==
    IF ~blk[u.b].mapped THEN Halt("fault")
    ELSE IF blk[u.b].tid # tid[t] /\ slot[blk[u.b].tid] = NULL THEN Halt("fault")
    ELSE /\ blk' = Unshift(u)
         /\ arg' = [arg EXCEPT ![t] =
                [b |-> u.b, off |-> u.off - HdrShift(u), after |-> after,
                 heap |-> IF blk[u.b].tid = tid[t] THEN t ELSE slot[blk[u.b].tid]]]
         /\ live' = live \ {u}
         /\ Goto(t, "free")
         /\ UNCHANGED <<tid, slot, count, heap, stop>>

Free(t, u) ==
    /\ Running /\ pc[t] = "run" /\ heap[t].mapped /\ u.use = NULL
    /\ BeginFree(t, u, "run")

\* nc_free under the lock.
FreeLocked(t) ==
    /\ Running /\ pc[t] = "free"
    /\ LET a == arg[t] IN
       IF ~heap[a.heap].mapped \/ ~blk[a.b].mapped THEN Halt("fault")
       ELSE /\ ~heap[a.heap].lock
            /\ LET s == FreeIn(a.heap, a.b, a.off)
               IN  heap' = [heap EXCEPT ![a.heap] = s.h] /\ blk' = s.B
            /\ Goto(t, a.after)
            /\ arg' = [arg EXCEPT ![t] = NoArg]
            /\ UNCHANGED <<tid, slot, count, live, stop>>

\* What nc_realloc takes for the size of buffer u.
OldSize(u) == blk[u.b].size - Hdr - (IF blk[u.b].small THEN 0 ELSE BlkHdr)

CanRealloc(t, u) ==
    /\ Running /\ pc[t] = "run" /\ heap[t].mapped /\ u.use = NULL
    /\ u.shift # 0 => "regrow" \in Clients

\* nc_realloc: the buffer stays where it is ...
ReallocInPlace(t, u, size) ==
    /\ CanRealloc(t, u) /\ size # u.len
    /\ IF ~blk[u.b].mapped THEN Halt("fault")
       ELSE /\ size <= OldSize(u)
            /\ live' = (live \ {u}) \cup {[u EXCEPT !.len = size]}
            /\ UNCHANGED <<pc, tid, slot, count, heap, blk, arg, stop>>

\* ... or is copied to a new one and freed.
ReallocMove(t, u, size) ==
    /\ CanRealloc(t, u) /\ blk[u.b].mapped /\ size > OldSize(u)
    /\ CanMalloc(t, size)
    /\ LET r == Malloc(t, size)
       IN  /\ heap' = [heap EXCEPT ![t] = r.h]
           /\ blk' = r.B
           /\ live' = (live \ {u}) \cup {Buffer(r.b, r.off, size, 0, NULL)}
    /\ Goto(t, "drop")
    /\ arg' = [arg EXCEPT ![t] = u]
    /\ UNCHANGED <<tid, slot, count, stop>>

ReallocFree(t) == Running /\ pc[t] = "drop" /\ BeginFree(t, arg[t], "run")

\* pthread_create: the thread_info of u comes from the heap of its creator.
PthreadCreate(t, u) ==
    /\ CanAsk(t) /\ pc[u] = "off" /\ CanMalloc(t, InfoSize)
    /\ LET r == Malloc(t, InfoSize) IN Got(t, r, Buffer(r.b, r.off, InfoSize, 0, u))
    /\ Goto(u, "run")
    /\ UNCHANGED arg

\* Blocks whose buffers thread t gives up, or leaves behind, with its heap.
Heaped(t) == {b \in Blocks : blk[b].mapped /\ blk[b].tid = tid[t]}
Quiet(t) ==
    /\ \A u \in live : u.b \notin Heaped(t)
    /\ \A x \in Threads : arg[x].b \notin Heaped(t)

\* core_deallocate, the destructor of the thread: exit_heap takes the heap
\* out of the table ...
ExitHeap(t) ==
    /\ Running /\ pc[t] = "run" /\ t # Main
    /\ heap[t].mapped /\ "leave" \notin Clients => Quiet(t)
    /\ IF heap[t].mapped
       THEN /\ heap' = [heap EXCEPT ![t].lock = TRUE]
            /\ slot' = [slot EXCEPT ![tid[t]] = NULL]
            /\ tid' = [tid EXCEPT ![t] = -1]
            /\ count' = count - 1
            /\ Goto(t, "unmap")
       ELSE Goto(t, "info") /\ UNCHANGED <<heap, slot, tid, count>>
    /\ UNCHANGED <<blk, live, arg, stop>>

\* ... unmaps the blocks on its lists and the heap itself ...
ExitUnmap(t) ==
    /\ Running /\ pc[t] = "unmap"
    /\ LET gone == UNION {Members(Forward(blk, b)) :
                            b \in {heap[t].head[l] : l \in Lists} \cup {heap[t].blkfree}}
       IN  blk' = [b \in Blocks |-> IF b \in gone THEN NoBlk ELSE blk[b]]
    /\ heap' = [heap EXCEPT ![t] = NoHeap]
    /\ Goto(t, "info")
    /\ UNCHANGED <<tid, slot, count, live, arg, stop>>

\* ... and the thread_info is freed, with the heap that nc_free makes anew.
FreeInfo(t) ==
    /\ Running /\ pc[t] = "info" /\ heap[t].mapped
    /\ \E u \in live : u.use = t /\ BeginFree(t, u, "ended")

Step(t) ==
    \/ InitHeap(t)
    \/ \E s \in Sizes : DoMalloc(t, s)
    \/ \E a \in Aligns, s \in Sizes : Memalign(t, a, s)
    \/ \E u \in live : Free(t, u)
    \/ FreeLocked(t)
    \/ \E u \in live, s \in Sizes : ReallocInPlace(t, u, s)
    \/ \E u \in live, s \in Sizes : ReallocMove(t, u, s)
    \/ ReallocFree(t)
    \/ \E u \in Threads : PthreadCreate(t, u)
    \/ ExitHeap(t) \/ ExitUnmap(t) \/ FreeInfo(t)

Next == \E t \in Threads : Step(t)

Spec == Init /\ [][Next]_vars
-----------------------------------------------------------------------------
TypeOK ==
    /\ pc \in [Threads -> {"off", "run", "free", "drop", "unmap", "info", "ended"}]
    /\ tid \in [Threads -> -1 .. MaxThreads - 1]
    /\ slot \in [0 .. MaxThreads - 1 -> Threads \cup {NULL}]
    /\ count \in 0 .. MaxThreads
    /\ \A t \in Threads : heap[t].mapped =>
          /\ heap[t].head \in [Lists -> 0 .. NBlk]
          /\ heap[t].tail \in [Lists -> 0 .. NBlk]
          /\ heap[t].blkfree \in 0 .. NBlk
          /\ heap[t].blkfreecnt \in 0 .. KeepBlk
          /\ heap[t].biglrucnt \in 0 .. KeepBig
    /\ \A b \in Blocks : blk[b].mapped =>
          /\ blk[b].prev \in 0 .. NBlk /\ blk[b].next \in 0 .. NBlk
          /\ blk[b].restcnt \in 0 .. blk[b].cnt
    /\ \A u \in live : u.b \in Blocks /\ u.off \in Nat /\ u.len \in Nat
    /\ stop \in {"no", "fault", "threads"}

Heaps == {t \in Threads : heap[t].mapped}
Kept(t) == Members(Forward(blk, heap[t].blkfree))
Listed(t, l) == Members(Forward(blk, heap[t].head[l]))

\* Buffers nobody has freed yet: in use, or on their way through realloc.
InUse == live \cup {arg[t] : t \in {x \in Threads : pc[x] = "drop"}}
\* Chunks that free was called for and that are not back yet.
Returning(b) == {t \in Threads : pc[t] = "free" /\ arg[t].b = b}

\* From the header of buffer u to its end.
Meets(lo, hi, u) == lo < u.off + Hdr + u.len /\ u.off < hi

\* No buffer reaches into another one, into the header of a chunk that is free
\* or into the free stack at the end of its block: malloc, memalign, free and
\* realloc hand memory to one user at a time.
BuffersApart ==
    \A u \in InUse :
        /\ u.off >= BlkHdr
        /\ u.off + Hdr + u.len <=
              IF blk[u.b].small THEN BlkSize - Ptr * Freecnt(u.b) ELSE blk[u.b].size
        /\ \A v \in InUse \ {u} : v.b = u.b => ~Meets(v.off, v.off + Hdr + v.len, u)
        /\ \A i \in 1 .. Freecnt(u.b) : ~Meets(blk[u.b].free[i], blk[u.b].free[i] + Hdr, u)

\* The lists of every heap can be walked both ways, give the same blocks, have
\* no block in common, and are as long as the counters of the heap say.
ListsSound ==
    \A t \in Heaps :
        /\ \A l \in Lists :
              LET f == Forward(blk, heap[t].head[l])
                  g == Backward(blk, heap[t].tail[l])
                  n == Cardinality(Members(f))
              IN  /\ \A i \in 0 .. n - 1 : f[i] # 0 /\ g[i] = f[n - 1 - i]
                  /\ n <= NBlk => f[n] = 0 /\ g[n] = 0
                  /\ \A m \in Lists \ {l} : Members(f) \cap Listed(t, m) = {}
                  /\ Members(f) \cap Kept(t) = {}
        /\ heap[t].blkfreecnt = Cardinality(Kept(t))
        /\ heap[t].biglrucnt = Cardinality(Listed(t, BigList))

\* Every chunk is at one place: in the rest of its block, on the free stack, in
\* use or on its way back.  Every block that is mapped can be reached from the
\* heap of its thread, or is a large one in use: nothing is lost.
ChunksAccounted ==
    \A b \in Blocks : blk[b].mapped =>
        LET used == Cardinality({u \in InUse : u.b = b}) + Cardinality(Returning(b))
            mine == {t \in Heaps : b \in Kept(t) \cup UNION {Listed(t, l) : l \in Lists}}
        IN  /\ IF blk[b].small
               THEN Cardinality(mine) = 1
               ELSE Cardinality(mine) + used = 1
            /\ \A t \in mine :
                  /\ pc[t] # "unmap" => blk[b].tid = tid[t]
                  /\ IF b \in Kept(t) \cup Listed(t, BigList) THEN used = 0
                     ELSE /\ blk[b].restcnt + Freecnt(b) + used = blk[b].cnt
                          /\ Freecnt(b) < blk[b].cnt /\ blk[b].restcnt < blk[b].cnt

\* In a bin no block with room stands behind a full one.  nc_malloc_small looks
\* at the first block only: this is why it maps a block only when there is no
\* room in the bin.
RoomFirst ==
    \A t \in Heaps, l \in Bins :
        \A b, c \in Listed(t, l) : blk[b].next = c /\ HasRoom(c) => HasRoom(b)

\* Every heap is in the table under the number of its thread until the thread
\* gives it up, and no thread meets memory that is not mapped: not in a free of
\* another thread's buffer, not while a thread ends and its heap goes, not in
\* the free of the thread_info that comes after.
NoFault ==
    /\ stop # "fault"
    /\ count = Cardinality({i \in DOMAIN slot : slot[i] # NULL})
    /\ \A t \in Heaps : pc[t] # "unmap" => slot[tid[t]] = t
=============================================================================
