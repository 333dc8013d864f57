--------------------------- MODULE NcAllocInvariant -------------------------
(***************************************************************************)
(* The inductive invariant of NcAlloc, IInv, and the words its proof is    *)
(* written in.  The lists of the allocator are described by witnesses that *)
(* the program does not store: own says which list a block is on, kown     *)
(* which heap keeps it, held which of its chunks are in use.               *)
(***************************************************************************)
EXTENDS NcAlloc

(* The lists: every fact is about a block and its neighbours; ranks that   *)
(* grow along a list exclude cycles.                                       *)

\* A list is named by its heap and its index; NoList names none.
Ids == Threads \X Lists
NoList == <<NULL, BigList>>

\* A reference to a block; 0 is the null pointer.
Refs == 0 .. NBlk

\* Heads, tails and links; own is the list a block is on, r its rank.
DLTypes(hd, tl, nx, pv, own, r) ==
    /\ hd \in [Ids -> Refs] /\ tl \in [Ids -> Refs]
    /\ nx \in [Blocks -> Refs] /\ pv \in [Blocks -> Refs]
    /\ own \in [Blocks -> Ids \cup {NoList}]
    /\ r \in [Blocks -> Nat]

\* The first and the last block of a list are on it.
DLEnds(hd, tl, own) ==
    \A z \in Ids :
        /\ hd[z] = 0 <=> tl[z] = 0
        /\ hd[z] # 0 => own[hd[z]] = z
        /\ tl[z] # 0 => own[tl[z]] = z

\* A block and its neighbours point at each other.
DLNode(hd, tl, nx, pv, own, r, b) ==
    /\ pv[b] = 0 <=> hd[own[b]] = b
    /\ nx[b] = 0 <=> tl[own[b]] = b
    /\ pv[b] # 0 => own[pv[b]] = own[b] /\ nx[pv[b]] = b /\ r[pv[b]] < r[b]
    /\ nx[b] # 0 => own[nx[b]] = own[b] /\ pv[nx[b]] = b

\* The doubly linked lists.
DL(hd, tl, nx, pv, own, r) ==
    /\ DLTypes(hd, tl, nx, pv, own, r)
    /\ DLEnds(hd, tl, own)
    /\ \A b \in Blocks : own[b] # NoList => DLNode(hd, tl, nx, pv, own, r, b)

\* In a list no block with room (a member of RM) stands behind a full one.
RoomBefore(nx, own, RM) ==
    \A b \in Blocks : own[b] # NoList /\ nx[b] # 0 /\ nx[b] \in RM => b \in RM

\* The stacks of blocks kept for later use, linked by next only.
SLTypes(kp, nx, kown, q) ==
    /\ kp \in [Threads -> Refs] /\ nx \in [Blocks -> Refs]
    /\ kown \in [Blocks -> Threads \cup {NULL}] /\ q \in [Blocks -> Nat]

\* A kept block is the first of its stack or follows one other block.
SLNode(kp, nx, kown, q, b) ==
    /\ nx[b] # 0 => kown[nx[b]] = kown[b] /\ q[b] < q[nx[b]] /\ nx[b] # kp[kown[b]]
    /\ \A c \in Blocks : kown[c] # NULL /\ nx[c] = nx[b] /\ nx[b] # 0 => c = b
    /\ kp[kown[b]] # b => \E c \in Blocks : kown[c] = kown[b] /\ nx[c] = b

SL(kp, nx, kown, q) ==
    /\ SLTypes(kp, nx, kown, q)
    /\ \A t \in Threads : kp[t] # 0 => kown[kp[t]] = t
    /\ \A b \in Blocks : kown[b] # NULL => SLNode(kp, nx, kown, q, b)

\* The heaps and blocks that are mapped.
HeapRec ==
    [mapped : {TRUE}, lock : BOOLEAN, blkfree : Refs, blkfreecnt : Nat, biglrucnt : Nat,
     head : [Lists -> Refs], tail : [Lists -> Refs]]

BlkRec ==
    [mapped : {TRUE}, small : BOOLEAN, tid : 0 .. MaxThreads - 1, binndx : Lists, size : Nat,
     cnt : Nat, restcnt : Nat, rest : Nat, free : Seq(Nat), shift : SUBSET (Nat \X Nat),
     prev : Refs, next : Refs]

HeapsType == [Threads -> HeapRec \cup {NoHeap}]
BlksType == [Blocks -> BlkRec \cup {NoBlk}]

\* The heads, tails, stacks and links, read from the records.
Hd(H) == [z \in Ids |-> IF H[z[1]] = NoHeap THEN 0 ELSE H[z[1]].head[z[2]]]
Tl(H) == [z \in Ids |-> IF H[z[1]] = NoHeap THEN 0 ELSE H[z[1]].tail[z[2]]]
Kp(H) == [t \in Threads |-> IF H[t] = NoHeap THEN 0 ELSE H[t].blkfree]
Nx(B) == [b \in Blocks |-> IF B[b] = NoBlk THEN 0 ELSE B[b].next]
Pv(B) == [b \in Blocks |-> IF B[b] = NoBlk THEN 0 ELSE B[b].prev]

\* The lists that the records hold.
Links(H, B, own, r) ==
    /\ H \in HeapsType /\ B \in BlksType
    /\ DL(Hd(H), Tl(H), Nx(B), Pv(B), own, r)
    /\ \A c \in Blocks : own[c] # NoList => B[c] # NoBlk

\* The blocks on a list, and those that a heap keeps.
BlocksOn(own, z) == {b \in Blocks : own[b] = z}
KeptBy(kown, t) == {b \in Blocks : kown[b] = t}

\* Listed and kept blocks are mapped, and so is the heap that holds them.
Placed(H, B, own, kown) ==
    \A c \in Blocks :
        /\ own[c] # NoList => H[own[c][1]] # NoHeap
        /\ kown[c] # NULL => own[c] = NoList /\ B[c] # NoBlk /\ H[kown[c]] # NoHeap

\* The lists, the stacks and the order of the bins together.
ShapeBy(H, B, own, kown, RM, r, q) ==
    /\ Links(H, B, own, r)
    /\ SL(Kp(H), Nx(B), kown, q)
    /\ RoomBefore(Nx(B), own, RM)
    /\ Placed(H, B, own, kown)

\* There are ranks for the lists and for the stacks.
Shape(H, B, own, kown, RM) == \E r, q : ShapeBy(H, B, own, kown, RM, r, q)

\* Block c is on a list or on the stack of the heap of t.
InHeap(own, kown, t, c) == kown[c] = t \/ (own[c] # NoList /\ own[c][1] = t)

\* Two chunks of n bytes that do not meet.
Off(o, p, n) == o + n <= p \/ p + n <= o

\* The requests that nc_malloc_small serves.
SmallRequests == {s \in Requests : s <= SmallMax}

\* A block of a bin whose chunks hs are in use or on their way back.
ChunksIn(x, hs) ==
    /\ \A o \in hs : o >= BlkHdr /\ o + x.size <= x.rest
    /\ \A i \in 1 .. Len(x.free) : x.free[i] >= BlkHdr /\ x.free[i] + x.size <= x.rest

\* No two chunks of the block meet, in use or free.
ChunksOff(x, hs) ==
    /\ \A o, p \in hs : o = p \/ Off(o, p, x.size)
    /\ \A o \in hs : \A i \in 1 .. Len(x.free) : Off(o, x.free[i], x.size)
    /\ \A i, j \in 1 .. Len(x.free) : i = j \/ Off(x.free[i], x.free[j], x.size)

\* A block of a bin: its chunks in use, free and never used yet make up cnt,
\* and leave room for the array of free chunks at its end.
SmallOK(x, hs) ==
    /\ \A s \in SmallRequests : BinNdx(s) = x.binndx => BinSize(s) = x.size
    /\ x.size >= Hdr /\ x.rest >= BlkHdr
    /\ x.restcnt < x.cnt /\ Len(x.free) < x.cnt
    /\ IsFiniteSet(hs) /\ x.restcnt + Len(x.free) + Cardinality(hs) = x.cnt
    /\ x.rest + x.restcnt * x.size + Ptr * x.cnt <= BlkSize
    /\ ChunksIn(x, hs) /\ ChunksOff(x, hs)

\* Block x on list o or on the stack of thread k; hs are its chunks in use.
BlockOK(x, o, k, hs) ==
    /\ x = NoBlk => o = NoList /\ k = NULL /\ hs = {}
    /\ x # NoBlk =>
          /\ x.restcnt <= x.cnt
          /\ x.binndx = BigList => x.restcnt = 0 /\ x.free = <<>> /\ x.cnt = 1 /\ k = NULL
          /\ x.binndx # BigList => o # NoList \/ k # NULL
          /\ o # NoList => x.binndx = o[2] /\ k = NULL
          /\ o # NoList /\ x.binndx = BigList => hs = {}
          /\ o # NoList /\ x.binndx # BigList => SmallOK(x, hs)
          /\ k # NULL => hs = {}
          /\ o = NoList /\ k = NULL => hs = {BlkHdr}

\* Large blocks are those of no bin.
KindOK(x) ==
    x # NoBlk => (x.small = TRUE /\ x.binndx # BigList) \/ (x.small = FALSE /\ x.binndx = BigList)

\* The blocks with room.
Rm(B) == {b \in Blocks : B[b] # NoBlk /\ B[b].restcnt + Len(B[b].free) > 0}

\* The counters of a heap count its kept blocks and its large free ones.
CountOK(h, own, kown, t) ==
    /\ h.blkfreecnt = Cardinality(KeptBy(kown, t))
    /\ h.biglrucnt = Cardinality(BlocksOn(own, <<t, BigList>>))

\* The memory: heaps H and blocks B, the lists and stacks the blocks are on, and
\* the chunks held of each block.
Mem(H, B, own, kown, held) ==
    /\ Shape(H, B, own, kown, Rm(B))
    /\ \A t \in Threads : H[t] # NoHeap => CountOK(H[t], own, kown, t)
    /\ held \in [Blocks -> SUBSET Nat]
    /\ \A c \in Blocks : BlockOK(B[c], own[c], kown[c], held[c]) /\ KindOK(B[c])

\* The blocks of the heap of t have its number.
TidOK(B, own, kown, t) ==
    \A c \in Blocks : (own[c] # NoList /\ own[c][1] = t) \/ kown[c] = t => B[c].tid = tid[t]

\* The chunk of a buffer.
Loc(u) == <<u.b, u.off - u.shift>>

\* The buffers of the program.
BufRec == [b : Blocks, off : Nat, len : Nat, shift : Nat, use : Threads \cup {NULL}]

\* The places, and that they are in use.
Holds(L, D, W, held) ==
    /\ \A u \in L : u \in BufRec /\ u.off - u.shift \in held[u.b]
    /\ \A t \in D : W[t] \in Blocks \X Nat /\ W[t][2] \in held[W[t][1]]

\* Nobody has what somebody else has.
Apart(L, D, W) ==
    /\ \A u, v \in L : Loc(u) = Loc(v) => u = v
    /\ \A s, t \in D : W[s] = W[t] => s = t
    /\ \A u \in L, t \in D : Loc(u) # W[t]

\* Every chunk in use is somebody's.
Covers(L, D, W, held) ==
    \A b \in Blocks : \A o \in held[b] : (\E u \in L : Loc(u) = <<b, o>>) \/ (\E t \in D : W[t] = <<b, o>>)

\* The chunks held are those of the buffers L and those that the threads D are
\* about to give back, thread t the chunk W[t].
Claim(L, D, W, held) == Holds(L, D, W, held) /\ Apart(L, D, W) /\ Covers(L, D, W, held)

\* The threads within nc_free, and the chunk each is about to give back.
Busy == {t \in Threads : pc[t] \in {"drop", "free"}}
Cells == [t \in Threads |-> IF pc[t] = "free" THEN <<arg[t].b, arg[t].off>> ELSE Loc(arg[t])]

\* Buffer u in block x: a chunk holds its shift, its header and its bytes.
BufFits(u, x) ==
    /\ x.binndx # BigList => u.shift + Hdr + u.len <= x.size
    /\ x.binndx = BigList => u.off + Hdr + u.len <= x.size

\* Every buffer in use fits.
Fitting(U, B) == \A u \in U : BufFits(u, B[u.b])

\* A header with a shift is that of a buffer that is shifted.
Shifts(U, B) ==
    \A b \in Blocks : B[b] # NoBlk =>
        \A p \in B[b].shift : \E v \in U : v.b = b /\ v.off - v.shift = p[1] /\ v.shift # 0

\* Where a thread can be, and the numbers of heaps.
Labels == {"off", "run", "free", "drop", "unmap", "info", "ended"}
Nums == 0 .. MaxThreads - 1

\* Types of what the records of heaps and blocks leave open.
Types ==
    /\ pc \in [Threads -> Labels]
    /\ tid \in [Threads -> -1 .. MaxThreads - 1]
    /\ slot \in [Nums -> Threads \cup {NULL}]
    /\ arg = [t \in Threads |-> arg[t]]
    /\ stop \in {"no", "threads"}

\* The table holds the heaps that are mapped, each under its number.
Table ==
    /\ \A t \in Threads : heap[t] # NoHeap /\ pc[t] # "unmap" => tid[t] \in Nums /\ slot[tid[t]] = t
    /\ \A i \in Nums : slot[i] # NULL => heap[slot[i]] # NoHeap /\ pc[slot[i]] # "unmap" /\ tid[slot[i]] = i
    /\ count = Cardinality({i \in Nums : slot[i] # NULL})
    /\ \A t \in Threads : pc[t] \in {"unmap", "drop", "free"} => heap[t] # NoHeap

\* No heap keeps more blocks than the thresholds allow.
Limits ==
    \A t \in Threads : heap[t] # NoHeap => heap[t].blkfreecnt <= KeepBlk /\ heap[t].biglrucnt <= KeepBig

\* What the threads are about to free.
Args ==
    \A t \in Threads :
        /\ pc[t] = "drop" => arg[t] \in BufRec
        /\ pc[t] = "free" => arg[t].after \in {"run", "ended"} /\ arg[t].heap = slot[blk[arg[t].b].tid]

\* Blocks carry the number of their heap; a heap that is given up holds no
\* chunk in use, and every chunk in use is in a block whose heap is in the table.
Place(own, kown, held) ==
    /\ \A t \in Threads : pc[t] # "unmap" => TidOK(blk, own, kown, t)
    /\ \A t \in Threads, c \in Blocks : pc[t] = "unmap" /\ InHeap(own, kown, t, c) => held[c] = {}
    /\ \A c \in Blocks : held[c] # {} => slot[blk[c].tid] # NULL

\* The witnesses fit the state.
Sound(own, kown, held) ==
    Mem(heap, blk, own, kown, held) /\ Place(own, kown, held) /\ Claim(live, Busy, Cells, held)

\* The inductive invariant.
IInv ==
    /\ Types /\ Table /\ Limits /\ Args
    /\ Fitting(InUse, blk) /\ Shifts(InUse, blk)
    /\ \E own, kown, held : Sound(own, kown, held)

-----------------------------------------------------------------------------
(* What an operation leaves, for the proof that it keeps the invariant:    *)
(* the lists, the block and the heap after it, in terms of those before.   *)

\* The links, heads and tails after a block is taken out of its list.
TakenOut(hd, tl, nx, pv, own, b, hd2, tl2, nx2, pv2) ==
    /\ hd2 = [hd EXCEPT ![own[b]] = IF pv[b] = 0 THEN nx[b] ELSE @]
    /\ tl2 = [tl EXCEPT ![own[b]] = IF nx[b] = 0 THEN pv[b] ELSE @]
    /\ nx2 \in [Blocks -> Refs] /\ pv2 \in [Blocks -> Refs]
    /\ \A c \in Blocks : c # b /\ own[c] # NoList =>
          /\ nx2[c] = IF c = pv[b] THEN nx[b] ELSE nx[c]
          /\ pv2[c] = IF c = nx[b] THEN pv[b] ELSE pv[c]

\* The links, heads and tails after block b is put before list z.
PutFirst(hd, tl, nx, pv, own, b, z, hd2, tl2, nx2, pv2) ==
    /\ hd2 = [hd EXCEPT ![z] = b]
    /\ tl2 = [tl EXCEPT ![z] = IF @ = 0 THEN b ELSE @]
    /\ nx2 \in [Blocks -> Refs] /\ pv2 \in [Blocks -> Refs]
    /\ nx2[b] = hd[z] /\ pv2[b] = 0
    /\ \A c \in Blocks : own[c] # NoList =>
          nx2[c] = nx[c] /\ pv2[c] = IF c = hd[z] THEN b ELSE pv[c]

RankFirst(r, b) == [c \in Blocks |-> IF c = b THEN 0 ELSE r[c] + 1]

\* The links and tails after block b is put behind list z.
PutLast(hd, tl, nx, pv, own, b, z, tl2, nx2, pv2) ==
    /\ tl2 = [tl EXCEPT ![z] = b]
    /\ nx2 \in [Blocks -> Refs] /\ pv2 \in [Blocks -> Refs]
    /\ nx2[b] = 0 /\ pv2[b] = tl[z]
    /\ \A c \in Blocks : own[c] # NoList =>
          pv2[c] = pv[c] /\ nx2[c] = IF c = tl[z] THEN b ELSE nx[c]

RankLast(r, b, c) == [r EXCEPT ![b] = r[c] + 1]

\* Dropping all blocks of some lists, and what the others keep.
Dropped(D, hd, tl, nx, pv, own, hd2, tl2, nx2, pv2, own2) ==
    /\ hd2 \in [Ids -> Refs] /\ tl2 \in [Ids -> Refs]
    /\ nx2 \in [Blocks -> Refs] /\ pv2 \in [Blocks -> Refs]
    /\ own2 \in [Blocks -> Ids \cup {NoList}]
    /\ \A z \in Ids : /\ z \in D => hd2[z] = 0 /\ tl2[z] = 0
                      /\ z \notin D => hd2[z] = hd[z] /\ tl2[z] = tl[z]
    /\ \A c \in Blocks : own2[c] = IF own[c] \in D THEN NoList ELSE own[c]
    /\ \A c \in Blocks : own2[c] # NoList => nx2[c] = nx[c] /\ pv2[c] = pv[c]

SameBut(RM, RM2, b) == \A c \in Blocks : c # b => (c \in RM2 <=> c \in RM)

\* f follows the links g from b on, and stays at 0.
Steps(S, g, b, f, n) ==
    /\ f \in [0 .. n -> S \cup {0}]
    /\ f[0] = b
    /\ \A k \in 1 .. n : f[k] = IF f[k - 1] = 0 THEN 0 ELSE g[f[k - 1]]

\* The blocks S are linked by g, the first one is h.
Chain(S, g, h, r) ==
    /\ S \subseteq Blocks
    /\ g \in [S -> S \cup {0}] /\ h \in S \cup {0} /\ r \in [S -> Nat]
    /\ \A c \in S : g[c] # 0 => r[c] < r[g[c]]
    /\ \A c \in S : c # h => \E d \in S : g[d] = c

\* What a walk along a chain of m blocks meets.
Walked(S, f, m) ==
    /\ f \in [0 .. NBlk -> S \cup {0}]
    /\ m \in 0 .. NBlk
    /\ \A k \in 0 .. m - 1 : f[k] \in S
    /\ \A k \in m .. NBlk : f[k] = 0
    /\ \A i, j \in 0 .. m - 1 : f[i] = f[j] => i = j
    /\ \A c \in S : \E k \in 0 .. m - 1 : f[k] = c

\* Two blocks that differ in their links at most.
Same(x, y) ==
    /\ (x = NoBlk) <=> (y = NoBlk)
    /\ x.small = y.small /\ x.tid = y.tid /\ x.binndx = y.binndx
    /\ x.size = y.size /\ x.cnt = y.cnt /\ x.restcnt = y.restcnt /\ x.rest = y.rest
    /\ x.free = y.free /\ x.shift = y.shift

\* Two heaps that differ in their lists at most.
SameHeap(g, h) ==
    g.lock = h.lock /\ g.blkfree = h.blkfree /\ g.blkfreecnt = h.blkfreecnt /\ g.biglrucnt = h.biglrucnt

\* The blocks J are the blocks B with p and n as neighbours.
Joined(B, p, n, J) ==
    /\ J \in BlksType
    /\ \A c \in Blocks :
          /\ Same(J[c], B[c])
          /\ Nx(J)[c] = IF c = p THEN n ELSE Nx(B)[c]
          /\ Pv(J)[c] = IF c = n THEN p ELSE Pv(B)[c]

\* Changing the heap of one thread, with the head and tail of one list.
HeapUpdated(H, t, l, h2, hv, tv) ==
    /\ [H EXCEPT ![t] = h2] \in HeapsType
    /\ Hd([H EXCEPT ![t] = h2]) = [Hd(H) EXCEPT ![<<t, l>>] = hv]
    /\ Tl([H EXCEPT ![t] = h2]) = [Tl(H) EXCEPT ![<<t, l>>] = tv]
    /\ Kp([H EXCEPT ![t] = h2]) = [Kp(H) EXCEPT ![t] = h2.blkfree]
    /\ Hd(H)[<<t, l>>] = H[t].head[l] /\ Tl(H)[<<t, l>>] = H[t].tail[l] /\ <<t, l>> \in Ids

\* What a step on the lists leaves alone.
OnlyLinks(h, B, h2, B2) ==
    /\ h2 \in HeapRec /\ SameHeap(h2, h)
    /\ \A c \in Blocks : Same(B2[c], B[c])

\* A block on a list, its neighbours and the ends of the list.
Node(H, B, own, r, t, l, b) ==
    /\ B[b] \in BlkRec /\ B[b] # NoBlk /\ own[b] # NoList /\ <<t, l>> \in Ids
    /\ Nx(B)[b] = B[b].next /\ Pv(B)[b] = B[b].prev /\ B[b].next \in Refs /\ B[b].prev \in Refs
    /\ DLNode(Hd(H), Tl(H), Nx(B), Pv(B), own, r, b)
    /\ B[b].prev # 0 => B[b].prev \in Blocks /\ own[B[b].prev] = own[b] /\ B[B[b].prev] # NoBlk
    /\ B[b].next # 0 => B[b].next \in Blocks /\ own[B[b].next] = own[b] /\ B[B[b].next] # NoBlk
    /\ B[b].prev # b /\ B[b].next # b /\ (B[b].prev = B[b].next => B[b].prev = 0)
    /\ B[b].prev = 0 <=> H[t].head[l] = b
    /\ B[b].next = 0 <=> H[t].tail[l] = b

UnlinkedBy(H, B, own, r, t, l, b, h2, B2) ==
    /\ OnlyLinks(H[t], B, h2, B2)
    /\ Links([H EXCEPT ![t] = h2], B2, [own EXCEPT ![b] = NoList], r)
    /\ TakenOut(Hd(H), Tl(H), Nx(B), Pv(B), own, b,
                Hd([H EXCEPT ![t] = h2]), Tl([H EXCEPT ![t] = h2]), Nx(B2), Pv(B2))
    /\ \A c \in Blocks : own[c] = NoList => Nx(B2)[c] = Nx(B)[c]
    /\ h2.head = [H[t].head EXCEPT ![l] = IF B[b].prev = 0 THEN B[b].next ELSE @]
    /\ h2.tail = [H[t].tail EXCEPT ![l] = IF B[b].next = 0 THEN B[b].prev ELSE @]

\* The ends of a list.
Ends(H, own, t, l) ==
    /\ <<t, l>> \in Ids /\ H[t] \in HeapRec
    /\ H[t].head \in [Lists -> Refs] /\ H[t].tail \in [Lists -> Refs]
    /\ Hd(H)[<<t, l>>] = H[t].head[l] /\ Tl(H)[<<t, l>>] = H[t].tail[l]
    /\ H[t].head[l] \in Refs /\ H[t].tail[l] \in Refs
    /\ H[t].head[l] = 0 <=> H[t].tail[l] = 0
    /\ H[t].head[l] # 0 => H[t].head[l] \in Blocks /\ own[H[t].head[l]] = <<t, l>>
    /\ H[t].tail[l] # 0 => H[t].tail[l] \in Blocks /\ own[H[t].tail[l]] = <<t, l>>

FirstB(B, b, n) == [Join(B, b, n) EXCEPT ![b].prev = 0]
LastB(B, b, p) == [Join(B, p, b) EXCEPT ![b].next = 0]

IsFirstB(B, b, n, F) ==
    /\ F \in BlksType
    /\ \A c \in Blocks :
          /\ Same(F[c], B[c])
          /\ Nx(F)[c] = IF c = b THEN n ELSE Nx(B)[c]
          /\ Pv(F)[c] = IF c = b THEN 0 ELSE IF c = n THEN b ELSE Pv(B)[c]

IsLastB(B, b, p, F) ==
    /\ F \in BlksType
    /\ \A c \in Blocks :
          /\ Same(F[c], B[c])
          /\ Pv(F)[c] = IF c = b THEN p ELSE Pv(B)[c]
          /\ Nx(F)[c] = IF c = b THEN 0 ELSE IF c = p THEN b ELSE Nx(B)[c]

PutFirstBy(H, B, own, r, t, l, b, h2, B2) ==
    /\ \A c \in Blocks : Same(B2[c], B[c])
    /\ Links([H EXCEPT ![t] = h2], B2, [own EXCEPT ![b] = <<t, l>>], RankFirst(r, b))
    /\ PutFirst(Hd(H), Tl(H), Nx(B), Pv(B), own, b, <<t, l>>,
                Hd([H EXCEPT ![t] = h2]), Tl([H EXCEPT ![t] = h2]), Nx(B2), Pv(B2))
    /\ \A c \in Blocks : c # b /\ own[c] = NoList => Nx(B2)[c] = Nx(B)[c]

PutLastBy(H, B, own, r, t, l, b, h2, B2) ==
    /\ \A c \in Blocks : Same(B2[c], B[c])
    /\ Links([H EXCEPT ![t] = h2], B2, [own EXCEPT ![b] = <<t, l>>], RankLast(r, b, H[t].tail[l]))
    /\ PutLast(Hd(H), Tl(H), Nx(B), Pv(B), own, b, <<t, l>>, Tl([H EXCEPT ![t] = h2]), Nx(B2), Pv(B2))
    /\ \A c \in Blocks : c # b /\ own[c] = NoList => Nx(B2)[c] = Nx(B)[c]

\* The walk g is the walk f backwards.
Mirrored(f, g, m) ==
    /\ \A i \in 0 .. m - 1 : g[i] = f[m - 1 - i]
    /\ \A i \in m .. NBlk : g[i] = 0

\* The sets that own and kown map to.
ShapeTypes(H, B, own, kown) ==
    /\ H \in HeapsType /\ B \in BlksType
    /\ own \in [Blocks -> Ids \cup {NoList}] /\ kown \in [Blocks -> Threads \cup {NULL}]

\* Taking a block out of its list.
Unlinked(H, B, own, kown, RM2, t, l, b, h2, B2) ==
    /\ OnlyLinks(H[t], B, h2, B2)
    /\ Shape([H EXCEPT ![t] = h2], B2, [own EXCEPT ![b] = NoList], kown, RM2)
    /\ h2.head = [H[t].head EXCEPT ![l] = IF B[b].prev = 0 THEN B[b].next ELSE @]
    /\ h2.tail = [H[t].tail EXCEPT ![l] = IF B[b].next = 0 THEN B[b].prev ELSE @]

\* Putting a block before or behind a list.
PutIn(H, B, own, kown, RM2, t, l, b, h2, B2) ==
    /\ Shape([H EXCEPT ![t] = h2], B2, [own EXCEPT ![b] = <<t, l>>], kown, RM2)
    /\ \A c \in Blocks : Same(B2[c], B[c])

\* The blocks of G, those of the heap of t, are gone.
Dropping(H, B, own, kown, t, G, H2, B2, own2, kown2) ==
    /\ H2 = [H EXCEPT ![t] = NoHeap]
    /\ \A c \in Blocks : c \in G <=> InHeap(own, kown, t, c)
    /\ B2 = [c \in Blocks |-> IF c \in G THEN NoBlk ELSE B[c]]
    /\ own2 = [c \in Blocks |-> IF c \in G THEN NoList ELSE own[c]]
    /\ kown2 = [c \in Blocks |-> IF c \in G THEN NULL ELSE kown[c]]

\* A block after a chunk was taken, and the chunk.
Taken(x, n) ==
    IF x.restcnt > 0
    THEN [x EXCEPT !.restcnt = x.restcnt - 1, !.rest = x.rest + n, !.shift = {p \in x.shift : p[1] # x.rest}]
    ELSE [x EXCEPT !.free = Tail(x.free)]

TakenOff(x) == IF x.restcnt > 0 THEN x.rest ELSE Head(x.free)

\* What does not change when a chunk is taken or put back.
SameBlk(y, x) ==
    y.small = x.small /\ y.tid = x.tid /\ y.binndx = x.binndx /\ y.size = x.size /\ y.cnt = x.cnt

TakenFrom(x, y) ==
    /\ y \in BlkRec /\ SameBlk(y, x) /\ y.next = x.next /\ y.prev = x.prev
    /\ IF x.restcnt > 0
       THEN /\ y.restcnt = x.restcnt - 1 /\ y.rest = x.rest + x.size /\ y.free = x.free
            /\ y.shift = {p \in x.shift : p[1] # x.rest}
       ELSE y.restcnt = x.restcnt /\ y.rest = x.rest /\ y.free = Tail(x.free) /\ y.shift = x.shift

\* A chunk that was taken is one that nobody had.
TookChunk(x, y, o, hs) ==
    /\ o \in Nat /\ o >= BlkHdr /\ o \notin hs /\ SmallOK(y, hs \cup {o})
    /\ y.shift \subseteq x.shift
    /\ x.restcnt > 0 => \A p \in y.shift : p[1] # o

\* A chunk that comes back.
PutOn(x, y, o) == y = [x EXCEPT !.free = <<o>> \o x.free]

\* The first chunk of a block that was just set up.
NewSmall(y, t, s) ==
    /\ y \in BlkRec /\ SmallOK(y, {BlkHdr}) /\ y.restcnt + Len(y.free) > 0 /\ y.shift = {}
    /\ y.tid = tid[t] /\ y.binndx = BinNdx(s) /\ y.size = BinSize(s) /\ y.small = TRUE

\* All blocks but b stay as they are, up to their links.
Others(B, own, kown, B2, own2, kown2, b) ==
    \A c \in Blocks : c # b => Same(B2[c], B[c]) /\ own2[c] = own[c] /\ kown2[c] = kown[c]

\* A block goes from one place of the heap of t to another.
PlaceOf(o, k, t) == (o = NoList \/ o[1] = t) /\ k \in {NULL, t}
HeapEnds(g, h, hd, tl) == g \in HeapRec /\ SameHeap(g, h) /\ g.head = hd /\ g.tail = tl

\* A block that changed its place in its list.
Moved(H, B, own, kown, RM2, t, h2, B2) ==
    /\ Shape([H EXCEPT ![t] = h2], B2, own, kown, RM2)
    /\ h2 \in HeapRec /\ SameHeap(h2, H[t])
    /\ \A c \in Blocks : Same(B2[c], B[c])

\* The bounds of the counters and the lock, which an allocation leaves alone.
CountsDown(h2, h) ==
    h2 \in HeapRec /\ h2.lock = h.lock /\ h2.blkfreecnt <= h.blkfreecnt /\ h2.biglrucnt <= h.biglrucnt

\* What an allocation of size bytes by thread t gives: chunk off of block b.
AllocPlace(H, B, own, kown, held, t, b, off, h2, B2) ==
    \E own2, kown2 :
        /\ Mem([H EXCEPT ![t] = h2], B2, own2, kown2, [held EXCEPT ![b] = held[b] \cup {off}])
        /\ Others(B, own, kown, B2, own2, kown2, b)
        /\ PlaceOf(own2[b], kown2[b], t)

AllocBlk(x, y, hs, size, off) ==
    /\ y \in BlkRec
    /\ y.shift \subseteq (IF x = NoBlk THEN {} ELSE x.shift)
    /\ hs # {} => x # NoBlk /\ y.size = x.size /\ y.binndx = x.binndx /\ y.tid = x.tid
    /\ y.binndx # BigList => size + Hdr <= y.size
    /\ y.binndx = BigList => off + Hdr + size <= y.size

Alloc(H, B, own, kown, held, t, size, b, off, h2, B2) ==
    /\ b \in Blocks /\ off \in Nat /\ off >= BlkHdr /\ off \notin held[b]
    /\ AllocPlace(H, B, own, kown, held, t, b, off, h2, B2)
    /\ AllocBlk(B[b], B2[b], held[b], size, off) /\ B2[b].tid = tid[t]
    /\ CountsDown(h2, H[t])

\* The heap after its stack was popped, if there is a block on it.
PoppedHeap(h, B) ==
    IF h.blkfree # 0 THEN [h EXCEPT !.blkfree = B[h.blkfree].next, !.blkfreecnt = @ - 1] ELSE h

Popped(H, B, own, kown, t, b, h1) ==
    /\ b \in Blocks /\ own[b] = NoList /\ kown[b] \in {NULL, t}
    /\ h1 \in HeapRec /\ h1.head = H[t].head /\ h1.tail = H[t].tail /\ h1.lock = H[t].lock
    /\ h1.biglrucnt = H[t].biglrucnt
    /\ h1.blkfreecnt = H[t].blkfreecnt - (IF kown[b] = t THEN 1 ELSE 0) /\ h1.blkfreecnt <= H[t].blkfreecnt
    /\ Shape([H EXCEPT ![t] = h1], B, own, [kown EXCEPT ![b] = NULL], Rm(B))

\* The header of a large block that is handed out.
BigCleared(x) == [x EXCEPT !.shift = {p \in x.shift : p[1] # BlkHdr}, !.prev = 0, !.next = 0]

\* A block of which a chunk came back: what the program can tell from it.
Stays(y, x) == y # NoBlk /\ y.tid = x.tid /\ y.size = x.size /\ y.binndx = x.binndx /\ y.shift = x.shift

\* The blocks after a chunk of block b came back to the heap of t.
Freed(B, own, kown, held, B2, own2, kown2, t, b) ==
    \A c \in Blocks :
        \/ B2[c] = NoBlk /\ own2[c] = NoList /\ kown2[c] = NULL /\ (c = b \/ held[c] = {})
        \/ c # b /\ Same(B2[c], B[c]) /\ own2[c] = own[c] /\ kown2[c] = kown[c]
        \/ c = b /\ Stays(B2[c], B[c]) /\ PlaceOf(own2[c], kown2[c], t)

BackPlace(H, B, own, kown, held, t, b, off, h2, B2) ==
    \E own2, kown2 :
        /\ Mem([H EXCEPT ![t] = h2], B2, own2, kown2, [held EXCEPT ![b] = held[b] \ {off}])
        /\ Freed(B, own, kown, held, B2, own2, kown2, t, b)

\* The limits of the counters, and the lock.
CountsIn(h2, h) ==
    /\ h2 \in HeapRec /\ h2.lock = h.lock
    /\ h.blkfreecnt <= KeepBlk => h2.blkfreecnt <= KeepBlk
    /\ h.biglrucnt <= KeepBig => h2.biglrucnt <= KeepBig

Back(H, B, own, kown, held, t, b, off, h2, B2) ==
    BackPlace(H, B, own, kown, held, t, b, off, h2, B2) /\ CountsIn(h2, H[t])

\* The block as it is kept for later use.
KeptBlk(x, n) == [x EXCEPT !.next = n, !.prev = 0, !.free = <<>>]

\* A block all of whose chunks came back, and that was taken out of its bin.
EmptyOut(H, B, own, kown, held, t, l, b, off, h1, B1) ==
    /\ Shape([H EXCEPT ![t] = h1], B1, [own EXCEPT ![b] = NoList], kown, Rm(B))
    /\ h1 \in HeapRec /\ SameHeap(h1, H[t]) /\ \A c \in Blocks : Same(B1[c], B[c])
    /\ held[b] = {off} /\ kown[b] = NULL /\ PlaceOf(own[b], kown[b], t)
    /\ B[b] \in BlkRec /\ B[b] # NoBlk /\ B[b].binndx = l /\ B1[b] \in BlkRec

\* A large block comes back: it is the first of the list.
BigIn(H, B, own, kown, held, t, b, h2, B2) ==
    /\ Mem([H EXCEPT ![t] = h2], B2, [own EXCEPT ![b] = <<t, BigList>>], kown, [held EXCEPT ![b] = {}])
    /\ \A c \in Blocks : Same(B2[c], B[c])
    /\ kown[b] = NULL /\ own[b] = NoList

\* The last of the large blocks is unmapped.
LastGone(H, B, own, kown, held, t, d, h2, B2) ==
    /\ Mem([H EXCEPT ![t] = h2], B2, [own EXCEPT ![d] = NoList], kown, [held EXCEPT ![d] = {}])
    /\ Others(B, own, kown, B2, [own EXCEPT ![d] = NoList], kown, d)
    /\ d \in Blocks /\ B2[d] = NoBlk /\ kown[d] = NULL /\ held[d] = {}

LastOut(h, B, d, e, h2, B2) ==
    /\ h2 \in HeapRec /\ h2.head = h.head /\ h2.tail = [h.tail EXCEPT ![BigList] = e]
    /\ h2.blkfree = h.blkfree /\ h2.blkfreecnt = h.blkfreecnt /\ h2.biglrucnt = h.biglrucnt - 1
    /\ B2 = [B EXCEPT ![e].next = 0, ![d] = NoBlk]

\* A heap with another first large block, count and last one.
BigHeap(h, b, n, v, h2) ==
    /\ h2 \in HeapRec /\ h2.head = [h.head EXCEPT ![BigList] = b] /\ h2.tail = [h.tail EXCEPT ![BigList] = v]
    /\ h2.blkfree = h.blkfree /\ h2.blkfreecnt = h.blkfreecnt /\ h2.lock = h.lock /\ h2.biglrucnt = n

NewBig(h, b, n, v) ==
    [h EXCEPT !.biglrucnt = n, !.head = [h.head EXCEPT ![BigList] = b], !.tail = [h.tail EXCEPT ![BigList] = v]]

\* What nc_free_big does to the heap, in one record.
FreedBig(h, b, B1, d, e, p) ==
    /\ h.biglrucnt < KeepBig =>
          p.B = B1 /\ p.h = NewBig(h, b, h.biglrucnt + 1, IF h.biglrucnt = 0 THEN b ELSE d)
    /\ ~(h.biglrucnt < KeepBig) =>
          p.B = [B1 EXCEPT ![e].next = 0, ![d] = NoBlk] /\ p.h = NewBig(h, b, h.biglrucnt, e)

\* What can be reached from the heap of t.
Reached(H, B, t) ==
    UNION {Members(Forward(B, b)) : b \in {H[t].head[l] : l \in Lists} \cup {H[t].blkfree}}

\* The memory without the blocks of the heap of t.
Gone(B, own, kown, held, B2, own2, kown2, t) ==
    \A c \in Blocks :
        \/ B2[c] = NoBlk /\ own2[c] = NoList /\ kown2[c] = NULL /\ held[c] = {}
        \/ B2[c] = B[c] /\ own2[c] = own[c] /\ kown2[c] = kown[c] /\ ~InHeap(own, kown, t, c)

\* Blocks in use keep what the program and free read of them.
Stable(B, B2, held) ==
    \A c \in Blocks : held[c] # {} =>
        B2[c] # NoBlk /\ B2[c].tid = B[c].tid /\ B2[c].size = B[c].size /\ B2[c].binndx = B[c].binndx

SameShifted(y, x) ==
    /\ y.small = x.small /\ y.tid = x.tid /\ y.binndx = x.binndx /\ y.size = x.size /\ y.cnt = x.cnt
    /\ y.restcnt = x.restcnt /\ y.rest = x.rest /\ y.free = x.free /\ y.prev = x.prev /\ y.next = x.next

\* The shifts of block b are S.
ShiftedTo(B, b, S, B2) ==
    /\ \A c \in Blocks : c # b => B2[c] = B[c]
    /\ B2[b] # NoBlk /\ SameShifted(B2[b], B[b]) /\ B2[b].shift = S

\* The buffers in use, and the chunks that are on their way back.
InUseOK(held) ==
    /\ \A u \in InUse : u \in BufRec /\ u.b \in Blocks /\ u.off - u.shift \in held[u.b] /\ held[u.b] # {}
    /\ \A u, v \in InUse : Loc(u) = Loc(v) => u = v
    /\ \A t \in Threads : pc[t] = "free" => arg[t].b \in Blocks /\ arg[t].off \in held[arg[t].b] /\ arg[t].off \in Nat
    /\ \A t \in Threads : pc[t] = "free" => \A u \in InUse : Loc(u) # <<arg[t].b, arg[t].off>>
    /\ \A t \in Threads : pc[t] = "drop" => arg[t] \notin live
    /\ \A s, t \in Threads : pc[t] = "drop" /\ pc[s] = "drop" /\ arg[s] = arg[t] => s = t

\* The heap h holds block b, if a heap does, and is in the table.
Owner(own, kown, b, h) ==
    /\ h \in Threads /\ heap[h] # NoHeap /\ pc[h] # "unmap" /\ tid[h] = blk[b].tid
    /\ PlaceOf(own[b], kown[b], h) /\ blk[b] # NoBlk

SameTable == tid' = tid /\ slot' = slot /\ count' = count

\* The thread, the buffer, and what the thread is about to give back.
Begun(t, u, o, g, after) ==
    /\ blk' = [blk EXCEPT ![u.b].shift = {p \in blk[u.b].shift : p[1] # o}]
    /\ arg' = [arg EXCEPT ![t] = [b |-> u.b, off |-> o, after |-> after, heap |-> g]]
    /\ live' = live \ {u} /\ pc' = [pc EXCEPT ![t] = "free"]
    /\ heap' = heap /\ stop' = stop /\ SameTable

\* Buffer v is what an allocation r of size bytes is used for.
UsedFor(r, v, size) == v.b = r.b /\ v.off - v.shift = r.off /\ v.shift + v.len <= size

\* The blocks after allocation r, with the shift of v in the header.
WithShift(B, v) ==
    IF v.shift = 0 THEN B ELSE [B EXCEPT ![v.b].shift = @ \cup {<<v.off - v.shift, v.shift>>}]

\* A shift that was there before, or that of v.
ShiftsFrom(v) ==
    \A c \in Blocks : blk'[c] # NoBlk =>
        \A q \in blk'[c].shift : \/ blk[c] # NoBlk /\ q \in blk[c].shift
                                 \/ c = v.b /\ q[1] = v.off - v.shift /\ v.shift # 0

AllocDone(held, v, own2, kown2, held2) ==
    /\ held2 = [held EXCEPT ![v.b] = held[v.b] \cup {v.off - v.shift}]
    /\ v.off - v.shift \in Nat /\ v.off - v.shift \notin held[v.b]
    /\ Mem(heap', blk', own2, kown2, held2) /\ Place(own2, kown2, held2)'
    /\ Stable(blk, blk', held) /\ Limits' /\ BufFits(v, blk'[v.b]) /\ ShiftsFrom(v)
    /\ \A x \in Threads : heap'[x] # NoHeap <=> heap[x] # NoHeap

\* The blocks with the shift of v.
HasShift(B, v, B2) ==
    /\ \A c \in Blocks : c # v.b => B2[c] = B[c]
    /\ B2[v.b] # NoBlk /\ SameShifted(B2[v.b], B[v.b])
    /\ \A q \in B2[v.b].shift : q \in B[v.b].shift \/ (q[1] = v.off - v.shift /\ v.shift # 0)

\* What an allocation by t for buffer v does to the memory.
Allocates(t, size, r, v) ==
    /\ pc[t] = "run" /\ heap[t] # NoHeap /\ size \in Requests /\ CanMalloc(t, size) /\ r = Malloc(t, size)
    /\ v \in BufRec /\ UsedFor(r, v, size)
    /\ heap' = [heap EXCEPT ![t] = r.h] /\ blk' = WithShift(r.B, v) /\ SameTable /\ stop' = stop

\* Nothing of a state changes but the buffers and why it stopped.
Still == pc' = pc /\ tid' = tid /\ slot' = slot /\ count' = count /\ heap' = heap /\ blk' = blk /\ arg' = arg
Used == {i \in Nums : slot[i] # NULL}

\* With room in the table there is a first empty place.
FirstEmpty == CHOOSE j \in DOMAIN slot : slot[j] = NULL /\ \A k \in DOMAIN slot : slot[k] = NULL => j <= k

\* A step of a thread that is about to free nothing, before and after it.
Idle(t) ==
    /\ live' = live /\ arg' = arg /\ stop' = stop
    /\ pc[t] \notin {"drop", "free"} /\ pc'[t] \notin {"drop", "free"}
    /\ \A x \in Threads : x # t => pc'[x] = pc[x]

\* A heap is locked.
LockedIn(H, t, H2) ==
    /\ \A x \in Threads : x # t => H2[x] = H[x]
    /\ H2[t] # NoHeap /\ H2[t].blkfreecnt = H[t].blkfreecnt /\ H2[t].biglrucnt = H[t].biglrucnt

\* What BuffersApart says of buffer u.
ApartFrom(u) ==
    /\ u.off >= BlkHdr
    /\ u.off + Hdr + u.len <= IF blk[u.b].small THEN BlkSize - Ptr * Freecnt(u.b) ELSE blk[u.b].size
    /\ \A v \in InUse \ {u} : v.b = u.b => ~Meets(v.off, v.off + Hdr + v.len, u)
    /\ \A i \in 1 .. Freecnt(u.b) : ~Meets(blk[u.b].free[i], blk[u.b].free[i] + Hdr, u)

\* What ChunksAccounted says of block b, of which used chunks are in use and
\* that the heaps mine hold.
Accounted(b, used, mine) ==
    /\ IF blk[b].small THEN Cardinality(mine) = 1 ELSE Cardinality(mine) + used = 1
    /\ \A t \in mine :
          /\ pc[t] # "unmap" => blk[b].tid = tid[t]
          /\ IF b \in Kept(t) \cup Listed(t, BigList) THEN used = 0
             ELSE /\ blk[b].restcnt + Freecnt(b) + used = blk[b].cnt
                  /\ Freecnt(b) < blk[b].cnt /\ blk[b].restcnt < blk[b].cnt

Holders(b) == {t \in Heaps : b \in Kept(t) \cup UNION {Listed(t, l) : l \in Lists}}
=============================================================================
