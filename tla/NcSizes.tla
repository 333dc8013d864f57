------------------------------ MODULE NcSizes -------------------------------
(***************************************************************************)
(* The sizes the per-thread allocator works with (numaplace/ncalloc.c):    *)
(* the bin a request goes to, the chunks of a block, the size of a block   *)
(* mapped for a large request.  Sizes are in bytes.                        *)
(***************************************************************************)
EXTENDS Integers

CONSTANTS BlkSize,     \* BLKSIZE = HUGE_PAGE_SIZE
          AdjustMin    \* 64 * 1024: from here on bins use left over space

ASSUME SizesAssumption ==
    /\ BlkSize \in Nat /\ BlkSize >= 1024
    /\ AdjustMin \in Nat /\ AdjustMin <= BlkSize \div 4

BlkHdr == 64       \* sizeof(blk_t)
Hdr == 16          \* sizeof(hdr_t)
Ptr == 8           \* sizeof(hdr_t*)

SmallMax == (BlkSize - 64) \div 2 - 64

\* x rounded up to a multiple of n.
RoundUp(x, n) == ((x + n - 1) \div n) * n

ILog2(x) == CHOOSE k \in 0 .. 30 : 2^k <= x /\ x < 2^(k + 1)

\* Sizes grow by half a power of two; 24 is left out to keep buffers aligned.
HalfSteps(size0) ==
    LET p == 2^ILog2(size0)
    IN  IF size0 = p THEN 0
        ELSE IF size0 > p + p \div 2 \/ p + p \div 2 = 24 THEN 2
        ELSE 1

BinNdx(size) == 2 * ILog2(size + Hdr) - 8 + HalfSteps(size + Hdr)

\* The size a large bin is stretched to, to use the space that is left over.
Stretch(binsize) == RoundUp(BlkSize \div (BlkSize \div (binsize + Ptr)) - Ptr, 16)

\* The distance from one chunk to the next, computed from the request.
BinSize(size) ==
    LET size0   == size + Hdr
        p       == 2^ILog2(size0)
        binsize == p + HalfSteps(size0) * (p \div 2)
    IN  IF size0 < AdjustMin THEN binsize
        ELSE IF size0 <= BlkSize \div 4 THEN Stretch(binsize)
        ELSE SmallMax + Hdr

\* initblk: the chunks of a block, each with a place on the free stack.
ChunkCount(binsize) == (BlkSize - BlkHdr) \div (binsize + Ptr)

\* What a large request needs, and what is mapped for it.
BigNeed(size) == size + BlkHdr + Hdr
BigSize(size) == RoundUp(BigNeed(size), BlkSize)

\* What the sizes promise for one request: the bin holds the header and the
\* buffer, chunks stay aligned to 16 bytes, a block has at least two of them
\* and they end below the free stack.
BinServes(size) ==
    LET n == BinSize(size) IN
    /\ n >= size + Hdr
    /\ n % 16 = 0
    /\ ChunkCount(n) >= 2
    /\ BlkHdr + ChunkCount(n) * (n + Ptr) <= BlkSize
=============================================================================
