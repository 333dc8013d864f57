----------------------------- MODULE BteTransfer ----------------------------
(***************************************************************************)
(* How the block transfer engine library cuts one transfer into engine     *)
(* descriptors: ncbte_transfer_region of lib/libncbte.c with its callers'  *)
(* checks and the walk over the physical pages of a region.                *)
(*                                                                         *)
(* All quantities are in dwords; every offset, address and length that     *)
(* passes the callers' checks is a multiple of four bytes.                 *)
(***************************************************************************)
EXTENDS Integers, Sequences, FiniteSets

CONSTANTS Line,      \* dwords of a 64 byte block: 16 in the code
          Page,      \* dwords of a page: 1024
          Small,     \* longest descriptor outside the aligned bulk: 4
          MaxBtce,   \* longest descriptor: 2^19
          Word,      \* dwords whose byte count fits a __u32: 2^30
          Size,      \* dwords whose byte count fits a size_t: 2^62
          Regions,   \* regions: the sequences of their physical page numbers
          NULL,      \* the absent local region of a clear
          MaxOffset, \* bound: the largest offset of a request
          MaxLength, \* bound: the longest request
          Short      \* whether a request may end before its first block does

ASSUME TransferAssumption ==
    /\ {Line, Page, Small, MaxBtce, Word, Size} \subseteq Nat \ {0}
    /\ Page % Line = 0
    /\ MaxBtce % Line = 0
    /\ Small <= Line
    /\ Word <= Size
    /\ MaxOffset \in Nat
    /\ MaxLength \in 0 .. Size - 1
    /\ Short \in BOOLEAN

\* A page of memory is in a region once.
ASSUME RegionsAssumption ==
    /\ Regions \subseteq Seq(Nat)
    /\ NULL \notin Regions
    /\ \A r \in Regions : \A i, j \in DOMAIN r : r[i] = r[j] => i = j

VARIABLES
    req,            \* the request: both regions and offsets and the length
    pc,
    loff, roff,     \* local_offset, remote_offset
    length,         \* what is left to do
    laddr, raddr,   \* local_addr, remote_addr
    head, bulk,     \* the parts of the current segment
    descs           \* the descriptors stored to the engine so far

vars == <<req, pc, loff, roff, length, laddr, raddr, head, bulk, descs>>

MinOf(a, b) == IF a < b THEN a ELSE b

RegionSize(r) == Len(r) * Page

\* The checks of ncbte_write_region and ncbte_read_region.
Accepted(l, lo, r, ro, n) ==
    /\ lo + n <= RegionSize(l)
    /\ ro + n <= RegionSize(r)
    /\ lo % Line = ro % Line

\* The checks of ncbte_clear_region.
AcceptedClear(r, ro, n) ==
    /\ ro + n <= RegionSize(r)
    /\ ro % Line = 0
    /\ n % Line = 0

\* A request that ends before the block it starts in does.
IsShort(lo, n) == lo % Line # 0 /\ n < Line - (lo % Line)

Requests ==
    LET Req == [local : Regions \cup {NULL}, lo : 0 .. MaxOffset, remote : Regions,
                ro : 0 .. MaxOffset, n : 0 .. MaxLength]
    IN  {q \in Req :
            \/ /\ q.local = NULL /\ q.lo = 0
               /\ AcceptedClear(q.remote, q.ro, q.n)
            \/ /\ q.local # NULL
               /\ Accepted(q.local, q.lo, q.remote, q.ro, q.n)
               /\ IsShort(q.lo, q.n) => Short}

\* How many pages from p on are physically contiguous in region r.
Run(r, p) ==
    Cardinality({k \in p .. Len(r) : \A j \in p .. k : r[j] = r[p] + (j - p)})

\* Fault: the run of pages is counted without looking at the addresses.
GetRegionPhysAddrRest(r, off) ==
    LET p == off \div Page + 1
        o == off % Page
    IN  IF r = NULL THEN [addr |-> 0, len |-> Size - 1]
        ELSE IF p > Len(r) THEN [addr |-> 0, len |-> 0]
        ELSE [addr |-> r[p] * Page + o, len |-> Page - o + Page * (Len(r) - p)]

\* Fault: the last page is taken to be out of range.
GetRegionPhysAddrShy(r, off) ==
    LET p == off \div Page + 1
        o == off % Page
    IN  IF r = NULL THEN [addr |-> 0, len |-> Size - 1]
        ELSE IF p >= Len(r) THEN [addr |-> 0, len |-> 0]
        ELSE [addr |-> r[p] * Page + o, len |-> Page - o + Page * (Run(r, p) - 1)]

\* _get_region_phys_addr: the physical address of an offset and how far
\* memory is contiguous from there; length 0 past the end.
GetRegionPhysAddr(r, off) ==
    LET p == off \div Page + 1
        o == off % Page
    IN  IF r = NULL THEN [addr |-> 0, len |-> Size - 1]
        ELSE IF p > Len(r) THEN [addr |-> 0, len |-> 0]
        ELSE [addr |-> r[p] * Page + o, len |-> Page - o + Page * (Run(r, p) - 1)]

\* Fault: one descriptor too many, of no dwords.
SetupExtra(l, r, k, lim) ==
    [i \in 1 .. k \div lim + 1 |->
        [l |-> l + (i - 1) * lim,
         r |-> r + (i - 1) * lim,
         n |-> MinOf(k - (i - 1) * lim, lim)]]

\* The loops around SETUP_BTCE: k dwords in descriptors of at most lim.
Setup(l, r, k, lim) ==
    [i \in 1 .. (k + lim - 1) \div lim |->
        [l |-> l + (i - 1) * lim,
         r |-> r + (i - 1) * lim,
         n |-> MinOf(k - (i - 1) * lim, lim)]]

\* UPDATE_LENGTH_OFFSET shifts a __u32 left by two and subtracts from a size_t.
UpdateLengthOffset(x) ==
    /\ length' = (length - (x % Word)) % Size
    /\ loff' = loff + (x % Word)
    /\ roff' = roff + (x % Word)

Emit(k, lim) ==
    /\ descs' = descs \o Setup(laddr, raddr, k, lim)
    /\ laddr' = laddr + k
    /\ raddr' = raddr + k

Init ==
    /\ req \in Requests
    /\ pc = "segment"
    /\ loff = req.lo
    /\ roff = req.ro
    /\ length = req.n
    /\ laddr = 0
    /\ raddr = 0
    /\ head = 0
    /\ bulk = 0
    /\ descs = <<>>

\* The addresses and the length of what is contiguous on both sides.
Segment ==
    /\ pc = "segment"
    /\ LET local  == GetRegionPhysAddr(req.local, loff)
           remote == GetRegionPhysAddr(req.remote, roff)
           lead   == local.addr % Line
       IN  IF local.len = 0 \/ remote.len = 0
           THEN pc' = "error" /\ UNCHANGED <<laddr, raddr, head, bulk>>
           ELSE /\ pc' = "head"
                /\ laddr' = local.addr
                /\ raddr' = remote.addr
                /\ head' = IF lead = 0 THEN 0 ELSE Line - lead
                /\ bulk' = MinOf(MinOf(local.len, remote.len), length) % (4 * Word)
    /\ UNCHANGED <<req, loff, roff, length, descs>>

\* Fault: what the head takes is not taken from the bulk.
HeadKeepsBulk ==
    /\ pc = "head"
    /\ pc' = "bulk"
    /\ IF head # 0
       THEN UpdateLengthOffset(head) /\ Emit(head, Small)
       ELSE UNCHANGED <<length, loff, roff, laddr, raddr, descs>>
    /\ UNCHANGED <<req, head, bulk>>

\* Up to the next block boundary.
HeadPart ==
    /\ pc = "head"
    /\ pc' = "bulk"
    /\ bulk' = (bulk - head) % (4 * Word)
    /\ IF head # 0
       THEN UpdateLengthOffset(head) /\ Emit(head, Small)
       ELSE UNCHANGED <<length, loff, roff, laddr, raddr, descs>>
    /\ UNCHANGED <<req, head>>

\* Whole blocks.
BulkPart ==
    /\ pc = "bulk"
    /\ pc' = "tail"
    /\ head' = 0
    /\ bulk' = bulk % Line
    /\ LET whole == bulk - (bulk % Line) IN
       IF whole # 0
       THEN UpdateLengthOffset(whole) /\ Emit(whole, MaxBtce)
       ELSE UNCHANGED <<length, loff, roff, laddr, raddr, descs>>
    /\ UNCHANGED req

\* The rest of the segment; then the next segment or, with nothing left, the
\* fence descriptor (see BteCompletion).
TailPart ==
    /\ pc = "tail"
    /\ bulk' = 0
    /\ IF bulk # 0
       THEN UpdateLengthOffset(bulk) /\ Emit(bulk, Small)
       ELSE UNCHANGED <<length, loff, roff, laddr, raddr, descs>>
    /\ pc' = IF length' > 0 THEN "segment" ELSE "done"
    /\ UNCHANGED <<req, head>>

Next == Segment \/ HeadPart \/ BulkPart \/ TailPart

Spec == Init /\ [][Next]_vars

FairSpec == Spec /\ WF_vars(Next)
-----------------------------------------------------------------------------
TypeOK ==
    /\ req \in Requests
    /\ pc \in {"segment", "head", "bulk", "tail", "done", "error"}
    /\ {loff, roff, laddr, raddr} \subseteq Nat
    /\ length \in 0 .. Size - 1
    /\ head \in 0 .. Line - 1
    /\ bulk \in 0 .. 4 * Word - 1
    /\ descs \in Seq([l : Nat, r : Nat, n : 1 .. MaxBtce])

\* The physical address of the i-th dword of a region, by definition.
Phys(r, i) == IF r = NULL THEN i ELSE r[i \div Page + 1] * Page + (i % Page)

\* The pairs of local and remote dwords the descriptors name.
Dwords(d) == {<<d.l + j, d.r + j>> : j \in 0 .. d.n - 1}

Moved == UNION {Dwords(descs[i]) : i \in DOMAIN descs}

\* The remote dwords only, for a clear.
Cleared == {p[2] : p \in Moved}

\* Descriptors longer than Small start on a block boundary on both sides and
\* are whole blocks.
BlocksAligned ==
    \A i \in DOMAIN descs : descs[i].n > Small =>
        descs[i].l % Line = 0 /\ descs[i].r % Line = 0 /\ descs[i].n % Line = 0

\* A transfer that returns 0 has moved every dword of the request, between
\* the right physical addresses on both sides, and no other; no dword twice;
\* and what it moved by more than a few dwords at a time was whole blocks.
ExactlyTheRequest ==
    pc = "done" =>
        /\ Cardinality(Moved) = req.n
        /\ IF req.local = NULL
           THEN Cleared = {Phys(req.remote, req.ro + i) : i \in 0 .. req.n - 1}
           ELSE Moved = {<<Phys(req.local, req.lo + i), Phys(req.remote, req.ro + i)>>
                            : i \in 0 .. req.n - 1}
        /\ BlocksAligned

\* At every point of the loop the dwords moved and the dwords left make up
\* the request: it never writes beyond the length it was given.
NeverBeyond ==
    /\ Cardinality(Moved) <= req.n
    /\ pc \in {"segment", "done"} => Cardinality(Moved) + length = req.n

\* A request that passed the checks and has something to move succeeds.
Succeeds == <>(pc = "done" \/ (pc = "error" /\ req.n = 0))
=============================================================================
