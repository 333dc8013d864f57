-------------------------- MODULE BteTransferProofs -------------------------
(***************************************************************************)
(* Proofs about BteTransfer: a transfer that returns 0 has moved exactly   *)
(* the dwords of its request.                                              *)
(***************************************************************************)
EXTENDS BteTransfer, FiniteSetTheorems, TLAPS

-----------------------------------------------------------------------------
\* Division.

\* Quotient and remainder are the only pair that can be one.
LEMMA DivIs ==
    ASSUME NEW m \in Nat \ {0}
    PROVE  \A n, q \in Nat, r \in 0 .. m - 1 :
              n = m * q + r => n % m = r /\ n \div m = q
  <1>1. SUFFICES ASSUME NEW n \in Nat, NEW q \in Nat, NEW r \in 0 .. m - 1, n = m * q + r
               PROVE  n % m = r /\ n \div m = q
    OBVIOUS
  <1>2. n % m = r BY <1>1
  <1>3. n \div m = q BY <1>1
  <1> QED BY <1>2, <1>3

\* Every number has a quotient and a remainder.
LEMMA DivMod ==
    ASSUME NEW m \in Nat \ {0}
    PROVE  \A n \in Nat : \E q \in Nat, r \in 0 .. m - 1 :
              n = m * q + r /\ n % m = r /\ n \div m = q
  <1>1. SUFFICES ASSUME NEW n \in Nat
               PROVE  \E q \in Nat, r \in 0 .. m - 1 : n = m * q + r /\ n % m = r /\ n \div m = q
    OBVIOUS
  <1>2. n % m \in 0 .. m - 1 /\ n \div m \in Nat OBVIOUS
  <1>3. n = m * (n \div m) + (n % m) OBVIOUS
  <1> QED BY <1>2, <1>3, Zenon

\* A number is aligned to m when it is a multiple of it.
LEMMA Multiple ==
    ASSUME NEW m \in Nat \ {0}
    PROVE  /\ \A n, q \in Nat : n = m * q => n % m = 0
           /\ \A n \in Nat : n % m = 0 => \E q \in Nat : n = m * q
  <1>1. \A n, q \in Nat : n = m * q => n % m = 0
    <2>1. SUFFICES ASSUME NEW n \in Nat, NEW q \in Nat, n = m * q PROVE n % m = 0
      OBVIOUS
    <2>2. 0 \in 0 .. m - 1 /\ m * q \in Nat /\ n = m * q + 0 BY <2>1
    <2> QED BY <2>2, DivIs, Zenon
  <1>2. \A n \in Nat : n % m = 0 => \E q \in Nat : n = m * q
    <2>1. SUFFICES ASSUME NEW n \in Nat, n % m = 0 PROVE \E q \in Nat : n = m * q
      OBVIOUS
    <2>2. PICK q \in Nat, r \in 0 .. m - 1 : n = m * q + r /\ n % m = r /\ n \div m = q
    BY DivMod, Zenon
    <2>3. n = m * q BY <2>1, <2>2
    <2> QED BY <2>3
  <1> QED BY <1>1, <1>2

\* Adding a multiple does not change the remainder.
LEMMA ModAdd ==
    ASSUME NEW m \in Nat \ {0}, NEW a \in Nat, NEW b \in Nat, a % m = 0
    PROVE  (a + b) % m = b % m
  <1>1. PICK p \in Nat : a = m * p BY Multiple
  <1>2. PICK q \in Nat, r \in 0 .. m - 1 : b = m * q + r /\ b % m = r /\ b \div m = q
    BY DivMod, Zenon
  <1>3. PICK k \in Nat : k = p + q OBVIOUS
  <1>4. m * (p + q) = m * p + m * q OBVIOUS
  <1>5. m * p \in Nat /\ m * q \in Nat OBVIOUS
  <1>6. a + b = m * k + r BY <1>1, <1>2, <1>3, <1>4, <1>5
  <1>7. PICK n \in Nat : n = a + b OBVIOUS
  <1>8. n % m = r BY <1>6, <1>7, DivIs, Zenon
  <1> QED BY <1>2, <1>7, <1>8

\* Products with a multiple are multiples.
LEMMA ModTimes ==
    ASSUME NEW m \in Nat \ {0}, NEW a \in Nat, NEW b \in Nat, a % m = 0
    PROVE  (b * a) % m = 0
  <1>1. PICK p \in Nat : a = m * p BY Multiple
  <1>2. PICK n, q \in Nat : n = b * a /\ q = b * p OBVIOUS
  <1>3. b * (m * p) = m * (b * p) OBVIOUS
  <1>4. n = m * q BY <1>1, <1>2, <1>3
  <1>5. n % m = 0 BY <1>4, Multiple, Zenon
  <1> QED BY <1>2, <1>5

\* Numbers with the same remainder keep having it.
LEMMA ModSame ==
    ASSUME NEW m \in Nat \ {0}
    PROVE  \A a, b, x \in Nat : a % m = b % m => (a + x) % m = (b + x) % m
  <1>1. ASSUME NEW c \in Nat, NEW x \in Nat PROVE (c + x) % m = ((c % m) + x) % m
    <2>1. c % m \in Nat /\ c - (c % m) \in Nat
      <3>1. PICK q \in Nat, r \in 0 .. m - 1 : c = m * q + r /\ c % m = r /\ c \div m = q
        BY DivMod, Zenon
      <3>2. m * q \in Nat OBVIOUS
      <3> QED BY <3>1, <3>2
    <2>2. PICK u, v \in Nat : u = c % m /\ v = c - (c % m) BY <2>1
    <2>3. v % m = 0
      <3>1. PICK q \in Nat, r \in 0 .. m - 1 : c = m * q + r /\ c % m = r /\ c \div m = q
        BY DivMod, Zenon
      <3>2. PICK w \in Nat : w = m * q OBVIOUS
      <3>3. v = w BY <2>2, <3>1, <3>2
      <3>4. w % m = 0 BY <3>2, Multiple, Zenon
      <3> QED BY <3>3, <3>4
    <2>4. PICK y \in Nat : y = u + x OBVIOUS
    <2>5. (v + y) % m = y % m BY <2>3, ModAdd
    <2>6. v + y = c + x BY <2>2, <2>4
    <2> QED BY <2>2, <2>4, <2>5, <2>6
  <1>2. SUFFICES ASSUME NEW a \in Nat, NEW b \in Nat, NEW x \in Nat, a % m = b % m
                 PROVE  (a + x) % m = (b + x) % m
    BY Zenon
  <1>3. (a + x) % m = ((a % m) + x) % m BY <1>1, Zenon
  <1>4. (b + x) % m = ((b % m) + x) % m BY <1>1, Zenon
  <1>5. PICK u : u = a % m /\ u = b % m BY <1>2, Zenon
  <1>6. (a + x) % m = (u + x) % m BY <1>3, <1>5, Zenon
  <1>7. (b + x) % m = (u + x) % m BY <1>4, <1>5, Zenon
  <1> QED BY <1>6, <1>7, Zenon

\* What is missing to the next multiple depends on the remainder only.
LEMMA ModUp ==
    ASSUME NEW m \in Nat \ {0}, NEW a \in Nat, NEW b \in Nat, a % m = b % m, a % m # 0
    PROVE  /\ m - (a % m) \in 1 .. m - 1
           /\ (b + (m - (a % m))) % m = 0
  <1>1. PICK q \in Nat, r \in 0 .. m - 1 : b = m * q + r /\ b % m = r /\ b \div m = q
    BY DivMod, Zenon
  <1>2. PICK k \in Nat : k = q + 1 OBVIOUS
  <1>3. m * (q + 1) = m * q + m OBVIOUS
  <1>4. m * q \in Nat OBVIOUS
  <1>5. b + (m - r) = m * k BY <1>1, <1>2, <1>3, <1>4
  <1>6. PICK n \in Nat : n = b + (m - r) BY <1>1
  <1>7. n % m = 0 BY <1>2, <1>5, <1>6, Multiple, Zenon
  <1> QED BY <1>1, <1>6, <1>7

\* Cutting the remainder off leaves a multiple.
LEMMA ModCut ==
    ASSUME NEW m \in Nat \ {0}, NEW a \in Nat
    PROVE  /\ a % m \in 0 .. m - 1 /\ a % m <= a
           /\ a - (a % m) \in Nat /\ (a - (a % m)) % m = 0
  <1>1. PICK q \in Nat, r \in 0 .. m - 1 : a = m * q + r /\ a % m = r /\ a \div m = q
    BY DivMod, Zenon
  <1>2. PICK n \in Nat : n = m * q OBVIOUS
  <1>3. n % m = 0 BY <1>2, Multiple, Zenon
  <1> QED BY <1>1, <1>2, <1>3

-----------------------------------------------------------------------------
\* The pages of a region.

\* What the proofs use of the constants.
LEMMA Consts ==
    /\ Line \in Nat \ {0} /\ Page \in Nat \ {0} /\ Small \in Nat \ {0}
    /\ MaxBtce \in Nat \ {0} /\ Word \in Nat \ {0} /\ Size \in Nat \ {0}
    /\ Page % Line = 0 /\ MaxBtce % Line = 0
    /\ Small <= Line /\ Line <= Page /\ Line <= MaxBtce
    /\ Word <= Size /\ MaxOffset \in Nat /\ MaxLength \in 0 .. Size - 1
    /\ NULL \notin Regions
  <1>1. \A n \in Nat \ {0} : n % Line = 0 => Line <= n
    <2>1. SUFFICES ASSUME NEW n \in Nat \ {0}, n % Line = 0 PROVE Line <= n OBVIOUS
    <2>2. Line \in Nat \ {0} BY TransferAssumption
    <2>3. PICK q \in Nat : n = Line * q BY <2>1, <2>2, Multiple
    <2>4. q # 0 BY <2>1, <2>2, <2>3
    <2>5. q >= 1 => Line * q >= Line BY <2>2
    <2> QED BY <2>3, <2>4, <2>5
  <1> QED BY <1>1, TransferAssumption, RegionsAssumption

\* A region is a sequence of different page numbers.
LEMMA RegionType ==
    ASSUME NEW r \in Regions
    PROVE  /\ Len(r) \in Nat /\ DOMAIN r = 1 .. Len(r)
           /\ \A i \in 1 .. Len(r) : r[i] \in Nat
           /\ \A i, j \in 1 .. Len(r) : r[i] = r[j] => i = j
           /\ r # NULL
  <1>1. r \in Seq(Nat) BY RegionsAssumption
  <1>2. Len(r) \in Nat /\ DOMAIN r = 1 .. Len(r) /\ \A i \in 1 .. Len(r) : r[i] \in Nat BY <1>1
  <1>3. \A i, j \in DOMAIN r : r[i] = r[j] => i = j BY RegionsAssumption
  <1> QED BY <1>2, <1>3, RegionsAssumption

\* The pages Run counts are there and follow each other in memory.
LEMMA RunIs ==
    ASSUME NEW r \in Regions, NEW p \in 1 .. Len(r)
    PROVE  /\ Run(r, p) \in Nat \ {0}
           /\ p + Run(r, p) - 1 <= Len(r)
           /\ \A q \in 0 .. Run(r, p) - 1 : r[p + q] = r[p] + q
  <1> DEFINE S == {k \in p .. Len(r) : \A j \in p .. k : r[j] = r[p] + (j - p)}
  <1>1. Len(r) \in Nat /\ r[p] \in Nat BY RegionType
  <1>2. S \subseteq p .. Len(r) /\ p \in S BY <1>1
  <1>3. IsFiniteSet(p .. Len(r)) BY <1>1, FS_Interval
  <1>4. IsFiniteSet(S) BY <1>2, <1>3, FS_Subset
  <1>5. Cardinality(S) \in Nat BY <1>4, FS_CardinalityType
  <1>6. Cardinality(S) # 0 BY <1>2, <1>4, FS_EmptySet
  <1>7. ASSUME NEW q \in 0 .. Cardinality(S) - 1 PROVE p + q \in S
    <2>1. SUFFICES ASSUME p + q \notin S PROVE FALSE OBVIOUS
    <2>2. S \subseteq p .. p + q - 1
      <3>1. SUFFICES ASSUME NEW k \in S, k >= p + q PROVE FALSE BY <1>1, <1>5
      <3>2. k \in p .. Len(r) /\ \A j \in p .. k : r[j] = r[p] + (j - p) OBVIOUS
      <3>3. p + q \in p .. Len(r) /\ p .. p + q \subseteq p .. k BY <1>1, <1>5, <3>1, <3>2
      <3>4. \A j \in p .. p + q : r[j] = r[p] + (j - p) BY <3>2, <3>3
      <3> QED BY <2>1, <3>3, <3>4
    <2> HIDE DEF S
    <2>3. q \in Nat /\ q < Cardinality(S) BY <1>5
    <2>a. PICK e \in Int : e = p + q - 1 BY <1>1, <2>3
    <2>b. p \in Int BY <1>1
    <2>4. IsFiniteSet(p .. e) /\ Cardinality(p .. e) = IF p > e THEN 0 ELSE e - p + 1
      BY <2>b, FS_Interval
    <2>5. Cardinality(p .. e) = q BY <1>1, <2>3, <2>4, <2>a
    <2>6. Cardinality(S) <= Cardinality(p .. e) BY <2>2, <2>4, <2>a, FS_Subset
    <2> QED BY <1>5, <2>3, <2>5, <2>6
  <1>8. Run(r, p) = Cardinality(S) BY DEF Run
  <1>9. ASSUME NEW q \in 0 .. Cardinality(S) - 1 PROVE p + q <= Len(r) /\ r[p + q] = r[p] + q
    <2>1. p + q \in S BY <1>7
    <2>2. p + q \in p .. p + q BY <1>1, <1>5
    <2>3. r[p + q] = r[p] + (p + q - p) BY <2>1, <2>2
    <2>4. p + q - p = q BY <1>1, <1>5
    <2>5. p + q <= Len(r) BY <1>1, <1>5, <2>1
    <2> QED BY <2>3, <2>4, <2>5
  <1> HIDE DEF S
  <1>a. p + Cardinality(S) - 1 <= Len(r)
    <2>1. Cardinality(S) - 1 \in 0 .. Cardinality(S) - 1 BY <1>5, <1>6
    <2>2. p + (Cardinality(S) - 1) <= Len(r) BY <1>9, <2>1
    <2> QED BY <1>1, <1>5, <2>2
  <1> QED BY <1>5, <1>6, <1>8, <1>9, <1>a

\* Where the dword o of the q-th page is.
LEMMA PhysAt ==
    ASSUME NEW r \in Regions, NEW q \in 0 .. Len(r) - 1, NEW o \in 0 .. Page - 1
    PROVE  /\ Page * q + o \in Nat /\ Page * q + o < RegionSize(r)
           /\ (Page * q + o) \div Page = q /\ (Page * q + o) % Page = o
           /\ Phys(r, Page * q + o) = r[q + 1] * Page + o
  <1>1. Len(r) \in Nat /\ r # NULL BY RegionType
  <1>2. Page \in Nat \ {0} /\ q \in Nat BY Consts, <1>1
  <1>3. PICK n \in Nat : n = Page * q + o BY <1>2
  <1>4. n % Page = o /\ n \div Page = q BY <1>2, <1>3, DivIs, Zenon
  <1>5. n < Len(r) * Page
    <2>1. q + 1 <= Len(r) BY <1>1, <1>2
    <2>2. Page * (q + 1) <= Page * Len(r) BY <1>1, <1>2, <2>1
    <2>3. Page * (q + 1) = Page * q + Page BY <1>2
    <2>4. Page * Len(r) = Len(r) * Page BY <1>1, <1>2
    <2>5. Page * q \in Nat BY <1>2
    <2> QED BY <1>1, <1>2, <1>3, <2>2, <2>3, <2>4, <2>5
  <1> QED BY <1>1, <1>3, <1>4, <1>5 DEF Phys, RegionSize

\* Every offset in a region is a dword of one of its pages.
LEMMA OffsetIs ==
    ASSUME NEW r \in Regions, NEW i \in Nat, i < RegionSize(r)
    PROVE  \E q \in 0 .. Len(r) - 1, o \in 0 .. Page - 1 : i = Page * q + o
  <1>1. Len(r) \in Nat BY RegionType
  <1>2. Page \in Nat \ {0} BY Consts
  <1>3. PICK q \in Nat, o \in 0 .. Page - 1 : i = Page * q + o /\ i % Page = o /\ i \div Page = q
    BY <1>2, DivMod, Zenon
  <1>4. q < Len(r)
    <2>1. SUFFICES ASSUME q >= Len(r) PROVE FALSE BY <1>1, <1>3
    <2>2. Page * q >= Page * Len(r) BY <1>1, <1>2, <1>3, <2>1
    <2>3. Page * Len(r) = Len(r) * Page BY <1>1, <1>2
    <2>4. Page * q \in Nat /\ Len(r) * Page \in Nat BY <1>1, <1>2
    <2> QED BY <1>2, <1>3, <2>2, <2>3, <2>4 DEF RegionSize
  <1> QED BY <1>1, <1>3, <1>4

\* The address of an offset is a number.
LEMMA PhysType ==
    ASSUME NEW r \in Regions, NEW i \in Nat, i < RegionSize(r)
    PROVE  Phys(r, i) \in Nat
  <1>1. PICK q \in 0 .. Len(r) - 1, o \in 0 .. Page - 1 : i = Page * q + o BY OffsetIs
  <1>2. Phys(r, i) = r[q + 1] * Page + o BY <1>1, PhysAt
  <1>3. q + 1 \in 1 .. Len(r) /\ Page \in Nat BY RegionType, Consts
  <1>4. r[q + 1] \in Nat BY <1>3, RegionType
  <1>5. r[q + 1] * Page \in Nat BY <1>3, <1>4
  <1> QED BY <1>2, <1>3, <1>5

\* Different offsets of a region are different dwords of memory.
LEMMA PhysInjective ==
    ASSUME NEW r \in Regions, NEW i \in Nat, NEW j \in Nat,
           i < RegionSize(r), j < RegionSize(r), Phys(r, i) = Phys(r, j)
    PROVE  i = j
  <1>1. PICK q \in 0 .. Len(r) - 1, o \in 0 .. Page - 1 : i = Page * q + o BY OffsetIs
  <1>2. PICK s \in 0 .. Len(r) - 1, u \in 0 .. Page - 1 : j = Page * s + u BY OffsetIs
  <1>3. Phys(r, i) = r[q + 1] * Page + o BY <1>1, PhysAt
  <1>4. Phys(r, j) = r[s + 1] * Page + u BY <1>2, PhysAt
  <1>5. Page \in Nat \ {0} /\ Len(r) \in Nat BY RegionType, Consts
  <1>6. q + 1 \in 1 .. Len(r) /\ s + 1 \in 1 .. Len(r) BY <1>5
  <1>7. PICK a, b \in Nat : a = r[q + 1] /\ b = r[s + 1] BY <1>6, RegionType
  <1>8. a * Page = Page * a /\ b * Page = Page * b BY <1>5
  <1>9. PICK n \in Nat : n = Page * a + o BY <1>5
  <1>a. n = Page * b + u BY <1>3, <1>4, <1>7, <1>8, <1>9
  <1>b. n % Page = o /\ n \div Page = a BY <1>5, <1>9, DivIs, Zenon
  <1>c. n % Page = u /\ n \div Page = b BY <1>5, <1>a, DivIs, Zenon
  <1>d. q + 1 = s + 1 BY <1>6, <1>7, <1>b, <1>c, RegionType
  <1>e. q = s BY <1>5, <1>d
  <1> QED BY <1>1, <1>2, <1>b, <1>c, <1>e

\* An address and its offset are equally far into a block.
LEMMA PhysMod ==
    ASSUME NEW r \in Regions, NEW i \in Nat, i < RegionSize(r)
    PROVE  Phys(r, i) % Line = i % Line
  <1>1. PICK q \in 0 .. Len(r) - 1, o \in 0 .. Page - 1 : i = Page * q + o BY OffsetIs
  <1>2. Phys(r, i) = r[q + 1] * Page + o BY <1>1, PhysAt
  <1>3. /\ q + 1 \in 1 .. Len(r) /\ q \in Nat /\ o \in Nat /\ Page \in Nat /\ Line \in Nat \ {0}
        /\ Page % Line = 0
    BY RegionType, Consts
  <1>4. r[q + 1] \in Nat BY <1>3, RegionType
  <1>5. PICK x, y \in Nat : x = r[q + 1] * Page /\ y = q * Page BY <1>3, <1>4
  <1>6. x % Line = 0 /\ y % Line = 0 BY <1>3, <1>4, <1>5, ModTimes
  <1>7. (x + o) % Line = o % Line /\ (y + o) % Line = o % Line BY <1>3, <1>6, ModAdd
  <1>8. q * Page = Page * q BY <1>3
  <1> QED BY <1>1, <1>2, <1>5, <1>7, <1>8

\* What _get_region_phys_addr returns for an offset in a region: its address,
\* and a length that is contiguous from there, stays in the region and ends at
\* a page boundary.
LEMMA Contiguous ==
    ASSUME NEW r \in Regions, NEW i \in Nat, i < RegionSize(r),
           NEW g, g = GetRegionPhysAddr(r, i)
    PROVE  /\ g.len \in Nat \ {0}
           /\ i + g.len <= RegionSize(r)
           /\ \A j \in 0 .. g.len - 1 : Phys(r, i + j) = g.addr + j
           /\ g.addr = Phys(r, i)
           /\ (i + g.len) % Line = 0
           /\ i % Line # 0 => Line - (i % Line) <= g.len
  <1>0. Page \in Nat \ {0} /\ Line \in Nat \ {0} /\ Len(r) \in Nat /\ r # NULL /\ Page % Line = 0
    BY RegionType, Consts
  <1>1. PICK q \in 0 .. Len(r) - 1, o \in 0 .. Page - 1 : i = Page * q + o BY OffsetIs
  <1>2. i \div Page = q /\ i % Page = o /\ Phys(r, i) = r[q + 1] * Page + o BY <1>1, PhysAt
  <1>3. PICK p \in 1 .. Len(r) : p = q + 1 BY <1>0
  <1>4. PICK c \in Nat \ {0} : c = Run(r, p) BY RunIs
  <1>5. p + c - 1 <= Len(r) /\ \A s \in 0 .. c - 1 : r[p + s] = r[p] + s BY <1>4, RunIs
  <1>6. g = [addr |-> r[p] * Page + o, len |-> Page - o + Page * (c - 1)]
    <2>1. i \div Page + 1 = p /\ ~(p > Len(r)) BY <1>0, <1>2, <1>3
    <2>2. g = IF i \div Page + 1 > Len(r) THEN [addr |-> 0, len |-> 0]
              ELSE [addr |-> r[i \div Page + 1] * Page + (i % Page),
                    len |-> Page - (i % Page) + Page * (Run(r, i \div Page + 1) - 1)]
      BY <1>0, Zenon DEF GetRegionPhysAddr
    <2> QED BY <1>2, <1>4, <2>1, <2>2
  <1>7. r[p] \in Nat BY RegionType
  <1>y. r[p] * Page \in Nat /\ Page * q \in Nat /\ Page * (c - 1) \in Nat
    <2>1. c - 1 \in Nat /\ q \in Nat OBVIOUS
    <2> QED BY <1>0, <1>7, <2>1
  <1>8. PICK a, b, k \in Nat : a = r[p] * Page /\ b = Page * q /\ k = Page * (c - 1)
    BY <1>y
  <1>9. g.addr = a + o /\ g.len = Page - o + k BY <1>6, <1>8
  <1>a. g.len \in Nat \ {0} /\ g.len >= Page - o BY <1>0, <1>9
  <1>b. i + g.len = Page * (q + c)
    <2>1. Page * (q + c) = Page * q + Page * (c - 1) + Page BY <1>0
    <2> QED BY <1>0, <1>1, <1>8, <1>9, <2>1
  <1>c. i + g.len <= RegionSize(r)
    <2>1. q + c <= Len(r) BY <1>0, <1>3, <1>5
    <2>2. Page * (q + c) <= Page * Len(r) BY <1>0, <2>1
    <2>3. Page * Len(r) = Len(r) * Page BY <1>0
    <2> QED BY <1>b, <2>2, <2>3 DEF RegionSize
  <1>d. ASSUME NEW j \in 0 .. g.len - 1 PROVE Phys(r, i + j) = g.addr + j
    <2>1. PICK s \in Nat, u \in 0 .. Page - 1 : o + j = Page * s + u
      <3>1. PICK n \in Nat : n = o + j BY <1>a
      <3>2. \E s \in Nat, u \in 0 .. Page - 1 : n = Page * s + u /\ n % Page = u /\ n \div Page = s
        BY <1>0, DivMod, Zenon
      <3> QED BY <3>1, <3>2
    <2>2. s < c
      <3>1. SUFFICES ASSUME s >= c PROVE FALSE OBVIOUS
      <3>2. Page * s >= Page * c BY <1>0, <3>1
      <3>3. Page * c = Page * (c - 1) + Page BY <1>0
      <3>4. o + j < Page + k BY <1>0, <1>9
      <3>5. Page * s \in Nat BY <1>0
      <3> QED BY <1>0, <1>8, <2>1, <3>2, <3>3, <3>4, <3>5
    <2>3. PICK v \in 0 .. Len(r) - 1 : v = q + s BY <1>0, <1>3, <1>5, <2>2
    <2>4. i + j = Page * v + u
      <3>1. Page * (q + s) = Page * q + Page * s BY <1>0
      <3>2. Page * s \in Nat BY <1>0
      <3> QED BY <1>0, <1>1, <1>8, <1>a, <2>1, <2>3, <3>1, <3>2
    <2>5. Phys(r, i + j) = r[v + 1] * Page + u BY <2>4, PhysAt
    <2>6. v + 1 = p + s BY <1>0, <1>3, <2>3
    <2>7. r[v + 1] = r[p] + s
      <3>1. s \in 0 .. c - 1 BY <2>2
      <3> QED BY <1>5, <2>6, <3>1
    <2>8. (r[p] + s) * Page = r[p] * Page + Page * s
      <3>1. \A x, y \in Nat : (x + y) * Page = x * Page + Page * y BY <1>0
      <3> QED BY <1>7, <3>1
    <2>9. Page * s \in Nat BY <1>0
    <2>b. Phys(r, i + j) = a + Page * s + u BY <1>8, <2>5, <2>7, <2>8
    <2>c. j \in Nat BY <1>a
    <2>d. PICK w \in Nat : w = Page * s BY <2>9
    <2>e. a + w + u = a + o + j BY <1>0, <2>1, <2>c, <2>d
    <2> QED BY <1>9, <2>b, <2>d, <2>e
  <1>e. (i + g.len) % Line = 0
    <2>1. PICK n, m \in Nat : n = q + c /\ m = n * Page BY <1>0
    <2>2. (n * Page) % Line = 0 BY <1>0, ModTimes
    <2>3. n * Page = Page * n BY <1>0
    <2> QED BY <1>b, <2>1, <2>2, <2>3
  <1>f. ASSUME i % Line # 0 PROVE Line - (i % Line) <= g.len
    <2>1. PICK n \in Nat : n = i + g.len BY <1>a
    <2>2. PICK m \in Nat : n = Line * m BY <1>0, <1>e, <2>1, Multiple
    <2>3. PICK s \in Nat, u \in 0 .. Line - 1 : i = Line * s + u /\ i % Line = u /\ i \div Line = s
      BY <1>0, DivMod, Zenon
    <2>4. m > s
      <3>1. SUFFICES ASSUME m <= s PROVE FALSE OBVIOUS
      <3>2. Line * m <= Line * s BY <1>0, <3>1
      <3>3. Line * m \in Nat /\ Line * s \in Nat BY <1>0
      <3> QED BY <1>0, <1>a, <2>1, <2>2, <2>3, <3>2, <3>3
    <2>5. Line * m >= Line * (s + 1) BY <1>0, <2>4
    <2>6. Line * (s + 1) = Line * s + Line BY <1>0
    <2>7. Line * s \in Nat BY <1>0
    <2> QED BY <1>0, <1>a, <2>1, <2>2, <2>3, <2>5, <2>6, <2>7
  <1> QED BY <1>2, <1>3, <1>6, <1>a, <1>c, <1>d, <1>e, <1>f
-----------------------------------------------------------------------------
\* Descriptors.

Descriptor(lim) == [l : Nat, r : Nat, n : 1 .. lim]

\* The dwords a list of descriptors names; Moved is that of descs.
Named(ds) == UNION {Dwords(ds[i]) : i \in DOMAIN ds}

\* A dword pair is named when one descriptor names it.
LEMMA InNamed ==
    ASSUME NEW ds, NEW m
    PROVE  m \in Named(ds) <=>
              \E i \in DOMAIN ds : \E j \in 0 .. ds[i].n - 1 : m = <<ds[i].l + j, ds[i].r + j>>
  BY DEF Named, Dwords

\* The dwords of two lists are those of either.
LEMMA NamedConcat ==
    ASSUME NEW D, NEW s \in Seq(D), NEW t \in Seq(D)
    PROVE  Named(s \o t) = Named(s) \cup Named(t)
  <1>1. /\ Len(s) \in Nat /\ DOMAIN s = 1 .. Len(s) /\ Len(t) \in Nat /\ DOMAIN t = 1 .. Len(t)
        /\ DOMAIN (s \o t) = 1 .. Len(s) + Len(t)
    OBVIOUS
  <1>2. \A i \in DOMAIN s : i \in DOMAIN (s \o t) /\ (s \o t)[i] = s[i] BY <1>1
  <1>3. \A i \in DOMAIN t : Len(s) + i \in DOMAIN (s \o t) /\ (s \o t)[Len(s) + i] = t[i] BY <1>1
  <1>4. \A i \in DOMAIN (s \o t) :
           \/ i \in DOMAIN s /\ (s \o t)[i] = s[i]
           \/ i - Len(s) \in DOMAIN t /\ (s \o t)[i] = t[i - Len(s)]
    BY <1>1
  <1>5. PICK u : u = s \o t OBVIOUS
  <1>6. Named(u) \subseteq Named(s) \cup Named(t) BY <1>4, <1>5, Zenon DEF Named
  <1>7. Named(s) \subseteq Named(u) BY <1>2, <1>5, Zenon DEF Named
  <1>8. Named(t) \subseteq Named(u) BY <1>3, <1>5, Zenon DEF Named
  <1> QED BY <1>5, <1>6, <1>7, <1>8

\* How many descriptors of at most m dwords cover n dwords.
LEMMA RoundUp ==
    ASSUME NEW n \in Nat, NEW m \in Nat \ {0}
    PROVE  /\ (n + m - 1) \div m \in Nat
           /\ \A i \in Nat : i < (n + m - 1) \div m <=> i * m < n
  <1>1. PICK x \in Nat : x = n + m - 1 OBVIOUS
  <1>2. PICK q \in Nat, r \in 0 .. m - 1 : x = m * q + r /\ x % m = r /\ x \div m = q
    BY DivMod, Zenon
  <1>3. m * q \in Nat OBVIOUS
  <1>4. n = m * q + r - m + 1 BY <1>1, <1>2, <1>3
  <1>5. ASSUME NEW i \in Nat, i < q PROVE i * m < n
    <2>1. m * (i + 1) <= m * q BY <1>5
    <2>2. m * (i + 1) = i * m + m OBVIOUS
    <2>3. i * m \in Nat OBVIOUS
    <2> QED BY <1>3, <1>4, <2>1, <2>2, <2>3
  <1>6. ASSUME NEW i \in Nat, i >= q PROVE i * m >= n
    <2>1. m * i >= m * q BY <1>6
    <2>2. m * i = i * m /\ i * m \in Nat OBVIOUS
    <2> QED BY <1>3, <1>4, <2>1, <2>2
  <1>7. \A i \in Nat : i * m \in Nat OBVIOUS
  <1>8. \A i \in Nat : i < q <=> i * m < n BY <1>5, <1>6, <1>7
  <1> QED BY <1>1, <1>2, <1>8

\* s cuts k dwords from l and r on: the i-th descriptor starts (i - 1) * lim
\* dwords in, before the end, and there is one for every multiple before it.
Cuts(s, l, r, k, lim) ==
    /\ \E c \in Nat : DOMAIN s = 1 .. c
    /\ \A i \in DOMAIN s : \E b \in 0 .. k - 1 :
          b = (i - 1) * lim /\ s[i] = [l |-> l + b, r |-> r + b, n |-> MinOf(k - b, lim)]
    /\ \A i \in Nat : i * lim < k => i + 1 \in DOMAIN s

\* Setup does.
LEMMA SetupCuts ==
    ASSUME NEW l \in Nat, NEW r \in Nat, NEW k \in Nat, NEW lim \in Nat \ {0}
    PROVE  Cuts(Setup(l, r, k, lim), l, r, k, lim)
  <1>z. PICK s : s = Setup(l, r, k, lim) OBVIOUS
  <1>1. PICK c \in Nat : c = (k + lim - 1) \div lim BY RoundUp
  <1>2. \A i \in Nat : i < c <=> i * lim < k BY <1>1, RoundUp
  <1>3. s = [i \in 1 .. c |->
                [l |-> l + (i - 1) * lim, r |-> r + (i - 1) * lim,
                 n |-> MinOf(k - (i - 1) * lim, lim)]]
    BY <1>1, <1>z, Zenon DEF Setup
  <1>4. DOMAIN s = 1 .. c BY <1>3
  <1>5. ASSUME NEW i \in DOMAIN s
        PROVE  \E b \in 0 .. k - 1 :
                 b = (i - 1) * lim /\ s[i] = [l |-> l + b, r |-> r + b, n |-> MinOf(k - b, lim)]
    <2>1. PICK h \in Nat : h = i - 1 /\ h < c BY <1>4
    <2>2. h * lim < k /\ h * lim \in Nat BY <1>2, <2>1
    <2>3. PICK b \in 0 .. k - 1 : b = (i - 1) * lim BY <2>1, <2>2
    <2>4. s[i] = [l |-> l + b, r |-> r + b, n |-> MinOf(k - b, lim)] BY <1>3, <1>4, <2>3
    <2> QED BY <2>3, <2>4
  <1>6. \A i \in Nat : i * lim < k => i + 1 \in DOMAIN s BY <1>2, <1>4
  <1>7. Cuts(s, l, r, k, lim) BY <1>4, <1>5, <1>6, Zenon DEF Cuts
  <1> QED BY <1>7, <1>z

\* k dwords from l and r on.
Pairs(l, r, k) == {<<l + j, r + j>> : j \in 0 .. k - 1}

\* The descriptors are well formed and name k dwords from l and r on.
LEMMA SetupIs ==
    ASSUME NEW l \in Nat, NEW r \in Nat, NEW k \in Nat, NEW lim \in Nat \ {0},
           NEW s, s = Setup(l, r, k, lim)
    PROVE  /\ s \in Seq(Descriptor(lim))
           /\ Named(s) = Pairs(l, r, k)
  <1>0. Cuts(s, l, r, k, lim) BY SetupCuts
  <1>1. PICK c \in Nat : DOMAIN s = 1 .. c BY <1>0 DEF Cuts
  <1>2. \A i \in 1 .. c : \E b \in 0 .. k - 1 :
           b = (i - 1) * lim /\ s[i] = [l |-> l + b, r |-> r + b, n |-> MinOf(k - b, lim)]
    BY <1>0, <1>1, Zenon DEF Cuts
  <1>3. \A b \in 0 .. k - 1 : MinOf(k - b, lim) \in 1 .. lim /\ MinOf(k - b, lim) <= k - b
    BY DEF MinOf
  <1>4. \A i \in 1 .. c : s[i] \in Descriptor(lim)
    <2>1. SUFFICES ASSUME NEW i \in 1 .. c PROVE s[i] \in Descriptor(lim) OBVIOUS
    <2>2. PICK b \in 0 .. k - 1 : s[i] = [l |-> l + b, r |-> r + b, n |-> MinOf(k - b, lim)] BY <1>2
    <2>3. l + b \in Nat /\ r + b \in Nat BY <2>2
    <2> QED BY <1>3, <2>2, <2>3 DEF Descriptor
  <1>5. s \in Seq(Descriptor(lim))
    <2>1. s = [i \in 1 .. c |-> s[i]] BY <1>1 DEF Setup
    <2>2. s \in [1 .. c -> Descriptor(lim)] BY <1>4, <2>1
    <2> QED BY <2>2
  <1>6. ASSUME NEW m \in Named(s) PROVE \E j \in 0 .. k - 1 : m = <<l + j, r + j>>
    <2>1. PICK i \in 1 .. c : \E j \in 0 .. s[i].n - 1 : m = <<s[i].l + j, s[i].r + j>>
      BY <1>1, InNamed
    <2>2. PICK j \in 0 .. s[i].n - 1 : m = <<s[i].l + j, s[i].r + j>> BY <2>1
    <2>3. PICK b \in 0 .. k - 1 : s[i] = [l |-> l + b, r |-> r + b, n |-> MinOf(k - b, lim)] BY <1>2
    <2>4. b + j \in 0 .. k - 1 BY <1>3, <2>3
    <2>5. j \in Nat /\ b \in Nat BY <1>3, <2>3
    <2>6. l + b + j = l + (b + j) /\ r + b + j = r + (b + j) BY <2>5
    <2>7. m = <<l + (b + j), r + (b + j)>> BY <2>2, <2>3, <2>6
    <2> QED BY <2>4, <2>7
  <1>7. ASSUME NEW j \in 0 .. k - 1 PROVE <<l + j, r + j>> \in Named(s)
    <2>1. j \in Nat OBVIOUS
    <2>2. PICK q \in Nat, o \in 0 .. lim - 1 : j = lim * q + o /\ j % lim = o /\ j \div lim = q
      BY <2>1, DivMod, Zenon
    <2>3. lim * q = q * lim /\ q * lim \in Nat OBVIOUS
    <2>4. q * lim < k BY <2>2, <2>3
    <2>5. PICK i \in 1 .. c : i = q + 1 BY <1>0, <1>1, <2>4 DEF Cuts
    <2>6. PICK b \in 0 .. k - 1 : b = (i - 1) * lim /\ s[i] = [l |-> l + b, r |-> r + b, n |-> MinOf(k - b, lim)]
      BY <1>2
    <2>7. i - 1 = q BY <2>5
    <2>8. b = q * lim BY <2>6, <2>7
    <2>9. j = b + o BY <2>2, <2>3, <2>8
    <2>a. o \in 0 .. s[i].n - 1 BY <2>6, <2>9 DEF MinOf
    <2>b. l + j = s[i].l + o /\ r + j = s[i].r + o BY <2>6, <2>9
    <2> QED BY <1>1, <2>a, <2>b, InNamed
  <1> QED BY <1>5, <1>6, <1>7 DEF Pairs

\* Whole blocks from a block boundary on are cut into whole blocks.
LEMMA SetupAligned ==
    ASSUME NEW l \in Nat, NEW r \in Nat, NEW k \in Nat,
           l % Line = 0, r % Line = 0, k % Line = 0,
           NEW s, s = Setup(l, r, k, MaxBtce)
    PROVE  \A i \in DOMAIN s : s[i].l % Line = 0 /\ s[i].r % Line = 0 /\ s[i].n % Line = 0
  <1>0. /\ Line \in Nat \ {0} /\ MaxBtce \in Nat \ {0}
        /\ MaxBtce % Line = 0
    BY Consts
  <1>9. Cuts(s, l, r, k, MaxBtce) BY <1>0, SetupCuts
  <1>1. SUFFICES ASSUME NEW i \in DOMAIN s
                 PROVE  s[i].l % Line = 0 /\ s[i].r % Line = 0 /\ s[i].n % Line = 0
    OBVIOUS
  <1>2. PICK b \in 0 .. k - 1 :
           /\ b = (i - 1) * MaxBtce
           /\ s[i] = [l |-> l + b, r |-> r + b, n |-> MinOf(k - b, MaxBtce)]
    BY <1>9, Zenon DEF Cuts
  <1>3. b % Line = 0
    <2>1. PICK c \in Nat : DOMAIN s = 1 .. c BY <1>9 DEF Cuts
    <2>2. PICK h \in Nat : h = i - 1 BY <2>1
    <2>3. (h * MaxBtce) % Line = 0 BY <1>0, ModTimes
    <2> QED BY <1>2, <2>2, <2>3
  <1>4. (l + b) % Line = 0 /\ (r + b) % Line = 0
    <2>1. b \in Nat OBVIOUS
    <2> QED BY <1>0, <1>3, <2>1, ModAdd
  <1>5. MinOf(k - b, MaxBtce) % Line = 0
    <2>1. PICK d \in Nat : d = k - b OBVIOUS
    <2>2. b \in Nat /\ b + d = k BY <2>1
    <2>3. (b + d) % Line = d % Line BY <1>0, <1>3, <2>2, ModAdd
    <2>4. d % Line = 0 BY <2>2, <2>3
    <2> QED BY <1>0, <2>1, <2>4 DEF MinOf
  <1> QED BY <1>2, <1>4, <1>5
-----------------------------------------------------------------------------
\* What the descriptors stored so far amount to.

\* The pair m is the i-th dword of the request q: on the remote side and,
\* unless the request is a clear, on the local one.
Matches(m, q, i) ==
    /\ m[2] = Phys(q.remote, q.ro + i)
    /\ q.local # NULL => m[1] = Phys(q.local, q.lo + i)

\* The descriptors ds move the first d dwords of the request q: every pair is
\* one of them, each of them is there, and no remote dword is in two pairs.
Moves(ds, q, d) ==
    /\ \A m \in Named(ds) : \E i \in 0 .. d - 1 : Matches(m, q, i)
    /\ \A i \in 0 .. d - 1 : \E m \in Named(ds) : Matches(m, q, i)
    /\ \A m, n \in Named(ds) : m[2] = n[2] => m = n

\* The checks of the callers, as the proofs use them.
LEMMA RequestIs ==
    ASSUME NEW q \in Requests
    PROVE  /\ q.remote \in Regions /\ q.local \in Regions \cup {NULL}
           /\ q.lo \in Nat /\ q.ro \in Nat /\ q.n \in 0 .. MaxLength
           /\ q.ro + q.n <= RegionSize(q.remote)
           /\ q.local # NULL => /\ q.local \in Regions
                                /\ q.lo + q.n <= RegionSize(q.local)
                                /\ q.lo % Line = q.ro % Line
                                /\ ~Short => ~IsShort(q.lo, q.n)
           /\ q.local = NULL => q.ro % Line = 0
  BY Consts DEF Requests, Accepted, AcceptedClear

\* The size of a region is a number.
LEMMA SizeType == ASSUME NEW r \in Regions PROVE RegionSize(r) \in Nat
  <1>1. Len(r) \in Nat /\ Page \in Nat BY RegionType, Consts
  <1> QED BY <1>1 DEF RegionSize

\* Descriptors for the next k dwords after the first d.
LEMMA Extend ==
    ASSUME NEW q \in Requests, NEW D, NEW ds \in Seq(D), NEW t \in Seq(D),
           NEW d \in Nat, NEW k \in Nat, d + k <= q.n, NEW l \in Nat, NEW r \in Nat,
           Named(t) = Pairs(l, r, k),
           \A j \in 0 .. k - 1 : Matches(<<l + j, r + j>>, q, d + j),
           Moves(ds, q, d)
    PROVE  Moves(ds \o t, q, d + k)
  <1>1. PICK N : N = Named(ds \o t) OBVIOUS
  <1>2. N = Named(ds) \cup Named(t) BY <1>1, NamedConcat
  <1>3. ASSUME NEW m \in Named(t) PROVE \E j \in 0 .. k - 1 : m = <<l + j, r + j>> BY DEF Pairs
  <1>4. ASSUME NEW m \in N PROVE \E i \in 0 .. (d + k) - 1 : Matches(m, q, i)
    <2>1. CASE m \in Named(ds)
      <3>1. PICK i \in 0 .. d - 1 : Matches(m, q, i) BY <2>1 DEF Moves
      <3>2. i \in 0 .. (d + k) - 1 OBVIOUS
      <3> QED BY <3>1, <3>2
    <2>2. CASE m \in Named(t)
      <3>1. PICK j \in 0 .. k - 1 : m = <<l + j, r + j>> BY <2>2, <1>3
      <3>2. d + j \in 0 .. (d + k) - 1 OBVIOUS
      <3>3. Matches(m, q, d + j) BY <3>1
      <3> QED BY <3>2, <3>3
    <2> QED BY <1>2, <2>1, <2>2
  <1>5. ASSUME NEW i \in 0 .. (d + k) - 1 PROVE \E m \in N : Matches(m, q, i)
    <2>1. CASE i < d
      <3>1. i \in 0 .. d - 1 BY <2>1
      <3>2. \E m \in Named(ds) : Matches(m, q, i) BY <3>1 DEF Moves
      <3> QED BY <1>2, <3>2
    <2>2. CASE i >= d
      <3>1. PICK j \in 0 .. k - 1 : i = d + j
        <4>1. i - d \in 0 .. k - 1 /\ i = d + (i - d) BY <2>2
        <4> QED BY <4>1
      <3>2. <<l + j, r + j>> \in N BY <1>2 DEF Pairs
      <3> QED BY <3>1, <3>2
    <2> QED BY <2>1, <2>2
  <1>6. ASSUME NEW m \in Named(ds), NEW n \in Named(t) PROVE m[2] # n[2]
    <2>1. PICK i \in 0 .. d - 1 : Matches(m, q, i) BY DEF Moves
    <2>2. PICK j \in 0 .. k - 1 : n = <<l + j, r + j>> BY <1>3
    <2>3. Matches(n, q, d + j) BY <2>2
    <2>4. m[2] = Phys(q.remote, q.ro + i) /\ n[2] = Phys(q.remote, q.ro + (d + j))
      BY <2>1, <2>3 DEF Matches
    <2>5. /\ q.remote \in Regions /\ q.ro \in Nat /\ RegionSize(q.remote) \in Nat /\ q.n \in Nat
          /\ q.ro + q.n <= RegionSize(q.remote)
      BY RequestIs, SizeType, Consts
    <2>6. PICK x, y \in Nat : x = q.ro + i /\ y = q.ro + (d + j) BY <2>5
    <2>7. x < RegionSize(q.remote) /\ y < RegionSize(q.remote) /\ x # y
      <3>1. PICK o, e, n1 \in Nat : o = q.ro /\ e = q.n /\ n1 = RegionSize(q.remote) BY <2>5
      <3>2. o + e <= n1 /\ d + k <= e BY <2>5, <3>1
      <3>3. x = o + i /\ y = o + (d + j) BY <2>6, <3>1
      <3>4. x < n1 /\ y < n1 /\ x # y BY <3>2, <3>3
      <3> QED BY <3>1, <3>4
    <2>8. Phys(q.remote, x) # Phys(q.remote, y) BY <2>5, <2>7, PhysInjective
    <2> QED BY <2>4, <2>6, <2>8
  <1>7. ASSUME NEW m \in Named(t), NEW n \in Named(t), m[2] = n[2] PROVE m = n
    <2>1. PICK i \in 0 .. k - 1 : m = <<l + i, r + i>> BY <1>3
    <2>2. PICK j \in 0 .. k - 1 : n = <<l + j, r + j>> BY <1>3
    <2>3. r + i = r + j BY <1>7, <2>1, <2>2
    <2>4. i = j BY <2>3
    <2> QED BY <2>1, <2>2, <2>4
  <1>8. ASSUME NEW m \in N, NEW n \in N, m[2] = n[2] PROVE m = n
    <2>1. ASSUME NEW a \in Named(ds), NEW b \in Named(ds), a[2] = b[2] PROVE a = b BY <2>1 DEF Moves
    <2> QED BY <1>2, <1>6, <1>7, <1>8, <2>1
  <1> QED BY <1>1, <1>4, <1>5, <1>8 DEF Moves

\* d dwords of the request are d pairs.
LEMMA Count ==
    ASSUME NEW q \in Requests, NEW ds, NEW d \in Nat, d <= q.n, Moves(ds, q, d)
    PROVE  Cardinality(Named(ds)) = d
  <1> DEFINE N == Named(ds)
             f == [i \in 0 .. d - 1 |-> CHOOSE m \in N : Matches(m, q, i)]
  <1>1. ASSUME NEW i \in 0 .. d - 1 PROVE f[i] \in N /\ Matches(f[i], q, i)
    <2>1. \E m \in N : Matches(m, q, i) BY DEF Moves
    <2> QED BY <2>1
  <1>2. \A m, n \in N : m[2] = n[2] => m = n BY DEF Moves
  <1>3. \A m \in N : \E i \in 0 .. d - 1 : Matches(m, q, i) BY DEF Moves
  <1>4. f \in [0 .. d - 1 -> N] BY <1>1
  <1> HIDE DEF N, f
  <1>5. ASSUME NEW i \in 0 .. d - 1, NEW j \in 0 .. d - 1, f[i] = f[j] PROVE i = j
    <2>1. Phys(q.remote, q.ro + i) = Phys(q.remote, q.ro + j) BY <1>1, <1>5 DEF Matches
    <2>2. /\ q.remote \in Regions /\ q.ro \in Nat /\ RegionSize(q.remote) \in Nat /\ q.n \in Nat
          /\ q.ro + q.n <= RegionSize(q.remote)
      BY RequestIs, SizeType, Consts
    <2>3. PICK x, y \in Nat : x = q.ro + i /\ y = q.ro + j BY <2>2
    <2>4. x < RegionSize(q.remote) /\ y < RegionSize(q.remote) BY <2>2, <2>3
    <2>5. x = y BY <2>1, <2>2, <2>3, <2>4, PhysInjective
    <2> QED BY <2>2, <2>3, <2>5
  <1>6. ASSUME NEW m \in N PROVE \E i \in 0 .. d - 1 : f[i] = m
    <2>1. PICK i \in 0 .. d - 1 : Matches(m, q, i) BY <1>3
    <2>2. m[2] = f[i][2] /\ f[i] \in N BY <1>1, <2>1 DEF Matches
    <2> QED BY <1>2, <2>2
  <1>7. f \in Bijection(0 .. d - 1, N)
    <2>1. \A i, j \in 0 .. d - 1 : f[i] = f[j] => i = j BY <1>5
    <2>2. \A m \in N : \E i \in 0 .. d - 1 : f[i] = m BY <1>6
    <2>3. f \in Injection(0 .. d - 1, N) BY <1>4, <2>1 DEF Injection, IsInjective
    <2>4. f \in Surjection(0 .. d - 1, N) BY <1>4, <2>2, Zenon DEF Surjection
    <2> QED BY <2>3, <2>4 DEF Bijection
  <1>8. ExistsBijection(0 .. d - 1, N) BY <1>7 DEF ExistsBijection
  <1>9. IsFiniteSet(0 .. d - 1) /\ Cardinality(0 .. d - 1) = d
    <2>1. PICK e \in Int : e = d - 1 OBVIOUS
    <2>2. IsFiniteSet(0 .. e) /\ Cardinality(0 .. e) = IF 0 > e THEN 0 ELSE e - 0 + 1 BY FS_Interval
    <2> QED BY <2>1, <2>2
  <1> QED BY <1>8, <1>9, FS_Bijection DEF N

\* The pairs of a transfer, and the remote dwords of a clear.
LEMMA Exact ==
    ASSUME NEW q \in Requests, NEW ds, NEW d \in Nat, Moves(ds, q, d)
    PROVE  /\ q.local # NULL =>
                 Named(ds) = {<<Phys(q.local, q.lo + i), Phys(q.remote, q.ro + i)>> : i \in 0 .. d - 1}
           /\ {m[2] : m \in Named(ds)} = {Phys(q.remote, q.ro + i) : i \in 0 .. d - 1}
  <1> DEFINE N == Named(ds)
  <1>1. \A m \in N : \E i \in 0 .. d - 1 : Matches(m, q, i) BY DEF Moves
  <1>2. \A i \in 0 .. d - 1 : \E m \in N : Matches(m, q, i) BY DEF Moves
  <1>3. \A m \in N : m = <<m[1], m[2]>> BY InNamed
  <1> HIDE DEF N
  <1>4. {m[2] : m \in N} = {Phys(q.remote, q.ro + i) : i \in 0 .. d - 1}
    <2>1. \A m \in N : \E i \in 0 .. d - 1 : m[2] = Phys(q.remote, q.ro + i) BY <1>1 DEF Matches
    <2>2. \A i \in 0 .. d - 1 : \E m \in N : m[2] = Phys(q.remote, q.ro + i) BY <1>2 DEF Matches
    <2> QED BY <2>1, <2>2, Zenon
  <1>5. ASSUME q.local # NULL
        PROVE  N = {<<Phys(q.local, q.lo + i), Phys(q.remote, q.ro + i)>> : i \in 0 .. d - 1}
    <2>1. \A m \in N : \A i : Matches(m, q, i) => m = <<Phys(q.local, q.lo + i), Phys(q.remote, q.ro + i)>>
      BY <1>3, <1>5 DEF Matches
    <2> HIDE DEF Matches
    <2> QED BY <1>1, <1>2, <2>1
  <1> QED BY <1>4, <1>5 DEF N
-----------------------------------------------------------------------------
\* The inductive invariant.

\* The requests the library handles as it should: those that reach the end
\* of the block they start in and whose byte count fits 32 bits.
RequestsFit == ~Short /\ MaxLength < Word

InSegment == pc \in {"head", "bulk", "tail"}

\* Both offsets have moved on by what the length has come down, and the
\* descriptors move exactly that much of the request.
Progress ==
    /\ length <= req.n
    /\ loff = req.lo + (req.n - length)
    /\ roff = req.ro + (req.n - length)
    /\ Moves(descs, req, req.n - length)

\* The rest of the current segment follows the two addresses, in the request;
\* it is the rest of the request, unless it ends at a block boundary.
SegmentRest ==
    InSegment =>
        /\ bulk <= length
        /\ \A j \in 0 .. bulk - 1 :
              Matches(<<laddr + j, raddr + j>>, req, req.n - length + j)
        /\ \/ bulk = length
           \/ /\ (roff + bulk) % Line = 0
              /\ req.local # NULL => (loff + bulk) % Line = 0

\* A segment starts at a block boundary or reaches the next one, equally far
\* from it on both sides, and the bulk starts at one.
Boundary ==
    /\ pc = "segment" =>
          IF req.local = NULL THEN roff % Line = 0
          ELSE loff % Line = roff % Line /\ ~IsShort(loff, length)
    /\ pc = "head" => head <= bulk /\ (laddr + head) % Line = 0 /\ (raddr + head) % Line = 0
    /\ pc = "bulk" => laddr % Line = 0 /\ raddr % Line = 0
    /\ pc = "done" => length = 0

IInv == TypeOK /\ Progress /\ SegmentRest /\ Boundary /\ BlocksAligned
-----------------------------------------------------------------------------
\* Types.

\* What _get_region_phys_addr returns past the end of a region and for none.
LEMMA PhysAddrType ==
    ASSUME NEW r \in Regions \cup {NULL}, NEW i \in Nat, NEW g, g = GetRegionPhysAddr(r, i)
    PROVE  /\ g.addr \in Nat /\ g.len \in Nat
           /\ r = NULL => g.addr = 0 /\ g.len = Size - 1
           /\ r # NULL /\ g.len # 0 => i < RegionSize(r)
  <1>0. Page \in Nat \ {0} /\ Size \in Nat \ {0} BY Consts
  <1>1. CASE r = NULL
    <2>1. g = [addr |-> 0, len |-> Size - 1] BY <1>1, Zenon DEF GetRegionPhysAddr
    <2> QED BY <1>0, <1>1, <2>1
  <1>2. CASE r # NULL /\ i < RegionSize(r)
    <2>1. r \in Regions BY <1>2
    <2>2. g.len \in Nat \ {0} /\ g.addr = Phys(r, i) BY <1>2, <2>1, Contiguous
    <2>3. Phys(r, i) \in Nat BY <1>2, <2>1, PhysType
    <2> QED BY <1>2, <2>2, <2>3
  <1>3. CASE r # NULL /\ ~(i < RegionSize(r))
    <2>1. r \in Regions /\ Len(r) \in Nat BY <1>3, RegionType
    <2>2. PICK q \in Nat, o \in 0 .. Page - 1 : i = Page * q + o /\ i % Page = o /\ i \div Page = q
      BY <1>0, DivMod, Zenon
    <2>3. q >= Len(r)
      <3>1. SUFFICES ASSUME q < Len(r) PROVE FALSE BY <2>1
      <3>2. q \in 0 .. Len(r) - 1 BY <2>1, <3>1
      <3>3. i < RegionSize(r) BY <2>1, <2>2, <3>2, PhysAt
      <3> QED BY <1>3, <3>3
    <2>4. i \div Page + 1 > Len(r) BY <2>1, <2>2, <2>3
    <2>5. g = IF i \div Page + 1 > Len(r) THEN [addr |-> 0, len |-> 0]
              ELSE [addr |-> r[i \div Page + 1] * Page + (i % Page),
                    len |-> Page - (i % Page) + Page * (Run(r, i \div Page + 1) - 1)]
      BY <1>3, Zenon DEF GetRegionPhysAddr
    <2>6. g = [addr |-> 0, len |-> 0] BY <2>4, <2>5
    <2> QED BY <1>3, <2>6
  <1> QED BY <1>1, <1>2, <1>3

\* Storing the descriptors of a part keeps the types.
LEMMA EmitType ==
    ASSUME TypeOK, NEW k \in Nat, NEW lim \in 1 .. MaxBtce, Emit(k, lim)
    PROVE  /\ descs' \in Seq([l : Nat, r : Nat, n : 1 .. MaxBtce])
           /\ laddr' \in Nat /\ raddr' \in Nat
  <1>0. MaxBtce \in Nat \ {0} BY Consts
  <1>1. PICK l, r \in Nat : l = laddr /\ r = raddr BY DEF TypeOK
  <1>2. PICK s : s = Setup(l, r, k, lim) OBVIOUS
  <1>3. lim \in Nat \ {0} BY <1>0
  <1>4. s \in Seq(Descriptor(lim)) BY <1>2, <1>3, SetupIs
  <1>5. Descriptor(lim) \subseteq Descriptor(MaxBtce) BY <1>0 DEF Descriptor
  <1>6. s \in Seq(Descriptor(MaxBtce)) BY <1>4, <1>5
  <1>7. descs \in Seq(Descriptor(MaxBtce)) BY DEF TypeOK, Descriptor
  <1>8. descs' = descs \o s /\ laddr' = l + k /\ raddr' = r + k BY <1>1, <1>2 DEF Emit
  <1>9. descs' \in Seq(Descriptor(MaxBtce)) BY <1>6, <1>7, <1>8
  <1> QED BY <1>8, <1>9 DEF Descriptor

\* So does moving the offsets on.
LEMMA UpdateType ==
    ASSUME TypeOK, NEW x \in Nat, UpdateLengthOffset(x)
    PROVE  length' \in 0 .. Size - 1 /\ loff' \in Nat /\ roff' \in Nat
  <1>0. Word \in Nat \ {0} /\ Size \in Nat \ {0} BY Consts
  <1>1. PICK y \in Nat : y = x % Word BY <1>0
  <1>2. length \in Int /\ loff \in Nat /\ roff \in Nat BY <1>0 DEF TypeOK
  <1>3. length' = (length - y) % Size /\ loff' = loff + y /\ roff' = roff + y
    BY <1>1 DEF UpdateLengthOffset
  <1>4. PICK z \in Int : z = length - y BY <1>2
  <1>5. z % Size \in 0 .. Size - 1 BY <1>0
  <1> QED BY <1>2, <1>3, <1>4, <1>5

\* The smaller of two numbers.
LEMMA MinIs ==
    \A a, b \in Nat : MinOf(a, b) \in Nat /\ MinOf(a, b) <= a /\ MinOf(a, b) <= b
                      /\ (MinOf(a, b) = a \/ MinOf(a, b) = b)
  BY DEF MinOf

\* What Segment finds: both sides, by name.
LEMMA SegmentIs ==
    ASSUME TypeOK, Segment
    PROVE  \E a, b : \E lead \in 0 .. Line - 1, m \in Nat :
              /\ a = GetRegionPhysAddr(req.local, loff) /\ a.addr \in Nat /\ a.len \in Nat
              /\ b = GetRegionPhysAddr(req.remote, roff) /\ b.addr \in Nat /\ b.len \in Nat
              /\ lead = a.addr % Line
              /\ m = MinOf(MinOf(a.len, b.len), length)
              /\ \/ /\ a.len = 0 \/ b.len = 0
                    /\ pc' = "error" /\ UNCHANGED <<laddr, raddr, head, bulk>>
                 \/ /\ a.len # 0 /\ b.len # 0
                    /\ pc' = "head" /\ laddr' = a.addr /\ raddr' = b.addr
                    /\ head' = IF lead = 0 THEN 0 ELSE Line - lead
                    /\ bulk' = m % (4 * Word)
  <1>0. Line \in Nat \ {0} /\ Size \in Nat BY Consts
  <1>1. req.local \in Regions \cup {NULL} /\ req.remote \in Regions \cup {NULL}
    BY RequestIs DEF TypeOK
  <1>2. PICK i, j \in Nat : i = loff /\ j = roff BY DEF TypeOK
  <1>3. PICK rl, rr \in Regions \cup {NULL} : rl = req.local /\ rr = req.remote BY <1>1
  <1>4. PICK a, b : a = GetRegionPhysAddr(rl, i) /\ b = GetRegionPhysAddr(rr, j) OBVIOUS
  <1>5. a.addr \in Nat /\ a.len \in Nat /\ b.addr \in Nat /\ b.len \in Nat BY <1>4, PhysAddrType
  <1>6. PICK lead \in 0 .. Line - 1 : lead = a.addr % Line BY <1>0, <1>5
  <1>7. length \in Nat BY <1>0 DEF TypeOK
  <1>8. MinOf(MinOf(a.len, b.len), length) \in Nat BY <1>5, <1>7, MinIs
  <1>9. PICK m \in Nat : m = MinOf(MinOf(a.len, b.len), length) BY <1>8
  <1>a. a = GetRegionPhysAddr(req.local, loff) /\ b = GetRegionPhysAddr(req.remote, roff)
    BY <1>2, <1>3, <1>4
  <1>b. IF a.len = 0 \/ b.len = 0
        THEN pc' = "error" /\ UNCHANGED <<laddr, raddr, head, bulk>>
        ELSE /\ pc' = "head" /\ laddr' = a.addr /\ raddr' = b.addr
             /\ head' = IF lead = 0 THEN 0 ELSE Line - lead
             /\ bulk' = m % (4 * Word)
    BY <1>6, <1>9, <1>a, Zenon DEF Segment
  <1> QED BY <1>5, <1>6, <1>9, <1>a, <1>b, Zenon

\* What a part of k dwords does: nothing when there are none.
Part(k, lim) ==
    IF k # 0 THEN UpdateLengthOffset(k) /\ Emit(k, lim)
    ELSE UNCHANGED <<length, loff, roff, laddr, raddr, descs>>

\* Any part keeps the types.
LEMMA PartType ==
    ASSUME TypeOK, NEW k \in Nat, NEW lim \in 1 .. MaxBtce, Part(k, lim)
    PROVE  /\ descs' \in Seq([l : Nat, r : Nat, n : 1 .. MaxBtce])
           /\ {loff', roff', laddr', raddr'} \subseteq Nat /\ length' \in 0 .. Size - 1
  <1>1. CASE k # 0
    <2>1. UpdateLengthOffset(k) /\ Emit(k, lim) BY <1>1 DEF Part
    <2>2. descs' \in Seq([l : Nat, r : Nat, n : 1 .. MaxBtce]) /\ laddr' \in Nat /\ raddr' \in Nat
      BY <2>1, EmitType
    <2>3. length' \in 0 .. Size - 1 /\ loff' \in Nat /\ roff' \in Nat BY <2>1, UpdateType
    <2> QED BY <2>2, <2>3
  <1>2. CASE k = 0 BY <1>2 DEF Part, TypeOK
  <1> QED BY <1>1, <1>2

\* The three parts, by the dwords they take.
LEMMA PartsAre ==
    ASSUME TypeOK
    PROVE  /\ HeadPart => \E k \in 0 .. Line - 1 :
                 k = head /\ Part(k, Small) /\ bulk' = (bulk - k) % (4 * Word)
           /\ BulkPart => \E k \in Nat :
                 /\ k = bulk - (bulk % Line) /\ k % Line = 0 /\ k <= bulk
                 /\ Part(k, MaxBtce) /\ bulk' = bulk - k /\ bulk' \in 0 .. Line - 1
           /\ TailPart => \E k \in Nat : k = bulk /\ Part(k, Small) /\ bulk' = 0
  <1>0. Line \in Nat \ {0} /\ Word \in Nat \ {0} /\ 4 * Word \in Nat \ {0} BY Consts
  <1>1. head \in 0 .. Line - 1 /\ bulk \in Nat BY <1>0 DEF TypeOK
  <1>2. ASSUME HeadPart
        PROVE  \E k \in 0 .. Line - 1 : k = head /\ Part(k, Small) /\ bulk' = (bulk - k) % (4 * Word)
    BY <1>1, <1>2, Zenon DEF HeadPart, Part
  <1>3. ASSUME BulkPart
        PROVE  \E k \in Nat :
                 /\ k = bulk - (bulk % Line) /\ k % Line = 0 /\ k <= bulk
                 /\ Part(k, MaxBtce) /\ bulk' = bulk - k /\ bulk' \in 0 .. Line - 1
    <2>1. PICK b \in Nat : b = bulk BY <1>1
    <2>2. /\ b % Line \in 0 .. Line - 1 /\ b % Line <= b
          /\ b - (b % Line) \in Nat /\ (b - (b % Line)) % Line = 0
      BY <1>0, ModCut
    <2>3. PICK k \in Nat : k = b - (b % Line) BY <2>2
    <2>4. Part(k, MaxBtce) BY <1>3, <2>1, <2>3, Zenon DEF BulkPart, Part
    <2>5. bulk' = b % Line BY <1>3, <2>1 DEF BulkPart
    <2>6. k <= b /\ b % Line = b - k
      <3>1. PICK u \in 0 .. Line - 1 : u = b % Line /\ u <= b BY <2>2
      <3> QED BY <1>0, <2>3, <3>1
    <2> QED BY <2>1, <2>2, <2>3, <2>4, <2>5, <2>6
  <1>4. ASSUME TailPart PROVE \E k \in Nat : k = bulk /\ Part(k, Small) /\ bulk' = 0
    BY <1>1, <1>4, Zenon DEF TailPart, Part
  <1> QED BY <1>2, <1>3, <1>4

\* Every step keeps the types.
LEMMA TypeStep == TypeOK /\ [Next]_vars => TypeOK'
  <1> SUFFICES ASSUME TypeOK, [Next]_vars PROVE TypeOK' OBVIOUS
  <1>0. /\ Line \in Nat \ {0} /\ Word \in Nat \ {0} /\ 4 * Word \in Nat \ {0} /\ Size \in Nat \ {0}
        /\ MaxBtce \in 1 .. MaxBtce /\ Small \in 1 .. MaxBtce /\ Line <= MaxBtce
        /\ Line - 1 \in Nat
    BY Consts
  <1>1. CASE Segment
    <2>1. PICK a, b : \E lead \in 0 .. Line - 1, m \in Nat :
              /\ a.addr \in Nat /\ b.addr \in Nat
              /\ \/ pc' = "error" /\ UNCHANGED <<laddr, raddr, head, bulk>>
                 \/ /\ pc' = "head" /\ laddr' = a.addr /\ raddr' = b.addr
                    /\ head' = IF lead = 0 THEN 0 ELSE Line - lead
                    /\ bulk' = m % (4 * Word)
      BY <1>1, SegmentIs, Zenon
    <2>2. PICK lead \in 0 .. Line - 1, m \in Nat :
              /\ a.addr \in Nat /\ b.addr \in Nat
              /\ \/ pc' = "error" /\ UNCHANGED <<laddr, raddr, head, bulk>>
                 \/ /\ pc' = "head" /\ laddr' = a.addr /\ raddr' = b.addr
                    /\ head' = IF lead = 0 THEN 0 ELSE Line - lead
                    /\ bulk' = m % (4 * Word)
      BY <2>1
    <2>3. UNCHANGED <<req, loff, roff, length, descs>> BY <1>1 DEF Segment
    <2>4. m % (4 * Word) \in 0 .. 4 * Word - 1 BY <1>0
    <2>5. /\ pc' \in {"error", "head"} /\ laddr' \in Nat /\ raddr' \in Nat
          /\ head' \in 0 .. Line - 1 /\ bulk' \in 0 .. 4 * Word - 1
      <3>1. (IF lead = 0 THEN 0 ELSE Line - lead) \in 0 .. Line - 1 BY <1>0
      <3>2. laddr \in Nat /\ raddr \in Nat /\ head \in 0 .. Line - 1 /\ bulk \in 0 .. 4 * Word - 1
        BY DEF TypeOK
      <3> QED BY <2>2, <2>4, <3>1, <3>2, Zenon
    <2> QED BY <2>3, <2>5 DEF TypeOK
  <1>2. CASE HeadPart
    <2>1. PICK k \in 0 .. Line - 1 : Part(k, Small) /\ bulk' = (bulk - k) % (4 * Word)
      BY <1>2, PartsAre, Zenon
    <2>2. k \in Nat /\ bulk \in Int /\ bulk - k \in Int BY <1>0 DEF TypeOK
    <2>3. bulk' \in 0 .. 4 * Word - 1 BY <1>0, <2>1, <2>2
    <2>4. /\ descs' \in Seq([l : Nat, r : Nat, n : 1 .. MaxBtce])
          /\ {loff', roff', laddr', raddr'} \subseteq Nat /\ length' \in 0 .. Size - 1
      BY <1>0, <2>1, <2>2, PartType
    <2>5. pc' = "bulk" /\ req' = req /\ head' = head BY <1>2 DEF HeadPart
    <2> QED BY <2>3, <2>4, <2>5 DEF TypeOK
  <1>3. CASE BulkPart
    <2>1. PICK k \in Nat : k <= bulk /\ Part(k, MaxBtce) /\ bulk' = bulk - k BY <1>3, PartsAre, Zenon
    <2>2. bulk' \in 0 .. 4 * Word - 1 BY <1>0, <2>1 DEF TypeOK
    <2>3. /\ descs' \in Seq([l : Nat, r : Nat, n : 1 .. MaxBtce])
          /\ {loff', roff', laddr', raddr'} \subseteq Nat /\ length' \in 0 .. Size - 1
      BY <1>0, <2>1, PartType
    <2>4. pc' = "tail" /\ req' = req /\ head' = 0 BY <1>3 DEF BulkPart
    <2>5. head' \in 0 .. Line - 1 BY <1>0, <2>4
    <2> QED BY <2>2, <2>3, <2>4, <2>5 DEF TypeOK
  <1>4. CASE TailPart
    <2>1. PICK k \in Nat : Part(k, Small) /\ bulk' = 0 BY <1>4, PartsAre, Zenon
    <2>2. /\ descs' \in Seq([l : Nat, r : Nat, n : 1 .. MaxBtce])
          /\ {loff', roff', laddr', raddr'} \subseteq Nat /\ length' \in 0 .. Size - 1
      BY <1>0, <2>1, PartType
    <2>3. pc' \in {"segment", "done"} /\ req' = req /\ head' = head BY <1>4 DEF TailPart
    <2>4. bulk' \in 0 .. 4 * Word - 1 BY <1>0, <2>1
    <2> QED BY <2>2, <2>3, <2>4 DEF TypeOK
  <1>5. CASE UNCHANGED vars BY <1>5 DEF TypeOK, vars
  <1> QED BY <1>1, <1>2, <1>3, <1>4, <1>5 DEF Next

\* The initial states are typed.
LEMMA TypeInit == Init => TypeOK
  <1> SUFFICES ASSUME Init PROVE TypeOK OBVIOUS
  <1>0. /\ Line \in Nat \ {0} /\ Word \in Nat \ {0} /\ Size \in Nat \ {0}
        /\ MaxLength \in 0 .. Size - 1
    BY Consts
  <1>1. req \in Requests BY DEF Init
  <1>2. req.lo \in Nat /\ req.ro \in Nat /\ req.n \in 0 .. MaxLength BY <1>1, RequestIs
  <1>3. length \in 0 .. Size - 1 BY <1>0, <1>2 DEF Init
  <1>4. <<>> \in Seq([l : Nat, r : Nat, n : 1 .. MaxBtce]) OBVIOUS
  <1>5. 0 \in 0 .. Line - 1 /\ 0 \in 0 .. 4 * Word - 1 BY <1>0
  <1> QED BY <1>1, <1>2, <1>3, <1>4, <1>5 DEF Init, TypeOK

\* The types of the transfer's variables, whatever the requests: offsets and
\* addresses never become negative, and no descriptor the loops of SETUP_BTCE
\* store is empty or longer than the engine takes.
THEOREM TransferTypes == Spec => []TypeOK
  BY TypeInit, TypeStep, PTL DEF Spec
-----------------------------------------------------------------------------
\* The steps of the invariant.

\* The numbers of a request that fits do not wrap.
LEMMA NoWrap ==
    ASSUME RequestsFit, NEW x \in Nat, x <= MaxLength
    PROVE  x % Word = x /\ x % (4 * Word) = x /\ x % Size = x
  <1>0. /\ Word \in Nat \ {0} /\ Size \in Nat \ {0} /\ 4 * Word \in Nat \ {0} /\ MaxLength \in Nat
        /\ MaxLength < Word /\ Word <= Size /\ MaxLength < 4 * Word
    BY Consts DEF RequestsFit
  <1>1. \A m \in Nat \ {0} : x < m => x % m = x OBVIOUS
  <1> QED BY <1>0, <1>1

\* A part of at most what is left of the segment moves the request on by as
\* much, and what follows the addresses is the rest of the segment.
LEMMA PartProgress ==
    ASSUME IInv, RequestsFit, InSegment, NEW k \in Nat, k <= bulk, NEW lim \in 1 .. MaxBtce,
           Part(k, lim), req' = req
    PROVE  /\ length' = length - k /\ loff' = loff + k /\ roff' = roff + k
           /\ laddr' = laddr + k /\ raddr' = raddr + k
           /\ Progress'
           /\ \A j \in 0 .. (bulk - k) - 1 :
                 Matches(<<laddr' + j, raddr' + j>>, req, req.n - length' + j)
  <1>0. TypeOK /\ Progress /\ SegmentRest BY DEF IInv
  <1>1. PICK q \in Requests : q = req BY <1>0 DEF TypeOK
  <1>2. PICK n \in 0 .. MaxLength : n = q.n BY RequestIs
  <1>t. length \in Nat /\ bulk \in Nat
    <2>1. Size \in Nat /\ 4 * Word \in Nat BY Consts
    <2> QED BY <1>0, <2>1 DEF TypeOK
  <1>3. PICK e, b, l, r \in Nat : e = length /\ b = bulk /\ l = laddr /\ r = raddr
    <2>1. laddr \in Nat /\ raddr \in Nat BY <1>0 DEF TypeOK
    <2> QED BY <1>t, <2>1
  <1>4. PICK lo, ro \in Nat : lo = loff /\ ro = roff BY <1>0 DEF TypeOK
  <1>5. MaxLength \in Nat /\ e <= n /\ b <= e /\ k <= b
    BY <1>0, <1>1, <1>2, <1>3, Consts DEF Progress, SegmentRest
  <1>6. PICK d \in Nat : d = n - e BY <1>2, <1>3, <1>5
  <1>7. Moves(descs, q, d) /\ lo = q.lo + d /\ ro = q.ro + d
    BY <1>0, <1>1, <1>2, <1>3, <1>4, <1>6 DEF Progress
  <1>8. \A j \in 0 .. b - 1 : Matches(<<l + j, r + j>>, q, d + j)
    <2>1. \A j \in 0 .. bulk - 1 : Matches(<<laddr + j, raddr + j>>, req, req.n - length + j)
      BY <1>0, Zenon DEF SegmentRest
    <2>2. req.n - length = d BY <1>1, <1>2, <1>3, <1>6
    <2> QED BY <1>1, <1>3, <2>1, <2>2, Zenon
  <1>9. /\ length' = e - k /\ loff' = lo + k /\ roff' = ro + k
        /\ laddr' = l + k /\ raddr' = r + k
    <2>1. CASE k = 0 BY <1>3, <1>4, <2>1 DEF Part
    <2>2. CASE k # 0
      <3>1. UpdateLengthOffset(k) /\ Emit(k, lim) BY <2>2 DEF Part
      <3>2. k % Word = k BY <1>2, <1>3, <1>5, NoWrap
      <3>3. PICK y \in Nat : y = e - k /\ y <= MaxLength BY <1>2, <1>3, <1>5
      <3>4. y % Size = y BY <3>3, NoWrap
      <3> QED BY <1>3, <1>4, <3>1, <3>2, <3>3, <3>4 DEF UpdateLengthOffset, Emit
    <2> QED BY <2>1, <2>2
  <1>a. Moves(descs', q, d + k)
    <2>1. CASE k = 0
      <3>1. descs' = descs /\ d + k = d BY <1>6, <2>1 DEF Part
      <3> QED BY <1>7, <3>1
    <2>2. CASE k # 0
      <3>1. PICK s : s = Setup(l, r, k, lim) OBVIOUS
      <3>2. descs' = descs \o s BY <1>3, <2>2, <3>1 DEF Part, Emit
      <3>3. lim \in Nat \ {0} /\ MaxBtce \in Nat BY Consts
      <3>4. s \in Seq(Descriptor(lim)) /\ Named(s) = Pairs(l, r, k)
        BY <3>1, <3>3, SetupIs
      <3>5. Descriptor(lim) \subseteq Descriptor(MaxBtce) BY <3>3 DEF Descriptor
      <3>6. s \in Seq(Descriptor(MaxBtce)) BY <3>4, <3>5
      <3>7. PICK ds \in Seq(Descriptor(MaxBtce)) : ds = descs BY <1>0 DEF TypeOK, Descriptor
      <3>8. Moves(ds, q, d) BY <1>7, <3>7
      <3>9. d + k <= q.n BY <1>2, <1>3, <1>5, <1>6
      <3>a. \A j \in 0 .. k - 1 : Matches(<<l + j, r + j>>, q, d + j)
        <4>1. 0 .. k - 1 \subseteq 0 .. b - 1 BY <1>3, <1>5
        <4> QED BY <1>8, <4>1
      <3>b. Moves(ds \o s, q, d + k) BY <3>4, <3>6, <3>8, <3>9, <3>a, Extend
      <3> QED BY <3>2, <3>7, <3>b
    <2> QED BY <2>1, <2>2
  <1>b. req' = q /\ req'.n = n BY <1>1, <1>2
  <1>c. n - (e - k) = d + k /\ e - k <= n BY <1>2, <1>3, <1>5, <1>6
  <1>d. lo + k = q.lo + (d + k) /\ ro + k = q.ro + (d + k)
    <2>1. q.lo \in Nat /\ q.ro \in Nat BY RequestIs
    <2> QED BY <1>7, <1>6, <2>1
  <1>e. Progress' BY <1>9, <1>a, <1>b, <1>c, <1>d DEF Progress
  <1>f. ASSUME NEW j \in 0 .. (b - k) - 1
        PROVE  Matches(<<l + k + j, r + k + j>>, q, n - (e - k) + j)
    <2>1. PICK i \in 0 .. b - 1 : i = k + j BY <1>3, <1>5
    <2>2. Matches(<<l + i, r + i>>, q, d + i) BY <1>8
    <2>3. l + k + j = l + i /\ r + k + j = r + i /\ n - (e - k) + j = d + i
      BY <1>3, <1>6, <1>c, <2>1
    <2> QED BY <2>2, <2>3
  <1> QED BY <1>1, <1>2, <1>3, <1>4, <1>9, <1>e, <1>f

\* Parts of at most Small dwords, or of whole blocks from a boundary on, keep
\* the long descriptors aligned.
LEMMA PartBlocks ==
    ASSUME TypeOK, BlocksAligned, NEW k \in Nat, NEW lim \in 1 .. MaxBtce, Part(k, lim),
           \/ lim <= Small
           \/ lim = MaxBtce /\ k % Line = 0 /\ laddr % Line = 0 /\ raddr % Line = 0
    PROVE  BlocksAligned'
  <1>1. CASE k = 0
    <2>1. descs' = descs BY <1>1 DEF Part
    <2> QED BY <2>1 DEF BlocksAligned
  <1>2. CASE k # 0
    <2>0. MaxBtce \in Nat \ {0} /\ Small \in Nat /\ lim \in Nat \ {0} BY Consts
    <2>1. PICK l, r \in Nat : l = laddr /\ r = raddr BY DEF TypeOK
    <2>2. PICK s : s = Setup(l, r, k, lim) OBVIOUS
    <2>3. descs' = descs \o s BY <1>2, <2>1, <2>2 DEF Part, Emit
    <2>4. s \in Seq(Descriptor(lim)) BY <2>0, <2>2, SetupIs
    <2>5. descs \in Seq(Descriptor(MaxBtce)) BY DEF TypeOK, Descriptor
    <2>6. Descriptor(lim) \subseteq Descriptor(MaxBtce) BY <2>0 DEF Descriptor
    <2>7. s \in Seq(Descriptor(MaxBtce)) BY <2>4, <2>6
    <2>8. \A i \in DOMAIN s : s[i].n > Small =>
             s[i].l % Line = 0 /\ s[i].r % Line = 0 /\ s[i].n % Line = 0
      <3>1. CASE lim <= Small
        <4>1. \A i \in DOMAIN s : s[i] \in Descriptor(lim) BY <2>4
        <4>2. \A i \in DOMAIN s : s[i].n \in 1 .. lim BY <4>1 DEF Descriptor
        <4> QED BY <2>0, <3>1, <4>2
      <3>2. CASE lim = MaxBtce /\ k % Line = 0 /\ laddr % Line = 0 /\ raddr % Line = 0
        <4>1. s = Setup(l, r, k, MaxBtce) /\ l % Line = 0 /\ r % Line = 0 BY <2>1, <2>2, <3>2
        <4> QED BY <3>2, <4>1, SetupAligned
      <3> QED BY <3>1, <3>2
    <2>9. \A i \in DOMAIN descs' :
             \/ i \in DOMAIN descs /\ descs'[i] = descs[i]
             \/ i - Len(descs) \in DOMAIN s /\ descs'[i] = s[i - Len(descs)]
      BY <2>3, <2>5, <2>7
    <2> QED BY <2>8, <2>9, Zenon DEF BlocksAligned
  <1> QED BY <1>1, <1>2

\* The next segment: what is contiguous on both sides belongs to the request,
\* ends at a block boundary unless it is the last, and holds its head part.
LEMMA SegmentStep ==
    ASSUME IInv, RequestsFit, Segment
    PROVE  Progress' /\ SegmentRest' /\ Boundary' /\ BlocksAligned'
  <1>0. TypeOK /\ Progress /\ Boundary /\ BlocksAligned /\ pc = "segment" BY DEF IInv, Segment
  <1>1. req' = req /\ loff' = loff /\ roff' = roff /\ length' = length /\ descs' = descs
    BY DEF Segment
  <1>2. Progress' BY <1>0, <1>1 DEF Progress
  <1>3. BlocksAligned' BY <1>0, <1>1 DEF BlocksAligned
  <1>4. PICK a, b : \E lead \in 0 .. Line - 1, m \in Nat :
              /\ a = GetRegionPhysAddr(req.local, loff) /\ a.addr \in Nat /\ a.len \in Nat
              /\ b = GetRegionPhysAddr(req.remote, roff) /\ b.addr \in Nat /\ b.len \in Nat
              /\ lead = a.addr % Line
              /\ m = MinOf(MinOf(a.len, b.len), length)
              /\ \/ /\ a.len = 0 \/ b.len = 0
                    /\ pc' = "error" /\ UNCHANGED <<laddr, raddr, head, bulk>>
                 \/ /\ a.len # 0 /\ b.len # 0
                    /\ pc' = "head" /\ laddr' = a.addr /\ raddr' = b.addr
                    /\ head' = IF lead = 0 THEN 0 ELSE Line - lead
                    /\ bulk' = m % (4 * Word)
    BY <1>0, SegmentIs, Zenon
  <1>5. PICK lead \in 0 .. Line - 1, m \in Nat :
              /\ a = GetRegionPhysAddr(req.local, loff) /\ a.addr \in Nat /\ a.len \in Nat
              /\ b = GetRegionPhysAddr(req.remote, roff) /\ b.addr \in Nat /\ b.len \in Nat
              /\ lead = a.addr % Line
              /\ m = MinOf(MinOf(a.len, b.len), length)
              /\ \/ /\ a.len = 0 \/ b.len = 0
                    /\ pc' = "error" /\ UNCHANGED <<laddr, raddr, head, bulk>>
                 \/ /\ a.len # 0 /\ b.len # 0
                    /\ pc' = "head" /\ laddr' = a.addr /\ raddr' = b.addr
                    /\ head' = IF lead = 0 THEN 0 ELSE Line - lead
                    /\ bulk' = m % (4 * Word)
    BY <1>4, Zenon
  <1>6. CASE pc' = "error" BY <1>2, <1>3, <1>6 DEF SegmentRest, Boundary, InSegment
  <1>7. CASE pc' = "head"
    <2>0. /\ a.len # 0 /\ b.len # 0 /\ laddr' = a.addr /\ raddr' = b.addr
          /\ head' = (IF lead = 0 THEN 0 ELSE Line - lead) /\ bulk' = m % (4 * Word)
      BY <1>5, <1>7
    <2>1. PICK q \in Requests : q = req BY <1>0 DEF TypeOK
    <2>2. PICK n, e \in Nat : n = q.n /\ e = length /\ e <= n /\ n <= MaxLength
      <3>1. Size \in Nat /\ MaxLength \in Nat BY Consts
      <3>2. q.n \in Nat /\ q.n <= MaxLength BY <3>1, RequestIs
      <3>3. length \in Nat BY <1>0, <3>1 DEF TypeOK
      <3> QED BY <1>0, <2>1, <3>2, <3>3 DEF Progress
    <2>3. PICK i, j \in Nat : i = loff /\ j = roff BY <1>0 DEF TypeOK
    <2>4. PICK d \in Nat : d = n - e BY <2>2
    <2>5. i = q.lo + d /\ j = q.ro + d BY <1>0, <2>1, <2>2, <2>3, <2>4 DEF Progress
    <2>6. /\ q.remote \in Regions /\ q.lo \in Nat /\ q.ro \in Nat
          /\ q.local \in Regions \cup {NULL} /\ q.remote # NULL
      BY RequestIs, RegionType
    <2>7. a = GetRegionPhysAddr(q.local, i) /\ b = GetRegionPhysAddr(q.remote, j)
      BY <1>5, <2>1, <2>3
    <2>8. Line \in Nat \ {0} /\ Size \in Nat \ {0} /\ MaxLength <= Size - 1 /\ MaxLength \in Nat
      BY Consts
    <2>9. /\ m <= a.len /\ m <= b.len /\ m <= e
          /\ m = a.len \/ m = b.len \/ m = e
      <3>1. PICK x \in Nat : x = MinOf(a.len, b.len) BY <1>5, MinIs
      <3>2. x <= a.len /\ x <= b.len /\ (x = a.len \/ x = b.len) BY <1>5, <3>1, MinIs
      <3>3. m <= x /\ m <= e /\ (m = x \/ m = e) BY <1>5, <2>2, <3>1, MinIs
      <3> QED BY <1>5, <3>2, <3>3
    <2>a. bulk' = m BY <2>0, <2>2, <2>8, <2>9, NoWrap
    <2>b. j < RegionSize(q.remote) BY <2>0, <2>6, <2>7, PhysAddrType
    <2>c. /\ \A x \in 0 .. b.len - 1 : Phys(q.remote, j + x) = b.addr + x
          /\ b.addr = Phys(q.remote, j) /\ (j + b.len) % Line = 0
          /\ j % Line # 0 => Line - (j % Line) <= b.len
      BY <2>6, <2>7, <2>b, Contiguous
    <2>d. b.addr % Line = j % Line BY <2>6, <2>b, <2>c, PhysMod
    <2>e. ASSUME q.local # NULL
          PROVE  /\ \A x \in 0 .. a.len - 1 : Phys(q.local, i + x) = a.addr + x
                 /\ (i + a.len) % Line = 0 /\ a.addr % Line = i % Line
                 /\ i % Line # 0 => Line - (i % Line) <= a.len
      <3>1. q.local \in Regions BY <2>6, <2>e
      <3>2. i < RegionSize(q.local) BY <2>0, <2>6, <2>7, <2>e, PhysAddrType
      <3>3. /\ \A x \in 0 .. a.len - 1 : Phys(q.local, i + x) = a.addr + x
            /\ a.addr = Phys(q.local, i) /\ (i + a.len) % Line = 0
            /\ i % Line # 0 => Line - (i % Line) <= a.len
        BY <2>7, <3>1, <3>2, Contiguous
      <3>4. a.addr % Line = i % Line BY <3>1, <3>2, <3>3, PhysMod
      <3> QED BY <3>3, <3>4
    <2>f. q.local = NULL => a.addr = 0 /\ a.len = Size - 1 BY <2>6, <2>7, PhysAddrType
    <2>g. q.local # NULL => i % Line = j % Line /\ ~IsShort(i, e)
      BY <1>0, <2>1, <2>2, <2>3 DEF Boundary
    <2>h. q.local = NULL => j % Line = 0 BY <1>0, <2>1, <2>3 DEF Boundary
    <2>i. ASSUME NEW x \in 0 .. m - 1 PROVE Matches(<<a.addr + x, b.addr + x>>, q, n - e + x)
      <3>1. x \in Nat /\ n - e + x = d + x BY <2>4
      <3>2. x \in 0 .. b.len - 1 /\ x \in 0 .. a.len - 1 BY <1>5, <2>9
      <3>3. q.ro + (d + x) = j + x /\ q.lo + (d + x) = i + x BY <2>4, <2>5, <2>6, <3>1
      <3>4. Phys(q.remote, j + x) = b.addr + x BY <2>c, <3>2
      <3>5. q.local # NULL => Phys(q.local, i + x) = a.addr + x BY <2>e, <3>2
      <3> QED BY <3>1, <3>3, <3>4, <3>5 DEF Matches
    <2>j. \/ m = e
          \/ (j + m) % Line = 0 /\ (q.local # NULL => (i + m) % Line = 0)
      <3>0. i % Line = j % Line => (i + m) % Line = (j + m) % Line
        <4>1. \A u, v, x \in Nat : u % Line = v % Line => (u + x) % Line = (v + x) % Line
          BY <2>8, ModSame, Zenon
        <4> QED BY <4>1, Zenon
      <3>1. CASE m = b.len
        <4>1. (j + m) % Line = 0 BY <2>c, <3>1
        <4>2. q.local # NULL => (i + m) % Line = (j + m) % Line BY <2>g, <3>0, Zenon
        <4> QED BY <4>1, <4>2
      <3>2. CASE m = a.len /\ q.local # NULL
        <4>1. (i + m) % Line = 0 BY <2>e, <3>2
        <4>2. (i + m) % Line = (j + m) % Line BY <2>g, <3>0, <3>2, Zenon
        <4> QED BY <4>1, <4>2
      <3>3. CASE m = a.len /\ q.local = NULL BY <2>2, <2>8, <2>9, <2>f, <3>3
      <3> QED BY <2>9, <3>1, <3>2, <3>3
    <2>k. SegmentRest'
      <3>1. req' = q /\ length' = e /\ loff' = i /\ roff' = j /\ bulk' = m
            /\ laddr' = a.addr /\ raddr' = b.addr /\ q.n = n
        BY <1>1, <2>0, <2>1, <2>2, <2>3, <2>a
      <3>2. \A x \in 0 .. m - 1 : Matches(<<a.addr + x, b.addr + x>>, q, n - e + x) BY <2>i
      <3> QED BY <2>9, <2>j, <3>1, <3>2 DEF SegmentRest
    <2>l. head' <= m /\ (a.addr + head') % Line = 0 /\ (b.addr + head') % Line = 0
      <3>1. CASE lead = 0
        <4>1. head' = 0 BY <2>0, <3>1
        <4>2. a.addr % Line = 0 BY <1>5, <3>1
        <4>3. b.addr % Line = 0 BY <2>d, <2>e, <2>g, <2>h, <4>2
        <4>4. a.addr + 0 = a.addr /\ b.addr + 0 = b.addr BY <1>5
        <4> QED BY <4>1, <4>2, <4>3, <4>4
      <3>2. CASE lead # 0
        <4>0. 0 % Line = 0 BY <2>8
        <4>1. q.local # NULL BY <1>5, <2>f, <3>2, <4>0
        <4>2. lead = i % Line /\ lead = j % Line /\ lead = b.addr % Line BY <1>5, <2>d, <2>e, <2>g, <4>1
        <4>3. PICK h \in 1 .. Line - 1 : h = Line - lead BY <2>8, <3>2
        <4>4. head' = h BY <2>0, <3>2, <4>3
        <4>5. h <= a.len /\ h <= b.len BY <2>c, <2>e, <3>2, <4>1, <4>2, <4>3
        <4>6. h <= e
          <5>1. ~(e < Line - lead) BY <2>g, <3>2, <4>1, <4>2 DEF IsShort
          <5> QED BY <2>8, <4>3, <5>1
        <4>7. h <= m BY <2>9, <4>5, <4>6
        <4>a. PICK y, z \in Nat : y = a.addr /\ z = b.addr BY <1>5
        <4>b. y % Line = z % Line /\ y % Line # 0 BY <1>5, <3>2, <4>2, <4>a
        <4>8. (y + (Line - (y % Line))) % Line = 0 BY <2>8, <4>b, ModUp
        <4>9. (z + (Line - (y % Line))) % Line = 0 BY <2>8, <4>b, ModUp
        <4> QED BY <1>5, <4>3, <4>4, <4>7, <4>8, <4>9, <4>a
      <3> QED BY <3>1, <3>2
    <2>m. Boundary' BY <1>7, <2>0, <2>a, <2>l DEF Boundary
    <2> QED BY <1>2, <1>3, <2>k, <2>m
  <1> QED BY <1>5, <1>6, <1>7

\* A part leaves the rest of the segment as it was.
LEMMA RestKept ==
    ASSUME IInv, RequestsFit, InSegment, NEW k \in Nat, k <= bulk, NEW lim \in 1 .. MaxBtce,
           Part(k, lim), req' = req, bulk' = bulk - k
    PROVE  SegmentRest'
  <1>0. TypeOK /\ SegmentRest BY DEF IInv
  <1>1. /\ length' = length - k /\ loff' = loff + k /\ roff' = roff + k
        /\ laddr' = laddr + k /\ raddr' = raddr + k
        /\ \A j \in 0 .. (bulk - k) - 1 :
              Matches(<<laddr' + j, raddr' + j>>, req, req.n - length' + j)
    BY PartProgress
  <1>2. PICK e, b, lo, ro \in Nat : e = length /\ b = bulk /\ lo = loff /\ ro = roff
    <2>1. Size \in Nat /\ 4 * Word \in Nat BY Consts
    <2>2. length \in Nat /\ bulk \in Nat /\ loff \in Nat /\ roff \in Nat BY <1>0, <2>1 DEF TypeOK
    <2> QED BY <2>2
  <1>3. b <= e /\ (b = e \/ ((ro + b) % Line = 0 /\ (req.local # NULL => (lo + b) % Line = 0)))
    BY <1>0, <1>2 DEF SegmentRest
  <1>4. PICK f, c, mo, so \in Nat : f = length' /\ c = bulk' /\ mo = loff' /\ so = roff'
    BY <1>1, <1>2, <1>3
  <1>5. f = e - k /\ c = b - k /\ mo = lo + k /\ so = ro + k BY <1>1, <1>2, <1>4
  <1>6. c <= f /\ (b = e => c = f) /\ mo + c = lo + b /\ so + c = ro + b BY <1>2, <1>3, <1>5
  <1>7. c = f \/ ((so + c) % Line = 0 /\ (req'.local # NULL => (mo + c) % Line = 0))
    BY <1>3, <1>6
  <1>8. \A j \in 0 .. bulk' - 1 : Matches(<<laddr' + j, raddr' + j>>, req', req'.n - length' + j)
    BY <1>1, Zenon
  <1> QED BY <1>4, <1>6, <1>7, <1>8 DEF SegmentRest

\* The head part takes the addresses to the block boundary.
LEMMA HeadStep ==
    ASSUME IInv, RequestsFit, HeadPart
    PROVE  Progress' /\ SegmentRest' /\ Boundary' /\ BlocksAligned'
  <1>0. TypeOK /\ Progress /\ SegmentRest /\ Boundary /\ BlocksAligned BY DEF IInv
  <1>1. pc = "head" /\ pc' = "bulk" /\ req' = req BY DEF HeadPart
  <1>2. InSegment BY <1>1 DEF InSegment
  <1>3. PICK k \in 0 .. Line - 1 : k = head /\ Part(k, Small) /\ bulk' = (bulk - k) % (4 * Word)
    BY <1>0, PartsAre, Zenon
  <1>4. k \in Nat /\ Small \in 1 .. MaxBtce /\ Small <= Small /\ MaxLength \in Nat BY Consts
  <1>5. k <= bulk /\ (laddr + k) % Line = 0 /\ (raddr + k) % Line = 0 BY <1>0, <1>1, <1>3 DEF Boundary
  <1>6. bulk' = bulk - k
    <2>1. bulk <= length /\ length <= req.n BY <1>0, <1>2 DEF SegmentRest, Progress
    <2>2. req.n \in Nat /\ req.n <= MaxLength BY <1>0, <1>4, RequestIs DEF TypeOK
    <2>3. bulk \in Nat /\ length \in Nat
      <3>1. Size \in Nat /\ 4 * Word \in Nat BY Consts
      <3> QED BY <1>0, <3>1 DEF TypeOK
    <2>4. PICK x \in Nat : x = bulk - k /\ x <= MaxLength BY <1>4, <1>5, <2>1, <2>2, <2>3
    <2>5. x % (4 * Word) = x BY <2>4, NoWrap
    <2> QED BY <1>3, <2>4, <2>5
  <1>7. laddr' = laddr + k /\ raddr' = raddr + k /\ Progress'
    BY <1>1, <1>2, <1>3, <1>4, <1>5, PartProgress
  <1>8. SegmentRest' BY <1>1, <1>2, <1>3, <1>4, <1>5, <1>6, RestKept
  <1>9. BlocksAligned' BY <1>0, <1>3, <1>4, PartBlocks
  <1>a. Boundary' BY <1>1, <1>5, <1>7 DEF Boundary
  <1> QED BY <1>7, <1>8, <1>9, <1>a

\* The bulk part takes whole blocks from the boundary on.
LEMMA BulkStep ==
    ASSUME IInv, RequestsFit, BulkPart
    PROVE  Progress' /\ SegmentRest' /\ Boundary' /\ BlocksAligned'
  <1>0. TypeOK /\ Boundary /\ BlocksAligned BY DEF IInv
  <1>1. pc = "bulk" /\ pc' = "tail" /\ req' = req BY DEF BulkPart
  <1>2. InSegment BY <1>1 DEF InSegment
  <1>3. PICK k \in Nat : k % Line = 0 /\ k <= bulk /\ Part(k, MaxBtce) /\ bulk' = bulk - k
    BY <1>0, PartsAre, Zenon
  <1>4. MaxBtce \in 1 .. MaxBtce BY Consts
  <1>5. laddr % Line = 0 /\ raddr % Line = 0 BY <1>0, <1>1 DEF Boundary
  <1>6. Progress' BY <1>1, <1>2, <1>3, <1>4, PartProgress
  <1>7. SegmentRest' BY <1>1, <1>2, <1>3, <1>4, RestKept
  <1>8. BlocksAligned' BY <1>0, <1>3, <1>4, <1>5, PartBlocks
  <1>9. Boundary' BY <1>1 DEF Boundary
  <1> QED BY <1>6, <1>7, <1>8, <1>9

\* The tail part ends the segment: at a block boundary, or with the request.
LEMMA TailStep ==
    ASSUME IInv, RequestsFit, TailPart
    PROVE  Progress' /\ SegmentRest' /\ Boundary' /\ BlocksAligned'
  <1>0. TypeOK /\ SegmentRest /\ BlocksAligned BY DEF IInv
  <1>1. pc = "tail" /\ pc' = (IF length' > 0 THEN "segment" ELSE "done") /\ req' = req
    BY DEF TailPart
  <1>2. InSegment BY <1>1 DEF InSegment
  <1>3. PICK k \in Nat : k = bulk /\ Part(k, Small) /\ bulk' = 0 BY <1>0, PartsAre, Zenon
  <1>4. Small \in 1 .. MaxBtce /\ Small <= Small BY Consts
  <1>5. k <= bulk BY <1>3
  <1>6. length' = length - k /\ loff' = loff + k /\ roff' = roff + k /\ Progress'
    BY <1>1, <1>2, <1>3, <1>4, <1>5, PartProgress
  <1>7. SegmentRest' BY <1>1 DEF SegmentRest, InSegment
  <1>8. BlocksAligned' BY <1>0, <1>3, <1>4, PartBlocks
  <1>9. Boundary'
    <2>1. length \in Nat /\ k <= length /\ length - k \in Nat
      <3>1. Size \in Nat BY Consts
      <3>2. length \in Nat /\ bulk <= length BY <1>0, <1>2, <3>1 DEF TypeOK, SegmentRest
      <3> QED BY <1>3, <3>2
    <2>2. CASE length' > 0
      <3>1. pc' = "segment" BY <1>1, <2>2
      <3>2. bulk # length BY <1>3, <1>6, <2>1, <2>2
      <3>3. (roff + bulk) % Line = 0 /\ (req.local # NULL => (loff + bulk) % Line = 0)
        BY <1>0, <1>2, <3>2 DEF SegmentRest
      <3>4. roff' % Line = 0 /\ (req'.local # NULL => loff' % Line = 0) BY <1>1, <1>3, <1>6, <3>3
      <3> QED BY <3>1, <3>4 DEF Boundary, IsShort
    <2>3. CASE ~(length' > 0)
      <3>1. pc' = "done" BY <1>1, <2>3
      <3>2. length' = 0 BY <1>6, <2>1, <2>3
      <3> QED BY <3>1, <3>2 DEF Boundary
    <2> QED BY <2>2, <2>3
  <1> QED BY <1>6, <1>7, <1>8, <1>9

\* Every step keeps the invariant.
LEMMA IInvStep == ASSUME RequestsFit PROVE IInv /\ [Next]_vars => IInv'
  <1> SUFFICES ASSUME IInv, [Next]_vars PROVE IInv' OBVIOUS
  <1>1. TypeOK' BY TypeStep DEF IInv
  <1>2. CASE Segment BY <1>1, <1>2, SegmentStep DEF IInv
  <1>3. CASE HeadPart BY <1>1, <1>3, HeadStep DEF IInv
  <1>4. CASE BulkPart BY <1>1, <1>4, BulkStep DEF IInv
  <1>5. CASE TailPart BY <1>1, <1>5, TailStep DEF IInv
  <1>6. CASE UNCHANGED vars
    <2>1. Progress' BY <1>6 DEF IInv, Progress, vars
    <2>2. SegmentRest' BY <1>6 DEF IInv, SegmentRest, InSegment, vars
    <2>3. Boundary' BY <1>6 DEF IInv, Boundary, vars
    <2>4. BlocksAligned' BY <1>6 DEF IInv, BlocksAligned, vars
    <2> QED BY <1>1, <2>1, <2>2, <2>3, <2>4 DEF IInv
  <1> QED BY <1>2, <1>3, <1>4, <1>5, <1>6 DEF Next

\* It holds initially: nothing is moved yet.
LEMMA IInvInit == ASSUME RequestsFit PROVE Init => IInv
  <1> SUFFICES ASSUME Init PROVE IInv OBVIOUS
  <1>1. TypeOK BY TypeInit
  <1>2. PICK q \in Requests : q = req BY <1>1 DEF TypeOK
  <1>3. /\ loff = q.lo /\ roff = q.ro /\ length = q.n /\ descs = <<>> /\ pc = "segment"
    BY <1>2 DEF Init
  <1>4. q.n \in Nat /\ q.lo \in Nat /\ q.ro \in Nat BY RequestIs, Consts
  <1>5. \A m : m \notin Named(<<>>) BY InNamed
  <1>6. Moves(<<>>, q, 0) BY <1>5 DEF Moves
  <1>7. q.n - q.n = 0 /\ q.lo + 0 = q.lo /\ q.ro + 0 = q.ro BY <1>4
  <1>8. Progress BY <1>2, <1>3, <1>4, <1>6, <1>7 DEF Progress
  <1>9. SegmentRest BY <1>3 DEF SegmentRest, InSegment
  <1>a. Boundary
    <2>1. q.local = NULL => q.ro % Line = 0 BY RequestIs
    <2>2. q.local # NULL => q.lo % Line = q.ro % Line /\ ~IsShort(q.lo, q.n)
      BY RequestIs DEF RequestsFit
    <2> QED BY <1>2, <1>3, <2>1, <2>2 DEF Boundary
  <1>b. BlocksAligned BY <1>3 DEF BlocksAligned
  <1> QED BY <1>1, <1>8, <1>9, <1>a, <1>b DEF IInv

\* The descriptors name as many pairs as the length has come down.
LEMMA MovedCount == IInv => Cardinality(Moved) = req.n - length /\ length \in 0 .. req.n /\ req.n \in Nat
  <1> SUFFICES ASSUME IInv PROVE Cardinality(Moved) = req.n - length /\ length \in 0 .. req.n /\ req.n \in Nat
    OBVIOUS
  <1>1. PICK q \in Requests : q = req BY DEF IInv, TypeOK
  <1>2. q.n \in Nat BY RequestIs, Consts
  <1>3. PICK e \in Nat : e = length /\ e <= q.n
    <2>1. Size \in Nat BY Consts
    <2> QED BY <1>1, <2>1 DEF IInv, TypeOK, Progress
  <1>4. PICK d \in Nat : d = q.n - e BY <1>2, <1>3
  <1>5. PICK ds : ds = descs OBVIOUS
  <1>6. Moves(ds, q, d) /\ d <= q.n BY <1>1, <1>2, <1>3, <1>4, <1>5 DEF IInv, Progress
  <1>7. Cardinality(Named(ds)) = d BY <1>6, Count
  <1>8. Moved = Named(ds) BY <1>5 DEF Moved, Named
  <1> QED BY <1>1, <1>2, <1>3, <1>4, <1>7, <1>8

\* The invariant says what the run checks.
LEMMA IInvMeans == IInv => ExactlyTheRequest /\ NeverBeyond
  <1> SUFFICES ASSUME IInv PROVE ExactlyTheRequest /\ NeverBeyond OBVIOUS
  <1>1. Cardinality(Moved) = req.n - length /\ length \in 0 .. req.n /\ req.n \in Nat BY MovedCount
  <1>2. NeverBeyond BY <1>1 DEF NeverBeyond
  <1>3. ASSUME pc = "done"
        PROVE  /\ Cardinality(Moved) = req.n
               /\ IF req.local = NULL
                  THEN Cleared = {Phys(req.remote, req.ro + i) : i \in 0 .. req.n - 1}
                  ELSE Moved = {<<Phys(req.local, req.lo + i), Phys(req.remote, req.ro + i)>>
                                   : i \in 0 .. req.n - 1}
               /\ BlocksAligned
    <2>1. length = 0 BY <1>3 DEF IInv, Boundary
    <2>2. req.n - length = req.n BY <1>1, <2>1
    <2>3. PICK q \in Requests : q = req BY DEF IInv, TypeOK
    <2>4. PICK d \in Nat : d = q.n BY <1>1, <2>3
    <2>5. PICK ds : ds = descs OBVIOUS
    <2>6. Moves(ds, q, d) BY <2>2, <2>3, <2>4, <2>5 DEF IInv, Progress
    <2>7. Moved = Named(ds) BY <2>5 DEF Moved, Named
    <2>8. q.local # NULL =>
             Named(ds) = {<<Phys(q.local, q.lo + i), Phys(q.remote, q.ro + i)>> : i \in 0 .. d - 1}
      BY <2>6, Exact, Zenon
    <2>9. {m[2] : m \in Named(ds)} = {Phys(q.remote, q.ro + i) : i \in 0 .. d - 1}
      BY <2>6, Exact, Zenon
    <2>a. Cleared = {Phys(req.remote, req.ro + i) : i \in 0 .. req.n - 1}
      BY <2>3, <2>4, <2>7, <2>9, Zenon DEF Cleared
    <2>b. req.local # NULL =>
             Moved = {<<Phys(req.local, req.lo + i), Phys(req.remote, req.ro + i)>> : i \in 0 .. req.n - 1}
      BY <2>3, <2>4, <2>7, <2>8, Zenon
    <2>c. BlocksAligned BY DEF IInv
    <2> QED BY <1>1, <2>2, <2>a, <2>b, <2>c, Zenon
  <1>4. ExactlyTheRequest BY <1>3, Zenon DEF ExactlyTheRequest
  <1> QED BY <1>2, <1>4

\* ncbte_transfer_region, for regions of any pages and requests that reach the
\* end of their first block and stay below 4 GiB: a transfer that returns 0
\* has moved every dword of the request between the right physical addresses,
\* no other, none twice, and all but the ends as whole blocks.
THEOREM TransferExact == ASSUME RequestsFit PROVE Spec => []ExactlyTheRequest
  <1>1. Init => IInv BY IInvInit
  <1>2. IInv /\ [Next]_vars => IInv' BY IInvStep
  <1>3. IInv => ExactlyTheRequest BY IInvMeans
  <1> QED BY <1>1, <1>2, <1>3, PTL DEF Spec

\* For the same requests, what is moved and what is left make up the request
\* at every turn of the loop: the transfer never goes beyond its length.
THEOREM TransferNeverBeyond == ASSUME RequestsFit PROVE Spec => []NeverBeyond
  <1>1. Init => IInv BY IInvInit
  <1>2. IInv /\ [Next]_vars => IInv' BY IInvStep
  <1>3. IInv => NeverBeyond BY IInvMeans
  <1> QED BY <1>1, <1>2, <1>3, PTL DEF Spec
=============================================================================
