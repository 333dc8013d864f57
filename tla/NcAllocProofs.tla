--------------------------- MODULE NcAllocProofs ----------------------------
(***************************************************************************)
(* Proofs about NcAlloc: memory is handed to one user at a time, nothing   *)
(* is lost and no thread meets memory that is not mapped, for every number *)
(* of threads, blocks, bins and sizes.  Two hypotheses: small requests of  *)
(* one bin get chunks of one size (BinsAgree), and Clients = {}: programs  *)
(* free what is in a thread's heap before the thread ends and pass no      *)
(* aligned buffer to realloc.                                              *)
(***************************************************************************)
EXTENDS NcAllocInvariant, FiniteSetTheorems, TLAPS

-----------------------------------------------------------------------------
(* Lists of blocks.  A list is named by its heap and its index; own says    *)
(* which list a block is on.  Every fact is about a block and its           *)
(* neighbours; ranks that grow along the list exclude cycles.               *)

\* A reference is a block or null.
LEMMA BlockRefs == Blocks \subseteq Refs /\ 0 \in Refs /\ 0 \notin Blocks /\ Refs = Blocks \cup {0}
  BY HeapAssumption DEF Blocks, Refs

\* No list is named by the mark for "on no list".
LEMMA NoListIsNone == NoList \notin Ids
  BY HeapAssumption DEF NoList, Ids

\* Taking a block out of its list leaves lists.
LEMMA DLTakeOut ==
    ASSUME NEW hd, NEW tl, NEW nx, NEW pv, NEW own, NEW r, NEW b \in Blocks,
           DL(hd, tl, nx, pv, own, r), own[b] # NoList,
           NEW hd2, NEW tl2, NEW nx2, NEW pv2,
           TakenOut(hd, tl, nx, pv, own, b, hd2, tl2, nx2, pv2)
    PROVE  DL(hd2, tl2, nx2, pv2, [own EXCEPT ![b] = NoList], r)
  <1> DEFINE own2 == [own EXCEPT ![b] = NoList]
             z == own[b]
             p == pv[b]
             n == nx[b]
  <1>1. DLTypes(hd, tl, nx, pv, own, r) /\ DLEnds(hd, tl, own) BY DEF DL
  <1>2. \A c \in Blocks : own[c] # NoList => DLNode(hd, tl, nx, pv, own, r, c) BY DEF DL
  <1>3. z \in Ids /\ p \in Refs /\ n \in Refs BY <1>1 DEF DLTypes
  <1>4. DLNode(hd, tl, nx, pv, own, r, b) BY <1>2
  <1>5. hd2 \in [Ids -> Refs] /\ tl2 \in [Ids -> Refs]
    BY <1>1, <1>3 DEF TakenOut, DLTypes
  <1>6. own2 \in [Blocks -> Ids \cup {NoList}] /\ own2[b] = NoList
        /\ \A c \in Blocks : c # b => own2[c] = own[c]
    BY <1>1 DEF DLTypes
  <1>7. DLTypes(hd2, tl2, nx2, pv2, own2, r)
    BY <1>1, <1>5, <1>6 DEF TakenOut, DLTypes
  <1>8. /\ hd2[z] = IF p = 0 THEN n ELSE hd[z]
        /\ tl2[z] = IF n = 0 THEN p ELSE tl[z]
        /\ \A y \in Ids : y # z => hd2[y] = hd[y] /\ tl2[y] = tl[y]
    BY <1>1, <1>3 DEF TakenOut, DLTypes
  <1>9. p # 0 => p \in Blocks /\ own[p] = z /\ nx[p] = b /\ r[p] < r[b]
    BY <1>3, <1>4, BlockRefs DEF DLNode
  <1>10. n # 0 => n \in Blocks /\ own[n] = z /\ pv[n] = b
    BY <1>3, <1>4, BlockRefs DEF DLNode
  <1>11. n # 0 => r[b] < r[n]
    <2>1. SUFFICES ASSUME n # 0 PROVE r[b] < r[n] OBVIOUS
    <2>2. DLNode(hd, tl, nx, pv, own, r, n) BY <1>2, <1>10, <2>1
    <2> QED BY <1>10, <2>1, <2>2, BlockRefs DEF DLNode
  <1>12. p # b /\ n # b
    BY <1>9, <1>10, <1>11, <1>1, BlockRefs DEF DLTypes
  <1>13. DLEnds(hd2, tl2, own2)
    <2>1. SUFFICES ASSUME NEW y \in Ids
                 PROVE  /\ hd2[y] = 0 <=> tl2[y] = 0
                        /\ hd2[y] # 0 => own2[hd2[y]] = y
                        /\ tl2[y] # 0 => own2[tl2[y]] = y
      BY DEF DLEnds
    <2>2. hd[y] \in Refs /\ tl[y] \in Refs BY <1>1 DEF DLTypes
    <2>3. (hd[y] = 0 <=> tl[y] = 0) /\ (hd[y] # 0 => own[hd[y]] = y) /\ (tl[y] # 0 => own[tl[y]] = y)
      BY <1>1 DEF DLEnds
    <2>4. CASE y # z
      BY <1>6, <1>8, <2>2, <2>3, <2>4, BlockRefs
    <2>5. CASE y = z
      <3>1. (p = 0 <=> hd[z] = b) /\ (n = 0 <=> tl[z] = b) BY <1>4 DEF DLNode
      <3> QED BY <1>6, <1>8, <1>9, <1>10, <1>12, <2>2, <2>3, <2>5, <3>1, BlockRefs
    <2> QED BY <2>4, <2>5
  <1>14. ASSUME NEW c \in Blocks, own2[c] # NoList PROVE DLNode(hd2, tl2, nx2, pv2, own2, r, c)
    <2>1. c # b /\ own[c] # NoList /\ own2[c] = own[c] BY <1>6, <1>14
    <2>2. DLNode(hd, tl, nx, pv, own, r, c) BY <1>2, <2>1
    <2>3. nx2[c] = (IF c = p THEN n ELSE nx[c]) /\ pv2[c] = (IF c = n THEN p ELSE pv[c])
      BY <2>1 DEF TakenOut
    <2>4. nx[c] \in Refs /\ pv[c] \in Refs /\ own[c] \in Ids BY <1>1, <2>1 DEF DLTypes
    <2>5. nx[c] = b => c = p
      BY <2>2, <2>4, BlockRefs DEF DLNode
    <2>6. pv[c] = b => c = n
      BY <2>2, <2>4, BlockRefs DEF DLNode
    <2>7. pv2[c] = 0 <=> hd2[own2[c]] = c
      <3>1. CASE own[c] # z
        BY <1>8, <1>9, <1>10, <2>1, <2>2, <2>3, <2>4, <3>1, BlockRefs DEF DLNode
      <3>2. CASE own[c] = z
        BY <1>4, <1>8, <1>9, <1>10, <2>1, <2>2, <2>3, <2>4, <3>2, BlockRefs DEF DLNode
      <3> QED BY <3>1, <3>2
    <2>8. nx2[c] = 0 <=> tl2[own2[c]] = c
      <3>1. CASE own[c] # z
        BY <1>8, <1>9, <1>10, <2>1, <2>2, <2>3, <2>4, <3>1, BlockRefs DEF DLNode
      <3>2. CASE own[c] = z
        BY <1>4, <1>8, <1>9, <1>10, <2>1, <2>2, <2>3, <2>4, <3>2, BlockRefs DEF DLNode
      <3> QED BY <3>1, <3>2
    <2>9. pv2[c] # 0 => own2[pv2[c]] = own2[c] /\ nx2[pv2[c]] = c /\ r[pv2[c]] < r[c]
      <3>1. SUFFICES ASSUME pv2[c] # 0
                   PROVE  own2[pv2[c]] = own2[c] /\ nx2[pv2[c]] = c /\ r[pv2[c]] < r[c]
        OBVIOUS
      <3>2. CASE c = n
        <4>1. pv2[c] = p /\ p # 0 BY <2>3, <3>1, <3>2
        <4>2. p \in Blocks /\ own[p] # NoList /\ own2[p] = z
          BY <1>3, <1>6, <1>9, <1>12, <4>1, NoListIsNone
        <4>3. nx2[p] = n BY <1>12, <4>2 DEF TakenOut
        <4>4. r[p] < r[c] BY <1>1, <1>9, <1>11, <3>2, <4>1, BlockRefs DEF DLTypes
        <4> QED BY <1>10, <2>1, <3>2, <4>1, <4>2, <4>3, <4>4, BlockRefs
      <3>3. CASE c # n
        <4>1. pv2[c] = pv[c] /\ pv[c] # 0 /\ pv[c] # b BY <2>3, <2>6, <3>1, <3>3
        <4>2. own[pv[c]] = own[c] /\ nx[pv[c]] = c /\ r[pv[c]] < r[c] BY <2>2, <4>1 DEF DLNode
        <4>3. pv[c] \in Blocks BY <2>4, <4>1, BlockRefs
        <4>4. nx2[pv[c]] = IF pv[c] = p THEN n ELSE nx[pv[c]] BY <2>1, <4>1, <4>2, <4>3 DEF TakenOut
        <4>5. pv[c] # p BY <1>9, <2>1, <4>1, <4>2
        <4> QED BY <1>6, <2>1, <4>1, <4>2, <4>3, <4>4, <4>5
      <3> QED BY <3>2, <3>3
    <2>10. nx2[c] # 0 => own2[nx2[c]] = own2[c] /\ pv2[nx2[c]] = c
      <3>1. SUFFICES ASSUME nx2[c] # 0
                   PROVE  own2[nx2[c]] = own2[c] /\ pv2[nx2[c]] = c
        OBVIOUS
      <3>2. CASE c = p
        <4>1. nx2[c] = n /\ n # 0 BY <2>3, <3>1, <3>2
        <4>2. n \in Blocks /\ own[n] # NoList /\ own2[n] = z
          BY <1>3, <1>6, <1>10, <1>12, <4>1, NoListIsNone
        <4>3. pv2[n] = p BY <1>12, <4>2 DEF TakenOut
        <4> QED BY <1>9, <2>1, <3>2, <4>1, <4>2, <4>3, BlockRefs
      <3>3. CASE c # p
        <4>1. nx2[c] = nx[c] /\ nx[c] # 0 /\ nx[c] # b BY <2>3, <2>5, <3>1, <3>3
        <4>2. own[nx[c]] = own[c] /\ pv[nx[c]] = c BY <2>2, <4>1 DEF DLNode
        <4>3. nx[c] \in Blocks BY <2>4, <4>1, BlockRefs
        <4>4. pv2[nx[c]] = IF nx[c] = n THEN p ELSE pv[nx[c]] BY <2>1, <4>1, <4>2, <4>3 DEF TakenOut
        <4>5. nx[c] # n BY <1>10, <2>1, <4>1, <4>2
        <4> QED BY <1>6, <2>1, <4>1, <4>2, <4>3, <4>4, <4>5
      <3> QED BY <3>2, <3>3
    <2> HIDE DEF own2
    <2> QED BY <2>7, <2>8, <2>9, <2>10 DEF DLNode
  <1> QED BY <1>7, <1>13, <1>14 DEF DL

\* Putting a block before a list leaves lists.
LEMMA DLPutFirst ==
    ASSUME NEW hd, NEW tl, NEW nx, NEW pv, NEW own, NEW r, NEW b \in Blocks, NEW z \in Ids,
           DL(hd, tl, nx, pv, own, r), own[b] = NoList,
           NEW hd2, NEW tl2, NEW nx2, NEW pv2,
           PutFirst(hd, tl, nx, pv, own, b, z, hd2, tl2, nx2, pv2)
    PROVE  DL(hd2, tl2, nx2, pv2, [own EXCEPT ![b] = z], RankFirst(r, b))
  <1> DEFINE own2 == [own EXCEPT ![b] = z]
             q == RankFirst(r, b)
             h == hd[z]
  <1>1. DLTypes(hd, tl, nx, pv, own, r) /\ DLEnds(hd, tl, own) BY DEF DL
  <1>2. \A c \in Blocks : own[c] # NoList => DLNode(hd, tl, nx, pv, own, r, c) BY DEF DL
  <1>3. hd2 \in [Ids -> Refs] /\ tl2 \in [Ids -> Refs]
    BY <1>1, BlockRefs DEF PutFirst, DLTypes
  <1>4. own2 \in [Blocks -> Ids \cup {NoList}] /\ own2[b] = z /\ z # NoList
        /\ \A c \in Blocks : c # b => own2[c] = own[c]
    BY <1>1, NoListIsNone DEF DLTypes
  <1>5. q \in [Blocks -> Nat] /\ q[b] = 0 /\ \A c \in Blocks : c # b => q[c] = r[c] + 1
    BY <1>1 DEF RankFirst, DLTypes
  <1>6. DLTypes(hd2, tl2, nx2, pv2, own2, q)
    BY <1>3, <1>4, <1>5 DEF PutFirst, DLTypes
  <1>7. /\ hd2[z] = b /\ tl2[z] = IF tl[z] = 0 THEN b ELSE tl[z]
        /\ \A y \in Ids : y # z => hd2[y] = hd[y] /\ tl2[y] = tl[y]
    BY <1>1 DEF PutFirst, DLTypes
  <1>8. h \in Refs /\ (h # 0 => h \in Blocks /\ own[h] = z /\ h # b) /\ (h = 0 <=> tl[z] = 0)
    BY <1>1, <1>4, BlockRefs DEF DLTypes, DLEnds
  <1>9. DLEnds(hd2, tl2, own2)
    <2>1. SUFFICES ASSUME NEW y \in Ids
                 PROVE  /\ hd2[y] = 0 <=> tl2[y] = 0
                        /\ hd2[y] # 0 => own2[hd2[y]] = y
                        /\ tl2[y] # 0 => own2[tl2[y]] = y
      BY DEF DLEnds
    <2>2. hd[y] \in Refs /\ tl[y] \in Refs BY <1>1 DEF DLTypes
    <2>3. (hd[y] = 0 <=> tl[y] = 0) /\ (hd[y] # 0 => own[hd[y]] = y) /\ (tl[y] # 0 => own[tl[y]] = y)
      BY <1>1 DEF DLEnds
    <2>4. y # NoList BY NoListIsNone
    <2> QED BY <1>4, <1>7, <2>2, <2>3, <2>4, BlockRefs
  <1>10. ASSUME NEW c \in Blocks, own2[c] # NoList PROVE DLNode(hd2, tl2, nx2, pv2, own2, q, c)
    <2>1. CASE c = b
      <3>1. nx2[b] = h /\ pv2[b] = 0 BY DEF PutFirst
      <3>2. h # 0 => pv2[h] = b /\ own2[h] = z BY <1>4, <1>8 DEF PutFirst
      <3>3. nx2[b] = 0 <=> tl2[z] = b
        <4>1. tl[z] # 0 => tl[z] # b
          BY <1>1, <1>4 DEF DLEnds
        <4> QED BY <1>7, <1>8, <3>1, <4>1
      <3> HIDE DEF own2, q
      <3> QED BY <1>4, <1>7, <2>1, <3>1, <3>2, <3>3 DEF DLNode
    <2>2. CASE c # b
      <3>1. own[c] # NoList /\ own2[c] = own[c] /\ own[c] \in Ids BY <1>1, <1>4, <1>10, <2>2 DEF DLTypes
      <3>2. DLNode(hd, tl, nx, pv, own, r, c) BY <1>2, <3>1
      <3>3. nx2[c] = nx[c] /\ pv2[c] = (IF c = h THEN b ELSE pv[c]) BY <3>1 DEF PutFirst
      <3>4. nx[c] \in Refs /\ pv[c] \in Refs BY <1>1 DEF DLTypes
      <3>5. pv2[c] = 0 <=> hd2[own2[c]] = c
        <4>1. CASE own[c] = z
          BY <1>7, <2>2, <3>1, <3>2, <3>3, <4>1, BlockRefs DEF DLNode
        <4>2. CASE own[c] # z
          BY <1>7, <1>8, <3>1, <3>2, <3>3, <4>2, BlockRefs DEF DLNode
        <4> QED BY <4>1, <4>2
      <3>6. nx2[c] = 0 <=> tl2[own2[c]] = c
        BY <1>7, <1>8, <2>2, <3>1, <3>2, <3>3, BlockRefs DEF DLNode
      <3>7. pv2[c] # 0 => own2[pv2[c]] = own2[c] /\ nx2[pv2[c]] = c /\ q[pv2[c]] < q[c]
        <4>1. CASE c = h
          BY <1>4, <1>5, <1>8, <1>1, <3>1, <3>3, <4>1, BlockRefs DEF PutFirst, DLTypes
        <4>2. CASE c # h
          <5>1. SUFFICES ASSUME pv[c] # 0
                       PROVE  own2[pv[c]] = own2[c] /\ nx2[pv[c]] = c /\ q[pv[c]] < q[c]
            BY <3>3, <4>2
          <5>2. own[pv[c]] = own[c] /\ nx[pv[c]] = c /\ r[pv[c]] < r[c] BY <3>2, <5>1 DEF DLNode
          <5>3. pv[c] \in Blocks /\ pv[c] # b BY <3>1, <3>4, <5>1, <5>2, BlockRefs
          <5>4. nx2[pv[c]] = c BY <3>1, <5>2, <5>3 DEF PutFirst
          <5>5. q[pv[c]] < q[c] BY <1>1, <1>5, <2>2, <5>2, <5>3 DEF DLTypes
          <5> QED BY <1>4, <3>1, <5>2, <5>3, <5>4, <5>5
        <4> QED BY <4>1, <4>2
      <3>8. nx2[c] # 0 => own2[nx2[c]] = own2[c] /\ pv2[nx2[c]] = c
        <4>1. SUFFICES ASSUME nx[c] # 0
                     PROVE  own2[nx[c]] = own2[c] /\ pv2[nx[c]] = c
          BY <3>3
        <4>2. own[nx[c]] = own[c] /\ pv[nx[c]] = c BY <3>2, <4>1 DEF DLNode
        <4>3. nx[c] \in Blocks /\ nx[c] # b BY <3>1, <3>4, <4>1, <4>2, BlockRefs
        <4>4. nx[c] # h
          <5>1. SUFFICES ASSUME nx[c] = h PROVE FALSE OBVIOUS
          <5>2. DLNode(hd, tl, nx, pv, own, r, h) /\ own[h] = z BY <1>2, <3>1, <4>1, <4>2, <4>3, <5>1, <1>8
          <5> QED BY <4>1, <4>2, <5>1, <5>2, BlockRefs DEF DLNode
        <4>5. pv2[nx[c]] = c BY <3>1, <4>2, <4>3, <4>4 DEF PutFirst
        <4> QED BY <1>4, <3>1, <4>2, <4>3, <4>5
      <3> HIDE DEF own2, q
      <3> QED BY <3>5, <3>6, <3>7, <3>8 DEF DLNode
    <2> QED BY <2>1, <2>2
  <1> QED BY <1>6, <1>9, <1>10 DEF DL

\* Putting a block behind a list that is not empty leaves lists.
LEMMA DLPutLast ==
    ASSUME NEW hd, NEW tl, NEW nx, NEW pv, NEW own, NEW r, NEW b \in Blocks, NEW z \in Ids,
           DL(hd, tl, nx, pv, own, r), own[b] = NoList, tl[z] # 0,
           NEW tl2, NEW nx2, NEW pv2,
           PutLast(hd, tl, nx, pv, own, b, z, tl2, nx2, pv2)
    PROVE  DL(hd, tl2, nx2, pv2, [own EXCEPT ![b] = z], RankLast(r, b, tl[z]))
  <1> DEFINE own2 == [own EXCEPT ![b] = z]
             h == tl[z]
             q == RankLast(r, b, h)
  <1>1. DLTypes(hd, tl, nx, pv, own, r) /\ DLEnds(hd, tl, own) BY DEF DL
  <1>2. \A c \in Blocks : own[c] # NoList => DLNode(hd, tl, nx, pv, own, r, c) BY DEF DL
  <1>3. tl2 \in [Ids -> Refs]
    BY <1>1, BlockRefs DEF PutLast, DLTypes
  <1>4. own2 \in [Blocks -> Ids \cup {NoList}] /\ own2[b] = z /\ z # NoList
        /\ \A c \in Blocks : c # b => own2[c] = own[c]
    BY <1>1, NoListIsNone DEF DLTypes
  <1>8. h \in Refs /\ h \in Blocks /\ own[h] = z /\ h # b /\ hd[z] # 0
    BY <1>1, <1>4, BlockRefs DEF DLTypes, DLEnds
  <1>5. q \in [Blocks -> Nat] /\ q[b] = r[h] + 1 /\ \A c \in Blocks : c # b => q[c] = r[c]
    BY <1>1, <1>8 DEF RankLast, DLTypes
  <1>6. DLTypes(hd, tl2, nx2, pv2, own2, q)
    BY <1>1, <1>3, <1>4, <1>5 DEF PutLast, DLTypes
  <1>7. tl2[z] = b /\ \A y \in Ids : y # z => tl2[y] = tl[y]
    BY <1>1 DEF PutLast, DLTypes
  <1>9. DLEnds(hd, tl2, own2)
    <2>1. SUFFICES ASSUME NEW y \in Ids
                 PROVE  /\ hd[y] = 0 <=> tl2[y] = 0
                        /\ hd[y] # 0 => own2[hd[y]] = y
                        /\ tl2[y] # 0 => own2[tl2[y]] = y
      BY DEF DLEnds
    <2>2. hd[y] \in Refs /\ tl[y] \in Refs BY <1>1 DEF DLTypes
    <2>3. (hd[y] = 0 <=> tl[y] = 0) /\ (hd[y] # 0 => own[hd[y]] = y) /\ (tl[y] # 0 => own[tl[y]] = y)
      BY <1>1 DEF DLEnds
    <2>4. y # NoList BY NoListIsNone
    <2> QED BY <1>4, <1>7, <1>8, <2>2, <2>3, <2>4, BlockRefs
  <1>10. ASSUME NEW c \in Blocks, own2[c] # NoList PROVE DLNode(hd, tl2, nx2, pv2, own2, q, c)
    <2>1. CASE c = b
      <3>1. nx2[b] = 0 /\ pv2[b] = h BY DEF PutLast
      <3>2. nx2[h] = b /\ own2[h] = z /\ q[h] < q[b]
        <4>1. own[h] # NoList BY <1>4, <1>8
        <4>2. nx2[h] = b BY <1>8, <4>1 DEF PutLast
        <4>3. own2[h] = z BY <1>4, <1>8
        <4>4. q[h] < q[b] BY <1>1, <1>5, <1>8 DEF DLTypes
        <4> QED BY <4>2, <4>3, <4>4
      <3>3. hd[z] # b BY <1>1, <1>4 DEF DLEnds
      <3> HIDE DEF own2, q
      <3> QED BY <1>4, <1>7, <1>8, <2>1, <3>1, <3>2, <3>3, BlockRefs DEF DLNode
    <2>2. CASE c # b
      <3>1. own[c] # NoList /\ own2[c] = own[c] /\ own[c] \in Ids BY <1>1, <1>4, <1>10, <2>2 DEF DLTypes
      <3>2. DLNode(hd, tl, nx, pv, own, r, c) BY <1>2, <3>1
      <3>3. pv2[c] = pv[c] /\ nx2[c] = (IF c = h THEN b ELSE nx[c]) BY <3>1 DEF PutLast
      <3>4. nx[c] \in Refs /\ pv[c] \in Refs BY <1>1 DEF DLTypes
      <3>5. nx2[c] = 0 <=> tl2[own2[c]] = c
        <4>1. CASE own[c] = z
          BY <1>7, <2>2, <3>1, <3>2, <3>3, <4>1, BlockRefs DEF DLNode
        <4>2. CASE own[c] # z
          BY <1>7, <1>8, <3>1, <3>2, <3>3, <4>2, BlockRefs DEF DLNode
        <4> QED BY <4>1, <4>2
      <3>6. pv2[c] = 0 <=> hd[own2[c]] = c
        BY <3>1, <3>2, <3>3 DEF DLNode
      <3>7. nx2[c] # 0 => own2[nx2[c]] = own2[c] /\ pv2[nx2[c]] = c
        <4>1. CASE c = h
          BY <1>4, <1>8, <3>1, <3>3, <4>1, BlockRefs DEF PutLast
        <4>2. CASE c # h
          <5>1. SUFFICES ASSUME nx[c] # 0
                       PROVE  own2[nx[c]] = own2[c] /\ pv2[nx[c]] = c
            BY <3>3, <4>2
          <5>2. own[nx[c]] = own[c] /\ pv[nx[c]] = c BY <3>2, <5>1 DEF DLNode
          <5>3. nx[c] \in Blocks /\ nx[c] # b BY <3>1, <3>4, <5>1, <5>2, BlockRefs
          <5>4. pv2[nx[c]] = c BY <3>1, <5>2, <5>3 DEF PutLast
          <5> QED BY <1>4, <3>1, <5>2, <5>3, <5>4
        <4> QED BY <4>1, <4>2
      <3>8. pv2[c] # 0 => own2[pv2[c]] = own2[c] /\ nx2[pv2[c]] = c /\ q[pv2[c]] < q[c]
        <4>1. SUFFICES ASSUME pv[c] # 0
                     PROVE  own2[pv[c]] = own2[c] /\ nx2[pv[c]] = c /\ q[pv[c]] < q[c]
          BY <3>3
        <4>2. own[pv[c]] = own[c] /\ nx[pv[c]] = c /\ r[pv[c]] < r[c] BY <3>2, <4>1 DEF DLNode
        <4>3. pv[c] \in Blocks /\ pv[c] # b BY <3>1, <3>4, <4>1, <4>2, BlockRefs
        <4>4. pv[c] # h
          <5>1. SUFFICES ASSUME pv[c] = h PROVE FALSE OBVIOUS
          <5>2. DLNode(hd, tl, nx, pv, own, r, h) /\ own[h] = z BY <1>2, <3>1, <4>1, <4>2, <4>3, <5>1, <1>8
          <5> QED BY <4>1, <4>2, <5>1, <5>2, BlockRefs DEF DLNode
        <4>5. nx2[pv[c]] = c BY <3>1, <4>2, <4>3, <4>4 DEF PutLast
        <4>6. q[pv[c]] < q[c] BY <1>5, <2>2, <4>2, <4>3
        <4> QED BY <1>4, <3>1, <4>2, <4>3, <4>5, <4>6
      <3> HIDE DEF own2, q
      <3> QED BY <3>5, <3>6, <3>7, <3>8 DEF DLNode
    <2> QED BY <2>1, <2>2
  <1> QED BY <1>6, <1>9, <1>10 DEF DL

\* Whole lists go: the others stay doubly linked.
LEMMA DLDrop ==
    ASSUME NEW hd, NEW tl, NEW nx, NEW pv, NEW own, NEW r, NEW D, D \subseteq Ids,
           DL(hd, tl, nx, pv, own, r),
           NEW hd2, NEW tl2, NEW nx2, NEW pv2, NEW own2,
           Dropped(D, hd, tl, nx, pv, own, hd2, tl2, nx2, pv2, own2)
    PROVE  DL(hd2, tl2, nx2, pv2, own2, r)
  <1>1. DLTypes(hd, tl, nx, pv, own, r) /\ DLEnds(hd, tl, own) BY DEF DL
  <1>2. \A c \in Blocks : own[c] # NoList => DLNode(hd, tl, nx, pv, own, r, c) BY DEF DL
  <1>3. DLTypes(hd2, tl2, nx2, pv2, own2, r) BY <1>1 DEF DLTypes, Dropped
  <1>4. DLEnds(hd2, tl2, own2)
    <2>1. SUFFICES ASSUME NEW y \in Ids
                 PROVE  /\ hd2[y] = 0 <=> tl2[y] = 0
                        /\ hd2[y] # 0 => own2[hd2[y]] = y
                        /\ tl2[y] # 0 => own2[tl2[y]] = y
      BY DEF DLEnds
    <2>2. hd[y] \in Refs /\ tl[y] \in Refs BY <1>1 DEF DLTypes
    <2>3. (hd[y] = 0 <=> tl[y] = 0) /\ (hd[y] # 0 => own[hd[y]] = y) /\ (tl[y] # 0 => own[tl[y]] = y)
      BY <1>1 DEF DLEnds
    <2> QED BY <2>2, <2>3, BlockRefs DEF Dropped
  <1>5. ASSUME NEW c \in Blocks, own2[c] # NoList PROVE DLNode(hd2, tl2, nx2, pv2, own2, r, c)
    <2>1. own[c] # NoList /\ own[c] \in Ids /\ own[c] \notin D /\ own2[c] = own[c]
      BY <1>1, <1>5 DEF DLTypes, Dropped
    <2>2. DLNode(hd, tl, nx, pv, own, r, c) BY <1>2, <2>1
    <2>3. nx[c] \in Refs /\ pv[c] \in Refs BY <1>1 DEF DLTypes
    <2>4. nx2[c] = nx[c] /\ pv2[c] = pv[c] BY <1>5 DEF Dropped
    <2>5. hd2[own[c]] = hd[own[c]] /\ tl2[own[c]] = tl[own[c]] BY <2>1 DEF Dropped
    <2>6. \A d \in Blocks : own[d] = own[c] => own2[d] = own[c] /\ nx2[d] = nx[d] /\ pv2[d] = pv[d]
      BY <2>1 DEF Dropped
    <2> QED BY <2>1, <2>2, <2>3, <2>4, <2>5, <2>6, BlockRefs DEF DLNode
  <1> QED BY <1>3, <1>4, <1>5 DEF DL

-----------------------------------------------------------------------------
(* In a list no block with room (a member of RM) stands behind a full one.  *)

\* Taking a block out of a bin keeps blocks with room before full ones.
LEMMA RoomTakeOut ==
    ASSUME NEW hd, NEW tl, NEW nx, NEW pv, NEW own, NEW r, NEW b \in Blocks,
           DL(hd, tl, nx, pv, own, r), own[b] # NoList,
           NEW hd2, NEW tl2, NEW nx2, NEW pv2,
           TakenOut(hd, tl, nx, pv, own, b, hd2, tl2, nx2, pv2),
           NEW RM, NEW RM2, RoomBefore(nx, own, RM), SameBut(RM, RM2, b)
    PROVE  RoomBefore(nx2, [own EXCEPT ![b] = NoList], RM2)
  <1>1. DLTypes(hd, tl, nx, pv, own, r) BY DEF DL
  <1>2. \A c \in Blocks : own[c] # NoList => DLNode(hd, tl, nx, pv, own, r, c) BY DEF DL
  <1>3. SUFFICES ASSUME NEW c \in Blocks, c # b, own[c] # NoList, nx2[c] # 0, nx2[c] \in RM2
               PROVE  c \in RM2
    BY <1>1 DEF RoomBefore, DLTypes
  <1>4. nx2[c] = IF c = pv[b] THEN nx[b] ELSE nx[c] BY <1>3 DEF TakenOut
  <1>5. nx[b] \in Refs /\ nx[c] \in Refs /\ pv[b] \in Refs BY <1>1 DEF DLTypes
  <1>6. DLNode(hd, tl, nx, pv, own, r, b) /\ DLNode(hd, tl, nx, pv, own, r, c) BY <1>2, <1>3
  <1>7. CASE c = pv[b]
    <2>1. nx[c] = b /\ r[c] < r[b] BY <1>6, <1>7, BlockRefs DEF DLNode
    <2>2. nx[b] \in Blocks /\ nx[b] # b
      <3>1. nx[b] \in Blocks BY <1>3, <1>4, <1>5, <1>7, BlockRefs
      <3>2. pv[nx[b]] = b BY <1>6, <3>1, BlockRefs DEF DLNode
      <3> QED BY <1>3, <1>7, <3>1, <3>2
    <2>3. nx[b] \in RM BY <1>3, <1>4, <1>7, <2>2 DEF SameBut
    <2>4. b \in RM BY <2>2, <2>3, BlockRefs DEF RoomBefore
    <2>5. c \in RM BY <1>3, <2>1, <2>4, BlockRefs DEF RoomBefore
    <2> QED BY <1>3, <2>5 DEF SameBut
  <1>8. CASE c # pv[b]
    <2>1. nx[c] # b BY <1>6, <1>8, BlockRefs DEF DLNode
    <2>2. nx[c] \in RM BY <1>3, <1>4, <1>5, <1>8, <2>1, BlockRefs DEF SameBut
    <2>3. c \in RM BY <1>3, <1>4, <1>8, <2>2 DEF RoomBefore
    <2> QED BY <1>3, <2>3 DEF SameBut
  <1> QED BY <1>7, <1>8

\* So does putting a block with room in front.
LEMMA RoomPutFirst ==
    ASSUME NEW hd, NEW tl, NEW nx, NEW pv, NEW own, NEW r, NEW b \in Blocks, NEW z \in Ids,
           DL(hd, tl, nx, pv, own, r), own[b] = NoList,
           NEW hd2, NEW tl2, NEW nx2, NEW pv2,
           PutFirst(hd, tl, nx, pv, own, b, z, hd2, tl2, nx2, pv2),
           NEW RM, NEW RM2, RoomBefore(nx, own, RM), SameBut(RM, RM2, b),
           b \in RM2 \/ hd[z] \notin RM
    PROVE  RoomBefore(nx2, [own EXCEPT ![b] = z], RM2)
  <1>1. DLTypes(hd, tl, nx, pv, own, r) /\ DLEnds(hd, tl, own) BY DEF DL
  <1>2. \A c \in Blocks : own[c] # NoList => DLNode(hd, tl, nx, pv, own, r, c) BY DEF DL
  <1>3. SUFFICES ASSUME NEW c \in Blocks, c # b => own[c] # NoList, nx2[c] # 0, nx2[c] \in RM2
               PROVE  c \in RM2
    BY <1>1 DEF RoomBefore, DLTypes
  <1>4. CASE c = b
    <2>1. nx2[c] = hd[z] BY <1>4 DEF PutFirst
    <2>2. hd[z] \in Blocks /\ hd[z] # b
      BY <1>1, <1>3, <2>1, BlockRefs, NoListIsNone DEF DLTypes, DLEnds
    <2> QED BY <1>3, <1>4, <2>1, <2>2 DEF SameBut
  <1>5. CASE c # b
    <2>1. nx2[c] = nx[c] /\ nx[c] \in Blocks BY <1>1, <1>3, <1>5, BlockRefs DEF PutFirst, DLTypes
    <2>2. nx[c] # b BY <1>2, <1>3, <1>5, BlockRefs DEF DLNode
    <2> QED BY <1>3, <1>5, <2>1, <2>2 DEF SameBut, RoomBefore
  <1> QED BY <1>4, <1>5

\* So does putting a full block behind.
LEMMA RoomPutLast ==
    ASSUME NEW hd, NEW tl, NEW nx, NEW pv, NEW own, NEW r, NEW b \in Blocks, NEW z \in Ids,
           DL(hd, tl, nx, pv, own, r), own[b] = NoList, tl[z] # 0,
           NEW tl2, NEW nx2, NEW pv2,
           PutLast(hd, tl, nx, pv, own, b, z, tl2, nx2, pv2),
           NEW RM, NEW RM2, RoomBefore(nx, own, RM), SameBut(RM, RM2, b), b \notin RM2
    PROVE  RoomBefore(nx2, [own EXCEPT ![b] = z], RM2)
  <1>1. DLTypes(hd, tl, nx, pv, own, r) /\ DLEnds(hd, tl, own) BY DEF DL
  <1>2. \A c \in Blocks : own[c] # NoList => DLNode(hd, tl, nx, pv, own, r, c) BY DEF DL
  <1>3. SUFFICES ASSUME NEW c \in Blocks, c # b => own[c] # NoList, nx2[c] # 0, nx2[c] \in RM2
               PROVE  c \in RM2
    BY <1>1 DEF RoomBefore, DLTypes
  <1>4. c # b BY <1>3 DEF PutLast
  <1>5. c # tl[z] /\ nx2[c] = nx[c] BY <1>3, <1>4 DEF PutLast
  <1>6. nx[c] \in Blocks BY <1>1, <1>3, <1>5, BlockRefs DEF DLTypes
  <1> QED BY <1>3, <1>4, <1>5, <1>6 DEF SameBut, RoomBefore

\* The first block of a list may fill up when it is alone, and may get room.
LEMMA RoomChange ==
    ASSUME NEW hd, NEW tl, NEW nx, NEW pv, NEW own, NEW r, NEW b \in Blocks,
           DL(hd, tl, nx, pv, own, r),
           NEW RM, NEW RM2, RoomBefore(nx, own, RM), SameBut(RM, RM2, b),
           own[b] # NoList => pv[b] = 0, own[b] # NoList => b \in RM2 \/ nx[b] = 0
    PROVE  RoomBefore(nx, own, RM2)
  <1>1. DLTypes(hd, tl, nx, pv, own, r) BY DEF DL
  <1>2. SUFFICES ASSUME NEW c \in Blocks, own[c] # NoList, nx[c] # 0, nx[c] \in RM2
               PROVE  c \in RM2
    BY DEF RoomBefore
  <1>3. DLNode(hd, tl, nx, pv, own, r, c) BY <1>2 DEF DL
  <1>4. nx[c] \in Blocks /\ own[nx[c]] = own[c] /\ pv[nx[c]] = c
    BY <1>1, <1>2, <1>3, BlockRefs DEF DLTypes, DLNode
  <1>5. nx[c] # b BY <1>2, <1>4, BlockRefs
  <1>6. nx[c] \in RM BY <1>2, <1>4, <1>5 DEF SameBut
  <1>7. c \in RM BY <1>2, <1>6 DEF RoomBefore
  <1> QED BY <1>2, <1>7 DEF SameBut

\* So does dropping whole lists.
LEMMA RoomDrop ==
    ASSUME NEW hd, NEW tl, NEW nx, NEW pv, NEW own, NEW r, NEW D, D \subseteq Ids,
           DL(hd, tl, nx, pv, own, r),
           NEW hd2, NEW tl2, NEW nx2, NEW pv2, NEW own2,
           Dropped(D, hd, tl, nx, pv, own, hd2, tl2, nx2, pv2, own2),
           NEW RM, NEW RM2, RoomBefore(nx, own, RM),
           \A c \in Blocks : own2[c] # NoList => (c \in RM2 <=> c \in RM)
    PROVE  RoomBefore(nx2, own2, RM2)
  <1>1. DLTypes(hd, tl, nx, pv, own, r) BY DEF DL
  <1>2. SUFFICES ASSUME NEW c \in Blocks, own2[c] # NoList, nx2[c] # 0, nx2[c] \in RM2
               PROVE  c \in RM2
    BY DEF RoomBefore
  <1>3. own[c] # NoList /\ own2[c] = own[c] /\ nx2[c] = nx[c] BY <1>2 DEF Dropped
  <1>4. DLNode(hd, tl, nx, pv, own, r, c) BY <1>3 DEF DL
  <1>5. nx[c] \in Blocks /\ own[nx[c]] = own[c] BY <1>1, <1>2, <1>3, <1>4, BlockRefs DEF DLTypes, DLNode
  <1>6. own2[nx[c]] # NoList BY <1>2, <1>3, <1>5 DEF Dropped
  <1>7. nx[c] \in RM BY <1>2, <1>3, <1>5, <1>6
  <1> QED BY <1>2, <1>3, <1>7 DEF RoomBefore

-----------------------------------------------------------------------------
(* Blocks kept for later use: a stack linked by next only.                  *)

\* Links of other blocks do not matter.
LEMMA SLFrame ==
    ASSUME NEW kp, NEW nx, NEW kown, NEW q, SL(kp, nx, kown, q),
           NEW nx2 \in [Blocks -> Refs],
           \A c \in Blocks : kown[c] # NULL => nx2[c] = nx[c]
    PROVE  SL(kp, nx2, kown, q)
  <1>1. ASSUME NEW b \in Blocks, kown[b] # NULL PROVE SLNode(kp, nx2, kown, q, b)
    <2>1. SLNode(kp, nx, kown, q, b) BY <1>1 DEF SL
    <2>2. nx2[b] = nx[b] BY <1>1
    <2>3. kp[kown[b]] # b => \E c \in Blocks : kown[c] = kown[b] /\ nx2[c] = b
      BY <1>1, <2>1 DEF SLNode
    <2>4. \A c \in Blocks : kown[c] # NULL /\ nx2[c] = nx2[b] /\ nx2[b] # 0 => c = b
      BY <2>1, <2>2 DEF SLNode
    <2> QED BY <2>1, <2>2, <2>3, <2>4 DEF SLNode
  <1> QED BY <1>1 DEF SL, SLTypes

\* A block goes on the stack of kept blocks.
LEMMA SLPush ==
    ASSUME NEW kp, NEW nx, NEW kown, NEW q, SL(kp, nx, kown, q),
           NEW t \in Threads, NEW b \in Blocks, kown[b] = NULL,
           NEW nx2 \in [Blocks -> Refs], nx2[b] = kp[t],
           \A c \in Blocks : kown[c] # NULL => nx2[c] = nx[c]
    PROVE  SL([kp EXCEPT ![t] = b], nx2, [kown EXCEPT ![b] = t], RankFirst(q, b))
  <1> DEFINE kp2 == [kp EXCEPT ![t] = b]
             kown2 == [kown EXCEPT ![b] = t]
             q2 == RankFirst(q, b)
  <1>1. SLTypes(kp, nx, kown, q) BY DEF SL
  <1>2. t # NULL /\ NULL \notin Threads BY HeapAssumption
  <1>3. kp2 \in [Threads -> Refs] /\ kp2[t] = b /\ \A x \in Threads : x # t => kp2[x] = kp[x]
    BY <1>1, BlockRefs DEF SLTypes
  <1>4. kown2 \in [Blocks -> Threads \cup {NULL}] /\ kown2[b] = t
        /\ \A c \in Blocks : c # b => kown2[c] = kown[c]
    BY <1>1 DEF SLTypes
  <1>5. q2 \in [Blocks -> Nat] /\ q2[b] = 0 /\ \A c \in Blocks : c # b => q2[c] = q[c] + 1
    BY <1>1 DEF SLTypes, RankFirst
  <1> HIDE DEF kp2, kown2, q2
  <1>6. SLTypes(kp2, nx2, kown2, q2) BY <1>3, <1>4, <1>5 DEF SLTypes
  <1>7. ASSUME NEW x \in Threads, kp2[x] # 0 PROVE kown2[kp2[x]] = x
    <2>1. CASE x = t BY <1>3, <1>4, <2>1
    <2>2. CASE x # t
      <3>1. kp[x] \in Blocks /\ kown[kp[x]] = x /\ kp2[x] = kp[x]
        BY <1>1, <1>3, <1>7, <2>2, BlockRefs DEF SL, SLTypes
      <3> QED BY <1>2, <1>4, <3>1
    <2> QED BY <2>1, <2>2
  <1>8. ASSUME NEW c \in Blocks, kown2[c] # NULL PROVE SLNode(kp2, nx2, kown2, q2, c)
    <2>1. CASE c = b
      <3>1. nx2[b] # 0 => nx2[b] \in Blocks /\ kown[nx2[b]] = t
        BY <1>1, BlockRefs DEF SL, SLTypes
      <3>2. nx2[b] # 0 => nx2[b] # b BY <1>2, <3>1
      <3>3. nx2[b] # 0 => kown2[nx2[b]] = t BY <1>4, <3>1, <3>2
      <3>4. nx2[b] # 0 => q2[b] < q2[nx2[b]] BY <1>1, <1>5, <3>1, <3>2 DEF SLTypes
      <3>5. ASSUME NEW d \in Blocks, kown2[d] # NULL, nx2[d] = nx2[b], nx2[b] # 0, d # b PROVE FALSE
        <4>1. kown[d] # NULL /\ nx[d] = kp[t] BY <1>4, <3>5
        <4>2. SLNode(kp, nx, kown, q, d) BY <4>1 DEF SL
        <4> QED BY <3>1, <3>5, <4>1, <4>2 DEF SLNode
      <3> QED BY <1>3, <1>4, <2>1, <3>2, <3>3, <3>4, <3>5 DEF SLNode
    <2>2. CASE c # b
      <3>1. kown2[c] = kown[c] /\ kown[c] # NULL /\ kown[c] \in Threads /\ nx2[c] = nx[c] /\ nx[c] \in Refs
        BY <1>1, <1>4, <1>8, <2>2 DEF SLTypes
      <3>2. SLNode(kp, nx, kown, q, c) BY <3>1 DEF SL
      <3>3. nx[c] # 0 => nx[c] \in Blocks /\ nx[c] # b /\ kown2[nx[c]] = kown[c] /\ q2[c] < q2[nx[c]]
        BY <1>1, <1>4, <1>5, <2>2, <3>1, <3>2, BlockRefs DEF SLNode, SLTypes
      <3>4. ASSUME kp2[kown[c]] # c PROVE \E d \in Blocks : kown2[d] = kown[c] /\ nx2[d] = c
        <4>1. CASE kp[kown[c]] # c
          <5>1. PICK d \in Blocks : kown[d] = kown[c] /\ nx[d] = c BY <3>2, <4>1 DEF SLNode
          <5>2. d # b BY <3>1, <5>1
          <5>3. kown2[d] = kown[c] /\ nx2[d] = c BY <1>4, <3>1, <5>1, <5>2
          <5> QED BY <5>3
        <4>2. CASE kp[kown[c]] = c
          <5>1. kown[c] = t BY <1>3, <3>1, <3>4, <4>2
          <5>2. kown2[b] = kown[c] /\ nx2[b] = c BY <1>4, <4>2, <5>1
          <5> QED BY <5>2
        <4> QED BY <4>1, <4>2
      <3>5. ASSUME nx[c] # 0 PROVE nx[c] # kp2[kown[c]]
        BY <1>3, <3>1, <3>2, <3>3, <3>5 DEF SLNode
      <3>6. ASSUME NEW d \in Blocks, kown2[d] # NULL, nx2[d] = nx2[c], nx2[c] # 0 PROVE d = c
        <4>1. CASE d = b
          <5>1. kp[t] # 0 /\ nx[c] = kp[t] /\ kown[kp[t]] = t /\ kown[c] = t
            BY <3>1, <3>2, <3>6, <4>1 DEF SL, SLNode
          <5> QED BY <3>2, <5>1 DEF SLNode
        <4>2. CASE d # b
          <5>1. kown[d] # NULL /\ nx[d] = nx[c] /\ nx[c] # 0 BY <1>4, <3>1, <3>6, <4>2
          <5> QED BY <3>2, <5>1 DEF SLNode
        <4> QED BY <4>1, <4>2
      <3> QED BY <3>1, <3>3, <3>4, <3>5, <3>6 DEF SLNode
    <2> QED BY <2>1, <2>2
  <1> QED BY <1>6, <1>7, <1>8 DEF SL, kp2, kown2, q2

\* The first block comes off the stack of kept blocks.
LEMMA SLPop ==
    ASSUME NEW kp, NEW nx, NEW kown, NEW q, SL(kp, nx, kown, q),
           NEW t \in Threads, NEW b \in Blocks, kp[t] = b,
           NEW nx2 \in [Blocks -> Refs],
           \A c \in Blocks : c # b /\ kown[c] # NULL => nx2[c] = nx[c]
    PROVE  SL([kp EXCEPT ![t] = nx[b]], nx2, [kown EXCEPT ![b] = NULL], q)
  <1> DEFINE kp2 == [kp EXCEPT ![t] = nx[b]]
             kown2 == [kown EXCEPT ![b] = NULL]
  <1>1. SLTypes(kp, nx, kown, q) BY DEF SL
  <1>2. t # NULL /\ NULL \notin Threads /\ kown[b] = t BY HeapAssumption, BlockRefs DEF SL
  <1>3. kp2 \in [Threads -> Refs] /\ kp2[t] = nx[b] /\ \A x \in Threads : x # t => kp2[x] = kp[x]
    BY <1>1 DEF SLTypes
  <1>4. kown2 \in [Blocks -> Threads \cup {NULL}] /\ kown2[b] = NULL
        /\ \A c \in Blocks : c # b => kown2[c] = kown[c]
    BY <1>1 DEF SLTypes
  <1> HIDE DEF kp2, kown2
  <1>5. SLNode(kp, nx, kown, q, b) BY <1>2 DEF SL
  <1>6. SLTypes(kp2, nx2, kown2, q) BY <1>1, <1>3, <1>4 DEF SLTypes
  <1>7. ASSUME NEW x \in Threads, kp2[x] # 0 PROVE kown2[kp2[x]] = x
    <2>1. CASE x = t
      <3>1. nx[b] \in Blocks /\ kown[nx[b]] = t /\ q[b] < q[nx[b]]
        BY <1>1, <1>2, <1>3, <1>5, <1>7, <2>1, BlockRefs DEF SLNode, SLTypes
      <3>2. nx[b] # b BY <1>1, <3>1 DEF SLTypes
      <3> QED BY <1>3, <1>4, <2>1, <3>1, <3>2
    <2>2. CASE x # t
      <3>1. kp[x] \in Blocks /\ kown[kp[x]] = x /\ kp2[x] = kp[x]
        BY <1>1, <1>3, <1>7, <2>2, BlockRefs DEF SL, SLTypes
      <3> QED BY <1>2, <1>4, <2>2, <3>1
    <2> QED BY <2>1, <2>2
  <1>8. ASSUME NEW c \in Blocks, kown2[c] # NULL PROVE SLNode(kp2, nx2, kown2, q, c)
    <2>2. c # b BY <1>4, <1>8
    <2>3. kown2[c] = kown[c] /\ kown[c] # NULL /\ kown[c] \in Threads /\ nx2[c] = nx[c] /\ nx[c] \in Refs
      BY <1>1, <1>4, <1>8, <2>2 DEF SLTypes
    <2>4. SLNode(kp, nx, kown, q, c) BY <2>3 DEF SL
    <2>5. nx[c] # b
      <3>1. SUFFICES ASSUME nx[c] = b PROVE FALSE OBVIOUS
      <3>2. kown[c] = t BY <1>2, <2>4, <3>1, BlockRefs DEF SLNode
      <3> QED BY <2>2, <2>4, <3>1, <3>2, BlockRefs DEF SLNode
    <2>6. nx[c] # 0 => nx[c] \in Blocks /\ kown2[nx[c]] = kown[c] /\ q[c] < q[nx[c]]
      BY <1>4, <2>3, <2>4, <2>5, BlockRefs DEF SLNode
    <2>7. ASSUME kp2[kown[c]] # c PROVE \E d \in Blocks : kown2[d] = kown[c] /\ nx2[d] = c
      <3>1. kp[kown[c]] # c BY <1>3, <2>2, <2>3, <2>7
      <3>2. PICK d \in Blocks : kown[d] = kown[c] /\ nx[d] = c BY <2>4, <3>1 DEF SLNode
      <3>3. d # b BY <1>2, <1>3, <2>7, <3>2
      <3>4. kown2[d] = kown[c] /\ nx2[d] = c BY <1>4, <2>3, <3>2, <3>3
      <3> QED BY <3>4
    <2>8. ASSUME nx[c] # 0 PROVE nx[c] # kp2[kown[c]]
      <3>1. nx[c] # kp[kown[c]] BY <2>4, <2>8 DEF SLNode
      <3>2. nx[c] # nx[b] BY <1>2, <2>2, <2>4, <2>8 DEF SLNode
      <3> QED BY <1>3, <2>3, <3>1, <3>2
    <2>9. ASSUME NEW d \in Blocks, kown2[d] # NULL, nx2[d] = nx2[c], nx2[c] # 0 PROVE d = c
      <3>1. d # b /\ kown[d] # NULL /\ nx[d] = nx[c] /\ nx[c] # 0 BY <1>4, <2>3, <2>9
      <3> QED BY <2>4, <3>1 DEF SLNode
    <2> QED BY <2>3, <2>6, <2>7, <2>8, <2>9 DEF SLNode
  <1> QED BY <1>6, <1>7, <1>8 DEF SL, kp2, kown2

-----------------------------------------------------------------------------
(* Walking a list.                                                          *)

\* A set of numbers has a least one.
LEMMA LeastNat ==
    ASSUME NEW T, T \subseteq Nat, T # {}
    PROVE  \E x \in T : \A y \in T : x <= y
  <1>1. PICK x \in T : \A y \in T : ~(<<y, x>> \in OpToRel(<, Nat))
    BY WFMin, NatLessThanWellFounded, Zenon
  <1>2. \A y \in T : ~(y < x) BY <1>1 DEF OpToRel
  <1> QED BY <1>2

\* Along links that stay in S a walk of any length exists.
LEMMA StepsExist ==
    ASSUME NEW S, NEW g \in [S -> S \cup {0}], NEW b \in S \cup {0}
    PROVE  \A n \in Nat : \E f : Steps(S, g, b, f, n)
  <1> DEFINE T == {n \in Nat : ~ \E f : Steps(S, g, b, f, n)}
  <1>1. SUFFICES ASSUME T # {} PROVE FALSE OBVIOUS
  <1>2. PICK n \in T : \A y \in T : n <= y
    <2>1. T \subseteq Nat OBVIOUS
    <2> HIDE DEF T
    <2> QED BY <1>1, <2>1, LeastNat
  <1>3. CASE n = 0
    <2>1. Steps(S, g, b, [k \in 0 .. 0 |-> b], 0) BY DEF Steps
    <2> QED BY <1>3, <2>1
  <1>4. CASE n # 0
    <2>1. n - 1 \in Nat /\ n - 1 \notin T BY <1>2, <1>4
    <2>2. PICK f : Steps(S, g, b, f, n - 1) BY <2>1
    <2> DEFINE v == IF f[n - 1] = 0 THEN 0 ELSE g[f[n - 1]]
               e == [k \in 0 .. n |-> IF k = n THEN v ELSE f[k]]
    <2>3. f[n - 1] \in S \cup {0} BY <2>1, <2>2 DEF Steps
    <2>4. v \in S \cup {0} BY <2>3
    <2>5. e \in [0 .. n -> S \cup {0}]
      <3>1. \A k \in 0 .. n : k # n => k \in 0 .. n - 1 OBVIOUS
      <3> QED BY <2>2, <2>4, <3>1 DEF Steps
    <2>6. e[0] = b BY <1>4, <2>2 DEF Steps
    <2>7. ASSUME NEW k \in 1 .. n PROVE e[k] = IF e[k - 1] = 0 THEN 0 ELSE g[e[k - 1]]
      <3>1. k - 1 \in 0 .. n /\ k - 1 # n OBVIOUS
      <3>2. e[k - 1] = f[k - 1] BY <3>1
      <3>3. CASE k = n BY <3>2, <3>3
      <3>4. CASE k # n
        <4>1. k \in 1 .. n - 1 /\ e[k] = f[k] BY <3>4
        <4> QED BY <2>2, <3>2, <4>1 DEF Steps
      <3> QED BY <3>3, <3>4
    <2> HIDE DEF e
    <2>8. Steps(S, g, b, e, n) BY <2>5, <2>6, <2>7 DEF Steps
    <2> QED BY <2>8
  <1> QED BY <1>3, <1>4

\* Forward is the walk along next.
LEMMA ForwardSteps ==
    ASSUME NEW B, NEW S, \A c \in S : B[c].next \in S \cup {0}, NEW b \in S \cup {0}
    PROVE  Steps(S, [c \in S |-> B[c].next], b, Forward(B, b), NBlk)
  <1> DEFINE g == [c \in S |-> B[c].next]
             F(p) == [k \in 0 .. NBlk |-> IF k = 0 THEN b ELSE IF p[k-1] = 0 THEN 0 ELSE B[p[k-1]].next]
  <1>1. g \in [S -> S \cup {0}] OBVIOUS
  <1>2. PICK f : Steps(S, g, b, f, NBlk)
    <2> HIDE DEF g
    <2> QED BY <1>1, StepsExist, HeapAssumption
  <1>3. f = F(f)
    <2>1. f \in [0 .. NBlk -> S \cup {0}] BY <1>2 DEF Steps
    <2>2. ASSUME NEW k \in 0 .. NBlk PROVE f[k] = F(f)[k]
      <3>1. CASE k = 0 BY <1>2, <3>1 DEF Steps
      <3>2. CASE k # 0
        <4>1. k \in 1 .. NBlk /\ k - 1 \in 0 .. NBlk BY <3>2, HeapAssumption
        <4>2. f[k - 1] \in S \cup {0} BY <2>1, <4>1
        <4> QED BY <1>2, <3>2, <4>1, <4>2 DEF Steps
      <3> QED BY <3>1, <3>2
    <2> QED BY <2>1, <2>2
  <1>4. Forward(B, b) = CHOOSE p : p = F(p)
    BY DEF Forward
  <1>5. Forward(B, b) = F(Forward(B, b))
    <2> HIDE DEF F
    <2> QED BY <1>3, <1>4, Zenon
  <1> DEFINE p == Forward(B, b)
             T == {k \in 0 .. NBlk : p[k] \notin S \cup {0}}
  <1> HIDE DEF p
  <1>6. p = F(p) BY <1>5 DEF p
  <1>7. \A k \in 0 .. NBlk : p[k] = IF k = 0 THEN b ELSE IF p[k-1] = 0 THEN 0 ELSE B[p[k-1]].next
    BY <1>6
  <1>8. T = {}
    <2>1. SUFFICES ASSUME T # {} PROVE FALSE OBVIOUS
    <2>2. T \subseteq Nat BY HeapAssumption
    <2>3. PICK k \in T : \A j \in T : k <= j
      <3> HIDE DEF T
      <3> QED BY <2>1, <2>2, LeastNat
    <2>4. k # 0 /\ k - 1 \in 0 .. NBlk /\ k - 1 \notin T BY <1>7, <2>3, HeapAssumption
    <2>5. p[k - 1] \in S \cup {0} BY <2>4
    <2> QED BY <1>7, <2>4, <2>5
  <1>9. p \in [0 .. NBlk -> S \cup {0}]
    <2>1. p = [k \in 0 .. NBlk |-> p[k]] BY <1>6
    <2>2. \A k \in 0 .. NBlk : p[k] \in S \cup {0} BY <1>8
    <2> QED BY <2>1, <2>2
  <1>10. ASSUME NEW k \in 1 .. NBlk PROVE p[k] = IF p[k - 1] = 0 THEN 0 ELSE g[p[k - 1]]
    <2>1. k \in 0 .. NBlk /\ k - 1 \in 0 .. NBlk /\ k # 0 BY HeapAssumption
    <2>2. p[k - 1] \in S \cup {0} BY <1>9, <2>1
    <2> QED BY <1>7, <2>1, <2>2
  <1>11. p[0] = b BY <1>7, HeapAssumption
  <1> QED BY <1>9, <1>10, <1>11 DEF Steps, p

\* Backward is the walk along prev.
LEMMA BackwardSteps ==
    ASSUME NEW B, NEW S, \A c \in S : B[c].prev \in S \cup {0}, NEW b \in S \cup {0}
    PROVE  Steps(S, [c \in S |-> B[c].prev], b, Backward(B, b), NBlk)
  <1> DEFINE g == [c \in S |-> B[c].prev]
             F(p) == [k \in 0 .. NBlk |-> IF k = 0 THEN b ELSE IF p[k-1] = 0 THEN 0 ELSE B[p[k-1]].prev]
  <1>1. g \in [S -> S \cup {0}] OBVIOUS
  <1>2. PICK f : Steps(S, g, b, f, NBlk)
    <2> HIDE DEF g
    <2> QED BY <1>1, StepsExist, HeapAssumption
  <1>3. f = F(f)
    <2>1. f \in [0 .. NBlk -> S \cup {0}] BY <1>2 DEF Steps
    <2>2. ASSUME NEW k \in 0 .. NBlk PROVE f[k] = F(f)[k]
      <3>1. CASE k = 0 BY <1>2, <3>1 DEF Steps
      <3>2. CASE k # 0
        <4>1. k \in 1 .. NBlk /\ k - 1 \in 0 .. NBlk BY <3>2, HeapAssumption
        <4>2. f[k - 1] \in S \cup {0} BY <2>1, <4>1
        <4> QED BY <1>2, <3>2, <4>1, <4>2 DEF Steps
      <3> QED BY <3>1, <3>2
    <2> QED BY <2>1, <2>2
  <1>4. Backward(B, b) = CHOOSE p : p = F(p)
    BY DEF Backward
  <1>5. Backward(B, b) = F(Backward(B, b))
    <2> HIDE DEF F
    <2> QED BY <1>3, <1>4, Zenon
  <1> DEFINE p == Backward(B, b)
             T == {k \in 0 .. NBlk : p[k] \notin S \cup {0}}
  <1> HIDE DEF p
  <1>6. p = F(p) BY <1>5 DEF p
  <1>7. \A k \in 0 .. NBlk : p[k] = IF k = 0 THEN b ELSE IF p[k-1] = 0 THEN 0 ELSE B[p[k-1]].prev
    BY <1>6
  <1>8. T = {}
    <2>1. SUFFICES ASSUME T # {} PROVE FALSE OBVIOUS
    <2>2. T \subseteq Nat BY HeapAssumption
    <2>3. PICK k \in T : \A j \in T : k <= j
      <3> HIDE DEF T
      <3> QED BY <2>1, <2>2, LeastNat
    <2>4. k # 0 /\ k - 1 \in 0 .. NBlk /\ k - 1 \notin T BY <1>7, <2>3, HeapAssumption
    <2>5. p[k - 1] \in S \cup {0} BY <2>4
    <2> QED BY <1>7, <2>4, <2>5
  <1>9. p \in [0 .. NBlk -> S \cup {0}]
    <2>1. p = [k \in 0 .. NBlk |-> p[k]] BY <1>6
    <2>2. \A k \in 0 .. NBlk : p[k] \in S \cup {0} BY <1>8
    <2> QED BY <2>1, <2>2
  <1>10. ASSUME NEW k \in 1 .. NBlk PROVE p[k] = IF p[k - 1] = 0 THEN 0 ELSE g[p[k - 1]]
    <2>1. k \in 0 .. NBlk /\ k - 1 \in 0 .. NBlk /\ k # 0 BY HeapAssumption
    <2>2. p[k - 1] \in S \cup {0} BY <1>9, <2>1
    <2> QED BY <1>7, <2>1, <2>2
  <1>11. p[0] = b BY <1>7, HeapAssumption
  <1> QED BY <1>9, <1>10, <1>11 DEF Steps, p

\* A walk along a chain meets every block once.
LEMMA WalkAll ==
    ASSUME NEW S, NEW g, NEW h, NEW r, Chain(S, g, h, r), NEW f, Steps(S, g, h, f, NBlk)
    PROVE  \E m \in 0 .. NBlk : Walked(S, f, m)
  <1>0. NBlk \in Nat /\ 0 \notin S BY HeapAssumption DEF Chain, Blocks
  <1>1. f \in [0 .. NBlk -> S \cup {0}] BY DEF Steps
  <1>2. ASSUME NEW k \in 1 .. NBlk, f[k] # 0 PROVE f[k - 1] # 0 /\ r[f[k - 1]] < r[f[k]] /\ f[k - 1] \in S
    <2>1. f[k] = IF f[k - 1] = 0 THEN 0 ELSE g[f[k - 1]] BY DEF Steps
    <2>2. k - 1 \in 0 .. NBlk BY <1>0
    <2>3. f[k - 1] \in S \cup {0} BY <1>1, <2>2
    <2>4. f[k - 1] \in S /\ f[k] = g[f[k - 1]] BY <1>2, <2>1, <2>3
    <2> QED BY <1>0, <1>2, <2>4 DEF Chain
  <1>3. \A i, j \in 0 .. NBlk : i < j /\ f[j] # 0 => f[i] # 0 /\ r[f[i]] < r[f[j]]
    <2> DEFINE T == {j \in 0 .. NBlk : \E i \in 0 .. NBlk : i < j /\ f[j] # 0 /\ ~(f[i] # 0 /\ r[f[i]] < r[f[j]])}
    <2>1. SUFFICES ASSUME T # {} PROVE FALSE OBVIOUS
    <2>2. T \subseteq Nat BY <1>0
    <2>3. PICK j \in T : \A l \in T : j <= l
      <3> HIDE DEF T
      <3> QED BY <2>1, <2>2, LeastNat
    <2>4. PICK i \in 0 .. NBlk : i < j /\ f[j] # 0 /\ ~(f[i] # 0 /\ r[f[i]] < r[f[j]])
      BY <2>3
    <2>5. j \in 1 .. NBlk /\ j - 1 \in 0 .. NBlk BY <1>0, <2>3, <2>4
    <2>6. f[j - 1] # 0 /\ r[f[j - 1]] < r[f[j]] /\ f[j - 1] \in S BY <1>2, <2>4, <2>5
    <2>7. i # j - 1 BY <2>4, <2>6
    <2>8. j - 1 \notin T BY <1>0, <2>3, <2>5
    <2>9. i < j - 1 BY <1>0, <2>4, <2>5, <2>7
    <2>10. f[i] # 0 /\ r[f[i]] < r[f[j - 1]] BY <2>5, <2>6, <2>8, <2>9
    <2>11. f[i] \in S /\ f[j] \in S BY <1>1, <2>3, <2>4, <2>10
    <2>12. r[f[i]] \in Nat /\ r[f[j - 1]] \in Nat /\ r[f[j]] \in Nat BY <2>6, <2>11 DEF Chain
    <2> QED BY <2>4, <2>6, <2>10, <2>12
  <1>4. \A i, j \in 0 .. NBlk : i # j /\ f[i] # 0 /\ f[j] # 0 => f[i] # f[j]
    <2>1. SUFFICES ASSUME NEW i \in 0 .. NBlk, NEW j \in 0 .. NBlk, i < j, f[i] # 0, f[j] # 0, f[i] = f[j]
                 PROVE  FALSE
      BY <1>0
    <2>2. f[j] \in S BY <1>1, <2>1
    <2>3. r[f[j]] \in Nat BY <2>2 DEF Chain
    <2> QED BY <1>3, <2>1, <2>3
  <1> DEFINE E == {k \in 0 .. NBlk : f[k] = 0}
  <1>5. E # {}
    <2>1. SUFFICES ASSUME \A k \in 0 .. NBlk : f[k] # 0 PROVE FALSE OBVIOUS
    <2>2. f \in [0 .. NBlk -> Blocks] BY <1>1, <2>1 DEF Chain
    <2>3. IsFiniteSet(0 .. NBlk) /\ Cardinality(0 .. NBlk) = NBlk + 1
      BY <1>0, FS_Interval
    <2>4. IsFiniteSet(Blocks) /\ Cardinality(Blocks) = NBlk
      BY <1>0, FS_Interval DEF Blocks
    <2>5. Cardinality(Blocks) < Cardinality(0 .. NBlk) BY <1>0, <2>3, <2>4
    <2>6. \E x, y \in 0 .. NBlk : x # y /\ f[x] = f[y]
      BY <2>2, <2>3, <2>4, <2>5, FS_PigeonHole, ZenonT(60)
    <2> QED BY <1>4, <2>1, <2>6
  <1>6. PICK m \in E : \A k \in E : m <= k
    <2>1. E \subseteq Nat BY <1>0
    <2> HIDE DEF E
    <2> QED BY <1>5, <2>1, LeastNat
  <1>7. m \in 0 .. NBlk /\ f[m] = 0 BY <1>6
  <1>8. \A k \in 0 .. m - 1 : k \in 0 .. NBlk /\ f[k] \in S
    <2>1. SUFFICES ASSUME NEW k \in 0 .. m - 1 PROVE k \in 0 .. NBlk /\ f[k] \in S OBVIOUS
    <2>2. k \in 0 .. NBlk /\ ~(m <= k) BY <1>0, <1>7
    <2>3. f[k] # 0 BY <1>6, <2>2
    <2> QED BY <1>1, <2>2, <2>3
  <1>9. \A k \in m .. NBlk : f[k] = 0
    <2>1. SUFFICES ASSUME NEW k \in m .. NBlk, f[k] # 0 PROVE FALSE OBVIOUS
    <2>2. k \in 0 .. NBlk /\ m < k BY <1>0, <1>7, <2>1
    <2> QED BY <1>3, <1>7, <2>1, <2>2
  <1>10. \A i, j \in 0 .. m - 1 : f[i] = f[j] => i = j
    BY <1>0, <1>4, <1>8
  <1>11. \A c \in S : \E k \in 0 .. m - 1 : f[k] = c
    <2> DEFINE Out == {c \in S : ~ \E k \in 0 .. m - 1 : f[k] = c}
               T == {r[c] : c \in Out}
    <2>1. SUFFICES ASSUME Out # {} PROVE FALSE OBVIOUS
    <2>2. T \subseteq Nat /\ T # {} BY <2>1 DEF Chain
    <2>3. PICK x \in T : \A y \in T : x <= y
      <3> HIDE DEF T
      <3> QED BY <2>2, LeastNat
    <2>4. PICK c \in Out : x = r[c] OBVIOUS
    <2>5. c # h
      <3>1. SUFFICES ASSUME c = h PROVE FALSE OBVIOUS
      <3>2. f[0] = c /\ c # 0 BY <1>0, <3>1 DEF Steps
      <3>3. 0 \in 0 .. m - 1 BY <1>0, <1>7, <3>2
      <3> QED BY <3>2, <3>3
    <2>6. PICK d \in S : g[d] = c BY <2>5 DEF Chain
    <2>7. r[d] < r[c] /\ r[d] \in Nat /\ r[c] \in Nat BY <1>0, <2>6 DEF Chain
    <2>8. d \notin Out BY <2>3, <2>4, <2>7
    <2>9. PICK k \in 0 .. m - 1 : f[k] = d BY <2>8
    <2>10. k + 1 \in 1 .. NBlk /\ (k + 1) - 1 = k BY <1>0, <1>7
    <2>11. f[k + 1] = IF f[k] = 0 THEN 0 ELSE g[f[k]] BY <2>10 DEF Steps
    <2>12. f[k + 1] = c /\ c # 0 BY <1>0, <2>6, <2>9, <2>11
    <2>13. k + 1 # m BY <1>7, <2>12
    <2>14. k + 1 \in 0 .. m - 1 BY <1>0, <1>7, <2>13
    <2> QED BY <2>12, <2>14
  <1>12. Walked(S, f, m) BY <1>1, <1>7, <1>8, <1>9, <1>10, <1>11 DEF Walked
  <1> QED BY <1>7, <1>12

\* What a walk meets, as a set, and how many blocks that are.
LEMMA WalkMembers ==
    ASSUME NEW S, NEW f, NEW m, Walked(S, f, m), S \subseteq Blocks
    PROVE  Members(f) = S /\ IsFiniteSet(S) /\ Cardinality(S) = m
  <1>0. NBlk \in Nat /\ 0 \notin S /\ m \in 0 .. NBlk BY HeapAssumption DEF Blocks, Walked
  <1>1. DOMAIN f = 0 .. NBlk BY DEF Walked
  <1>2. ASSUME NEW k \in 0 .. NBlk, f[k] # 0 PROVE f[k] \in S BY <1>2 DEF Walked
  <1>3. ASSUME NEW c \in S PROVE \E k \in 0 .. NBlk : f[k] = c
    <2>1. PICK k \in 0 .. m - 1 : f[k] = c BY DEF Walked
    <2>2. k \in 0 .. NBlk BY <1>0
    <2> QED BY <2>1, <2>2
  <1>4. Members(f) = S BY <1>0, <1>1, <1>2, <1>3 DEF Members
  <1> DEFINE e == [k \in 0 .. m - 1 |-> f[k]]
  <1>5. e \in Bijection(0 .. m - 1, S)
    <2>1. e \in [0 .. m - 1 -> S] BY DEF Walked
    <2>2. \A i, j \in 0 .. m - 1 : e[i] = e[j] => i = j BY DEF Walked
    <2>3. \A c \in S : \E k \in 0 .. m - 1 : e[k] = c BY DEF Walked
    <2> HIDE DEF e
    <2> QED BY <2>1, <2>2, <2>3 DEF Bijection, Injection, Surjection, IsInjective
  <1>6. IsFiniteSet(0 .. m - 1) /\ Cardinality(0 .. m - 1) = m
    <2>1. m - 1 \in Int /\ 0 \in Int /\ m \in Nat BY <1>0
    <2>2. IsFiniteSet(0 .. m - 1) /\ Cardinality(0 .. m - 1) = IF 0 > m - 1 THEN 0 ELSE (m - 1) - 0 + 1
      BY <2>1, FS_Interval
    <2> QED BY <2>1, <2>2
  <1>7. ExistsBijection(0 .. m - 1, S) BY <1>5 DEF ExistsBijection
  <1>8. IsFiniteSet(S) /\ Cardinality(S) = m BY <1>6, <1>7, FS_Bijection
  <1> QED BY <1>4, <1>8

-----------------------------------------------------------------------------
(* Heaps and blocks as records, and the links they hold.                    *)

\* A block is mapped unless it is NoBlk.
LEMMA NoBlkApart == NoBlk \notin BlkRec /\ \A x \in BlkRec \cup {NoBlk} : x.mapped <=> x # NoBlk
  <1>1. ASSUME NEW x \in BlkRec PROVE x.mapped = TRUE BY DEF BlkRec
  <1>2. NoBlk.mapped = FALSE BY DEF NoBlk
  <1>3. TRUE # FALSE OBVIOUS
  <1>4. NoBlk \notin BlkRec BY <1>1, <1>2, <1>3, Zenon
  <1>5. ASSUME NEW x \in BlkRec \cup {NoBlk} PROVE x.mapped <=> x # NoBlk
    <2>1. CASE x = NoBlk BY <1>2, <2>1, Zenon
    <2>2. CASE x # NoBlk
      <3>1. x \in BlkRec BY <2>2
      <3>2. x.mapped = TRUE BY <1>1, <3>1, Zenon
      <3> QED BY <2>2, <3>2, Zenon
    <2> QED BY <2>1, <2>2
  <1> QED BY <1>4, <1>5

\* A heap is mapped unless it is NoHeap.
LEMMA NoHeapApart == NoHeap \notin HeapRec /\ \A h \in HeapRec \cup {NoHeap} : h.mapped <=> h # NoHeap
  <1>1. ASSUME NEW x \in HeapRec PROVE x.mapped = TRUE BY DEF HeapRec
  <1>2. NoHeap.mapped = FALSE BY DEF NoHeap
  <1>3. TRUE # FALSE OBVIOUS
  <1>4. NoHeap \notin HeapRec BY <1>1, <1>2, <1>3, Zenon
  <1>5. ASSUME NEW x \in HeapRec \cup {NoHeap} PROVE x.mapped <=> x # NoHeap
    <2>1. CASE x = NoHeap BY <1>2, <2>1, Zenon
    <2>2. CASE x # NoHeap
      <3>1. x \in HeapRec BY <2>2
      <3>2. x.mapped = TRUE BY <1>1, <3>1, Zenon
      <3> QED BY <2>2, <3>2, Zenon
    <2> QED BY <2>1, <2>2
  <1> QED BY <1>4, <1>5

\* Setting a link.
LEMMA NextSet == ASSUME NEW x \in BlkRec, NEW v \in Refs PROVE [x EXCEPT !.next = v] \in BlkRec
  BY Zenon DEF BlkRec

\* Another link leaves a block a block.
LEMMA PrevSet == ASSUME NEW x \in BlkRec, NEW v \in Refs PROVE [x EXCEPT !.prev = v] \in BlkRec
  BY Zenon DEF BlkRec

\* What Join changes.
LEMMA JoinIs ==
    ASSUME NEW B \in BlksType, NEW p \in Refs, NEW n \in Refs,
           p # 0 => B[p] # NoBlk, n # 0 => B[n] # NoBlk, p = n => p = 0
    PROVE  Joined(B, p, n, Join(B, p, n))
  <1> DEFINE J == Join(B, p, n)
  <1>1. ASSUME NEW c \in Blocks
        PROVE  /\ J[c] \in BlkRec \cup {NoBlk} /\ Same(J[c], B[c])
               /\ J[c] # NoBlk => J[c].next = (IF c = p THEN n ELSE B[c].next)
                               /\ J[c].prev = (IF c = n THEN p ELSE B[c].prev)
    <2>1. B[c] \in BlkRec \cup {NoBlk} BY DEF BlksType
    <2>2. J[c] = IF c = p THEN [B[c] EXCEPT !.next = n]
                 ELSE IF c = n THEN [B[c] EXCEPT !.prev = p] ELSE B[c]
      BY DEF Join
    <2>3. CASE c = p
      <3>1. B[c] \in BlkRec /\ c # n BY <2>1, <2>3, BlockRefs
      <3>2. J[c] = [B[c] EXCEPT !.next = n] BY <2>2, <2>3
      <3>3. J[c] \in BlkRec BY <3>1, <3>2, NextSet
      <3>4. J[c] # NoBlk /\ B[c] # NoBlk BY <3>1, <3>3, NoBlkApart
      <3> QED BY <2>3, <3>1, <3>2, <3>3, <3>4 DEF Same, BlkRec
    <2>4. CASE c # p /\ c = n
      <3>1. B[c] \in BlkRec BY <2>1, <2>4, BlockRefs
      <3>2. J[c] = [B[c] EXCEPT !.prev = p] BY <2>2, <2>4
      <3>3. J[c] \in BlkRec BY <3>1, <3>2, PrevSet
      <3>4. J[c] # NoBlk /\ B[c] # NoBlk BY <3>1, <3>3, NoBlkApart
      <3> QED BY <2>4, <3>1, <3>2, <3>3, <3>4 DEF Same, BlkRec
    <2>5. CASE c # p /\ c # n
      BY <2>1, <2>2, <2>5 DEF Same
    <2> QED BY <2>3, <2>4, <2>5
  <1>2. J \in BlksType
    <2>1. J = [c \in Blocks |-> J[c]] BY DEF Join
    <2> QED BY <1>1, <2>1 DEF BlksType
  <1>3. ASSUME NEW c \in Blocks
        PROVE  /\ Nx(J)[c] = IF c = p THEN n ELSE Nx(B)[c]
               /\ Pv(J)[c] = IF c = n THEN p ELSE Pv(B)[c]
    <2>1. Nx(J)[c] = (IF J[c] = NoBlk THEN 0 ELSE J[c].next) /\ Pv(J)[c] = (IF J[c] = NoBlk THEN 0 ELSE J[c].prev)
      BY DEF Nx, Pv
    <2>2. Nx(B)[c] = (IF B[c] = NoBlk THEN 0 ELSE B[c].next) /\ Pv(B)[c] = (IF B[c] = NoBlk THEN 0 ELSE B[c].prev)
      BY DEF Nx, Pv
    <2>3. J[c] = NoBlk <=> B[c] = NoBlk BY <1>1 DEF Same
    <2>4. (c = p => B[c] # NoBlk) /\ (c = n => B[c] # NoBlk) BY BlockRefs
    <2> HIDE DEF J
    <2> QED BY <1>1, <2>1, <2>2, <2>3, <2>4
  <1> HIDE DEF J
  <1>4. Joined(B, p, n, J) BY <1>1, <1>2, <1>3 DEF Joined
  <1> QED BY <1>4 DEF J

\* The links of heaps and blocks are references.
LEMMA LinkTypes ==
    /\ \A H \in HeapsType : Hd(H) \in [Ids -> Refs] /\ Tl(H) \in [Ids -> Refs] /\ Kp(H) \in [Threads -> Refs]
    /\ \A B \in BlksType : Nx(B) \in [Blocks -> Refs] /\ Pv(B) \in [Blocks -> Refs]
  <1>1. ASSUME NEW H \in HeapsType
        PROVE  Hd(H) \in [Ids -> Refs] /\ Tl(H) \in [Ids -> Refs] /\ Kp(H) \in [Threads -> Refs]
    <2>1. ASSUME NEW t \in Threads, H[t] # NoHeap
          PROVE  H[t].head \in [Lists -> Refs] /\ H[t].tail \in [Lists -> Refs] /\ H[t].blkfree \in Refs
      BY <2>1 DEF HeapsType, HeapRec
    <2>2. \A z \in Ids : z[1] \in Threads /\ z[2] \in Lists BY DEF Ids
    <2>3. Hd(H) \in [Ids -> Refs] BY <2>1, <2>2, BlockRefs DEF Hd
    <2>4. Tl(H) \in [Ids -> Refs] BY <2>1, <2>2, BlockRefs DEF Tl
    <2>5. Kp(H) \in [Threads -> Refs] BY <2>1, BlockRefs DEF Kp
    <2> QED BY <2>3, <2>4, <2>5
  <1>2. ASSUME NEW B \in BlksType PROVE Nx(B) \in [Blocks -> Refs] /\ Pv(B) \in [Blocks -> Refs]
    <2>1. ASSUME NEW b \in Blocks, B[b] # NoBlk PROVE B[b].next \in Refs /\ B[b].prev \in Refs
      BY <2>1 DEF BlksType, BlkRec
    <2> QED BY <2>1, BlockRefs DEF Nx, Pv
  <1> QED BY <1>1, <1>2

\* One list of one heap gets other ends.
LEMMA HeapUpdate ==
    ASSUME NEW H \in HeapsType, NEW t \in Threads, H[t] # NoHeap, NEW h2 \in HeapRec, NEW l \in Lists,
           NEW hv, NEW tv, h2.head = [H[t].head EXCEPT ![l] = hv], h2.tail = [H[t].tail EXCEPT ![l] = tv]
    PROVE  HeapUpdated(H, t, l, h2, hv, tv)
  <1> DEFINE G == [H EXCEPT ![t] = h2]
  <1>1. G \in HeapsType /\ G[t] = h2 /\ \A x \in Threads : x # t => G[x] = H[x] BY DEF HeapsType
  <1>2. h2 # NoHeap /\ h2.head \in [Lists -> Refs] /\ h2.tail \in [Lists -> Refs]
    BY NoHeapApart DEF HeapRec
  <1>3. H[t] \in HeapRec BY DEF HeapsType
  <1>4. H[t].head \in [Lists -> Refs] /\ H[t].tail \in [Lists -> Refs] BY <1>3 DEF HeapRec
  <1>5. \A z \in Ids : z[1] \in Threads /\ z[2] \in Lists /\ z = <<z[1], z[2]>> BY DEF Ids
  <1>6. <<t, l>> \in Ids BY DEF Ids
  <1> HIDE DEF G
  <1>7. Hd(G) = [Hd(H) EXCEPT ![<<t, l>>] = hv]
    <2>1. ASSUME NEW z \in Ids PROVE Hd(G)[z] = IF z = <<t, l>> THEN hv ELSE Hd(H)[z]
      <3>1. Hd(G)[z] = IF G[z[1]] = NoHeap THEN 0 ELSE G[z[1]].head[z[2]] BY DEF Hd
      <3>2. Hd(H)[z] = IF H[z[1]] = NoHeap THEN 0 ELSE H[z[1]].head[z[2]] BY DEF Hd
      <3>3. CASE z[1] # t
        BY <1>1, <1>5, <3>1, <3>2, <3>3
      <3>4. CASE z[1] = t
        <4>1. Hd(G)[z] = h2.head[z[2]] /\ Hd(H)[z] = H[t].head[z[2]] BY <1>1, <1>2, <3>1, <3>2, <3>4
        <4>2. h2.head[z[2]] = IF z[2] = l THEN hv ELSE H[t].head[z[2]] BY <1>4, <1>5
        <4>3. z = <<t, l>> <=> z[2] = l BY <1>5, <3>4
        <4> QED BY <4>1, <4>2, <4>3
      <3> QED BY <3>3, <3>4
    <2>2. Hd(G) = [z \in Ids |-> Hd(G)[z]] /\ Hd(H) = [z \in Ids |-> Hd(H)[z]] BY DEF Hd
    <2>3. Hd(G) = [z \in Ids |-> IF z = <<t, l>> THEN hv ELSE Hd(H)[z]] BY <2>1, <2>2
    <2> QED BY <2>2, <2>3
  <1>8. Tl(G) = [Tl(H) EXCEPT ![<<t, l>>] = tv]
    <2>1. ASSUME NEW z \in Ids PROVE Tl(G)[z] = IF z = <<t, l>> THEN tv ELSE Tl(H)[z]
      <3>1. Tl(G)[z] = IF G[z[1]] = NoHeap THEN 0 ELSE G[z[1]].tail[z[2]] BY DEF Tl
      <3>2. Tl(H)[z] = IF H[z[1]] = NoHeap THEN 0 ELSE H[z[1]].tail[z[2]] BY DEF Tl
      <3>3. CASE z[1] # t
        BY <1>1, <1>5, <3>1, <3>2, <3>3
      <3>4. CASE z[1] = t
        <4>1. Tl(G)[z] = h2.tail[z[2]] /\ Tl(H)[z] = H[t].tail[z[2]] BY <1>1, <1>2, <3>1, <3>2, <3>4
        <4>2. h2.tail[z[2]] = IF z[2] = l THEN tv ELSE H[t].tail[z[2]] BY <1>4, <1>5
        <4>3. z = <<t, l>> <=> z[2] = l BY <1>5, <3>4
        <4> QED BY <4>1, <4>2, <4>3
      <3> QED BY <3>3, <3>4
    <2>2. Tl(G) = [z \in Ids |-> Tl(G)[z]] /\ Tl(H) = [z \in Ids |-> Tl(H)[z]] BY DEF Tl
    <2>3. Tl(G) = [z \in Ids |-> IF z = <<t, l>> THEN tv ELSE Tl(H)[z]] BY <2>1, <2>2
    <2> QED BY <2>2, <2>3
  <1>9. Kp(G) = [Kp(H) EXCEPT ![t] = h2.blkfree]
    BY <1>1, <1>2 DEF Kp
  <1>10. Hd(H)[<<t, l>>] = H[t].head[l] /\ Tl(H)[<<t, l>>] = H[t].tail[l]
    BY <1>6 DEF Hd, Tl
  <1> QED BY <1>1, <1>6, <1>7, <1>8, <1>9, <1>10 DEF G, HeapUpdated

\* A block on a list in terms of its record and its heap.
LEMMA LinksNode ==
    ASSUME NEW H, NEW B, NEW own, NEW r, Links(H, B, own, r),
           NEW t \in Threads, NEW l \in Lists, NEW b \in Blocks, own[b] = <<t, l>>, H[t] # NoHeap
    PROVE  Node(H, B, own, r, t, l, b)
  <1>1. <<t, l>> \in Ids BY DEF Ids
  <1>2. own[b] # NoList BY <1>1, NoListIsNone
  <1>3. B[b] # NoBlk /\ B[b] \in BlkRec BY <1>2 DEF Links, BlksType
  <1>4. Nx(B)[b] = B[b].next /\ Pv(B)[b] = B[b].prev BY <1>3 DEF Nx, Pv
  <1>5. B[b].next \in Refs /\ B[b].prev \in Refs BY <1>3 DEF BlkRec
  <1>6. DLNode(Hd(H), Tl(H), Nx(B), Pv(B), own, r, b) BY <1>2 DEF Links, DL
  <1>7. B[b].prev # 0 => B[b].prev \in Blocks /\ own[B[b].prev] = own[b] /\ r[B[b].prev] < r[b] /\ Nx(B)[B[b].prev] = b
    BY <1>4, <1>5, <1>6, BlockRefs DEF DLNode
  <1>8. B[b].next # 0 => B[b].next \in Blocks /\ own[B[b].next] = own[b] /\ Pv(B)[B[b].next] = b
    BY <1>4, <1>5, <1>6, BlockRefs DEF DLNode
  <1>9. r \in [Blocks -> Nat] BY DEF Links, DL, DLTypes
  <1>10. B[b].next # 0 => r[b] < r[B[b].next]
    <2>1. SUFFICES ASSUME B[b].next # 0 PROVE r[b] < r[B[b].next] OBVIOUS
    <2>2. B[b].next \in Blocks /\ own[B[b].next] # NoList BY <1>2, <1>8, <2>1
    <2>3. DLNode(Hd(H), Tl(H), Nx(B), Pv(B), own, r, B[b].next) BY <2>2 DEF Links, DL
    <2> QED BY <1>8, <2>1, <2>3, BlockRefs DEF DLNode
  <1>11. B[b].prev # b /\ B[b].next # b /\ (B[b].prev = B[b].next => B[b].prev = 0)
    BY <1>7, <1>8, <1>9, <1>10, BlockRefs
  <1>12. Hd(H)[<<t, l>>] = H[t].head[l] /\ Tl(H)[<<t, l>>] = H[t].tail[l]
    BY <1>1 DEF Hd, Tl
  <1>13. (B[b].prev # 0 => B[B[b].prev] # NoBlk) /\ (B[b].next # 0 => B[B[b].next] # NoBlk)
    BY <1>2, <1>7, <1>8 DEF Links
  <1>14. (B[b].prev = 0 <=> H[t].head[l] = b) /\ (B[b].next = 0 <=> H[t].tail[l] = b)
    BY <1>4, <1>6, <1>12 DEF DLNode
  <1> QED BY <1>1, <1>2, <1>3, <1>4, <1>5, <1>6, <1>7, <1>8, <1>11, <1>13, <1>14 DEF Node

\* Unlink takes a block out of its list.
LEMMA LinksUnlink ==
    ASSUME NEW H, NEW B, NEW own, NEW r, Links(H, B, own, r),
           NEW t \in Threads, NEW l \in Lists, NEW b \in Blocks, own[b] = <<t, l>>, H[t] # NoHeap,
           NEW s, s = [h |-> H[t], B |-> B],
           NEW h2, NEW B2, h2 = Unlink(s, l, b).h, B2 = Unlink(s, l, b).B
    PROVE  UnlinkedBy(H, B, own, r, t, l, b, h2, B2)
  <1> DEFINE p == B[b].prev
             n == B[b].next
             hv == IF p = 0 THEN n ELSE H[t].head[l]
             tv == IF n = 0 THEN p ELSE H[t].tail[l]
             H2 == [H EXCEPT ![t] = h2]
             own2 == [own EXCEPT ![b] = NoList]
  <1>1. /\ B[b] \in BlkRec /\ own[b] # NoList /\ p \in Refs /\ n \in Refs
        /\ Nx(B)[b] = n /\ Pv(B)[b] = p
        /\ (p # 0 => B[p] # NoBlk /\ own[p] = own[b]) /\ (n # 0 => B[n] # NoBlk /\ own[n] = own[b])
        /\ (p = n => p = 0) /\ p # b /\ n # b /\ <<t, l>> \in Ids
    <2>1. Node(H, B, own, r, t, l, b) BY LinksNode, Zenon
    <2> QED BY <2>1 DEF Node
  <1>2. H \in HeapsType /\ B \in BlksType /\ H[t] \in HeapRec BY DEF Links, HeapsType
  <1>3. s.h = H[t] /\ s.B = B OBVIOUS
  <1>4. h2 = [H[t] EXCEPT !.head[l] = hv, !.tail[l] = tv]
    BY <1>3 DEF Unlink
  <1>5. B2 = Join(B, p, n)
    BY <1>3 DEF Unlink
  <1>6. B2 \in BlksType /\ \A c \in Blocks : /\ Same(B2[c], B[c])
                                             /\ Nx(B2)[c] = IF c = p THEN n ELSE Nx(B)[c]
                                             /\ Pv(B2)[c] = IF c = n THEN p ELSE Pv(B)[c]
    <2> HIDE DEF p, n
    <2>1. Joined(B, p, n, B2) BY <1>1, <1>2, <1>5, JoinIs
    <2> QED BY <2>1 DEF Joined
  <1>7. H[t].head \in [Lists -> Refs] /\ H[t].tail \in [Lists -> Refs] BY <1>2 DEF HeapRec
  <1>8. hv \in Refs /\ tv \in Refs BY <1>1, <1>7
  <1>9. /\ h2.head = [H[t].head EXCEPT ![l] = hv] /\ h2.tail = [H[t].tail EXCEPT ![l] = tv]
        /\ SameHeap(h2, H[t]) /\ h2 \in HeapRec
    <2> HIDE DEF hv, tv
    <2>1. h2.head = [H[t].head EXCEPT ![l] = hv] BY <1>2, <1>4 DEF HeapRec
    <2>2. h2.tail = [H[t].tail EXCEPT ![l] = tv] BY <1>2, <1>4 DEF HeapRec
    <2>3. h2 = [H[t] EXCEPT !.head = [H[t].head EXCEPT ![l] = hv], !.tail = [H[t].tail EXCEPT ![l] = tv]]
      BY <1>2, <1>4 DEF HeapRec
    <2>4. [H[t].head EXCEPT ![l] = hv] \in [Lists -> Refs] /\ [H[t].tail EXCEPT ![l] = tv] \in [Lists -> Refs]
      BY <1>7, <1>8
    <2>5. SameHeap(h2, H[t]) BY <1>2, <2>3 DEF SameHeap, HeapRec
    <2>6. h2 \in HeapRec BY <1>2, <2>3, <2>4 DEF HeapRec
    <2> QED BY <2>1, <2>2, <2>5, <2>6
  <1>10. H2 \in HeapsType /\ Hd(H2) = [Hd(H) EXCEPT ![<<t, l>>] = hv] /\ Tl(H2) = [Tl(H) EXCEPT ![<<t, l>>] = tv]
         /\ Hd(H)[<<t, l>>] = H[t].head[l] /\ Tl(H)[<<t, l>>] = H[t].tail[l]
    <2> HIDE DEF hv, tv
    <2>1. H \in HeapsType /\ h2 \in HeapRec BY <1>2, <1>9
    <2>2. h2.head = [H[t].head EXCEPT ![l] = hv] /\ h2.tail = [H[t].tail EXCEPT ![l] = tv] BY <1>9
    <2>3. HeapUpdated(H, t, l, h2, hv, tv) BY <2>1, <2>2, HeapUpdate
    <2> QED BY <2>3 DEF HeapUpdated
  <1>11. TakenOut(Hd(H), Tl(H), Nx(B), Pv(B), own, b, Hd(H2), Tl(H2), Nx(B2), Pv(B2))
    <2>1. Hd(H) \in [Ids -> Refs] /\ Tl(H) \in [Ids -> Refs] BY <1>2, LinkTypes
    <2>2. Hd(H2) = [Hd(H) EXCEPT ![own[b]] = IF Pv(B)[b] = 0 THEN Nx(B)[b] ELSE @]
      BY <1>1, <1>10, <2>1
    <2>3. Tl(H2) = [Tl(H) EXCEPT ![own[b]] = IF Nx(B)[b] = 0 THEN Pv(B)[b] ELSE @]
      BY <1>1, <1>10, <2>1
    <2>4. Nx(B2) \in [Blocks -> Refs] /\ Pv(B2) \in [Blocks -> Refs] BY <1>6, LinkTypes
    <2>5. \A c \in Blocks : /\ Nx(B2)[c] = IF c = Pv(B)[b] THEN Nx(B)[b] ELSE Nx(B)[c]
                            /\ Pv(B2)[c] = IF c = Nx(B)[b] THEN Pv(B)[b] ELSE Pv(B)[c]
      BY <1>1, <1>6
    <2> QED BY <2>2, <2>3, <2>4, <2>5 DEF TakenOut
  <1>12. DL(Hd(H2), Tl(H2), Nx(B2), Pv(B2), own2, r)
    BY <1>1, <1>11, DLTakeOut DEF Links
  <1>13. ASSUME NEW c \in Blocks, own2[c] # NoList PROVE B2[c] # NoBlk
    <2>1. own \in [Blocks -> Ids \cup {NoList}] BY DEF Links, DL, DLTypes
    <2>2. own[c] # NoList BY <1>13, <2>1
    <2>3. B[c] # NoBlk BY <2>2 DEF Links
    <2> QED BY <1>6, <2>3 DEF Same
  <1>14. Links(H2, B2, own2, r) BY <1>6, <1>10, <1>12, <1>13 DEF Links
  <1>15. ASSUME NEW c \in Blocks, own[c] = NoList PROVE Nx(B2)[c] = Nx(B)[c]
    <2>1. c # p BY <1>1, <1>15, BlockRefs
    <2> QED BY <1>6, <2>1
  <1>16. OnlyLinks(H[t], B, h2, B2) BY <1>6, <1>9 DEF OnlyLinks
  <1> HIDE DEF H2, own2
  <1> QED BY <1>9, <1>11, <1>14, <1>15, <1>16 DEF H2, own2, UnlinkedBy

\* Changes of blocks that are on no list, and of the other fields.
LEMMA LinksFrame ==
    ASSUME NEW H, NEW B, NEW own, NEW r, Links(H, B, own, r),
           NEW H2 \in HeapsType, NEW B2 \in BlksType, Hd(H2) = Hd(H), Tl(H2) = Tl(H),
           \A c \in Blocks : own[c] # NoList =>
              B2[c] # NoBlk /\ B2[c].next = B[c].next /\ B2[c].prev = B[c].prev
    PROVE  Links(H2, B2, own, r)
  <1>1. Nx(B2) \in [Blocks -> Refs] /\ Pv(B2) \in [Blocks -> Refs] BY LinkTypes
  <1>2. Hd(H2) \in [Ids -> Refs] /\ Tl(H2) \in [Ids -> Refs] BY LinkTypes
  <1>3. own \in [Blocks -> Ids \cup {NoList}] BY DEF Links, DL, DLTypes
  <1>4. ASSUME NEW c \in Blocks, own[c] # NoList PROVE Nx(B2)[c] = Nx(B)[c] /\ Pv(B2)[c] = Pv(B)[c]
    <2>1. B[c] # NoBlk /\ B2[c] # NoBlk BY <1>4 DEF Links
    <2> QED BY <1>4, <2>1 DEF Nx, Pv
  <1>5. Dropped({}, Hd(H), Tl(H), Nx(B), Pv(B), own, Hd(H2), Tl(H2), Nx(B2), Pv(B2), own)
    BY <1>1, <1>2, <1>3, <1>4 DEF Dropped
  <1>6. DL(Hd(H2), Tl(H2), Nx(B2), Pv(B2), own, r)
    <2>1. DL(Hd(H), Tl(H), Nx(B), Pv(B), own, r) BY DEF Links
    <2> QED BY <1>5, <2>1, DLDrop
  <1> QED BY <1>6 DEF Links

\* The ends of a list in terms of the heap record.
LEMMA LinksEnds ==
    ASSUME NEW H, NEW B, NEW own, NEW r, Links(H, B, own, r),
           NEW t \in Threads, NEW l \in Lists, H[t] # NoHeap
    PROVE  Ends(H, own, t, l)
  <1>1. <<t, l>> \in Ids BY DEF Ids
  <1>2. H[t] \in HeapRec BY DEF Links, HeapsType
  <1>3. H[t].head \in [Lists -> Refs] /\ H[t].tail \in [Lists -> Refs] BY <1>2 DEF HeapRec
  <1>4. Hd(H)[<<t, l>>] = H[t].head[l] /\ Tl(H)[<<t, l>>] = H[t].tail[l] BY <1>1 DEF Hd, Tl
  <1>5. DLEnds(Hd(H), Tl(H), own) BY DEF Links, DL
  <1>6. /\ Hd(H)[<<t, l>>] = 0 <=> Tl(H)[<<t, l>>] = 0
        /\ Hd(H)[<<t, l>>] # 0 => own[Hd(H)[<<t, l>>]] = <<t, l>>
        /\ Tl(H)[<<t, l>>] # 0 => own[Tl(H)[<<t, l>>]] = <<t, l>>
    BY <1>1, <1>5 DEF DLEnds
  <1>7. H[t].head[l] \in Refs /\ H[t].tail[l] \in Refs BY <1>3
  <1> QED BY <1>1, <1>2, <1>3, <1>4, <1>6, <1>7, BlockRefs DEF Ends

\* Only prev changes.
LEMMA SetPrev ==
    ASSUME NEW x \in BlkRec, NEW v \in Refs, NEW y, y = [x EXCEPT !.prev = v]
    PROVE  y \in BlkRec /\ y.next = x.next /\ y.prev = v /\ Same(y, x)
  <1>1. y \in BlkRec BY DEF BlkRec
  <1>2. y.next = x.next /\ y.prev = v BY DEF BlkRec
  <1>3. Same(y, x) BY <1>1, NoBlkApart DEF Same, BlkRec
  <1> QED BY <1>1, <1>2, <1>3

\* Only next changes.
LEMMA SetNext ==
    ASSUME NEW x \in BlkRec, NEW v \in Refs, NEW y, y = [x EXCEPT !.next = v]
    PROVE  y \in BlkRec /\ y.prev = x.prev /\ y.next = v /\ Same(y, x)
  <1>1. y \in BlkRec BY DEF BlkRec
  <1>2. y.prev = x.prev /\ y.next = v BY DEF BlkRec
  <1>3. Same(y, x) BY <1>1, NoBlkApart DEF Same, BlkRec
  <1> QED BY <1>1, <1>2, <1>3

\* The blocks after b was put before n.
LEMMA FirstBIs ==
    ASSUME NEW B \in BlksType, NEW b \in Blocks, NEW n \in Refs, B[b] # NoBlk, n # 0 => B[n] # NoBlk, n # b
    PROVE  IsFirstB(B, b, n, FirstB(B, b, n))
  <1> DEFINE J == Join(B, b, n)
             F == FirstB(B, b, n)
  <1>1. J \in BlksType /\ \A c \in Blocks :
            Same(J[c], B[c]) /\ Nx(J)[c] = (IF c = b THEN n ELSE Nx(B)[c])
            /\ Pv(J)[c] = (IF c = n THEN b ELSE Pv(B)[c])
    <2>1. b \in Refs /\ b # 0 BY BlockRefs
    <2>2. Joined(B, b, n, J) BY <2>1, JoinIs
    <2> QED BY <2>2 DEF Joined
  <1> HIDE DEF J
  <1>2. J[b] # NoBlk /\ J[b] \in BlkRec BY <1>1 DEF Same, BlksType
  <1>3. F = [J EXCEPT ![b].prev = 0] BY DEF FirstB, J
  <1>4. F[b] = [J[b] EXCEPT !.prev = 0] /\ DOMAIN F = Blocks /\ \A c \in Blocks : c # b => F[c] = J[c]
    BY <1>1, <1>3 DEF BlksType
  <1>5. F[b] \in BlkRec /\ F[b].next = J[b].next /\ F[b].prev = 0 /\ Same(F[b], J[b])
    <2>1. 0 \in Refs BY BlockRefs
    <2> HIDE DEF F
    <2> QED BY <1>2, <1>4, <2>1, SetPrev
  <1>6. Same(F[b], J[b]) BY <1>5
  <1>7. F \in BlksType BY <1>1, <1>3, <1>4, <1>5 DEF BlksType
  <1> HIDE DEF F
  <1>8. ASSUME NEW c \in Blocks
        PROVE    /\ Same(F[c], B[c])
                 /\ Nx(F)[c] = IF c = b THEN n ELSE Nx(B)[c]
                 /\ Pv(F)[c] = IF c = b THEN 0 ELSE IF c = n THEN b ELSE Pv(B)[c]
    <2>1. CASE c = b
      <3>1. Same(F[b], B[b]) BY <1>1, <1>6 DEF Same
      <3>2. Nx(J)[b] = J[b].next BY <1>2 DEF Nx
      <3>3. Nx(F)[b] = F[b].next /\ Pv(F)[b] = 0 BY <1>5, NoBlkApart DEF Nx, Pv
      <3> QED BY <1>1, <1>5, <2>1, <3>1, <3>2, <3>3
    <2>2. CASE c # b
      <3>1. F[c] = J[c] BY <1>4, <2>2
      <3>2. Nx(F)[c] = Nx(J)[c] /\ Pv(F)[c] = Pv(J)[c] BY <3>1 DEF Nx, Pv
      <3> QED BY <1>1, <2>2, <3>1, <3>2
    <2> QED BY <2>1, <2>2
  <1>9. IsFirstB(B, b, n, F) BY <1>7, <1>8 DEF IsFirstB
  <1> QED BY <1>9 DEF F

\* The blocks after b was put behind p.
LEMMA LastBIs ==
    ASSUME NEW B \in BlksType, NEW b \in Blocks, NEW p \in Refs, B[b] # NoBlk, p # 0 => B[p] # NoBlk, p # b
    PROVE  IsLastB(B, b, p, LastB(B, b, p))
  <1> DEFINE J == Join(B, p, b)
             F == LastB(B, b, p)
  <1>1. J \in BlksType /\ \A c \in Blocks :
            Same(J[c], B[c]) /\ Nx(J)[c] = (IF c = p THEN b ELSE Nx(B)[c])
            /\ Pv(J)[c] = (IF c = b THEN p ELSE Pv(B)[c])
    <2>1. b \in Refs /\ b # 0 BY BlockRefs
    <2>2. Joined(B, p, b, J) BY <2>1, JoinIs
    <2> QED BY <2>2 DEF Joined
  <1> HIDE DEF J
  <1>2. J[b] # NoBlk /\ J[b] \in BlkRec BY <1>1 DEF Same, BlksType
  <1>3. F = [J EXCEPT ![b].next = 0] BY DEF LastB, J
  <1>4. F[b] = [J[b] EXCEPT !.next = 0] /\ DOMAIN F = Blocks /\ \A c \in Blocks : c # b => F[c] = J[c]
    BY <1>1, <1>3 DEF BlksType
  <1>5. F[b] \in BlkRec /\ F[b].prev = J[b].prev /\ F[b].next = 0 /\ Same(F[b], J[b])
    <2>1. 0 \in Refs BY BlockRefs
    <2> HIDE DEF F
    <2> QED BY <1>2, <1>4, <2>1, SetNext
  <1>6. Same(F[b], J[b]) BY <1>5
  <1>7. F \in BlksType BY <1>1, <1>3, <1>4, <1>5 DEF BlksType
  <1> HIDE DEF F
  <1>8. ASSUME NEW c \in Blocks
        PROVE    /\ Same(F[c], B[c])
                 /\ Pv(F)[c] = IF c = b THEN p ELSE Pv(B)[c]
                 /\ Nx(F)[c] = IF c = b THEN 0 ELSE IF c = p THEN b ELSE Nx(B)[c]
    <2>1. CASE c = b
      <3>1. Same(F[b], B[b]) BY <1>1, <1>6 DEF Same
      <3>2. Pv(J)[b] = J[b].prev BY <1>2 DEF Pv
      <3>3. Pv(F)[b] = F[b].prev /\ Nx(F)[b] = 0 BY <1>5, NoBlkApart DEF Nx, Pv
      <3> QED BY <1>1, <1>5, <2>1, <3>1, <3>2, <3>3
    <2>2. CASE c # b
      <3>1. F[c] = J[c] BY <1>4, <2>2
      <3>2. Nx(F)[c] = Nx(J)[c] /\ Pv(F)[c] = Pv(J)[c] BY <3>1 DEF Nx, Pv
      <3> QED BY <1>1, <2>2, <3>1, <3>2
    <2> QED BY <2>1, <2>2
  <1>9. IsLastB(B, b, p, F) BY <1>7, <1>8 DEF IsLastB
  <1> QED BY <1>9 DEF F

\* A block that is on no list becomes the first of one.
LEMMA LinksPutFirst ==
    ASSUME NEW H, NEW B, NEW own, NEW r, Links(H, B, own, r),
           NEW t \in Threads, NEW l \in Lists, NEW b \in Blocks, own[b] = NoList, B[b] # NoBlk, H[t] # NoHeap,
           NEW h2 \in HeapRec, h2.head = [H[t].head EXCEPT ![l] = b],
           h2.tail = [H[t].tail EXCEPT ![l] = IF H[t].tail[l] = 0 THEN b ELSE H[t].tail[l]],
           NEW B2, B2 = FirstB(B, b, H[t].head[l])
    PROVE  PutFirstBy(H, B, own, r, t, l, b, h2, B2)
  <1> DEFINE n == H[t].head[l]
             tv == IF H[t].tail[l] = 0 THEN b ELSE H[t].tail[l]
             H2 == [H EXCEPT ![t] = h2]
             own2 == [own EXCEPT ![b] = <<t, l>>]
  <1>1. /\ <<t, l>> \in Ids /\ n \in Refs /\ Hd(H)[<<t, l>>] = n /\ Tl(H)[<<t, l>>] = H[t].tail[l]
        /\ n # 0 => n \in Blocks /\ own[n] = <<t, l>>
    <2>1. Ends(H, own, t, l) BY LinksEnds
    <2> QED BY <2>1 DEF Ends
  <1>2. n # 0 => B[n] # NoBlk /\ n # b BY <1>1, NoListIsNone DEF Links
  <1>3. n # b BY <1>2, BlockRefs
  <1>4. H \in HeapsType /\ B \in BlksType BY DEF Links
  <1>5. B2 \in BlksType /\ \A c \in Blocks :
                 /\ Same(B2[c], B[c])
                 /\ Nx(B2)[c] = IF c = b THEN n ELSE Nx(B)[c]
                 /\ Pv(B2)[c] = IF c = b THEN 0 ELSE IF c = n THEN b ELSE Pv(B)[c]
    <2> HIDE DEF n
    <2>1. B2 = FirstB(B, b, n) BY DEF n
    <2>2. IsFirstB(B, b, n, B2) BY <1>1, <1>2, <1>3, <1>4, <2>1, FirstBIs
    <2> QED BY <2>2 DEF IsFirstB
  <1>6. H2 \in HeapsType /\ Hd(H2) = [Hd(H) EXCEPT ![<<t, l>>] = b] /\ Tl(H2) = [Tl(H) EXCEPT ![<<t, l>>] = tv]
    <2> HIDE DEF tv
    <2>1. h2.tail = [H[t].tail EXCEPT ![l] = tv] BY DEF tv
    <2>2. HeapUpdated(H, t, l, h2, b, tv) BY <1>4, <2>1, HeapUpdate
    <2> QED BY <2>2 DEF HeapUpdated
  <1>7. PutFirst(Hd(H), Tl(H), Nx(B), Pv(B), own, b, <<t, l>>, Hd(H2), Tl(H2), Nx(B2), Pv(B2))
    <2>1. Tl(H) \in [Ids -> Refs] BY <1>4, LinkTypes
    <2>2. Tl(H2) = [Tl(H) EXCEPT ![<<t, l>>] = IF @ = 0 THEN b ELSE @] BY <1>1, <1>6, <2>1
    <2>3. Nx(B2) \in [Blocks -> Refs] /\ Pv(B2) \in [Blocks -> Refs] BY <1>5, LinkTypes
    <2>4. \A c \in Blocks : own[c] # NoList =>
              Nx(B2)[c] = Nx(B)[c] /\ Pv(B2)[c] = IF c = Hd(H)[<<t, l>>] THEN b ELSE Pv(B)[c]
      BY <1>1, <1>5
    <2>5. Nx(B2)[b] = Hd(H)[<<t, l>>] /\ Pv(B2)[b] = 0 BY <1>1, <1>5
    <2> QED BY <1>6, <2>2, <2>3, <2>4, <2>5 DEF PutFirst
  <1>8. DL(Hd(H2), Tl(H2), Nx(B2), Pv(B2), own2, RankFirst(r, b))
    BY <1>1, <1>7, DLPutFirst DEF Links
  <1>9. ASSUME NEW c \in Blocks, own2[c] # NoList PROVE B2[c] # NoBlk
    <2>1. own \in [Blocks -> Ids \cup {NoList}] BY DEF Links, DL, DLTypes
    <2>2. B[c] # NoBlk BY <1>9, <2>1 DEF Links
    <2> QED BY <1>5, <2>2 DEF Same
  <1>10. Links(H2, B2, own2, RankFirst(r, b)) BY <1>5, <1>6, <1>8, <1>9 DEF Links
  <1> HIDE DEF H2, own2
  <1> QED BY <1>5, <1>7, <1>10 DEF H2, own2, PutFirstBy

\* A block that is on no list becomes the last of one.
LEMMA LinksPutLast ==
    ASSUME NEW H, NEW B, NEW own, NEW r, Links(H, B, own, r),
           NEW t \in Threads, NEW l \in Lists, NEW b \in Blocks, own[b] = NoList, B[b] # NoBlk, H[t] # NoHeap,
           H[t].tail[l] # 0,
           NEW h2 \in HeapRec, h2.head = H[t].head, h2.tail = [H[t].tail EXCEPT ![l] = b],
           NEW B2, B2 = LastB(B, b, H[t].tail[l])
    PROVE  PutLastBy(H, B, own, r, t, l, b, h2, B2)
  <1> DEFINE n == H[t].tail[l]
             H2 == [H EXCEPT ![t] = h2]
             own2 == [own EXCEPT ![b] = <<t, l>>]
  <1>1. /\ <<t, l>> \in Ids /\ n \in Refs /\ Tl(H)[<<t, l>>] = n /\ n \in Blocks /\ own[n] = <<t, l>>
        /\ H[t].head \in [Lists -> Refs] /\ Hd(H)[<<t, l>>] = H[t].head[l]
    <2>1. Ends(H, own, t, l) BY LinksEnds
    <2> QED BY <2>1 DEF Ends
  <1>2. B[n] # NoBlk /\ n # b BY <1>1, NoListIsNone DEF Links
  <1>4. H \in HeapsType /\ B \in BlksType BY DEF Links
  <1>5. B2 \in BlksType /\ \A c \in Blocks :
                 /\ Same(B2[c], B[c])
                 /\ Pv(B2)[c] = IF c = b THEN n ELSE Pv(B)[c]
                 /\ Nx(B2)[c] = IF c = b THEN 0 ELSE IF c = n THEN b ELSE Nx(B)[c]
    <2> HIDE DEF n
    <2>1. B2 = LastB(B, b, n) BY DEF n
    <2>2. IsLastB(B, b, n, B2) BY <1>1, <1>2, <1>4, <2>1, LastBIs
    <2> QED BY <2>2 DEF IsLastB
  <1>6. H2 \in HeapsType /\ Hd(H2) = Hd(H) /\ Tl(H2) = [Tl(H) EXCEPT ![<<t, l>>] = b]
    <2>1. h2.head = [H[t].head EXCEPT ![l] = H[t].head[l]] BY <1>1
    <2>2. HeapUpdated(H, t, l, h2, H[t].head[l], b) BY <1>4, <2>1, HeapUpdate
    <2>3. Hd(H) \in [Ids -> Refs] BY <1>4, LinkTypes
    <2>4. Hd(H2) = [Hd(H) EXCEPT ![<<t, l>>] = Hd(H)[<<t, l>>]] BY <1>1, <2>2 DEF HeapUpdated
    <2>5. Hd(H2) = Hd(H) BY <2>3, <2>4
    <2> QED BY <2>2, <2>5 DEF HeapUpdated
  <1>7. PutLast(Hd(H), Tl(H), Nx(B), Pv(B), own, b, <<t, l>>, Tl(H2), Nx(B2), Pv(B2))
    <2>3. Nx(B2) \in [Blocks -> Refs] /\ Pv(B2) \in [Blocks -> Refs] BY <1>5, LinkTypes
    <2>4. \A c \in Blocks : own[c] # NoList =>
              Pv(B2)[c] = Pv(B)[c] /\ Nx(B2)[c] = IF c = Tl(H)[<<t, l>>] THEN b ELSE Nx(B)[c]
      BY <1>1, <1>5
    <2>5. Pv(B2)[b] = Tl(H)[<<t, l>>] /\ Nx(B2)[b] = 0 BY <1>1, <1>5
    <2> QED BY <1>6, <2>3, <2>4, <2>5 DEF PutLast
  <1>8. DL(Hd(H2), Tl(H2), Nx(B2), Pv(B2), own2, RankLast(r, b, n))
    <2>1. Tl(H)[<<t, l>>] = n /\ Tl(H)[<<t, l>>] # 0 BY <1>1
    <2>2. DL(Hd(H), Tl(H2), Nx(B2), Pv(B2), own2, RankLast(r, b, Tl(H)[<<t, l>>]))
      BY <1>1, <1>7, <2>1, DLPutLast DEF Links
    <2> QED BY <1>6, <2>1, <2>2
  <1>9. ASSUME NEW c \in Blocks, own2[c] # NoList PROVE B2[c] # NoBlk
    <2>1. own \in [Blocks -> Ids \cup {NoList}] BY DEF Links, DL, DLTypes
    <2>2. B[c] # NoBlk BY <1>9, <2>1 DEF Links
    <2> QED BY <1>5, <2>2 DEF Same
  <1>10. Links(H2, B2, own2, RankLast(r, b, n)) BY <1>5, <1>6, <1>8, <1>9 DEF Links
  <1>11. \A c \in Blocks : c # b /\ own[c] = NoList => Nx(B2)[c] = Nx(B)[c]
    BY <1>1, <1>5, NoListIsNone
  <1> HIDE DEF H2, own2
  <1> QED BY <1>5, <1>7, <1>10, <1>11 DEF H2, own2, PutLastBy

-----------------------------------------------------------------------------
(* The lists and the stack of a heap, walked.                               *)

\* A walk from head meets the blocks of the list once, a walk from tail the same ones backwards.
LEMMA ListWalk ==
    ASSUME NEW H, NEW B, NEW own, NEW r, Links(H, B, own, r),
           NEW t \in Threads, NEW l \in Lists, H[t] # NoHeap
    PROVE  \E m \in 0 .. NBlk :
              /\ Walked(BlocksOn(own, <<t, l>>), Forward(B, H[t].head[l]), m)
              /\ Mirrored(Forward(B, H[t].head[l]), Backward(B, H[t].tail[l]), m)
  <1> DEFINE z == <<t, l>>
             S == BlocksOn(own, z)
             g == [c \in S |-> B[c].next]
             p == [c \in S |-> B[c].prev]
             h == H[t].head[l]
             e == H[t].tail[l]
             f == Forward(B, h)
             w == Backward(B, e)
             q == [c \in S |-> r[c]]
  <1>0. NBlk \in Nat BY HeapAssumption
  <1>1. Ends(H, own, t, l) BY LinksEnds
  <1>2. S \subseteq Blocks /\ 0 \notin S BY BlockRefs DEF BlocksOn
  <1>3. h \in S \cup {0} /\ e \in S \cup {0} /\ (h = 0 <=> e = 0) BY <1>1 DEF Ends, BlocksOn
  <1>4. ASSUME NEW c \in S PROVE Node(H, B, own, r, t, l, c)
    <2>1. c \in Blocks /\ own[c] = <<t, l>> BY DEF BlocksOn
    <2> QED BY <2>1, LinksNode
  <1>5. ASSUME NEW c \in S
        PROVE  /\ B[c].next \in S \cup {0} /\ B[c].prev \in S \cup {0}
               /\ B[c].prev = 0 <=> h = c
               /\ B[c].next = 0 <=> e = c
               /\ B[c].prev # 0 => B[B[c].prev].next = c /\ r[B[c].prev] < r[c]
               /\ B[c].next # 0 => B[B[c].next].prev = c
    <2>1. Node(H, B, own, r, t, l, c) BY <1>4
    <2>2. c \in Blocks /\ own[c] = <<t, l>> BY DEF BlocksOn
    <2>3. B[c].next \in S \cup {0} /\ B[c].prev \in S \cup {0}
      BY <2>1, <2>2 DEF Node, BlocksOn
    <2>4. (B[c].prev = 0 <=> h = c) /\ (B[c].next = 0 <=> e = c) BY <2>1 DEF Node
    <2>5. DLNode(Hd(H), Tl(H), Nx(B), Pv(B), own, r, c) /\ Nx(B)[c] = B[c].next /\ Pv(B)[c] = B[c].prev
      BY <2>1 DEF Node
    <2>6. ASSUME B[c].prev # 0 PROVE B[B[c].prev].next = c /\ r[B[c].prev] < r[c]
      <3>1. Node(H, B, own, r, t, l, B[c].prev) BY <1>4, <2>3, <2>6
      <3>2. Nx(B)[B[c].prev] = B[B[c].prev].next BY <3>1 DEF Node
      <3> QED BY <2>5, <2>6, <3>2 DEF DLNode
    <2>7. ASSUME B[c].next # 0 PROVE B[B[c].next].prev = c
      <3>1. Node(H, B, own, r, t, l, B[c].next) BY <1>4, <2>3, <2>7
      <3>2. Pv(B)[B[c].next] = B[B[c].next].prev BY <3>1 DEF Node
      <3> QED BY <2>5, <2>7, <3>2 DEF DLNode
    <2> QED BY <2>3, <2>4, <2>6, <2>7
  <1>6. r \in [Blocks -> Nat] BY DEF Links, DL, DLTypes
  <1> HIDE DEF S
  <1>7. Chain(S, g, h, q)
    <2>1. g \in [S -> S \cup {0}] /\ q \in [S -> Nat] BY <1>2, <1>5, <1>6
    <2>2. ASSUME NEW c \in S, g[c] # 0 PROVE q[c] < q[g[c]]
      <3>1. g[c] = B[c].next /\ B[c].next \in S BY <1>5, <2>2
      <3>2. B[B[c].next].prev = c BY <1>5, <2>2
      <3>3. r[c] < r[B[c].next] BY <1>2, <1>5, <3>1, <3>2
      <3> QED BY <3>1, <3>3
    <2>3. ASSUME NEW c \in S, c # h PROVE \E d \in S : g[d] = c
      <3>1. B[c].prev # 0 BY <1>5, <2>3
      <3>2. B[c].prev \in S /\ B[B[c].prev].next = c BY <1>5, <3>1
      <3>3. g[B[c].prev] = c BY <3>2
      <3> QED BY <3>2, <3>3
    <2> HIDE DEF g, h, q
    <2> QED BY <1>2, <1>3, <2>1, <2>2, <2>3 DEF Chain
  <1>8. Steps(S, g, h, f, NBlk)
    <2> HIDE DEF h
    <2> QED BY <1>3, <1>5, ForwardSteps
  <1>9. PICK m \in 0 .. NBlk : Walked(S, f, m)
    <2> HIDE DEF f, g, h, q
    <2> QED BY <1>7, <1>8, WalkAll
  <1>10. Steps(S, p, e, w, NBlk)
    <2> HIDE DEF e
    <2> QED BY <1>3, <1>5, BackwardSteps
  <1>11. ASSUME NEW k \in 1 .. NBlk
         PROVE  /\ f[k] = IF f[k - 1] = 0 THEN 0 ELSE B[f[k - 1]].next
                /\ w[k] = IF w[k - 1] = 0 THEN 0 ELSE B[w[k - 1]].prev
    <2>1. k - 1 \in 0 .. NBlk BY <1>0
    <2>2. f[k - 1] \in S \cup {0} /\ w[k - 1] \in S \cup {0} BY <1>8, <1>10, <2>1 DEF Steps
    <2>3. f[k] = IF f[k - 1] = 0 THEN 0 ELSE g[f[k - 1]] BY <1>8 DEF Steps
    <2>4. w[k] = IF w[k - 1] = 0 THEN 0 ELSE p[w[k - 1]] BY <1>10 DEF Steps
    <2> HIDE DEF f, w
    <2> QED BY <2>2, <2>3, <2>4
  <1>12. f[0] = h /\ w[0] = e BY <1>8, <1>10 DEF Steps
  <1> HIDE DEF f, w, h, e, g, p, q
  <1>13. \A i \in 0 .. m - 1 : w[i] = f[m - 1 - i]
    <2> DEFINE T == {i \in 0 .. m - 1 : w[i] # f[m - 1 - i]}
    <2>1. SUFFICES ASSUME T # {} PROVE FALSE OBVIOUS
    <2>2. T \subseteq Nat BY <1>0
    <2>3. PICK i \in T : \A j \in T : i <= j
      <3> HIDE DEF T
      <3> QED BY <2>1, <2>2, LeastNat
    <2>4. i \in 0 .. m - 1 /\ m \in Nat /\ m <= NBlk BY <1>0, <2>3
    <2>5. CASE i = 0
      <3>1. m - 1 \in 0 .. m - 1 /\ m \in 1 .. NBlk BY <2>4
      <3>2. f[m - 1] \in S /\ f[m] = 0 BY <1>0, <1>9, <2>4, <3>1 DEF Walked
      <3>3. B[f[m - 1]].next = 0 BY <1>2, <1>11, <3>1, <3>2
      <3>4. e = f[m - 1] BY <1>5, <3>2, <3>3
      <3>5. m - 1 - i = m - 1 BY <2>4, <2>5
      <3> QED BY <1>12, <2>3, <2>5, <3>4, <3>5
    <2>6. CASE i # 0
      <3>1. i - 1 \in 0 .. m - 1 /\ i - 1 \notin T /\ i \in 1 .. NBlk BY <2>3, <2>4, <2>6, <1>0
      <3>2. w[i - 1] = f[m - 1 - (i - 1)] BY <3>1
      <3>3. m - 1 - (i - 1) = m - i /\ m - i \in 0 .. m - 1 /\ m - i \in 1 .. NBlk /\ (m - i) - 1 = m - 1 - i
            /\ m - 1 - i \in 0 .. m - 1
        BY <1>0, <2>4, <2>6
      <3>4. f[m - i] \in S /\ f[m - 1 - i] \in S BY <1>9, <3>3 DEF Walked
      <3>5. f[m - i] = B[f[m - 1 - i]].next BY <1>2, <1>11, <3>3, <3>4
      <3>6. B[f[m - i]].prev = f[m - 1 - i] BY <1>2, <1>5, <3>4, <3>5
      <3>7. w[i] = B[w[i - 1]].prev BY <1>2, <1>11, <3>1, <3>2, <3>3, <3>4
      <3> QED BY <2>3, <3>2, <3>3, <3>6, <3>7
    <2> QED BY <2>5, <2>6
  <1>14. \A i \in m .. NBlk : w[i] = 0
    <2> DEFINE T == {i \in m .. NBlk : w[i] # 0}
    <2>1. SUFFICES ASSUME T # {} PROVE FALSE OBVIOUS
    <2>2. T \subseteq Nat BY <1>0
    <2>3. PICK i \in T : \A j \in T : i <= j
      <3> HIDE DEF T
      <3> QED BY <2>1, <2>2, LeastNat
    <2>4. i \in m .. NBlk /\ m \in Nat /\ m <= NBlk /\ w[i] # 0 BY <1>0, <2>3
    <2>5. CASE i = 0
      <3>1. m = 0 BY <2>4, <2>5
      <3>2. f[0] = 0 BY <1>9, <2>4, <3>1 DEF Walked
      <3> QED BY <1>3, <1>12, <2>4, <2>5, <3>2
    <2>6. CASE i # 0 /\ i # m
      <3>1. i - 1 \in m .. NBlk /\ i - 1 \notin T /\ i \in 1 .. NBlk BY <1>0, <2>3, <2>4, <2>6
      <3>2. w[i - 1] = 0 BY <3>1
      <3> QED BY <1>11, <2>4, <3>1, <3>2
    <2>7. CASE i # 0 /\ i = m
      <3>1. m - 1 \in 0 .. m - 1 /\ m \in 1 .. NBlk /\ m - 1 - (m - 1) = 0 BY <1>0, <2>4, <2>7
      <3>2. w[m - 1] = f[0] BY <1>13, <3>1
      <3>3. f[0] \in S BY <1>9, <3>1 DEF Walked
      <3>4. B[f[0]].prev = 0 BY <1>5, <1>12, <3>3
      <3> QED BY <1>11, <2>4, <2>7, <3>1, <3>2, <3>4
    <2> QED BY <2>5, <2>6, <2>7
  <1>15. Mirrored(f, w, m) BY <1>13, <1>14 DEF Mirrored
  <1> QED BY <1>9, <1>15 DEF f, w, h, e, S

\* A walk from blkfree meets the kept blocks of the heap once.
LEMMA KeptWalk ==
    ASSUME NEW H \in HeapsType, NEW B, NEW kown, NEW q, SL(Kp(H), Nx(B), kown, q),
           \A c \in Blocks : kown[c] # NULL => B[c] # NoBlk,
           NEW t \in Threads, H[t] # NoHeap
    PROVE  \E m \in 0 .. NBlk : Walked(KeptBy(kown, t), Forward(B, H[t].blkfree), m)
  <1> DEFINE S == KeptBy(kown, t)
             g == [c \in S |-> B[c].next]
             h == H[t].blkfree
             f == Forward(B, h)
             e == [c \in S |-> q[c]]
  <1>1. SLTypes(Kp(H), Nx(B), kown, q) BY DEF SL
  <1>2. S \subseteq Blocks /\ 0 \notin S BY BlockRefs DEF KeptBy
  <1>3. Kp(H)[t] = h BY DEF Kp
  <1>4. h \in S \cup {0}
    BY <1>1, <1>3, BlockRefs DEF SL, SLTypes, KeptBy
  <1>5. ASSUME NEW c \in S
        PROVE  /\ B[c].next \in S \cup {0}
               /\ B[c].next # 0 => q[c] < q[B[c].next]
               /\ c # h => \E d \in S : B[d].next = c
    <2>1. c \in Blocks /\ kown[c] = t /\ t # NULL BY HeapAssumption DEF KeptBy
    <2>2. SLNode(Kp(H), Nx(B), kown, q, c) BY <2>1 DEF SL
    <2>3. \A d \in S : Nx(B)[d] = B[d].next
      BY <2>1 DEF KeptBy, Nx
    <2>4. Nx(B)[c] = B[c].next /\ Nx(B)[c] \in Refs BY <1>1, <2>1, <2>3 DEF SLTypes
    <2>5. B[c].next # 0 => B[c].next \in S /\ q[c] < q[B[c].next]
      BY <2>1, <2>2, <2>4, BlockRefs DEF SLNode, KeptBy
    <2>6. ASSUME c # h PROVE \E d \in S : B[d].next = c
      <3>1. PICK d \in Blocks : kown[d] = kown[c] /\ Nx(B)[d] = c BY <1>3, <2>1, <2>2, <2>6 DEF SLNode
      <3>2. d \in S BY <2>1, <3>1 DEF KeptBy
      <3>3. B[d].next = c BY <2>3, <3>1, <3>2
      <3> QED BY <3>2, <3>3
    <2> QED BY <2>5, <2>6
  <1> HIDE DEF S
  <1>7. Chain(S, g, h, e)
    <2>1. g \in [S -> S \cup {0}] /\ e \in [S -> Nat] BY <1>1, <1>2, <1>5 DEF SLTypes
    <2>2. ASSUME NEW c \in S, g[c] # 0 PROVE e[c] < e[g[c]]
      <3>1. g[c] = B[c].next /\ B[c].next \in S BY <1>5, <2>2
      <3>2. q[c] < q[B[c].next] BY <1>5, <2>2
      <3> QED BY <3>1, <3>2
    <2>3. ASSUME NEW c \in S, c # h PROVE \E d \in S : g[d] = c
      <3>1. PICK d \in S : B[d].next = c BY <1>5, <2>3
      <3>2. g[d] = c BY <3>1
      <3> QED BY <3>2
    <2> HIDE DEF g, h, e
    <2> QED BY <1>2, <1>4, <2>1, <2>2, <2>3 DEF Chain
  <1>8. Steps(S, g, h, f, NBlk)
    <2> HIDE DEF h
    <2> QED BY <1>4, <1>5, ForwardSteps
  <1>9. PICK m \in 0 .. NBlk : Walked(S, f, m)
    <2> HIDE DEF f, g, h, e
    <2> QED BY <1>7, <1>8, WalkAll
  <1> QED BY <1>9 DEF S

-----------------------------------------------------------------------------
(* The lists, the stacks and the order of the bins together.  RM are the    *)
(* blocks with room.                                                        *)

\* The types that the shape of the memory includes.
LEMMA ShapeTyped ==
    ASSUME NEW H, NEW B, NEW own, NEW kown, NEW RM, Shape(H, B, own, kown, RM)
    PROVE  ShapeTypes(H, B, own, kown) /\ Placed(H, B, own, kown)
  <1>1. PICK r, q : ShapeBy(H, B, own, kown, RM, r, q) BY DEF Shape
  <1>2. H \in HeapsType /\ B \in BlksType /\ own \in [Blocks -> Ids \cup {NoList}]
    BY <1>1 DEF ShapeBy, Links, DL, DLTypes
  <1>3. kown \in [Blocks -> Threads \cup {NULL}] BY <1>1 DEF ShapeBy, SL, SLTypes
  <1> QED BY <1>1, <1>2, <1>3 DEF ShapeTypes, ShapeBy

\* The heap of one thread stays mapped and the blocks stay, or one of them
\* changes its list.
LEMMA PlacedMoved ==
    ASSUME NEW H, NEW B, NEW own, NEW kown, ShapeTypes(H, B, own, kown), Placed(H, B, own, kown),
           NEW t \in Threads, NEW h2 \in HeapRec, NEW b \in Blocks, NEW z \in Ids \cup {NoList}, NEW B2,
           z # NoList => z[1] = t /\ kown[b] = NULL,
           \A c \in Blocks : kown[c] # NULL => B2[c] # NoBlk
    PROVE  Placed([H EXCEPT ![t] = h2], B2, [own EXCEPT ![b] = z], kown)
  <1> DEFINE H2 == [H EXCEPT ![t] = h2]
             own2 == [own EXCEPT ![b] = z]
  <1>1. H2[t] = h2 /\ h2 # NoHeap /\ \A x \in Threads : x # t => H2[x] = H[x]
    BY NoHeapApart DEF ShapeTypes, HeapsType
  <1>2. own2[b] = z /\ \A c \in Blocks : c # b => own2[c] = own[c] BY DEF ShapeTypes
  <1>3. \A x \in Threads : H[x] # NoHeap => H2[x] # NoHeap BY <1>1
  <1>4. ASSUME NEW c \in Blocks PROVE own2[c] # NoList => H2[own2[c][1]] # NoHeap
    <2>1. SUFFICES ASSUME own2[c] # NoList PROVE H2[own2[c][1]] # NoHeap OBVIOUS
    <2>2. CASE c = b BY <1>1, <1>2, <2>1, <2>2
    <2>3. CASE c # b
      <3>1. own2[c] = own[c] /\ own[c] \in Ids BY <1>2, <2>1, <2>3 DEF ShapeTypes
      <3>2. own[c][1] \in Threads BY <3>1 DEF Ids
      <3>3. H[own[c][1]] # NoHeap BY <2>1, <3>1 DEF Placed
      <3> QED BY <1>3, <3>1, <3>2, <3>3
    <2> QED BY <2>2, <2>3
  <1>5. ASSUME NEW c \in Blocks, kown[c] # NULL PROVE own2[c] = NoList /\ B2[c] # NoBlk /\ H2[kown[c]] # NoHeap
    <2>1. own[c] = NoList /\ H[kown[c]] # NoHeap /\ kown[c] \in Threads BY <1>5 DEF Placed, ShapeTypes
    <2>2. own2[c] = NoList BY <1>2, <1>5, <2>1
    <2>3. H2[kown[c]] # NoHeap BY <1>3, <2>1
    <2> QED BY <1>5, <2>2, <2>3
  <1> HIDE DEF H2, own2
  <1>6. Placed(H2, B2, own2, kown) BY <1>4, <1>5 DEF Placed
  <1> QED BY <1>6 DEF H2, own2

\* The stacks do not depend on the lists.
LEMMA KpSame ==
    ASSUME NEW H \in HeapsType, NEW t \in Threads, H[t] # NoHeap, NEW h2 \in HeapRec, h2.blkfree = H[t].blkfree
    PROVE  Kp([H EXCEPT ![t] = h2]) = Kp(H)
  <1> DEFINE H2 == [H EXCEPT ![t] = h2]
  <1>1. H2[t] = h2 /\ h2 # NoHeap /\ \A x \in Threads : x # t => H2[x] = H[x]
    BY NoHeapApart DEF HeapsType
  <1> HIDE DEF H2
  <1>2. \A x \in Threads : Kp(H2)[x] = Kp(H)[x] BY <1>1 DEF Kp
  <1>3. Kp(H2) = Kp(H) BY <1>2 DEF Kp
  <1> QED BY <1>3 DEF H2

\* Unlink, with the stacks and the order of the bins.
LEMMA ShapeUnlink ==
    ASSUME NEW H, NEW B, NEW own, NEW kown, NEW RM, Shape(H, B, own, kown, RM),
           NEW t \in Threads, NEW l \in Lists, NEW b \in Blocks, own[b] = <<t, l>>,
           NEW s, s = [h |-> H[t], B |-> B],
           NEW h2, NEW B2, h2 = Unlink(s, l, b).h, B2 = Unlink(s, l, b).B,
           NEW RM2, SameBut(RM, RM2, b)
    PROVE  Unlinked(H, B, own, kown, RM2, t, l, b, h2, B2)
  <1> DEFINE H2 == [H EXCEPT ![t] = h2]
             own2 == [own EXCEPT ![b] = NoList]
  <1>1. PICK r, q : ShapeBy(H, B, own, kown, RM, r, q) BY DEF Shape
  <1>2. ShapeTypes(H, B, own, kown) /\ Placed(H, B, own, kown) BY ShapeTyped
  <1>3. <<t, l>> \in Ids /\ own[b] # NoList BY NoListIsNone DEF Ids
  <1>4. H[t] # NoHeap BY <1>2, <1>3 DEF Placed
  <1>5. Links(H, B, own, r) BY <1>1 DEF ShapeBy
  <1>6. /\ OnlyLinks(H[t], B, h2, B2)
        /\ Links(H2, B2, own2, r)
        /\ TakenOut(Hd(H), Tl(H), Nx(B), Pv(B), own, b, Hd(H2), Tl(H2), Nx(B2), Pv(B2))
        /\ \A c \in Blocks : own[c] = NoList => Nx(B2)[c] = Nx(B)[c]
        /\ h2.head = [H[t].head EXCEPT ![l] = IF B[b].prev = 0 THEN B[b].next ELSE @]
        /\ h2.tail = [H[t].tail EXCEPT ![l] = IF B[b].next = 0 THEN B[b].prev ELSE @]
    <2> HIDE DEF H2, own2
    <2>1. UnlinkedBy(H, B, own, r, t, l, b, h2, B2) BY <1>4, <1>5, LinksUnlink
    <2> QED BY <2>1 DEF UnlinkedBy, H2, own2
  <1>7. h2 \in HeapRec /\ h2.blkfree = H[t].blkfree BY <1>6 DEF OnlyLinks, SameHeap
  <1>8. B2 \in BlksType /\ \A c \in Blocks : B2[c] = NoBlk <=> B[c] = NoBlk
    BY <1>6 DEF Links, OnlyLinks, Same
  <1>9. SL(Kp(H2), Nx(B2), kown, q)
    <2>1. Kp(H2) = Kp(H) BY <1>2, <1>4, <1>7, KpSame DEF ShapeTypes
    <2>2. Nx(B2) \in [Blocks -> Refs] BY <1>8, LinkTypes
    <2>3. \A c \in Blocks : kown[c] # NULL => Nx(B2)[c] = Nx(B)[c] BY <1>2, <1>6 DEF Placed
    <2>4. SL(Kp(H), Nx(B), kown, q) BY <1>1 DEF ShapeBy
    <2> QED BY <2>1, <2>2, <2>3, <2>4, SLFrame
  <1>10. RoomBefore(Nx(B2), own2, RM2)
    <2>1. DL(Hd(H), Tl(H), Nx(B), Pv(B), own, r) BY <1>5 DEF Links
    <2>2. RoomBefore(Nx(B), own, RM) BY <1>1 DEF ShapeBy
    <2> QED BY <1>3, <1>6, <2>1, <2>2, RoomTakeOut
  <1>11. Placed(H2, B2, own2, kown)
    <2>1. \A c \in Blocks : kown[c] # NULL => B2[c] # NoBlk BY <1>2, <1>8 DEF Placed
    <2> QED BY <1>2, <1>7, <2>1, PlacedMoved
  <1> HIDE DEF H2, own2
  <1>12. Shape(H2, B2, own2, kown, RM2) BY <1>6, <1>9, <1>10, <1>11 DEF Shape, ShapeBy
  <1> QED BY <1>6, <1>12 DEF Unlinked, H2, own2

\* Putting a block in front, with the stacks and the order of the bins.
LEMMA ShapePutFirst ==
    ASSUME NEW H, NEW B, NEW own, NEW kown, NEW RM, Shape(H, B, own, kown, RM),
           NEW t \in Threads, NEW l \in Lists, NEW b \in Blocks, own[b] = NoList, kown[b] = NULL,
           B[b] # NoBlk, H[t] # NoHeap,
           NEW h2 \in HeapRec, h2.head = [H[t].head EXCEPT ![l] = b], h2.blkfree = H[t].blkfree,
           h2.tail = [H[t].tail EXCEPT ![l] = IF H[t].tail[l] = 0 THEN b ELSE H[t].tail[l]],
           NEW B2, B2 = FirstB(B, b, H[t].head[l]),
           NEW RM2, SameBut(RM, RM2, b), b \in RM2 \/ H[t].head[l] \notin RM
    PROVE  PutIn(H, B, own, kown, RM2, t, l, b, h2, B2)
  <1> DEFINE H2 == [H EXCEPT ![t] = h2]
             own2 == [own EXCEPT ![b] = <<t, l>>]
  <1>1. PICK r, q : ShapeBy(H, B, own, kown, RM, r, q) BY DEF Shape
  <1>2. ShapeTypes(H, B, own, kown) /\ Placed(H, B, own, kown) BY ShapeTyped
  <1>3. <<t, l>> \in Ids BY DEF Ids
  <1>5. Links(H, B, own, r) BY <1>1 DEF ShapeBy
  <1>6. PutFirstBy(H, B, own, r, t, l, b, h2, B2) BY <1>5, LinksPutFirst
  <1>7. /\ \A c \in Blocks : Same(B2[c], B[c])
        /\ Links(H2, B2, own2, RankFirst(r, b))
        /\ PutFirst(Hd(H), Tl(H), Nx(B), Pv(B), own, b, <<t, l>>, Hd(H2), Tl(H2), Nx(B2), Pv(B2))
        /\ \A c \in Blocks : c # b /\ own[c] = NoList => Nx(B2)[c] = Nx(B)[c]
    BY <1>6 DEF PutFirstBy
  <1>8. B2 \in BlksType /\ \A c \in Blocks : B2[c] = NoBlk <=> B[c] = NoBlk
    BY <1>7 DEF Links, Same
  <1>9. SL(Kp(H2), Nx(B2), kown, q)
    <2>1. Kp(H2) = Kp(H) BY <1>2, KpSame DEF ShapeTypes
    <2>2. Nx(B2) \in [Blocks -> Refs] BY <1>8, LinkTypes
    <2>3. \A c \in Blocks : kown[c] # NULL => Nx(B2)[c] = Nx(B)[c] BY <1>2, <1>7 DEF Placed
    <2>4. SL(Kp(H), Nx(B), kown, q) BY <1>1 DEF ShapeBy
    <2> QED BY <2>1, <2>2, <2>3, <2>4, SLFrame
  <1>10. RoomBefore(Nx(B2), own2, RM2)
    <2>1. DL(Hd(H), Tl(H), Nx(B), Pv(B), own, r) BY <1>5 DEF Links
    <2>2. RoomBefore(Nx(B), own, RM) BY <1>1 DEF ShapeBy
    <2>3. Hd(H)[<<t, l>>] = H[t].head[l]
      <3>1. Ends(H, own, t, l) BY <1>5, LinksEnds
      <3> QED BY <3>1 DEF Ends
    <2>4. b \in RM2 \/ Hd(H)[<<t, l>>] \notin RM BY <2>3
    <2> QED BY <1>3, <1>7, <2>1, <2>2, <2>4, RoomPutFirst
  <1>11. Placed(H2, B2, own2, kown)
    <2>1. \A c \in Blocks : kown[c] # NULL => B2[c] # NoBlk BY <1>2, <1>8 DEF Placed
    <2>2. <<t, l>>[1] = t OBVIOUS
    <2> QED BY <1>2, <1>3, <2>1, <2>2, PlacedMoved
  <1> HIDE DEF H2, own2
  <1>12. Shape(H2, B2, own2, kown, RM2) BY <1>7, <1>9, <1>10, <1>11 DEF Shape, ShapeBy
  <1> QED BY <1>7, <1>12 DEF H2, own2, PutIn

\* Putting a full block behind, with the stacks and the order of the bins.
LEMMA ShapePutLast ==
    ASSUME NEW H, NEW B, NEW own, NEW kown, NEW RM, Shape(H, B, own, kown, RM),
           NEW t \in Threads, NEW l \in Lists, NEW b \in Blocks, own[b] = NoList, kown[b] = NULL,
           B[b] # NoBlk, H[t] # NoHeap, H[t].tail[l] # 0,
           NEW h2 \in HeapRec, h2.head = H[t].head, h2.blkfree = H[t].blkfree,
           h2.tail = [H[t].tail EXCEPT ![l] = b],
           NEW B2, B2 = LastB(B, b, H[t].tail[l]),
           NEW RM2, SameBut(RM, RM2, b), b \notin RM2
    PROVE  PutIn(H, B, own, kown, RM2, t, l, b, h2, B2)
  <1> DEFINE H2 == [H EXCEPT ![t] = h2]
             own2 == [own EXCEPT ![b] = <<t, l>>]
  <1>1. PICK r, q : ShapeBy(H, B, own, kown, RM, r, q) BY DEF Shape
  <1>2. ShapeTypes(H, B, own, kown) /\ Placed(H, B, own, kown) BY ShapeTyped
  <1>3. <<t, l>> \in Ids BY DEF Ids
  <1>5. Links(H, B, own, r) BY <1>1 DEF ShapeBy
  <1>6. PutLastBy(H, B, own, r, t, l, b, h2, B2) BY <1>5, LinksPutLast
  <1>7. /\ \A c \in Blocks : Same(B2[c], B[c])
        /\ Links(H2, B2, own2, RankLast(r, b, H[t].tail[l]))
        /\ PutLast(Hd(H), Tl(H), Nx(B), Pv(B), own, b, <<t, l>>, Tl(H2), Nx(B2), Pv(B2))
        /\ \A c \in Blocks : c # b /\ own[c] = NoList => Nx(B2)[c] = Nx(B)[c]
    BY <1>6 DEF PutLastBy
  <1>8. B2 \in BlksType /\ \A c \in Blocks : B2[c] = NoBlk <=> B[c] = NoBlk
    BY <1>7 DEF Links, Same
  <1>9. SL(Kp(H2), Nx(B2), kown, q)
    <2>1. Kp(H2) = Kp(H) BY <1>2, KpSame DEF ShapeTypes
    <2>2. Nx(B2) \in [Blocks -> Refs] BY <1>8, LinkTypes
    <2>3. \A c \in Blocks : kown[c] # NULL => Nx(B2)[c] = Nx(B)[c] BY <1>2, <1>7 DEF Placed
    <2>4. SL(Kp(H), Nx(B), kown, q) BY <1>1 DEF ShapeBy
    <2> QED BY <2>1, <2>2, <2>3, <2>4, SLFrame
  <1>10. RoomBefore(Nx(B2), own2, RM2)
    <2>1. DL(Hd(H), Tl(H), Nx(B), Pv(B), own, r) BY <1>5 DEF Links
    <2>2. RoomBefore(Nx(B), own, RM) BY <1>1 DEF ShapeBy
    <2>3. Tl(H)[<<t, l>>] # 0
      <3>1. Ends(H, own, t, l) BY <1>5, LinksEnds
      <3> QED BY <3>1 DEF Ends
    <2> QED BY <1>3, <1>7, <2>1, <2>2, <2>3, RoomPutLast
  <1>11. Placed(H2, B2, own2, kown)
    <2>1. \A c \in Blocks : kown[c] # NULL => B2[c] # NoBlk BY <1>2, <1>8 DEF Placed
    <2>2. <<t, l>>[1] = t OBVIOUS
    <2> QED BY <1>2, <1>3, <2>1, <2>2, PlacedMoved
  <1> HIDE DEF H2, own2
  <1>12. Shape(H2, B2, own2, kown, RM2) BY <1>7, <1>9, <1>10, <1>11 DEF Shape, ShapeBy
  <1> QED BY <1>7, <1>12 DEF H2, own2, PutIn

\* Fields other than the links, and blocks that are nowhere, may change.
LEMMA ShapeFrame ==
    ASSUME NEW H, NEW B, NEW own, NEW kown, NEW RM, Shape(H, B, own, kown, RM),
           NEW H2 \in HeapsType, NEW B2 \in BlksType, Hd(H2) = Hd(H), Tl(H2) = Tl(H), Kp(H2) = Kp(H),
           \A x \in Threads : H[x] # NoHeap => H2[x] # NoHeap,
           \A c \in Blocks : own[c] # NoList =>
              B2[c] # NoBlk /\ B2[c].next = B[c].next /\ B2[c].prev = B[c].prev,
           \A c \in Blocks : kown[c] # NULL => B2[c] # NoBlk /\ B2[c].next = B[c].next
    PROVE  Shape(H2, B2, own, kown, RM)
  <1>1. PICK r, q : ShapeBy(H, B, own, kown, RM, r, q) BY DEF Shape
  <1>2. ShapeTypes(H, B, own, kown) /\ Placed(H, B, own, kown) BY ShapeTyped
  <1>3. Links(H, B, own, r) BY <1>1 DEF ShapeBy
  <1>4. Links(H2, B2, own, r) BY <1>3, LinksFrame
  <1>5. \A c \in Blocks : kown[c] # NULL \/ own[c] # NoList => Nx(B2)[c] = Nx(B)[c]
    <2>1. ASSUME NEW c \in Blocks, kown[c] # NULL \/ own[c] # NoList PROVE Nx(B2)[c] = Nx(B)[c]
      <3>1. B[c] # NoBlk BY <1>2, <1>3, <2>1 DEF Placed, Links
      <3> QED BY <2>1, <3>1 DEF Nx
    <2> QED BY <2>1
  <1>6. SL(Kp(H2), Nx(B2), kown, q)
    <2>1. Nx(B2) \in [Blocks -> Refs] BY LinkTypes
    <2>2. SL(Kp(H), Nx(B), kown, q) BY <1>1 DEF ShapeBy
    <2> QED BY <1>5, <2>1, <2>2, SLFrame
  <1>7. RoomBefore(Nx(B2), own, RM) BY <1>1, <1>5 DEF ShapeBy, RoomBefore
  <1>8. Placed(H2, B2, own, kown)
    <2>1. ASSUME NEW c \in Blocks, own[c] # NoList PROVE H2[own[c][1]] # NoHeap
      <3>1. own[c] \in Ids BY <1>2, <2>1 DEF ShapeTypes
      <3>2. own[c][1] \in Threads BY <3>1 DEF Ids
      <3> QED BY <1>2, <2>1, <3>2 DEF Placed
    <2>2. ASSUME NEW c \in Blocks, kown[c] # NULL PROVE own[c] = NoList /\ B2[c] # NoBlk /\ H2[kown[c]] # NoHeap
      BY <1>2, <2>2 DEF Placed, ShapeTypes
    <2> QED BY <2>1, <2>2 DEF Placed
  <1> QED BY <1>4, <1>6, <1>7, <1>8 DEF Shape, ShapeBy

\* The fields of the heap of one thread other than its lists.
LEMMA HeapFrame ==
    ASSUME NEW H \in HeapsType, NEW t \in Threads, H[t] # NoHeap,
           NEW h2 \in HeapRec, h2.head = H[t].head, h2.tail = H[t].tail
    PROVE  /\ [H EXCEPT ![t] = h2] \in HeapsType
           /\ Hd([H EXCEPT ![t] = h2]) = Hd(H) /\ Tl([H EXCEPT ![t] = h2]) = Tl(H)
           /\ Kp([H EXCEPT ![t] = h2]) = [Kp(H) EXCEPT ![t] = h2.blkfree]
           /\ \A x \in Threads : H[x] # NoHeap => [H EXCEPT ![t] = h2][x] # NoHeap
  <1> DEFINE H2 == [H EXCEPT ![t] = h2]
  <1>1. H2 \in HeapsType /\ H2[t] = h2 /\ h2 # NoHeap /\ \A x \in Threads : x # t => H2[x] = H[x]
    BY NoHeapApart DEF HeapsType
  <1> HIDE DEF H2
  <1>2. \A z \in Ids : Hd(H2)[z] = Hd(H)[z] /\ Tl(H2)[z] = Tl(H)[z]
    <2>1. \A z \in Ids : z[1] \in Threads BY DEF Ids
    <2> QED BY <1>1, <2>1 DEF Hd, Tl
  <1>3. Hd(H2) = Hd(H) /\ Tl(H2) = Tl(H) BY <1>2 DEF Hd, Tl
  <1>4. \A x \in Threads : Kp(H2)[x] = IF x = t THEN h2.blkfree ELSE Kp(H)[x] BY <1>1 DEF Kp
  <1>5. Kp(H2) = [Kp(H) EXCEPT ![t] = h2.blkfree]
    <2>1. Kp(H2) = [x \in Threads |-> Kp(H2)[x]] /\ DOMAIN Kp(H) = Threads BY DEF Kp
    <2> QED BY <1>4, <2>1
  <1>6. \A x \in Threads : H[x] # NoHeap => H2[x] # NoHeap BY <1>1
  <1> QED BY <1>1, <1>3, <1>5, <1>6 DEF H2

\* The first block of a list may fill up when it is alone, and may get room.
LEMMA ShapeRoom ==
    ASSUME NEW H, NEW B, NEW own, NEW kown, NEW RM, Shape(H, B, own, kown, RM),
           NEW b \in Blocks, NEW RM2, SameBut(RM, RM2, b),
           own[b] # NoList => B[b].prev = 0 /\ (b \in RM2 \/ B[b].next = 0)
    PROVE  Shape(H, B, own, kown, RM2)
  <1>1. PICK r, q : ShapeBy(H, B, own, kown, RM, r, q) BY DEF Shape
  <1>2. DL(Hd(H), Tl(H), Nx(B), Pv(B), own, r) BY <1>1 DEF ShapeBy, Links
  <1>3. own[b] # NoList => Pv(B)[b] = 0 BY DEF Pv
  <1>4. own[b] # NoList => b \in RM2 \/ Nx(B)[b] = 0 BY DEF Nx
  <1>5. RoomBefore(Nx(B), own, RM) BY <1>1 DEF ShapeBy
  <1>6. RoomBefore(Nx(B), own, RM2) BY <1>2, <1>3, <1>4, <1>5, RoomChange
  <1> QED BY <1>1, <1>6 DEF Shape, ShapeBy

\* Taking the first block off the stack of a heap.
LEMMA ShapePop ==
    ASSUME NEW H, NEW B, NEW own, NEW kown, NEW RM, Shape(H, B, own, kown, RM),
           NEW t \in Threads, H[t] # NoHeap, NEW b, b = H[t].blkfree, b # 0,
           NEW h2 \in HeapRec, h2.head = H[t].head, h2.tail = H[t].tail, h2.blkfree = B[b].next
    PROVE  /\ Shape([H EXCEPT ![t] = h2], B, own, [kown EXCEPT ![b] = NULL], RM)
           /\ b \in Blocks /\ kown[b] = t /\ own[b] = NoList /\ B[b] # NoBlk
  <1> DEFINE H2 == [H EXCEPT ![t] = h2]
             kown2 == [kown EXCEPT ![b] = NULL]
  <1>1. PICK r, q : ShapeBy(H, B, own, kown, RM, r, q) BY DEF Shape
  <1>2. ShapeTypes(H, B, own, kown) /\ Placed(H, B, own, kown) BY ShapeTyped
  <1>3. H \in HeapsType /\ B \in BlksType /\ H[t] \in HeapRec BY <1>2 DEF ShapeTypes, HeapsType
  <1>4. SL(Kp(H), Nx(B), kown, q) BY <1>1 DEF ShapeBy
  <1>5. Kp(H)[t] = b BY DEF Kp
  <1>6. b \in Blocks /\ kown[b] = t
    <2>1. b \in Refs BY <1>3 DEF HeapRec
    <2> QED BY <1>4, <1>5, <2>1, BlockRefs DEF SL
  <1>7. own[b] = NoList /\ B[b] # NoBlk BY <1>2, <1>6, HeapAssumption DEF Placed
  <1>8. /\ H2 \in HeapsType /\ Hd(H2) = Hd(H) /\ Tl(H2) = Tl(H) /\ Kp(H2) = [Kp(H) EXCEPT ![t] = h2.blkfree]
        /\ \A x \in Threads : H[x] # NoHeap => H2[x] # NoHeap
    BY <1>3, HeapFrame
  <1>9. Nx(B)[b] = h2.blkfree BY <1>6, <1>7 DEF Nx
  <1>10. SL(Kp(H2), Nx(B), kown2, q)
    <2>1. Nx(B) \in [Blocks -> Refs] BY <1>3, LinkTypes
    <2> QED BY <1>4, <1>5, <1>6, <1>8, <1>9, <2>1, SLPop
  <1>11. Links(H2, B, own, r)
    BY <1>1, <1>8 DEF ShapeBy, Links
  <1>12. Placed(H2, B, own, kown2)
    <2>1. ASSUME NEW c \in Blocks, own[c] # NoList PROVE H2[own[c][1]] # NoHeap
      <3>1. own[c] \in Ids BY <1>2, <2>1 DEF ShapeTypes
      <3>2. own[c][1] \in Threads BY <3>1 DEF Ids
      <3> QED BY <1>2, <1>8, <2>1, <3>2 DEF Placed
    <2>2. \A c \in Blocks : kown2[c] = IF c = b THEN NULL ELSE kown[c] BY <1>2 DEF ShapeTypes
    <2>3. ASSUME NEW c \in Blocks, kown2[c] # NULL PROVE own[c] = NoList /\ B[c] # NoBlk /\ H2[kown2[c]] # NoHeap
      BY <1>2, <1>8, <2>2, <2>3 DEF Placed, ShapeTypes
    <2> HIDE DEF kown2, H2
    <2> QED BY <2>1, <2>3 DEF Placed
  <1> HIDE DEF H2, kown2
  <1>13. Shape(H2, B, own, kown2, RM) BY <1>1, <1>10, <1>11, <1>12 DEF Shape, ShapeBy
  <1> QED BY <1>6, <1>7, <1>13 DEF H2, kown2

\* Putting a block on the stack of a heap.
LEMMA ShapePush ==
    ASSUME NEW H, NEW B, NEW own, NEW kown, NEW RM, Shape(H, B, own, kown, RM),
           NEW t \in Threads, H[t] # NoHeap, NEW b \in Blocks, own[b] = NoList, kown[b] = NULL,
           NEW h2 \in HeapRec, h2.head = H[t].head, h2.tail = H[t].tail, h2.blkfree = b,
           NEW x \in BlkRec, x.next = H[t].blkfree
    PROVE  Shape([H EXCEPT ![t] = h2], [B EXCEPT ![b] = x], own, [kown EXCEPT ![b] = t], RM)
  <1> DEFINE H2 == [H EXCEPT ![t] = h2]
             B2 == [B EXCEPT ![b] = x]
             kown2 == [kown EXCEPT ![b] = t]
  <1>1. PICK r, q : ShapeBy(H, B, own, kown, RM, r, q) BY DEF Shape
  <1>2. ShapeTypes(H, B, own, kown) /\ Placed(H, B, own, kown) BY ShapeTyped
  <1>3. H \in HeapsType /\ B \in BlksType /\ H[t] \in HeapRec BY <1>2 DEF ShapeTypes, HeapsType
  <1>4. SL(Kp(H), Nx(B), kown, q) BY <1>1 DEF ShapeBy
  <1>5. B2 \in BlksType /\ B2[b] = x /\ x # NoBlk /\ \A c \in Blocks : c # b => B2[c] = B[c]
    BY <1>3, NoBlkApart DEF BlksType
  <1>6. Nx(B2) \in [Blocks -> Refs] /\ Nx(B2)[b] = Kp(H)[t] /\ \A c \in Blocks : c # b => Nx(B2)[c] = Nx(B)[c]
    <2>1. Nx(B2) \in [Blocks -> Refs] BY <1>5, LinkTypes
    <2> HIDE DEF B2
    <2> QED BY <1>5, <2>1 DEF Nx, Kp
  <1>8. /\ H2 \in HeapsType /\ Hd(H2) = Hd(H) /\ Tl(H2) = Tl(H) /\ Kp(H2) = [Kp(H) EXCEPT ![t] = b]
        /\ \A y \in Threads : H[y] # NoHeap => H2[y] # NoHeap
    BY <1>3, HeapFrame
  <1> HIDE DEF B2, H2
  <1>9. SL(Kp(H2), Nx(B2), kown2, RankFirst(q, b))
    <2>1. \A c \in Blocks : kown[c] # NULL => Nx(B2)[c] = Nx(B)[c] BY <1>6
    <2>2. Nx(B2) \in [Blocks -> Refs] /\ Nx(B2)[b] = Kp(H)[t] BY <1>6
    <2>3. SL([Kp(H) EXCEPT ![t] = b], Nx(B2), [kown EXCEPT ![b] = t], RankFirst(q, b))
      BY <1>4, <2>1, <2>2, SLPush
    <2> QED BY <1>8, <2>3
  <1>10. Links(H2, B2, own, r)
    <2>1. Links(H, B, own, r) BY <1>1 DEF ShapeBy
    <2>2. \A c \in Blocks : own[c] # NoList =>
              B2[c] # NoBlk /\ B2[c].next = B[c].next /\ B2[c].prev = B[c].prev
      BY <1>5, <2>1 DEF Links
    <2> QED BY <1>5, <1>8, <2>1, <2>2, LinksFrame
  <1>11. RoomBefore(Nx(B2), own, RM) BY <1>1, <1>6 DEF ShapeBy, RoomBefore
  <1>12. Placed(H2, B2, own, kown2)
    <2>1. ASSUME NEW c \in Blocks, own[c] # NoList PROVE H2[own[c][1]] # NoHeap
      <3>1. own[c] \in Ids BY <1>2, <2>1 DEF ShapeTypes
      <3>2. own[c][1] \in Threads BY <3>1 DEF Ids
      <3> QED BY <1>2, <1>8, <2>1, <3>2 DEF Placed
    <2>2. \A c \in Blocks : kown2[c] = IF c = b THEN t ELSE kown[c] BY <1>2 DEF ShapeTypes
    <2> HIDE DEF kown2
    <2>3. ASSUME NEW c \in Blocks, kown2[c] # NULL PROVE own[c] = NoList /\ B2[c] # NoBlk /\ H2[kown2[c]] # NoHeap
      <3>1. CASE c = b BY <1>5, <1>8, <2>2, <3>1
      <3>2. CASE c # b
        <4>1. kown2[c] = kown[c] /\ kown[c] \in Threads BY <1>2, <2>2, <2>3, <3>2 DEF ShapeTypes
        <4>2. own[c] = NoList /\ B[c] # NoBlk /\ H[kown[c]] # NoHeap BY <1>2, <2>3, <4>1 DEF Placed
        <4> QED BY <1>5, <1>8, <3>2, <4>1, <4>2
      <3> QED BY <3>1, <3>2
    <2> QED BY <2>1, <2>3 DEF Placed
  <1> HIDE DEF kown2
  <1>13. Shape(H2, B2, own, kown2, RM) BY <1>9, <1>10, <1>11, <1>12 DEF Shape, ShapeBy
  <1> QED BY <1>13 DEF H2, B2, kown2

\* A heap and all its blocks go.
LEMMA SLDrop ==
    ASSUME NEW kp, NEW nx, NEW kown, NEW q, SL(kp, nx, kown, q), NEW t \in Threads,
           NEW kp2, kp2 = [kp EXCEPT ![t] = 0],
           NEW kown2, kown2 = [c \in Blocks |-> IF kown[c] = t THEN NULL ELSE kown[c]],
           NEW nx2 \in [Blocks -> Refs], \A c \in Blocks : kown2[c] # NULL => nx2[c] = nx[c]
    PROVE  SL(kp2, nx2, kown2, q)
  <1>1. SLTypes(kp, nx, kown, q) BY DEF SL
  <1>2. SLTypes(kp2, nx2, kown2, q) BY <1>1, BlockRefs DEF SLTypes
  <1>3. \A x \in Threads : kp2[x] = IF x = t THEN 0 ELSE kp[x] BY <1>1 DEF SLTypes
  <1>4. \A c \in Blocks : kown2[c] # NULL => kown2[c] = kown[c] /\ kown[c] # t /\ kown[c] \in Threads
    BY <1>1 DEF SLTypes
  <1>5. \A c \in Blocks : kown[c] # NULL /\ kown[c] # t => kown2[c] = kown[c] OBVIOUS
  <1>6. ASSUME NEW x \in Threads, kp2[x] # 0 PROVE kown2[kp2[x]] = x
    <2>1. x # t /\ kp2[x] = kp[x] /\ kp[x] \in Blocks BY <1>1, <1>3, <1>6, BlockRefs DEF SLTypes
    <2>2. kown[kp[x]] = x BY <1>6, <2>1 DEF SL
    <2> QED BY <1>5, <2>1, <2>2, HeapAssumption
  <1>7. ASSUME NEW b \in Blocks, kown2[b] # NULL PROVE SLNode(kp2, nx2, kown2, q, b)
    <2>1. kown2[b] = kown[b] /\ kown[b] # t /\ kown[b] \in Threads /\ kown[b] # NULL BY <1>4, <1>7, HeapAssumption
    <2>2. SLNode(kp, nx, kown, q, b) BY <2>1 DEF SL
    <2>3. nx2[b] = nx[b] /\ nx[b] \in Refs /\ kp2[kown2[b]] = kp[kown[b]] BY <1>1, <1>3, <1>7, <2>1 DEF SLTypes
    <2>4. nx2[b] # 0 => kown2[nx2[b]] = kown2[b] /\ q[b] < q[nx2[b]] /\ nx2[b] # kp2[kown2[b]]
      BY <1>5, <2>1, <2>2, <2>3, BlockRefs DEF SLNode
    <2>5. ASSUME NEW c \in Blocks, kown2[c] # NULL, nx2[c] = nx2[b], nx2[b] # 0 PROVE c = b
      <3>1. nx2[c] = nx[c] /\ kown[c] # NULL BY <1>4, <2>5, HeapAssumption
      <3> QED BY <2>2, <2>3, <2>5, <3>1 DEF SLNode
    <2>6. ASSUME kp2[kown2[b]] # b PROVE \E c \in Blocks : kown2[c] = kown2[b] /\ nx2[c] = b
      <3>1. PICK c \in Blocks : kown[c] = kown[b] /\ nx[c] = b BY <2>2, <2>3, <2>6 DEF SLNode
      <3>2. kown2[c] = kown[c] /\ kown2[c] # NULL BY <1>5, <2>1, <3>1
      <3>3. nx2[c] = b BY <3>1, <3>2
      <3> QED BY <2>1, <3>1, <3>2, <3>3
    <2> QED BY <2>4, <2>5, <2>6 DEF SLNode
  <1> QED BY <1>2, <1>6, <1>7 DEF SL

\* A heap and its blocks go; the lists and stacks of the others stay.
LEMMA ShapeDrop ==
    ASSUME NEW H, NEW B, NEW own, NEW kown, NEW RM, Shape(H, B, own, kown, RM), NEW t \in Threads, H[t] # NoHeap,
           NEW G, NEW H2, NEW B2, NEW own2, NEW kown2, Dropping(H, B, own, kown, t, G, H2, B2, own2, kown2),
           NEW RM2, \A c \in Blocks \ G : (c \in RM2 <=> c \in RM)
    PROVE  Shape(H2, B2, own2, kown2, RM2)
  <1>0. /\ H2 = [H EXCEPT ![t] = NoHeap]
        /\ \A c \in Blocks : c \in G <=> kown[c] = t \/ (own[c] # NoList /\ own[c][1] = t)
        /\ B2 = [c \in Blocks |-> IF c \in G THEN NoBlk ELSE B[c]]
        /\ own2 = [c \in Blocks |-> IF c \in G THEN NoList ELSE own[c]]
        /\ kown2 = [c \in Blocks |-> IF c \in G THEN NULL ELSE kown[c]]
    BY DEF Dropping, InHeap
  <1> USE <1>0
  <1> DEFINE D == {z \in Ids : z[1] = t}
  <1>1. PICK r, q : ShapeBy(H, B, own, kown, RM, r, q) BY DEF Shape
  <1>2. ShapeTypes(H, B, own, kown) /\ Placed(H, B, own, kown) BY ShapeTyped
  <1>3. H2 \in HeapsType /\ H2[t] = NoHeap /\ \A x \in Threads : x # t => H2[x] = H[x]
    BY <1>2 DEF ShapeTypes, HeapsType
  <1>4. B2 \in BlksType BY <1>2 DEF ShapeTypes, BlksType
  <1>5. own2 \in [Blocks -> Ids \cup {NoList}] BY <1>2 DEF ShapeTypes
  <1>6. \A c \in Blocks : own2[c] # NoList => c \notin G /\ own2[c] = own[c] OBVIOUS
  <1>7. \A c \in Blocks : kown2[c] # NULL => c \notin G /\ kown2[c] = kown[c] /\ kown[c] # t OBVIOUS
  <1>8. \A c \in Blocks : c \notin G => Nx(B2)[c] = Nx(B)[c] /\ Pv(B2)[c] = Pv(B)[c] BY DEF Nx, Pv
  <1>9. Nx(B2) \in [Blocks -> Refs] /\ Pv(B2) \in [Blocks -> Refs] BY <1>4, LinkTypes
  <1>10. Hd(H2) \in [Ids -> Refs] /\ Tl(H2) \in [Ids -> Refs] BY <1>3, LinkTypes
  <1>11. ASSUME NEW z \in Ids PROVE /\ z \in D => Hd(H2)[z] = 0 /\ Tl(H2)[z] = 0
                                    /\ z \notin D => Hd(H2)[z] = Hd(H)[z] /\ Tl(H2)[z] = Tl(H)[z]
    <2>1. z[1] \in Threads BY DEF Ids
    <2> QED BY <1>3, <2>1 DEF Hd, Tl
  <1>12. ASSUME NEW c \in Blocks PROVE own2[c] = IF own[c] \in D THEN NoList ELSE own[c]
    <2>1. CASE own[c] = NoList BY <2>1, NoListIsNone
    <2>2. CASE own[c] # NoList
      <3>1. own[c] \in Ids BY <1>2, <2>2 DEF ShapeTypes
      <3>2. kown[c] = NULL BY <1>2, <2>2 DEF Placed
      <3>3. kown[c] # t BY <3>2, HeapAssumption
      <3> QED BY <2>2, <3>1, <3>3
    <2> QED BY <2>1, <2>2
  <1>13. Dropped(D, Hd(H), Tl(H), Nx(B), Pv(B), own, Hd(H2), Tl(H2), Nx(B2), Pv(B2), own2)
    BY <1>5, <1>6, <1>8, <1>9, <1>10, <1>11, <1>12 DEF Dropped
  <1>14. D \subseteq Ids OBVIOUS
  <1>15. DL(Hd(H), Tl(H), Nx(B), Pv(B), own, r) BY <1>1 DEF ShapeBy, Links
  <1> HIDE DEF D
  <1>16. DL(Hd(H2), Tl(H2), Nx(B2), Pv(B2), own2, r) BY <1>13, <1>14, <1>15, DLDrop
  <1>17. RoomBefore(Nx(B2), own2, RM2)
    <2>1. \A c \in Blocks : own2[c] # NoList => (c \in RM2 <=> c \in RM) BY <1>6
    <2>2. RoomBefore(Nx(B), own, RM) BY <1>1 DEF ShapeBy
    <2> QED BY <1>13, <1>14, <1>15, <2>1, <2>2, RoomDrop
  <1>18. \A c \in Blocks : own2[c] # NoList => B2[c] # NoBlk
    BY <1>1, <1>6 DEF ShapeBy, Links
  <1>19. SL(Kp(H2), Nx(B2), kown2, q)
    <2>1. Kp(H2) = [Kp(H) EXCEPT ![t] = 0]
      <3>1. \A x \in Threads : Kp(H2)[x] = IF x = t THEN 0 ELSE Kp(H)[x] BY <1>3 DEF Kp
      <3>2. Kp(H2) = [x \in Threads |-> Kp(H2)[x]] /\ DOMAIN Kp(H) = Threads BY DEF Kp
      <3> QED BY <3>1, <3>2
    <2>2. kown2 = [c \in Blocks |-> IF kown[c] = t THEN NULL ELSE kown[c]]
      <3>1. ASSUME NEW c \in Blocks PROVE kown2[c] = IF kown[c] = t THEN NULL ELSE kown[c]
        BY <1>2 DEF Placed
      <3> QED BY <3>1
    <2>3. \A c \in Blocks : kown2[c] # NULL => Nx(B2)[c] = Nx(B)[c] BY <1>7, <1>8
    <2>4. SL(Kp(H), Nx(B), kown, q) BY <1>1 DEF ShapeBy
    <2> QED BY <1>9, <2>1, <2>2, <2>3, <2>4, SLDrop
  <1>20. Placed(H2, B2, own2, kown2)
    <2>1. ASSUME NEW c \in Blocks, own2[c] # NoList PROVE H2[own2[c][1]] # NoHeap
      <3>1. own2[c] = own[c] /\ c \notin G BY <1>6, <2>1
      <3>2. own[c] \in Ids /\ own[c][1] # t BY <1>2, <2>1, <3>1 DEF ShapeTypes
      <3>3. own[c][1] \in Threads BY <3>2 DEF Ids
      <3> QED BY <1>2, <1>3, <2>1, <3>1, <3>2, <3>3 DEF Placed
    <2>2. ASSUME NEW c \in Blocks, kown2[c] # NULL PROVE own2[c] = NoList /\ B2[c] # NoBlk /\ H2[kown2[c]] # NoHeap
      <3>1. c \notin G /\ kown2[c] = kown[c] /\ kown[c] # t BY <1>7, <2>2
      <3>2. own[c] = NoList /\ B[c] # NoBlk /\ H[kown[c]] # NoHeap /\ kown[c] \in Threads
        BY <1>2, <2>2, <3>1 DEF Placed, ShapeTypes
      <3> QED BY <1>3, <3>1, <3>2
    <2> QED BY <2>1, <2>2 DEF Placed
  <1>21. Links(H2, B2, own2, r) BY <1>3, <1>4, <1>16, <1>18 DEF Links
  <1> QED BY <1>17, <1>19, <1>20, <1>21 DEF Shape, ShapeBy

-----------------------------------------------------------------------------
(* Chunks.                                                                  *)

\* One factor less.
LEMMA TimesLess == ASSUME NEW k \in Nat, NEW n \in Nat, k > 0 PROVE (k - 1) * n + n = k * n /\ k * n \in Nat /\ (k - 1) * n \in Nat
  OBVIOUS

\* Products of naturals are natural.
LEMMA TimesNat == ASSUME NEW k \in Nat, NEW n \in Nat PROVE k * n \in Nat
  OBVIOUS

\* A pointer more for each of k chunks of n bytes.
LEMMA TimesSum == ASSUME NEW k \in Nat, NEW n \in Nat PROVE k * (n + 8) = k * n + 8 * k
  OBVIOUS

\* TakeChunk changes block b only.
LEMMA TakeIs ==
    ASSUME NEW B \in BlksType, NEW b \in Blocks, B[b] \in BlkRec, NEW n
    PROVE  TakeChunk(B, b, n) = [B EXCEPT ![b] = Taken(B[b], n)] /\ NextChunk(B, b) = TakenOff(B[b])
  <1>1. CASE B[b].restcnt > 0
    <2>1. TakeChunk(B, b, n) = [B EXCEPT ![b].restcnt = @ - 1, ![b].rest = @ + n,
                                         ![b].shift = {p \in @ : p[1] # B[b].rest}]
      BY <1>1 DEF TakeChunk
    <2>2. Taken(B[b], n) = [B[b] EXCEPT !.restcnt = B[b].restcnt - 1, !.rest = B[b].rest + n,
                                        !.shift = {p \in B[b].shift : p[1] # B[b].rest}]
      BY <1>1 DEF Taken
    <2>3. TakeChunk(B, b, n) = [B EXCEPT ![b] = Taken(B[b], n)]
      BY <2>1, <2>2 DEF BlksType, BlkRec
    <2> QED BY <1>1, <2>3 DEF NextChunk, TakenOff
  <1>2. CASE ~(B[b].restcnt > 0)
    <2>1. TakeChunk(B, b, n) = [B EXCEPT ![b].free = Tail(@)] BY <1>2 DEF TakeChunk
    <2>2. Taken(B[b], n) = [B[b] EXCEPT !.free = Tail(B[b].free)] BY <1>2 DEF Taken
    <2>3. TakeChunk(B, b, n) = [B EXCEPT ![b] = Taken(B[b], n)]
      BY <2>1, <2>2 DEF BlksType, BlkRec
    <2> QED BY <1>2, <2>3 DEF NextChunk, TakenOff
  <1> QED BY <1>1, <1>2

\* What a block loses with the chunk it gives.
LEMMA TakenIs ==
    ASSUME NEW x \in BlkRec, x.restcnt + Len(x.free) > 0
    PROVE  TakenFrom(x, Taken(x, x.size))
  <1> DEFINE y == Taken(x, x.size)
  <1>1. /\ x.restcnt \in Nat /\ x.rest \in Nat /\ x.size \in Nat /\ x.free \in Seq(Nat)
        /\ x.shift \in SUBSET (Nat \X Nat)
    BY DEF BlkRec
  <1>2. CASE x.restcnt > 0
    <2> DEFINE n == x.restcnt - 1
               m == x.rest + x.size
               e == {p \in x.shift : p[1] # x.rest}
    <2>1. n \in Nat /\ m \in Nat /\ e \in SUBSET (Nat \X Nat) BY <1>1, <1>2
    <2>2. y = [x EXCEPT !.restcnt = n, !.rest = m, !.shift = e] BY <1>2 DEF Taken
    <2> HIDE DEF n, m, e, y
    <2>3. y \in BlkRec BY <2>1, <2>2 DEF BlkRec
    <2>4. SameBlk(y, x) /\ y.next = x.next /\ y.prev = x.prev /\ y.free = x.free /\ y.restcnt = n /\ y.rest = m /\ y.shift = e
      BY <2>2 DEF SameBlk, BlkRec
    <2>5. TakenFrom(x, y) BY <1>2, <2>3, <2>4 DEF TakenFrom, n, m, e
    <2> QED BY <2>5 DEF y
  <1>3. CASE ~(x.restcnt > 0)
    <2> DEFINE f == Tail(x.free)
    <2>1. x.free # <<>> BY <1>1, <1>3
    <2>2. f \in Seq(Nat) BY <1>1, <2>1
    <2>3. y = [x EXCEPT !.free = f] BY <1>3 DEF Taken
    <2> HIDE DEF f, y
    <2>4. y \in BlkRec BY <2>2, <2>3 DEF BlkRec
    <2>5. SameBlk(y, x) /\ y.next = x.next /\ y.prev = x.prev /\ y.free = f /\ y.restcnt = x.restcnt /\ y.rest = x.rest
          /\ y.shift = x.shift
      BY <2>3 DEF SameBlk, BlkRec
    <2>6. TakenFrom(x, y) BY <1>3, <2>4, <2>5 DEF TakenFrom, f
    <2> QED BY <2>6 DEF y
  <1> QED BY <1>2, <1>3

\* The chunk a block gives was nobody's and meets no other, and the block stays sound.
LEMMA TakeOK ==
    ASSUME NEW x \in BlkRec, NEW hs, hs \in SUBSET Nat, SmallOK(x, hs), x.restcnt + Len(x.free) > 0,
           NEW y, TakenFrom(x, y)
    PROVE  TookChunk(x, y, TakenOff(x), hs)
  <1> DEFINE o == TakenOff(x)
             gs == hs \cup {o}
             k == x.restcnt
             n == x.size
             f == x.free
  <1>1. k \in Nat /\ x.rest \in Nat /\ n \in Nat /\ x.cnt \in Nat /\ f \in Seq(Nat) /\ Len(f) \in Nat
    BY DEF BlkRec
  <1>2. SameBlk(y, x) BY DEF TakenFrom
  <1>3. n >= Hdr /\ Hdr = 16 /\ BlkHdr = 64 /\ Ptr = 8 BY DEF SmallOK, Hdr, BlkHdr, Ptr
  <1>4. x.rest >= BlkHdr BY DEF SmallOK
  <1>5. BlkSize \in Nat BY SizesAssumption
  <1>6. CASE k > 0
    <2>1. o = x.rest /\ y.restcnt = k - 1 /\ y.rest = x.rest + n /\ y.free = f /\ y.size = n /\ y.cnt = x.cnt
      BY <1>2, <1>6 DEF TakenOff, TakenFrom, SameBlk
    <2>2. \A a \in hs : a \in Nat /\ a >= BlkHdr /\ a + n <= x.rest BY DEF SmallOK, ChunksIn
    <2>3. \A i \in 1 .. Len(f) : f[i] \in Nat /\ f[i] >= BlkHdr /\ f[i] + n <= x.rest BY <1>1 DEF SmallOK, ChunksIn
    <2>4. o \notin hs BY <1>1, <1>3, <2>1, <2>2
    <2>5. IsFiniteSet(gs) /\ Cardinality(gs) = Cardinality(hs) + 1 /\ Cardinality(hs) \in Nat
      <3>1. IsFiniteSet(hs) BY DEF SmallOK
      <3> QED BY <2>4, <3>1, FS_AddElement, FS_CardinalityType
    <2>6. ChunksIn(y, gs)
      <3>1. ASSUME NEW a \in gs PROVE a >= BlkHdr /\ a + y.size <= y.rest
        <4>1. a \in Nat BY <1>1, <2>1
        <4> QED BY <1>1, <1>3, <1>4, <2>1, <2>2, <4>1
      <3>2. ASSUME NEW i \in 1 .. Len(y.free) PROVE y.free[i] >= BlkHdr /\ y.free[i] + y.size <= y.rest
        BY <1>1, <1>3, <2>1, <2>3, SMTT(30)
      <3> HIDE DEF gs
      <3> QED BY <3>1, <3>2 DEF ChunksIn
    <2>7. ChunksOff(y, gs)
      <3>1. ASSUME NEW a \in gs, NEW c \in gs PROVE a = c \/ Off(a, c, n)
        <4>1. a \in hs /\ c \in hs => a = c \/ Off(a, c, n) BY DEF SmallOK, ChunksOff
        <4>2. a \in hs /\ c = o => Off(a, c, n) BY <2>1, <2>2 DEF Off
        <4>3. a = o /\ c \in hs => Off(a, c, n) BY <2>1, <2>2 DEF Off
        <4> QED BY <4>1, <4>2, <4>3
      <3>2. ASSUME NEW a \in gs, NEW i \in 1 .. Len(f) PROVE Off(a, f[i], n)
        <4>1. a \in hs => Off(a, f[i], n) BY DEF SmallOK, ChunksOff
        <4>2. a = o => Off(a, f[i], n) BY <2>1, <2>3 DEF Off
        <4> QED BY <4>1, <4>2
      <3>3. \A i, j \in 1 .. Len(f) : i = j \/ Off(f[i], f[j], n) BY DEF SmallOK, ChunksOff
      <3> HIDE DEF gs
      <3> QED BY <2>1, <3>1, <3>2, <3>3 DEF ChunksOff
    <2>8. y.rest + y.restcnt * y.size + Ptr * y.cnt <= BlkSize
      <3>1. x.rest + k * n + Ptr * x.cnt <= BlkSize BY DEF SmallOK
      <3>2. (k - 1) * n + n = k * n /\ k * n \in Nat /\ (k - 1) * n \in Nat BY <1>1, <1>6, TimesLess
      <3> DEFINE v == (k - 1) * n
                 w == k * n
      <3>3. v + n = w /\ v \in Nat /\ w \in Nat /\ x.rest + w + Ptr * x.cnt <= BlkSize BY <3>1, <3>2
      <3> HIDE DEF v, w
      <3>4. (x.rest + n) + v + Ptr * x.cnt <= BlkSize BY <1>1, <1>3, <1>5, <3>3
      <3> QED BY <2>1, <3>4 DEF v
    <2>9. SmallOK(y, gs)
      <3>1. x.restcnt < x.cnt /\ Len(x.free) < x.cnt /\ x.restcnt + Len(x.free) + Cardinality(hs) = x.cnt BY DEF SmallOK
      <3>2. y.restcnt < y.cnt /\ Len(y.free) < y.cnt /\ y.restcnt + Len(y.free) + Cardinality(gs) = y.cnt
        <4>1. y.restcnt = k - 1 /\ y.free = f /\ y.cnt = x.cnt BY <2>1
        <4>2. Cardinality(gs) = Cardinality(hs) + 1 /\ Cardinality(hs) \in Nat BY <2>5
        <4> HIDE DEF gs, o
        <4>3. Len(y.free) = Len(f) /\ y.cnt \in Nat /\ y.restcnt \in Nat BY <1>1, <1>6, <4>1
        <4> DEFINE ch == Cardinality(hs)
                   cg == Cardinality(gs)
                   m == Len(f)
        <4>4. ch \in Nat /\ cg = ch + 1 /\ m \in Nat BY <1>1, <4>2
        <4>5. k < x.cnt /\ m < x.cnt /\ k + m + ch = x.cnt BY <3>1
        <4> HIDE DEF ch, cg, m
        <4>6. k - 1 < x.cnt /\ m < x.cnt /\ (k - 1) + m + cg = x.cnt BY <1>1, <4>4, <4>5
        <4> QED BY <4>1, <4>6 DEF cg, m
      <3>3. y.size >= Hdr /\ y.rest >= BlkHdr BY <1>1, <1>3, <1>4, <2>1
      <3>4. \A s \in SmallRequests : BinNdx(s) = y.binndx => BinSize(s) = y.size BY <1>2 DEF SmallOK, SameBlk
      <3> HIDE DEF gs
      <3> QED BY <2>5, <2>6, <2>7, <2>8, <3>2, <3>3, <3>4 DEF SmallOK
    <2>10. y.shift \subseteq x.shift /\ \A p \in y.shift : p[1] # o BY <1>6, <2>1 DEF TakenFrom
    <2> QED BY <1>1, <1>4, <2>1, <2>4, <2>9, <2>10 DEF TookChunk
  <1>7. CASE ~(k > 0)
    <2>1. k = 0 /\ Len(f) > 0 BY <1>1, <1>7
    <2>2. o = f[1] /\ y.restcnt = 0 /\ y.rest = x.rest /\ y.free = Tail(f) /\ y.size = n /\ y.cnt = x.cnt /\ y.shift = x.shift
      BY <1>1, <1>2, <1>7, <2>1 DEF TakenOff, TakenFrom, SameBlk
    <2>3. Len(y.free) = Len(f) - 1 /\ \A i \in 1 .. Len(f) - 1 : y.free[i] = f[i + 1]
      BY <1>1, <2>1, <2>2
    <2>4. \A a \in hs : a \in Nat /\ a >= BlkHdr /\ a + n <= x.rest BY DEF SmallOK, ChunksIn
    <2>5. \A i \in 1 .. Len(f) : f[i] \in Nat /\ f[i] >= BlkHdr /\ f[i] + n <= x.rest BY <1>1 DEF SmallOK, ChunksIn
    <2>6. 1 \in 1 .. Len(f) BY <1>1, <2>1
    <2>7. \A a \in hs : Off(a, o, n)
      <3>1. \A a \in hs : \A i \in 1 .. Len(f) : Off(a, f[i], n) BY DEF SmallOK, ChunksOff
      <3> HIDE DEF f, n, o
      <3> QED BY <2>2, <2>6, <3>1
    <2>8. o \in Nat /\ o >= BlkHdr /\ o + n <= x.rest BY <2>2, <2>5, <2>6
    <2>9. o \notin hs BY <1>1, <1>3, <2>7, <2>8 DEF Off
    <2>10. IsFiniteSet(gs) /\ Cardinality(gs) = Cardinality(hs) + 1 /\ Cardinality(hs) \in Nat
      <3>1. IsFiniteSet(hs) BY DEF SmallOK
      <3> QED BY <2>9, <3>1, FS_AddElement, FS_CardinalityType
    <2>11. ChunksIn(y, gs)
      <3>1. ASSUME NEW a \in gs PROVE a >= BlkHdr /\ a + y.size <= y.rest
        BY <2>2, <2>4, <2>8
      <3>2. ASSUME NEW i \in 1 .. Len(y.free) PROVE y.free[i] >= BlkHdr /\ y.free[i] + y.size <= y.rest
        <4>1. i \in 1 .. Len(f) - 1 /\ i + 1 \in 1 .. Len(f) BY <1>1, <2>1, <2>3
        <4> QED BY <2>2, <2>3, <2>5, <4>1
      <3> HIDE DEF gs
      <3> QED BY <3>1, <3>2 DEF ChunksIn
    <2>12. ChunksOff(y, gs)
      <3>1. ASSUME NEW a \in gs, NEW c \in gs PROVE a = c \/ Off(a, c, n)
        <4>1. a \in hs /\ c \in hs => a = c \/ Off(a, c, n) BY DEF SmallOK, ChunksOff
        <4>2. a \in hs /\ c = o => Off(a, c, n) BY <2>7
        <4>3. a = o /\ c \in hs => Off(a, c, n) BY <2>7 DEF Off
        <4> QED BY <4>1, <4>2, <4>3
      <3>2. ASSUME NEW a \in gs, NEW i \in 1 .. Len(y.free) PROVE Off(a, y.free[i], n)
        <4>0. i \in 1 .. Len(f) - 1 /\ i + 1 \in 1 .. Len(f) /\ y.free[i] = f[i + 1] /\ i + 1 # 1
          <5>1. i \in 1 .. Len(f) - 1 BY <2>3
          <5>2. i \in Nat /\ i >= 1 /\ i <= Len(f) - 1 BY <1>1, <5>1
          <5> QED BY <1>1, <2>3, <5>1, <5>2
        <4>1. a \in hs => Off(a, f[i + 1], n) BY <4>0 DEF SmallOK, ChunksOff
        <4>2. Off(f[1], f[i + 1], n) BY <2>6, <4>0 DEF SmallOK, ChunksOff
        <4> QED BY <2>2, <4>0, <4>1, <4>2
      <3>3. ASSUME NEW i \in 1 .. Len(y.free), NEW j \in 1 .. Len(y.free) PROVE i = j \/ Off(y.free[i], y.free[j], n)
        <4>1. i + 1 \in 1 .. Len(f) /\ y.free[i] = f[i + 1] /\ j + 1 \in 1 .. Len(f) /\ y.free[j] = f[j + 1]
          BY <1>1, <2>1, <2>3
        <4>2. i + 1 = j + 1 \/ Off(f[i + 1], f[j + 1], n) BY <4>1 DEF SmallOK, ChunksOff
        <4> QED BY <4>1, <4>2
      <3> HIDE DEF gs
      <3> QED BY <2>2, <3>1, <3>2, <3>3 DEF ChunksOff
    <2>13. SmallOK(y, gs)
      <3>1. x.restcnt < x.cnt /\ Len(x.free) < x.cnt /\ x.restcnt + Len(x.free) + Cardinality(hs) = x.cnt BY DEF SmallOK
      <3>2. y.restcnt < y.cnt /\ Len(y.free) < y.cnt /\ y.restcnt + Len(y.free) + Cardinality(gs) = y.cnt
        <4> HIDE DEF gs, o
        <4> QED BY <1>1, <2>1, <2>2, <2>3, <2>10, <3>1
      <3>3. y.size >= Hdr /\ y.rest >= BlkHdr BY <1>1, <1>3, <1>4, <2>2
      <3>4. \A s \in SmallRequests : BinNdx(s) = y.binndx => BinSize(s) = y.size BY <1>2 DEF SmallOK, SameBlk
      <3>5. y.rest + y.restcnt * y.size + Ptr * y.cnt <= BlkSize BY <2>1, <2>2 DEF SmallOK
      <3> HIDE DEF gs
      <3> QED BY <2>10, <2>11, <2>12, <3>2, <3>3, <3>4, <3>5 DEF SmallOK
    <2> QED BY <1>7, <2>2, <2>8, <2>9, <2>13 DEF TookChunk
  <1> QED BY <1>6, <1>7

\* One more on the stack, one less in use.
LEMMA CountBack ==
    \A k, m, m2, c, c2, n \in Nat : k < n /\ k + m + c = n /\ m2 = m + 1 /\ c2 = c - 1 => k + m2 + c2 = n
  OBVIOUS

\* A chunk that comes back leaves the block sound.
LEMMA PutOK ==
    ASSUME NEW x \in BlkRec, NEW hs, hs \in SUBSET Nat, SmallOK(x, hs), NEW o \in hs, Len(x.free) + 1 < x.cnt,
           NEW y, PutOn(x, y, o)
    PROVE  /\ y \in BlkRec /\ SameBlk(y, x) /\ y.next = x.next /\ y.prev = x.prev /\ y.shift = x.shift
           /\ SmallOK(y, hs \ {o}) /\ y.restcnt + Len(y.free) > 0
  <1> USE DEF PutOn
  <1> DEFINE gs == hs \ {o}
             k == x.restcnt
             n == x.size
             f == x.free
             g == <<o>> \o f
  <1>1. k \in Nat /\ x.rest \in Nat /\ n \in Nat /\ x.cnt \in Nat /\ f \in Seq(Nat) /\ Len(f) \in Nat /\ o \in Nat
    BY DEF BlkRec
  <1>2. g \in Seq(Nat) /\ Len(g) = Len(f) + 1 /\ g[1] = o /\ \A i \in 2 .. Len(f) + 1 : g[i] = f[i - 1]
    BY <1>1
  <1>3. y \in BlkRec BY <1>2 DEF BlkRec
  <1>4. /\ SameBlk(y, x) /\ y.next = x.next /\ y.prev = x.prev /\ y.shift = x.shift
        /\ y.free = g /\ y.restcnt = k /\ y.rest = x.rest /\ y.size = n /\ y.cnt = x.cnt
    BY DEF SameBlk, BlkRec
  <1> HIDE DEF g
  <1>5. \A i \in 1 .. Len(g) : (i = 1 /\ g[i] = o) \/ (i - 1 \in 1 .. Len(f) /\ g[i] = f[i - 1])
    <2> DEFINE m == Len(f)
    <2>1. m \in Nat /\ Len(g) = m + 1 /\ g[1] = o /\ \A i \in 2 .. m + 1 : g[i] = f[i - 1] BY <1>1, <1>2
    <2> HIDE DEF m
    <2>2. ASSUME NEW i \in 1 .. m + 1 PROVE (i = 1 /\ g[i] = o) \/ (i - 1 \in 1 .. m /\ g[i] = f[i - 1])
      <3>1. CASE i = 1 BY <2>1, <3>1
      <3>2. CASE i # 1
        <4>1. i \in 2 .. m + 1 /\ i - 1 \in 1 .. m BY <2>1, <3>2
        <4> QED BY <2>1, <4>1
      <3> QED BY <3>1, <3>2
    <2> QED BY <2>1, <2>2 DEF m
  <1>6. IsFiniteSet(gs) /\ Cardinality(gs) = Cardinality(hs) - 1 /\ Cardinality(hs) \in Nat
    <2>1. IsFiniteSet(hs) BY DEF SmallOK
    <2> QED BY <2>1, FS_RemoveElement, FS_CardinalityType
  <1>7. ChunksIn(y, gs)
    <2>1. \A a \in hs : a >= BlkHdr /\ a + n <= x.rest BY DEF SmallOK, ChunksIn
    <2>2. \A i \in 1 .. Len(f) : f[i] >= BlkHdr /\ f[i] + n <= x.rest BY DEF SmallOK, ChunksIn
    <2>3. ASSUME NEW i \in 1 .. Len(g) PROVE g[i] >= BlkHdr /\ g[i] + n <= x.rest BY <1>5, <2>1, <2>2
    <2> QED BY <1>4, <2>1, <2>3 DEF ChunksIn
  <1>8. ChunksOff(y, gs)
    <2>1. \A a, c \in hs : a = c \/ Off(a, c, n) BY DEF SmallOK, ChunksOff
    <2>2. \A a \in hs : \A i \in 1 .. Len(f) : Off(a, f[i], n) BY DEF SmallOK, ChunksOff
    <2>3. \A i, j \in 1 .. Len(f) : i = j \/ Off(f[i], f[j], n) BY DEF SmallOK, ChunksOff
    <2>4. ASSUME NEW a \in gs, NEW i \in 1 .. Len(g) PROVE Off(a, g[i], n)
      <3>1. a \in hs /\ a # o OBVIOUS
      <3> QED BY <1>5, <2>1, <2>2, <3>1
    <2>5. ASSUME NEW i \in 1 .. Len(g), NEW j \in 1 .. Len(g) PROVE i = j \/ Off(g[i], g[j], n)
      <3>0. \A a, c : Off(a, c, n) => Off(c, a, n) BY DEF Off
      <3>1. CASE i = 1 /\ j # 1
        <4>1. g[i] = o /\ j - 1 \in 1 .. Len(f) /\ g[j] = f[j - 1] BY <1>5, <3>1
        <4> QED BY <2>2, <4>1
      <3>2. CASE i # 1 /\ j = 1
        <4>1. g[j] = o /\ i - 1 \in 1 .. Len(f) /\ g[i] = f[i - 1] BY <1>5, <3>2
        <4> QED BY <2>2, <3>0, <4>1
      <3>3. CASE i # 1 /\ j # 1
        <4>1. j - 1 \in 1 .. Len(f) /\ g[j] = f[j - 1] /\ i - 1 \in 1 .. Len(f) /\ g[i] = f[i - 1] BY <1>5, <3>3
        <4>2. i - 1 = j - 1 \/ Off(f[i - 1], f[j - 1], n) BY <2>3, <4>1
        <4> QED BY <4>1, <4>2
      <3> QED BY <3>1, <3>2, <3>3
    <2>6. \A a, c \in gs : a = c \/ Off(a, c, n) BY <2>1
    <2> HIDE DEF gs
    <2> QED BY <1>4, <2>4, <2>5, <2>6 DEF ChunksOff
  <1>9. y.restcnt < y.cnt /\ Len(y.free) < y.cnt /\ y.restcnt + Len(y.free) + Cardinality(gs) = y.cnt
    <2> DEFINE ch == Cardinality(hs)
               cg == Cardinality(gs)
               m == Len(f)
               m2 == Len(g)
    <2>1. ch \in Nat /\ cg = ch - 1 /\ m \in Nat /\ m2 = m + 1 /\ m2 < x.cnt BY <1>1, <1>2, <1>6
    <2>2. cg \in Nat /\ m2 \in Nat BY <1>1, <1>2, <1>6, FS_CardinalityType
    <2>3. k < x.cnt /\ k + m + ch = x.cnt BY DEF SmallOK
    <2>4. k \in Nat /\ x.cnt \in Nat BY <1>1
    <2> HIDE DEF ch, cg, m, m2, k
    <2>5. k + m2 + cg = x.cnt BY <2>1, <2>2, <2>3, <2>4, CountBack
    <2>6. k < x.cnt /\ m2 < x.cnt /\ k + m2 + cg = x.cnt BY <2>1, <2>3, <2>5
    <2> QED BY <1>4, <2>6 DEF cg, m2, k
  <1>10. SmallOK(y, gs)
    <2>1. y.size >= Hdr /\ y.rest >= BlkHdr BY <1>4 DEF SmallOK
    <2>2. \A s \in SmallRequests : BinNdx(s) = y.binndx => BinSize(s) = y.size BY <1>4 DEF SmallOK, SameBlk
    <2>3. y.rest + y.restcnt * y.size + Ptr * y.cnt <= BlkSize BY <1>4 DEF SmallOK
    <2> HIDE DEF gs
    <2> QED BY <1>6, <1>7, <1>8, <1>9, <2>1, <2>2, <2>3 DEF SmallOK
  <1>11. y.restcnt + Len(y.free) > 0
    <2> DEFINE m == Len(f)
    <2>1. m \in Nat /\ Len(y.free) = m + 1 /\ y.restcnt = k BY <1>1, <1>2, <1>4
    <2> HIDE DEF m
    <2> QED BY <1>1, <2>1
  <1> QED BY <1>3, <1>4, <1>10, <1>11

\* The last chunk that comes back was the only one in use.
LEMMA LastOK ==
    ASSUME NEW x \in BlkRec, NEW hs, hs \in SUBSET Nat, SmallOK(x, hs), NEW o \in hs, ~(Len(x.free) + 1 < x.cnt)
    PROVE  hs = {o}
  <1>1. x.restcnt \in Nat /\ x.cnt \in Nat /\ x.free \in Seq(Nat) /\ Len(x.free) \in Nat BY DEF BlkRec
  <1>2. IsFiniteSet(hs) BY DEF SmallOK
  <1>3. IsFiniteSet(hs \ {o}) /\ Cardinality(hs \ {o}) = Cardinality(hs) - 1 /\ Cardinality(hs) \in Nat
        /\ Cardinality(hs \ {o}) \in Nat
    BY <1>2, FS_RemoveElement, FS_CardinalityType
  <1> DEFINE ch == Cardinality(hs)
             cg == Cardinality(hs \ {o})
             m == Len(x.free)
  <1>4. ch \in Nat /\ cg \in Nat /\ cg = ch - 1 /\ m \in Nat /\ ~(m + 1 < x.cnt) BY <1>1, <1>3
  <1>5. m < x.cnt /\ x.restcnt + m + ch = x.cnt BY DEF SmallOK
  <1> HIDE DEF ch, cg, m
  <1>6. cg = 0 BY <1>1, <1>4, <1>5
  <1>7. hs \ {o} = {} BY <1>3, <1>6, FS_EmptySet DEF cg
  <1> QED BY <1>7

\* What the bins serve.
LEMMA ServedBy ==
    ASSUME BinsAgree, NEW s \in SmallRequests
    PROVE  /\ BinNdx(s) \in Bins /\ BinNdx(s) \in Lists /\ BinNdx(s) # BigList
           /\ BinSize(s) \in Nat /\ BinSize(s) >= s + Hdr /\ s \in Nat
           /\ ChunkCount(BinSize(s)) \in Nat /\ ChunkCount(BinSize(s)) >= 2
           /\ BlkHdr + ChunkCount(BinSize(s)) * (BinSize(s) + Ptr) <= BlkSize
           /\ \A u \in SmallRequests : BinNdx(u) = BinNdx(s) => BinSize(u) = BinSize(s)
  <1>1. BinNdx(s) \in Bins /\ BinNdx(s) \in Lists BY DEF Bins, Lists, SmallRequests
  <1>2. BinNdx(s) \in Nat /\ BinSize(s) \in Nat /\ BinServes(s) BY DEF BinsAgree, SmallRequests
  <1>3. BinNdx(s) # BigList BY <1>2 DEF BigList
  <1>4. s \in Nat
    <2>1. \A a \in Aligns : a \in Nat BY HeapAssumption
    <2>2. Sizes \subseteq Nat /\ InfoSize \in Nat
      <3>1. SmallMax \in Int BY SizesAssumption DEF SmallMax
      <3> QED BY HeapAssumption, <3>1
    <2> QED BY <2>1, <2>2 DEF SmallRequests, Requests
  <1>5. ChunkCount(BinSize(s)) \in Nat
    <2>1. BlkSize \in Nat /\ BlkSize >= 1024 BY SizesAssumption
    <2>2. BlkSize - 64 \in Nat /\ BinSize(s) + 8 \in Nat /\ BinSize(s) + 8 > 0 BY <1>2, <2>1
    <2> DEFINE a == BlkSize - 64
               d == BinSize(s) + 8
    <2>3. a \in Nat /\ d \in Nat /\ d > 0 BY <2>2
    <2> HIDE DEF a, d
    <2>4. a \div d \in Nat BY <2>3
    <2> QED BY <2>4 DEF ChunkCount, BlkHdr, Ptr, a, d
  <1>6. /\ ChunkCount(BinSize(s)) >= 2 /\ BinSize(s) >= s + Hdr
        /\ BlkHdr + ChunkCount(BinSize(s)) * (BinSize(s) + Ptr) <= BlkSize
    BY <1>2 DEF BinServes
  <1>7. \A u \in SmallRequests : BinNdx(u) = BinNdx(s) => BinSize(u) = BinSize(s)
    BY DEF BinsAgree, SmallRequests
  <1> QED BY <1>1, <1>2, <1>3, <1>4, <1>5, <1>6, <1>7

\* A block set up for a bin, with its first chunk given, is sound.
LEMMA InitOK ==
    ASSUME BinsAgree, NEW s \in SmallRequests, NEW t, tid[t] \in 0 .. MaxThreads - 1
    PROVE  /\ InitBlk(t, BinSize(s), BinNdx(s)) \in BlkRec
           /\ NewSmall(Taken(InitBlk(t, BinSize(s), BinNdx(s)), BinSize(s)), t, s)
  <1> DEFINE n == BinSize(s)
             l == BinNdx(s)
             c == ChunkCount(n)
             x == InitBlk(t, n, l)
             y == Taken(x, n)
  <1>1. /\ l \in Lists /\ n \in Nat /\ n >= Hdr /\ c \in Nat /\ c >= 2
        /\ BlkHdr + c * (n + Ptr) <= BlkSize
        /\ \A u \in SmallRequests : BinNdx(u) = l => BinSize(u) = n
    <2>1. n >= s + Hdr /\ s \in Nat /\ n \in Nat BY ServedBy
    <2>2. n >= Hdr BY <2>1 DEF Hdr
    <2> QED BY <2>1, <2>2, ServedBy
  <1>2. BlkHdr = 64 /\ Hdr = 16 /\ Ptr = 8 /\ 0 \in Refs /\ <<>> \in Seq(Nat) /\ Len(<<>>) = 0 BY BlockRefs DEF BlkHdr, Hdr, Ptr
  <1> HIDE DEF n, l, c
  <1>3. x \in BlkRec BY <1>1, <1>2 DEF InitBlk, BlkRec, c
  <1>4. /\ x.restcnt = c /\ x.cnt = c /\ x.rest = BlkHdr /\ x.size = n /\ x.free = <<>> /\ x.shift = {} /\ x.small = TRUE
        /\ x.tid = tid[t] /\ x.binndx = l
    BY DEF InitBlk, c
  <1> HIDE DEF x
  <1>5. TakenFrom(x, y)
    <2>1. x.restcnt + Len(x.free) > 0 BY <1>1, <1>2, <1>4
    <2>2. y = Taken(x, x.size) BY <1>4
    <2> QED BY <1>3, <2>1, <2>2, TakenIs
  <1> HIDE DEF y
  <1>6. /\ y \in BlkRec /\ y.restcnt = c - 1 /\ y.rest = BlkHdr + n /\ y.free = <<>> /\ y.shift = {}
        /\ y.size = n /\ y.cnt = c /\ y.tid = tid[t] /\ y.binndx = l /\ y.small = x.small
    <2>1. x.restcnt > 0 BY <1>1, <1>4
    <2>2. {p \in {} : p[1] # x.rest} = {} OBVIOUS
    <2> QED BY <1>4, <1>5, <2>1, <2>2 DEF TakenFrom, SameBlk
  <1>7. y.small = TRUE BY <1>4, <1>6, Zenon
  <1>8. y.rest + y.restcnt * y.size + Ptr * y.cnt <= BlkSize
    <2>1. c * (n + 8) = c * n + 8 * c /\ (c - 1) * n + n = c * n /\ c * n \in Nat /\ (c - 1) * n \in Nat
      BY <1>1, TimesSum, TimesLess
    <2>2. 64 + c * (n + 8) <= BlkSize BY <1>1, <1>2
    <2> DEFINE w == c * n
               v == (c - 1) * n
               z == c * (n + 8)
    <2>3. z = w + 8 * c /\ v + n = w /\ w \in Nat /\ v \in Nat /\ 64 + z <= BlkSize BY <2>1, <2>2
    <2> HIDE DEF w, v, z
    <2>4. BlkSize \in Nat BY SizesAssumption
    <2>5. (64 + n) + v + 8 * c <= BlkSize BY <1>1, <2>3, <2>4
    <2> QED BY <1>2, <1>6, <2>5 DEF v
  <1>9. IsFiniteSet({BlkHdr}) /\ Cardinality({BlkHdr}) = 1 BY FS_Singleton
  <1>10. ChunksIn(y, {BlkHdr}) BY <1>1, <1>2, <1>6 DEF ChunksIn
  <1>11. ChunksOff(y, {BlkHdr}) BY <1>1, <1>2, <1>6 DEF ChunksOff
  <1>12. SmallOK(y, {BlkHdr})
    <2>1. Len(y.free) = 0 BY <1>2, <1>6
    <2>2. y.restcnt < y.cnt /\ Len(y.free) < y.cnt /\ y.restcnt + Len(y.free) + Cardinality({BlkHdr}) = y.cnt
      BY <1>1, <1>6, <1>9, <2>1
    <2>3. y.size >= Hdr /\ y.rest >= BlkHdr BY <1>1, <1>2, <1>6
    <2>4. \A u \in SmallRequests : BinNdx(u) = y.binndx => BinSize(u) = y.size BY <1>1, <1>6
    <2> QED BY <1>8, <1>9, <1>10, <1>11, <2>2, <2>3, <2>4 DEF SmallOK
  <1>13. y.restcnt + Len(y.free) > 0 BY <1>1, <1>2, <1>6
  <1>14. NewSmall(y, t, s) BY <1>6, <1>7, <1>12, <1>13 DEF NewSmall, l, n
  <1> QED BY <1>3, <1>14 DEF x, y, n, l

\* Rounding up goes up, and by less than one step.
LEMMA RoundUpIs ==
    ASSUME NEW p \in Nat, NEW a \in Nat, a > 0
    PROVE  RoundUp(p, a) \in Nat /\ RoundUp(p, a) >= p /\ RoundUp(p, a) - p < a
  <1> DEFINE m == p + a - 1
             d == m \div a
             e == m % a
  <1>1. m \in Nat BY DEF m
  <1>2. d \in Nat /\ e \in 0 .. a - 1 /\ m = a * d + e BY <1>1
  <1>3. d * a = a * d /\ a * d \in Nat BY <1>2
  <1> DEFINE w == a * d
  <1>4. d * a = w /\ w \in Nat /\ m = w + e BY <1>2, <1>3
  <1> HIDE DEF d, e, w
  <1>5. w \in Nat /\ w >= p /\ w - p < a BY <1>2, <1>4 DEF m
  <1>6. RoundUp(p, a) = w BY <1>4 DEF RoundUp, d, m
  <1> QED BY <1>5, <1>6

-----------------------------------------------------------------------------
(* The memory: heaps H, blocks B, the lists and stacks they are on, and the *)
(* chunks of each block that are in use or on their way back.               *)

\* Soundness of a block does not depend on its links.
LEMMA SameSmall ==
    ASSUME NEW x, NEW y, Same(y, x), NEW hs, SmallOK(x, hs)
    PROVE  SmallOK(y, hs)
  <1>1. /\ y.binndx = x.binndx /\ y.size = x.size /\ y.cnt = x.cnt /\ y.restcnt = x.restcnt /\ y.rest = x.rest
        /\ y.free = x.free
    BY DEF Same
  <1>2. ChunksIn(y, hs) BY <1>1 DEF SmallOK, ChunksIn
  <1>3. ChunksOff(y, hs) BY <1>1 DEF SmallOK, ChunksOff
  <1> QED BY <1>1, <1>2, <1>3 DEF SmallOK

\* Nor does the place of a block and its kind.
LEMMA SameOK ==
    ASSUME NEW x, NEW y, Same(y, x), NEW o, NEW k, NEW hs, BlockOK(x, o, k, hs), KindOK(x)
    PROVE  BlockOK(y, o, k, hs) /\ KindOK(y)
  <1>1. /\ y.binndx = x.binndx /\ y.size = x.size /\ y.cnt = x.cnt /\ y.restcnt = x.restcnt /\ y.rest = x.rest
        /\ y.free = x.free /\ (y = NoBlk <=> x = NoBlk)
    BY DEF Same
  <1>2. y.small = x.small BY DEF Same
  <1>3. KindOK(y) BY <1>1, <1>2, Zenon DEF KindOK
  <1>4. o # NoList /\ y # NoBlk /\ y.binndx # BigList => SmallOK(y, hs)
    BY <1>1, SameSmall DEF BlockOK
  <1> QED BY <1>1, <1>3, <1>4 DEF BlockOK

\* Sets of blocks can be counted.
LEMMA BlocksFinite ==
    /\ IsFiniteSet(Blocks)
    /\ \A S : S \subseteq Blocks => IsFiniteSet(S) /\ Cardinality(S) \in Nat
  <1>1. IsFiniteSet(Blocks) BY HeapAssumption, FS_Interval DEF Blocks
  <1> QED BY <1>1, FS_Subset, FS_CardinalityType

\* One more or one less.
LEMMA CountAdd ==
    ASSUME NEW S, S \subseteq Blocks, NEW b \in Blocks, b \notin S
    PROVE  Cardinality(S \cup {b}) = Cardinality(S) + 1
  BY BlocksFinite, FS_AddElement

\* One block less.
LEMMA CountRemove ==
    ASSUME NEW S, S \subseteq Blocks, NEW b \in S
    PROVE  Cardinality(S \ {b}) = Cardinality(S) - 1
  BY BlocksFinite, FS_RemoveElement

\* The blocks with room, but for one block.
LEMMA RmSame ==
    ASSUME NEW B, NEW B2, NEW b, \A c \in Blocks : c # b => Same(B2[c], B[c])
    PROVE  SameBut(Rm(B), Rm(B2), b)
  <1>1. ASSUME NEW c \in Blocks, c # b PROVE c \in Rm(B2) <=> c \in Rm(B)
    <2>1. Same(B2[c], B[c]) BY <1>1
    <2> QED BY <2>1 DEF Rm, Same
  <1> QED BY <1>1 DEF SameBut

\* A step that changes the heap of t, the place and chunks of b, and links, keeps the memory sound.
LEMMA MemStep ==
    ASSUME NEW H, NEW B, NEW own, NEW kown, NEW held, Mem(H, B, own, kown, held),
           NEW t \in Threads, H[t] # NoHeap, NEW h2 \in HeapRec, NEW b \in Blocks,
           NEW B2, NEW own2, NEW kown2, Shape([H EXCEPT ![t] = h2], B2, own2, kown2, Rm(B2)),
           Others(B, own, kown, B2, own2, kown2, b),
           PlaceOf(own[b], kown[b], t), PlaceOf(own2[b], kown2[b], t),
           CountOK(h2, own2, kown2, t),
           NEW hs \in SUBSET Nat, BlockOK(B2[b], own2[b], kown2[b], hs), KindOK(B2[b])
    PROVE  Mem([H EXCEPT ![t] = h2], B2, own2, kown2, [held EXCEPT ![b] = hs])
  <1> DEFINE H2 == [H EXCEPT ![t] = h2]
             held2 == [held EXCEPT ![b] = hs]
  <1>1. ShapeTypes(H, B, own, kown)
    <2>1. Shape(H, B, own, kown, Rm(B)) BY DEF Mem
    <2> QED BY <2>1, ShapeTyped
  <1>2. held2 \in [Blocks -> SUBSET Nat] /\ held2[b] = hs /\ \A c \in Blocks : c # b => held2[c] = held[c] BY DEF Mem
  <1>3. H2[t] = h2 /\ \A x \in Threads : x # t => H2[x] = H[x] BY <1>1 DEF ShapeTypes, HeapsType
  <1> HIDE DEF H2, held2
  <1>4. ASSUME NEW c \in Blocks PROVE BlockOK(B2[c], own2[c], kown2[c], held2[c]) /\ KindOK(B2[c])
    <2>1. CASE c = b BY <1>2, <2>1
    <2>2. CASE c # b
      <3>1. Same(B2[c], B[c]) /\ own2[c] = own[c] /\ kown2[c] = kown[c] /\ held2[c] = held[c] BY <1>2, <2>2 DEF Others
      <3>2. BlockOK(B[c], own[c], kown[c], held[c]) /\ KindOK(B[c]) BY DEF Mem
      <3>3. BlockOK(B2[c], own[c], kown[c], held[c]) /\ KindOK(B2[c]) BY <3>1, <3>2, SameOK
      <3> QED BY <3>1, <3>3
    <2> QED BY <2>1, <2>2
  <1>5. ASSUME NEW x \in Threads, H2[x] # NoHeap PROVE CountOK(H2[x], own2, kown2, x)
    <2>1. CASE x = t BY <1>3, <2>1
    <2>2. CASE x # t
      <3>1. H2[x] = H[x] /\ x # NULL BY <1>3, <2>2, HeapAssumption
      <3>2. CountOK(H[x], own, kown, x) BY <1>5, <3>1 DEF Mem
      <3>3. KeptBy(kown2, x) = KeptBy(kown, x)
        <4>1. kown[b] # x /\ kown2[b] # x BY <2>2, <3>1 DEF PlaceOf
        <4>2. ASSUME NEW c \in Blocks PROVE kown2[c] = x <=> kown[c] = x BY <4>1 DEF Others
        <4> QED BY <4>2 DEF KeptBy
      <3>4. BlocksOn(own2, <<x, BigList>>) = BlocksOn(own, <<x, BigList>>)
        <4>1. <<x, BigList>> # NoList /\ <<x, BigList>>[1] = x BY <3>1 DEF NoList
        <4>2. own[b] # <<x, BigList>> /\ own2[b] # <<x, BigList>>
          <5> DEFINE e == <<x, BigList>>
          <5>1. e # NoList /\ e[1] = x BY <4>1
          <5> HIDE DEF e
          <5>2. own[b] # e /\ own2[b] # e BY <2>2, <5>1 DEF PlaceOf
          <5> QED BY <5>2 DEF e
        <4>3. ASSUME NEW c \in Blocks PROVE own2[c] = <<x, BigList>> <=> own[c] = <<x, BigList>> BY <4>2 DEF Others
        <4> QED BY <4>3 DEF BlocksOn
      <3> QED BY <3>1, <3>2, <3>3, <3>4 DEF CountOK
    <2> QED BY <2>1, <2>2
  <1>6. Mem(H2, B2, own2, kown2, held2) BY <1>2, <1>4, <1>5 DEF Mem, H2
  <1> QED BY <1>6 DEF H2, held2

\* The counts after a block changed its place in the heap of its thread.
LEMMA CountMove ==
    ASSUME NEW h, NEW own, NEW kown, NEW t \in Threads, CountOK(h, own, kown, t), NEW b \in Blocks,
           own \in [Blocks -> Ids \cup {NoList}], kown \in [Blocks -> Threads \cup {NULL}],
           NEW z, NEW k, NEW h2,
           h2.biglrucnt = h.biglrucnt + (IF z = <<t, BigList>> THEN 1 ELSE 0)
                                      - (IF own[b] = <<t, BigList>> THEN 1 ELSE 0),
           h2.blkfreecnt = h.blkfreecnt + (IF k = t THEN 1 ELSE 0) - (IF kown[b] = t THEN 1 ELSE 0)
    PROVE  CountOK(h2, [own EXCEPT ![b] = z], [kown EXCEPT ![b] = k], t)
  <1> DEFINE own2 == [own EXCEPT ![b] = z]
             kown2 == [kown EXCEPT ![b] = k]
             e == <<t, BigList>>
  <1>1. own2[b] = z /\ \A c \in Blocks : c # b => own2[c] = own[c] OBVIOUS
  <1>2. kown2[b] = k /\ \A c \in Blocks : c # b => kown2[c] = kown[c] OBVIOUS
  <1> HIDE DEF own2, kown2, e
  <1> DEFINE S == BlocksOn(own, e)
             S2 == BlocksOn(own2, e)
             K == KeptBy(kown, t)
             K2 == KeptBy(kown2, t)
  <1>3. S \subseteq Blocks /\ S2 \subseteq Blocks /\ K \subseteq Blocks /\ K2 \subseteq Blocks BY DEF BlocksOn, KeptBy
  <1>4. Cardinality(S) \in Nat /\ Cardinality(K) \in Nat BY <1>3, BlocksFinite
  <1>5. h.biglrucnt = Cardinality(S) /\ h.blkfreecnt = Cardinality(K) BY DEF CountOK, e
  <1>6. h2.biglrucnt = Cardinality(S2)
    <2>1. CASE own[b] = e /\ z = e
      <3>1. S2 = S BY <1>1, <2>1 DEF BlocksOn
      <3> QED BY <1>4, <1>5, <2>1, <3>1 DEF e
    <2>2. CASE own[b] = e /\ z # e
      <3>1. S2 = S \ {b} /\ b \in S BY <1>1, <2>2 DEF BlocksOn
      <3>2. Cardinality(S2) = Cardinality(S) - 1 BY <1>3, <3>1, CountRemove
      <3> HIDE DEF S, S2
      <3> QED BY <1>4, <1>5, <2>2, <3>2 DEF e
    <2>3. CASE own[b] # e /\ z = e
      <3>1. S2 = S \cup {b} /\ b \notin S BY <1>1, <2>3 DEF BlocksOn
      <3>2. Cardinality(S2) = Cardinality(S) + 1 BY <1>3, <3>1, CountAdd
      <3> HIDE DEF S, S2
      <3> QED BY <1>4, <1>5, <2>3, <3>2 DEF e
    <2>4. CASE own[b] # e /\ z # e
      <3>1. S2 = S BY <1>1, <2>4 DEF BlocksOn
      <3> QED BY <1>4, <1>5, <2>4, <3>1 DEF e
    <2> QED BY <2>1, <2>2, <2>3, <2>4
  <1>7. h2.blkfreecnt = Cardinality(K2)
    <2>1. CASE kown[b] = t /\ k = t
      <3>1. K2 = K BY <1>2, <2>1 DEF KeptBy
      <3> QED BY <1>4, <1>5, <2>1, <3>1
    <2>2. CASE kown[b] = t /\ k # t
      <3>1. K2 = K \ {b} /\ b \in K BY <1>2, <2>2 DEF KeptBy
      <3>2. Cardinality(K2) = Cardinality(K) - 1 BY <1>3, <3>1, CountRemove
      <3> HIDE DEF K, K2
      <3> QED BY <1>4, <1>5, <2>2, <3>2
    <2>3. CASE kown[b] # t /\ k = t
      <3>1. K2 = K \cup {b} /\ b \notin K BY <1>2, <2>3 DEF KeptBy
      <3>2. Cardinality(K2) = Cardinality(K) + 1 BY <1>3, <3>1, CountAdd
      <3> HIDE DEF K, K2
      <3> QED BY <1>4, <1>5, <2>3, <3>2
    <2>4. CASE kown[b] # t /\ k # t
      <3>1. K2 = K BY <1>2, <2>4 DEF KeptBy
      <3> QED BY <1>4, <1>5, <2>4, <3>1
    <2> QED BY <2>1, <2>2, <2>3, <2>4
  <1> QED BY <1>6, <1>7 DEF CountOK, own2, kown2, e

-----------------------------------------------------------------------------
(* The heap operations keep the memory sound.                               *)

\* A heap with another tail.
LEMMA HeapTail ==
    ASSUME NEW h \in HeapRec, NEW l \in Lists, NEW v \in Refs, NEW g, g = [h EXCEPT !.tail[l] = v]
    PROVE  HeapEnds(g, h, h.head, [h.tail EXCEPT ![l] = v])
  <1>1. h.tail \in [Lists -> Refs] BY DEF HeapRec
  <1> DEFINE w == [h.tail EXCEPT ![l] = v]
  <1>2. w \in [Lists -> Refs] BY <1>1
  <1>3. g = [h EXCEPT !.tail = w] BY DEF HeapRec
  <1> HIDE DEF w
  <1>4. g \in HeapRec BY <1>2, <1>3 DEF HeapRec
  <1>5. SameHeap(g, h) /\ g.head = h.head /\ g.tail = w BY <1>3 DEF HeapRec, SameHeap
  <1> QED BY <1>4, <1>5 DEF w, HeapEnds

\* A heap with another head.
LEMMA HeapHead ==
    ASSUME NEW h \in HeapRec, NEW l \in Lists, NEW v \in Refs, NEW g, g = [h EXCEPT !.head[l] = v]
    PROVE  HeapEnds(g, h, [h.head EXCEPT ![l] = v], h.tail)
  <1>1. h.head \in [Lists -> Refs] BY DEF HeapRec
  <1> DEFINE w == [h.head EXCEPT ![l] = v]
  <1>2. w \in [Lists -> Refs] BY <1>1
  <1>3. g = [h EXCEPT !.head = w] BY DEF HeapRec
  <1> HIDE DEF w
  <1>4. g \in HeapRec BY <1>2, <1>3 DEF HeapRec
  <1>5. SameHeap(g, h) /\ g.tail = h.tail /\ g.head = w BY <1>3 DEF HeapRec, SameHeap
  <1> QED BY <1>4, <1>5 DEF w, HeapEnds

\* A block on a list of its heap, as the shape has it.
LEMMA ShapeNode ==
    ASSUME NEW H, NEW B, NEW own, NEW kown, NEW RM, Shape(H, B, own, kown, RM),
           NEW t \in Threads, NEW l \in Lists, NEW b \in Blocks, own[b] = <<t, l>>
    PROVE  /\ H[t] # NoHeap /\ H[t] \in HeapRec /\ kown[b] = NULL
           /\ B[b] \in BlkRec /\ B[b] # NoBlk /\ B[b].next \in Refs /\ B[b].prev \in Refs
           /\ B[b].prev # b /\ B[b].next # b
           /\ B[b].prev = 0 <=> H[t].head[l] = b
           /\ B[b].next = 0 <=> H[t].tail[l] = b
  <1>1. PICK r, q : ShapeBy(H, B, own, kown, RM, r, q) BY DEF Shape
  <1>2. ShapeTypes(H, B, own, kown) /\ Placed(H, B, own, kown) BY ShapeTyped
  <1>3. <<t, l>> \in Ids /\ own[b] # NoList /\ <<t, l>>[1] = t BY NoListIsNone DEF Ids
  <1>4. H[t] # NoHeap /\ kown[b] = NULL BY <1>2, <1>3 DEF Placed
  <1>5. Node(H, B, own, r, t, l, b) BY <1>1, <1>4, LinksNode DEF ShapeBy
  <1>6. H[t] \in HeapRec BY <1>2, <1>4 DEF ShapeTypes, HeapsType
  <1> QED BY <1>4, <1>5, <1>6 DEF Node

\* The ends of a list, as the shape has them.
LEMMA ShapeEnds ==
    ASSUME NEW H, NEW B, NEW own, NEW kown, NEW RM, Shape(H, B, own, kown, RM),
           NEW t \in Threads, NEW l \in Lists, H[t] # NoHeap
    PROVE  Ends(H, own, t, l)
  <1>1. PICK r, q : ShapeBy(H, B, own, kown, RM, r, q) BY DEF Shape
  <1> QED BY <1>1, LinksEnds DEF ShapeBy

\* Differing in links at most is transitive.
LEMMA SameTrans ==
    ASSUME NEW x, NEW y, NEW z, Same(x, y), Same(y, z) PROVE Same(x, z)
  BY DEF Same

\* The last of two changes to one heap counts.
LEMMA HeapTwice ==
    ASSUME NEW H \in HeapsType, NEW t \in Threads, NEW g, NEW h
    PROVE  [[H EXCEPT ![t] = g] EXCEPT ![t] = h] = [H EXCEPT ![t] = h] /\ [H EXCEPT ![t] = g][t] = g
  BY DEF HeapsType

\* A list with a block on it has a first one and a last one.
LEMMA NotEmpty ==
    ASSUME NEW H, NEW B, NEW own, NEW kown, NEW RM, Shape(H, B, own, kown, RM),
           NEW t \in Threads, NEW l \in Lists, NEW b \in Blocks, own[b] = <<t, l>>
    PROVE  H[t].head[l] # 0 /\ H[t].tail[l] # 0
  <1>1. PICK r, q : ShapeBy(H, B, own, kown, RM, r, q) BY DEF Shape
  <1>2. Links(H, B, own, r) /\ H[t] # NoHeap BY <1>1, ShapeNode DEF ShapeBy
  <1>3. r \in [Blocks -> Nat] BY <1>2 DEF Links, DL, DLTypes
  <1> DEFINE T == {r[c] : c \in BlocksOn(own, <<t, l>>)}
  <1>4. T \subseteq Nat /\ T # {} BY <1>3 DEF BlocksOn
  <1>5. PICK x \in T : \A y \in T : x <= y
    <2> HIDE DEF T
    <2> QED BY <1>4, LeastNat
  <1>6. PICK c \in Blocks : own[c] = <<t, l>> /\ r[c] = x BY DEF BlocksOn
  <1>7. Node(H, B, own, r, t, l, c) BY <1>2, <1>6, LinksNode
  <1>8. B[c].prev = 0
    <2>1. SUFFICES ASSUME B[c].prev # 0 PROVE FALSE OBVIOUS
    <2>2. B[c].prev \in Blocks /\ own[B[c].prev] = <<t, l>> /\ Pv(B)[c] = B[c].prev BY <1>6, <1>7, <2>1 DEF Node
    <2>3. r[B[c].prev] < r[c] BY <1>7, <2>1, <2>2 DEF Node, DLNode
    <2>4. r[B[c].prev] \in T BY <2>2 DEF BlocksOn
    <2>5. x <= r[B[c].prev] BY <1>5, <2>4
    <2> QED BY <1>3, <1>6, <2>2, <2>3, <2>5
  <1>9. H[t].head[l] = c BY <1>7, <1>8 DEF Node
  <1>10. Ends(H, own, t, l) BY <1>2, LinksEnds
  <1> QED BY <1>9, <1>10, BlockRefs DEF Ends

\* A full block goes from its place to the tail.
LEMMA ShapeLast ==
    ASSUME NEW H, NEW B, NEW own, NEW kown, NEW RM, Shape(H, B, own, kown, RM),
           NEW t \in Threads, NEW l \in Lists, NEW b \in Blocks, own[b] = <<t, l>>, B[b].next # 0,
           NEW s, s = [h |-> H[t], B |-> B], NEW RM2, SameBut(RM, RM2, b), b \notin RM2,
           NEW p, p = PushTail(Unlink(s, l, b), l, b)
    PROVE  Moved(H, B, own, kown, RM2, t, p.h, p.B)
  <1> DEFINE s1 == Unlink(s, l, b)
             h1 == s1.h
             B1 == s1.B
             H1 == [H EXCEPT ![t] = h1]
             own1 == [own EXCEPT ![b] = NoList]
             e == h1.tail[l]
  <1>1. ShapeTypes(H, B, own, kown) BY ShapeTyped
  <1>2. /\ H[t] # NoHeap /\ H[t] \in HeapRec /\ kown[b] = NULL /\ B[b] # NoBlk
        /\ B[b].next \in Refs /\ B[b].next # b
    BY ShapeNode
  <1>3. Unlinked(H, B, own, kown, RM2, t, l, b, h1, B1) BY ShapeUnlink
  <1> HIDE DEF s1, h1, B1
  <1>4. /\ Shape(H1, B1, own1, kown, RM2) /\ h1 \in HeapRec /\ SameHeap(h1, H[t])
        /\ \A c \in Blocks : Same(B1[c], B[c])
        /\ h1.tail = [H[t].tail EXCEPT ![l] = IF B[b].next = 0 THEN B[b].prev ELSE @]
    BY <1>3 DEF Unlinked, OnlyLinks
  <1>5. e = H[t].tail[l] /\ e \in Refs /\ e # 0
    <2>1. H[t].tail \in [Lists -> Refs] BY <1>2 DEF HeapRec
    <2>2. H[t].tail[l] # 0 BY NotEmpty
    <2> QED BY <1>4, <2>1, <2>2
  <1>6. /\ H1[t] = h1 /\ own1[b] = NoList /\ [own1 EXCEPT ![b] = <<t, l>>] = own
        /\ \A g : [H1 EXCEPT ![t] = g] = [H EXCEPT ![t] = g]
    <2>1. [own1 EXCEPT ![b] = <<t, l>>] = own /\ own1[b] = NoList BY <1>1 DEF ShapeTypes
    <2>2. H1[t] = h1 BY <1>1 DEF ShapeTypes, HeapsType
    <2>3. ASSUME NEW g PROVE [H1 EXCEPT ![t] = g] = [H EXCEPT ![t] = g] BY <1>1 DEF ShapeTypes, HeapsType
    <2> QED BY <2>1, <2>2, <2>3
  <1>7. p.h = [h1 EXCEPT !.tail[l] = b] /\ p.B = LastB(B1, b, e) BY DEF PushTail, LastB, s1, h1, B1
  <1> DEFINE h2 == p.h
             B2 == p.B
  <1>8. h2 \in HeapRec /\ SameHeap(h2, h1) /\ h2.head = h1.head /\ h2.tail = [h1.tail EXCEPT ![l] = b]
    <2>1. b \in Refs BY BlockRefs
    <2>2. h2 = [h1 EXCEPT !.tail[l] = b] BY <1>7
    <2> HIDE DEF h2
    <2>3. h1 \in HeapRec BY <1>4
    <2>4. HeapEnds(h2, h1, h1.head, [h1.tail EXCEPT ![l] = b]) BY <2>1, <2>2, <2>3, HeapTail
    <2> QED BY <2>4 DEF HeapEnds
  <1>9. h1 # NoHeap /\ B1[b] # NoBlk BY <1>2, <1>4, NoHeapApart DEF Same
  <1>10. B2 = LastB(B1, b, e) BY <1>7
  <1> HIDE DEF h2, B2, H1, own1
  <1>11. /\ Shape([H1 EXCEPT ![t] = h2], B2, [own1 EXCEPT ![b] = <<t, l>>], kown, RM2)
         /\ \A c \in Blocks : Same(B2[c], B1[c])
    <2>1. H1[t] # NoHeap /\ H1[t].tail[l] # 0 BY <1>5, <1>6, <1>9
    <2>2. h2.head = H1[t].head /\ h2.blkfree = H1[t].blkfree /\ h2.tail = [H1[t].tail EXCEPT ![l] = b]
      BY <1>6, <1>8 DEF SameHeap
    <2>3. B2 = LastB(B1, b, H1[t].tail[l]) BY <1>6, <1>10
    <2>4. SameBut(RM2, RM2, b) BY DEF SameBut
    <2>5. Shape(H1, B1, own1, kown, RM2) /\ own1[b] = NoList /\ kown[b] = NULL /\ B1[b] # NoBlk /\ h2 \in HeapRec
      BY <1>2, <1>4, <1>6, <1>8, <1>9
    <2>6. PutIn(H1, B1, own1, kown, RM2, t, l, b, h2, B2) BY <2>1, <2>2, <2>3, <2>4, <2>5, ShapePutLast
    <2> QED BY <2>6 DEF PutIn
  <1>12. Shape([H EXCEPT ![t] = h2], B2, own, kown, RM2) BY <1>6, <1>11
  <1>13. \A c \in Blocks : Same(B2[c], B[c]) BY <1>4, <1>11, SameTrans
  <1>14. SameHeap(h2, H[t]) BY <1>4, <1>8 DEF SameHeap
  <1>15. Moved(H, B, own, kown, RM2, t, h2, B2) BY <1>8, <1>12, <1>13, <1>14 DEF Moved
  <1> QED BY <1>15 DEF h2, B2

\* A block with room goes from its place to the head.
LEMMA ShapeFirst ==
    ASSUME NEW H, NEW B, NEW own, NEW kown, NEW RM, Shape(H, B, own, kown, RM),
           NEW t \in Threads, NEW l \in Lists, NEW b \in Blocks, own[b] = <<t, l>>, B[b].prev # 0,
           NEW s, s = [h |-> H[t], B |-> B], NEW RM2, SameBut(RM, RM2, b), b \in RM2,
           NEW p, p = PushHead(Unlink(s, l, b), l, b)
    PROVE  Moved(H, B, own, kown, RM2, t, p.h, p.B)
  <1> DEFINE s1 == Unlink(s, l, b)
             h1 == s1.h
             B1 == s1.B
             H1 == [H EXCEPT ![t] = h1]
             own1 == [own EXCEPT ![b] = NoList]
             e == h1.head[l]
  <1>1. ShapeTypes(H, B, own, kown) BY ShapeTyped
  <1>2. /\ H[t] # NoHeap /\ H[t] \in HeapRec /\ kown[b] = NULL /\ B[b] # NoBlk
        /\ B[b].next \in Refs /\ B[b].next # b
    BY ShapeNode
  <1>3. Unlinked(H, B, own, kown, RM2, t, l, b, h1, B1) BY ShapeUnlink
  <1> HIDE DEF s1, h1, B1
  <1>4. /\ Shape(H1, B1, own1, kown, RM2) /\ h1 \in HeapRec /\ SameHeap(h1, H[t])
        /\ \A c \in Blocks : Same(B1[c], B[c])
        /\ h1.tail = [H[t].tail EXCEPT ![l] = IF B[b].next = 0 THEN B[b].prev ELSE @]
    BY <1>3 DEF Unlinked, OnlyLinks
  <1>5. h1.tail[l] # 0 /\ h1.tail \in [Lists -> Refs]
    <2>1. H[t].tail \in [Lists -> Refs] BY <1>2 DEF HeapRec
    <2>2. H[t].tail[l] # 0 BY NotEmpty
    <2>3. h1.tail \in [Lists -> Refs] BY <1>4 DEF HeapRec
    <2> QED BY <1>4, <2>1, <2>2, <2>3
  <1>6. /\ H1[t] = h1 /\ own1[b] = NoList /\ [own1 EXCEPT ![b] = <<t, l>>] = own
        /\ \A g : [H1 EXCEPT ![t] = g] = [H EXCEPT ![t] = g]
    <2>1. [own1 EXCEPT ![b] = <<t, l>>] = own /\ own1[b] = NoList BY <1>1 DEF ShapeTypes
    <2>2. H1[t] = h1 BY <1>1 DEF ShapeTypes, HeapsType
    <2>3. ASSUME NEW g PROVE [H1 EXCEPT ![t] = g] = [H EXCEPT ![t] = g] BY <1>1 DEF ShapeTypes, HeapsType
    <2> QED BY <2>1, <2>2, <2>3
  <1>7. p.h = [h1 EXCEPT !.head[l] = b] /\ p.B = FirstB(B1, b, e) BY DEF PushHead, FirstB, s1, h1, B1
  <1> DEFINE h2 == p.h
             B2 == p.B
  <1>8. h2 \in HeapRec /\ SameHeap(h2, h1) /\ h2.tail = h1.tail /\ h2.head = [h1.head EXCEPT ![l] = b]
    <2>1. b \in Refs BY BlockRefs
    <2>2. h2 = [h1 EXCEPT !.head[l] = b] BY <1>7
    <2> HIDE DEF h2
    <2>3. h1 \in HeapRec BY <1>4
    <2>4. HeapEnds(h2, h1, [h1.head EXCEPT ![l] = b], h1.tail) BY <2>1, <2>2, <2>3, HeapHead
    <2> QED BY <2>4 DEF HeapEnds
  <1>9. h1 # NoHeap /\ B1[b] # NoBlk BY <1>2, <1>4, NoHeapApart DEF Same
  <1>10. B2 = FirstB(B1, b, e) BY <1>7
  <1> HIDE DEF h2, B2, H1, own1
  <1>11. /\ Shape([H1 EXCEPT ![t] = h2], B2, [own1 EXCEPT ![b] = <<t, l>>], kown, RM2)
         /\ \A c \in Blocks : Same(B2[c], B1[c])
    <2>1. H1[t] # NoHeap BY <1>6, <1>9
    <2>2. h2.head = [H1[t].head EXCEPT ![l] = b] /\ h2.blkfree = H1[t].blkfree
          /\ h2.tail = [H1[t].tail EXCEPT ![l] = IF H1[t].tail[l] = 0 THEN b ELSE H1[t].tail[l]]
      BY <1>5, <1>6, <1>8 DEF SameHeap
    <2>3. B2 = FirstB(B1, b, H1[t].head[l]) BY <1>6, <1>10
    <2>4. SameBut(RM2, RM2, b) BY DEF SameBut
    <2>5. Shape(H1, B1, own1, kown, RM2) /\ own1[b] = NoList /\ kown[b] = NULL /\ B1[b] # NoBlk /\ h2 \in HeapRec
      BY <1>2, <1>4, <1>6, <1>8, <1>9
    <2>6. PutIn(H1, B1, own1, kown, RM2, t, l, b, h2, B2) BY <2>1, <2>2, <2>3, <2>4, <2>5, ShapePutFirst
    <2> QED BY <2>6 DEF PutIn
  <1>12. Shape([H EXCEPT ![t] = h2], B2, own, kown, RM2) BY <1>6, <1>11
  <1>13. \A c \in Blocks : Same(B2[c], B[c]) BY <1>4, <1>11, SameTrans
  <1>14. SameHeap(h2, H[t]) BY <1>4, <1>8 DEF SameHeap
  <1>15. Moved(H, B, own, kown, RM2, t, h2, B2) BY <1>8, <1>12, <1>13, <1>14 DEF Moved
  <1> QED BY <1>15 DEF h2, B2

\* A first block that is full goes to the tail.
LEMMA ShapeToTail ==
    ASSUME NEW H, NEW B, NEW own, NEW kown, NEW RM, Shape(H, B, own, kown, RM),
           NEW t \in Threads, NEW l \in Lists, NEW b \in Blocks, own[b] = <<t, l>>, H[t].head[l] = b,
           NEW s, s = [h |-> H[t], B |-> B], NEW RM2, SameBut(RM, RM2, b),
           b \in RM2 <=> B[b].restcnt + Len(B[b].free) > 0,
           NEW p, p = ToTail(s, l, b)
    PROVE  Moved(H, B, own, kown, RM2, t, p.h, p.B)
  <1>1. ShapeTypes(H, B, own, kown) BY ShapeTyped
  <1>2. H[t] # NoHeap /\ H[t] \in HeapRec /\ B[b] \in BlkRec /\ B[b].prev = 0 BY ShapeNode
  <1>3. B[b].restcnt \in Nat /\ B[b].free \in Seq(Nat) BY <1>2 DEF BlkRec
  <1>4. (B[b].restcnt = 0 /\ B[b].free = <<>>) <=> b \notin RM2
    <2>1. Len(B[b].free) \in Nat /\ (B[b].free = <<>> <=> Len(B[b].free) = 0) BY <1>3
    <2> QED BY <1>3, <2>1
  <1>5. s.h = H[t] /\ s.B = B OBVIOUS
  <1>6. CASE B[b].restcnt = 0 /\ B[b].free = <<>> /\ B[b].next # 0
    <2>1. p = PushTail(Unlink(s, l, b), l, b) BY <1>5, <1>6 DEF ToTail
    <2>2. b \notin RM2 BY <1>4, <1>6
    <2> QED BY <1>6, <2>1, <2>2, ShapeLast
  <1>7. CASE ~(B[b].restcnt = 0 /\ B[b].free = <<>> /\ B[b].next # 0)
    <2>1. p = s BY <1>5, <1>7 DEF ToTail
    <2>2. p.h = H[t] /\ p.B = B BY <1>5, <2>1
    <2>3. b \in RM2 \/ B[b].next = 0 BY <1>4, <1>7
    <2>4. Shape(H, B, own, kown, RM2) BY <1>2, <2>3, ShapeRoom
    <2>5. [H EXCEPT ![t] = H[t]] = H BY <1>1 DEF ShapeTypes, HeapsType
    <2>6. SameHeap(H[t], H[t]) /\ \A c \in Blocks : Same(B[c], B[c]) BY DEF SameHeap, Same
    <2> QED BY <1>2, <2>2, <2>4, <2>5, <2>6 DEF Moved
  <1> QED BY <1>6, <1>7

\* nc_malloc_small from the first block of its bin.
LEMMA MemTake ==
    ASSUME NEW H, NEW B, NEW own, NEW kown, NEW held, Mem(H, B, own, kown, held),
           NEW t \in Threads, H[t] # NoHeap, TidOK(B, own, kown, t), BinsAgree, NEW size \in SmallRequests,
           NEW l, l = BinNdx(size), NEW b, b = H[t].head[l], b # 0, B[b].restcnt + Len(B[b].free) > 0,
           NEW s, s = [h |-> H[t], B |-> TakeChunk(B, b, BinSize(size))],
           NEW p, p = ToTail(s, l, b)
    PROVE  Alloc(H, B, own, kown, held, t, size, b, NextChunk(B, b), p.h, p.B)
  <1> DEFINE x == B[b]
             n == BinSize(size)
             y == Taken(x, n)
             B1 == [B EXCEPT ![b] = y]
             off == TakenOff(x)
             hs == held[b] \cup {off}
  <1>1. l \in Lists /\ l # BigList /\ size \in Nat /\ n \in Nat /\ n >= size + Hdr BY ServedBy
  <1>2. Shape(H, B, own, kown, Rm(B)) BY DEF Mem
  <1>3. ShapeTypes(H, B, own, kown) /\ H \in HeapsType /\ B \in BlksType BY <1>2, ShapeTyped DEF ShapeTypes
  <1>4. b \in Blocks /\ own[b] = <<t, l>>
    <2>1. Ends(H, own, t, l) BY <1>1, <1>2, ShapeEnds
    <2> QED BY <2>1 DEF Ends
  <1>5. x \in BlkRec /\ x # NoBlk /\ H[t] \in HeapRec /\ kown[b] = NULL BY <1>1, <1>2, <1>4, ShapeNode
  <1>6. own[b] # NoList /\ own[b][1] = t /\ own[b][2] = l /\ <<t, l>> \in Ids BY <1>1, <1>4, NoListIsNone DEF Ids
  <1>7. BlockOK(x, own[b], kown[b], held[b]) /\ KindOK(x) /\ held \in [Blocks -> SUBSET Nat] BY <1>4 DEF Mem
  <1>8. x.binndx = l /\ SmallOK(x, held[b]) BY <1>1, <1>5, <1>6, <1>7 DEF BlockOK
  <1>9. x.size = n BY <1>8 DEF SmallOK
  <1>10. TakenFrom(x, y)
    <2>1. y = Taken(x, x.size) BY <1>9
    <2> HIDE DEF y, x
    <2>2. x.restcnt + Len(x.free) > 0 BY DEF x
    <2> QED BY <1>5, <2>1, <2>2, TakenIs
  <1>11. TakeChunk(B, b, n) = B1 /\ NextChunk(B, b) = off
    BY <1>3, <1>4, <1>5, TakeIs
  <1>12. TookChunk(x, y, off, held[b])
    <2>1. held[b] \in SUBSET Nat BY <1>4, <1>7
    <2> HIDE DEF y, x
    <2>2. x.restcnt + Len(x.free) > 0 BY DEF x
    <2> QED BY <1>5, <1>8, <1>10, <2>1, <2>2, TakeOK
  <1>13. /\ y \in BlkRec /\ SameBlk(y, x) /\ y.next = x.next /\ y.prev = x.prev BY <1>10 DEF TakenFrom
  <1> HIDE DEF y
  <1>14. B1 \in BlksType /\ B1[b] = y /\ y # NoBlk /\ \A c \in Blocks : c # b => B1[c] = B[c]
    BY <1>3, <1>4, <1>13, NoBlkApart DEF BlksType
  <1> HIDE DEF B1
  <1>15. Shape(H, B1, own, kown, Rm(B))
    <2>1. \A c \in Blocks : own[c] # NoList \/ kown[c] # NULL => B[c] # NoBlk
      BY <1>2, ShapeTyped DEF Shape, ShapeBy, Links, Placed
    <2>2. \A c \in Blocks : own[c] # NoList =>
              B1[c] # NoBlk /\ B1[c].next = B[c].next /\ B1[c].prev = B[c].prev
      BY <1>13, <1>14, <2>1
    <2>3. \A c \in Blocks : kown[c] # NULL => B1[c] # NoBlk /\ B1[c].next = B[c].next
      BY <1>13, <1>14, <2>1
    <2> QED BY <1>2, <1>3, <1>14, <2>2, <2>3, ShapeFrame
  <1>16. \A c \in Blocks : c # b => Same(B1[c], B[c]) BY <1>14 DEF Same
  <1>17. SameBut(Rm(B), Rm(B1), b) BY <1>16, RmSame
  <1>18. b \in Rm(B1) <=> B1[b].restcnt + Len(B1[b].free) > 0 BY <1>4, <1>14 DEF Rm
  <1>19. Moved(H, B1, own, kown, Rm(B1), t, p.h, p.B)
    <2>1. s = [h |-> H[t], B |-> B1] BY <1>11
    <2>2. H[t].head[l] = b OBVIOUS
    <2> QED BY <1>1, <1>4, <1>15, <1>17, <1>18, <2>1, <2>2, ShapeToTail
  <1> DEFINE h2 == p.h
             B2 == p.B
  <1>20. Moved(H, B1, own, kown, Rm(B1), t, h2, B2) BY <1>19
  <1> HIDE DEF h2, B2
  <1>21. /\ Shape([H EXCEPT ![t] = h2], B2, own, kown, Rm(B1)) /\ h2 \in HeapRec /\ SameHeap(h2, H[t])
         /\ \A c \in Blocks : Same(B2[c], B1[c])
    BY <1>20 DEF Moved
  <1>22. Rm(B2) = Rm(B1)
    <2>1. ASSUME NEW c \in Blocks PROVE c \in Rm(B2) <=> c \in Rm(B1)
      <3>1. Same(B2[c], B1[c]) BY <1>21
      <3> QED BY <3>1 DEF Rm, Same
    <2>2. Rm(B2) \subseteq Blocks /\ Rm(B1) \subseteq Blocks BY DEF Rm
    <2> QED BY <2>1, <2>2
  <1>23. Others(B, own, kown, B2, own, kown, b) BY <1>16, <1>21, SameTrans DEF Others
  <1>24. Same(B2[b], y) BY <1>4, <1>14, <1>21
  <1>25. BlockOK(B2[b], own[b], kown[b], hs) /\ KindOK(B2[b])
    <2>1. SmallOK(y, hs) BY <1>12 DEF TookChunk
    <2>2. y.binndx = l BY <1>8, <1>13 DEF SameBlk
    <2>3. y.restcnt <= y.cnt
      <3>1. y.restcnt \in Nat /\ y.cnt \in Nat BY <1>13 DEF BlkRec
      <3>2. y.restcnt < y.cnt BY <2>1 DEF SmallOK
      <3> QED BY <3>1, <3>2
    <2> HIDE DEF hs, x
    <2>4. BlockOK(y, own[b], kown[b], hs) BY <1>1, <1>5, <1>6, <1>14, <2>1, <2>2, <2>3 DEF BlockOK
    <2>5. KindOK(y)
      <3>1. y.small = x.small /\ y.binndx = x.binndx BY <1>13 DEF SameBlk
      <3> QED BY <1>5, <1>7, <3>1, Zenon DEF KindOK
    <2> QED BY <1>24, <2>4, <2>5, SameOK
  <1>26. CountOK(h2, own, kown, t) /\ CountsDown(h2, H[t])
    <2>1. CountOK(H[t], own, kown, t) BY DEF Mem
    <2>2. h2.blkfreecnt = H[t].blkfreecnt /\ h2.biglrucnt = H[t].biglrucnt /\ h2.lock = H[t].lock BY <1>21 DEF SameHeap
    <2>3. H[t].blkfreecnt \in Nat /\ H[t].biglrucnt \in Nat BY <1>5 DEF HeapRec
    <2> QED BY <1>21, <2>1, <2>2, <2>3 DEF CountOK, CountsDown
  <1>27. hs \in SUBSET Nat /\ off \in Nat /\ off >= BlkHdr /\ off \notin held[b] BY <1>4, <1>7, <1>12 DEF TookChunk
  <1>28. PlaceOf(own[b], kown[b], t) BY <1>5, <1>6 DEF PlaceOf
  <1> HIDE DEF hs, off
  <1>29. Mem([H EXCEPT ![t] = h2], B2, own, kown, [held EXCEPT ![b] = hs])
    BY <1>4, <1>21, <1>22, <1>23, <1>25, <1>26, <1>27, <1>28, MemStep
  <1>30. AllocPlace(H, B, own, kown, held, t, b, off, h2, B2) BY <1>23, <1>28, <1>29 DEF AllocPlace, hs
  <1>31. AllocBlk(x, B2[b], held[b], size, off)
    <2>1. B2[b] \in BlkRec
      <3>1. B2 \in BlksType BY <1>21, ShapeTyped DEF ShapeTypes
      <3>2. B2[b] # NoBlk BY <1>14, <1>24 DEF Same
      <3> QED BY <1>4, <3>1, <3>2 DEF BlksType
    <2>2. B2[b].shift = y.shift /\ B2[b].size = n /\ B2[b].binndx = l BY <1>8, <1>9, <1>13, <1>24 DEF Same, SameBlk
    <2>3. y.shift \subseteq x.shift BY <1>12 DEF TookChunk
    <2>4. size + Hdr <= n BY <1>1 DEF Hdr
    <2>5. B2[b].tid = x.tid BY <1>13, <1>24 DEF Same, SameBlk
    <2> QED BY <1>1, <1>5, <1>8, <1>9, <2>1, <2>2, <2>3, <2>4, <2>5 DEF AllocBlk
  <1>32. B2[b].tid = tid[t]
    <2>1. x.tid = tid[t] BY <1>4, <1>6 DEF TidOK
    <2>2. B2[b].tid = x.tid BY <1>13, <1>24 DEF Same, SameBlk
    <2> QED BY <2>1, <2>2
  <1>33. Alloc(H, B, own, kown, held, t, size, b, off, h2, B2)
    BY <1>4, <1>26, <1>27, <1>30, <1>31, <1>32 DEF Alloc
  <1> QED BY <1>11, <1>33 DEF h2, B2

\* The block that a bin gets: the first kept one, or one that is not mapped.
LEMMA PopHeap ==
    ASSUME NEW H, NEW B, NEW own, NEW kown, NEW held, Mem(H, B, own, kown, held),
           NEW t \in Threads, H[t] # NoHeap, NEW a, H[t].blkfree = 0 => a \in Blocks /\ B[a] = NoBlk,
           NEW b, b = IF H[t].blkfree # 0 THEN H[t].blkfree ELSE a,
           NEW h1, h1 = PoppedHeap(H[t], B)
    PROVE  Popped(H, B, own, kown, t, b, h1)
  <1>1. Shape(H, B, own, kown, Rm(B)) BY DEF Mem
  <1>2. ShapeTypes(H, B, own, kown) BY <1>1, ShapeTyped
  <1>3. H[t] \in HeapRec BY <1>2 DEF ShapeTypes, HeapsType
  <1>4. H[t].blkfreecnt \in Nat /\ H[t].biglrucnt \in Nat BY <1>3 DEF HeapRec
  <1>5. t # NULL BY HeapAssumption
  <1>6. CASE H[t].blkfree # 0
    <2>1. b = H[t].blkfree BY <1>6
    <2>2. b \in Blocks /\ kown[b] = t /\ own[b] = NoList /\ B[b] # NoBlk
      <3>1. PICK r, q : ShapeBy(H, B, own, kown, Rm(B), r, q) BY <1>1 DEF Shape
      <3>2. b \in Blocks
        <4>1. b \in Refs BY <1>3, <2>1 DEF HeapRec
        <4> QED BY <1>6, <2>1, <4>1, BlockRefs
      <3>3. Kp(H)[t] = b BY <2>1 DEF Kp
      <3>4. kown[b] = t BY <1>6, <2>1, <3>1, <3>3 DEF ShapeBy, SL
      <3> QED BY <1>5, <3>1, <3>2, <3>4 DEF ShapeBy, Placed
    <2>3. B[b].next \in Refs /\ B[b] \in BlkRec BY <1>2, <2>2 DEF ShapeTypes, BlksType, BlkRec
    <2>4. H[t].blkfreecnt - 1 \in Nat
      <3>1. CountOK(H[t], own, kown, t) BY DEF Mem
      <3>2. b \in KeptBy(kown, t) BY <2>2 DEF KeptBy
      <3>3. KeptBy(kown, t) \subseteq Blocks BY DEF KeptBy
      <3>4. IsFiniteSet(KeptBy(kown, t)) BY <3>3, BlocksFinite
      <3>5. Cardinality(KeptBy(kown, t)) # 0 BY <3>2, <3>4, FS_EmptySet
      <3>6. H[t].blkfreecnt # 0 BY <3>1, <3>5 DEF CountOK
      <3> QED BY <1>4, <3>6
    <2> DEFINE v == B[b].next
               w == H[t].blkfreecnt - 1
    <2>5. v \in Refs /\ w \in Nat BY <2>3, <2>4
    <2>6. h1 = [H[t] EXCEPT !.blkfree = v, !.blkfreecnt = w] BY <1>6, <2>1 DEF PoppedHeap
    <2>7. w <= H[t].blkfreecnt BY <1>4
    <2> HIDE DEF v, w
    <2>8. h1 \in HeapRec BY <1>3, <2>5, <2>6 DEF HeapRec
    <2>9. /\ h1.head = H[t].head /\ h1.tail = H[t].tail /\ h1.lock = H[t].lock /\ h1.biglrucnt = H[t].biglrucnt
          /\ h1.blkfree = v /\ h1.blkfreecnt = w
      BY <1>3, <2>6 DEF HeapRec
    <2>10. Shape([H EXCEPT ![t] = h1], B, own, [kown EXCEPT ![b] = NULL], Rm(B))
      <3>1. h1.blkfree = B[b].next /\ b # 0 BY <1>6, <2>1, <2>9 DEF v
      <3> QED BY <1>1, <2>1, <2>8, <2>9, <3>1, ShapePop
    <2>11. h1.blkfreecnt = H[t].blkfreecnt - (IF kown[b] = t THEN 1 ELSE 0) BY <2>2, <2>9 DEF w
    <2> QED BY <2>2, <2>7, <2>8, <2>9, <2>10, <2>11 DEF Popped
  <1>7. CASE H[t].blkfree = 0
    <2>1. b = a /\ b \in Blocks /\ B[b] = NoBlk /\ h1 = H[t] BY <1>7 DEF PoppedHeap
    <2>2. own[b] = NoList /\ kown[b] = NULL
      <3>1. BlockOK(B[b], own[b], kown[b], held[b]) BY <2>1 DEF Mem
      <3> QED BY <2>1, <3>1 DEF BlockOK
    <2>3. [H EXCEPT ![t] = h1] = H /\ [kown EXCEPT ![b] = NULL] = kown
      BY <1>2, <2>1, <2>2 DEF ShapeTypes, HeapsType
    <2>4. h1.blkfreecnt = H[t].blkfreecnt - (IF kown[b] = t THEN 1 ELSE 0) /\ h1.blkfreecnt <= H[t].blkfreecnt
      BY <1>4, <1>5, <2>1, <2>2
    <2> QED BY <1>1, <1>3, <2>1, <2>2, <2>3, <2>4 DEF Popped
  <1> QED BY <1>6, <1>7

\* A block kept for later use, or a new one, is put before its bin.
LEMMA MemNew ==
    ASSUME NEW H, NEW B, NEW own, NEW kown, NEW held, Mem(H, B, own, kown, held),
           NEW t \in Threads, H[t] # NoHeap, tid[t] \in 0 .. MaxThreads - 1, BinsAgree, NEW size \in SmallRequests,
           H[t].blkfree = 0 => AnyUnmapped \in Blocks /\ B[AnyUnmapped] = NoBlk,
           NEW l, l = BinNdx(size), NEW s, s = [h |-> H[t], B |-> B],
           NEW p, p = NewBlock(t, s, l, BinSize(size))
    PROVE  Alloc(H, B, own, kown, held, t, size, p.b, p.off, p.h, p.B)
  <1> DEFINE n == BinSize(size)
             b == IF H[t].blkfree # 0 THEN H[t].blkfree ELSE AnyUnmapped
             h1 == PoppedHeap(H[t], B)
             H1 == [H EXCEPT ![t] = h1]
             kown1 == [kown EXCEPT ![b] = NULL]
             x == InitBlk(t, n, l)
             y == Taken(x, n)
             B1 == [B EXCEPT ![b] = y]
             own2 == [own EXCEPT ![b] = <<t, l>>]
             h2 == p.h
             B2 == p.B
  <1>1. l \in Lists /\ l # BigList /\ size \in Nat /\ n \in Nat /\ n >= size + Hdr BY ServedBy
  <1>2. Shape(H, B, own, kown, Rm(B)) BY DEF Mem
  <1>3. ShapeTypes(H, B, own, kown) /\ H \in HeapsType /\ B \in BlksType BY <1>2, ShapeTyped DEF ShapeTypes
  <1>4. Popped(H, B, own, kown, t, b, h1)
    <2> HIDE DEF h1
    <2>1. h1 = PoppedHeap(H[t], B) BY DEF h1
    <2> QED BY <2>1, PopHeap
  <1>5. x \in BlkRec /\ NewSmall(y, t, size) BY InitOK
  <1>6. TakeChunk([B EXCEPT ![b] = x], b, n) = B1
    <2> DEFINE B0 == [B EXCEPT ![b] = x]
    <2>1. b \in Blocks BY <1>4 DEF Popped
    <2> HIDE DEF b, x
    <2>2. B0 \in BlksType /\ B0[b] = x BY <1>3, <1>5, <2>1 DEF BlksType
    <2>3. [B0 EXCEPT ![b] = y] = B1 BY <1>3 DEF BlksType
    <2> HIDE DEF B0
    <2>4. TakeChunk(B0, b, n) = [B0 EXCEPT ![b] = Taken(B0[b], n)] BY <1>5, <2>1, <2>2, TakeIs
    <2>5. Taken(B0[b], n) = y BY <2>2
    <2>6. TakeChunk(B0, b, n) = B1 BY <2>3, <2>4, <2>5
    <2> QED BY <2>6 DEF B0
  <1>7. /\ p.b = b /\ p.off = BlkHdr /\ B2 = FirstB(B1, b, h1.head[l])
        /\ h2 = [[h1 EXCEPT !.head[l] = b] EXCEPT !.tail[l] = IF @ = 0 THEN b ELSE @]
    <2> DEFINE C == TakeChunk([B EXCEPT ![b] = x], b, n)
    <2>1. NewBlock(t, s, l, n) =
              [b |-> b, off |-> BlkHdr,
               h |-> [[h1 EXCEPT !.head[l] = b] EXCEPT !.tail[l] = IF @ = 0 THEN b ELSE @],
               B |-> FirstB(C, b, h1.head[l])]
      BY ZenonT(60) DEF NewBlock, PushHead, FirstB, PoppedHeap
    <2>2. C = B1 BY <1>6
    <2> HIDE DEF B1, C, n, h1, b
    <2> QED BY <2>1, <2>2 DEF n
  <1> HIDE DEF b, h1, y, x, h2, B2, n
  <1>8. /\ b \in Blocks /\ own[b] = NoList /\ kown[b] \in {NULL, t} /\ h1 \in HeapRec /\ Shape(H1, B, own, kown1, Rm(B))
        /\ h1.head = H[t].head /\ h1.tail = H[t].tail
    BY <1>4 DEF Popped
  <1>9. /\ y \in BlkRec /\ SmallOK(y, {BlkHdr}) /\ y.restcnt + Len(y.free) > 0 /\ y.shift = {}
        /\ y.tid = tid[t] /\ y.binndx = l /\ y.size = n
    BY <1>5 DEF NewSmall, n
  <1>10. B1 \in BlksType /\ B1[b] = y /\ y # NoBlk /\ \A c \in Blocks : c # b => B1[c] = B[c]
    BY <1>3, <1>8, <1>9, NoBlkApart DEF BlksType
  <1>11. H1 \in HeapsType /\ H1[t] = h1 /\ h1 # NoHeap BY <1>3, <1>8, NoHeapApart DEF HeapsType
  <1>12. kown1 \in [Blocks -> Threads \cup {NULL}] /\ kown1[b] = NULL /\ \A c \in Blocks : c # b => kown1[c] = kown[c]
    BY <1>3, <1>8 DEF ShapeTypes
  <1> HIDE DEF B1, H1, kown1
  <1>13. Shape(H1, B1, own, kown1, Rm(B))
    <2>1. ShapeTypes(H1, B, own, kown1) /\ Placed(H1, B, own, kown1) BY <1>8, ShapeTyped
    <2>2. \A c \in Blocks : own[c] # NoList \/ kown1[c] # NULL => B[c] # NoBlk
      BY <1>8, <2>1 DEF Shape, ShapeBy, Links, Placed
    <2>3. \A c \in Blocks : own[c] # NoList =>
              B1[c] # NoBlk /\ B1[c].next = B[c].next /\ B1[c].prev = B[c].prev
      BY <1>8, <1>10, <2>2
    <2>4. \A c \in Blocks : kown1[c] # NULL => B1[c] # NoBlk /\ B1[c].next = B[c].next
      BY <1>10, <1>12, <2>2
    <2> QED BY <1>8, <1>10, <1>11, <2>3, <2>4, ShapeFrame
  <1>14. HeapEnds(h2, h1, [h1.head EXCEPT ![l] = b], [h1.tail EXCEPT ![l] = IF h1.tail[l] = 0 THEN b ELSE h1.tail[l]])
    <2> DEFINE g == [h1 EXCEPT !.head[l] = b]
               v == IF g.tail[l] = 0 THEN b ELSE g.tail[l]
    <2>1. b \in Refs BY <1>8, BlockRefs
    <2>2. HeapEnds(g, h1, [h1.head EXCEPT ![l] = b], h1.tail)
      <3> HIDE DEF g
      <3>1. g = [h1 EXCEPT !.head[l] = b] BY DEF g
      <3> QED BY <1>1, <1>8, <2>1, <3>1, HeapHead
    <2> HIDE DEF g
    <2>3. g \in HeapRec /\ g.tail = h1.tail /\ g.head = [h1.head EXCEPT ![l] = b] /\ SameHeap(g, h1) BY <2>2 DEF HeapEnds
    <2>4. h1.tail \in [Lists -> Refs] BY <1>8 DEF HeapRec
    <2>5. v \in Refs BY <1>1, <2>1, <2>3, <2>4
    <2>6. h2 = [g EXCEPT !.tail[l] = v] BY <1>7, <2>3 DEF g
    <2>7. v = IF h1.tail[l] = 0 THEN b ELSE h1.tail[l] BY <2>3
    <2> HIDE DEF v
    <2>8. HeapEnds(h2, g, g.head, [g.tail EXCEPT ![l] = v]) BY <1>1, <2>3, <2>5, <2>6, HeapTail
    <2> QED BY <2>3, <2>7, <2>8 DEF HeapEnds, SameHeap
  <1>15. \A c \in Blocks : c # b => Same(B1[c], B[c]) BY <1>10 DEF Same
  <1>16. SameBut(Rm(B), Rm(B1), b) /\ b \in Rm(B1)
    <2>1. SameBut(Rm(B), Rm(B1), b) BY <1>15, RmSame
    <2> QED BY <1>8, <1>9, <1>10, <2>1 DEF Rm
  <1>17. PutIn(H1, B1, own, kown1, Rm(B1), t, l, b, h2, B2)
    <2>1. h2 \in HeapRec /\ h2.head = [H1[t].head EXCEPT ![l] = b] /\ h2.blkfree = H1[t].blkfree
          /\ h2.tail = [H1[t].tail EXCEPT ![l] = IF H1[t].tail[l] = 0 THEN b ELSE H1[t].tail[l]]
      BY <1>11, <1>14 DEF HeapEnds, SameHeap
    <2>2. B2 = FirstB(B1, b, H1[t].head[l]) /\ H1[t] # NoHeap /\ B1[b] # NoBlk /\ kown1[b] = NULL BY <1>7, <1>10, <1>11, <1>12
    <2> QED BY <1>1, <1>8, <1>13, <1>16, <2>1, <2>2, ShapePutFirst
  <1>18. Shape([H EXCEPT ![t] = h2], B2, own2, kown1, Rm(B1)) /\ \A c \in Blocks : Same(B2[c], B1[c])
    <2>1. [H1 EXCEPT ![t] = h2] = [H EXCEPT ![t] = h2] BY <1>3 DEF HeapsType, H1
    <2> QED BY <1>17, <2>1 DEF PutIn
  <1>19. Rm(B2) = Rm(B1)
    <2>1. ASSUME NEW c \in Blocks PROVE c \in Rm(B2) <=> c \in Rm(B1)
      <3>1. Same(B2[c], B1[c]) BY <1>18
      <3> QED BY <3>1 DEF Rm, Same
    <2>2. Rm(B2) \subseteq Blocks /\ Rm(B1) \subseteq Blocks BY DEF Rm
    <2> QED BY <2>1, <2>2
  <1>20. own2[b] = <<t, l>> /\ \A c \in Blocks : c # b => own2[c] = own[c] BY <1>3, <1>8 DEF ShapeTypes
  <1>21. CountOK(h2, own2, kown1, t) /\ CountsDown(h2, H[t])
    <2>1. CountOK(H[t], own, kown, t) BY DEF Mem
    <2>2. h2.blkfreecnt = h1.blkfreecnt /\ h2.biglrucnt = h1.biglrucnt /\ h2.lock = h1.lock /\ h2 \in HeapRec
      BY <1>14 DEF HeapEnds, SameHeap
    <2>3. H[t].blkfreecnt \in Nat /\ H[t].biglrucnt \in Nat BY <1>3 DEF HeapsType, HeapRec
    <2>4. /\ h1.blkfreecnt = H[t].blkfreecnt - (IF kown[b] = t THEN 1 ELSE 0) /\ h1.blkfreecnt <= H[t].blkfreecnt
          /\ h1.biglrucnt = H[t].biglrucnt /\ h1.lock = H[t].lock
      BY <1>4 DEF Popped
    <2>5. NULL # t /\ <<t, l>> # <<t, BigList>> /\ own[b] # <<t, BigList>>
      <3>1. <<t, BigList>> \in Ids BY DEF Ids, Lists
      <3>2. own[b] # <<t, BigList>> BY <1>8, <3>1, NoListIsNone
      <3>3. <<t, l>> # <<t, BigList>> BY <1>1
      <3> QED BY <3>2, <3>3, HeapAssumption
    <2>6. h2.biglrucnt = H[t].biglrucnt + (IF <<t, l>> = <<t, BigList>> THEN 1 ELSE 0)
                                        - (IF own[b] = <<t, BigList>> THEN 1 ELSE 0)
      BY <2>2, <2>3, <2>4, <2>5
    <2>7. h2.blkfreecnt = H[t].blkfreecnt + (IF NULL = t THEN 1 ELSE 0) - (IF kown[b] = t THEN 1 ELSE 0)
      BY <2>2, <2>3, <2>4, <2>5
    <2>8. CountOK(h2, [own EXCEPT ![b] = <<t, l>>], [kown EXCEPT ![b] = NULL], t)
      BY <1>3, <1>8, <2>1, <2>6, <2>7, CountMove DEF ShapeTypes
    <2> QED BY <2>2, <2>3, <2>4, <2>8 DEF CountsDown, kown1
  <1>22. BlockOK(B[b], own[b], kown[b], held[b]) /\ held \in [Blocks -> SUBSET Nat] BY <1>8 DEF Mem
  <1>23. held[b] = {}
    <2>1. CASE kown[b] = NULL
      <3>1. B[b] = NoBlk
        <4>1. CASE H[t].blkfree = 0 BY <4>1 DEF b
        <4>2. CASE H[t].blkfree # 0
          <5>1. Kp(H)[t] = b BY <1>8, <4>2 DEF Kp, b
          <5>2. PICK r, q : ShapeBy(H, B, own, kown, Rm(B), r, q) BY <1>2 DEF Shape
          <5>3. kown[b] = t BY <4>2, <5>1, <5>2, <1>8, BlockRefs DEF ShapeBy, SL
          <5> QED BY <2>1, <5>3, HeapAssumption
        <4> QED BY <4>1, <4>2
      <3> QED BY <1>22, <3>1 DEF BlockOK
    <2>2. CASE kown[b] # NULL
      BY <1>22, <2>2 DEF BlockOK
    <2> QED BY <2>1, <2>2
  <1>24. Same(B2[b], y) BY <1>8, <1>10, <1>18
  <1>25. BlockOK(B2[b], own2[b], kown1[b], {BlkHdr}) /\ KindOK(B2[b])
    <2>1. y.restcnt <= y.cnt
      <3>1. y.restcnt \in Nat /\ y.cnt \in Nat BY <1>9 DEF BlkRec
      <3>2. y.restcnt < y.cnt BY <1>9 DEF SmallOK
      <3> QED BY <3>1, <3>2
    <2>2. <<t, l>> # NoList /\ <<t, l>>[2] = l BY HeapAssumption DEF NoList
    <2>3. BlockOK(y, own2[b], kown1[b], {BlkHdr}) BY <1>1, <1>9, <1>10, <1>12, <1>20, <2>1, <2>2 DEF BlockOK
    <2>4. KindOK(y)
      <3>1. y.small = TRUE BY <1>5 DEF NewSmall
      <3> QED BY <1>1, <1>9, <3>1, Zenon DEF KindOK
    <2> QED BY <1>24, <2>3, <2>4, SameOK
  <1>26. Others(B, own, kown, B2, own2, kown1, b) BY <1>12, <1>15, <1>18, <1>20, SameTrans DEF Others
  <1>27. PlaceOf(own[b], kown[b], t) /\ PlaceOf(own2[b], kown1[b], t) BY <1>8, <1>12, <1>20 DEF PlaceOf
  <1> HIDE DEF own2
  <1>28. Mem([H EXCEPT ![t] = h2], B2, own2, kown1, [held EXCEPT ![b] = {BlkHdr}])
    <2>1. {BlkHdr} \in SUBSET Nat BY DEF BlkHdr
    <2>2. h2 \in HeapRec BY <1>21 DEF CountsDown
    <2>3. Shape([H EXCEPT ![t] = h2], B2, own2, kown1, Rm(B2)) BY <1>18, <1>19
    <2> QED BY <1>8, <1>21, <1>25, <1>26, <1>27, <2>1, <2>2, <2>3, MemStep
  <1>29. held[b] \cup {BlkHdr} = {BlkHdr} BY <1>23
  <1>30. AllocPlace(H, B, own, kown, held, t, b, BlkHdr, h2, B2) BY <1>26, <1>27, <1>28, <1>29 DEF AllocPlace
  <1>31. AllocBlk(B[b], B2[b], held[b], size, BlkHdr)
    <2>1. B2[b] \in BlkRec
      <3>1. B2 \in BlksType BY <1>18, ShapeTyped DEF ShapeTypes
      <3>2. B2[b] # NoBlk BY <1>10, <1>24 DEF Same
      <3> QED BY <1>8, <3>1, <3>2 DEF BlksType
    <2>2. B2[b].shift = {} /\ B2[b].size = n /\ B2[b].binndx = l BY <1>9, <1>24 DEF Same
    <2>3. size + Hdr <= n BY <1>1 DEF Hdr
    <2> QED BY <1>1, <1>23, <2>1, <2>2, <2>3 DEF AllocBlk
  <1>32. B2[b].tid = tid[t] BY <1>9, <1>24 DEF Same
  <1>33. Alloc(H, B, own, kown, held, t, size, b, BlkHdr, h2, B2)
    <2>1. BlkHdr \in Nat /\ BlkHdr >= BlkHdr BY DEF BlkHdr
    <2> QED BY <1>8, <1>21, <1>23, <1>30, <1>31, <1>32, <2>1 DEF Alloc
  <1> QED BY <1>7, <1>33 DEF h2, B2

(* Allocation.                                                              *)

\* A block that only moved leaves the memory as it was.
LEMMA MemMoved ==
    ASSUME NEW H, NEW B, NEW own, NEW kown, NEW held, Mem(H, B, own, kown, held),
           NEW t \in Threads, H[t] # NoHeap, NEW h2, NEW B2, Moved(H, B, own, kown, Rm(B), t, h2, B2)
    PROVE  Mem([H EXCEPT ![t] = h2], B2, own, kown, held)
  <1> DEFINE H2 == [H EXCEPT ![t] = h2]
  <1>1. Shape(H2, B2, own, kown, Rm(B)) /\ h2 \in HeapRec /\ SameHeap(h2, H[t])
        /\ \A c \in Blocks : Same(B2[c], B[c])
    BY DEF Moved
  <1>2. H \in HeapsType
    <2>1. Shape(H, B, own, kown, Rm(B)) BY DEF Mem
    <2> QED BY <2>1, ShapeTyped DEF ShapeTypes
  <1>3. H2[t] = h2 /\ \A x \in Threads : x # t => H2[x] = H[x] BY <1>2 DEF HeapsType
  <1> HIDE DEF H2
  <1>4. Rm(B2) = Rm(B)
    <2>1. ASSUME NEW c \in Blocks PROVE c \in Rm(B2) <=> c \in Rm(B)
      <3>1. Same(B2[c], B[c]) BY <1>1
      <3> QED BY <3>1 DEF Rm, Same
    <2>2. Rm(B2) \subseteq Blocks /\ Rm(B) \subseteq Blocks BY DEF Rm
    <2> QED BY <2>1, <2>2
  <1>5. ASSUME NEW x \in Threads, H2[x] # NoHeap PROVE CountOK(H2[x], own, kown, x)
    <2>1. CASE x = t
      <3>1. CountOK(H[t], own, kown, t) BY DEF Mem
      <3> QED BY <1>1, <1>3, <2>1, <3>1 DEF CountOK, SameHeap
    <2>2. CASE x # t BY <1>3, <1>5, <2>2 DEF Mem
    <2> QED BY <2>1, <2>2
  <1>6. ASSUME NEW c \in Blocks PROVE BlockOK(B2[c], own[c], kown[c], held[c]) /\ KindOK(B2[c])
    <2>1. Same(B2[c], B[c]) BY <1>1
    <2>2. BlockOK(B[c], own[c], kown[c], held[c]) /\ KindOK(B[c]) BY DEF Mem
    <2> QED BY <2>1, <2>2, SameOK
  <1>7. held \in [Blocks -> SUBSET Nat] BY DEF Mem
  <1>8. Mem(H2, B2, own, kown, held) BY <1>1, <1>4, <1>5, <1>6, <1>7 DEF Mem
  <1> QED BY <1>8 DEF H2

\* An allocation after a block moved.
LEMMA AllocAfter ==
    ASSUME NEW H \in HeapsType, NEW B, NEW own, NEW kown, NEW held, NEW t \in Threads, NEW RM,
           NEW h1, NEW B1, Moved(H, B, own, kown, RM, t, h1, B1), NEW H1, H1 = [H EXCEPT ![t] = h1],
           NEW size, NEW b, NEW off, NEW h2, NEW B2,
           Alloc(H1, B1, own, kown, held, t, size, b, off, h2, B2)
    PROVE  Alloc(H, B, own, kown, held, t, size, b, off, h2, B2)
  <1>1. SameHeap(h1, H[t]) /\ \A c \in Blocks : Same(B1[c], B[c]) BY DEF Moved
  <1>2. [H1 EXCEPT ![t] = h2] = [H EXCEPT ![t] = h2] /\ H1[t] = h1 BY HeapTwice, ZenonT(60)
  <1>3. /\ b \in Blocks /\ off \in Nat /\ off >= BlkHdr /\ off \notin held[b] /\ B2[b].tid = tid[t]
        /\ AllocPlace(H1, B1, own, kown, held, t, b, off, h2, B2)
        /\ AllocBlk(B1[b], B2[b], held[b], size, off) /\ CountsDown(h2, H1[t])
    BY DEF Alloc
  <1>4. AllocPlace(H, B, own, kown, held, t, b, off, h2, B2)
    <2>1. PICK own2, kown2 :
              /\ Mem([H1 EXCEPT ![t] = h2], B2, own2, kown2, [held EXCEPT ![b] = held[b] \cup {off}])
              /\ Others(B1, own, kown, B2, own2, kown2, b)
              /\ PlaceOf(own2[b], kown2[b], t)
      BY <1>3 DEF AllocPlace
    <2>2. Others(B, own, kown, B2, own2, kown2, b) BY <1>1, <2>1, SameTrans DEF Others
    <2>3. Mem([H EXCEPT ![t] = h2], B2, own2, kown2, [held EXCEPT ![b] = held[b] \cup {off}]) BY <1>2, <2>1
    <2> QED BY <2>1, <2>2, <2>3 DEF AllocPlace
  <1>5. AllocBlk(B[b], B2[b], held[b], size, off)
    <2>1. Same(B1[b], B[b]) BY <1>1, <1>3
    <2> QED BY <1>3, <2>1 DEF AllocBlk, Same
  <1>6. CountsDown(h2, H[t]) BY <1>1, <1>2, <1>3 DEF CountsDown, SameHeap
  <1> QED BY <1>3, <1>4, <1>5, <1>6 DEF Alloc

\* bklalloc maps a block that was not mapped.
LEMMA AnyIs ==
    ASSUME blk \in BlksType, Unmapped # {}
    PROVE  AnyUnmapped \in Blocks /\ blk[AnyUnmapped] = NoBlk
  <1>1. Unmapped \subseteq Nat BY HeapAssumption DEF Unmapped, Blocks
  <1>2. \E b \in Unmapped : \A c \in Unmapped : b <= c BY <1>1, LeastNat
  <1>3. AnyUnmapped \in Unmapped BY <1>2 DEF AnyUnmapped
  <1>4. AnyUnmapped \in Blocks /\ ~blk[AnyUnmapped].mapped BY <1>3 DEF Unmapped
  <1> HIDE DEF AnyUnmapped
  <1>5. blk[AnyUnmapped] \in BlkRec \cup {NoBlk} BY <1>4 DEF BlksType
  <1> QED BY <1>4, <1>5, NoBlkApart

\* nc_malloc_small.
LEMMA SmallAlloc ==
    ASSUME NEW own, NEW kown, NEW held, Mem(heap, blk, own, kown, held),
           NEW t \in Threads, heap[t] # NoHeap, TidOK(blk, own, kown, t), tid[t] \in 0 .. MaxThreads - 1,
           BinsAgree, NEW size \in SmallRequests, CanMalloc(t, size), NEW p, p = MallocSmall(t, size)
    PROVE  Alloc(heap, blk, own, kown, held, t, size, p.b, p.off, p.h, p.B)
  <1> DEFINE l == BinNdx(size)
             b == heap[t].head[l]
             s == [h |-> heap[t], B |-> blk]
             n == BinSize(size)
  <1>1. l \in Lists BY ServedBy
  <1>2. Shape(heap, blk, own, kown, Rm(blk)) BY DEF Mem
  <1>3. heap \in HeapsType /\ blk \in BlksType BY <1>2, ShapeTyped DEF ShapeTypes
  <1>4. HasRoom(b) <=> blk[b].restcnt + Len(blk[b].free) > 0 BY DEF HasRoom, Freecnt
  <1>5. CASE b # 0 /\ HasRoom(b)
    <2> DEFINE u == [h |-> heap[t], B |-> TakeChunk(blk, b, n)]
               r == ToTail(u, l, b)
    <2>1. p = [b |-> b, off |-> NextChunk(blk, b), h |-> r.h, B |-> r.B]
      BY <1>5, Zenon DEF MallocSmall
    <2>2. blk[b].restcnt + Len(blk[b].free) > 0 /\ b # 0 BY <1>4, <1>5
    <2>3. Alloc(heap, blk, own, kown, held, t, size, b, NextChunk(blk, b), r.h, r.B)
      BY <2>2, MemTake
    <2> HIDE DEF r, b
    <2> QED BY <2>1, <2>3
  <1>6. CASE ~(b # 0 /\ HasRoom(b))
    <2> DEFINE s1 == IF b = 0 THEN s ELSE ToTail(s, l, b)
               H1 == [heap EXCEPT ![t] = s1.h]
               B1 == s1.B
    <2>1. p = NewBlock(t, s1, l, n) BY <1>6, Zenon DEF MallocSmall
    <2>2. Moved(heap, blk, own, kown, Rm(blk), t, s1.h, B1)
      <3>1. CASE b = 0
        <4>1. s1.h = heap[t] /\ B1 = blk BY <3>1
        <4>2. [heap EXCEPT ![t] = heap[t]] = heap BY <1>3 DEF HeapsType
        <4>3. heap[t] \in HeapRec BY <1>3 DEF HeapsType
        <4>4. SameHeap(heap[t], heap[t]) /\ \A c \in Blocks : Same(blk[c], blk[c]) BY DEF SameHeap, Same
        <4> QED BY <1>2, <4>1, <4>2, <4>3, <4>4 DEF Moved
      <3>2. CASE b # 0
        <4>1. Ends(heap, own, t, l) BY <1>1, <1>2, ShapeEnds
        <4>2. b \in Blocks /\ own[b] = <<t, l>> BY <3>2, <4>1 DEF Ends
        <4>3. blk[b] # NoBlk BY <1>1, <1>2, <4>2, ShapeNode
        <4>4. SameBut(Rm(blk), Rm(blk), b) /\ (b \in Rm(blk) <=> blk[b].restcnt + Len(blk[b].free) > 0)
          BY <4>2, <4>3 DEF SameBut, Rm
        <4>5. s1 = ToTail(s, l, b) BY <3>2
        <4> HIDE DEF s1, b, l
        <4>6. heap[t].head[l] = b BY DEF b
        <4> QED BY <1>1, <1>2, <4>2, <4>4, <4>5, <4>6, ShapeToTail
      <3> QED BY <3>1, <3>2
    <2>3. s1 = [h |-> s1.h, B |-> s1.B]
      BY DEF ToTail, PushTail
    <2>4. H1[t] = s1.h /\ s1.h \in HeapRec /\ SameHeap(s1.h, heap[t]) /\ H1[t] # NoHeap
      <3>1. s1.h \in HeapRec /\ SameHeap(s1.h, heap[t]) BY <2>2 DEF Moved
      <3> HIDE DEF s1
      <3>2. H1[t] = s1.h BY <1>3 DEF HeapsType
      <3> QED BY <3>1, <3>2, NoHeapApart
    <2>5. \A c \in Blocks : Same(B1[c], blk[c]) BY <2>2 DEF Moved
    <2> HIDE DEF s1, B1
    <2>6. Mem(H1, B1, own, kown, held) BY <2>2, MemMoved
    <2>7. H1[t].blkfree = 0 => AnyUnmapped \in Blocks /\ B1[AnyUnmapped] = NoBlk
      <3>1. ASSUME H1[t].blkfree = 0 PROVE AnyUnmapped \in Blocks /\ blk[AnyUnmapped] = NoBlk
        <4>1. heap[t].blkfree = 0 BY <2>4, <3>1 DEF SameHeap
        <4>2. size <= SmallMax /\ size \in Nat /\ SmallMax \in Int
          <5>1. size <= SmallMax /\ size \in Nat BY ServedBy DEF SmallRequests
          <5> QED BY <5>1, SizesAssumption DEF SmallMax
        <4>3. ~(size > SmallMax) BY <4>2
        <4>4. Unmapped # {} BY <1>6, <4>1, <4>3 DEF CanMalloc
        <4> QED BY <1>3, <4>4, AnyIs
      <3> QED BY <2>5, <3>1 DEF Same
    <2> DEFINE s2 == [h |-> H1[t], B |-> B1]
    <2>8. p = NewBlock(t, s2, l, n) BY <2>1, <2>3, <2>4 DEF B1
    <2>9. Alloc(H1, B1, own, kown, held, t, size, p.b, p.off, p.h, p.B)
      <3> HIDE DEF H1
      <3> QED BY <2>4, <2>6, <2>7, <2>8, MemNew
    <2> QED BY <1>3, <2>2, <2>9, AllocAfter
  <1> QED BY <1>5, <1>6

\* A large block about to be handed out.
LEMMA BigClearedIs ==
    ASSUME NEW x \in BlkRec
    PROVE  /\ BigCleared(x) \in BlkRec /\ SameBlk(BigCleared(x), x)
           /\ BigCleared(x).restcnt = x.restcnt /\ BigCleared(x).free = x.free
           /\ BigCleared(x).shift \subseteq x.shift
  <1> DEFINE y == BigCleared(x)
  <1>1. 0 \in Refs BY BlockRefs
  <1>2. y \in BlkRec BY <1>1 DEF BlkRec, BigCleared
  <1>3. SameBlk(y, x) /\ y.restcnt = x.restcnt /\ y.free = x.free /\ y.shift \subseteq x.shift
    BY DEF BlkRec, BigCleared, SameBlk
  <1> QED BY <1>2, <1>3

\* Blocks that are on no list may change.
LEMMA ShapeBlocks ==
    ASSUME NEW H, NEW B, NEW own, NEW kown, NEW RM, Shape(H, B, own, kown, RM), NEW B2 \in BlksType,
           \A c \in Blocks : own[c] # NoList => B2[c] # NoBlk /\ B2[c].next = B[c].next /\ B2[c].prev = B[c].prev,
           \A c \in Blocks : kown[c] # NULL => B2[c] # NoBlk /\ B2[c].next = B[c].next
    PROVE  Shape(H, B2, own, kown, RM)
  <1>1. H \in HeapsType BY ShapeTyped DEF ShapeTypes
  <1> QED BY <1>1, ShapeFrame

\* A large block y at b is in use now; before, it was x on list o of t or none.
LEMMA BigGiven ==
    ASSUME NEW H, NEW B, NEW own, NEW kown, NEW held, Mem(H, B, own, kown, held),
           NEW t \in Threads, H[t] # NoHeap, NEW b \in Blocks,
           own[b] = <<t, BigList>> \/ B[b] = NoBlk,
           NEW h2 \in HeapRec, NEW B1 \in BlksType, NEW own2, own2 = [own EXCEPT ![b] = NoList],
           Shape([H EXCEPT ![t] = h2], B1, own2, kown, Rm(B)),
           \A c \in Blocks : c # b => Same(B1[c], B[c]),
           NEW y \in BlkRec, y.small = FALSE, y.binndx = BigList, y.restcnt = 0, y.free = <<>>, y.cnt = 1,
           y.tid = tid[t], y.shift \subseteq (IF B[b] = NoBlk THEN {} ELSE B[b].shift),
           NEW size \in Nat, BlkHdr + Hdr + size <= y.size,
           h2.lock = H[t].lock, h2.blkfreecnt = H[t].blkfreecnt,
           h2.biglrucnt = H[t].biglrucnt - (IF own[b] = <<t, BigList>> THEN 1 ELSE 0),
           NEW B2, B2 = [B1 EXCEPT ![b] = y]
    PROVE  Alloc(H, B, own, kown, held, t, size, b, BlkHdr, h2, B2)
  <1> DEFINE H2 == [H EXCEPT ![t] = h2]
  <1>1. Shape(H, B, own, kown, Rm(B)) BY DEF Mem
  <1>2. ShapeTypes(H, B, own, kown) /\ Placed(H, B, own, kown) BY <1>1, ShapeTyped
  <1>3. BlockOK(B[b], own[b], kown[b], held[b]) /\ held \in [Blocks -> SUBSET Nat] BY DEF Mem
  <1>4. <<t, BigList>> \in Ids /\ <<t, BigList>> # NoList /\ <<t, BigList>>[1] = t /\ <<t, BigList>>[2] = BigList
    BY NoListIsNone DEF Ids, Lists
  <1>5. held[b] = {} /\ kown[b] = NULL
    <2>1. CASE B[b] = NoBlk BY <1>3, <2>1 DEF BlockOK
    <2>2. CASE B[b] # NoBlk
      <3>1. own[b] = <<t, BigList>> BY <2>2
      <3>2. B[b].binndx = BigList BY <1>3, <1>4, <2>2, <3>1 DEF BlockOK
      <3> QED BY <1>3, <1>4, <2>2, <3>1, <3>2 DEF BlockOK
    <2> QED BY <2>1, <2>2
  <1>6. own2[b] = NoList /\ \A c \in Blocks : c # b => own2[c] = own[c] BY <1>2 DEF ShapeTypes
  <1>7. B2 \in BlksType /\ B2[b] = y /\ y # NoBlk /\ \A c \in Blocks : c # b => B2[c] = B1[c]
    BY NoBlkApart DEF BlksType
  <1>8. Shape(H2, B1, own2, kown, Rm(B)) OBVIOUS
  <1>9. ShapeTypes(H2, B1, own2, kown) /\ Placed(H2, B1, own2, kown) BY <1>8, ShapeTyped
  <1>10. Shape(H2, B2, own2, kown, Rm(B))
    <2>1. \A c \in Blocks : own2[c] # NoList \/ kown[c] # NULL => B1[c] # NoBlk
      BY <1>8, <1>9 DEF Shape, ShapeBy, Links, Placed
    <2>2. \A c \in Blocks : own2[c] # NoList => B2[c] # NoBlk /\ B2[c].next = B1[c].next /\ B2[c].prev = B1[c].prev
      BY <1>6, <1>7, <2>1
    <2>3. \A c \in Blocks : kown[c] # NULL => B2[c] # NoBlk /\ B2[c].next = B1[c].next
      BY <1>5, <1>7, <2>1
    <2>4. B2 \in BlksType BY <1>7
    <2> HIDE DEF H2
    <2> QED BY <1>8, <2>2, <2>3, <2>4, ShapeBlocks, ZenonT(60)
  <1>11. Rm(B2) = Rm(B)
    <2>1. ASSUME NEW c \in Blocks PROVE c \in Rm(B2) <=> c \in Rm(B)
      <3>1. CASE c # b
        <4>1. B2[c] = B1[c] /\ Same(B1[c], B[c]) BY <1>7, <3>1
        <4> QED BY <4>1 DEF Rm, Same
      <3>2. CASE c = b
        <4>1. ~(y.restcnt + Len(y.free) > 0) OBVIOUS
        <4>2. b \notin Rm(B2) BY <1>7, <4>1 DEF Rm
        <4>3. CASE B[b] = NoBlk BY <3>2, <4>2, <4>3 DEF Rm
        <4>4. CASE B[b] # NoBlk
          <5>1. own[b] = <<t, BigList>> BY <4>4
          <5>2. B[b].binndx = BigList BY <1>3, <1>4, <4>4, <5>1 DEF BlockOK
          <5>3. B[b].restcnt = 0 /\ B[b].free = <<>> BY <1>3, <4>4, <5>2 DEF BlockOK
          <5>4. ~(B[b].restcnt + Len(B[b].free) > 0) BY <5>3
          <5> QED BY <3>2, <4>2, <5>4 DEF Rm
        <4> QED BY <4>3, <4>4
      <3> QED BY <3>1, <3>2
    <2>2. Rm(B2) \subseteq Blocks /\ Rm(B) \subseteq Blocks BY DEF Rm
    <2> QED BY <2>1, <2>2
  <1>12. CountOK(h2, own2, kown, t)
    <2>1. CountOK(H[t], own, kown, t) BY DEF Mem
    <2>2. H[t] \in HeapRec BY <1>2 DEF ShapeTypes, HeapsType
    <2>3. H[t].blkfreecnt \in Nat /\ H[t].biglrucnt \in Nat BY <2>2 DEF HeapRec
    <2>4. NoList # <<t, BigList>> /\ NULL # t /\ kown[b] # t BY <1>4, <1>5, HeapAssumption
    <2>5. h2.biglrucnt = H[t].biglrucnt + (IF NoList = <<t, BigList>> THEN 1 ELSE 0)
                                        - (IF own[b] = <<t, BigList>> THEN 1 ELSE 0)
      BY <2>3, <2>4
    <2>6. h2.blkfreecnt = H[t].blkfreecnt + (IF NULL = t THEN 1 ELSE 0) - (IF kown[b] = t THEN 1 ELSE 0)
      BY <2>3, <2>4
    <2>7. CountOK(h2, [own EXCEPT ![b] = NoList], [kown EXCEPT ![b] = NULL], t)
      BY <1>2, <2>1, <2>5, <2>6, CountMove DEF ShapeTypes
    <2>8. [kown EXCEPT ![b] = NULL] = kown BY <1>2, <1>5 DEF ShapeTypes
    <2> QED BY <2>7, <2>8
  <1>13. BlockOK(B2[b], own2[b], kown[b], {BlkHdr}) /\ KindOK(B2[b])
    <2>1. BlockOK(y, NoList, NULL, {BlkHdr}) BY <1>7 DEF BlockOK
    <2>2. KindOK(y) BY Zenon DEF KindOK
    <2> QED BY <1>5, <1>6, <1>7, <2>1, <2>2
  <1>14. Others(B, own, kown, B2, own2, kown, b) BY <1>6, <1>7 DEF Others
  <1>15. PlaceOf(own[b], kown[b], t) /\ PlaceOf(own2[b], kown[b], t)
    <2>1. own[b] = NoList \/ own[b][1] = t BY <1>3, <1>4 DEF BlockOK
    <2> QED BY <1>5, <1>6, <2>1 DEF PlaceOf
  <1>16. Mem(H2, B2, own2, kown, [held EXCEPT ![b] = {BlkHdr}])
    <2>1. {BlkHdr} \in SUBSET Nat BY DEF BlkHdr
    <2>2. Shape([H EXCEPT ![t] = h2], B2, own2, kown, Rm(B2)) BY <1>10, <1>11
    <2> HIDE DEF H2
    <2>3. Mem([H EXCEPT ![t] = h2], B2, own2, kown, [held EXCEPT ![b] = {BlkHdr}])
      BY <1>12, <1>13, <1>14, <1>15, <2>1, <2>2, MemStep
    <2> QED BY <2>3 DEF H2
  <1>17. AllocPlace(H, B, own, kown, held, t, b, BlkHdr, h2, B2)
    <2>1. held[b] \cup {BlkHdr} = {BlkHdr} BY <1>5
    <2> QED BY <1>14, <1>15, <1>16, <2>1 DEF AllocPlace
  <1>18. AllocBlk(B[b], B2[b], held[b], size, BlkHdr) BY <1>5, <1>7 DEF AllocBlk
  <1>19. CountsDown(h2, H[t])
    <2>1. H[t] \in HeapRec BY <1>2 DEF ShapeTypes, HeapsType
    <2>2. H[t].blkfreecnt \in Nat /\ H[t].biglrucnt \in Nat BY <2>1 DEF HeapRec
    <2> QED BY <2>2 DEF CountsDown
  <1>20. BlkHdr \in Nat /\ BlkHdr >= BlkHdr BY DEF BlkHdr
  <1> QED BY <1>5, <1>7, <1>17, <1>18, <1>19, <1>20 DEF Alloc

\* A large block on the list of its heap: its count is positive.
LEMMA BigCounted ==
    ASSUME NEW H, NEW B, NEW own, NEW kown, NEW held, Mem(H, B, own, kown, held),
           NEW t \in Threads, H[t] # NoHeap, NEW b \in Blocks, own[b] = <<t, BigList>>
    PROVE  H[t].biglrucnt \in Nat /\ H[t].biglrucnt - 1 \in Nat
  <1> DEFINE S == BlocksOn(own, <<t, BigList>>)
  <1>1. CountOK(H[t], own, kown, t) BY DEF Mem
  <1>2. S \subseteq Blocks /\ b \in S BY DEF BlocksOn
  <1>3. H[t].biglrucnt = Cardinality(S) BY <1>1 DEF CountOK
  <1> HIDE DEF S
  <1>4. Cardinality(S) \in Nat /\ Cardinality(S \ {b}) \in Nat BY <1>2, BlocksFinite
  <1>5. Cardinality(S \ {b}) = Cardinality(S) - 1 BY <1>2, CountRemove
  <1> QED BY <1>3, <1>4, <1>5

\* Places in the walk along the large blocks are numbers.
LEMMA FitsNat ==
    ASSUME NEW own, NEW kown, NEW held, Mem(heap, blk, own, kown, held),
           NEW t \in Threads, heap[t] # NoHeap, NEW size
    PROVE  Fits(t, size) \subseteq Nat
  <1> DEFINE path == Forward(blk, heap[t].head[BigList])
             S == BlocksOn(own, <<t, BigList>>)
  <1>1. Shape(heap, blk, own, kown, Rm(blk)) BY DEF Mem
  <1>2. PICK r, q : ShapeBy(heap, blk, own, kown, Rm(blk), r, q) BY <1>1 DEF Shape
  <1>3. Links(heap, blk, own, r) /\ BigList \in Lists BY <1>2 DEF ShapeBy, Lists
  <1>4. PICK m \in 0 .. NBlk : Walked(S, path, m) BY <1>3, ListWalk
  <1> HIDE DEF path, S
  <1>5. DOMAIN path = 0 .. NBlk BY <1>4 DEF Walked
  <1>6. Fits(t, size) \subseteq DOMAIN path BY DEF Fits, path
  <1> QED BY <1>5, <1>6, HeapAssumption

\* nc_malloc_big finds the block among the large ones of the heap.
LEMMA BigFound ==
    ASSUME NEW own, NEW kown, NEW held, Mem(heap, blk, own, kown, held),
           NEW t \in Threads, heap[t] # NoHeap, NEW size,
           NEW k \in Fits(t, size), NEW b, b = Forward(blk, heap[t].head[BigList])[k]
    PROVE  b \in Blocks /\ own[b] = <<t, BigList>> /\ blk[b].size >= BigNeed(size)
  <1> DEFINE path == Forward(blk, heap[t].head[BigList])
             S == BlocksOn(own, <<t, BigList>>)
  <1>1. Shape(heap, blk, own, kown, Rm(blk)) BY DEF Mem
  <1>2. PICK r, q : ShapeBy(heap, blk, own, kown, Rm(blk), r, q) BY <1>1 DEF Shape
  <1>3. Links(heap, blk, own, r) /\ BigList \in Lists BY <1>2 DEF ShapeBy, Lists
  <1>4. PICK m \in 0 .. NBlk : Walked(S, path, m) BY <1>3, ListWalk
  <1> HIDE DEF path, S
  <1>5. path \in [0 .. NBlk -> S \cup {0}] BY <1>4 DEF Walked
  <1>6. Fits(t, size) = {i \in DOMAIN path : path[i] # 0 /\ blk[path[i]].size >= BigNeed(size)} BY DEF Fits, path
  <1>11. b = path[k] BY DEF path
  <1>12. b \in S /\ blk[b].size >= BigNeed(size) BY <1>5, <1>6, <1>11
  <1> QED BY <1>12 DEF S, BlocksOn

\* The blocks after a large one is handed out.
LEMMA BigClearedAt ==
    ASSUME NEW B \in BlksType, NEW b \in Blocks
    PROVE  [B EXCEPT ![b].shift = {p \in @ : p[1] # BlkHdr}, ![b].prev = 0, ![b].next = 0]
              = [B EXCEPT ![b] = BigCleared(B[b])]
  BY DEF BigCleared, BlksType

\* nc_malloc_big.
LEMMA BigAlloc ==
    ASSUME NEW own, NEW kown, NEW held, Mem(heap, blk, own, kown, held),
           NEW t \in Threads, heap[t] # NoHeap, TidOK(blk, own, kown, t), tid[t] \in 0 .. MaxThreads - 1,
           NEW size \in Nat, ~(size <= SmallMax), CanMalloc(t, size), NEW p, p = MallocBig(t, size)
    PROVE  Alloc(heap, blk, own, kown, held, t, size, p.b, p.off, p.h, p.B)
  <1> DEFINE fits == Fits(t, size)
             k == CHOOSE i \in fits : \A j \in fits : i <= j
  <1>1. Shape(heap, blk, own, kown, Rm(blk)) /\ BigList \in Lists BY DEF Mem, Lists
  <1>2. ShapeTypes(heap, blk, own, kown) /\ heap \in HeapsType /\ blk \in BlksType
    BY <1>1, ShapeTyped DEF ShapeTypes
  <1>3. heap[t] \in HeapRec BY <1>2 DEF HeapsType
  <1>4. CASE fits # {}
    <2> DEFINE b == Forward(blk, heap[t].head[BigList])[k]
               h0 == [heap[t] EXCEPT !.biglrucnt = @ - 1]
               s == [h |-> h0, B |-> blk]
               u == Unlink(s, BigList, b)
               h2 == u.h
               B1 == u.B
               x == B1[b]
               B2 == [B1 EXCEPT ![b] = BigCleared(x)]
               H0 == [heap EXCEPT ![t] = h0]
               own2 == [own EXCEPT ![b] = NoList]
    <2>1. b \in Blocks /\ own[b] = <<t, BigList>> /\ blk[b].size >= BigNeed(size)
      <3>1. k \in Fits(t, size)
        <4>1. \E i \in fits : \A j \in fits : i <= j BY <1>4, FitsNat, LeastNat
        <4> QED BY <4>1
      <3>2. b = Forward(blk, heap[t].head[BigList])[k] OBVIOUS
      <3> HIDE DEF fits, k, b
      <3> QED BY <3>1, <3>2, BigFound
    <2> DEFINE Z == [B1 EXCEPT ![b].shift = {e \in @ : e[1] # BlkHdr}, ![b].prev = 0, ![b].next = 0]
    <2>2. p = [b |-> b, off |-> BlkHdr, h |-> h2, B |-> Z]
      BY <1>4, Zenon DEF MallocBig
    <2> HIDE DEF k, b
    <2>3. heap[t].biglrucnt \in Nat /\ heap[t].biglrucnt - 1 \in Nat BY <2>1, BigCounted
    <2>4. /\ h0 \in HeapRec /\ h0.head = heap[t].head /\ h0.tail = heap[t].tail /\ h0.blkfree = heap[t].blkfree
          /\ h0.lock = heap[t].lock /\ h0.blkfreecnt = heap[t].blkfreecnt /\ h0.biglrucnt = heap[t].biglrucnt - 1
      BY <1>3, <2>3 DEF HeapRec
    <2> HIDE DEF h0
    <2>5. Shape(H0, blk, own, kown, Rm(blk))
      <3>1. /\ H0 \in HeapsType /\ Hd(H0) = Hd(heap) /\ Tl(H0) = Tl(heap)
            /\ \A z \in Threads : heap[z] # NoHeap => H0[z] # NoHeap
        BY <1>2, <2>4, HeapFrame
      <3>2. Kp(H0) = Kp(heap) BY <1>2, <2>4, KpSame
      <3>3. \A c \in Blocks : own[c] # NoList \/ kown[c] # NULL => blk[c] # NoBlk
        BY <1>1, ShapeTyped DEF Shape, ShapeBy, Links, Placed
      <3> HIDE DEF H0
      <3> QED BY <1>1, <1>2, <3>1, <3>2, <3>3, ShapeFrame
    <2>6. H0[t] = h0 BY <1>2 DEF HeapsType
    <2>7. Unlinked(H0, blk, own, kown, Rm(blk), t, BigList, b, h2, B1)
      <3>1. s = [h |-> H0[t], B |-> blk] BY <2>6
      <3>2. SameBut(Rm(blk), Rm(blk), b) BY DEF SameBut
      <3>3. h2 = Unlink(s, BigList, b).h /\ B1 = Unlink(s, BigList, b).B OBVIOUS
      <3> HIDE DEF s, H0, h2, B1
      <3> QED BY <1>1, <2>1, <2>5, <3>1, <3>2, <3>3, ShapeUnlink
    <2>8. OnlyLinks(h0, blk, h2, B1) /\ Shape([H0 EXCEPT ![t] = h2], B1, own2, kown, Rm(blk)) BY <2>6, <2>7 DEF Unlinked
    <2> HIDE DEF h2, B1
    <2>9. h2 \in HeapRec /\ SameHeap(h2, h0) /\ \A c \in Blocks : Same(B1[c], blk[c]) BY <2>8 DEF OnlyLinks
    <2>10. B1 \in BlksType BY <2>8, ShapeTyped DEF ShapeTypes
    <2>11. Shape([heap EXCEPT ![t] = h2], B1, own2, kown, Rm(blk))
      <3>1. [H0 EXCEPT ![t] = h2] = [heap EXCEPT ![t] = h2] BY <1>2, HeapTwice
      <3> QED BY <2>8, <3>1
    <2>12. blk[b] # NoBlk /\ blk[b] \in BlkRec /\ kown[b] = NULL BY <1>1, <2>1, ShapeNode
    <2>13. Same(x, blk[b]) /\ x \in BlkRec BY <2>1, <2>9, <2>10, <2>12 DEF Same, BlksType
    <2> DEFINE y == BigCleared(x)
    <2>14. /\ y \in BlkRec /\ SameBlk(y, x) /\ y.restcnt = x.restcnt /\ y.free = x.free /\ y.shift \subseteq x.shift
      <3> HIDE DEF x
      <3> QED BY <2>13, BigClearedIs
    <2>15. BlockOK(blk[b], own[b], kown[b], held[b]) /\ KindOK(blk[b]) BY <2>1 DEF Mem
    <2>16. own[b] # NoList /\ own[b][1] = t /\ own[b][2] = BigList BY <1>1, <2>1, NoListIsNone DEF Ids
    <2>17. blk[b].binndx = BigList BY <2>12, <2>15, <2>16 DEF BlockOK
    <2>18. blk[b].restcnt = 0 /\ blk[b].free = <<>> /\ blk[b].cnt = 1 BY <2>12, <2>15, <2>17 DEF BlockOK
    <2>19. blk[b].small = FALSE BY <2>12, <2>15, <2>17, Zenon DEF KindOK
    <2>20. blk[b].tid = tid[t] BY <2>1, <2>16 DEF TidOK
    <2> HIDE DEF y, x
    <2>21. y.small = FALSE BY <2>13, <2>14, <2>19, Zenon DEF Same, SameBlk
    <2>22. /\ y.binndx = BigList /\ y.restcnt = 0 /\ y.free = <<>> /\ y.cnt = 1 /\ y.tid = tid[t]
           /\ y.shift \subseteq blk[b].shift /\ y.size = blk[b].size
      BY <2>13, <2>14, <2>17, <2>18, <2>20 DEF Same, SameBlk
    <2>23. BlkHdr + Hdr + size <= y.size
      <3>1. y.size \in Nat BY <2>14 DEF BlkRec
      <3> QED BY <2>1, <2>22, <3>1 DEF BigNeed, BlkHdr, Hdr
    <2>24. B2 = [B1 EXCEPT ![b] = y] BY DEF y
    <2> HIDE DEF B2
    <2>25. h2.lock = heap[t].lock /\ h2.blkfreecnt = heap[t].blkfreecnt
           /\ h2.biglrucnt = heap[t].biglrucnt - (IF own[b] = <<t, BigList>> THEN 1 ELSE 0)
      BY <2>1, <2>4, <2>9 DEF SameHeap
    <2>26. y.shift \subseteq (IF blk[b] = NoBlk THEN {} ELSE blk[b].shift) BY <2>12, <2>22
    <2>27. Alloc(heap, blk, own, kown, held, t, size, b, BlkHdr, h2, B2)
      <3>1. own2 = [own EXCEPT ![b] = NoList] OBVIOUS
      <3>2. \A c \in Blocks : c # b => Same(B1[c], blk[c]) BY <2>9
      <3>3. own[b] = <<t, BigList>> \/ blk[b] = NoBlk BY <2>1
      <3>4. b \in Blocks /\ h2 \in HeapRec /\ y \in BlkRec BY <2>1, <2>9, <2>14
      <3> HIDE DEF own2
      <3> QED BY <2>10, <2>11, <2>21, <2>22, <2>23, <2>24, <2>25, <2>26, <3>1, <3>2, <3>3, <3>4, BigGiven
    <2>28. p.B = B2
      <3>1. [B1 EXCEPT ![b].shift = {e \in @ : e[1] # BlkHdr}, ![b].prev = 0, ![b].next = 0]
              = [B1 EXCEPT ![b] = BigCleared(B1[b])]
        BY <2>1, <2>10, BigClearedAt
      <3>2. Z = B2 BY <3>1, Zenon DEF B2, x
      <3> HIDE DEF Z
      <3> QED BY <2>2, <3>2
    <2>29. p.b = b /\ p.off = BlkHdr /\ p.h = h2
      <3> HIDE DEF Z
      <3> QED BY <2>2
    <2> QED BY <2>27, <2>28, <2>29
  <1>5. CASE fits = {}
    <2> DEFINE b == AnyUnmapped
               x == BigBlk(t, BigSize(size))
               B0 == [blk EXCEPT ![b] = x]
               y == BigCleared(x)
               B2 == [blk EXCEPT ![b] = y]
    <2>1. SmallMax \in Int BY SizesAssumption DEF SmallMax
    <2>2. Unmapped # {} BY <1>5, <2>1 DEF CanMalloc
    <2>3. b \in Blocks /\ blk[b] = NoBlk BY <1>2, <2>2, AnyIs
    <2> DEFINE Z == [B0 EXCEPT ![b].shift = {e \in @ : e[1] # BlkHdr}, ![b].prev = 0, ![b].next = 0]
    <2>4. p = [b |-> b, off |-> BlkHdr, h |-> heap[t], B |-> Z]
      BY <1>5, Zenon DEF MallocBig
    <2> HIDE DEF b
    <2>5. BigSize(size) \in Nat /\ BigSize(size) >= BlkHdr + Hdr + size
      <3>1. BigNeed(size) \in Nat /\ BigNeed(size) = BlkHdr + Hdr + size BY DEF BigNeed, BlkHdr, Hdr
      <3>2. BlkSize \in Nat /\ BlkSize > 0 BY SizesAssumption
      <3> QED BY <3>1, <3>2, RoundUpIs DEF BigSize
    <2> DEFINE z == BigSize(size)
    <2> HIDE DEF z
    <2>6. x = [mapped |-> TRUE, small |-> FALSE, tid |-> tid[t], binndx |-> BigList, size |-> z,
               cnt |-> 1, restcnt |-> 0, rest |-> BlkHdr, free |-> <<>>, shift |-> {}, prev |-> 0, next |-> 0]
      BY DEF BigBlk, z
    <2>7. x \in BlkRec
      <3>1. z \in Nat /\ BlkHdr \in Nat /\ 0 \in Refs /\ BigList \in Lists BY <1>1, <2>5, BlockRefs DEF z, BlkHdr
      <3> HIDE DEF x
      <3> QED BY <2>6, <3>1 DEF BlkRec
    <2>8. x.small = FALSE BY <2>6
    <2>9. /\ x.binndx = BigList /\ x.restcnt = 0 /\ x.free = <<>> /\ x.cnt = 1 /\ x.tid = tid[t]
          /\ x.shift = {} /\ x.size = z
      BY <2>6
    <2> HIDE DEF x
    <2>10. /\ y \in BlkRec /\ SameBlk(y, x) /\ y.restcnt = x.restcnt /\ y.free = x.free /\ y.shift \subseteq x.shift
      BY <2>7, BigClearedIs
    <2> HIDE DEF y
    <2>11. y.small = FALSE BY <2>8, <2>10, Zenon DEF SameBlk
    <2>12. /\ y.binndx = BigList /\ y.restcnt = 0 /\ y.free = <<>> /\ y.cnt = 1 /\ y.tid = tid[t]
           /\ y.shift \subseteq (IF blk[b] = NoBlk THEN {} ELSE blk[b].shift) /\ y.size = z
      BY <2>3, <2>9, <2>10 DEF SameBlk
    <2>13. BlkHdr + Hdr + size <= y.size BY <2>5, <2>12 DEF z, BlkHdr, Hdr
    <2>14. own[b] = NoList
      <3>1. BlockOK(blk[b], own[b], kown[b], held[b]) BY <2>3 DEF Mem
      <3> QED BY <2>3, <3>1 DEF BlockOK
    <2>15. [own EXCEPT ![b] = NoList] = own /\ [heap EXCEPT ![t] = heap[t]] = heap
      BY <1>2, <2>14 DEF ShapeTypes, HeapsType
    <2>16. own[b] # <<t, BigList>> BY <1>1, <2>14, NoListIsNone DEF Ids
    <2>17. \A c \in Blocks : c # b => Same(blk[c], blk[c]) BY DEF Same
    <2>18. heap[t].biglrucnt = heap[t].biglrucnt - (IF own[b] = <<t, BigList>> THEN 1 ELSE 0)
      <3>1. heap[t].biglrucnt \in Nat BY <1>3 DEF HeapRec
      <3> QED BY <2>16, <3>1
    <2>19. Alloc(heap, blk, own, kown, held, t, size, b, BlkHdr, heap[t], B2)
      <3>1. own = [own EXCEPT ![b] = NoList] /\ Shape([heap EXCEPT ![t] = heap[t]], blk, own, kown, Rm(blk)) BY <1>1, <2>15
      <3>2. B2 = [blk EXCEPT ![b] = y] OBVIOUS
      <3> HIDE DEF B2
      <3> QED BY <1>2, <1>3, <2>3, <2>10, <2>11, <2>12, <2>13, <2>17, <2>18, <3>1, <3>2, BigGiven
    <2>20. p.B = B2
      <3>1. B0 \in BlksType /\ B0[b] = x BY <1>2, <2>3, <2>7 DEF BlksType
      <3>2. [B0 EXCEPT ![b] = y] = B2 BY <1>2, <2>3 DEF BlksType
      <3> HIDE DEF B0
      <3>3. [B0 EXCEPT ![b].shift = {e \in @ : e[1] # BlkHdr}, ![b].prev = 0, ![b].next = 0]
              = [B0 EXCEPT ![b] = BigCleared(B0[b])]
        BY <2>3, <3>1, BigClearedAt
      <3>4. Z = [B0 EXCEPT ![b] = BigCleared(x)] BY <3>1, <3>3, Zenon
      <3> HIDE DEF Z
      <3> QED BY <2>4, <3>2, <3>4 DEF y
    <2>21. p.b = b /\ p.off = BlkHdr /\ p.h = heap[t]
      <3> HIDE DEF Z
      <3> QED BY <2>4
    <2> QED BY <2>19, <2>20, <2>21
  <1> QED BY <1>4, <1>5

\* nc_malloc.
LEMMA MallocOK ==
    ASSUME NEW own, NEW kown, NEW held, Mem(heap, blk, own, kown, held),
           NEW t \in Threads, heap[t] # NoHeap, TidOK(blk, own, kown, t), tid[t] \in 0 .. MaxThreads - 1,
           BinsAgree, NEW size \in Requests, size \in Nat, CanMalloc(t, size), NEW p, p = Malloc(t, size)
    PROVE  Alloc(heap, blk, own, kown, held, t, size, p.b, p.off, p.h, p.B)
  <1>1. CASE size <= SmallMax
    <2>1. size \in SmallRequests /\ p = MallocSmall(t, size) BY <1>1 DEF SmallRequests, Malloc
    <2> QED BY <2>1, SmallAlloc
  <1>2. CASE ~(size <= SmallMax)
    <2>1. p = MallocBig(t, size) BY <1>2 DEF Malloc
    <2> QED BY <1>2, <2>1, BigAlloc
  <1> QED BY <1>1, <1>2

(* Free.                                                                    *)

\* A chunk comes back and nothing but its block changes.
LEMMA BackStep ==
    ASSUME NEW H, NEW B, NEW own, NEW kown, NEW held, Mem(H, B, own, kown, held),
           NEW t \in Threads, H[t] # NoHeap, NEW h2 \in HeapRec, NEW b \in Blocks, NEW off,
           NEW B2, NEW own2, NEW kown2, Shape([H EXCEPT ![t] = h2], B2, own2, kown2, Rm(B2)),
           Others(B, own, kown, B2, own2, kown2, b),
           PlaceOf(own[b], kown[b], t), PlaceOf(own2[b], kown2[b], t),
           CountOK(h2, own2, kown2, t), BlockOK(B2[b], own2[b], kown2[b], held[b] \ {off}), KindOK(B2[b]),
           B2[b] = NoBlk \/ Stays(B2[b], B[b])
    PROVE  BackPlace(H, B, own, kown, held, t, b, off, h2, B2)
  <1>1. held[b] \ {off} \in SUBSET Nat BY DEF Mem
  <1>2. Mem([H EXCEPT ![t] = h2], B2, own2, kown2, [held EXCEPT ![b] = held[b] \ {off}]) BY <1>1, MemStep
  <1>3. Freed(B, own, kown, held, B2, own2, kown2, t, b)
    <2>1. ASSUME NEW c \in Blocks
          PROVE  \/ B2[c] = NoBlk /\ own2[c] = NoList /\ kown2[c] = NULL /\ (c = b \/ held[c] = {})
                 \/ c # b /\ Same(B2[c], B[c]) /\ own2[c] = own[c] /\ kown2[c] = kown[c]
                 \/ c = b /\ Stays(B2[c], B[c]) /\ PlaceOf(own2[c], kown2[c], t)
      <3>1. CASE c # b BY <3>1 DEF Others
      <3>2. CASE c = b BY <3>2 DEF BlockOK
      <3> QED BY <3>1, <3>2
    <2> QED BY <2>1 DEF Freed
  <1> QED BY <1>2, <1>3 DEF BackPlace

\* The chunk goes on the free stack, the block to the head of its bin.
LEMMA BackOne ==
    ASSUME NEW H, NEW B, NEW own, NEW kown, NEW held, Mem(H, B, own, kown, held),
           NEW t \in Threads, H[t] # NoHeap, NEW b \in Blocks, NEW l \in Lists, l # BigList, own[b] = <<t, l>>,
           NEW off \in held[b], Len(B[b].free) + 1 < B[b].cnt,
           NEW y, PutOn(B[b], y, off),
           NEW B1, B1 = [B EXCEPT ![b] = y], NEW s, s = [h |-> H[t], B |-> B1],
           NEW p, p = IF y.prev # 0 THEN PushHead(Unlink(s, l, b), l, b) ELSE s
    PROVE  Back(H, B, own, kown, held, t, b, off, p.h, p.B)
  <1> DEFINE x == B[b]
             h2 == p.h
             B2 == p.B
             hs == held[b]
  <1>1. Shape(H, B, own, kown, Rm(B)) BY DEF Mem
  <1>2. ShapeTypes(H, B, own, kown) /\ H \in HeapsType /\ B \in BlksType BY <1>1, ShapeTyped DEF ShapeTypes
  <1>3. x \in BlkRec /\ x # NoBlk /\ H[t] \in HeapRec /\ kown[b] = NULL BY <1>1, ShapeNode
  <1>4. own[b] # NoList /\ own[b][1] = t /\ own[b][2] = l BY NoListIsNone DEF Ids
  <1>5. BlockOK(x, own[b], kown[b], hs) /\ KindOK(x) /\ hs \in SUBSET Nat BY DEF Mem
  <1>6. x.binndx = l /\ SmallOK(x, hs) BY <1>3, <1>4, <1>5 DEF BlockOK
  <1>7. /\ y \in BlkRec /\ SameBlk(y, x) /\ y.next = x.next /\ y.prev = x.prev /\ y.shift = x.shift
        /\ SmallOK(y, hs \ {off}) /\ y.restcnt + Len(y.free) > 0
    <2>1. PutOn(x, y, off) /\ off \in hs /\ Len(x.free) + 1 < x.cnt OBVIOUS
    <2> HIDE DEF x, hs
    <2> QED BY <1>3, <1>5, <1>6, <2>1, PutOK
  <1>8. B1 \in BlksType /\ B1[b] = y /\ y # NoBlk /\ \A c \in Blocks : c # b => B1[c] = B[c]
    BY <1>2, <1>7, NoBlkApart DEF BlksType
  <1>9. Shape(H, B1, own, kown, Rm(B))
    <2>1. \A c \in Blocks : own[c] # NoList \/ kown[c] # NULL => B[c] # NoBlk
      BY <1>1, ShapeTyped DEF Shape, ShapeBy, Links, Placed
    <2>2. \A c \in Blocks : own[c] # NoList => B1[c] # NoBlk /\ B1[c].next = B[c].next /\ B1[c].prev = B[c].prev
      BY <1>7, <1>8, <2>1
    <2>3. \A c \in Blocks : kown[c] # NULL => B1[c] # NoBlk /\ B1[c].next = B[c].next BY <1>7, <1>8, <2>1
    <2>4. B1 \in BlksType BY <1>8
    <2> QED BY <1>1, <2>2, <2>3, <2>4, ShapeBlocks
  <1>10. SameBut(Rm(B), Rm(B1), b) /\ b \in Rm(B1)
    <2>1. \A c \in Blocks : c # b => Same(B1[c], B[c]) BY <1>8 DEF Same
    <2>2. SameBut(Rm(B), Rm(B1), b) BY <2>1, RmSame
    <2> QED BY <1>7, <1>8, <2>2 DEF Rm
  <1>11. Moved(H, B1, own, kown, Rm(B1), t, h2, B2)
    <2>1. CASE y.prev # 0
      <3>1. p = PushHead(Unlink(s, l, b), l, b) BY <2>1
      <3>2. B1[b].prev # 0 BY <1>8, <2>1
      <3>3. s = [h |-> H[t], B |-> B1] OBVIOUS
      <3> QED BY <1>9, <1>10, <3>1, <3>2, <3>3, ShapeFirst
    <2>2. CASE y.prev = 0
      <3>1. p.h = H[t] /\ p.B = B1 BY <2>2
      <3>2. Shape(H, B1, own, kown, Rm(B1)) BY <1>8, <1>9, <1>10, <2>2, ShapeRoom
      <3>3. [H EXCEPT ![t] = H[t]] = H BY <1>2 DEF HeapsType
      <3>4. SameHeap(H[t], H[t]) /\ \A c \in Blocks : Same(B1[c], B1[c]) BY DEF SameHeap, Same
      <3> QED BY <1>3, <3>1, <3>2, <3>3, <3>4 DEF Moved
    <2> QED BY <2>1, <2>2
  <1> HIDE DEF h2, B2
  <1>12. /\ Shape([H EXCEPT ![t] = h2], B2, own, kown, Rm(B1)) /\ h2 \in HeapRec /\ SameHeap(h2, H[t])
         /\ \A c \in Blocks : Same(B2[c], B1[c])
    BY <1>11 DEF Moved
  <1>13. Rm(B2) = Rm(B1)
    <2>1. ASSUME NEW c \in Blocks PROVE c \in Rm(B2) <=> c \in Rm(B1)
      <3>1. Same(B2[c], B1[c]) BY <1>12
      <3> QED BY <3>1 DEF Rm, Same
    <2>2. Rm(B2) \subseteq Blocks /\ Rm(B1) \subseteq Blocks BY DEF Rm
    <2> QED BY <2>1, <2>2
  <1>14. Others(B, own, kown, B2, own, kown, b)
    <2>1. ASSUME NEW c \in Blocks, c # b PROVE Same(B2[c], B[c])
      <3>1. Same(B2[c], B1[c]) /\ B1[c] = B[c] BY <1>8, <1>12, <2>1
      <3> QED BY <3>1
    <2> QED BY <2>1 DEF Others
  <1>15. PlaceOf(own[b], kown[b], t) BY <1>3, <1>4 DEF PlaceOf
  <1>16. CountOK(h2, own, kown, t)
    <2>1. CountOK(H[t], own, kown, t) BY DEF Mem
    <2> QED BY <1>12, <2>1 DEF CountOK, SameHeap
  <1>17. Same(B2[b], y) BY <1>8, <1>12
  <1>18. BlockOK(B2[b], own[b], kown[b], hs \ {off}) /\ KindOK(B2[b])
    <2>1. y.restcnt <= y.cnt
      <3>1. y.restcnt \in Nat /\ y.cnt \in Nat BY <1>7 DEF BlkRec
      <3>2. y.restcnt < y.cnt BY <1>7 DEF SmallOK
      <3> QED BY <3>1, <3>2
    <2>2. y.binndx = l BY <1>6, <1>7 DEF SameBlk
    <2>3. BlockOK(y, own[b], kown[b], hs \ {off}) BY <1>3, <1>4, <1>7, <1>8, <2>1, <2>2 DEF BlockOK
    <2>4. KindOK(y)
      <3>1. x.small = TRUE BY <1>3, <1>5, <1>6, Zenon DEF KindOK
      <3>2. y.small = TRUE BY <1>7, <3>1, Zenon DEF SameBlk
      <3> QED BY <2>2, <3>2, Zenon DEF KindOK
    <2> QED BY <1>17, <2>3, <2>4, SameOK
  <1>19. Stays(B2[b], x) BY <1>7, <1>8, <1>17 DEF Stays, Same, SameBlk
  <1>20. BackPlace(H, B, own, kown, held, t, b, off, h2, B2)
    <2>1. Shape([H EXCEPT ![t] = h2], B2, own, kown, Rm(B2)) BY <1>12, <1>13
    <2>2. BlockOK(B2[b], own[b], kown[b], held[b] \ {off}) /\ KindOK(B2[b]) /\ Stays(B2[b], B[b]) BY <1>18, <1>19
    <2>3. h2 \in HeapRec BY <1>12
    <2> QED BY <1>14, <1>15, <1>16, <2>1, <2>2, <2>3, BackStep
  <1>21. CountsIn(h2, H[t]) BY <1>12 DEF CountsIn, SameHeap
  <1>22. Back(H, B, own, kown, held, t, b, off, h2, B2) BY <1>20, <1>21 DEF Back
  <1> QED BY <1>22 DEF h2, B2

\* A block about to be kept.
LEMMA KeptBlkIs ==
    ASSUME NEW x \in BlkRec, NEW n \in Refs
    PROVE  /\ KeptBlk(x, n) \in BlkRec /\ SameBlk(KeptBlk(x, n), x) /\ KeptBlk(x, n).next = n
           /\ KeptBlk(x, n).restcnt = x.restcnt /\ KeptBlk(x, n).shift = x.shift
  <1> DEFINE y == KeptBlk(x, n)
  <1>1. 0 \in Refs /\ <<>> \in Seq(Nat) BY BlockRefs
  <1>2. y \in BlkRec BY <1>1 DEF BlkRec, KeptBlk
  <1>3. SameBlk(y, x) /\ y.next = n /\ y.restcnt = x.restcnt /\ y.shift = x.shift
    BY DEF BlkRec, KeptBlk, SameBlk
  <1> QED BY <1>2, <1>3

\* A block whose last chunk came back leaves its bin.
LEMMA EmptyOutOK ==
    ASSUME NEW H, NEW B, NEW own, NEW kown, NEW held, Mem(H, B, own, kown, held),
           NEW t \in Threads, H[t] # NoHeap, NEW b \in Blocks, NEW l \in Lists, l # BigList, own[b] = <<t, l>>,
           NEW off \in held[b], ~(Len(B[b].free) + 1 < B[b].cnt),
           NEW s, s = [h |-> H[t], B |-> B], NEW u, u = Unlink(s, l, b)
    PROVE  EmptyOut(H, B, own, kown, held, t, l, b, off, u.h, u.B)
  <1> DEFINE h1 == u.h
             B1 == u.B
             x == B[b]
             hs == held[b]
  <1>1. Shape(H, B, own, kown, Rm(B)) BY DEF Mem
  <1>2. x \in BlkRec /\ x # NoBlk /\ kown[b] = NULL BY <1>1, ShapeNode
  <1>3. own[b] # NoList /\ own[b][1] = t /\ own[b][2] = l BY NoListIsNone DEF Ids
  <1>4. BlockOK(x, own[b], kown[b], hs) /\ hs \in SUBSET Nat BY DEF Mem
  <1>5. x.binndx = l /\ SmallOK(x, hs) BY <1>2, <1>3, <1>4 DEF BlockOK
  <1>6. hs = {off}
    <2> HIDE DEF x, hs
    <2>1. off \in hs /\ ~(Len(x.free) + 1 < x.cnt) BY DEF x, hs
    <2> QED BY <1>2, <1>4, <1>5, <2>1, LastOK
  <1>7. Unlinked(H, B, own, kown, Rm(B), t, l, b, h1, B1)
    <2>1. SameBut(Rm(B), Rm(B), b) BY DEF SameBut
    <2>2. h1 = Unlink(s, l, b).h /\ B1 = Unlink(s, l, b).B OBVIOUS
    <2> HIDE DEF h1, B1
    <2> QED BY <1>1, <2>1, <2>2, ShapeUnlink
  <1> HIDE DEF h1, B1
  <1>8. /\ Shape([H EXCEPT ![t] = h1], B1, [own EXCEPT ![b] = NoList], kown, Rm(B))
        /\ h1 \in HeapRec /\ SameHeap(h1, H[t]) /\ \A c \in Blocks : Same(B1[c], B[c])
    BY <1>7 DEF Unlinked, OnlyLinks
  <1>9. B1 \in BlksType BY <1>8, ShapeTyped DEF ShapeTypes
  <1>10. B1[b] \in BlkRec BY <1>2, <1>8, <1>9 DEF BlksType, Same
  <1>11. PlaceOf(own[b], kown[b], t) BY <1>2, <1>3 DEF PlaceOf
  <1>12. EmptyOut(H, B, own, kown, held, t, l, b, off, h1, B1) BY <1>2, <1>5, <1>6, <1>8, <1>10, <1>11 DEF EmptyOut
  <1> QED BY <1>12 DEF h1, B1

\* A block with no chunk in use is unmapped.
LEMMA BackUnmap ==
    ASSUME NEW H, NEW B, NEW own, NEW kown, NEW held, Mem(H, B, own, kown, held),
           NEW t \in Threads, H[t] # NoHeap, NEW b \in Blocks, NEW l \in Lists, l # BigList, own[b] = <<t, l>>,
           NEW off, NEW h1, NEW B1, EmptyOut(H, B, own, kown, held, t, l, b, off, h1, B1),
           NEW B2, B2 = [B1 EXCEPT ![b] = NoBlk]
    PROVE  Back(H, B, own, kown, held, t, b, off, h1, B2)
  <1> DEFINE H1 == [H EXCEPT ![t] = h1]
             own2 == [own EXCEPT ![b] = NoList]
  <1>1. /\ Shape(H1, B1, own2, kown, Rm(B)) /\ h1 \in HeapRec /\ SameHeap(h1, H[t])
        /\ \A c \in Blocks : Same(B1[c], B[c])
        /\ held[b] = {off} /\ kown[b] = NULL /\ PlaceOf(own[b], kown[b], t)
    BY DEF EmptyOut
  <1>2. Shape(H, B, own, kown, Rm(B)) BY DEF Mem
  <1>3. ShapeTypes(H, B, own, kown) BY <1>2, ShapeTyped
  <1>4. ShapeTypes(H1, B1, own2, kown) /\ Placed(H1, B1, own2, kown) BY <1>1, ShapeTyped
  <1>5. own2[b] = NoList /\ \A c \in Blocks : c # b => own2[c] = own[c] BY <1>3 DEF ShapeTypes
  <1>6. B2 \in BlksType /\ B2[b] = NoBlk /\ \A c \in Blocks : c # b => B2[c] = B1[c] BY <1>4 DEF ShapeTypes, BlksType
  <1>7. Shape(H1, B2, own2, kown, Rm(B))
    <2>1. \A c \in Blocks : own2[c] # NoList \/ kown[c] # NULL => B1[c] # NoBlk
      BY <1>1, <1>4 DEF Shape, ShapeBy, Links, Placed
    <2>2. \A c \in Blocks : own2[c] # NoList => B2[c] # NoBlk /\ B2[c].next = B1[c].next /\ B2[c].prev = B1[c].prev
      BY <1>5, <1>6, <2>1
    <2>3. \A c \in Blocks : kown[c] # NULL => B2[c] # NoBlk /\ B2[c].next = B1[c].next BY <1>1, <1>6, <2>1
    <2>4. B2 \in BlksType BY <1>6
    <2> HIDE DEF H1, own2
    <2> QED BY <1>1, <2>2, <2>3, <2>4, ShapeBlocks
  <1>8. Others(B, own, kown, B2, own2, kown, b)
    <2>1. ASSUME NEW c \in Blocks, c # b PROVE Same(B2[c], B[c])
      <3>1. Same(B1[c], B[c]) /\ B2[c] = B1[c] BY <1>1, <1>6, <2>1
      <3> QED BY <3>1
    <2> QED BY <1>5, <2>1 DEF Others
  <1>9. Shape(H1, B2, own2, kown, Rm(B2))
    <2>1. SameBut(Rm(B), Rm(B2), b) BY <1>8, RmSame DEF Others
    <2> HIDE DEF H1, own2
    <2> QED BY <1>5, <1>7, <2>1, ShapeRoom
  <1>10. CountOK(h1, own2, kown, t)
    <2>1. CountOK(H[t], own, kown, t) BY DEF Mem
    <2>2. H[t] \in HeapRec BY <1>3 DEF ShapeTypes, HeapsType
    <2>3. H[t].blkfreecnt \in Nat /\ H[t].biglrucnt \in Nat BY <2>2 DEF HeapRec
    <2>4. NoList # <<t, BigList>> /\ NULL # t /\ kown[b] # t /\ own[b] # <<t, BigList>>
      <3>1. <<t, BigList>> \in Ids BY DEF Ids, Lists
      <3>2. NoList # <<t, BigList>> BY <3>1, NoListIsNone
      <3>3. own[b] # <<t, BigList>> OBVIOUS
      <3> QED BY <1>1, <3>2, <3>3, HeapAssumption
    <2>5. h1.biglrucnt = H[t].biglrucnt + (IF NoList = <<t, BigList>> THEN 1 ELSE 0)
                                        - (IF own[b] = <<t, BigList>> THEN 1 ELSE 0)
      BY <1>1, <2>3, <2>4 DEF SameHeap
    <2>6. h1.blkfreecnt = H[t].blkfreecnt + (IF NULL = t THEN 1 ELSE 0) - (IF kown[b] = t THEN 1 ELSE 0)
      BY <1>1, <2>3, <2>4 DEF SameHeap
    <2>7. CountOK(h1, [own EXCEPT ![b] = NoList], [kown EXCEPT ![b] = NULL], t)
      BY <1>3, <2>1, <2>5, <2>6, CountMove DEF ShapeTypes
    <2>8. [kown EXCEPT ![b] = NULL] = kown BY <1>1, <1>3 DEF ShapeTypes
    <2> QED BY <2>7, <2>8
  <1>11. BlockOK(B2[b], own2[b], kown[b], held[b] \ {off}) /\ KindOK(B2[b])
    <2>1. held[b] \ {off} = {} BY <1>1
    <2> QED BY <1>1, <1>5, <1>6, <2>1 DEF BlockOK, KindOK
  <1>12. PlaceOf(own2[b], kown[b], t) BY <1>1, <1>5 DEF PlaceOf
  <1>13. BackPlace(H, B, own, kown, held, t, b, off, h1, B2)
    <2> HIDE DEF own2
    <2> QED BY <1>1, <1>6, <1>8, <1>9, <1>10, <1>11, <1>12, BackStep
  <1>14. CountsIn(h1, H[t]) BY <1>1 DEF CountsIn, SameHeap
  <1> QED BY <1>13, <1>14 DEF Back

\* A block with no chunk in use is kept.
LEMMA BackKeep ==
    ASSUME NEW H, NEW B, NEW own, NEW kown, NEW held, Mem(H, B, own, kown, held),
           NEW t \in Threads, H[t] # NoHeap, NEW b \in Blocks, NEW l \in Lists, l # BigList, own[b] = <<t, l>>,
           NEW off, NEW h1, NEW B1, EmptyOut(H, B, own, kown, held, t, l, b, off, h1, B1),
           h1.blkfreecnt < KeepBlk,
           NEW h2, h2 = [h1 EXCEPT !.blkfree = b, !.blkfreecnt = h1.blkfreecnt + 1],
           NEW B2, B2 = [B1 EXCEPT ![b] = KeptBlk(B1[b], h1.blkfree)]
    PROVE  Back(H, B, own, kown, held, t, b, off, h2, B2)
  <1> DEFINE H1 == [H EXCEPT ![t] = h1]
             own2 == [own EXCEPT ![b] = NoList]
             kown2 == [kown EXCEPT ![b] = t]
             y == KeptBlk(B1[b], h1.blkfree)
  <1>1. /\ Shape(H1, B1, own2, kown, Rm(B)) /\ h1 \in HeapRec /\ SameHeap(h1, H[t])
        /\ \A c \in Blocks : Same(B1[c], B[c]) /\ B1[b] \in BlkRec /\ B[b] # NoBlk /\ B[b].binndx = l
        /\ held[b] = {off} /\ kown[b] = NULL /\ PlaceOf(own[b], kown[b], t)
    BY DEF EmptyOut
  <1>2. Shape(H, B, own, kown, Rm(B)) BY DEF Mem
  <1>3. ShapeTypes(H, B, own, kown) BY <1>2, ShapeTyped
  <1>4. ShapeTypes(H1, B1, own2, kown) BY <1>1, ShapeTyped
  <1>5. own2[b] = NoList /\ \A c \in Blocks : c # b => own2[c] = own[c] BY <1>3 DEF ShapeTypes
  <1>6. kown2[b] = t /\ \A c \in Blocks : c # b => kown2[c] = kown[c] BY <1>3 DEF ShapeTypes
  <1>7. h1.blkfree \in Refs /\ h1.blkfreecnt \in Nat /\ h1.biglrucnt \in Nat BY <1>1 DEF HeapRec
  <1>8. /\ h2 \in HeapRec /\ h2.head = h1.head /\ h2.tail = h1.tail /\ h2.blkfree = b /\ h2.lock = h1.lock
        /\ h2.blkfreecnt = h1.blkfreecnt + 1 /\ h2.biglrucnt = h1.biglrucnt
    <2> DEFINE n == h1.blkfreecnt + 1
    <2>1. n \in Nat /\ b \in Refs BY <1>7, BlockRefs
    <2>2. h2 = [h1 EXCEPT !.blkfree = b, !.blkfreecnt = n] OBVIOUS
    <2> HIDE DEF n
    <2>3. h2 \in HeapRec BY <1>1, <2>1, <2>2 DEF HeapRec
    <2>4. /\ h2.head = h1.head /\ h2.tail = h1.tail /\ h2.blkfree = b /\ h2.lock = h1.lock
          /\ h2.blkfreecnt = n /\ h2.biglrucnt = h1.biglrucnt
      BY <1>1, <2>2 DEF HeapRec
    <2> QED BY <2>3, <2>4 DEF n
  <1>9. /\ y \in BlkRec /\ SameBlk(y, B1[b]) /\ y.next = h1.blkfree /\ y.restcnt = B1[b].restcnt /\ y.shift = B1[b].shift
    BY <1>1, <1>7, KeptBlkIs
  <1> HIDE DEF y
  <1>10. B2 \in BlksType /\ B2[b] = y /\ y # NoBlk /\ \A c \in Blocks : c # b => B2[c] = B1[c]
    BY <1>4, <1>9, NoBlkApart DEF ShapeTypes, BlksType, y
  <1>11. Shape([H EXCEPT ![t] = h2], B2, own2, kown2, Rm(B))
    <2>0. H \in HeapsType /\ h1 # NoHeap BY <1>1, <1>3, NoHeapApart DEF ShapeTypes
    <2>1. H1[t] = h1 /\ H1[t] # NoHeap /\ [H1 EXCEPT ![t] = h2] = [H EXCEPT ![t] = h2]
      BY <2>0, HeapTwice, ZenonT(60)
    <2>2. y.next = H1[t].blkfree /\ h2.head = H1[t].head /\ h2.tail = H1[t].tail BY <1>8, <1>9, <2>1
    <2>3. Shape([H1 EXCEPT ![t] = h2], [B1 EXCEPT ![b] = y], own2, [kown EXCEPT ![b] = t], Rm(B))
      <3> HIDE DEF H1, own2
      <3> QED BY <1>1, <1>5, <1>8, <1>9, <2>1, <2>2, ShapePush
    <2> QED BY <2>1, <2>3 DEF y
  <1>12. Others(B, own, kown, B2, own2, kown2, b)
    <2>1. ASSUME NEW c \in Blocks, c # b PROVE Same(B2[c], B[c])
      <3>1. Same(B1[c], B[c]) /\ B2[c] = B1[c] BY <1>1, <1>10, <2>1
      <3> QED BY <3>1
    <2> QED BY <1>5, <1>6, <2>1 DEF Others
  <1>13. Shape([H EXCEPT ![t] = h2], B2, own2, kown2, Rm(B2))
    <2>1. SameBut(Rm(B), Rm(B2), b) BY <1>12, RmSame DEF Others
    <2> HIDE DEF own2, kown2
    <2> QED BY <1>5, <1>11, <2>1, ShapeRoom
  <1>14. CountOK(h2, own2, kown2, t)
    <2>1. CountOK(H[t], own, kown, t) BY DEF Mem
    <2>2. NoList # <<t, BigList>> /\ kown[b] # t /\ own[b] # <<t, BigList>>
      <3>1. <<t, BigList>> \in Ids BY DEF Ids, Lists
      <3>2. NoList # <<t, BigList>> BY <3>1, NoListIsNone
      <3>3. own[b] # <<t, BigList>> OBVIOUS
      <3> QED BY <1>1, <3>2, <3>3, HeapAssumption
    <2>3. h2.biglrucnt = H[t].biglrucnt + (IF NoList = <<t, BigList>> THEN 1 ELSE 0)
                                        - (IF own[b] = <<t, BigList>> THEN 1 ELSE 0)
      BY <1>1, <1>7, <1>8, <2>2 DEF SameHeap
    <2>4. h2.blkfreecnt = H[t].blkfreecnt + (IF t = t THEN 1 ELSE 0) - (IF kown[b] = t THEN 1 ELSE 0)
      BY <1>1, <1>7, <1>8, <2>2 DEF SameHeap
    <2> QED BY <1>3, <2>1, <2>3, <2>4, CountMove DEF ShapeTypes
  <1>15. Same(B1[b], B[b]) /\ BlockOK(B[b], own[b], kown[b], held[b]) /\ KindOK(B[b]) BY <1>1 DEF Mem
  <1>16. BlockOK(B2[b], own2[b], kown2[b], held[b] \ {off})
    <2>1. held[b] \ {off} = {} /\ t # NULL BY <1>1, HeapAssumption
    <2>2. B[b].restcnt <= B[b].cnt BY <1>1, <1>15 DEF BlockOK
    <2>3. y.restcnt <= y.cnt /\ y.binndx = l BY <1>1, <1>9, <1>15, <2>2 DEF Same, SameBlk
    <2> QED BY <1>5, <1>6, <1>10, <2>1, <2>3 DEF BlockOK
  <1>17. KindOK(B2[b])
    <2>1. B[b].small = TRUE BY <1>1, <1>15, Zenon DEF KindOK
    <2>2. y.small = TRUE BY <1>9, <1>15, <2>1, Zenon DEF Same, SameBlk
    <2>3. y.binndx = l BY <1>1, <1>9, <1>15 DEF Same, SameBlk
    <2> QED BY <1>10, <2>2, <2>3, Zenon DEF KindOK
  <1>18. Stays(B2[b], B[b]) BY <1>9, <1>10, <1>15 DEF Stays, Same, SameBlk
  <1>19. PlaceOf(own2[b], kown2[b], t) BY <1>5, <1>6 DEF PlaceOf
  <1>20. BackPlace(H, B, own, kown, held, t, b, off, h2, B2)
    <2>1. h2 \in HeapRec /\ PlaceOf(own[b], kown[b], t) BY <1>1, <1>8
    <2> HIDE DEF own2, kown2
    <2> QED BY <1>12, <1>13, <1>14, <1>16, <1>17, <1>18, <1>19, <2>1, BackStep
  <1>21. CountsIn(h2, H[t])
    <2>1. KeepBlk \in Nat BY HeapAssumption
    <2>2. h2.blkfreecnt <= KeepBlk BY <1>7, <1>8, <2>1
    <2> QED BY <1>1, <1>8, <2>2 DEF CountsIn, SameHeap
  <1> QED BY <1>20, <1>21 DEF Back

\* Only the free stack of block b changes.
LEMMA ExceptFree ==
    ASSUME NEW g, NEW B, NEW b, NEW v
    PROVE  [[h |-> g, B |-> B] EXCEPT !.B[b].free = v] = [h |-> g, B |-> [B EXCEPT ![b] = [B[b] EXCEPT !.free = v]]]
  OBVIOUS

\* nc_free_small.
LEMMA BackSmall ==
    ASSUME NEW H, NEW B, NEW own, NEW kown, NEW held, Mem(H, B, own, kown, held),
           NEW t \in Threads, H[t] # NoHeap, NEW b \in Blocks, B[b] # NoBlk, B[b].binndx # BigList,
           PlaceOf(own[b], kown[b], t), NEW off \in held[b],
           NEW s, s = [h |-> H[t], B |-> B], NEW p, p = FreeSmall(s, b, off)
    PROVE  Back(H, B, own, kown, held, t, b, off, p.h, p.B)
  <1> DEFINE l == B[b].binndx
  <1>1. Shape(H, B, own, kown, Rm(B)) BY DEF Mem
  <1>2. ShapeTypes(H, B, own, kown) BY <1>1, ShapeTyped
  <1>3. BlockOK(B[b], own[b], kown[b], held[b]) BY DEF Mem
  <1>4. kown[b] = NULL BY <1>3 DEF BlockOK
  <1>5. own[b] # NoList /\ own[b] \in Ids BY <1>2, <1>3, <1>4 DEF BlockOK, ShapeTypes
  <1>6. own[b] = <<t, l>> /\ l \in Lists
    <2>1. own[b] \in Threads \X Lists BY <1>5 DEF Ids
    <2>2. own[b] = <<own[b][1], own[b][2]>> /\ own[b][2] \in Lists BY <2>1
    <2>3. own[b][2] = l BY <1>3, <1>5 DEF BlockOK
    <2>4. own[b][1] = t BY <1>5 DEF PlaceOf
    <2> QED BY <2>2, <2>3, <2>4
  <1>7. s.h = H[t] /\ s.B = B OBVIOUS
  <1>8. B \in BlksType /\ H \in HeapsType BY <1>2 DEF ShapeTypes
  <1>9. CASE Len(B[b].free) + 1 < B[b].cnt
    <2> DEFINE y == [B[b] EXCEPT !.free = <<off>> \o B[b].free]
               B1 == [B EXCEPT ![b] = y]
               s1 == [h |-> H[t], B |-> B1]
               z == [s EXCEPT !.B[b].free = <<off>> \o @]
    <2>1. z = s1
      <3>1. z = [s EXCEPT !.B[b].free = <<off>> \o s.B[b].free] OBVIOUS
      <3> DEFINE v == <<off>> \o B[b].free
      <3>2. z = [[h |-> H[t], B |-> B] EXCEPT !.B[b].free = v] BY <1>7, <3>1
      <3> HIDE DEF v, z
      <3>3. z = [h |-> H[t], B |-> [B EXCEPT ![b] = [B[b] EXCEPT !.free = v]]] BY <3>2, ExceptFree
      <3> QED BY <3>3 DEF v
    <2>2. B1[b] = y BY <1>8 DEF BlksType
    <2>3. p = IF z.B[b].prev # 0 THEN PushHead(Unlink(z, l, b), l, b) ELSE z
      BY <1>7, <1>9, Zenon DEF FreeSmall
    <2>4. z.B[b] = y BY <2>1, <2>2
    <2> HIDE DEF z, y
    <2>5. p = IF y.prev # 0 THEN PushHead(Unlink(s1, l, b), l, b) ELSE s1 BY <2>1, <2>3, <2>4
    <2>6. PutOn(B[b], y, off) BY DEF PutOn, y
    <2> HIDE DEF l
    <2>7. l # BigList BY DEF l
    <2> QED BY <1>6, <1>9, <2>5, <2>6, <2>7, BackOne
  <1>10. CASE ~(Len(B[b].free) + 1 < B[b].cnt)
    <2> DEFINE u == Unlink(s, l, b)
               h1 == u.h
               B1 == u.B
    <2>1. EmptyOut(H, B, own, kown, held, t, l, b, off, h1, B1)
      <3> HIDE DEF l
      <3>1. l # BigList BY DEF l
      <3> QED BY <1>6, <1>10, <3>1, EmptyOutOK
    <2>2. u = [h |-> h1, B |-> B1] BY DEF Unlink
    <2>3. p = IF h1.blkfreecnt < KeepBlk
              THEN [h |-> [h1 EXCEPT !.blkfree = b, !.blkfreecnt = @ + 1],
                    B |-> [B1 EXCEPT ![b].next = h1.blkfree, ![b].prev = 0, ![b].free = <<>>]]
              ELSE [u EXCEPT !.B[b] = NoBlk]
      BY <1>7, <1>10, Zenon DEF FreeSmall
    <2> HIDE DEF u, h1, B1
    <2>4. B1 \in BlksType
      <3>1. Shape([H EXCEPT ![t] = h1], B1, [own EXCEPT ![b] = NoList], kown, Rm(B)) BY <2>1 DEF EmptyOut
      <3> QED BY <3>1, ShapeTyped DEF ShapeTypes
    <2>5. CASE h1.blkfreecnt < KeepBlk
      <3> DEFINE h2 == [h1 EXCEPT !.blkfree = b, !.blkfreecnt = h1.blkfreecnt + 1]
                 B2 == [B1 EXCEPT ![b].next = h1.blkfree, ![b].prev = 0, ![b].free = <<>>]
      <3>1. p = [h |-> h2, B |-> B2] BY <2>3, <2>5, Zenon
      <3>2. B2 = [B1 EXCEPT ![b] = KeptBlk(B1[b], h1.blkfree)] 
        <4> DEFINE n == h1.blkfree
        <4>1. B2 = [B1 EXCEPT ![b].next = n, ![b].prev = 0, ![b].free = <<>>] OBVIOUS
        <4> HIDE DEF n, B2
        <4>2. [B1 EXCEPT ![b].next = n, ![b].prev = 0, ![b].free = <<>>] = [B1 EXCEPT ![b] = KeptBlk(B1[b], n)]
          BY <2>4 DEF KeptBlk, BlksType
        <4>3. B2 = [B1 EXCEPT ![b] = KeptBlk(B1[b], n)] BY <4>1, <4>2, Zenon
        <4> QED BY <4>3 DEF n
      <3> HIDE DEF B2
      <3>3. Back(H, B, own, kown, held, t, b, off, h2, B2)
        <4> HIDE DEF l
        <4>1. l # BigList BY DEF l
        <4>2. h2 = [h1 EXCEPT !.blkfree = b, !.blkfreecnt = h1.blkfreecnt + 1] OBVIOUS
        <4> HIDE DEF h2
        <4> QED BY <1>6, <2>1, <2>5, <3>2, <4>1, <4>2, BackKeep
      <3> HIDE DEF h2
      <3> QED BY <3>1, <3>3
    <2>6. CASE ~(h1.blkfreecnt < KeepBlk)
      <3> DEFINE B2 == [B1 EXCEPT ![b] = NoBlk]
      <3>1. p = [u EXCEPT !.B[b] = NoBlk] BY <2>3, <2>6, Zenon
      <3>2. p.h = h1 /\ p.B = B2 BY <2>2, <3>1
      <3>3. Back(H, B, own, kown, held, t, b, off, h1, B2)
        <4> HIDE DEF l
        <4>1. l # BigList BY DEF l
        <4> QED BY <1>6, <2>1, <4>1, BackUnmap
      <3> QED BY <3>2, <3>3
    <2> QED BY <2>5, <2>6
  <1> QED BY <1>9, <1>10

\* The counters of a heap do not matter to its lists.
LEMMA ShapeCounts ==
    ASSUME NEW H, NEW B, NEW own, NEW kown, NEW RM, Shape(H, B, own, kown, RM), NEW t \in Threads, H[t] # NoHeap,
           NEW h2 \in HeapRec, h2.head = H[t].head, h2.tail = H[t].tail, h2.blkfree = H[t].blkfree
    PROVE  Shape([H EXCEPT ![t] = h2], B, own, kown, RM)
  <1> DEFINE H2 == [H EXCEPT ![t] = h2]
  <1>1. H \in HeapsType /\ B \in BlksType BY ShapeTyped DEF ShapeTypes
  <1>2. /\ H2 \in HeapsType /\ Hd(H2) = Hd(H) /\ Tl(H2) = Tl(H)
        /\ \A z \in Threads : H[z] # NoHeap => H2[z] # NoHeap
    <2>1. [H EXCEPT ![t] = h2] \in HeapsType BY <1>1, HeapFrame, Zenon
    <2>2. Hd([H EXCEPT ![t] = h2]) = Hd(H) BY <1>1, HeapFrame, Zenon
    <2>3. Tl([H EXCEPT ![t] = h2]) = Tl(H) BY <1>1, HeapFrame, Zenon
    <2>4. \A x \in Threads : H[x] # NoHeap => [H EXCEPT ![t] = h2][x] # NoHeap BY <1>1, HeapFrame, ZenonT(60)
    <2> QED BY <2>1, <2>2, <2>3, <2>4, Zenon
  <1>3. Kp(H2) = Kp(H) BY <1>1, KpSame
  <1>4. \A c \in Blocks : own[c] # NoList \/ kown[c] # NULL => B[c] # NoBlk
    BY ShapeTyped DEF Shape, ShapeBy, Links, Placed
  <1> HIDE DEF H2
  <1>5. Shape(H2, B, own, kown, RM) BY <1>1, <1>2, <1>3, <1>4, ShapeFrame
  <1> QED BY <1>5 DEF H2

\* A large block goes to the head of the list of large blocks.
LEMMA BigInOK ==
    ASSUME NEW H, NEW B, NEW own, NEW kown, NEW held, Mem(H, B, own, kown, held),
           NEW t \in Threads, H[t] # NoHeap, NEW b \in Blocks, B[b] # NoBlk, B[b].binndx = BigList, held[b] # {},
           NEW h2 \in HeapRec, h2.head = [H[t].head EXCEPT ![BigList] = b], h2.blkfree = H[t].blkfree,
           h2.tail = [H[t].tail EXCEPT ![BigList] = IF H[t].tail[BigList] = 0 THEN b ELSE H[t].tail[BigList]],
           h2.blkfreecnt = H[t].blkfreecnt, h2.biglrucnt = H[t].biglrucnt + 1,
           NEW B2, B2 = FirstB(B, b, H[t].head[BigList])
    PROVE  BigIn(H, B, own, kown, held, t, b, h2, B2)
  <1> DEFINE own2 == [own EXCEPT ![b] = <<t, BigList>>]
  <1>1. Shape(H, B, own, kown, Rm(B)) /\ BigList \in Lists BY DEF Mem, Lists
  <1>2. ShapeTypes(H, B, own, kown) BY <1>1, ShapeTyped
  <1>3. BlockOK(B[b], own[b], kown[b], held[b]) /\ KindOK(B[b]) BY DEF Mem
  <1>4. own[b] = NoList /\ kown[b] = NULL BY <1>3 DEF BlockOK
  <1>5. B[b].restcnt = 0 /\ B[b].free = <<>> /\ B[b].cnt = 1 BY <1>3 DEF BlockOK
  <1>6. <<t, BigList>> \in Ids /\ <<t, BigList>> # NoList /\ <<t, BigList>>[1] = t /\ <<t, BigList>>[2] = BigList
    BY <1>1, NoListIsNone DEF Ids
  <1>7. H[t].head[BigList] \notin Rm(B)
    <2> DEFINE c == H[t].head[BigList]
    <2>1. Ends(H, own, t, BigList) BY <1>1, ShapeEnds
    <2>2. CASE c = 0 BY <2>2, BlockRefs DEF Rm
    <2>3. CASE c # 0
      <3>1. c \in Blocks /\ own[c] = <<t, BigList>> BY <2>1, <2>3 DEF Ends
      <3>2. BlockOK(B[c], own[c], kown[c], held[c]) BY <3>1 DEF Mem
      <3> HIDE DEF c
      <3>3. CASE B[c] # NoBlk
        <4>1. B[c].restcnt = 0 /\ B[c].free = <<>> BY <1>6, <3>1, <3>2, <3>3 DEF BlockOK
        <4>2. ~(B[c].restcnt + Len(B[c].free) > 0) BY <4>1
        <4> QED BY <4>2 DEF Rm, c
      <3>4. CASE B[c] = NoBlk BY <3>4 DEF Rm, c
      <3> QED BY <3>3, <3>4
    <2> QED BY <2>2, <2>3
  <1>8. PutIn(H, B, own, kown, Rm(B), t, BigList, b, h2, B2)
    <2>1. SameBut(Rm(B), Rm(B), b) BY DEF SameBut
    <2> QED BY <1>1, <1>4, <1>7, <2>1, ShapePutFirst
  <1>9. Shape([H EXCEPT ![t] = h2], B2, own2, kown, Rm(B)) /\ \A c \in Blocks : Same(B2[c], B[c]) BY <1>8 DEF PutIn
  <1>10. Rm(B2) = Rm(B)
    <2>1. ASSUME NEW c \in Blocks PROVE c \in Rm(B2) <=> c \in Rm(B)
      <3>1. Same(B2[c], B[c]) BY <1>9
      <3> QED BY <3>1 DEF Rm, Same
    <2>2. Rm(B2) \subseteq Blocks /\ Rm(B) \subseteq Blocks BY DEF Rm
    <2> QED BY <2>1, <2>2
  <1>11. own2[b] = <<t, BigList>> /\ \A c \in Blocks : c # b => own2[c] = own[c] BY <1>2 DEF ShapeTypes
  <1>12. CountOK(h2, own2, kown, t)
    <2>1. CountOK(H[t], own, kown, t) BY DEF Mem
    <2>2. H[t] \in HeapRec BY <1>2 DEF ShapeTypes, HeapsType
    <2>3. H[t].blkfreecnt \in Nat /\ H[t].biglrucnt \in Nat BY <2>2 DEF HeapRec
    <2>4. NULL # t /\ kown[b] # t /\ own[b] # <<t, BigList>> BY <1>4, <1>6, HeapAssumption
    <2>5. h2.biglrucnt = H[t].biglrucnt + (IF <<t, BigList>> = <<t, BigList>> THEN 1 ELSE 0)
                                        - (IF own[b] = <<t, BigList>> THEN 1 ELSE 0)
      BY <2>3, <2>4
    <2>6. h2.blkfreecnt = H[t].blkfreecnt + (IF NULL = t THEN 1 ELSE 0) - (IF kown[b] = t THEN 1 ELSE 0)
      BY <2>3, <2>4
    <2>7. CountOK(h2, [own EXCEPT ![b] = <<t, BigList>>], [kown EXCEPT ![b] = NULL], t)
      BY <1>2, <2>1, <2>5, <2>6, CountMove DEF ShapeTypes
    <2>8. [kown EXCEPT ![b] = NULL] = kown BY <1>2, <1>4 DEF ShapeTypes
    <2> QED BY <2>7, <2>8
  <1>13. BlockOK(B2[b], own2[b], kown[b], {}) /\ KindOK(B2[b])
    <2>1. BlockOK(B[b], <<t, BigList>>, NULL, {})
      <3>1. B[b].restcnt <= B[b].cnt BY <1>5
      <3> QED BY <1>5, <1>6, <3>1 DEF BlockOK
    <2>2. Same(B2[b], B[b]) BY <1>9
    <2> QED BY <1>3, <1>4, <1>11, <2>1, <2>2, SameOK
  <1>14. Others(B, own, kown, B2, own2, kown, b) BY <1>9, <1>11 DEF Others
  <1>15. PlaceOf(own[b], kown[b], t) /\ PlaceOf(own2[b], kown[b], t) BY <1>4, <1>6, <1>11 DEF PlaceOf
  <1>16. Mem([H EXCEPT ![t] = h2], B2, own2, kown, [held EXCEPT ![b] = {}])
    <2>1. {} \in SUBSET Nat OBVIOUS
    <2>2. Shape([H EXCEPT ![t] = h2], B2, own2, kown, Rm(B2)) BY <1>9, <1>10
    <2> HIDE DEF own2
    <2> QED BY <1>12, <1>13, <1>14, <1>15, <2>1, <2>2, MemStep
  <1> QED BY <1>4, <1>9, <1>16 DEF BigIn

\* The large block not used for longest is unmapped.
LEMMA LastGoneOK ==
    ASSUME NEW H, NEW B, NEW own, NEW kown, NEW held, Mem(H, B, own, kown, held),
           NEW t \in Threads, H[t] # NoHeap, NEW d, d = H[t].tail[BigList], d # 0, H[t].head[BigList] # d,
           NEW e, e = B[d].prev,
           NEW h2, NEW B2, LastOut(H[t], B, d, e, h2, B2)
    PROVE  LastGone(H, B, own, kown, held, t, d, h2, B2)
  <1> DEFINE own2 == [own EXCEPT ![d] = NoList]
             s == [h |-> H[t], B |-> B]
             u == Unlink(s, BigList, d)
             h1 == u.h
             B1 == u.B
             H1 == [H EXCEPT ![t] = h1]
             H2 == [H EXCEPT ![t] = h2]
  <1>0. /\ h2 \in HeapRec /\ h2.head = H[t].head /\ h2.tail = [H[t].tail EXCEPT ![BigList] = e]
        /\ h2.blkfree = H[t].blkfree /\ h2.blkfreecnt = H[t].blkfreecnt /\ h2.biglrucnt = H[t].biglrucnt - 1
    BY DEF LastOut
  <1>1. Shape(H, B, own, kown, Rm(B)) /\ BigList \in Lists BY DEF Mem, Lists
  <1>2. ShapeTypes(H, B, own, kown) /\ H \in HeapsType /\ B \in BlksType BY <1>1, ShapeTyped DEF ShapeTypes
  <1>3. d \in Blocks /\ own[d] = <<t, BigList>>
    <2>1. Ends(H, own, t, BigList) BY <1>1, ShapeEnds
    <2> QED BY <2>1 DEF Ends
  <1>4. <<t, BigList>> \in Ids /\ <<t, BigList>> # NoList /\ <<t, BigList>>[1] = t /\ <<t, BigList>>[2] = BigList
    BY <1>1, NoListIsNone DEF Ids
  <1>5. /\ H[t] \in HeapRec /\ kown[d] = NULL /\ B[d] \in BlkRec /\ B[d] # NoBlk
        /\ B[d].next = 0 /\ e # 0 /\ e \in Refs /\ e # d
    BY <1>1, <1>3, ShapeNode
  <1>6. e \in Blocks BY <1>5, BlockRefs
  <1>7. Unlinked(H, B, own, kown, Rm(B), t, BigList, d, h1, B1)
    <2>1. SameBut(Rm(B), Rm(B), d) BY DEF SameBut
    <2>2. h1 = Unlink(s, BigList, d).h /\ B1 = Unlink(s, BigList, d).B OBVIOUS
    <2> HIDE DEF h1, B1
    <2> QED BY <1>1, <1>3, <2>1, <2>2, ShapeUnlink
  <1>8. B1 = Join(B, e, 0) BY <1>5 DEF Unlink
  <1> HIDE DEF h1, B1
  <1>9. /\ Shape(H1, B1, own2, kown, Rm(B)) /\ h1 \in HeapRec /\ SameHeap(h1, H[t]) /\ \A c \in Blocks : Same(B1[c], B[c])
        /\ h1.head = [H[t].head EXCEPT ![BigList] = IF B[d].prev = 0 THEN B[d].next ELSE @]
        /\ h1.tail = [H[t].tail EXCEPT ![BigList] = IF B[d].next = 0 THEN B[d].prev ELSE @]
    BY <1>7 DEF Unlinked, OnlyLinks
  <1>10. h1.head = H[t].head /\ h1.tail = h2.tail
    <2>1. H[t].head \in [Lists -> Refs] BY <1>5 DEF HeapRec
    <2>2. h1.head = [H[t].head EXCEPT ![BigList] = H[t].head[BigList]] BY <1>5, <1>9
    <2>3. h1.tail = [H[t].tail EXCEPT ![BigList] = e] BY <1>5, <1>9
    <2> QED BY <1>0, <2>1, <2>2, <2>3
  <1>11. Shape(H2, B1, own2, kown, Rm(B))
    <2>1. H1[t] = h1 /\ [H1 EXCEPT ![t] = h2] = H2 BY <1>2, HeapTwice, ZenonT(60)
    <2>2. H1[t] # NoHeap BY <1>9, <2>1, NoHeapApart
    <2>3. h2.head = H1[t].head /\ h2.tail = H1[t].tail /\ h2.blkfree = H1[t].blkfree BY <1>0, <1>9, <1>10, <2>1 DEF SameHeap
    <2> HIDE DEF H1, H2, own2
    <2> QED BY <1>0, <1>9, <2>1, <2>2, <2>3, ShapeCounts
  <1>12. ShapeTypes(H2, B1, own2, kown) /\ Placed(H2, B1, own2, kown) BY <1>11, ShapeTyped
  <1>13. B2 \in BlksType /\ B2[d] = NoBlk /\ \A c \in Blocks : c # d => B2[c] = B1[c]
    <2>1. B1 \in BlksType BY <1>12 DEF ShapeTypes
    <2>2. \A c \in Blocks : B1[c] = IF c = e THEN [B[c] EXCEPT !.next = 0] ELSE B[c] BY <1>8, BlockRefs DEF Join
    <2>3. B2 = [[B EXCEPT ![e] = [B[e] EXCEPT !.next = 0]] EXCEPT ![d] = NoBlk] BY DEF LastOut
    <2> DEFINE z == [B[e] EXCEPT !.next = 0]
    <2>4. z = B1[e] BY <1>6, <2>2
    <2>5. B1[e] \in BlkRec \cup {NoBlk} BY <1>6, <2>1 DEF BlksType
    <2>6. B2 = [[B EXCEPT ![e] = z] EXCEPT ![d] = NoBlk] BY <2>3
    <2> HIDE DEF z
    <2>7. B2 \in BlksType /\ B2[d] = NoBlk BY <1>2, <1>3, <2>4, <2>5, <2>6 DEF BlksType
    <2>8. ASSUME NEW c \in Blocks, c # d PROVE B2[c] = B1[c]
      <3>1. B2[c] = IF c = e THEN z ELSE B[c] BY <1>2, <2>6, <2>8 DEF BlksType
      <3> QED BY <2>2, <2>4, <3>1
    <2> QED BY <2>7, <2>8
  <1>14. own2[d] = NoList /\ \A c \in Blocks : c # d => own2[c] = own[c] BY <1>2, <1>3 DEF ShapeTypes
  <1>15. Shape(H2, B2, own2, kown, Rm(B))
    <2>1. \A c \in Blocks : own2[c] # NoList \/ kown[c] # NULL => B1[c] # NoBlk
      BY <1>11, <1>12 DEF Shape, ShapeBy, Links, Placed
    <2>2. \A c \in Blocks : own2[c] # NoList => B2[c] # NoBlk /\ B2[c].next = B1[c].next /\ B2[c].prev = B1[c].prev
      BY <1>13, <1>14, <2>1
    <2>3. \A c \in Blocks : kown[c] # NULL => B2[c] # NoBlk /\ B2[c].next = B1[c].next BY <1>5, <1>13, <2>1
    <2>4. B2 \in BlksType BY <1>13
    <2> HIDE DEF H2, own2
    <2> QED BY <1>11, <2>2, <2>3, <2>4, ShapeBlocks
  <1>16. Others(B, own, kown, B2, own2, kown, d)
    <2>1. ASSUME NEW c \in Blocks, c # d PROVE Same(B2[c], B[c])
      <3>1. Same(B1[c], B[c]) /\ B2[c] = B1[c] BY <1>9, <1>13, <2>1
      <3> QED BY <3>1
    <2> QED BY <1>14, <2>1 DEF Others
  <1>17. Shape(H2, B2, own2, kown, Rm(B2))
    <2>1. SameBut(Rm(B), Rm(B2), d) BY <1>16, RmSame DEF Others
    <2> HIDE DEF H2, own2
    <2> QED BY <1>3, <1>14, <1>15, <2>1, ShapeRoom
  <1>18. CountOK(h2, own2, kown, t)
    <2>1. CountOK(H[t], own, kown, t) BY DEF Mem
    <2>2. H[t].blkfreecnt \in Nat /\ H[t].biglrucnt \in Nat BY <1>5 DEF HeapRec
    <2>3. NULL # t /\ kown[d] # t /\ NoList # <<t, BigList>> BY <1>4, <1>5, HeapAssumption
    <2>4. h2.biglrucnt = H[t].biglrucnt + (IF NoList = <<t, BigList>> THEN 1 ELSE 0)
                                        - (IF own[d] = <<t, BigList>> THEN 1 ELSE 0)
      BY <1>0, <1>3, <2>2, <2>3
    <2>5. h2.blkfreecnt = H[t].blkfreecnt + (IF NULL = t THEN 1 ELSE 0) - (IF kown[d] = t THEN 1 ELSE 0)
      BY <1>0, <2>2, <2>3
    <2>6. CountOK(h2, [own EXCEPT ![d] = NoList], [kown EXCEPT ![d] = NULL], t)
      BY <1>2, <1>3, <2>1, <2>4, <2>5, CountMove DEF ShapeTypes
    <2>7. [kown EXCEPT ![d] = NULL] = kown BY <1>2, <1>5 DEF ShapeTypes
    <2> QED BY <2>6, <2>7
  <1>19. BlockOK(B2[d], own2[d], kown[d], {}) /\ KindOK(B2[d]) BY <1>5, <1>13, <1>14 DEF BlockOK, KindOK
  <1>20. PlaceOf(own[d], kown[d], t) /\ PlaceOf(own2[d], kown[d], t) BY <1>3, <1>4, <1>5, <1>14 DEF PlaceOf
  <1>21. Mem(H2, B2, own2, kown, [held EXCEPT ![d] = {}])
    <2>1. {} \in SUBSET Nat OBVIOUS
    <2>2. Shape([H EXCEPT ![t] = h2], B2, own2, kown, Rm(B2)) BY <1>17
    <2> HIDE DEF own2, H2
    <2>3. Mem([H EXCEPT ![t] = h2], B2, own2, kown, [held EXCEPT ![d] = {}])
      BY <1>0, <1>3, <1>16, <1>18, <1>19, <1>20, <2>1, <2>2, MemStep
    <2> QED BY <2>3 DEF H2
  <1>22. held[d] = {}
    <2>1. BlockOK(B[d], own[d], kown[d], held[d]) BY <1>3 DEF Mem
    <2> QED BY <1>3, <1>4, <1>5, <2>1 DEF BlockOK
  <1> QED BY <1>3, <1>5, <1>13, <1>16, <1>21, <1>22 DEF LastGone

\* The list of large blocks is empty when its counter says so.
LEMMA BigEmpty ==
    ASSUME NEW H, NEW B, NEW own, NEW kown, NEW held, Mem(H, B, own, kown, held),
           NEW t \in Threads, H[t] # NoHeap
    PROVE  H[t].biglrucnt = 0 <=> H[t].tail[BigList] = 0
  <1> DEFINE S == BlocksOn(own, <<t, BigList>>)
             d == H[t].tail[BigList]
  <1>1. Shape(H, B, own, kown, Rm(B)) /\ BigList \in Lists BY DEF Mem, Lists
  <1>2. Ends(H, own, t, BigList) BY <1>1, ShapeEnds
  <1>3. CountOK(H[t], own, kown, t) BY DEF Mem
  <1>4. H[t].biglrucnt = Cardinality(S) /\ S \subseteq Blocks BY <1>3 DEF CountOK, BlocksOn
  <1>5. IsFiniteSet(S) BY <1>4, BlocksFinite
  <1>6. Cardinality(S) = 0 <=> S = {} BY <1>5, FS_EmptySet
  <1>7. d # 0 => S # {}
    <2>1. d # 0 => d \in S BY <1>2 DEF Ends, BlocksOn
    <2> QED BY <2>1
  <1>8. ASSUME NEW c \in S PROVE d # 0
    <2>1. c \in Blocks /\ own[c] = <<t, BigList>> BY DEF BlocksOn
    <2> QED BY <1>1, <2>1, NotEmpty
  <1> HIDE DEF S, d
  <1>9. H[t].biglrucnt = 0 <=> d = 0 BY <1>4, <1>6, <1>7, <1>8
  <1> QED BY <1>9 DEF d

\* The heap after a large block came back.
LEMMA BigHeapIs ==
    ASSUME NEW h \in HeapRec, NEW b \in Refs, NEW n \in Nat, NEW v \in Refs
    PROVE  BigHeap(h, b, n, v, NewBig(h, b, n, v))
  <1> DEFINE hd == [h.head EXCEPT ![BigList] = b]
             tl == [h.tail EXCEPT ![BigList] = v]
             h2 == NewBig(h, b, n, v)
  <1>1. hd \in [Lists -> Refs] /\ tl \in [Lists -> Refs] BY DEF HeapRec
  <1>2. h2 = [h EXCEPT !.biglrucnt = n, !.head = hd, !.tail = tl] BY DEF NewBig
  <1> HIDE DEF hd, tl, h2
  <1>3. h2 \in HeapRec BY <1>1, <1>2 DEF HeapRec
  <1>4. /\ h2.head = hd /\ h2.tail = tl /\ h2.blkfree = h.blkfree /\ h2.blkfreecnt = h.blkfreecnt
        /\ h2.lock = h.lock /\ h2.biglrucnt = n
    BY <1>2 DEF HeapRec
  <1> QED BY <1>3, <1>4 DEF BigHeap, hd, tl, h2

\* The two outcomes of FreeBig.
LEMMA FreeBigIs ==
    ASSUME NEW h \in HeapRec, NEW B, NEW b, NEW s, s = [h |-> h, B |-> B], NEW p, p = FreeBig(s, b),
           NEW B1, B1 = FirstB(B, b, h.head[BigList]),
           NEW d, d = h.tail[BigList], NEW e, e = B1[d].prev
    PROVE  FreedBig(h, b, B1, d, e, p)
  <1> DEFINE hd == [h.head EXCEPT ![BigList] = b]
             g == [h EXCEPT !.head = hd]
             w == [h |-> g, B |-> B1]
             q == PushHead(s, BigList, b)
  <1>1. q = w BY DEF PushHead, FirstB
  <1>2. g.biglrucnt = h.biglrucnt /\ g.tail = h.tail
    <2> HIDE DEF hd
    <2> QED BY DEF HeapRec
  <1>3. w.h = g /\ w.B = B1 OBVIOUS
  <1>4. p = IF q.h.biglrucnt < KeepBig
            THEN [q EXCEPT !.h.biglrucnt = @ + 1, !.h.tail[BigList] = IF q.h.biglrucnt = 0 THEN b ELSE @]
            ELSE [h |-> [q.h EXCEPT !.tail[BigList] = q.B[q.h.tail[BigList]].prev],
                  B |-> [q.B EXCEPT ![q.B[q.h.tail[BigList]].prev].next = 0, ![q.h.tail[BigList]] = NoBlk]]
    BY Zenon DEF FreeBig
  <1> HIDE DEF q, w, g
  <1>5. q.h.biglrucnt = h.biglrucnt /\ q.h.tail[BigList] = d /\ q.h = g /\ q.B = B1 BY <1>1, <1>2, <1>3
  <1>6. CASE h.biglrucnt < KeepBig
    <2> DEFINE n == h.biglrucnt + 1
               v == IF h.biglrucnt = 0 THEN b ELSE d
               tl == [h.tail EXCEPT ![BigList] = v]
               f == [g EXCEPT !.biglrucnt = n, !.tail[BigList] = v]
    <2>1. p = [q EXCEPT !.h.biglrucnt = @ + 1, !.h.tail[BigList] = IF q.h.biglrucnt = 0 THEN b ELSE @]
      <3>1. q.h.biglrucnt < KeepBig BY <1>5, <1>6
      <3> QED BY <1>4, <3>1, Zenon
    <2>2. p = [w EXCEPT !.h.biglrucnt = n, !.h.tail[BigList] = v]
      <3>1. p = [q EXCEPT !.h.biglrucnt = q.h.biglrucnt + 1,
                          !.h.tail[BigList] = IF q.h.biglrucnt = 0 THEN b ELSE q.h.tail[BigList]]
        BY <2>1
      <3>2. q.h.biglrucnt + 1 = n /\ (IF q.h.biglrucnt = 0 THEN b ELSE q.h.tail[BigList]) = v BY <1>5 DEF n
      <3> HIDE DEF v, n
      <3> QED BY <1>1, <3>1, <3>2
    <2> HIDE DEF n, v
    <2>3. p.B = B1 /\ p.h = f BY <2>2 DEF w
    <2>4. f = [g EXCEPT !.biglrucnt = n, !.tail = tl] BY <1>2
    <2> HIDE DEF f, hd, tl
    <2>5. f = [h EXCEPT !.biglrucnt = n, !.head = hd, !.tail = tl] BY <2>4 DEF g, HeapRec
    <2>6. p.h = NewBig(h, b, n, v) BY <2>3, <2>5 DEF NewBig, hd, tl
    <2> QED BY <1>6, <2>3, <2>6 DEF n, v, FreedBig
  <1>7. CASE ~(h.biglrucnt < KeepBig)
    <2> DEFINE f == [g EXCEPT !.tail[BigList] = e]
               C == [B1 EXCEPT ![e].next = 0, ![d] = NoBlk]
               tl == [h.tail EXCEPT ![BigList] = e]
               n == h.biglrucnt
    <2>1. p = [h |-> [q.h EXCEPT !.tail[BigList] = q.B[q.h.tail[BigList]].prev],
               B |-> [q.B EXCEPT ![q.B[q.h.tail[BigList]].prev].next = 0, ![q.h.tail[BigList]] = NoBlk]]
      <3>1. ~(q.h.biglrucnt < KeepBig) BY <1>5, <1>7
      <3> QED BY <1>4, <3>1, Zenon
    <2>2. q.B[q.h.tail[BigList]].prev = e BY <1>5
    <2>3. p = [h |-> f, B |-> C] BY <1>5, <2>1, <2>2, Zenon
    <2> HIDE DEF C
    <2>4. p.B = C /\ p.h = f BY <2>3
    <2>5. f = [g EXCEPT !.tail = tl] BY <1>2
    <2> HIDE DEF f, hd, tl
    <2>6. f = [h EXCEPT !.biglrucnt = n, !.head = hd, !.tail = tl] BY <2>5 DEF g, HeapRec
    <2>7. p.h = NewBig(h, b, n, e) BY <2>4, <2>6 DEF NewBig, hd, tl
    <2> QED BY <1>7, <2>4, <2>7 DEF C, FreedBig
  <1> QED BY <1>6, <1>7

\* nc_free_big.
LEMMA BackBig ==
    ASSUME NEW H, NEW B, NEW own, NEW kown, NEW held, Mem(H, B, own, kown, held),
           NEW t \in Threads, H[t] # NoHeap, NEW b \in Blocks, B[b] # NoBlk, B[b].binndx = BigList,
           NEW off \in held[b],
           NEW s, s = [h |-> H[t], B |-> B], NEW p, p = FreeBig(s, b)
    PROVE  Back(H, B, own, kown, held, t, b, off, p.h, p.B)
  <1> DEFINE B1 == FirstB(B, b, H[t].head[BigList])
             own1 == [own EXCEPT ![b] = <<t, BigList>>]
             held1 == [held EXCEPT ![b] = {}]
             d == H[t].tail[BigList]
             e == B1[d].prev
             v == IF H[t].biglrucnt = 0 THEN b ELSE d
  <1>1. Shape(H, B, own, kown, Rm(B)) /\ BigList \in Lists BY DEF Mem, Lists
  <1>2. ShapeTypes(H, B, own, kown) /\ H \in HeapsType /\ B \in BlksType BY <1>1, ShapeTyped DEF ShapeTypes
  <1>3. H[t] \in HeapRec BY <1>2 DEF HeapsType
  <1>4. H[t].biglrucnt \in Nat /\ H[t].tail \in [Lists -> Refs] /\ d \in Refs /\ b \in Refs
        /\ H[t].blkfreecnt \in Nat
    BY <1>1, <1>3, BlockRefs DEF HeapRec
  <1>5. held[b] = {off} /\ held \in [Blocks -> SUBSET Nat]
    <2>1. BlockOK(B[b], own[b], kown[b], held[b]) /\ held \in [Blocks -> SUBSET Nat] BY DEF Mem
    <2>2. held[b] = {BlkHdr} BY <2>1 DEF BlockOK
    <2> QED BY <2>1, <2>2
  <1>6. held[b] \ {off} = {} /\ held[b] # {} BY <1>5
  <1>7. KeepBig \in Nat /\ KeepBig > 0 BY HeapAssumption
  <1>8. H[t].biglrucnt = 0 <=> d = 0 BY BigEmpty
  <1>9. <<t, BigList>> \in Ids /\ <<t, BigList>> # NoList /\ <<t, BigList>>[1] = t BY <1>1, NoListIsNone DEF Ids
  <1>a. FreedBig(H[t], b, B1, d, e, p)
    <2>1. B1 = FirstB(B, b, H[t].head[BigList]) /\ d = H[t].tail[BigList] /\ e = B1[d].prev OBVIOUS
    <2> HIDE DEF B1, d, e
    <2> QED BY <1>3, <2>1, FreeBigIs
  <1>10. CASE H[t].biglrucnt < KeepBig
    <2> DEFINE n == H[t].biglrucnt + 1
               g == NewBig(H[t], b, n, v)
    <2>1. p.B = B1 /\ p.h = g BY <1>10, <1>a DEF FreedBig
    <2>2. v \in Refs /\ n \in Nat BY <1>4
    <2>3. BigHeap(H[t], b, n, v, p.h)
      <3> HIDE DEF n, v
      <3> QED BY <1>3, <1>4, <2>1, <2>2, BigHeapIs
    <2> HIDE DEF g, n
    <2>4. /\ p.h \in HeapRec /\ p.h.head = [H[t].head EXCEPT ![BigList] = b] /\ p.h.blkfree = H[t].blkfree
          /\ p.h.tail = [H[t].tail EXCEPT ![BigList] = IF H[t].tail[BigList] = 0 THEN b ELSE H[t].tail[BigList]]
          /\ p.h.blkfreecnt = H[t].blkfreecnt /\ p.h.biglrucnt = H[t].biglrucnt + 1 /\ p.h.lock = H[t].lock
      BY <1>8, <2>3 DEF BigHeap, n
    <2>5. BigIn(H, B, own, kown, held, t, b, p.h, B1) BY <1>6, <2>4, BigInOK
    <2>6. /\ Mem([H EXCEPT ![t] = p.h], B1, own1, kown, held1)
          /\ \A c \in Blocks : Same(B1[c], B[c])
          /\ kown[b] = NULL /\ own[b] = NoList
      BY <2>5 DEF BigIn
    <2> HIDE DEF B1
    <2>7. own1[b] = <<t, BigList>> /\ \A c \in Blocks : c # b => own1[c] = own[c] BY <1>2 DEF ShapeTypes
    <2>8. Freed(B, own, kown, held, B1, own1, kown, t, b)
      <3>1. PlaceOf(own1[b], kown[b], t) BY <1>9, <2>6, <2>7 DEF PlaceOf
      <3>2. Stays(B1[b], B[b])
        <4>1. Same(B1[b], B[b]) BY <2>6
        <4> QED BY <4>1 DEF Stays, Same
      <3> QED BY <2>6, <2>7, <3>1, <3>2 DEF Freed
    <2>9. BackPlace(H, B, own, kown, held, t, b, off, p.h, B1)
      <3>1. [held EXCEPT ![b] = held[b] \ {off}] = held1 BY <1>6
      <3> HIDE DEF own1, held1
      <3> QED BY <2>6, <2>8, <3>1 DEF BackPlace
    <2>10. CountsIn(p.h, H[t]) BY <1>4, <1>7, <1>10, <2>4 DEF CountsIn
    <2> QED BY <2>1, <2>9, <2>10 DEF Back
  <1>11. CASE ~(H[t].biglrucnt < KeepBig)
    <2> DEFINE n == H[t].biglrucnt + 1
               hk == NewBig(H[t], b, n, d)
               g == NewBig(H[t], b, H[t].biglrucnt, e)
               B2 == [B1 EXCEPT ![e].next = 0, ![d] = NoBlk]
               Hk == [H EXCEPT ![t] = hk]
               own2 == [own1 EXCEPT ![d] = NoList]
    <2>1. p.B = B2 /\ p.h = g BY <1>11, <1>a DEF FreedBig
    <2>2. d # 0 BY <1>4, <1>7, <1>8, <1>11
    <2>3. BigHeap(H[t], b, n, d, hk)
      <3>1. n \in Nat BY <1>4
      <3> HIDE DEF n, d
      <3> QED BY <1>3, <1>4, <3>1, BigHeapIs
    <2> HIDE DEF hk
    <2>4. /\ hk \in HeapRec /\ hk.head = [H[t].head EXCEPT ![BigList] = b] /\ hk.blkfree = H[t].blkfree
          /\ hk.tail = [H[t].tail EXCEPT ![BigList] = d]
          /\ hk.blkfreecnt = H[t].blkfreecnt /\ hk.biglrucnt = H[t].biglrucnt + 1 /\ hk.lock = H[t].lock
      BY <2>3 DEF BigHeap
    <2>5. hk.tail = H[t].tail /\ hk.head[BigList] = b
      <3>1. H[t].head \in [Lists -> Refs] BY <1>3 DEF HeapRec
      <3> QED BY <1>1, <1>4, <2>4, <3>1
    <2>6. BigIn(H, B, own, kown, held, t, b, hk, B1)
      <3>1. hk.tail = [H[t].tail EXCEPT ![BigList] = IF H[t].tail[BigList] = 0 THEN b ELSE H[t].tail[BigList]]
        BY <2>2, <2>4
      <3> QED BY <1>6, <2>4, <3>1, BigInOK
    <2>7. /\ Mem(Hk, B1, own1, kown, held1)
          /\ \A c \in Blocks : Same(B1[c], B[c])
          /\ kown[b] = NULL /\ own[b] = NoList
      BY <2>6 DEF BigIn
    <2>8. Hk[t] = hk /\ Hk[t] # NoHeap /\ [Hk EXCEPT ![t] = g] = [H EXCEPT ![t] = g]
      <3> HIDE DEF g
      <3>0. H \in HeapsType BY <1>2
      <3>2. [[H EXCEPT ![t] = hk] EXCEPT ![t] = g] = [H EXCEPT ![t] = g] /\ [H EXCEPT ![t] = hk][t] = hk
        <4> HIDE DEF n, B1, B2, e, d, own1, own2, held1, v, Hk
        <4> QED BY <3>0 DEF HeapsType
      <3>1. Hk[t] = hk /\ [Hk EXCEPT ![t] = g] = [H EXCEPT ![t] = g] BY <3>2, Zenon
      <3> QED BY <2>4, <3>1, NoHeapApart
    <2>9. b # d
      <3>1. Ends(H, own, t, BigList) BY <1>1, ShapeEnds
      <3>2. own[d] = <<t, BigList>> BY <2>2, <3>1 DEF Ends
      <3> QED BY <1>9, <2>7, <3>2
    <2> HIDE DEF B1
    <2>a. BigHeap(H[t], b, H[t].biglrucnt, e, g)
      <3>1. e \in Refs
        <4>1. B1 \in BlksType
          <5>1. Shape(Hk, B1, own1, kown, Rm(B1)) BY <2>7 DEF Mem
          <5> QED BY <5>1, ShapeTyped DEF ShapeTypes
        <4>2. d \in Blocks BY <1>4, <2>2, BlockRefs
        <4>3. B1[d] # NoBlk
          <5>1. Ends(H, own, t, BigList) BY <1>1, ShapeEnds
          <5>2. own[d] = <<t, BigList>> BY <2>2, <5>1 DEF Ends
          <5>3. B[d] # NoBlk BY <1>1, <4>2, <5>2, ShapeNode
          <5>4. Same(B1[d], B[d]) BY <2>7, <4>2
          <5> QED BY <5>3, <5>4 DEF Same
        <4>4. B1[d] \in BlkRec BY <4>1, <4>2, <4>3 DEF BlksType
        <4> QED BY <4>4 DEF BlkRec
      <3> HIDE DEF e
      <3> QED BY <1>3, <1>4, <3>1, BigHeapIs
    <2>10. LastOut(hk, B1, d, e, g, B2)
      <3> HIDE DEF g, e
      <3>1. hk.biglrucnt - 1 = H[t].biglrucnt BY <1>4, <2>4
      <3> QED BY <2>4, <2>5, <2>a, <3>1 DEF LastOut, BigHeap
    <2>11. LastGone(Hk, B1, own1, kown, held1, t, d, g, B2)
      <3>1. d = Hk[t].tail[BigList] /\ Hk[t].head[BigList] # d BY <2>5, <2>8, <2>9
      <3>2. LastOut(Hk[t], B1, d, e, g, B2) BY <2>8, <2>10
      <3>3. e = B1[d].prev OBVIOUS
      <3> HIDE DEF Hk, d, e, g, B2, own1, held1
      <3> QED BY <2>2, <2>7, <2>8, <3>1, <3>2, <3>3, LastGoneOK
    <2> HIDE DEF g, e, B2
    <2>12. /\ Mem([H EXCEPT ![t] = g], B2, own2, kown, [held1 EXCEPT ![d] = {}])
           /\ Others(B1, own1, kown, B2, own2, kown, d)
           /\ d \in Blocks /\ B2[d] = NoBlk /\ kown[d] = NULL /\ held1[d] = {}
      BY <2>8, <2>11 DEF LastGone
    <2>13. [held1 EXCEPT ![d] = {}] = held1 BY <1>5, <2>12
    <2>14. own1[b] = <<t, BigList>> /\ \A c \in Blocks : c # b => own1[c] = own[c] BY <1>2 DEF ShapeTypes
    <2>15. own2[d] = NoList /\ \A c \in Blocks : c # d => own2[c] = own1[c] BY <1>2, <2>12 DEF ShapeTypes
    <2>16. held[d] = {} BY <1>5, <2>9, <2>12
    <2> HIDE DEF own1, own2, d
    <2>17. Freed(B, own, kown, held, B2, own2, kown, t, b)
      <3>1. ASSUME NEW c \in Blocks
            PROVE  \/ B2[c] = NoBlk /\ own2[c] = NoList /\ kown[c] = NULL /\ (c = b \/ held[c] = {})
                   \/ c # b /\ Same(B2[c], B[c]) /\ own2[c] = own[c] /\ kown[c] = kown[c]
                   \/ c = b /\ Stays(B2[c], B[c]) /\ PlaceOf(own2[c], kown[c], t)
        <4>1. CASE c = d BY <2>12, <2>15, <2>16, <4>1
        <4>2. CASE c # d
          <5>1. Same(B2[c], B1[c]) /\ Same(B1[c], B[c]) BY <2>7, <2>12, <4>2 DEF Others
          <5>2. Same(B2[c], B[c]) BY <5>1, SameTrans
          <5>3. CASE c # b BY <2>14, <2>15, <4>2, <5>2, <5>3
          <5>4. CASE c = b
            <6>1. own2[b] = <<t, BigList>> BY <2>14, <2>15, <4>2, <5>4
            <6>2. PlaceOf(own2[b], kown[b], t) BY <1>9, <2>7, <6>1 DEF PlaceOf
            <6>3. Stays(B2[b], B[b]) BY <5>2, <5>4 DEF Stays, Same
            <6> QED BY <5>4, <6>2, <6>3
          <5> QED BY <5>3, <5>4
        <4> QED BY <4>1, <4>2
      <3> QED BY <3>1 DEF Freed
    <2>18. BackPlace(H, B, own, kown, held, t, b, off, g, B2)
      <3>1. [held EXCEPT ![b] = held[b] \ {off}] = held1 BY <1>6
      <3> HIDE DEF held1
      <3> QED BY <2>12, <2>13, <2>17, <3>1 DEF BackPlace
    <2>19. CountsIn(g, H[t])
      <3>1. /\ g \in HeapRec /\ g.blkfreecnt = hk.blkfreecnt /\ g.biglrucnt = hk.biglrucnt - 1 BY <2>10 DEF LastOut
      <3>2. g.lock = H[t].lock BY <2>a DEF BigHeap
      <3> QED BY <1>4, <2>4, <3>1, <3>2 DEF CountsIn
    <2> QED BY <2>1, <2>18, <2>19 DEF Back
  <1> QED BY <1>10, <1>11

\* nc_free under the lock.
LEMMA BackOK ==
    ASSUME NEW own, NEW kown, NEW held, Mem(heap, blk, own, kown, held),
           NEW t \in Threads, heap[t] # NoHeap, NEW b \in Blocks, blk[b] # NoBlk,
           PlaceOf(own[b], kown[b], t), NEW off \in held[b], NEW p, p = FreeIn(t, b, off)
    PROVE  Back(heap, blk, own, kown, held, t, b, off, p.h, p.B)
  <1> DEFINE s == [h |-> heap[t], B |-> blk]
  <1>1. KindOK(blk[b]) BY DEF Mem
  <1>2. CASE blk[b].binndx # BigList
    <2>1. blk[b].small = TRUE BY <1>1, <1>2, Zenon DEF KindOK
    <2>2. p = FreeSmall(s, b, off) BY <2>1, Zenon DEF FreeIn
    <2> QED BY <1>2, <2>2, BackSmall
  <1>3. CASE blk[b].binndx = BigList
    <2>1. blk[b].small = FALSE BY <1>1, <1>3, Zenon DEF KindOK
    <2>2. p = FreeBig(s, b) BY <2>1, Zenon DEF FreeIn
    <2> QED BY <1>3, <2>2, BackBig
  <1> QED BY <1>2, <1>3

(* A heap and its blocks go.                                                *)

\* What walks from a heap meet: the blocks on the list, the blocks kept.
LEMMA ReachedIs ==
    ASSUME NEW H, NEW B, NEW own, NEW kown, NEW RM, Shape(H, B, own, kown, RM), NEW t \in Threads, H[t] # NoHeap
    PROVE  /\ \A l \in Lists : Members(Forward(B, H[t].head[l])) = BlocksOn(own, <<t, l>>)
           /\ Members(Forward(B, H[t].blkfree)) = KeptBy(kown, t)
  <1>1. PICK r, q : ShapeBy(H, B, own, kown, RM, r, q) BY DEF Shape
  <1>2. H \in HeapsType /\ Links(H, B, own, r) /\ SL(Kp(H), Nx(B), kown, q) /\ Placed(H, B, own, kown)
    BY <1>1 DEF ShapeBy, Links
  <1>3. ASSUME NEW l \in Lists PROVE Members(Forward(B, H[t].head[l])) = BlocksOn(own, <<t, l>>)
    <2>1. PICK m \in 0 .. NBlk : Walked(BlocksOn(own, <<t, l>>), Forward(B, H[t].head[l]), m)
      BY <1>2, ListWalk
    <2>2. BlocksOn(own, <<t, l>>) \subseteq Blocks BY DEF BlocksOn
    <2> QED BY <2>1, <2>2, WalkMembers
  <1>4. Members(Forward(B, H[t].blkfree)) = KeptBy(kown, t)
    <2>1. \A c \in Blocks : kown[c] # NULL => B[c] # NoBlk BY <1>2 DEF Placed
    <2>2. PICK m \in 0 .. NBlk : Walked(KeptBy(kown, t), Forward(B, H[t].blkfree), m)
      BY <1>2, <2>1, KeptWalk
    <2>3. KeptBy(kown, t) \subseteq Blocks BY DEF KeptBy
    <2> QED BY <2>2, <2>3, WalkMembers
  <1> QED BY <1>3, <1>4

\* The blocks that can be reached are those of the heap.
LEMMA ReachedInHeap ==
    ASSUME NEW H, NEW B, NEW own, NEW kown, NEW RM, Shape(H, B, own, kown, RM), NEW t \in Threads, H[t] # NoHeap
    PROVE  \A c \in Blocks : c \in Reached(H, B, t) <=> InHeap(own, kown, t, c)
  <1>1. TAKE c \in Blocks
  <1>2. ShapeTypes(H, B, own, kown) BY ShapeTyped
  <1>3. /\ \A l \in Lists : Members(Forward(B, H[t].head[l])) = BlocksOn(own, <<t, l>>)
        /\ Members(Forward(B, H[t].blkfree)) = KeptBy(kown, t)
    BY ReachedIs
  <1>4. c \in Reached(H, B, t) <=>
            (\E l \in Lists : c \in Members(Forward(B, H[t].head[l]))) \/ c \in Members(Forward(B, H[t].blkfree))
    BY Zenon DEF Reached
  <1>5. c \in Reached(H, B, t) <=> (\E l \in Lists : own[c] = <<t, l>>) \/ kown[c] = t
    BY <1>3, <1>4, Zenon DEF BlocksOn, KeptBy
  <1>6. (\E l \in Lists : own[c] = <<t, l>>) <=> own[c] # NoList /\ own[c][1] = t
    <2>1. ASSUME NEW l \in Lists, own[c] = <<t, l>> PROVE own[c] # NoList /\ own[c][1] = t
      BY <2>1, NoListIsNone DEF Ids
    <2>2. ASSUME own[c] # NoList, own[c][1] = t PROVE \E l \in Lists : own[c] = <<t, l>>
      <3>1. own[c] \in Ids BY <1>2, <2>2 DEF ShapeTypes
      <3>2. own[c] = <<own[c][1], own[c][2]>> /\ own[c][2] \in Lists BY <3>1 DEF Ids
      <3> QED BY <2>2, <3>2
    <2> QED BY <2>1, <2>2
  <1> QED BY <1>5, <1>6 DEF InHeap

\* The null pointer names no thread.
LEMMA NullApart == NULL \notin Threads
  BY HeapAssumption

\* exit_heap unmaps what can be reached: the rest of the memory stays sound.
LEMMA MemDrop ==
    ASSUME NEW H, NEW B, NEW own, NEW kown, NEW held, Mem(H, B, own, kown, held),
           NEW t \in Threads, H[t] # NoHeap,
           \A c \in Blocks : InHeap(own, kown, t, c) => held[c] = {},
           NEW B2, B2 = [c \in Blocks |-> IF c \in Reached(H, B, t) THEN NoBlk ELSE B[c]]
    PROVE  \E own2, kown2 : /\ Mem([H EXCEPT ![t] = NoHeap], B2, own2, kown2, held)
                            /\ Gone(B, own, kown, held, B2, own2, kown2, t)
  <1> DEFINE G == Reached(H, B, t)
             H2 == [H EXCEPT ![t] = NoHeap]
             own2 == [c \in Blocks |-> IF c \in G THEN NoList ELSE own[c]]
             kown2 == [c \in Blocks |-> IF c \in G THEN NULL ELSE kown[c]]
  <1>1. Shape(H, B, own, kown, Rm(B)) BY DEF Mem
  <1>2. ShapeTypes(H, B, own, kown) BY <1>1, ShapeTyped
  <1>3. \A c \in Blocks : c \in G <=> InHeap(own, kown, t, c) BY <1>1, ReachedInHeap
  <1> HIDE DEF G
  <1>4. B2 = [c \in Blocks |-> IF c \in G THEN NoBlk ELSE B[c]] BY DEF G
  <1>5. \A c \in Blocks \ G : (c \in Rm(B2) <=> c \in Rm(B)) BY <1>4 DEF Rm
  <1>6. Shape(H2, B2, own2, kown2, Rm(B2))
    <2>1. Dropping(H, B, own, kown, t, G, H2, B2, own2, kown2) BY <1>3, <1>4, Zenon DEF Dropping
    <2> HIDE DEF H2, own2, kown2
    <2> QED BY <1>1, <1>5, <2>1, ShapeDrop
  <1>7. \A c \in Blocks : /\ c \in G => B2[c] = NoBlk /\ own2[c] = NoList /\ kown2[c] = NULL /\ held[c] = {}
                          /\ c \notin G => B2[c] = B[c] /\ own2[c] = own[c] /\ kown2[c] = kown[c]
    BY <1>3, <1>4
  <1>8. \A x \in Threads : (x # t => H2[x] = H[x]) /\ H2[t] = NoHeap BY <1>2 DEF ShapeTypes, HeapsType
  <1> HIDE DEF H2, own2, kown2
  <1>9. ASSUME NEW x \in Threads, H2[x] # NoHeap PROVE CountOK(H2[x], own2, kown2, x)
    <2>1. x # t /\ H2[x] = H[x] BY <1>8, <1>9
    <2>2. CountOK(H[x], own, kown, x) BY <1>9, <2>1 DEF Mem
    <2>3. KeptBy(kown2, x) = KeptBy(kown, x)
      <3>1. ASSUME NEW c \in Blocks PROVE kown2[c] = x <=> kown[c] = x
        <4>1. CASE c \in G
          <5>1. kown2[c] # x BY <1>7, <4>1, NullApart
          <5>2. InHeap(own, kown, t, c) BY <1>3, <4>1
          <5>3. kown[c] # x
            <6>1. CASE kown[c] = t BY <2>1, <6>1
            <6>2. CASE own[c] # NoList
              <7>1. kown[c] = NULL
                <8>1. Placed(H, B, own, kown) BY <1>1, ShapeTyped
                <8> QED BY <6>2, <8>1 DEF Placed
              <7> QED BY <7>1, NullApart
            <6> QED BY <5>2, <6>1, <6>2 DEF InHeap
          <5> QED BY <5>1, <5>3
        <4>2. CASE c \notin G BY <1>7, <4>2
        <4> QED BY <4>1, <4>2
      <3> QED BY <3>1 DEF KeptBy
    <2>4. BlocksOn(own2, <<x, BigList>>) = BlocksOn(own, <<x, BigList>>)
      <3>1. ASSUME NEW c \in Blocks PROVE own2[c] = <<x, BigList>> <=> own[c] = <<x, BigList>>
        <4>1. CASE c \in G
          <5>1. own2[c] # <<x, BigList>> BY <1>7, <4>1, NullApart DEF NoList
          <5>2. InHeap(own, kown, t, c) BY <1>3, <4>1
          <5>3. own[c] # <<x, BigList>>
            <6>1. CASE kown[c] = t
              <7>1. own[c] = NoList
                <8>1. Placed(H, B, own, kown) BY <1>1, ShapeTyped
                <8> QED BY <6>1, <8>1, NullApart DEF Placed
              <7> QED BY <7>1, NullApart DEF NoList
            <6>2. CASE own[c][1] = t BY <2>1, <6>2
            <6> QED BY <5>2, <6>1, <6>2 DEF InHeap
          <5> QED BY <5>1, <5>3
        <4>2. CASE c \notin G BY <1>7, <4>2
        <4> QED BY <4>1, <4>2
      <3> QED BY <3>1 DEF BlocksOn
    <2> QED BY <2>1, <2>2, <2>3, <2>4 DEF CountOK
  <1>10. ASSUME NEW c \in Blocks PROVE BlockOK(B2[c], own2[c], kown2[c], held[c]) /\ KindOK(B2[c])
    <2>1. CASE c \in G BY <1>7, <2>1 DEF BlockOK, KindOK
    <2>2. CASE c \notin G BY <1>7, <2>2 DEF Mem
    <2> QED BY <2>1, <2>2
  <1>11. Mem(H2, B2, own2, kown2, held) BY <1>6, <1>9, <1>10 DEF Mem
  <1>12. Gone(B, own, kown, held, B2, own2, kown2, t) BY <1>3, <1>7, Zenon DEF Gone
  <1> QED BY <1>11, <1>12 DEF H2

-----------------------------------------------------------------------------
(* Who has which chunk: the buffers L, and the threads D that are about to  *)
(* give one back, thread t the chunk W[t].                                  *)

\* A buffer with a chunk that nobody had.
LEMMA ClaimAdd ==
    ASSUME NEW L, NEW D, NEW W, NEW held, Claim(L, D, W, held), held \in [Blocks -> SUBSET Nat],
           NEW u \in BufRec, NEW o, o = u.off - u.shift, o \in Nat, o \notin held[u.b],
           NEW held2, held2 = [held EXCEPT ![u.b] = held[u.b] \cup {o}]
    PROVE  Claim(L \cup {u}, D, W, held2)
  <1>0. u.b \in Blocks BY DEF BufRec
  <1>1. \A c \in Blocks : held2[c] = IF c = u.b THEN held[c] \cup {o} ELSE held[c] BY <1>0
  <1>2. Holds(L, D, W, held) /\ Apart(L, D, W) /\ Covers(L, D, W, held) BY DEF Claim
  <1>3. \A v \in L : v.b \in Blocks BY <1>2 DEF Holds, BufRec
  <1>4. Holds(L \cup {u}, D, W, held2)
    <2>1. ASSUME NEW v \in L PROVE v \in BufRec /\ v.off - v.shift \in held2[v.b] BY <1>1, <1>2, <1>3 DEF Holds
    <2>2. o \in held2[u.b] BY <1>0, <1>1
    <2>3. ASSUME NEW t \in D PROVE W[t] \in Blocks \X Nat /\ W[t][2] \in held2[W[t][1]]
      <3>1. W[t] \in Blocks \X Nat /\ W[t][2] \in held[W[t][1]] BY <1>2 DEF Holds
      <3>2. W[t][1] \in Blocks BY <3>1
      <3> QED BY <1>1, <3>1, <3>2
    <2> QED BY <2>1, <2>2, <2>3 DEF Holds
  <1>5. \A v \in L : Loc(v) # Loc(u)
    <2>1. TAKE v \in L
    <2>2. v.off - v.shift \in held[v.b] BY <1>2 DEF Holds
    <2> QED BY <2>2 DEF Loc
  <1>6. \A t \in D : Loc(u) # W[t]
    <2>1. TAKE t \in D
    <2>2. W[t][2] \in held[W[t][1]] BY <1>2 DEF Holds
    <2> QED BY <2>2 DEF Loc
  <1>7. Apart(L \cup {u}, D, W) BY <1>2, <1>5, <1>6, Zenon DEF Apart
  <1>8. Covers(L \cup {u}, D, W, held2)
    <2>1. SUFFICES ASSUME NEW b \in Blocks, NEW p \in held2[b]
                   PROVE  (\E v \in L \cup {u} : Loc(v) = <<b, p>>) \/ (\E t \in D : W[t] = <<b, p>>)
      BY DEF Covers
    <2>2. CASE p \in held[b] BY <1>2, <2>2 DEF Covers
    <2>3. CASE p \notin held[b]
      <3>1. b = u.b /\ p = o BY <1>1, <2>3
      <3>2. Loc(u) = <<b, p>> BY <3>1 DEF Loc
      <3> QED BY <3>2
    <2> QED BY <2>2, <2>3
  <1> QED BY <1>4, <1>7, <1>8 DEF Claim

\* A thread takes a buffer to give it back.
LEMMA ClaimMove ==
    ASSUME NEW L, NEW D, NEW W, NEW held, Claim(L, D, W, held), held \in [Blocks -> SUBSET Nat],
           NEW u \in L, NEW t, t \notin D,
           NEW W2, \A x \in D : W2[x] = W[x], W2[t] = Loc(u)
    PROVE  Claim(L \ {u}, D \cup {t}, W2, held)
  <1>1. Holds(L, D, W, held) /\ Apart(L, D, W) /\ Covers(L, D, W, held) BY DEF Claim
  <1>2. u \in BufRec /\ u.off - u.shift \in held[u.b] BY <1>1 DEF Holds
  <1>3. u.b \in Blocks BY <1>2 DEF BufRec
  <1>4. Loc(u) \in Blocks \X Nat /\ Loc(u)[2] \in held[Loc(u)[1]] BY <1>2, <1>3 DEF Loc
  <1>5. Holds(L \ {u}, D \cup {t}, W2, held) BY <1>1, <1>4 DEF Holds
  <1>6. Apart(L \ {u}, D \cup {t}, W2)
    <2>1. \A v, w \in L \ {u} : Loc(v) = Loc(w) => v = w BY <1>1 DEF Apart
    <2>2. \A x, y \in D \cup {t} : W2[x] = W2[y] => x = y BY <1>1 DEF Apart
    <2>3. \A v \in L \ {u}, x \in D \cup {t} : Loc(v) # W2[x] BY <1>1 DEF Apart
    <2> QED BY <2>1, <2>2, <2>3 DEF Apart
  <1>7. Covers(L \ {u}, D \cup {t}, W2, held)
    <2>1. SUFFICES ASSUME NEW b \in Blocks, NEW p \in held[b]
                   PROVE  (\E v \in L \ {u} : Loc(v) = <<b, p>>) \/ (\E x \in D \cup {t} : W2[x] = <<b, p>>)
      BY DEF Covers
    <2>2. (\E v \in L : Loc(v) = <<b, p>>) \/ (\E x \in D : W[x] = <<b, p>>) BY <1>1 DEF Covers
    <2> QED BY <2>2
  <1> QED BY <1>5, <1>6, <1>7 DEF Claim

\* A chunk came back.
LEMMA ClaimDrop ==
    ASSUME NEW L, NEW D, NEW W, NEW held, Claim(L, D, W, held), held \in [Blocks -> SUBSET Nat],
           NEW t \in D, NEW b, NEW o, W[t] = <<b, o>>,
           NEW W2, \A x \in D \ {t} : W2[x] = W[x],
           NEW held2, held2 = [held EXCEPT ![b] = held[b] \ {o}]
    PROVE  Claim(L, D \ {t}, W2, held2)
  <1>1. Holds(L, D, W, held) /\ Apart(L, D, W) /\ Covers(L, D, W, held) BY DEF Claim
  <1>2. <<b, o>> \in Blocks \X Nat BY <1>1 DEF Holds
  <1>3. b \in Blocks /\ o \in Nat BY <1>2
  <1>4. \A c \in Blocks : held2[c] = IF c = b THEN held[c] \ {o} ELSE held[c] BY <1>3
  <1>5. Holds(L, D \ {t}, W2, held2)
    <2>1. ASSUME NEW v \in L PROVE v \in BufRec /\ v.off - v.shift \in held2[v.b]
      <3>1. v \in BufRec /\ v.off - v.shift \in held[v.b] BY <1>1 DEF Holds
      <3>2. v.b \in Blocks BY <3>1 DEF BufRec
      <3>3. <<v.b, v.off - v.shift>> # <<b, o>> BY <1>1 DEF Apart, Loc
      <3> QED BY <1>4, <3>1, <3>2, <3>3
    <2>2. ASSUME NEW x \in D \ {t} PROVE W2[x] \in Blocks \X Nat /\ W2[x][2] \in held2[W2[x][1]]
      <3>1. W2[x] = W[x] /\ W[x] \in Blocks \X Nat /\ W[x][2] \in held[W[x][1]] BY <1>1 DEF Holds
      <3>2. W[x] = <<W[x][1], W[x][2]>> /\ W[x][1] \in Blocks BY <3>1
      <3>3. W[x] # <<b, o>> BY <1>1 DEF Apart
      <3> QED BY <1>4, <3>1, <3>2, <3>3
    <2> QED BY <2>1, <2>2 DEF Holds
  <1>6. Apart(L, D \ {t}, W2)
    <2>1. \A x, y \in D \ {t} : W2[x] = W2[y] => x = y BY <1>1 DEF Apart
    <2>2. \A v \in L, x \in D \ {t} : Loc(v) # W2[x] BY <1>1 DEF Apart
    <2> QED BY <1>1, <2>1, <2>2 DEF Apart
  <1>7. Covers(L, D \ {t}, W2, held2)
    <2>1. SUFFICES ASSUME NEW c \in Blocks, NEW p \in held2[c]
                   PROVE  (\E v \in L : Loc(v) = <<c, p>>) \/ (\E x \in D \ {t} : W2[x] = <<c, p>>)
      BY DEF Covers
    <2>2. p \in held[c] /\ <<c, p>> # <<b, o>> BY <1>4
    <2>3. (\E v \in L : Loc(v) = <<c, p>>) \/ (\E x \in D : W[x] = <<c, p>>) BY <1>1, <2>2 DEF Covers
    <2> QED BY <2>2, <2>3
  <1> QED BY <1>5, <1>6, <1>7 DEF Claim

\* A buffer gets another length.
LEMMA ClaimLen ==
    ASSUME NEW L, NEW D, NEW W, NEW held, Claim(L, D, W, held),
           NEW u \in L, NEW v \in BufRec, v.b = u.b, v.off = u.off, v.shift = u.shift
    PROVE  Claim((L \ {u}) \cup {v}, D, W, held)
  <1>1. Holds(L, D, W, held) /\ Apart(L, D, W) /\ Covers(L, D, W, held) BY DEF Claim
  <1>2. Loc(v) = Loc(u) BY DEF Loc
  <1>3. Holds((L \ {u}) \cup {v}, D, W, held) BY <1>1 DEF Holds
  <1>4. Apart((L \ {u}) \cup {v}, D, W)
    <2>1. \A x, y \in (L \ {u}) \cup {v} : Loc(x) = Loc(y) => x = y BY <1>1, <1>2 DEF Apart
    <2>2. \A x \in (L \ {u}) \cup {v}, t \in D : Loc(x) # W[t] BY <1>1, <1>2 DEF Apart
    <2> QED BY <1>1, <2>1, <2>2 DEF Apart
  <1>5. Covers((L \ {u}) \cup {v}, D, W, held) BY <1>1, <1>2 DEF Covers
  <1> QED BY <1>3, <1>4, <1>5 DEF Claim

\* Only the chunks of the threads in D matter.
LEMMA ClaimSame ==
    ASSUME NEW L, NEW D, NEW W, NEW held, Claim(L, D, W, held), NEW W2, \A x \in D : W2[x] = W[x]
    PROVE  Claim(L, D, W2, held)
  BY DEF Claim, Holds, Apart, Covers

-----------------------------------------------------------------------------
(* What follows from the inductive invariant.                               *)

\* Buffers fit as long as the blocks in use keep their sizes.
LEMMA FitKeep ==
    ASSUME NEW U, NEW B, NEW B2, NEW held, Stable(B, B2, held), Fitting(U, B),
           \A u \in U : u.b \in Blocks /\ held[u.b] # {}
    PROVE  Fitting(U, B2)
  BY DEF Fitting, BufFits, Stable

\* The types that sound memory includes.
LEMMA MemTypes ==
    ASSUME NEW H, NEW B, NEW own, NEW kown, NEW held, Mem(H, B, own, kown, held)
    PROVE  ShapeTypes(H, B, own, kown) /\ Placed(H, B, own, kown) /\ held \in [Blocks -> SUBSET Nat]
  BY ShapeTyped DEF Mem

\* A block of which a chunk is in use is mapped and kept by nobody.
LEMMA HeldMapped ==
    ASSUME NEW H, NEW B, NEW own, NEW kown, NEW held, Mem(H, B, own, kown, held),
           NEW b \in Blocks, held[b] # {}
    PROVE  B[b] # NoBlk /\ B[b] \in BlkRec /\ B[b].tid \in Nums /\ kown[b] = NULL
  <1>1. BlockOK(B[b], own[b], kown[b], held[b]) BY DEF Mem
  <1>2. B[b] # NoBlk /\ kown[b] = NULL BY <1>1 DEF BlockOK
  <1>3. B[b] \in BlkRec BY <1>2, MemTypes DEF ShapeTypes, BlksType
  <1> QED BY <1>2, <1>3 DEF BlkRec, Nums

\* A block that differs in its shifts only.
LEMMA ShiftSet ==
    ASSUME NEW x \in BlkRec, NEW S \in SUBSET (Nat \X Nat)
    PROVE  [x EXCEPT !.shift = S] \in BlkRec
  BY Zenon DEF BlkRec

\* Only the shifts change.
LEMMA ShiftIs ==
    ASSUME NEW x \in BlkRec, NEW S \in SUBSET (Nat \X Nat), NEW y, y = [x EXCEPT !.shift = S]
    PROVE  y \in BlkRec /\ y # NoBlk /\ SameShifted(y, x) /\ y.shift = S
  <1>1. y \in BlkRec BY ShiftSet
  <1>2. y # NoBlk BY <1>1, NoBlkApart
  <1>3. SameShifted(y, x) /\ y.shift = S BY DEF SameShifted, BlkRec
  <1> QED BY <1>1, <1>2, <1>3

\* The shifts of a block do not matter for the memory.
LEMMA MemShift ==
    ASSUME NEW H, NEW B, NEW own, NEW kown, NEW held, Mem(H, B, own, kown, held),
           NEW b \in Blocks, B[b] # NoBlk, NEW S \in SUBSET (Nat \X Nat)
    PROVE  /\ Mem(H, [B EXCEPT ![b].shift = S], own, kown, held)
           /\ ShiftedTo(B, b, S, [B EXCEPT ![b].shift = S])
  <1>1. Shape(H, B, own, kown, Rm(B)) /\ ShapeTypes(H, B, own, kown) BY MemTypes DEF Mem
  <1>2. B \in BlksType /\ H \in HeapsType /\ B[b] \in BlkRec BY <1>1 DEF ShapeTypes, BlksType
  <1> DEFINE y == [B[b] EXCEPT !.shift = S]
             B2 == [B EXCEPT ![b].shift = S]
  <1>3. B2 = [B EXCEPT ![b] = y] BY <1>2 DEF BlksType
  <1> HIDE DEF B2
  <1>4. y \in BlkRec /\ y # NoBlk /\ SameShifted(y, B[b]) /\ y.shift = S
    <2>1. y = [B[b] EXCEPT !.shift = S] OBVIOUS
    <2> HIDE DEF y
    <2> QED BY <1>2, <2>1, ShiftIs
  <1> HIDE DEF y
  <1>5. B2 \in BlksType /\ B2[b] = y /\ \A c \in Blocks : c # b => B2[c] = B[c] BY <1>2, <1>3, <1>4 DEF BlksType
  <1>6. \A c \in Blocks : (B2[c] = NoBlk <=> B[c] = NoBlk) /\ SameShifted(B2[c], B[c])
    BY <1>4, <1>5 DEF SameShifted
  <1>7. Rm(B2) = Rm(B) BY <1>6 DEF Rm, SameShifted
  <1>8. Shape(H, B2, own, kown, Rm(B))
    <2>1. \A c \in Blocks : own[c] # NoList => B[c] # NoBlk
      <3>1. PICK r, q : ShapeBy(H, B, own, kown, Rm(B), r, q) BY <1>1 DEF Shape
      <3> QED BY <3>1 DEF ShapeBy, Links
    <2>2. \A c \in Blocks : kown[c] # NULL => B[c] # NoBlk BY MemTypes DEF Placed
    <2>3. \A c \in Blocks : own[c] # NoList => B2[c] # NoBlk /\ B2[c].next = B[c].next /\ B2[c].prev = B[c].prev
      BY <1>6, <2>1 DEF SameShifted
    <2>4. \A c \in Blocks : kown[c] # NULL => B2[c] # NoBlk /\ B2[c].next = B[c].next
      BY <1>6, <2>2 DEF SameShifted
    <2> QED BY <1>1, <1>2, <1>5, <2>3, <2>4, ShapeFrame
  <1>9. ASSUME NEW c \in Blocks PROVE BlockOK(B2[c], own[c], kown[c], held[c]) /\ KindOK(B2[c])
    <2>1. BlockOK(B[c], own[c], kown[c], held[c]) /\ KindOK(B[c]) BY DEF Mem
    <2>2. SmallOK(B[c], held[c]) => SmallOK(B2[c], held[c])
      BY <1>6 DEF SameShifted, SmallOK, ChunksIn, ChunksOff
    <2>3. BlockOK(B2[c], own[c], kown[c], held[c]) BY <1>6, <2>1, <2>2 DEF BlockOK, SameShifted
    <2>4. KindOK(B2[c]) BY <1>6, <2>1, Zenon DEF KindOK, SameShifted
    <2> QED BY <2>3, <2>4
  <1>10. Mem(H, B2, own, kown, held) BY <1>7, <1>8, <1>9 DEF Mem
  <1>11. ShiftedTo(B, b, S, B2) BY <1>4, <1>5 DEF ShiftedTo
  <1> QED BY <1>10, <1>11 DEF B2

\* The claims on chunks, said of the buffers in use and of arg.
LEMMA InUseIs ==
    ASSUME Args, NEW held, Claim(live, Busy, Cells, held)
    PROVE  InUseOK(held)
  <1>1. Holds(live, Busy, Cells, held) /\ Apart(live, Busy, Cells) BY DEF Claim
  <1>2. ASSUME NEW t \in Threads, pc[t] = "drop"
        PROVE  t \in Busy /\ Cells[t] = Loc(arg[t]) /\ arg[t] \in BufRec
    BY <1>2 DEF Busy, Cells, Args
  <1>3. ASSUME NEW t \in Threads, pc[t] = "free" PROVE t \in Busy /\ Cells[t] = <<arg[t].b, arg[t].off>>
    BY <1>3 DEF Busy, Cells
  <1>4. ASSUME NEW u \in InUse PROVE u \in live \/ \E t \in Threads : pc[t] = "drop" /\ u = arg[t]
    BY DEF InUse
  <1>5. ASSUME NEW u \in InUse
        PROVE  u \in BufRec /\ u.b \in Blocks /\ u.off - u.shift \in held[u.b] /\ held[u.b] # {}
    <2>1. CASE u \in live BY <1>1, <2>1 DEF Holds, BufRec
    <2>2. ASSUME NEW t \in Threads, pc[t] = "drop", u = arg[t]
          PROVE  u \in BufRec /\ u.b \in Blocks /\ u.off - u.shift \in held[u.b]
      <3>1. t \in Busy /\ Cells[t] = Loc(u) /\ u \in BufRec BY <1>2, <2>2
      <3>2. Loc(u)[2] \in held[Loc(u)[1]] BY <1>1, <3>1 DEF Holds
      <3> QED BY <3>1, <3>2 DEF Loc, BufRec
    <2> QED BY <1>4, <2>1, <2>2
  <1>6. ASSUME NEW u \in InUse, NEW v \in InUse, Loc(u) = Loc(v) PROVE u = v
    <2>1. CASE u \in live /\ v \in live BY <1>1, <1>6, <2>1 DEF Apart
    <2>2. CASE u \in live /\ v \notin live
      <3>1. PICK t \in Threads : pc[t] = "drop" /\ v = arg[t] BY <1>4, <2>2
      <3>2. t \in Busy /\ Cells[t] = Loc(v) BY <1>2, <3>1
      <3> QED BY <1>1, <1>6, <2>2, <3>2 DEF Apart
    <2>3. CASE u \notin live /\ v \in live
      <3>1. PICK t \in Threads : pc[t] = "drop" /\ u = arg[t] BY <1>4, <2>3
      <3>2. t \in Busy /\ Cells[t] = Loc(u) BY <1>2, <3>1
      <3> QED BY <1>1, <1>6, <2>3, <3>2 DEF Apart
    <2>4. CASE u \notin live /\ v \notin live
      <3>1. PICK s \in Threads : pc[s] = "drop" /\ u = arg[s] BY <1>4, <2>4
      <3>2. PICK t \in Threads : pc[t] = "drop" /\ v = arg[t] BY <1>4, <2>4
      <3>3. s \in Busy /\ Cells[s] = Loc(u) /\ t \in Busy /\ Cells[t] = Loc(v) BY <1>2, <3>1, <3>2
      <3>4. s = t BY <1>1, <1>6, <3>3 DEF Apart
      <3> QED BY <3>1, <3>2, <3>4
    <2> QED BY <2>1, <2>2, <2>3, <2>4
  <1>7. ASSUME NEW t \in Threads, pc[t] = "free"
        PROVE  /\ arg[t].b \in Blocks /\ arg[t].off \in held[arg[t].b] /\ arg[t].off \in Nat
               /\ \A u \in InUse : Loc(u) # <<arg[t].b, arg[t].off>>
    <2>1. t \in Busy /\ Cells[t] = <<arg[t].b, arg[t].off>> BY <1>3, <1>7
    <2>2. arg[t].b \in Blocks /\ arg[t].off \in held[arg[t].b] /\ arg[t].off \in Nat BY <1>1, <2>1 DEF Holds
    <2>3. ASSUME NEW u \in InUse PROVE Loc(u) # <<arg[t].b, arg[t].off>>
      <3>1. CASE u \in live BY <1>1, <2>1, <3>1 DEF Apart
      <3>2. CASE u \notin live
        <4>1. PICK s \in Threads : pc[s] = "drop" /\ u = arg[s] BY <1>4, <3>2
        <4>2. s \in Busy /\ Cells[s] = Loc(u) /\ s # t BY <1>2, <1>7, <4>1
        <4> QED BY <1>1, <2>1, <4>2 DEF Apart
      <3> QED BY <3>1, <3>2
    <2> QED BY <2>2, <2>3
  <1>8. ASSUME NEW t \in Threads, pc[t] = "drop" PROVE arg[t] \notin live
    BY <1>1, <1>2, <1>8 DEF Apart
  <1>9. ASSUME NEW s \in Threads, NEW t \in Threads, pc[t] = "drop", pc[s] = "drop", arg[s] = arg[t] PROVE s = t
    <2>1. s \in Busy /\ t \in Busy /\ Cells[s] = Cells[t] BY <1>2, <1>9
    <2> QED BY <1>1, <2>1 DEF Apart
  <1> QED BY <1>5, <1>6, <1>7, <1>8, <1>9 DEF InUseOK

\* What free reads from the header of a buffer is its shift.
LEMMA HdrShiftIs ==
    ASSUME NEW own, NEW kown, NEW held, Mem(heap, blk, own, kown, held), InUseOK(held), Shifts(InUse, blk), NEW u \in InUse
    PROVE  HdrShift(u) = u.shift
  <1>1. CASE u.shift # 0 BY <1>1 DEF HdrShift
  <1>2. CASE u.shift = 0
    <2>1. u \in BufRec /\ u.b \in Blocks /\ held[u.b] # {} BY DEF InUseOK
    <2>2. blk[u.b] # NoBlk BY <2>1, HeldMapped
    <2>3. ASSUME NEW p \in blk[u.b].shift, p[1] = u.off PROVE FALSE
      <3>1. PICK v \in InUse : v.b = u.b /\ v.off - v.shift = p[1] /\ v.shift # 0 BY <2>1, <2>2 DEF Shifts
      <3>2. u.off \in Nat BY <2>1 DEF BufRec
      <3>3. Loc(v) = Loc(u) BY <1>2, <2>3, <3>1, <3>2 DEF Loc
      <3>4. v = u BY <3>3 DEF InUseOK
      <3> QED BY <1>2, <3>1, <3>4
    <2> QED BY <1>2, <2>3 DEF HdrShift
  <1> QED BY <1>1, <1>2

\* The heap that a chunk in use goes back to.
LEMMA HeldPlace ==
    ASSUME Types, Table, NEW own, NEW kown, NEW held, Mem(heap, blk, own, kown, held), Place(own, kown, held),
           NEW b \in Blocks, held[b] # {}
    PROVE  Owner(own, kown, b, slot[blk[b].tid])
  <1> DEFINE h == slot[blk[b].tid]
  <1>1. blk[b] # NoBlk /\ blk[b].tid \in Nums /\ kown[b] = NULL BY HeldMapped
  <1>2. h # NULL BY DEF Place
  <1>3. h \in Threads BY <1>1, <1>2 DEF Types
  <1>4. heap[h] # NoHeap /\ pc[h] # "unmap" /\ tid[h] = blk[b].tid BY <1>1, <1>2 DEF Table
  <1>5. own[b] = NoList \/ own[b][1] = h
    <2>1. SUFFICES ASSUME own[b] # NoList PROVE own[b][1] = h OBVIOUS
    <2>2. ShapeTypes(heap, blk, own, kown) /\ Placed(heap, blk, own, kown) BY MemTypes
    <2>3. own[b] \in Ids BY <2>1, <2>2 DEF ShapeTypes
    <2> DEFINE x == own[b][1]
    <2>4. x \in Threads BY <2>3 DEF Ids
    <2>5. heap[x] # NoHeap BY <2>1, <2>2 DEF Placed
    <2>6. InHeap(own, kown, x, b) BY <2>1 DEF InHeap
    <2>7. pc[x] # "unmap" BY <2>4, <2>6 DEF Place
    <2>8. TidOK(blk, own, kown, x) BY <2>4, <2>7 DEF Place
    <2>9. blk[b].tid = tid[x] BY <2>1, <2>8 DEF TidOK
    <2>10. slot[tid[x]] = x BY <2>4, <2>5, <2>7 DEF Table
    <2> QED BY <2>9, <2>10
  <1> QED BY <1>1, <1>3, <1>4, <1>5 DEF PlaceOf, Owner

-----------------------------------------------------------------------------
(* What steps that leave the table alone keep.                              *)

\* A step that leaves numbers and mapped heaps alone keeps the table.
LEMMA TableKeep ==
    ASSUME Table, SameTable,
           \A x \in Threads : heap'[x] # NoHeap <=> heap[x] # NoHeap,
           \A x \in Threads : pc'[x] = "unmap" <=> pc[x] = "unmap",
           \A x \in Threads : pc'[x] \in {"unmap", "drop", "free"} => heap[x] # NoHeap, Types
    PROVE  Table'
  <1>1. \A x \in Threads : heap'[x] # NoHeap /\ pc'[x] # "unmap" => tid'[x] \in Nums /\ slot'[tid'[x]] = x
    BY DEF Table, SameTable
  <1>2. ASSUME NEW i \in Nums, slot'[i] # NULL
        PROVE  heap'[slot'[i]] # NoHeap /\ pc'[slot'[i]] # "unmap" /\ tid'[slot'[i]] = i
    <2>1. slot[i] # NULL /\ slot[i] \in Threads BY <1>2 DEF SameTable, Types
    <2> QED BY <2>1 DEF Table, SameTable
  <1>3. count' = Cardinality({i \in Nums : slot'[i] # NULL}) BY DEF Table, SameTable
  <1>4. \A x \in Threads : pc'[x] \in {"unmap", "drop", "free"} => heap'[x] # NoHeap OBVIOUS
  <1> QED BY <1>1, <1>2, <1>3, <1>4 DEF Table, Nums

\* What the other threads are about to free.
LEMMA ArgsKeep ==
    ASSUME Args, NEW held, Stable(blk, blk', held),
           \A c \in Blocks : held[c] # {} => slot'[blk[c].tid] = slot[blk[c].tid],
           NEW t \in Threads, \A x \in Threads : x # t => pc'[x] = pc[x] /\ arg'[x] = arg[x],
           \A x \in Threads : x # t /\ pc[x] = "free" => arg[x].b \in Blocks /\ held[arg[x].b] # {},
           pc'[t] = "drop" => arg'[t] \in BufRec,
           pc'[t] = "free" => arg'[t].after \in {"run", "ended"} /\ arg'[t].heap = slot'[blk'[arg'[t].b].tid]
    PROVE  Args'
  <1>1. ASSUME NEW x \in Threads, pc'[x] = "drop" PROVE arg'[x] \in BufRec'
    <2>1. BufRec' = BufRec BY DEF BufRec
    <2> QED BY <1>1, <2>1 DEF Args
  <1>2. ASSUME NEW x \in Threads, pc'[x] = "free"
        PROVE  arg'[x].after \in {"run", "ended"} /\ arg'[x].heap = slot'[blk'[arg'[x].b].tid]
    <2>1. CASE x = t BY <1>2, <2>1
    <2>2. CASE x # t
      <3>1. pc[x] = "free" /\ arg'[x] = arg[x] BY <1>2, <2>2
      <3>3. arg[x].b \in Blocks /\ held[arg[x].b] # {} BY <2>2, <3>1
      <3>4. blk'[arg[x].b].tid = blk[arg[x].b].tid BY <3>3 DEF Stable
      <3>5. slot'[blk[arg[x].b].tid] = slot[blk[arg[x].b].tid] BY <3>3
      <3>6. arg[x].after \in {"run", "ended"} /\ arg[x].heap = slot[blk[arg[x].b].tid] BY <3>1 DEF Args
      <3> QED BY <3>1, <3>4, <3>5, <3>6
    <2> QED BY <2>1, <2>2
  <1> QED BY <1>1, <1>2 DEF Args

\* The chunks of the threads that are about to free.
LEMMA FreeingHeld ==
    ASSUME NEW held, Claim(live', Busy', Cells', held),
           NEW x \in Threads, pc'[x] = "free", arg'[x] = arg[x]
    PROVE  arg[x].b \in Blocks /\ held[arg[x].b] # {}
  <1>1. x \in Busy' /\ Cells'[x] = <<arg[x].b, arg[x].off>> BY DEF Busy, Cells
  <1> QED BY <1>1 DEF Claim, Holds
-----------------------------------------------------------------------------
(* A chunk comes back.                                                      *)

\* What a free leaves of the blocks.
LEMMA FreedStable ==
    ASSUME NEW H, NEW B, NEW own, NEW kown, NEW held, NEW B2, NEW own2, NEW kown2, NEW held2, NEW t, NEW b,
           Mem(H, B2, own2, kown2, held2), Freed(B, own, kown, held, B2, own2, kown2, t, b)
    PROVE  Stable(B, B2, held2)
  <1>2. ASSUME NEW c \in Blocks, held2[c] # {}
        PROVE  B2[c] # NoBlk /\ B2[c].tid = B[c].tid /\ B2[c].size = B[c].size /\ B2[c].binndx = B[c].binndx
    <2>1. BlockOK(B2[c], own2[c], kown2[c], held2[c]) BY DEF Mem
    <2>2. B2[c] # NoBlk BY <1>2, <2>1 DEF BlockOK
    <2>3. (c # b /\ Same(B2[c], B[c])) \/ Stays(B2[c], B[c]) BY <2>2 DEF Freed
    <2> QED BY <2>2, <2>3 DEF Same, Stays
  <1> QED BY <1>2 DEF Stable

\* Blocks keep their numbers and heaps through a free.
LEMMA FreedPlace ==
    ASSUME NEW own, NEW kown, NEW held, Mem(heap, blk, own, kown, held), Place(own, kown, held),
           NEW own2, NEW kown2, NEW t \in Threads, NEW b \in Blocks, pc[t] # "unmap", tid[t] = blk[b].tid,
           NEW held2, Stable(blk, blk', held2), \A c \in Blocks : (c # b => held2[c] = held[c]) /\ held2[c] \subseteq held[c],
           Freed(blk, own, kown, held, blk', own2, kown2, t, b),
           \A x \in Threads : pc'[x] = "unmap" <=> pc[x] = "unmap", SameTable
    PROVE  Place(own2, kown2, held2)'
  <1>1. ASSUME NEW x \in Threads, NEW c \in Blocks, InHeap(own2, kown2, x, c)
        PROVE  \/ c # b /\ Same(blk'[c], blk[c]) /\ InHeap(own, kown, x, c)
               \/ c = b /\ x = t /\ Stays(blk'[c], blk[c])
    <2>1. ~(own2[c] = NoList /\ kown2[c] = NULL) BY <1>1, NullApart DEF InHeap
    <2>2. CASE c # b /\ Same(blk'[c], blk[c]) /\ own2[c] = own[c] /\ kown2[c] = kown[c]
      BY <1>1, <2>2 DEF InHeap
    <2>3. CASE c = b /\ Stays(blk'[c], blk[c]) /\ PlaceOf(own2[c], kown2[c], t)
      BY <1>1, <2>3, NullApart DEF InHeap, PlaceOf
    <2> QED BY <2>1, <2>2, <2>3 DEF Freed
  <1>2. ASSUME NEW x \in Threads, pc'[x] # "unmap", NEW c \in Blocks, InHeap(own2, kown2, x, c)
        PROVE  blk'[c].tid = tid'[x]
    <2>1. CASE c # b /\ Same(blk'[c], blk[c]) /\ InHeap(own, kown, x, c)
      <3>1. TidOK(blk, own, kown, x) BY <1>2 DEF Place
      <3>2. blk[c].tid = tid[x] BY <2>1, <3>1 DEF TidOK, InHeap
      <3> QED BY <2>1, <3>2 DEF Same, SameTable
    <2>2. CASE c = b /\ x = t /\ Stays(blk'[c], blk[c]) BY <2>2 DEF Stays, SameTable
    <2> QED BY <1>1, <1>2, <2>1, <2>2
  <1>3. \A x \in Threads : pc'[x] # "unmap" => TidOK(blk, own2, kown2, x)' BY <1>2 DEF TidOK, InHeap
  <1>4. ASSUME NEW x \in Threads, NEW c \in Blocks, pc'[x] = "unmap", InHeap(own2, kown2, x, c) PROVE held2[c] = {}
    <2>1. pc[x] = "unmap" BY <1>4
    <2>2. c # b /\ InHeap(own, kown, x, c) BY <1>1, <1>4, <2>1
    <2>3. held[c] = {} BY <2>1, <2>2 DEF Place
    <2> QED BY <2>2, <2>3
  <1>5. ASSUME NEW c \in Blocks, held2[c] # {} PROVE slot'[blk'[c].tid] # NULL
    <2>1. blk'[c].tid = blk[c].tid BY <1>5 DEF Stable
    <2>2. held[c] # {} BY <1>5
    <2> QED BY <2>1, <2>2 DEF Place, SameTable
  <1>6. \A x \in Threads, c \in Blocks : InHeap(own2, kown2, x, c)' <=> InHeap(own2, kown2, x, c) BY DEF InHeap
  <1> QED BY <1>3, <1>4, <1>5, <1>6 DEF Place

\* nc_free under the lock keeps the invariant.
LEMMA StepFreeLocked ==
    ASSUME IInv, NEW t \in Threads, FreeLocked(t)
    PROVE  IInv'
  <1>0. PICK b, off, h : b = arg[t].b /\ off = arg[t].off /\ h = arg[t].heap OBVIOUS
  <1>a. PICK p : p = FreeIn(h, b, off) OBVIOUS
  <1>1. Types /\ Table /\ Limits /\ Args /\ Fitting(InUse, blk) /\ Shifts(InUse, blk) BY DEF IInv
  <1>2. PICK own, kown, held : Sound(own, kown, held) BY DEF IInv
  <1>3. Mem(heap, blk, own, kown, held) /\ Place(own, kown, held) /\ Claim(live, Busy, Cells, held)
    BY <1>2 DEF Sound
  <1>4. InUseOK(held) BY <1>1, <1>3, InUseIs
  <1>5. pc[t] = "free" /\ t \in Busy /\ Cells[t] = <<b, off>> BY <1>0 DEF FreeLocked, Busy, Cells
  <1>6. b \in Blocks /\ off \in held[b] /\ held[b] # {} BY <1>0, <1>4, <1>5 DEF InUseOK
  <1>7. h = slot[blk[b].tid] /\ arg[t].after \in {"run", "ended"} BY <1>0, <1>1, <1>5 DEF Args
  <1>8. /\ h \in Threads /\ heap[h] # NoHeap /\ pc[h] # "unmap" /\ tid[h] = blk[b].tid
        /\ PlaceOf(own[b], kown[b], h) /\ blk[b] # NoBlk
    <2>1. Owner(own, kown, b, slot[blk[b].tid]) BY <1>1, <1>3, <1>6, HeldPlace
    <2> QED BY <1>7, <2>1 DEF Owner
  <1>9. ShapeTypes(heap, blk, own, kown) /\ held \in [Blocks -> SUBSET Nat] BY <1>3, MemTypes
  <1>10. heap \in HeapsType /\ blk \in BlksType BY <1>9 DEF ShapeTypes
  <1>11. heap[h].mapped /\ blk[b].mapped
    <2>1. heap[h] \in HeapRec \cup {NoHeap} /\ blk[b] \in BlkRec \cup {NoBlk}
      BY <1>6, <1>8, <1>10 DEF HeapsType, BlksType
    <2> QED BY <1>8, <2>1, NoHeapApart, NoBlkApart
  <1>12. /\ heap' = [heap EXCEPT ![h] = p.h] /\ blk' = p.B /\ pc' = [pc EXCEPT ![t] = arg[t].after]
         /\ arg' = [arg EXCEPT ![t] = NoArg] /\ live' = live /\ stop' = stop /\ SameTable
    <2>1. /\ heap' = [heap EXCEPT ![h] = p.h] /\ blk' = p.B /\ pc' = [pc EXCEPT ![t] = arg[t].after]
          /\ arg' = [arg EXCEPT ![t] = NoArg] /\ UNCHANGED <<tid, slot, count, live, stop>>
      BY <1>0, <1>a, <1>11, Zenon DEF FreeLocked, Goto
    <2> QED BY <2>1 DEF SameTable
  <1>13. Back(heap, blk, own, kown, held, h, b, off, p.h, p.B)
    <2> QED BY <1>a, <1>3, <1>6, <1>8, BackOK
  <1> DEFINE held2 == [held EXCEPT ![b] = held[b] \ {off}]
  <1>14. BackPlace(heap, blk, own, kown, held, h, b, off, p.h, p.B) /\ CountsIn(p.h, heap[h]) BY <1>13 DEF Back
  <1>15. PICK own2, kown2 : Mem(heap', blk', own2, kown2, held2) /\ Freed(blk, own, kown, held, blk', own2, kown2, h, b)
    BY <1>12, <1>14 DEF BackPlace
  <1>16. \A x \in Threads : x # t => pc'[x] = pc[x] /\ arg'[x] = arg[x] BY <1>1, <1>12 DEF Types
  <1>17. pc'[t] = arg[t].after /\ pc'[t] \in {"run", "ended"} BY <1>1, <1>7, <1>12 DEF Types
  <1>18. \A x \in Threads : (x # h => heap'[x] = heap[x]) /\ heap'[h] = p.h
    BY <1>8, <1>10, <1>12 DEF HeapsType
  <1>19. p.h # NoHeap BY <1>14, NoHeapApart DEF CountsIn
  <1>21. Stable(blk, blk', held2) /\ \A c \in Blocks : (c # b => held2[c] = held[c]) /\ held2[c] \subseteq held[c]
    <2>1. \A c \in Blocks : (c # b => held2[c] = held[c]) /\ held2[c] \subseteq held[c] BY <1>9
    <2> HIDE DEF held2
    <2>2. Stable(blk, blk', held2) BY <1>15, FreedStable
    <2> QED BY <2>1, <2>2
  <1>22. \A x \in Threads : pc'[x] = "unmap" <=> pc[x] = "unmap" BY <1>5, <1>16, <1>17
  <1>23. Place(own2, kown2, held2)'
    <2> HIDE DEF held2
    <2> QED BY <1>3, <1>6, <1>8, <1>12, <1>15, <1>21, <1>22, FreedPlace
  <1>24. Claim(live', Busy', Cells', held2)
    <2>1. Busy' = Busy \ {t} BY <1>5, <1>16, <1>17 DEF Busy
    <2>2. \A x \in Busy \ {t} : Cells'[x] = Cells[x]
      <3>1. TAKE x \in Busy \ {t}
      <3>2. x \in Threads /\ x # t BY DEF Busy
      <3>3. pc'[x] = pc[x] /\ arg'[x] = arg[x] BY <1>16, <3>2
      <3> QED BY <3>2, <3>3 DEF Cells
    <2>3. held2 = [held EXCEPT ![b] = held[b] \ {off}] OBVIOUS
    <2> HIDE DEF held2
    <2>4. Claim(live, Busy \ {t}, Cells', held2) BY <1>3, <1>5, <1>9, <2>2, <2>3, ClaimDrop
    <2> QED BY <1>12, <2>1, <2>4
  <1>25. Sound(own2, kown2, held2)' BY <1>15, <1>23, <1>24 DEF Sound
  <1>26. Types'
    <2>1. pc' \in [Threads -> Labels] BY <1>1, <1>7, <1>12 DEF Types, Labels
    <2>2. arg' = [x \in Threads |-> arg'[x]] BY <1>1, <1>12 DEF Types
    <2> QED BY <1>1, <1>12, <2>1, <2>2 DEF Types, SameTable, Labels, Nums
  <1>27. Table'
    <2>1. \A x \in Threads : heap'[x] # NoHeap <=> heap[x] # NoHeap BY <1>8, <1>18, <1>19
    <2>2. \A x \in Threads : pc'[x] \in {"unmap", "drop", "free"} => heap[x] # NoHeap BY <1>1, <1>16, <1>17 DEF Table
    <2> QED BY <1>1, <1>12, <1>22, <2>1, <2>2, TableKeep
  <1>28. Limits'
    <2>1. p.h.blkfreecnt <= KeepBlk /\ p.h.biglrucnt <= KeepBig BY <1>1, <1>8, <1>14 DEF CountsIn, Limits
    <2> QED BY <1>1, <1>18, <2>1 DEF Limits
  <1>29. Args'
    <2>1. \A c \in Blocks : held2[c] # {} => slot'[blk[c].tid] = slot[blk[c].tid] BY <1>12 DEF SameTable
    <2>2. pc'[t] # "drop" /\ pc'[t] # "free" BY <1>17
    <2> HIDE DEF held2
    <2>3. \A x \in Threads : x # t /\ pc[x] = "free" => arg[x].b \in Blocks /\ held2[arg[x].b] # {}
      BY <1>16, <1>24, FreeingHeld
    <2> QED BY <1>1, <1>16, <1>21, <2>1, <2>2, <2>3, ArgsKeep
  <1>30. InUse' = InUse
    <2>1. {x \in Threads : pc'[x] = "drop"} = {x \in Threads : pc[x] = "drop"} BY <1>5, <1>16, <1>17
    <2>2. \A x \in Threads : pc[x] = "drop" => arg'[x] = arg[x] BY <1>5, <1>16
    <2> QED BY <1>12, <2>1, <2>2 DEF InUse
  <1>31. ASSUME NEW u \in InUse PROVE u.b \in Blocks /\ held2[u.b] # {}
    <2>1. u.b \in Blocks /\ u.off - u.shift \in held[u.b] BY <1>4 DEF InUseOK
    <2>2. Loc(u) # <<b, off>> BY <1>0, <1>4, <1>5 DEF InUseOK
    <2>3. u.off - u.shift \in held2[u.b] BY <1>9, <2>1, <2>2 DEF Loc
    <2> QED BY <2>1, <2>3
  <1>32. Fitting(InUse, blk)'
    <2>1. Fitting(InUse, blk')
      <3> HIDE DEF held2
      <3> QED BY <1>1, <1>21, <1>31, FitKeep
    <2> QED BY <1>30, <2>1 DEF Fitting, BufFits
  <1>33. Shifts(InUse, blk)'
    <2>1. ASSUME NEW c \in Blocks, blk'[c] # NoBlk, NEW q \in blk'[c].shift
          PROVE  \E v \in InUse : v.b = c /\ v.off - v.shift = q[1] /\ v.shift # 0
      <3>1. Same(blk'[c], blk[c]) \/ Stays(blk'[c], blk[c]) BY <1>15, <2>1 DEF Freed
      <3>2. blk'[c].shift = blk[c].shift BY <3>1 DEF Same, Stays
      <3>3. blk[c] # NoBlk
        <4>1. CASE Same(blk'[c], blk[c]) BY <2>1, <4>1 DEF Same
        <4>2. CASE c = b BY <1>8, <4>2
        <4> QED BY <1>15, <2>1, <4>1, <4>2 DEF Freed
      <3> QED BY <1>1, <2>1, <3>2, <3>3 DEF Shifts
    <2> QED BY <1>30, <2>1 DEF Shifts
  <1> QED BY <1>25, <1>26, <1>27, <1>28, <1>29, <1>32, <1>33 DEF IInv

-----------------------------------------------------------------------------
(* nc_free up to the lock.                                                  *)

\* A step that leaves the places of the blocks, their numbers and the table.
LEMMA PlaceSame ==
    ASSUME NEW own, NEW kown, NEW held, Place(own, kown, held), SameTable,
           \A x \in Threads : pc'[x] = "unmap" <=> pc[x] = "unmap",
           \A c \in Blocks : blk'[c].tid = blk[c].tid
    PROVE  Place(own, kown, held)'
  <1>1. \A x \in Threads : pc'[x] # "unmap" => TidOK(blk, own, kown, x)' BY DEF Place, TidOK, SameTable
  <1>2. \A x \in Threads, c \in Blocks : pc'[x] = "unmap" /\ InHeap(own, kown, x, c)' => held[c] = {}
    BY DEF Place, InHeap
  <1>3. \A c \in Blocks : held[c] # {} => slot'[blk'[c].tid] # NULL BY DEF Place, SameTable
  <1> QED BY <1>1, <1>2, <1>3 DEF Place

\* nc_free finds the block mapped, its owner in the table and the shift of the buffer in the header.
LEMMA BeginIs ==
    ASSUME Types, Table, NEW own, NEW kown, NEW held, Mem(heap, blk, own, kown, held), Place(own, kown, held),
           InUseOK(held), Shifts(InUse, blk),
           NEW t \in Threads, heap[t] # NoHeap, pc[t] # "unmap", NEW u \in InUse, NEW after, BeginFree(t, u, after)
    PROVE  Begun(t, u, u.off - u.shift, slot[blk[u.b].tid], after)
  <1>1. u.b \in Blocks /\ held[u.b] # {} BY DEF InUseOK
  <1>2. blk[u.b] # NoBlk /\ blk[u.b] \in BlkRec BY <1>1, HeldMapped
  <1>3. blk[u.b].mapped BY <1>2, NoBlkApart
  <1>4. slot[blk[u.b].tid] # NULL BY <1>1 DEF Place
  <1>5. HdrShift(u) = u.shift BY HdrShiftIs
  <1>6. blk[u.b].tid = tid[t] => slot[blk[u.b].tid] = t BY DEF Table
  <1>7. (IF blk[u.b].tid = tid[t] THEN t ELSE slot[blk[u.b].tid]) = slot[blk[u.b].tid] BY <1>6
  <1> DEFINE o == u.off - u.shift
  <1>8. blk' = Unshift(u)
        /\ arg' = [arg EXCEPT ![t] = [b |-> u.b, off |-> u.off - HdrShift(u), after |-> after,
                     heap |-> IF blk[u.b].tid = tid[t] THEN t ELSE slot[blk[u.b].tid]]]
        /\ live' = live \ {u} /\ pc' = [pc EXCEPT ![t] = "free"] /\ UNCHANGED <<tid, slot, count, heap, stop>>
    BY <1>3, <1>4, Zenon DEF BeginFree, Goto
  <1>9. Unshift(u) = [blk EXCEPT ![u.b].shift = {p \in blk[u.b].shift : p[1] # o}]
    <2>1. blk \in BlksType BY MemTypes DEF ShapeTypes
    <2> QED BY <1>1, <1>2, <1>5, <2>1 DEF Unshift, BlksType
  <1>10. arg' = [arg EXCEPT ![t] = [b |-> u.b, off |-> o, after |-> after, heap |-> slot[blk[u.b].tid]]]
    BY <1>5, <1>7, <1>8, Zenon
  <1> QED BY <1>8, <1>9, <1>10 DEF Begun, SameTable

\* nc_free up to the lock keeps the invariant.
LEMMA StepBegin ==
    ASSUME IInv, NEW t \in Threads, heap[t] # NoHeap, NEW u, NEW after \in {"run", "ended"}, BeginFree(t, u, after),
           (u \in live /\ pc[t] \in {"run", "info"}) \/ (u = arg[t] /\ pc[t] = "drop")
    PROVE  IInv'
  <1>1. Types /\ Table /\ Limits /\ Args /\ Fitting(InUse, blk) /\ Shifts(InUse, blk) BY DEF IInv
  <1>2. PICK own, kown, held : Sound(own, kown, held) BY DEF IInv
  <1>3. Mem(heap, blk, own, kown, held) /\ Place(own, kown, held) /\ Claim(live, Busy, Cells, held)
    BY <1>2 DEF Sound
  <1>4. InUseOK(held) BY <1>1, <1>3, InUseIs
  <1>5. u \in InUse /\ pc[t] # "unmap" /\ pc[t] # "free" BY DEF InUse
  <1>6. u \in BufRec /\ u.b \in Blocks /\ u.off - u.shift \in held[u.b] /\ held[u.b] # {} BY <1>4, <1>5 DEF InUseOK
  <1>7. PICK o, g, S : o = u.off - u.shift /\ g = slot[blk[u.b].tid] /\ S = {p \in blk[u.b].shift : p[1] # o} OBVIOUS
  <1>8. Begun(t, u, o, g, after)
    <2>1. Begun(t, u, u.off - u.shift, slot[blk[u.b].tid], after) BY <1>1, <1>3, <1>4, <1>5, BeginIs
    <2> QED BY <1>7, <2>1
  <1>9. held \in [Blocks -> SUBSET Nat] BY <1>3, MemTypes
  <1>10. blk[u.b] # NoBlk /\ blk[u.b] \in BlkRec BY <1>3, <1>6, HeldMapped
  <1>11. S \in SUBSET (Nat \X Nat) BY <1>7, <1>10 DEF BlkRec
  <1>12. blk' = [blk EXCEPT ![u.b].shift = S] BY <1>7, <1>8 DEF Begun
  <1>13. /\ Mem(heap, blk', own, kown, held)
         /\ \A c \in Blocks : c # u.b => blk'[c] = blk[c]
         /\ blk'[u.b] # NoBlk /\ SameShifted(blk'[u.b], blk[u.b]) /\ blk'[u.b].shift = S
    <2>1. /\ Mem(heap, [blk EXCEPT ![u.b].shift = S], own, kown, held)
          /\ ShiftedTo(blk, u.b, S, [blk EXCEPT ![u.b].shift = S])
      BY <1>3, <1>6, <1>10, <1>11, MemShift
    <2> QED BY <1>12, <2>1 DEF ShiftedTo
  <1>14. heap' = heap /\ stop' = stop /\ SameTable /\ live' = live \ {u} BY <1>8 DEF Begun
  <1>15. pc' \in [Threads -> Labels] /\ pc'[t] = "free" /\ \A x \in Threads : x # t => pc'[x] = pc[x]
    BY <1>1, <1>8 DEF Begun, Types, Labels
  <1>16. /\ arg' = [x \in Threads |-> arg'[x]] /\ \A x \in Threads : x # t => arg'[x] = arg[x]
         /\ arg'[t] = [b |-> u.b, off |-> o, after |-> after, heap |-> g]
    BY <1>1, <1>8 DEF Begun, Types
  <1>17. arg'[t].b = u.b /\ arg'[t].off = o /\ arg'[t].after = after /\ arg'[t].heap = g BY <1>16
  <1>18. \A c \in Blocks : /\ blk'[c].tid = blk[c].tid /\ blk'[c].size = blk[c].size /\ blk'[c].binndx = blk[c].binndx
                           /\ (blk'[c] = NoBlk <=> blk[c] = NoBlk)
    BY <1>10, <1>13 DEF SameShifted
  <1>19. Stable(blk, blk', held)
    <2>1. \A c \in Blocks : held[c] # {} => blk[c] # NoBlk BY <1>3, HeldMapped
    <2> QED BY <1>18, <2>1 DEF Stable
  <1>20. \A x \in Threads : pc'[x] = "unmap" <=> pc[x] = "unmap" BY <1>5, <1>15
  <1>21. Place(own, kown, held)' BY <1>3, <1>14, <1>18, <1>20, PlaceSame
  <1>22. Cells'[t] = Loc(u) BY <1>7, <1>15, <1>17 DEF Cells, Loc
  <1>23. \A x \in Threads : x # t => Cells'[x] = Cells[x] BY <1>15, <1>16 DEF Cells
  <1>24. Claim(live', Busy', Cells', held)
    <2>1. CASE u \in live /\ pc[t] \in {"run", "info"}
      <3>1. t \notin Busy /\ Busy' = Busy \cup {t} BY <1>15, <2>1 DEF Busy
      <3>2. \A x \in Busy : Cells'[x] = Cells[x] BY <1>23, <3>1 DEF Busy
      <3>3. Claim(live \ {u}, Busy \cup {t}, Cells', held) BY <1>3, <1>9, <1>22, <2>1, <3>1, <3>2, ClaimMove
      <3> QED BY <1>14, <3>1, <3>3
    <2>2. CASE u = arg[t] /\ pc[t] = "drop"
      <3>1. Busy' = Busy BY <1>15, <2>2 DEF Busy
      <3>2. Cells[t] = Loc(u) BY <2>2 DEF Cells
      <3>3. \A x \in Busy : Cells'[x] = Cells[x] BY <1>22, <1>23, <3>2 DEF Busy
      <3>4. live' = live BY <1>4, <1>14, <2>2 DEF InUseOK
      <3>5. Claim(live, Busy, Cells', held) BY <1>3, <3>3, ClaimSame
      <3> QED BY <3>1, <3>4, <3>5
    <2> QED BY <2>1, <2>2
  <1>25. Sound(own, kown, held)' BY <1>13, <1>14, <1>21, <1>24 DEF Sound
  <1>26. Types' BY <1>1, <1>14, <1>15, <1>16 DEF Types, SameTable, Labels, Nums
  <1>27. Table'
    <2>1. \A x \in Threads : heap'[x] # NoHeap <=> heap[x] # NoHeap BY <1>14
    <2>2. \A x \in Threads : pc'[x] \in {"unmap", "drop", "free"} => heap[x] # NoHeap BY <1>1, <1>15 DEF Table
    <2> QED BY <1>1, <1>14, <1>20, <2>1, <2>2, TableKeep
  <1>28. Limits' BY <1>1, <1>14 DEF Limits
  <1>29. Args'
    <2>1. \A c \in Blocks : held[c] # {} => slot'[blk[c].tid] = slot[blk[c].tid] BY <1>14 DEF SameTable
    <2>2. g = slot'[blk'[u.b].tid] BY <1>6, <1>7, <1>14, <1>18 DEF SameTable
    <2>3. arg'[t].after \in {"run", "ended"} /\ arg'[t].heap = slot'[blk'[arg'[t].b].tid] BY <1>17, <2>2
    <2>4. pc'[t] # "drop" /\ \A x \in Threads : x # t => pc'[x] = pc[x] /\ arg'[x] = arg[x] BY <1>15, <1>16
    <2>5. \A x \in Threads : x # t /\ pc[x] = "free" => arg[x].b \in Blocks /\ held[arg[x].b] # {}
      BY <1>4 DEF InUseOK
    <2> QED BY <1>1, <1>19, <2>1, <2>3, <2>4, <2>5, ArgsKeep
  <1>30. InUse' \subseteq InUse
    <2>1. \A x \in Threads : pc'[x] = "drop" => pc[x] = "drop" /\ arg'[x] = arg[x] BY <1>15, <1>16
    <2> QED BY <1>14, <2>1 DEF InUse
  <1>31. ASSUME NEW v \in InUse, v # u PROVE v \in InUse'
    <2>1. CASE v \in live BY <1>14, <1>31, <2>1 DEF InUse
    <2>2. CASE v \notin live
      <3>1. PICK x \in Threads : pc[x] = "drop" /\ v = arg[x] BY <2>2 DEF InUse
      <3>2. x # t BY <1>31, <3>1
      <3>3. pc'[x] = "drop" /\ arg'[x] = v BY <1>15, <1>16, <3>1, <3>2
      <3> QED BY <3>3 DEF InUse
    <2> QED BY <2>1, <2>2
  <1>32. Fitting(InUse, blk)'
    <2>1. \A v \in InUse : v.b \in Blocks /\ held[v.b] # {} BY <1>4 DEF InUseOK
    <2>2. Fitting(InUse, blk') BY <1>1, <1>19, <2>1, FitKeep
    <2> QED BY <1>30, <2>2 DEF Fitting, BufFits
  <1>33. Shifts(InUse, blk)'
    <2>1. ASSUME NEW c \in Blocks, blk'[c] # NoBlk, NEW q \in blk'[c].shift
          PROVE  \E v \in InUse' : v.b = c /\ v.off - v.shift = q[1] /\ v.shift # 0
      <3>1. blk[c] # NoBlk /\ q \in blk[c].shift /\ (c = u.b => q[1] # o) BY <1>7, <1>10, <1>13, <2>1
      <3>2. PICK v \in InUse : v.b = c /\ v.off - v.shift = q[1] /\ v.shift # 0 BY <1>1, <3>1 DEF Shifts
      <3>3. v # u BY <1>7, <3>1, <3>2
      <3> QED BY <1>31, <3>2, <3>3
    <2> QED BY <2>1 DEF Shifts
  <1> QED BY <1>25, <1>26, <1>27, <1>28, <1>29, <1>32, <1>33 DEF IInv

\* free keeps the invariant.
LEMMA StepFree ==
    ASSUME IInv, NEW t \in Threads, NEW u \in live, Free(t, u)
    PROVE  IInv'
  <1>1. heap[t].mapped /\ pc[t] = "run" /\ BeginFree(t, u, "run") BY DEF Free
  <1>2. heap[t] # NoHeap BY <1>1 DEF NoHeap
  <1> QED BY <1>1, <1>2, StepBegin

\* The free in realloc keeps the invariant.
LEMMA StepReallocFree ==
    ASSUME IInv, NEW t \in Threads, ReallocFree(t)
    PROVE  IInv'
  <1>1. PICK u : u = arg[t] OBVIOUS
  <1>2. pc[t] = "drop" /\ BeginFree(t, u, "run") BY <1>1 DEF ReallocFree
  <1>3. heap[t] # NoHeap BY <1>2 DEF IInv, Table
  <1> QED BY <1>1, <1>2, <1>3, StepBegin

\* The free of the thread_info keeps the invariant.
LEMMA StepFreeInfo ==
    ASSUME IInv, NEW t \in Threads, FreeInfo(t)
    PROVE  IInv'
  <1>1. PICK u \in live : BeginFree(t, u, "ended") BY DEF FreeInfo
  <1>2. pc[t] = "info" /\ heap[t].mapped BY DEF FreeInfo
  <1>3. heap[t] # NoHeap BY <1>2 DEF NoHeap
  <1> QED BY <1>1, <1>2, <1>3, StepBegin

-----------------------------------------------------------------------------
(* Allocations.                                                             *)

\* Requests are numbers of bytes.
LEMMA RequestsNat == Requests \subseteq Nat
  <1>1. Sizes \subseteq Nat /\ InfoSize \in Nat /\ \A a \in Aligns : a \in Nat
    BY HeapAssumption DEF SmallMax
  <1>2. ASSUME NEW a \in Aligns, NEW s \in Sizes PROVE a + s \in Nat BY <1>1
  <1>3. SUFFICES ASSUME NEW x \in Requests PROVE x \in Nat OBVIOUS
  <1>4. x \in Sizes \/ x = InfoSize \/ \E a \in Aligns, s \in Sizes : x = a + s BY SMT DEF Requests
  <1> QED BY <1>1, <1>2, <1>4

\* memalign writes the shift into the header; the memory stays sound.
LEMMA WithShiftIs ==
    ASSUME NEW H, NEW B, NEW own, NEW kown, NEW held, Mem(H, B, own, kown, held),
           NEW v \in BufRec, B[v.b] # NoBlk, v.off - v.shift \in Nat
    PROVE  Mem(H, WithShift(B, v), own, kown, held) /\ HasShift(B, v, WithShift(B, v))
  <1>1. CASE v.shift = 0
    <2>1. WithShift(B, v) = B BY <1>1 DEF WithShift
    <2> QED BY <2>1 DEF SameShifted, HasShift
  <1>2. CASE v.shift # 0
    <2> DEFINE q0 == <<v.off - v.shift, v.shift>>
               S == B[v.b].shift \cup {q0}
    <2>1. v.b \in Blocks /\ v.shift \in Nat BY DEF BufRec
    <2>2. B \in BlksType /\ B[v.b] \in BlkRec BY <2>1, MemTypes DEF ShapeTypes, BlksType
    <2>3. B[v.b].shift \in SUBSET (Nat \X Nat) BY <2>2 DEF BlkRec
    <2>4. q0 \in Nat \X Nat /\ q0[1] = v.off - v.shift BY <2>1
    <2> HIDE DEF q0
    <2>5. S \in SUBSET (Nat \X Nat) BY <2>3, <2>4
    <2>6. WithShift(B, v) = [B EXCEPT ![v.b].shift = S]
      BY <1>2, <2>1, <2>2 DEF WithShift, BlksType, q0
    <2>7. \A q \in S : q \in B[v.b].shift \/ q[1] = v.off - v.shift BY <2>4
    <2> HIDE DEF S
    <2>8. /\ Mem(H, [B EXCEPT ![v.b].shift = S], own, kown, held)
          /\ ShiftedTo(B, v.b, S, [B EXCEPT ![v.b].shift = S])
      BY <2>1, <2>5, MemShift
    <2> QED BY <1>2, <2>6, <2>7, <2>8 DEF ShiftedTo, HasShift
  <1> QED BY <1>1, <1>2

\* The places of the blocks after an allocation by t in block b.
LEMMA AllocPlaced ==
    ASSUME Types, Table, NEW own, NEW kown, NEW held, Place(own, kown, held),
           NEW t \in Threads, pc[t] = "run", heap[t] # NoHeap, NEW b \in Blocks, NEW own2, NEW kown2, NEW held2,
           PlaceOf(own2[b], kown2[b], t), blk'[b].tid = tid[t],
           \A c \in Blocks : c # b =>
              blk'[c].tid = blk[c].tid /\ own2[c] = own[c] /\ kown2[c] = kown[c] /\ held2[c] = held[c],
           \A x \in Threads : pc'[x] = "unmap" <=> pc[x] = "unmap", SameTable
    PROVE  Place(own2, kown2, held2)'
  <1>1. ASSUME NEW x \in Threads, NEW c \in Blocks, InHeap(own2, kown2, x, c)
        PROVE  (c = b /\ x = t) \/ (c # b /\ InHeap(own, kown, x, c))
    BY <1>1, NullApart DEF InHeap, PlaceOf
  <1>2. ASSUME NEW x \in Threads, pc'[x] # "unmap", NEW c \in Blocks, InHeap(own2, kown2, x, c)
        PROVE  blk'[c].tid = tid'[x]
    <2>1. CASE c = b /\ x = t BY <2>1 DEF SameTable
    <2>2. CASE c # b /\ InHeap(own, kown, x, c)
      <3>1. TidOK(blk, own, kown, x) BY <1>2 DEF Place
      <3>2. blk[c].tid = tid[x] BY <2>2, <3>1 DEF TidOK, InHeap
      <3> QED BY <2>2, <3>2 DEF SameTable
    <2> QED BY <1>1, <1>2, <2>1, <2>2
  <1>3. \A x \in Threads : pc'[x] # "unmap" => TidOK(blk, own2, kown2, x)' BY <1>2 DEF TidOK, InHeap
  <1>4. ASSUME NEW x \in Threads, NEW c \in Blocks, pc'[x] = "unmap", InHeap(own2, kown2, x, c) PROVE held2[c] = {}
    <2>1. c # b /\ InHeap(own, kown, x, c) BY <1>1, <1>4
    <2> QED BY <1>4, <2>1 DEF Place
  <1>5. ASSUME NEW c \in Blocks, held2[c] # {} PROVE slot'[blk'[c].tid] # NULL
    <2>1. CASE c = b
      <3>1. slot[tid[t]] = t BY DEF Table
      <3> QED BY <2>1, <3>1, NullApart DEF SameTable
    <2>2. CASE c # b BY <1>5, <2>2 DEF Place, SameTable
    <2> QED BY <2>1, <2>2
  <1>6. \A x \in Threads, c \in Blocks : InHeap(own2, kown2, x, c)' <=> InHeap(own2, kown2, x, c) BY DEF InHeap
  <1> QED BY <1>3, <1>4, <1>5, <1>6 DEF Place

\* An allocation leaves sound memory, with one more chunk in use.
LEMMA AllocMem ==
    ASSUME Types, Table, Limits, NEW own, NEW kown, NEW held, Mem(heap, blk, own, kown, held), Place(own, kown, held),
           BinsAgree, NEW t \in Threads, pc[t] = "run", heap[t] # NoHeap, NEW size \in Requests, CanMalloc(t, size),
           NEW r, r = Malloc(t, size), NEW v \in BufRec, UsedFor(r, v, size),
           heap' = [heap EXCEPT ![t] = r.h], blk' = WithShift(r.B, v), SameTable,
           \A x \in Threads : pc'[x] = "unmap" <=> pc[x] = "unmap"
    PROVE  \E own2, kown2, held2 : AllocDone(held, v, own2, kown2, held2)
  <1> DEFINE b == v.b
             off == v.off - v.shift
             B1 == r.B
             held2 == [held EXCEPT ![b] = held[b] \cup {off}]
  <1>1. size \in Nat /\ b \in Blocks /\ v.off \in Nat /\ v.len \in Nat /\ v.shift \in Nat /\ tid[t] \in Nums /\ TidOK(blk, own, kown, t)
    <2>1. TidOK(blk, own, kown, t) BY DEF Place
    <2>2. tid[t] \in Nums BY DEF Table
    <2> QED BY <2>1, <2>2, RequestsNat DEF BufRec
  <1>2. Alloc(heap, blk, own, kown, held, t, size, r.b, r.off, r.h, r.B)
    <2>1. tid[t] \in 0 .. MaxThreads - 1 BY <1>1 DEF Nums
    <2> QED BY <1>1, <2>1, MallocOK
  <1>3. r.b = b /\ r.off = off /\ v.shift + v.len <= size BY DEF UsedFor
  <1>4. /\ off \in Nat /\ off >= BlkHdr /\ off \notin held[b]
        /\ AllocPlace(heap, blk, own, kown, held, t, b, off, r.h, B1)
        /\ AllocBlk(blk[b], B1[b], held[b], size, off) /\ B1[b].tid = tid[t]
        /\ CountsDown(r.h, heap[t])
    BY <1>2, <1>3 DEF Alloc
  <1>5. PICK own2, kown2 : /\ Mem([heap EXCEPT ![t] = r.h], B1, own2, kown2, held2)
                           /\ Others(blk, own, kown, B1, own2, kown2, b) /\ PlaceOf(own2[b], kown2[b], t)
    BY <1>4 DEF AllocPlace
  <1>6. ShapeTypes(heap, blk, own, kown) /\ held \in [Blocks -> SUBSET Nat] /\ heap \in HeapsType /\ blk \in BlksType
    BY MemTypes DEF ShapeTypes
  <1>7. B1[b] # NoBlk BY <1>4, NoBlkApart DEF AllocBlk
  <1>8. Mem(heap', B1, own2, kown2, held2) BY <1>5
  <1>9. \A c \in Blocks : (c # b => held2[c] = held[c]) /\ held2[b] = held[b] \cup {off} BY <1>1, <1>6
  <1> HIDE DEF held2, B1
  <1>10. /\ Mem(heap', blk', own2, kown2, held2)
         /\ \A c \in Blocks : c # b => blk'[c] = B1[c]
         /\ blk'[b] # NoBlk /\ SameShifted(blk'[b], B1[b])
         /\ \A q \in blk'[b].shift : q \in B1[b].shift \/ (q[1] = off /\ v.shift # 0)
    <2>1. blk' = WithShift(B1, v) BY DEF B1
    <2>2. Mem(heap', WithShift(B1, v), own2, kown2, held2) /\ HasShift(B1, v, WithShift(B1, v))
      BY <1>4, <1>7, <1>8, WithShiftIs
    <2> QED BY <2>1, <2>2 DEF HasShift
  <1>11. \A c \in Blocks : c # b => Same(blk'[c], blk[c]) /\ own2[c] = own[c] /\ kown2[c] = kown[c] BY <1>5, <1>10 DEF Others
  <1>12. blk'[b].tid = tid[t] /\ blk'[b].size = B1[b].size /\ blk'[b].binndx = B1[b].binndx
    BY <1>4, <1>10 DEF SameShifted
  <1>13. Place(own2, kown2, held2)'
    <2>1. \A c \in Blocks : c # b =>
              blk'[c].tid = blk[c].tid /\ own2[c] = own[c] /\ kown2[c] = kown[c] /\ held2[c] = held[c]
      BY <1>9, <1>11 DEF Same
    <2> HIDE DEF b
    <2> QED BY <1>1, <1>5, <1>12, <2>1, AllocPlaced
  <1>14. Stable(blk, blk', held)
    <2>1. ASSUME NEW c \in Blocks, held[c] # {}
          PROVE  blk'[c] # NoBlk /\ blk'[c].tid = blk[c].tid /\ blk'[c].size = blk[c].size /\ blk'[c].binndx = blk[c].binndx
      <3>1. CASE c = b BY <1>4, <1>10, <1>12, <2>1, <3>1 DEF AllocBlk
      <3>2. CASE c # b
        <4>1. blk[c] # NoBlk BY <2>1, HeldMapped
        <4> QED BY <1>11, <3>2, <4>1 DEF Same
      <3> QED BY <3>1, <3>2
    <2> QED BY <2>1 DEF Stable
  <1>15. \A x \in Threads : (x # t => heap'[x] = heap[x]) /\ heap'[t] = r.h BY <1>6 DEF HeapsType
  <1>16. Limits'
    <2>1. /\ r.h.blkfreecnt \in Nat /\ r.h.biglrucnt \in Nat
          /\ r.h.blkfreecnt <= heap[t].blkfreecnt /\ r.h.biglrucnt <= heap[t].biglrucnt
      BY <1>4 DEF CountsDown, HeapRec
    <2>2. heap[t] \in HeapRec BY <1>6 DEF HeapsType
    <2>3. heap[t].blkfreecnt \in Nat /\ heap[t].biglrucnt \in Nat BY <2>2 DEF HeapRec
    <2>4. heap[t].blkfreecnt <= KeepBlk /\ heap[t].biglrucnt <= KeepBig BY DEF Limits
    <2>5. KeepBlk \in Nat /\ KeepBig \in Nat BY HeapAssumption
    <2>6. r.h.blkfreecnt <= KeepBlk /\ r.h.biglrucnt <= KeepBig BY <2>1, <2>3, <2>4, <2>5
    <2> QED BY <1>15, <2>6 DEF Limits
  <1>17. BufFits(v, blk'[b])
    <2>1. B1[b] \in BlkRec BY <1>4 DEF AllocBlk
    <2>2. B1[b].size \in Nat BY <2>1 DEF BlkRec
    <2>3. B1[b].binndx # BigList => size + Hdr <= B1[b].size BY <1>4 DEF AllocBlk
    <2>4. B1[b].binndx = BigList => off + Hdr + size <= B1[b].size BY <1>4 DEF AllocBlk
    <2>5. B1[b].binndx # BigList => v.shift + Hdr + v.len <= B1[b].size BY <1>1, <1>3, <2>2, <2>3 DEF Hdr
    <2>6. B1[b].binndx = BigList => v.off + Hdr + v.len <= B1[b].size BY <1>1, <1>3, <1>4, <2>2, <2>4 DEF Hdr
    <2> QED BY <1>12, <2>5, <2>6 DEF BufFits
  <1>18. ShiftsFrom(v)
    <2>1. ASSUME NEW c \in Blocks, blk'[c] # NoBlk, NEW q \in blk'[c].shift
          PROVE  (blk[c] # NoBlk /\ q \in blk[c].shift) \/ (c = b /\ q[1] = off /\ v.shift # 0)
      <3>1. CASE c = b
        <4>1. B1[b].shift \subseteq IF blk[b] = NoBlk THEN {} ELSE blk[b].shift BY <1>4 DEF AllocBlk
        <4> QED BY <1>10, <2>1, <3>1, <4>1
      <3>2. CASE c # b BY <1>11, <2>1, <3>2 DEF Same
      <3> QED BY <3>1, <3>2
    <2> QED BY <2>1 DEF ShiftsFrom
  <1>19. \A x \in Threads : heap'[x] # NoHeap <=> heap[x] # NoHeap
    <2>1. r.h # NoHeap BY <1>4, NoHeapApart DEF CountsDown
    <2> QED BY <1>15, <2>1
  <1>20. AllocDone(held, v, own2, kown2, held2)
    BY <1>4, <1>10, <1>13, <1>14, <1>16, <1>17, <1>18, <1>19 DEF AllocDone, held2
  <1> QED BY <1>20

\* An allocation by which the buffers in use become one more.
LEMMA StepGrow ==
    ASSUME IInv, NEW held, InUseOK(held), NEW v \in BufRec, NEW own2, NEW kown2, NEW held2,
           AllocDone(held, v, own2, kown2, held2), Claim(live', Busy', Cells', held2),
           SameTable, stop' = stop, InUse' = InUse \cup {v},
           pc' \in [Threads -> Labels], arg' = [x \in Threads |-> arg'[x]],
           NEW w \in Threads, \A x \in Threads : x # w => pc'[x] = pc[x] /\ arg'[x] = arg[x],
           pc[w] # "unmap", pc'[w] \notin {"unmap", "free"},
           pc'[w] = "drop" => arg'[w] \in BufRec /\ heap[w] # NoHeap
    PROVE  IInv'
  <1>1. Types /\ Table /\ Limits /\ Args /\ Fitting(InUse, blk) /\ Shifts(InUse, blk) BY DEF IInv
  <1>2. /\ Mem(heap', blk', own2, kown2, held2) /\ Place(own2, kown2, held2)'
        /\ Stable(blk, blk', held) /\ Limits' /\ BufFits(v, blk'[v.b]) /\ ShiftsFrom(v)
        /\ \A x \in Threads : heap'[x] # NoHeap <=> heap[x] # NoHeap
    BY DEF AllocDone
  <1>3. Sound(own2, kown2, held2)' BY <1>2 DEF Sound
  <1>4. Types' BY <1>1 DEF Types, SameTable, Labels, Nums
  <1>5. Table'
    <2>1. \A x \in Threads : pc'[x] = "unmap" <=> pc[x] = "unmap" OBVIOUS
    <2>2. \A x \in Threads : pc'[x] \in {"unmap", "drop", "free"} => heap[x] # NoHeap BY <1>1 DEF Table
    <2> QED BY <1>1, <1>2, <2>1, <2>2, TableKeep
  <1>6. Args'
    <2>1. \A c \in Blocks : held[c] # {} => slot'[blk[c].tid] = slot[blk[c].tid] BY DEF SameTable
    <2>2. \A x \in Threads : x # w /\ pc[x] = "free" => arg[x].b \in Blocks /\ held[arg[x].b] # {} BY DEF InUseOK
    <2>3. (pc'[w] = "drop" => arg'[w] \in BufRec) /\ pc'[w] # "free" OBVIOUS
    <2> QED BY <1>1, <1>2, <2>1, <2>2, <2>3, ArgsKeep
  <1>7. Fitting(InUse, blk)'
    <2>1. \A u \in InUse : u.b \in Blocks /\ held[u.b] # {} BY DEF InUseOK
    <2>2. Fitting(InUse, blk') BY <1>1, <1>2, <2>1, FitKeep
    <2> QED BY <1>2, <2>2 DEF Fitting, BufFits
  <1>8. Shifts(InUse, blk)'
    <2>1. ASSUME NEW c \in Blocks, blk'[c] # NoBlk, NEW q \in blk'[c].shift
          PROVE  \E u \in InUse' : u.b = c /\ u.off - u.shift = q[1] /\ u.shift # 0
      <3>1. CASE blk[c] # NoBlk /\ q \in blk[c].shift BY <1>1, <3>1 DEF Shifts
      <3>2. CASE c = v.b /\ q[1] = v.off - v.shift /\ v.shift # 0 BY <3>2
      <3> QED BY <1>2, <2>1, <3>1, <3>2 DEF ShiftsFrom
    <2> QED BY <2>1 DEF Shifts
  <1> QED BY <1>2, <1>3, <1>4, <1>5, <1>6, <1>7, <1>8 DEF IInv

\* An allocation that adds a buffer keeps the invariant.
LEMMA StepAdd ==
    ASSUME IInv, BinsAgree, NEW t \in Threads, NEW size, NEW r, NEW v, Allocates(t, size, r, v),
           live' = live \cup {v}, arg' = arg,
           NEW w \in Threads, pc[w] \in {"run", "off"}, pc' = [pc EXCEPT ![w] = "run"]
    PROVE  IInv'
  <1>1. Types /\ Table /\ Limits /\ Args BY DEF IInv
  <1>2. PICK own, kown, held : Sound(own, kown, held) BY DEF IInv
  <1>3. Mem(heap, blk, own, kown, held) /\ Place(own, kown, held) /\ Claim(live, Busy, Cells, held)
    BY <1>2 DEF Sound
  <1>4. InUseOK(held) BY <1>1, <1>3, InUseIs
  <1>5. v \in BufRec /\ SameTable /\ stop' = stop BY DEF Allocates
  <1>6. pc' \in [Threads -> Labels] /\ pc'[w] = "run" /\ \A x \in Threads : x # w => pc'[x] = pc[x]
    BY <1>1 DEF Types, Labels
  <1>7. \A x \in Threads : pc'[x] = "unmap" <=> pc[x] = "unmap" BY <1>6
  <1>8. PICK own2, kown2, held2 : AllocDone(held, v, own2, kown2, held2)
    <2>1. /\ pc[t] = "run" /\ heap[t] # NoHeap /\ size \in Requests /\ CanMalloc(t, size) /\ r = Malloc(t, size)
          /\ v \in BufRec /\ UsedFor(r, v, size)
          /\ heap' = [heap EXCEPT ![t] = r.h] /\ blk' = WithShift(r.B, v) /\ SameTable
      BY DEF Allocates
    <2> QED BY <1>1, <1>3, <1>7, <2>1, AllocMem
  <1>9. Claim(live', Busy', Cells', held2)
    <2>1. Busy' = Busy BY <1>6 DEF Busy
    <2>2. \A x \in Busy : Cells'[x] = Cells[x] BY <1>6 DEF Busy, Cells
    <2>3. held \in [Blocks -> SUBSET Nat] BY <1>3, MemTypes
    <2>4. PICK o : o = v.off - v.shift OBVIOUS
    <2>5. o \in Nat /\ o \notin held[v.b] /\ held2 = [held EXCEPT ![v.b] = held[v.b] \cup {o}]
      BY <1>8, <2>4 DEF AllocDone
    <2>6. Claim(live \cup {v}, Busy, Cells, held2) BY <1>3, <1>5, <2>3, <2>4, <2>5, ClaimAdd
    <2>7. Claim(live \cup {v}, Busy, Cells', held2) BY <2>2, <2>6, ClaimSame
    <2> QED BY <2>1, <2>7
  <1>10. InUse' = InUse \cup {v}
    <2>1. {x \in Threads : pc'[x] = "drop"} = {x \in Threads : pc[x] = "drop"} BY <1>6
    <2> QED BY <2>1 DEF InUse
  <1>11. arg' = [x \in Threads |-> arg'[x]] BY <1>1 DEF Types
  <1>12. \A x \in Threads : x # w => pc'[x] = pc[x] /\ arg'[x] = arg[x] BY <1>6
  <1>13. pc[w] # "unmap" /\ pc'[w] \notin {"unmap", "free"} /\ pc'[w] # "drop" BY <1>6
  <1> QED BY <1>4, <1>5, <1>6, <1>8, <1>9, <1>10, <1>11, <1>12, <1>13, StepGrow

\* An allocation that replaces a buffer keeps the invariant.
LEMMA StepMove ==
    ASSUME IInv, BinsAgree, NEW t \in Threads, NEW size, NEW r, NEW v, Allocates(t, size, r, v),
           NEW u \in live, live' = (live \ {u}) \cup {v}, arg' = [arg EXCEPT ![t] = u], pc' = [pc EXCEPT ![t] = "drop"]
    PROVE  IInv'
  <1>1. Types /\ Table /\ Limits /\ Args BY DEF IInv
  <1>2. PICK own, kown, held : Sound(own, kown, held) BY DEF IInv
  <1>3. Mem(heap, blk, own, kown, held) /\ Place(own, kown, held) /\ Claim(live, Busy, Cells, held)
    BY <1>2 DEF Sound
  <1>4. InUseOK(held) BY <1>1, <1>3, InUseIs
  <1>5. v \in BufRec /\ SameTable /\ stop' = stop /\ pc[t] = "run" /\ heap[t] # NoHeap BY DEF Allocates
  <1>6. pc' \in [Threads -> Labels] /\ pc'[t] = "drop" /\ \A x \in Threads : x # t => pc'[x] = pc[x]
    BY <1>1 DEF Types, Labels
  <1>7. \A x \in Threads : pc'[x] = "unmap" <=> pc[x] = "unmap" BY <1>5, <1>6
  <1>8. PICK own2, kown2, held2 : AllocDone(held, v, own2, kown2, held2)
    <2>1. /\ pc[t] = "run" /\ heap[t] # NoHeap /\ size \in Requests /\ CanMalloc(t, size) /\ r = Malloc(t, size)
          /\ v \in BufRec /\ UsedFor(r, v, size)
          /\ heap' = [heap EXCEPT ![t] = r.h] /\ blk' = WithShift(r.B, v) /\ SameTable
      BY DEF Allocates
    <2> QED BY <1>1, <1>3, <1>7, <2>1, AllocMem
  <1>9. arg' = [x \in Threads |-> arg'[x]] /\ arg'[t] = u /\ \A x \in Threads : x # t => arg'[x] = arg[x]
    BY <1>1 DEF Types
  <1>10. held \in [Blocks -> SUBSET Nat] /\ held2 \in [Blocks -> SUBSET Nat]
    <2>1. Mem(heap', blk', own2, kown2, held2) BY <1>8 DEF AllocDone
    <2> QED BY <1>3, <2>1, MemTypes
  <1>11. u \in BufRec /\ u \in InUse BY <1>4 DEF InUseOK, InUse
  <1>12. v # u
    <2>1. u.off - u.shift \in held[u.b] BY <1>4, <1>11 DEF InUseOK
    <2> QED BY <1>8, <2>1 DEF AllocDone
  <1>13. Claim(live', Busy', Cells', held2)
    <2>1. t \notin Busy /\ Busy' = Busy \cup {t} BY <1>5, <1>6 DEF Busy
    <2>2. \A x \in Busy : Cells'[x] = Cells[x] BY <1>6, <1>9, <2>1 DEF Busy, Cells
    <2>3. Cells'[t] = Loc(u) BY <1>6, <1>9 DEF Cells
    <2>4. PICK o : o = v.off - v.shift OBVIOUS
    <2>5. o \in Nat /\ o \notin held[v.b] /\ held2 = [held EXCEPT ![v.b] = held[v.b] \cup {o}]
      BY <1>8, <2>4 DEF AllocDone
    <2>6. Claim(live \cup {v}, Busy, Cells, held2) BY <1>3, <1>5, <1>10, <2>4, <2>5, ClaimAdd
    <2>7. u \in live \cup {v} OBVIOUS
    <2>8. Claim((live \cup {v}) \ {u}, Busy \cup {t}, Cells', held2)
      BY <1>10, <2>1, <2>2, <2>3, <2>6, <2>7, ClaimMove
    <2>9. live' = (live \cup {v}) \ {u} BY <1>12
    <2> QED BY <2>1, <2>8, <2>9
  <1>14. InUse' = InUse \cup {v}
    <2>1. {x \in Threads : pc'[x] = "drop"} = {x \in Threads : pc[x] = "drop"} \cup {t} BY <1>6
    <2>2. \A x \in Threads : pc[x] = "drop" => x # t /\ arg'[x] = arg[x] BY <1>5, <1>9
    <2>3. {arg'[x] : x \in {y \in Threads : pc'[y] = "drop"}} = {arg[x] : x \in {y \in Threads : pc[y] = "drop"}} \cup {u}
      BY <1>9, <2>1, <2>2
    <2> QED BY <2>3 DEF InUse
  <1>15. \A x \in Threads : x # t => pc'[x] = pc[x] /\ arg'[x] = arg[x] BY <1>6, <1>9
  <1>16. pc[t] # "unmap" /\ pc'[t] \notin {"unmap", "free"} /\ arg'[t] \in BufRec BY <1>5, <1>6, <1>9, <1>11
  <1> QED BY <1>4, <1>5, <1>6, <1>8, <1>9, <1>13, <1>14, <1>15, <1>16, StepGrow

\* What malloc returns is a record.
LEMMA MallocRec ==
    ASSUME NEW t, NEW size
    PROVE  \E b, off, h, B : Malloc(t, size) = [b |-> b, off |-> off, h |-> h, B |-> B]
  <1>1. ASSUME NEW s, NEW l, NEW n PROVE \E b, off, h, B : NewBlock(t, s, l, n) = [b |-> b, off |-> off, h |-> h, B |-> B]
    BY ZenonT(60) DEF NewBlock
  <1>2. \E b, off, h, B : MallocSmall(t, size) = [b |-> b, off |-> off, h |-> h, B |-> B]
    <2>1. PICK b1, off1, h1, B1 :
             MallocSmall(t, size) = [b |-> b1, off |-> off1, h |-> h1, B |-> B1]
             \/ \E s, l, n : MallocSmall(t, size) = NewBlock(t, s, l, n)
      BY Zenon DEF MallocSmall
    <2> QED BY <1>1, <2>1
  <1>3. \E b, off, h, B : MallocBig(t, size) = [b |-> b, off |-> off, h |-> h, B |-> B]
    BY Zenon DEF MallocBig
  <1> QED BY <1>2, <1>3 DEF Malloc

\* What malloc returns.
LEMMA MallocTyped ==
    ASSUME IInv, BinsAgree, NEW t \in Threads, pc[t] = "run", heap[t] # NoHeap,
           NEW size \in Requests, CanMalloc(t, size), NEW r, r = Malloc(t, size)
    PROVE  r.b \in Blocks /\ r.off \in Nat
  <1>1. Table BY DEF IInv
  <1>2. PICK own, kown, held : Sound(own, kown, held) BY DEF IInv
  <1>3. Mem(heap, blk, own, kown, held) /\ Place(own, kown, held) BY <1>2 DEF Sound
  <1>4. TidOK(blk, own, kown, t) /\ tid[t] \in 0 .. MaxThreads - 1 BY <1>1, <1>3 DEF Place, Table, Nums
  <1>5. Alloc(heap, blk, own, kown, held, t, size, r.b, r.off, r.h, r.B) BY <1>3, <1>4, RequestsNat, MallocOK
  <1> QED BY <1>5 DEF Alloc

\* Who may ask has a heap.
LEMMA CanAskIs ==
    ASSUME NEW t, CanAsk(t)
    PROVE  pc[t] = "run" /\ heap[t] # NoHeap
  <1>1. pc[t] = "run" /\ heap[t].mapped BY DEF CanAsk
  <1> QED BY <1>1 DEF NoHeap

\* A buffer at the start of its chunk.
LEMMA PlainBuffer ==
    ASSUME NEW b \in Blocks, NEW off \in Nat, NEW len \in Nat, NEW use \in Threads \cup {NULL},
           NEW r, r.b = b, r.off = off, NEW B
    PROVE  /\ Buffer(b, off, len, 0, use) \in BufRec /\ UsedFor(r, Buffer(b, off, len, 0, use), len)
           /\ WithShift(B, Buffer(b, off, len, 0, use)) = B
  BY DEF Buffer, BufRec, UsedFor, WithShift

\* malloc keeps the invariant.
LEMMA StepMalloc ==
    ASSUME IInv, BinsAgree, NEW t \in Threads, NEW s \in Sizes, DoMalloc(t, s)
    PROVE  IInv'
  <1>1. pc[t] = "run" /\ heap[t] # NoHeap /\ CanMalloc(t, s) BY CanAskIs DEF DoMalloc
  <1>2. s \in Requests /\ s \in Nat BY RequestsNat DEF Requests
  <1>3. PICK r : r = Malloc(t, s) OBVIOUS
  <1>4. r.b \in Blocks /\ r.off \in Nat BY <1>1, <1>2, <1>3, MallocTyped
  <1>5. PICK v : v = Buffer(r.b, r.off, s, 0, NULL) OBVIOUS
  <1>6. v \in BufRec /\ UsedFor(r, v, s) /\ WithShift(r.B, v) = r.B BY <1>2, <1>4, <1>5, PlainBuffer
  <1>7. /\ heap' = [heap EXCEPT ![t] = r.h] /\ blk' = r.B /\ live' = live \cup {v}
        /\ UNCHANGED <<tid, slot, count, stop>> /\ pc' = pc /\ arg' = arg
    BY <1>3, <1>5 DEF DoMalloc, Got
  <1>8. Allocates(t, s, r, v) BY <1>1, <1>2, <1>3, <1>6, <1>7 DEF Allocates, SameTable
  <1>9. pc' = [pc EXCEPT ![t] = "run"] BY <1>1, <1>7 DEF IInv, Types
  <1> QED BY <1>1, <1>7, <1>8, <1>9, StepAdd

\* pthread_create, with the thread_info it allocates, keeps the invariant.
LEMMA StepPthreadCreate ==
    ASSUME IInv, BinsAgree, NEW t \in Threads, NEW w \in Threads, PthreadCreate(t, w)
    PROVE  IInv'
  <1>1. pc[t] = "run" /\ heap[t] # NoHeap /\ CanMalloc(t, InfoSize) /\ pc[w] = "off" BY CanAskIs DEF PthreadCreate
  <1>2. InfoSize \in Requests /\ InfoSize \in Nat BY RequestsNat DEF Requests
  <1>3. PICK r : r = Malloc(t, InfoSize) OBVIOUS
  <1>4. r.b \in Blocks /\ r.off \in Nat BY <1>1, <1>2, <1>3, MallocTyped
  <1>5. PICK v : v = Buffer(r.b, r.off, InfoSize, 0, w) OBVIOUS
  <1>6. v \in BufRec /\ UsedFor(r, v, InfoSize) /\ WithShift(r.B, v) = r.B BY <1>2, <1>4, <1>5, PlainBuffer
  <1>7. /\ heap' = [heap EXCEPT ![t] = r.h] /\ blk' = r.B /\ live' = live \cup {v}
        /\ UNCHANGED <<tid, slot, count, stop>> /\ pc' = [pc EXCEPT ![w] = "run"] /\ arg' = arg
    BY <1>3, <1>5 DEF PthreadCreate, Got, Goto
  <1>8. Allocates(t, InfoSize, r, v) BY <1>1, <1>2, <1>3, <1>6, <1>7 DEF Allocates, SameTable
  <1> QED BY <1>1, <1>7, <1>8, StepAdd

\* realloc to another place keeps the invariant.
LEMMA StepReallocMove ==
    ASSUME IInv, BinsAgree, NEW t \in Threads, NEW u \in live, NEW s \in Sizes, ReallocMove(t, u, s)
    PROVE  IInv'
  <1>1. pc[t] = "run" /\ heap[t] # NoHeap /\ CanMalloc(t, s)
    <2>1. pc[t] = "run" /\ heap[t].mapped /\ CanMalloc(t, s) BY DEF ReallocMove, CanRealloc
    <2> QED BY <2>1 DEF NoHeap
  <1>2. s \in Requests /\ s \in Nat BY RequestsNat DEF Requests
  <1>3. PICK r : r = Malloc(t, s) OBVIOUS
  <1>4. r.b \in Blocks /\ r.off \in Nat BY <1>1, <1>2, <1>3, MallocTyped
  <1>5. PICK v : v = Buffer(r.b, r.off, s, 0, NULL) OBVIOUS
  <1>6. v \in BufRec /\ UsedFor(r, v, s) /\ WithShift(r.B, v) = r.B BY <1>2, <1>4, <1>5, PlainBuffer
  <1>7. /\ heap' = [heap EXCEPT ![t] = r.h] /\ blk' = r.B /\ live' = (live \ {u}) \cup {v}
        /\ UNCHANGED <<tid, slot, count, stop>> /\ pc' = [pc EXCEPT ![t] = "drop"] /\ arg' = [arg EXCEPT ![t] = u]
    BY <1>3, <1>5 DEF ReallocMove, Goto
  <1>8. Allocates(t, s, r, v) BY <1>1, <1>2, <1>3, <1>6, <1>7 DEF Allocates, SameTable
  <1> QED BY <1>7, <1>8, StepMove

\* memalign keeps the invariant.
LEMMA StepMemalign ==
    ASSUME IInv, BinsAgree, NEW t \in Threads, NEW a \in Aligns, NEW s \in Sizes, Memalign(t, a, s)
    PROVE  IInv'
  <1>1. pc[t] = "run" /\ heap[t] # NoHeap /\ CanMalloc(t, a + s) BY CanAskIs DEF Memalign
  <1>2. a + s \in Requests /\ s \in Nat /\ a \in Nat /\ a > 0 BY HeapAssumption DEF Requests
  <1>3. PICK r : r = Malloc(t, a + s) OBVIOUS
  <1>4. r.b \in Blocks /\ r.off \in Nat BY <1>1, <1>2, <1>3, MallocTyped
  <1>5. PICK b, off, h, B : r = [b |-> b, off |-> off, h |-> h, B |-> B] BY <1>3, MallocRec
  <1>6. PICK shift : shift = RoundUp(r.off + Hdr, a) - (r.off + Hdr) OBVIOUS
  <1>7. shift \in Nat /\ shift < a
    <2>1. r.off + Hdr \in Nat BY <1>4 DEF Hdr
    <2>2. RoundUp(r.off + Hdr, a) \in Nat /\ RoundUp(r.off + Hdr, a) >= r.off + Hdr /\ RoundUp(r.off + Hdr, a) - (r.off + Hdr) < a
      BY <1>2, <2>1, RoundUpIs
    <2> QED BY <1>6, <2>1, <2>2
  <1>8. PICK v : v = Buffer(r.b, r.off + shift, s, shift, NULL) OBVIOUS
  <1>9. v.b = r.b /\ v.off = r.off + shift /\ v.len = s /\ v.shift = shift /\ v \in BufRec
    BY <1>2, <1>4, <1>7, <1>8 DEF Buffer, BufRec
  <1>10. v.off - v.shift = r.off BY <1>4, <1>7, <1>9
  <1>11. UsedFor(r, v, a + s) BY <1>2, <1>7, <1>9, <1>10 DEF UsedFor
  <1> DEFINE r1 == IF shift = 0 THEN r ELSE [r EXCEPT !.B[r.b].shift = @ \cup {<<r.off, shift>>}]
  <1>12. r1.h = r.h /\ r1.B = WithShift(r.B, v)
    <2>1. CASE shift = 0 BY <1>9, <2>1 DEF WithShift
    <2>2. CASE shift # 0
      <3>1. r1 = [r EXCEPT !.B[r.b].shift = @ \cup {<<r.off, shift>>}] BY <2>2
      <3>2. r1.h = r.h /\ r1.B = [r.B EXCEPT ![r.b].shift = @ \cup {<<r.off, shift>>}] BY <1>5, <3>1
      <3> QED BY <1>9, <1>10, <2>2, <3>2 DEF WithShift
    <2> QED BY <2>1, <2>2
  <1>13. Got(t, r1, v) /\ pc' = pc /\ arg' = arg BY <1>3, <1>6, <1>8, Zenon DEF Memalign
  <1> HIDE DEF r1
  <1>14. /\ heap' = [heap EXCEPT ![t] = r.h] /\ blk' = WithShift(r.B, v) /\ live' = live \cup {v}
         /\ UNCHANGED <<tid, slot, count, stop>>
    BY <1>12, <1>13 DEF Got
  <1>15. Allocates(t, a + s, r, v) BY <1>1, <1>2, <1>3, <1>9, <1>11, <1>14 DEF Allocates, SameTable
  <1>16. pc' = [pc EXCEPT ![t] = "run"] BY <1>1, <1>13 DEF IInv, Types
  <1> QED BY <1>1, <1>13, <1>14, <1>15, <1>16, StepAdd

-----------------------------------------------------------------------------
(* The steps that leave the memory as it is: realloc in place, and halts.   *)

\* What realloc takes for the size of a buffer that is not shifted.
LEMMA OldSizeFits ==
    ASSUME NEW own, NEW kown, NEW held, Mem(heap, blk, own, kown, held),
           NEW u \in BufRec, u.shift = 0, u.off - u.shift \in held[u.b], NEW s \in Nat, s <= OldSize(u),
           NEW v \in BufRec, v.b = u.b, v.off = u.off, v.shift = 0, v.len = s
    PROVE  BufFits(v, blk[v.b])
  <1>1. u.b \in Blocks /\ u.off \in Nat BY DEF BufRec
  <1>2. u.off \in held[u.b] /\ held[u.b] # {} BY <1>1
  <1>3. blk[u.b] # NoBlk /\ blk[u.b] \in BlkRec /\ kown[u.b] = NULL BY <1>1, <1>2, HeldMapped
  <1>4. blk[u.b].size \in Nat BY <1>3 DEF BlkRec
  <1>5. BlockOK(blk[u.b], own[u.b], kown[u.b], held[u.b]) /\ KindOK(blk[u.b]) BY <1>1 DEF Mem
  <1>6. CASE blk[u.b].binndx # BigList
    <2>1. blk[u.b].small = TRUE BY <1>3, <1>5, <1>6, Zenon DEF KindOK
    <2>2. OldSize(u) = blk[u.b].size - Hdr - 0 BY <2>1, Zenon DEF OldSize
    <2>3. Hdr + s <= blk[u.b].size BY <1>4, <2>2 DEF Hdr
    <2> QED BY <1>6, <2>3 DEF BufFits, Hdr
  <1>7. CASE blk[u.b].binndx = BigList
    <2>1. blk[u.b].small = FALSE BY <1>3, <1>5, <1>7, Zenon DEF KindOK
    <2>2. OldSize(u) = blk[u.b].size - Hdr - BlkHdr BY <2>1, Zenon DEF OldSize
    <2>3. u.off = BlkHdr BY <1>2, <1>3, <1>5, <1>7 DEF BlockOK
    <2>4. u.off + Hdr + s <= blk[u.b].size BY <1>4, <2>2, <2>3 DEF Hdr, BlkHdr
    <2> QED BY <1>7, <2>4 DEF BufFits
  <1> QED BY <1>6, <1>7

\* Such a step keeps all that is not about buffers.
LEMMA StillKeeps ==
    ASSUME IInv, Still
    PROVE  /\ (Table /\ Limits /\ Args)' /\ Busy' = Busy /\ Cells' = Cells
           /\ \A own, kown, held : Place(own, kown, held) => Place(own, kown, held)'
  <1>1. Types /\ Table /\ Limits /\ Args BY DEF IInv
  <1>2. Table' BY <1>1 DEF Still, Table, Nums
  <1>3. Limits' BY <1>1 DEF Still, Limits
  <1>4. Args' BY <1>1 DEF Still, Args, BufRec
  <1>5. Busy' = Busy /\ Cells' = Cells BY DEF Still, Busy, Cells, Loc
  <1>6. ASSUME NEW own, NEW kown, NEW held, Place(own, kown, held) PROVE Place(own, kown, held)'
    <2>1. SameTable BY DEF Still, SameTable
    <2> QED BY <1>6, <2>1, PlaceSame DEF Still
  <1> QED BY <1>2, <1>3, <1>4, <1>5, <1>6

\* So it keeps the invariant when the buffers stay too.
LEMMA StepHalt ==
    ASSUME IInv, Still, live' = live, stop' \in {"no", "threads"}
    PROVE  IInv'
  <1>1. /\ (Table /\ Limits /\ Args)' /\ Busy' = Busy /\ Cells' = Cells
        /\ \A own, kown, held : Place(own, kown, held) => Place(own, kown, held)'
    BY StillKeeps
  <1>2. Types' BY DEF IInv, Still, Types, Labels, Nums
  <1>3. InUse' = InUse BY DEF Still, InUse
  <1>4. Fitting(InUse, blk)' BY <1>3 DEF IInv, Still, Fitting, BufFits
  <1>5. Shifts(InUse, blk)' BY <1>3 DEF IInv, Still, Shifts
  <1>6. PICK own, kown, held : Sound(own, kown, held) BY DEF IInv
  <1>7. Sound(own, kown, held)' BY <1>1, <1>6 DEF Sound, Still
  <1> QED BY <1>1, <1>2, <1>4, <1>5, <1>7 DEF IInv

\* realloc in place keeps the invariant, for buffers that are not shifted.
LEMMA StepReallocInPlace ==
    ASSUME IInv, Clients = {}, NEW t \in Threads, NEW u \in live, NEW s \in Sizes, ReallocInPlace(t, u, s)
    PROVE  IInv'
  <1>1. Types /\ Table /\ Limits /\ Args /\ Fitting(InUse, blk) /\ Shifts(InUse, blk) BY DEF IInv
  <1>2. PICK own, kown, held : Sound(own, kown, held) BY DEF IInv
  <1>3. Mem(heap, blk, own, kown, held) /\ Place(own, kown, held) /\ Claim(live, Busy, Cells, held)
    BY <1>2 DEF Sound
  <1>4. InUseOK(held) BY <1>1, <1>3, InUseIs
  <1>5. u \in InUse BY DEF InUse
  <1>6. u \in BufRec /\ u.b \in Blocks /\ u.off - u.shift \in held[u.b] /\ held[u.b] # {} BY <1>4, <1>5 DEF InUseOK
  <1>7. blk[u.b].mapped
    <2>1. blk[u.b] # NoBlk /\ blk[u.b] \in BlkRec BY <1>3, <1>6, HeldMapped
    <2> QED BY <2>1, NoBlkApart
  <1>8. u.shift = 0 BY DEF ReallocInPlace, CanRealloc
  <1>9. PICK v : v = [u EXCEPT !.len = s] OBVIOUS
  <1>10. s \in Nat BY HeapAssumption
  <1>11. v \in BufRec /\ v.b = u.b /\ v.off = u.off /\ v.shift = u.shift /\ v.len = s BY <1>6, <1>9, <1>10 DEF BufRec
  <1>12. s <= OldSize(u) /\ live' = (live \ {u}) \cup {v} /\ stop' = stop /\ Still
    BY <1>7, <1>9, Zenon DEF ReallocInPlace, Still
  <1>13. /\ (Table /\ Limits /\ Args)' /\ Busy' = Busy /\ Cells' = Cells
         /\ \A o, k, g : Place(o, k, g) => Place(o, k, g)'
    BY <1>12, StillKeeps
  <1>14. Types' BY <1>1, <1>12 DEF Still, Types, Labels, Nums
  <1>15. Claim(live', Busy', Cells', held)
    <2>1. Claim((live \ {u}) \cup {v}, Busy, Cells, held) BY <1>3, <1>11, ClaimLen
    <2> QED BY <1>12, <1>13, <2>1
  <1>16. Sound(own, kown, held)' BY <1>3, <1>12, <1>13, <1>15 DEF Sound, Still
  <1>17. InUse' \subseteq (InUse \ {u}) \cup {v} /\ InUse \ {u} \subseteq InUse'
    <2>1. \A x \in Threads : pc[x] = "drop" => arg[x] # u BY <1>4 DEF InUseOK
    <2>2. pc' = pc /\ arg' = arg BY <1>12 DEF Still
    <2>3. InUse' = live' \cup {arg[x] : x \in {y \in Threads : pc[y] = "drop"}} BY <2>2 DEF InUse
    <2> QED BY <1>12, <2>1, <2>3 DEF InUse
  <1>18. BufFits(v, blk[v.b]) BY <1>3, <1>6, <1>8, <1>10, <1>11, <1>12, OldSizeFits
  <1>19. Fitting(InUse, blk)'
    <2>1. \A w \in InUse' : BufFits(w, blk[w.b]) BY <1>1, <1>17, <1>18 DEF Fitting
    <2>2. blk' = blk BY <1>12 DEF Still
    <2> QED BY <2>1, <2>2 DEF Fitting, BufFits
  <1>20. Shifts(InUse, blk)'
    <2>1. blk' = blk BY <1>12 DEF Still
    <2>2. ASSUME NEW c \in Blocks, blk[c] # NoBlk, NEW p \in blk[c].shift
          PROVE  \E w \in InUse' : w.b = c /\ w.off - w.shift = p[1] /\ w.shift # 0
      <3>1. PICK w \in InUse : w.b = c /\ w.off - w.shift = p[1] /\ w.shift # 0 BY <1>1, <2>2 DEF Shifts
      <3>2. w \in InUse' BY <1>8, <1>17, <3>1
      <3> QED BY <3>1, <3>2
    <2> QED BY <2>1, <2>2 DEF Shifts
  <1> QED BY <1>13, <1>14, <1>16, <1>19, <1>20 DEF IInv

-----------------------------------------------------------------------------
(* A heap is made.                                                          *)

\* A heap with the lists it had, or without any where there was none.
LEMMA MemHeap ==
    ASSUME NEW H, NEW B, NEW own, NEW kown, NEW held, Mem(H, B, own, kown, held),
           NEW t \in Threads, NEW h2 \in HeapRec, NEW H2, H2 = [H EXCEPT ![t] = h2],
           Hd(H2) = Hd(H), Tl(H2) = Tl(H), Kp(H2) = Kp(H), CountOK(h2, own, kown, t)
    PROVE  Mem(H2, B, own, kown, held)
  <1>1. Shape(H, B, own, kown, Rm(B)) /\ ShapeTypes(H, B, own, kown) BY MemTypes DEF Mem
  <1>2. H2 \in HeapsType /\ H2[t] = h2 /\ h2 # NoHeap /\ \A x \in Threads : x # t => H2[x] = H[x]
    BY <1>1, NoHeapApart DEF ShapeTypes, HeapsType
  <1>3. B \in BlksType BY <1>1 DEF ShapeTypes
  <1>4. \A c \in Blocks : own[c] # NoList => B[c] # NoBlk
    <2>1. PICK r, q : ShapeBy(H, B, own, kown, Rm(B), r, q) BY <1>1 DEF Shape
    <2> QED BY <2>1 DEF ShapeBy, Links
  <1>5. \A c \in Blocks : kown[c] # NULL => B[c] # NoBlk BY MemTypes DEF Placed
  <1>6. Shape(H2, B, own, kown, Rm(B)) BY <1>1, <1>2, <1>3, <1>4, <1>5, ShapeFrame
  <1>7. ASSUME NEW x \in Threads, H2[x] # NoHeap PROVE CountOK(H2[x], own, kown, x)
    <2>1. CASE x = t BY <1>2, <2>1
    <2>2. CASE x # t BY <1>2, <1>7, <2>2 DEF Mem
    <2> QED BY <2>1, <2>2
  <1> QED BY <1>6, <1>7 DEF Mem

\* A new heap is empty.
LEMMA NewHeapRec ==
    /\ NewHeap \in HeapRec /\ \A l \in Lists : NewHeap.head[l] = 0 /\ NewHeap.tail[l] = 0
    /\ NewHeap.blkfree = 0 /\ NewHeap.blkfreecnt = 0 /\ NewHeap.biglrucnt = 0
  <1>1. 0 \in Refs BY HeapAssumption DEF Refs
  <1>2. [l \in Lists |-> 0] \in [Lists -> Refs] BY <1>1
  <1>3. NewHeap \in HeapRec BY <1>1, <1>2 DEF NewHeap, HeapRec
  <1> QED BY <1>3 DEF NewHeap

\* No block is in a heap that is not there.
LEMMA NoneInHeap ==
    ASSUME NEW H, NEW B, NEW own, NEW kown, NEW held, Mem(H, B, own, kown, held), NEW t \in Threads, H[t] = NoHeap
    PROVE  /\ \A c \in Blocks : ~InHeap(own, kown, t, c)
           /\ KeptBy(kown, t) = {} /\ BlocksOn(own, <<t, BigList>>) = {}
  <1>1. Placed(H, B, own, kown) BY MemTypes
  <1>2. ASSUME NEW c \in Blocks PROVE ~InHeap(own, kown, t, c) BY <1>1, NullApart DEF Placed, InHeap
  <1>3. <<t, BigList>> # NoList /\ <<t, BigList>>[1] = t BY NullApart DEF NoList
  <1>4. KeptBy(kown, t) = {} BY <1>2 DEF KeptBy, InHeap
  <1>5. BlocksOn(own, <<t, BigList>>) = {}
    <2>1. ASSUME NEW c \in Blocks, own[c] = <<t, BigList>> PROVE FALSE BY <1>2, <1>3, <2>1 DEF InHeap
    <2> QED BY <2>1 DEF BlocksOn
  <1> QED BY <1>2, <1>4, <1>5

\* An empty heap more leaves the memory sound.
LEMMA MemNewHeap ==
    ASSUME NEW H, NEW B, NEW own, NEW kown, NEW held, Mem(H, B, own, kown, held), NEW t \in Threads, H[t] = NoHeap
    PROVE  Mem([H EXCEPT ![t] = NewHeap], B, own, kown, held)
  <1> SUFFICES ASSUME NEW H2, H2 = [H EXCEPT ![t] = NewHeap] PROVE Mem(H2, B, own, kown, held) OBVIOUS
  <1>1. H2 = [H EXCEPT ![t] = NewHeap] OBVIOUS
  <1>2. ShapeTypes(H, B, own, kown) BY MemTypes
  <1>3. NewHeap \in HeapRec /\ NewHeap # NoHeap BY NewHeapRec, NoHeapApart
  <1>4. H2[t] = NewHeap /\ \A x \in Threads : x # t => H2[x] = H[x] BY <1>1, <1>2 DEF ShapeTypes, HeapsType
  <1>5. \A z \in Ids : z[1] \in Threads /\ z[2] \in Lists BY DEF Ids
  <1>6. Hd(H2) = Hd(H) /\ Tl(H2) = Tl(H)
    <2>1. ASSUME NEW z \in Ids PROVE Hd(H2)[z] = Hd(H)[z] /\ Tl(H2)[z] = Tl(H)[z]
      <3>1. CASE z[1] = t BY <1>3, <1>4, <1>5, <3>1, NewHeapRec DEF Hd, Tl
      <3>2. CASE z[1] # t BY <1>4, <1>5, <3>2 DEF Hd, Tl
      <3> QED BY <3>1, <3>2
    <2> QED BY <2>1 DEF Hd, Tl
  <1>7. Kp(H2) = Kp(H)
    <2>1. ASSUME NEW x \in Threads PROVE Kp(H2)[x] = Kp(H)[x]
      <3>1. CASE x = t BY <1>3, <1>4, <3>1, NewHeapRec DEF Kp
      <3>2. CASE x # t BY <1>4, <3>2 DEF Kp
      <3> QED BY <3>1, <3>2
    <2> QED BY <2>1 DEF Kp
  <1>8. CountOK(NewHeap, own, kown, t) BY NoneInHeap, NewHeapRec, FS_EmptySet DEF CountOK
  <1> QED BY <1>1, <1>3, <1>6, <1>7, <1>8, MemHeap

\* The numbers.
LEMMA NumsCount ==
    /\ IsFiniteSet(Nums) /\ Cardinality(Nums) = MaxThreads
    /\ \A S : S \subseteq Nums => IsFiniteSet(S) /\ Cardinality(S) \in 0 .. MaxThreads
  <1>1. MaxThreads \in Nat /\ MaxThreads > 0 BY HeapAssumption
  <1>2. IsFiniteSet(Nums) /\ Cardinality(Nums) = MaxThreads
    <2>1. 0 \in Int /\ MaxThreads - 1 \in Int BY <1>1
    <2>2. IsFiniteSet(Nums) /\ Cardinality(Nums) = IF 0 > MaxThreads - 1 THEN 0 ELSE (MaxThreads - 1) - 0 + 1
      BY <2>1, FS_Interval DEF Nums
    <2> QED BY <1>1, <2>2
  <1>3. ASSUME NEW S, S \subseteq Nums PROVE IsFiniteSet(S) /\ Cardinality(S) \in 0 .. MaxThreads
    <2>1. IsFiniteSet(S) /\ Cardinality(S) <= Cardinality(Nums) BY <1>2, <1>3, FS_Subset
    <2>2. Cardinality(S) \in Nat BY <2>1, FS_CardinalityType
    <2> QED BY <1>1, <1>2, <2>1, <2>2
  <1> QED BY <1>2, <1>3

\* init_heap finds it.
LEMMA FirstEmptyIs ==
    ASSUME Types, Table, ~(count >= MaxThreads)
    PROVE  FirstEmpty \in Nums /\ slot[FirstEmpty] = NULL
  <1>1. DOMAIN slot = Nums BY DEF Types
  <1>2. Used \subseteq Nums /\ count = Cardinality(Used) BY DEF Used, Table
  <1>3. Used # Nums
    <2>1. MaxThreads \in Nat BY HeapAssumption
    <2> QED BY <1>2, <2>1, NumsCount
  <1> DEFINE E == {j \in Nums : slot[j] = NULL}
  <1>4. E # {} /\ E \subseteq Nat BY <1>3 DEF Used, Nums
  <1> HIDE DEF E
  <1>5. PICK j \in E : \A k \in E : j <= k BY <1>4, LeastNat
  <1>6. j \in Nums /\ slot[j] = NULL /\ \A k \in Nums : slot[k] = NULL => j <= k BY <1>5 DEF E
  <1>7. \E i \in DOMAIN slot : slot[i] = NULL /\ \A k \in DOMAIN slot : slot[k] = NULL => i <= k BY <1>1, <1>6
  <1>8. FirstEmpty \in DOMAIN slot /\ slot[FirstEmpty] = NULL BY <1>7, Zenon DEF FirstEmpty
  <1> QED BY <1>1, <1>8

\* Such a step keeps what the invariant says of the buffers.
LEMMA IdleKeeps ==
    ASSUME Args, Fitting(InUse, blk), Shifts(InUse, blk), NEW held, Claim(live, Busy, Cells, held),
           NEW t \in Threads, Idle(t), Stable(blk, blk', held),
           \A c \in Blocks : held[c] # {} => slot'[blk[c].tid] = slot[blk[c].tid],
           \A c \in Blocks : blk'[c] # NoBlk => blk'[c] = blk[c]
    PROVE  Args' /\ Claim(live', Busy', Cells', held) /\ Fitting(InUse, blk)' /\ Shifts(InUse, blk)'
  <1>1. InUseOK(held) BY InUseIs
  <1>2. live' = live /\ arg' = arg /\ \A x \in Threads : pc'[x] \in {"drop", "free"} \/ pc[x] \in {"drop", "free"} => pc'[x] = pc[x]
    BY DEF Idle
  <1>3. Busy' = Busy BY <1>2 DEF Busy
  <1>4. \A x \in Busy : Cells'[x] = Cells[x]
    <2>1. TAKE x \in Busy
    <2>2. x \in Threads /\ pc'[x] = pc[x] BY <1>2 DEF Busy
    <2> QED BY <1>2, <2>2 DEF Cells, Loc
  <1>5. Claim(live', Busy', Cells', held)
    <2>1. Claim(live, Busy, Cells', held) BY <1>4, ClaimSame
    <2> QED BY <1>2, <1>3, <2>1
  <1>6. InUse' = InUse
    <2>1. \A x \in Threads : pc'[x] = "drop" <=> pc[x] = "drop" BY <1>2
    <2>2. {x \in Threads : pc'[x] = "drop"} = {x \in Threads : pc[x] = "drop"} BY <2>1
    <2> QED BY <1>2, <2>2 DEF InUse
  <1>7. Fitting(InUse, blk)'
    <2>1. \A v \in InUse : v.b \in Blocks /\ held[v.b] # {} BY <1>1 DEF InUseOK
    <2>2. Fitting(InUse, blk') BY <2>1, FitKeep
    <2> QED BY <1>6, <2>2 DEF Fitting, BufFits
  <1>8. Shifts(InUse, blk)'
    <2>1. ASSUME NEW c \in Blocks, blk'[c] # NoBlk, NEW q \in blk'[c].shift
          PROVE  \E v \in InUse' : v.b = c /\ v.off - v.shift = q[1] /\ v.shift # 0
      <3>1. blk[c] # NoBlk /\ q \in blk[c].shift BY <2>1
      <3> QED BY <1>6, <3>1 DEF Shifts
    <2> QED BY <2>1 DEF Shifts
  <1>9. Args'
    <2>1. \A x \in Threads : x # t => pc'[x] = pc[x] /\ arg'[x] = arg[x] BY <1>2 DEF Idle
    <2>2. \A x \in Threads : x # t /\ pc[x] = "free" => arg[x].b \in Blocks /\ held[arg[x].b] # {}
      BY <1>1 DEF InUseOK
    <2>3. pc'[t] # "drop" /\ pc'[t] # "free" BY DEF Idle
    <2> QED BY <2>1, <2>2, <2>3, ArgsKeep
  <1> QED BY <1>5, <1>7, <1>8, <1>9

\* Blocks that stay as they are.
LEMMA HeldStable ==
    ASSUME NEW H, NEW own, NEW kown, NEW held, Mem(H, blk, own, kown, held), blk' = blk
    PROVE  Stable(blk, blk', held)
  <1>1. \A c \in Blocks : held[c] # {} => blk[c] # NoBlk BY HeldMapped
  <1> QED BY <1>1 DEF Stable

\* init_heap keeps the invariant, also when it finds the table full.
LEMMA StepInitHeap ==
    ASSUME IInv, NEW t \in Threads, InitHeap(t)
    PROVE  IInv'
  <1>1. Types /\ Table /\ Limits /\ Args /\ Fitting(InUse, blk) /\ Shifts(InUse, blk) BY DEF IInv
  <1>2. PICK own, kown, held : Sound(own, kown, held) BY DEF IInv
  <1>3. Mem(heap, blk, own, kown, held) /\ Place(own, kown, held) /\ Claim(live, Busy, Cells, held)
    BY <1>2 DEF Sound
  <1>4. heap \in HeapsType BY <1>3, MemTypes DEF ShapeTypes
  <1>5. heap[t] = NoHeap /\ pc[t] \in {"run", "info"} BY <1>4, NoHeapApart DEF InitHeap, HeapsType
  <1>6. CASE count >= MaxThreads
    <2>1. Halt("threads") BY <1>6 DEF InitHeap
    <2>2. Still /\ live' = live /\ stop' = "threads" BY <2>1 DEF Halt, Still
    <2> QED BY <2>2, StepHalt
  <1>7. CASE ~(count >= MaxThreads)
    <2>1. PICK i : i = FirstEmpty OBVIOUS
    <2>2. i \in Nums /\ slot[i] = NULL BY <1>1, <1>7, <2>1, FirstEmptyIs
    <2>3. /\ heap' = [heap EXCEPT ![t] = NewHeap] /\ slot' = [slot EXCEPT ![i] = t] /\ tid' = [tid EXCEPT ![t] = i]
          /\ count' = count + 1 /\ UNCHANGED <<pc, blk, live, arg, stop>>
      BY <1>7, <2>1, Zenon DEF InitHeap, FirstEmpty
    <2>4. slot' \in [Nums -> Threads \cup {NULL}] /\ slot'[i] = t /\ \A j \in Nums : j # i => slot'[j] = slot[j]
      BY <1>1, <2>2, <2>3 DEF Types
    <2>5. tid' \in [Threads -> -1 .. MaxThreads - 1] /\ tid'[t] = i /\ \A x \in Threads : x # t => tid'[x] = tid[x]
      <3>1. i \in -1 .. MaxThreads - 1 BY <2>2, HeapAssumption DEF Nums
      <3> QED BY <1>1, <2>3, <3>1 DEF Types
    <2>6. heap'[t] = NewHeap /\ \A x \in Threads : x # t => heap'[x] = heap[x] BY <1>4, <2>3 DEF HeapsType
    <2>7. NewHeap # NoHeap BY NewHeapRec, NoHeapApart
    <2>8. pc' = pc /\ blk' = blk BY <2>3
    <2>9. Mem(heap', blk', own, kown, held)
      <3>1. Mem([heap EXCEPT ![t] = NewHeap], blk, own, kown, held) BY <1>3, <1>5, MemNewHeap
      <3> QED BY <2>3, <3>1
    <2>10. \A c \in Blocks : held[c] # {} => blk[c].tid \in Nums /\ slot[blk[c].tid] # NULL
      BY <1>3, HeldMapped DEF Place
    <2>11. \A c \in Blocks : held[c] # {} => slot'[blk[c].tid] = slot[blk[c].tid] BY <2>2, <2>4, <2>10
    <2>12. Idle(t) BY <1>5, <2>3 DEF Idle
    <2>13. Stable(blk, blk', held) BY <1>3, <2>8, HeldStable
    <2>14. Args' /\ Claim(live', Busy', Cells', held) /\ Fitting(InUse, blk)' /\ Shifts(InUse, blk)'
      BY <1>1, <1>3, <2>8, <2>11, <2>12, <2>13, IdleKeeps
    <2>15. Place(own, kown, held)'
      <3>1. \A c \in Blocks : ~InHeap(own, kown, t, c) BY <1>3, <1>5, NoneInHeap
      <3>2. ASSUME NEW x \in Threads, pc'[x] # "unmap" PROVE TidOK(blk, own, kown, x)'
        <4>1. CASE x = t BY <3>1, <4>1 DEF TidOK, InHeap
        <4>2. CASE x # t BY <1>3, <2>5, <2>8, <3>2, <4>2 DEF TidOK, Place
        <4> QED BY <4>1, <4>2
      <3>3. \A x \in Threads, c \in Blocks : pc'[x] = "unmap" /\ InHeap(own, kown, x, c)' => held[c] = {}
        BY <1>3, <2>8 DEF Place, InHeap
      <3>4. \A c \in Blocks : held[c] # {} => slot'[blk'[c].tid] # NULL BY <2>8, <2>10, <2>11
      <3> QED BY <3>2, <3>3, <3>4 DEF Place
    <2>16. Sound(own, kown, held)' BY <2>9, <2>14, <2>15 DEF Sound
    <2>17. Types' BY <1>1, <2>3, <2>4, <2>5 DEF Types, Labels, Nums
    <2>18. Table'
      <3>1. ASSUME NEW x \in Threads, heap'[x] # NoHeap, pc'[x] # "unmap" PROVE tid'[x] \in Nums /\ slot'[tid'[x]] = x
        <4>1. CASE x = t BY <2>2, <2>4, <2>5, <4>1
        <4>2. CASE x # t
          <5>1. tid[x] \in Nums /\ slot[tid[x]] = x BY <1>1, <2>6, <2>8, <3>1, <4>2 DEF Table
          <5>2. tid[x] # i BY <2>2, <5>1, NullApart
          <5> QED BY <2>4, <2>5, <4>2, <5>1, <5>2
        <4> QED BY <4>1, <4>2
      <3>2. ASSUME NEW j \in Nums, slot'[j] # NULL
            PROVE  heap'[slot'[j]] # NoHeap /\ pc'[slot'[j]] # "unmap" /\ tid'[slot'[j]] = j
        <4>1. CASE j = i BY <1>5, <2>4, <2>5, <2>6, <2>7, <2>8, <4>1
        <4>2. CASE j # i
          <5>1. slot'[j] = slot[j] /\ slot[j] # NULL /\ slot[j] \in Threads BY <1>1, <2>4, <3>2, <4>2 DEF Types
          <5>2. heap[slot[j]] # NoHeap /\ pc[slot[j]] # "unmap" /\ tid[slot[j]] = j BY <1>1, <5>1 DEF Table
          <5>3. slot[j] # t BY <1>5, <5>2
          <5> QED BY <2>5, <2>6, <2>8, <5>1, <5>2, <5>3
        <4> QED BY <4>1, <4>2
      <3>3. count' = Cardinality({j \in Nums : slot'[j] # NULL})
        <4>1. {j \in Nums : slot'[j] # NULL} = Used \cup {i} BY <2>2, <2>4, NullApart DEF Used
        <4>2. i \notin Used /\ Used \subseteq Nums BY <2>2 DEF Used
        <4>3. Cardinality(Used \cup {i}) = Cardinality(Used) + 1 BY <4>2, NumsCount, FS_AddElement
        <4>4. count = Cardinality(Used) BY <1>1 DEF Table, Used
        <4> QED BY <2>3, <4>1, <4>3, <4>4
      <3>4. \A x \in Threads : pc'[x] \in {"unmap", "drop", "free"} => heap'[x] # NoHeap
        BY <1>1, <1>5, <2>6, <2>8 DEF Table
      <3> QED BY <3>1, <3>2, <3>3, <3>4 DEF Table, Nums
    <2>19. Limits'
      <3>1. \A x \in Threads : x # t /\ heap'[x] # NoHeap => heap'[x].blkfreecnt <= KeepBlk /\ heap'[x].biglrucnt <= KeepBig
        BY <1>1, <2>6 DEF Limits
      <3>2. heap'[t].blkfreecnt <= KeepBlk /\ heap'[t].biglrucnt <= KeepBig BY <2>6, NewHeapRec, HeapAssumption
      <3> QED BY <3>1, <3>2 DEF Limits
    <2> QED BY <2>14, <2>16, <2>17, <2>18, <2>19 DEF IInv
  <1> QED BY <1>6, <1>7

-----------------------------------------------------------------------------
(* A thread ends.                                                           *)

\* Locking a heap leaves the memory sound.
LEMMA MemLock ==
    ASSUME NEW H, NEW B, NEW own, NEW kown, NEW held, Mem(H, B, own, kown, held), NEW t \in Threads, H[t] # NoHeap
    PROVE  /\ Mem([H EXCEPT ![t].lock = TRUE], B, own, kown, held)
           /\ LockedIn(H, t, [H EXCEPT ![t].lock = TRUE])
  <1>1. ShapeTypes(H, B, own, kown) BY MemTypes
  <1>2. H \in HeapsType /\ H[t] \in HeapRec BY <1>1 DEF ShapeTypes, HeapsType
  <1>3. PICK h2 : h2 = [H[t] EXCEPT !.lock = TRUE] OBVIOUS
  <1>4. h2 \in HeapRec BY <1>2, <1>3, Zenon DEF HeapRec
  <1>5. /\ h2.head = H[t].head /\ h2.tail = H[t].tail /\ h2.blkfree = H[t].blkfree
        /\ h2.blkfreecnt = H[t].blkfreecnt /\ h2.biglrucnt = H[t].biglrucnt
    BY <1>2, <1>3 DEF HeapRec
  <1>6. PICK H2 : H2 = [H EXCEPT ![t] = h2] OBVIOUS
  <1>7. H2 = [H EXCEPT ![t].lock = TRUE] BY <1>3, <1>6
  <1>8. H2[t] = h2 /\ h2 # NoHeap /\ \A x \in Threads : x # t => H2[x] = H[x] BY <1>2, <1>4, <1>6, NoHeapApart DEF HeapsType
  <1>9. Hd(H2) = Hd(H) /\ Tl(H2) = Tl(H)
    <2>1. ASSUME NEW z \in Ids PROVE Hd(H2)[z] = Hd(H)[z] /\ Tl(H2)[z] = Tl(H)[z]
      <3>1. z[1] \in Threads BY DEF Ids
      <3>2. CASE z[1] = t BY <1>5, <1>8, <3>2 DEF Hd, Tl
      <3>3. CASE z[1] # t BY <1>8, <3>1, <3>3 DEF Hd, Tl
      <3> QED BY <3>2, <3>3
    <2> QED BY <2>1 DEF Hd, Tl
  <1>10. Kp(H2) = Kp(H) BY <1>2, <1>4, <1>5, <1>6, KpSame
  <1>11. CountOK(h2, own, kown, t) BY <1>5 DEF CountOK, Mem
  <1>12. Mem(H2, B, own, kown, held) BY <1>4, <1>6, <1>9, <1>10, <1>11, MemHeap
  <1>13. LockedIn(H, t, H2) BY <1>5, <1>8 DEF LockedIn
  <1> QED BY <1>7, <1>12, <1>13

\* No chunk of a heap is in use when its thread gives it up.
LEMMA QuietHeap ==
    ASSUME NEW own, NEW kown, NEW held, Mem(heap, blk, own, kown, held), Claim(live, Busy, Cells, held),
           NEW t \in Threads, Quiet(t), NEW c \in Blocks, blk[c].tid = tid[t]
    PROVE  held[c] = {}
  <1>1. SUFFICES ASSUME held[c] # {} PROVE FALSE OBVIOUS
  <1>2. blk[c] # NoBlk /\ blk[c] \in BlkRec BY <1>1, HeldMapped
  <1>3. c \in Heaped(t) BY <1>2, NoBlkApart DEF Heaped
  <1>4. PICK o \in held[c] : TRUE BY <1>1
  <1>5. (\E u \in live : Loc(u) = <<c, o>>) \/ (\E x \in Busy : Cells[x] = <<c, o>>) BY DEF Claim, Covers
  <1>6. ASSUME NEW u \in live, Loc(u) = <<c, o>> PROVE FALSE BY <1>3, <1>6 DEF Loc, Quiet
  <1>7. ASSUME NEW x \in Busy, Cells[x] = <<c, o>> PROVE FALSE
    <2>1. x \in Threads BY DEF Busy
    <2>2. Cells[x] = (IF pc[x] = "free" THEN <<arg[x].b, arg[x].off>> ELSE <<arg[x].b, arg[x].off - arg[x].shift>>)
      BY <2>1 DEF Cells, Loc
    <2>3. arg[x].b = c BY <1>7, <2>2
    <2> QED BY <1>3, <2>1, <2>3 DEF Quiet
  <1> QED BY <1>5, <1>6, <1>7

\* exit_heap taking the heap out of the table keeps the invariant, for programs that have freed what is in it.
LEMMA StepExitHeap ==
    ASSUME IInv, Clients = {}, NEW t \in Threads, ExitHeap(t)
    PROVE  IInv'
  <1>1. Types /\ Table /\ Limits /\ Args /\ Fitting(InUse, blk) /\ Shifts(InUse, blk) BY DEF IInv
  <1>2. PICK own, kown, held : Sound(own, kown, held) BY DEF IInv
  <1>3. Mem(heap, blk, own, kown, held) /\ Place(own, kown, held) /\ Claim(live, Busy, Cells, held)
    BY <1>2 DEF Sound
  <1>4. heap \in HeapsType BY <1>3, MemTypes DEF ShapeTypes
  <1>5. pc[t] = "run" /\ UNCHANGED <<blk, live, arg, stop>> BY DEF ExitHeap
  <1>6. Stable(blk, blk', held) BY <1>3, <1>5, HeldStable
  <1>7. CASE heap[t] = NoHeap
    <2>1. ~heap[t].mapped BY <1>7 DEF NoHeap
    <2>2. pc' = [pc EXCEPT ![t] = "info"] /\ UNCHANGED <<heap, slot, tid, count>> BY <2>1, Zenon DEF ExitHeap, Goto
    <2>3. pc' \in [Threads -> Labels] /\ pc'[t] = "info" /\ \A x \in Threads : x # t => pc'[x] = pc[x]
      BY <1>1, <2>2 DEF Types, Labels
    <2>4. Idle(t) BY <1>5, <2>3 DEF Idle
    <2>5. Args' /\ Claim(live', Busy', Cells', held) /\ Fitting(InUse, blk)' /\ Shifts(InUse, blk)'
      BY <1>1, <1>3, <1>5, <1>6, <2>2, <2>4, IdleKeeps
    <2>6. SameTable /\ \A x \in Threads : pc'[x] = "unmap" <=> pc[x] = "unmap" BY <1>5, <2>2, <2>3 DEF SameTable
    <2>7. Place(own, kown, held)' BY <1>3, <1>5, <2>6, PlaceSame
    <2>8. Sound(own, kown, held)' BY <1>3, <1>5, <2>2, <2>5, <2>7 DEF Sound
    <2>9. Types' BY <1>1, <1>5, <2>2, <2>3 DEF Types, Labels, Nums
    <2>10. Table'
      <3>1. \A x \in Threads : pc'[x] \in {"unmap", "drop", "free"} => heap[x] # NoHeap BY <1>1, <2>3 DEF Table
      <3> QED BY <1>1, <2>2, <2>6, <3>1, TableKeep
    <2>11. Limits' BY <1>1, <2>2 DEF Limits
    <2> QED BY <2>5, <2>8, <2>9, <2>10, <2>11 DEF IInv
  <1>8. CASE heap[t] # NoHeap
    <2>1. heap[t].mapped BY <1>4, <1>8, NoHeapApart DEF HeapsType
    <2>2. Quiet(t) BY <2>1 DEF ExitHeap
    <2>3. PICK i : i = tid[t] OBVIOUS
    <2>4. i \in Nums /\ slot[i] = t BY <1>1, <1>5, <1>8, <2>3 DEF Table
    <2>5. /\ heap' = [heap EXCEPT ![t].lock = TRUE] /\ slot' = [slot EXCEPT ![i] = NULL] /\ tid' = [tid EXCEPT ![t] = -1]
          /\ count' = count - 1 /\ pc' = [pc EXCEPT ![t] = "unmap"]
      BY <2>1, <2>3, Zenon DEF ExitHeap, Goto
    <2>6. slot' \in [Nums -> Threads \cup {NULL}] /\ slot'[i] = NULL /\ \A j \in Nums : j # i => slot'[j] = slot[j]
      BY <1>1, <2>4, <2>5 DEF Types
    <2>7. tid' \in [Threads -> -1 .. MaxThreads - 1] /\ \A x \in Threads : x # t => tid'[x] = tid[x]
      <3>1. -1 \in -1 .. MaxThreads - 1 BY HeapAssumption
      <3> QED BY <1>1, <2>5, <3>1 DEF Types
    <2>8. pc' \in [Threads -> Labels] /\ pc'[t] = "unmap" /\ \A x \in Threads : x # t => pc'[x] = pc[x]
      BY <1>1, <2>5 DEF Types, Labels
    <2>9. /\ Mem(heap', blk, own, kown, held)
          /\ \A x \in Threads : x # t => heap'[x] = heap[x]
          /\ heap'[t] # NoHeap /\ heap'[t].blkfreecnt = heap[t].blkfreecnt /\ heap'[t].biglrucnt = heap[t].biglrucnt
      <3>1. Mem([heap EXCEPT ![t].lock = TRUE], blk, own, kown, held) /\ LockedIn(heap, t, [heap EXCEPT ![t].lock = TRUE])
        BY <1>3, <1>8, MemLock
      <3> QED BY <2>5, <3>1 DEF LockedIn
    <2>10. \A c \in Blocks : held[c] # {} => blk[c].tid \in Nums /\ slot[blk[c].tid] # NULL
      BY <1>3, HeldMapped DEF Place
    <2>11. \A c \in Blocks : held[c] # {} => blk[c].tid # i BY <1>3, <2>2, <2>3, QuietHeap
    <2>12. \A c \in Blocks : held[c] # {} => slot'[blk[c].tid] = slot[blk[c].tid] BY <2>6, <2>10, <2>11
    <2>13. Idle(t) BY <1>5, <2>8 DEF Idle
    <2>14. Args' /\ Claim(live', Busy', Cells', held) /\ Fitting(InUse, blk)' /\ Shifts(InUse, blk)'
      BY <1>1, <1>3, <1>5, <1>6, <2>12, <2>13, IdleKeeps
    <2>15. Place(own, kown, held)'
      <3>1. ASSUME NEW x \in Threads, pc'[x] # "unmap" PROVE TidOK(blk, own, kown, x)'
        <4>1. x # t /\ pc[x] # "unmap" BY <2>8, <3>1
        <4> QED BY <1>3, <1>5, <2>7, <4>1 DEF TidOK, Place
      <3>2. ASSUME NEW x \in Threads, NEW c \in Blocks, pc'[x] = "unmap", InHeap(own, kown, x, c) PROVE held[c] = {}
        <4>1. CASE x = t
          <5>1. TidOK(blk, own, kown, t) BY <1>3, <1>5 DEF Place
          <5>2. blk[c].tid = tid[t] BY <3>2, <4>1, <5>1 DEF TidOK, InHeap
          <5> QED BY <1>3, <2>2, <5>2, QuietHeap
        <4>2. CASE x # t BY <1>3, <2>8, <3>2, <4>2 DEF Place
        <4> QED BY <4>1, <4>2
      <3>3. \A c \in Blocks : held[c] # {} => slot'[blk'[c].tid] # NULL BY <1>5, <2>10, <2>12
      <3> QED BY <3>1, <3>2, <3>3 DEF Place, InHeap
    <2>16. Sound(own, kown, held)' BY <1>5, <2>9, <2>14, <2>15 DEF Sound
    <2>17. Types' BY <1>1, <1>5, <2>6, <2>7, <2>8 DEF Types, Labels, Nums
    <2>18. Table'
      <3>1. ASSUME NEW x \in Threads, heap'[x] # NoHeap, pc'[x] # "unmap" PROVE tid'[x] \in Nums /\ slot'[tid'[x]] = x
        <4>1. x # t /\ pc[x] # "unmap" /\ heap[x] # NoHeap BY <2>8, <2>9, <3>1
        <4>2. tid[x] \in Nums /\ slot[tid[x]] = x BY <1>1, <4>1 DEF Table
        <4>3. tid[x] # i BY <2>4, <4>1, <4>2
        <4> QED BY <2>6, <2>7, <4>1, <4>2, <4>3
      <3>2. ASSUME NEW j \in Nums, slot'[j] # NULL
            PROVE  heap'[slot'[j]] # NoHeap /\ pc'[slot'[j]] # "unmap" /\ tid'[slot'[j]] = j
        <4>1. j # i BY <2>6, <3>2
        <4>2. slot'[j] = slot[j] /\ slot[j] # NULL /\ slot[j] \in Threads BY <1>1, <2>6, <3>2, <4>1 DEF Types
        <4>3. heap[slot[j]] # NoHeap /\ pc[slot[j]] # "unmap" /\ tid[slot[j]] = j BY <1>1, <4>2 DEF Table
        <4>4. slot[j] # t BY <2>3, <4>1, <4>3
        <4> QED BY <2>7, <2>8, <2>9, <4>2, <4>3, <4>4
      <3>3. count' = Cardinality({j \in Nums : slot'[j] # NULL})
        <4>1. {j \in Nums : slot'[j] # NULL} = Used \ {i} BY <2>6 DEF Used
        <4>2. i \in Used /\ Used \subseteq Nums BY <2>4, NullApart DEF Used
        <4>3. Cardinality(Used \ {i}) = Cardinality(Used) - 1 BY <4>2, NumsCount, FS_RemoveElement
        <4>4. count = Cardinality(Used) BY <1>1 DEF Table, Used
        <4> QED BY <2>5, <4>1, <4>3, <4>4
      <3>4. \A x \in Threads : pc'[x] \in {"unmap", "drop", "free"} => heap'[x] # NoHeap
        BY <1>1, <2>8, <2>9 DEF Table
      <3> QED BY <3>1, <3>2, <3>3, <3>4 DEF Table, Nums
    <2>19. Limits'
      <3>1. \A x \in Threads : x # t /\ heap'[x] # NoHeap => heap'[x].blkfreecnt <= KeepBlk /\ heap'[x].biglrucnt <= KeepBig
        BY <1>1, <2>9 DEF Limits
      <3>2. heap'[t].blkfreecnt <= KeepBlk /\ heap'[t].biglrucnt <= KeepBig BY <1>1, <1>8, <2>9 DEF Limits
      <3> QED BY <3>1, <3>2 DEF Limits
    <2> QED BY <2>14, <2>16, <2>17, <2>18, <2>19 DEF IInv
  <1> QED BY <1>7, <1>8

\* exit_heap unmapping the heap and its blocks keeps the invariant.
LEMMA StepExitUnmap ==
    ASSUME IInv, NEW t \in Threads, ExitUnmap(t)
    PROVE  IInv'
  <1>1. Types /\ Table /\ Limits /\ Args /\ Fitting(InUse, blk) /\ Shifts(InUse, blk) BY DEF IInv
  <1>2. PICK own, kown, held : Sound(own, kown, held) BY DEF IInv
  <1>3. Mem(heap, blk, own, kown, held) /\ Place(own, kown, held) /\ Claim(live, Busy, Cells, held)
    BY <1>2 DEF Sound
  <1>4. heap \in HeapsType BY <1>3, MemTypes DEF ShapeTypes
  <1>5. /\ pc[t] = "unmap" /\ blk' = [b \in Blocks |-> IF b \in Reached(heap, blk, t) THEN NoBlk ELSE blk[b]]
        /\ heap' = [heap EXCEPT ![t] = NoHeap] /\ pc' = [pc EXCEPT ![t] = "info"] /\ UNCHANGED <<tid, slot, count, live, arg, stop>>
    BY Zenon DEF ExitUnmap, Reached, Goto
  <1>6. heap[t] # NoHeap BY <1>1, <1>5 DEF Table
  <1>7. \A c \in Blocks : InHeap(own, kown, t, c) => held[c] = {} BY <1>3, <1>5 DEF Place
  <1>8. PICK own2, kown2 : /\ Mem([heap EXCEPT ![t] = NoHeap], blk', own2, kown2, held)
                           /\ Gone(blk, own, kown, held, blk', own2, kown2, t)
    <2>1. PICK B2 : B2 = [b \in Blocks |-> IF b \in Reached(heap, blk, t) THEN NoBlk ELSE blk[b]] OBVIOUS
    <2>2. \E own2, kown2 : /\ Mem([heap EXCEPT ![t] = NoHeap], B2, own2, kown2, held)
                           /\ Gone(blk, own, kown, held, B2, own2, kown2, t)
      BY <1>3, <1>6, <1>7, <2>1, MemDrop
    <2>3. blk' = B2 BY <1>5, <2>1
    <2> QED BY <2>2, <2>3
  <1>9. heap'[t] = NoHeap /\ \A x \in Threads : x # t => heap'[x] = heap[x] BY <1>4, <1>5 DEF HeapsType
  <1>10. pc' \in [Threads -> Labels] /\ pc'[t] = "info" /\ \A x \in Threads : x # t => pc'[x] = pc[x]
    BY <1>1, <1>5 DEF Types, Labels
  <1>11. \A c \in Blocks : held[c] # {} => blk'[c] = blk[c] BY <1>8 DEF Gone
  <1>12. \A c \in Blocks : blk'[c] # NoBlk => blk'[c] = blk[c] BY <1>8 DEF Gone
  <1>13. Stable(blk, blk', held)
    <2>1. \A c \in Blocks : held[c] # {} => blk[c] # NoBlk BY <1>3, HeldMapped
    <2> QED BY <1>11, <2>1 DEF Stable
  <1>14. Idle(t) BY <1>5, <1>10 DEF Idle
  <1>15. Args' /\ Claim(live', Busy', Cells', held) /\ Fitting(InUse, blk)' /\ Shifts(InUse, blk)'
    BY <1>1, <1>3, <1>5, <1>12, <1>13, <1>14, IdleKeeps
  <1>16. \A c \in Blocks, x \in Threads : InHeap(own2, kown2, x, c) => InHeap(own, kown, x, c) /\ blk'[c] = blk[c] /\ x # t
    <2>1. ASSUME NEW c \in Blocks, NEW x \in Threads, InHeap(own2, kown2, x, c)
          PROVE  InHeap(own, kown, x, c) /\ blk'[c] = blk[c] /\ x # t
      <3>1. ~(own2[c] = NoList /\ kown2[c] = NULL) BY <2>1, NullApart DEF InHeap
      <3>2. blk'[c] = blk[c] /\ own2[c] = own[c] /\ kown2[c] = kown[c] /\ ~InHeap(own, kown, t, c) BY <1>8, <3>1 DEF Gone
      <3> QED BY <2>1, <3>2 DEF InHeap
    <2> QED BY <2>1
  <1>17. Place(own2, kown2, held)'
    <2>1. ASSUME NEW x \in Threads, pc'[x] # "unmap" PROVE TidOK(blk, own2, kown2, x)'
      <3>1. ASSUME NEW c \in Blocks, InHeap(own2, kown2, x, c) PROVE blk'[c].tid = tid[x]
        <4>1. InHeap(own, kown, x, c) /\ blk'[c] = blk[c] /\ x # t BY <1>16, <3>1
        <4>2. TidOK(blk, own, kown, x) BY <1>3, <1>10, <2>1, <4>1 DEF Place
        <4> QED BY <4>1, <4>2 DEF TidOK, InHeap
      <3>2. tid' = tid BY <1>5
      <3> QED BY <3>1, <3>2 DEF TidOK, InHeap
    <2>2. ASSUME NEW x \in Threads, NEW c \in Blocks, pc'[x] = "unmap", InHeap(own2, kown2, x, c) PROVE held[c] = {}
      <3>1. InHeap(own, kown, x, c) /\ pc[x] = "unmap" BY <1>10, <1>16, <2>2
      <3> QED BY <1>3, <3>1 DEF Place
    <2>3. \A c \in Blocks : held[c] # {} => slot'[blk'[c].tid] # NULL BY <1>3, <1>5, <1>11 DEF Place
    <2> QED BY <2>1, <2>2, <2>3 DEF Place, InHeap
  <1>18. Sound(own2, kown2, held)' BY <1>5, <1>8, <1>15, <1>17 DEF Sound
  <1>19. Types' BY <1>1, <1>5, <1>10 DEF Types, Labels, Nums
  <1>20. Table'
    <2>1. \A x \in Threads : heap'[x] # NoHeap /\ pc'[x] # "unmap" => tid'[x] \in Nums /\ slot'[tid'[x]] = x
      BY <1>1, <1>5, <1>9, <1>10 DEF Table
    <2>2. ASSUME NEW j \in Nums, slot'[j] # NULL
          PROVE  heap'[slot'[j]] # NoHeap /\ pc'[slot'[j]] # "unmap" /\ tid'[slot'[j]] = j
      <3>1. slot'[j] = slot[j] /\ tid' = tid /\ slot[j] \in Threads BY <1>1, <1>5, <2>2 DEF Types
      <3>2. heap[slot[j]] # NoHeap /\ pc[slot[j]] # "unmap" /\ tid[slot[j]] = j BY <1>1, <2>2, <3>1 DEF Table
      <3>3. slot[j] # t BY <1>5, <3>2
      <3> QED BY <1>9, <1>10, <3>1, <3>2, <3>3
    <2>3. count' = Cardinality({j \in Nums : slot'[j] # NULL}) BY <1>1, <1>5 DEF Table
    <2>4. \A x \in Threads : pc'[x] \in {"unmap", "drop", "free"} => heap'[x] # NoHeap BY <1>1, <1>9, <1>10 DEF Table
    <2> QED BY <2>1, <2>2, <2>3, <2>4 DEF Table, Nums
  <1>21. Limits' BY <1>1, <1>9 DEF Limits
  <1> QED BY <1>15, <1>18, <1>19, <1>20, <1>21 DEF IInv

-----------------------------------------------------------------------------
(* The invariant holds.                                                     *)

\* No heap, no block.
LEMMA MemNone ==
    Mem([x \in Threads |-> NoHeap], [c \in Blocks |-> NoBlk], [c \in Blocks |-> NoList], [c \in Blocks |-> NULL],
        [c \in Blocks |-> {}])
  <1> DEFINE H == [x \in Threads |-> NoHeap]
             B == [c \in Blocks |-> NoBlk]
             own == [c \in Blocks |-> NoList]
             kown == [c \in Blocks |-> NULL]
             r == [c \in Blocks |-> 0]
  <1>1. 0 \in Refs BY HeapAssumption DEF Refs
  <1>2. \A z \in Ids : z[1] \in Threads BY DEF Ids
  <1>3. H \in HeapsType /\ B \in BlksType BY DEF HeapsType, BlksType
  <1>4. Hd(H) = [z \in Ids |-> 0] /\ Tl(H) = [z \in Ids |-> 0] BY <1>2 DEF Hd, Tl
  <1>5. Nx(B) = [c \in Blocks |-> 0] /\ Pv(B) = [c \in Blocks |-> 0] BY DEF Nx, Pv
  <1>6. Kp(H) = [x \in Threads |-> 0] BY DEF Kp
  <1>7. \A c \in Blocks : own[c] = NoList /\ kown[c] = NULL /\ B[c] = NoBlk BY DEF own
  <1>8. \A x \in Threads : H[x] = NoHeap OBVIOUS
  <1>9. own \in [Blocks -> Ids \cup {NoList}] /\ kown \in [Blocks -> Threads \cup {NULL}] /\ r \in [Blocks -> Nat] OBVIOUS
  <1> HIDE DEF H, B, own, kown, r
  <1>10. DL(Hd(H), Tl(H), Nx(B), Pv(B), own, r) BY <1>1, <1>4, <1>5, <1>7, <1>9 DEF DL, DLTypes, DLEnds
  <1>11. SL(Kp(H), Nx(B), kown, r) BY <1>1, <1>5, <1>6, <1>7, <1>9 DEF SL, SLTypes
  <1>12. Links(H, B, own, r) BY <1>3, <1>7, <1>10 DEF Links
  <1>13. RoomBefore(Nx(B), own, Rm(B)) BY <1>7 DEF RoomBefore
  <1>14. Placed(H, B, own, kown) BY <1>7 DEF Placed
  <1>15. Shape(H, B, own, kown, Rm(B)) BY <1>11, <1>12, <1>13, <1>14 DEF Shape, ShapeBy
  <1>16. ASSUME NEW c \in Blocks PROVE BlockOK(B[c], own[c], kown[c], {}) /\ KindOK(B[c])
    BY <1>7 DEF BlockOK, KindOK
  <1>17. Mem(H, B, own, kown, [c \in Blocks |-> {}]) BY <1>8, <1>15, <1>16 DEF Mem
  <1> QED BY <1>17 DEF H, B, own, kown

\* The invariant holds at the start.
LEMMA InitIInv == Init => IInv
  <1>1. SUFFICES ASSUME Init PROVE IInv OBVIOUS
  <1> DEFINE own == [c \in Blocks |-> NoList]
             kown == [c \in Blocks |-> NULL]
             held == [c \in Blocks |-> {}]
  <1>2. \A x \in Threads : heap[x] = NoHeap /\ pc[x] \in {"run", "off"} BY <1>1 DEF Init
  <1>3. \A i \in Nums : slot[i] = NULL BY <1>1 DEF Init, Nums
  <1>4. \A c \in Blocks : blk[c] = NoBlk BY <1>1 DEF Init
  <1>5. live = {} /\ Busy = {} /\ InUse = {} BY <1>1, <1>2 DEF Init, Busy, InUse
  <1>6. Types
    <2>1. pc \in [Threads -> Labels] BY <1>1 DEF Init, Labels
    <2>2. tid \in [Threads -> -1 .. MaxThreads - 1] BY <1>1, HeapAssumption DEF Init
    <2>3. slot \in [Nums -> Threads \cup {NULL}] BY <1>1 DEF Init, Nums
    <2>4. arg = [x \in Threads |-> arg[x]] BY <1>1 DEF Init
    <2>5. stop = "no" BY <1>1 DEF Init
    <2> QED BY <2>1, <2>2, <2>3, <2>4, <2>5 DEF Types
  <1>7. Table
    <2>1. {i \in Nums : slot[i] # NULL} = {} BY <1>3
    <2>2. count = Cardinality({i \in Nums : slot[i] # NULL}) BY <1>1, <2>1, FS_EmptySet DEF Init
    <2> QED BY <1>2, <1>3, <2>2 DEF Table
  <1>8. Limits /\ Args BY <1>2 DEF Limits, Args
  <1>9. Fitting(InUse, blk) /\ Shifts(InUse, blk) BY <1>4, <1>5 DEF Fitting, Shifts
  <1>10. Mem(heap, blk, own, kown, held)
    <2>1. heap = [x \in Threads |-> NoHeap] /\ blk = [c \in Blocks |-> NoBlk] BY <1>1 DEF Init
    <2> QED BY <2>1, MemNone
  <1>11. \A c \in Blocks : own[c] = NoList /\ kown[c] = NULL /\ held[c] = {} OBVIOUS
  <1> HIDE DEF own, kown, held
  <1>12. Place(own, kown, held)
    <2>1. \A x \in Threads : TidOK(blk, own, kown, x) BY <1>11, NullApart DEF TidOK
    <2> QED BY <1>2, <1>11, <2>1 DEF Place
  <1>13. Claim(live, Busy, Cells, held) BY <1>5, <1>11 DEF Claim, Holds, Apart, Covers
  <1>14. Sound(own, kown, held) BY <1>10, <1>12, <1>13 DEF Sound
  <1> QED BY <1>6, <1>7, <1>8, <1>9, <1>14 DEF IInv

\* Every step keeps the invariant.
LEMMA StepIInv ==
    ASSUME BinsAgree, Clients = {}, IInv, [Next]_vars
    PROVE  IInv'
  <1>1. ASSUME NEW t \in Threads, Step(t) PROVE IInv'
    <2>1. CASE InitHeap(t) BY <2>1, StepInitHeap
    <2>2. ASSUME NEW s \in Sizes, DoMalloc(t, s) PROVE IInv' BY <2>2, StepMalloc
    <2>3. ASSUME NEW a \in Aligns, NEW s \in Sizes, Memalign(t, a, s) PROVE IInv' BY <2>3, StepMemalign
    <2>4. ASSUME NEW u \in live, Free(t, u) PROVE IInv' BY <2>4, StepFree
    <2>5. CASE FreeLocked(t) BY <2>5, StepFreeLocked
    <2>6. ASSUME NEW u \in live, NEW s \in Sizes, ReallocInPlace(t, u, s) PROVE IInv' BY <2>6, StepReallocInPlace
    <2>7. ASSUME NEW u \in live, NEW s \in Sizes, ReallocMove(t, u, s) PROVE IInv' BY <2>7, StepReallocMove
    <2>8. CASE ReallocFree(t) BY <2>8, StepReallocFree
    <2>9. ASSUME NEW u \in Threads, PthreadCreate(t, u) PROVE IInv' BY <2>9, StepPthreadCreate
    <2>10. CASE ExitHeap(t) BY <2>10, StepExitHeap
    <2>11. CASE ExitUnmap(t) BY <2>11, StepExitUnmap
    <2>12. CASE FreeInfo(t) BY <2>12, StepFreeInfo
    <2> QED BY <1>1, <2>1, <2>2, <2>3, <2>4, <2>5, <2>6, <2>7, <2>8, <2>9, <2>10, <2>11, <2>12, Zenon DEF Step
  <1>2. CASE UNCHANGED vars
    <2>1. Still /\ live' = live /\ stop' = stop BY <1>2 DEF vars, Still
    <2>2. stop' \in {"no", "threads"} BY <2>1 DEF IInv, Types
    <2> QED BY <2>1, <2>2, StepHalt
  <1> QED BY <1>1, <1>2 DEF Next

\* The invariant, for any number of threads and blocks, sizes whose bins agree,
\* and programs that leave nothing behind in the heap of a thread that ends
\* and pass no shifted buffer to realloc.
THEOREM AllocInvariant ==
    ASSUME BinsAgree, Clients = {}
    PROVE  Spec => []IInv
  <1>1. IInv /\ [Next]_vars => IInv' BY StepIInv
  <1> QED BY <1>1, InitIInv, PTL DEF Spec

-----------------------------------------------------------------------------
(* What the invariant says.                                                 *)

\* Which heaps are mapped.
LEMMA HeapsMapped ==
    ASSUME heap \in HeapsType
    PROVE  \A t \in Threads : (heap[t].mapped <=> heap[t] # NoHeap) /\ (t \in Heaps <=> heap[t] # NoHeap)
  <1>1. \A t \in Threads : heap[t] \in HeapRec \cup {NoHeap} BY DEF HeapsType
  <1>2. \A t \in Threads : heap[t].mapped <=> heap[t] # NoHeap BY <1>1, NoHeapApart, Zenon
  <1> QED BY <1>2, Zenon DEF Heaps

\* Which blocks are mapped.
LEMMA BlksMapped ==
    ASSUME blk \in BlksType
    PROVE  \A b \in Blocks : blk[b].mapped <=> blk[b] # NoBlk
  <1>1. \A b \in Blocks : blk[b] \in BlkRec \cup {NoBlk} BY DEF BlksType
  <1> QED BY <1>1, NoBlkApart, Zenon

\* The types.
LEMMA IInvTypeOK == IInv => TypeOK
  <1>1. SUFFICES ASSUME IInv PROVE TypeOK OBVIOUS
  <1>2. Types /\ Table /\ Limits /\ Args BY <1>1 DEF IInv
  <1>3. PICK own, kown, held : Sound(own, kown, held) BY <1>1 DEF IInv
  <1>4. Mem(heap, blk, own, kown, held) /\ Claim(live, Busy, Cells, held) BY <1>3 DEF Sound
  <1>5. heap \in HeapsType /\ blk \in BlksType BY <1>4, MemTypes DEF ShapeTypes
  <1>6. ASSUME NEW t \in Threads, heap[t].mapped
        PROVE  /\ heap[t].head \in [Lists -> 0 .. NBlk] /\ heap[t].tail \in [Lists -> 0 .. NBlk]
               /\ heap[t].blkfree \in 0 .. NBlk /\ heap[t].blkfreecnt \in 0 .. KeepBlk /\ heap[t].biglrucnt \in 0 .. KeepBig
    <2>1. heap[t] # NoHeap BY <1>5, <1>6, HeapsMapped
    <2>2. heap[t] \in HeapRec BY <1>5, <2>1 DEF HeapsType
    <2>3. heap[t].blkfreecnt <= KeepBlk /\ heap[t].biglrucnt <= KeepBig BY <1>2, <2>1 DEF Limits
    <2>4. heap[t].blkfreecnt \in Nat /\ heap[t].biglrucnt \in Nat BY <2>2 DEF HeapRec
    <2>5. heap[t].head \in [Lists -> Refs] /\ heap[t].tail \in [Lists -> Refs] /\ heap[t].blkfree \in Refs BY <2>2 DEF HeapRec
    <2>6. heap[t].blkfreecnt \in 0 .. KeepBlk /\ heap[t].biglrucnt \in 0 .. KeepBig BY <2>3, <2>4, HeapAssumption
    <2> QED BY <2>5, <2>6 DEF Refs
  <1>7. ASSUME NEW b \in Blocks, blk[b].mapped
        PROVE  blk[b].prev \in 0 .. NBlk /\ blk[b].next \in 0 .. NBlk /\ blk[b].restcnt \in 0 .. blk[b].cnt
    <2>1. blk[b] # NoBlk BY <1>5, <1>7, BlksMapped
    <2>2. blk[b] \in BlkRec BY <1>5, <2>1 DEF BlksType
    <2>3. blk[b].restcnt <= blk[b].cnt BY <1>4, <2>1 DEF Mem, BlockOK
    <2>4. blk[b].restcnt \in Nat /\ blk[b].cnt \in Nat /\ blk[b].prev \in Refs /\ blk[b].next \in Refs BY <2>2 DEF BlkRec
    <2> QED BY <2>3, <2>4 DEF Refs
  <1>8. \A u \in live : u.b \in Blocks /\ u.off \in Nat /\ u.len \in Nat BY <1>4 DEF Claim, Holds, BufRec
  <1>9. count \in 0 .. MaxThreads
    <2>1. Used \subseteq Nums BY DEF Used
    <2>2. count = Cardinality(Used) BY <1>2 DEF Table, Used
    <2> QED BY <2>1, <2>2, NumsCount
  <1> QED BY <1>2, <1>6, <1>7, <1>8, <1>9 DEF TypeOK, Types, Labels, Nums

\* The table, and that no thread met memory that is not mapped.
LEMMA IInvNoFault == IInv => NoFault
  <1>1. SUFFICES ASSUME IInv PROVE NoFault OBVIOUS
  <1>2. Types /\ Table BY <1>1 DEF IInv
  <1>3. PICK own, kown, held : Sound(own, kown, held) BY <1>1 DEF IInv
  <1>4. heap \in HeapsType BY <1>3, MemTypes DEF Sound, ShapeTypes
  <1>5. DOMAIN slot = Nums /\ stop # "fault" BY <1>2 DEF Types
  <1>6. count = Cardinality({i \in DOMAIN slot : slot[i] # NULL}) BY <1>2, <1>5 DEF Table
  <1>7. \A t \in Heaps : t \in Threads /\ heap[t] # NoHeap BY <1>4, HeapsMapped DEF Heaps
  <1>8. \A t \in Heaps : pc[t] # "unmap" => slot[tid[t]] = t BY <1>2, <1>7 DEF Table
  <1> QED BY <1>5, <1>6, <1>8 DEF NoFault

\* Blocks with room before full ones.
LEMMA IInvRoomFirst == IInv => RoomFirst
  <1>1. SUFFICES ASSUME IInv, NEW t \in Heaps, NEW l \in Bins, NEW b \in Listed(t, l), NEW c \in Listed(t, l),
                        blk[b].next = c, HasRoom(c)
                 PROVE  HasRoom(b)
    BY DEF RoomFirst
  <1>2. PICK own, kown, held : Sound(own, kown, held) BY <1>1 DEF IInv
  <1>3. Mem(heap, blk, own, kown, held) BY <1>2 DEF Sound
  <1>4. Shape(heap, blk, own, kown, Rm(blk)) BY <1>3 DEF Mem
  <1>5. heap \in HeapsType BY <1>3, MemTypes DEF ShapeTypes
  <1>6. t \in Threads BY DEF Heaps
  <1>7. heap[t] # NoHeap BY <1>5, <1>6, HeapsMapped
  <1>8. l \in Lists BY DEF Lists
  <1>9. Members(Forward(blk, heap[t].head[l])) = BlocksOn(own, <<t, l>>) BY <1>4, <1>6, <1>7, <1>8, ReachedIs
  <1>10. b \in Blocks /\ c \in Blocks /\ own[b] = <<t, l>> /\ own[c] = <<t, l>> BY <1>9 DEF Listed, BlocksOn
  <1>11. own[b] # NoList /\ own[c] # NoList BY <1>6, <1>10, NullApart DEF NoList
  <1>12. PICK r, q : ShapeBy(heap, blk, own, kown, Rm(blk), r, q) BY <1>4 DEF Shape
  <1>13. RoomBefore(Nx(blk), own, Rm(blk)) /\ blk[b] # NoBlk /\ blk[c] # NoBlk BY <1>10, <1>11, <1>12 DEF ShapeBy, Links
  <1>14. Nx(blk)[b] = c /\ c # 0 BY <1>1, <1>10, <1>13 DEF Nx, Blocks
  <1>15. c \in Rm(blk) BY <1>1, <1>10, <1>13 DEF Rm, HasRoom, Freecnt
  <1>16. b \in Rm(blk) BY <1>10, <1>11, <1>13, <1>14, <1>15 DEF RoomBefore
  <1> QED BY <1>16 DEF Rm, HasRoom, Freecnt

\* The lists, walked both ways.
LEMMA IInvListsSound == IInv => ListsSound
  <1>1. SUFFICES ASSUME IInv, NEW t \in Heaps
                 PROVE  /\ \A l \in Lists :
                              LET f == Forward(blk, heap[t].head[l])
                                  g == Backward(blk, heap[t].tail[l])
                                  n == Cardinality(Members(f))
                              IN  /\ \A i \in 0 .. n - 1 : f[i] # 0 /\ g[i] = f[n - 1 - i]
                                  /\ n <= NBlk => f[n] = 0 /\ g[n] = 0
                                  /\ \A m \in Lists \ {l} : Members(f) \cap Listed(t, m) = {}
                                  /\ Members(f) \cap Kept(t) = {}
                        /\ heap[t].blkfreecnt = Cardinality(Kept(t))
                        /\ heap[t].biglrucnt = Cardinality(Listed(t, BigList))
    BY DEF ListsSound
  <1>2. PICK own, kown, held : Sound(own, kown, held) BY <1>1 DEF IInv
  <1>3. Mem(heap, blk, own, kown, held) BY <1>2 DEF Sound
  <1>4. Shape(heap, blk, own, kown, Rm(blk)) BY <1>3 DEF Mem
  <1>5. heap \in HeapsType BY <1>3, MemTypes DEF ShapeTypes
  <1>6. t \in Threads BY DEF Heaps
  <1>7. heap[t] # NoHeap BY <1>5, <1>6, HeapsMapped
  <1>8. \A l \in Lists : Listed(t, l) = BlocksOn(own, <<t, l>>) BY <1>4, <1>6, <1>7, ReachedIs DEF Listed
  <1>9. Kept(t) = KeptBy(kown, t) BY <1>4, <1>6, <1>7, ReachedIs DEF Kept
  <1>10. CountOK(heap[t], own, kown, t) BY <1>3, <1>6, <1>7 DEF Mem
  <1>11. heap[t].blkfreecnt = Cardinality(Kept(t)) /\ heap[t].biglrucnt = Cardinality(Listed(t, BigList))
    BY <1>8, <1>9, <1>10 DEF CountOK, Lists
  <1>12. PICK r, q : ShapeBy(heap, blk, own, kown, Rm(blk), r, q) BY <1>4 DEF Shape
  <1>13. Links(heap, blk, own, r) /\ Placed(heap, blk, own, kown) BY <1>12 DEF ShapeBy
  <1>14. ASSUME NEW l \in Lists, NEW f, f = Forward(blk, heap[t].head[l]), NEW g, g = Backward(blk, heap[t].tail[l]),
                NEW n, n = Cardinality(Members(f))
         PROVE  /\ \A i \in 0 .. n - 1 : f[i] # 0 /\ g[i] = f[n - 1 - i]
                /\ n <= NBlk => f[n] = 0 /\ g[n] = 0
                /\ \A m \in Lists \ {l} : Members(f) \cap Listed(t, m) = {}
                /\ Members(f) \cap Kept(t) = {}
    <2> DEFINE S == BlocksOn(own, <<t, l>>)
    <2>1. PICK k \in 0 .. NBlk : Walked(S, f, k) /\ Mirrored(f, g, k)
      BY <1>6, <1>7, <1>13, <1>14, ListWalk
    <2>2. S \subseteq Blocks BY DEF BlocksOn
    <2>3. 0 \notin S BY <2>2 DEF Blocks
    <2>4. Members(f) = S /\ n = k
      <3> HIDE DEF S
      <3> QED BY <1>14, <2>1, <2>2, WalkMembers
    <2>5. k \in Nat /\ NBlk \in Nat /\ k <= NBlk BY HeapAssumption
    <2>6. \A i \in 0 .. k - 1 : f[i] # 0 /\ g[i] = f[k - 1 - i] BY <2>1, <2>3 DEF Walked, Mirrored
    <2>7. f[k] = 0 /\ g[k] = 0 BY <2>1, <2>5 DEF Walked, Mirrored
    <2>8. \A m \in Lists \ {l} : S \cap Listed(t, m) = {} BY <1>8 DEF BlocksOn
    <2>9. S \cap Kept(t) = {}
      <3>1. ASSUME NEW c \in S, c \in Kept(t) PROVE FALSE
        <4>1. c \in Blocks /\ own[c] = <<t, l>> /\ kown[c] = t BY <1>9, <3>1 DEF BlocksOn, KeptBy
        <4>2. own[c] # NoList /\ kown[c] # NULL BY <1>6, <4>1, NullApart DEF NoList
        <4> QED BY <1>13, <4>1, <4>2 DEF Placed
      <3> QED BY <3>1
    <2> QED BY <2>4, <2>6, <2>7, <2>8, <2>9
  <1> QED BY <1>11, <1>14

\* A block of which a chunk is in use: on a bin, or large and on no list.
LEMMA HeldBlock ==
    ASSUME NEW own, NEW kown, NEW held, Mem(heap, blk, own, kown, held), NEW b \in Blocks, held[b] # {}
    PROVE  /\ blk[b].binndx # BigList => blk[b].small = TRUE /\ SmallOK(blk[b], held[b])
           /\ blk[b].binndx = BigList => blk[b].small = FALSE /\ held[b] = {BlkHdr} /\ blk[b].free = <<>>
  <1>1. BlockOK(blk[b], own[b], kown[b], held[b]) /\ KindOK(blk[b]) BY DEF Mem
  <1>2. blk[b] # NoBlk /\ kown[b] = NULL BY HeldMapped
  <1>3. CASE blk[b].binndx # BigList
    <2>1. blk[b].small = TRUE BY <1>1, <1>2, <1>3, Zenon DEF KindOK
    <2>2. SmallOK(blk[b], held[b]) BY <1>1, <1>2, <1>3 DEF BlockOK
    <2> QED BY <1>3, <2>1, <2>2
  <1>4. CASE blk[b].binndx = BigList
    <2>1. blk[b].small = FALSE BY <1>1, <1>2, <1>4, Zenon DEF KindOK
    <2>2. held[b] = {BlkHdr} /\ blk[b].free = <<>> BY <1>1, <1>2, <1>4 DEF BlockOK
    <2> QED BY <1>4, <2>1, <2>2
  <1> QED BY <1>3, <1>4

\* Where buffer u lies in its chunk.
LEMMA InChunk ==
    ASSUME NEW u \in BufRec, NEW x \in BlkRec, BufFits(u, x), x.binndx # BigList,
           NEW o \in Nat, o = u.off - u.shift
    PROVE  u.off >= o /\ u.off + Hdr + u.len <= o + x.size
  <1>1. u.off \in Nat /\ u.shift \in Nat /\ u.len \in Nat /\ x.size \in Nat BY DEF BufRec, BlkRec
  <1>2. u.shift + Hdr + u.len <= x.size BY DEF BufFits
  <1> QED BY <1>1, <1>2 DEF Hdr

\* Pieces of two chunks that do not meet do not meet.
LEMMA OffPieces ==
    ASSUME NEW o \in Nat, NEW p \in Nat, NEW n \in Nat, Off(o, p, n),
           NEW a \in Nat, NEW e \in Nat, a >= o, e <= o + n, NEW c \in Nat, NEW d \in Nat, c >= p, d <= p + n
    PROVE  ~(c < e /\ a < d)
  BY DEF Off

\* A chunk ends below the free stack at the end of the block.
LEMMA BelowStack ==
    ASSUME NEW o \in Nat, NEW e \in Nat, NEW n \in Nat, NEW rest \in Nat, NEW m \in Nat, NEW f \in Nat, NEW cnt \in Nat,
           e <= o + n, o + n <= rest, f < cnt, rest + m + Ptr * cnt <= BlkSize
    PROVE  e <= BlkSize - Ptr * f
  BY SizesAssumption DEF Ptr

\* A buffer in a chunk of a bin is apart.
LEMMA SmallApart ==
    ASSUME NEW own, NEW kown, NEW held, Mem(heap, blk, own, kown, held), InUseOK(held), Fitting(InUse, blk),
           NEW u \in InUse, blk[u.b].binndx # BigList
    PROVE  ApartFrom(u)
  <1> DEFINE b == u.b
             x == blk[u.b]
             o == u.off - u.shift
  <1>1. u \in BufRec /\ b \in Blocks /\ o \in held[b] /\ held[b] # {} BY DEF InUseOK
  <1>2. held[b] \subseteq Nat BY <1>1, MemTypes
  <1>3. x \in BlkRec BY <1>1, HeldMapped
  <1>4. x.small = TRUE /\ SmallOK(x, held[b]) BY <1>1, HeldBlock
  <1>5. o \in Nat BY <1>1, <1>2
  <1>6. u.off >= o /\ u.off + Hdr + u.len <= o + x.size
    <2>1. BufFits(u, x) BY DEF Fitting
    <2> QED BY <1>1, <1>3, <1>5, <2>1, InChunk
  <1>7. u.off \in Nat /\ u.len \in Nat /\ x.size \in Nat /\ x.cnt \in Nat /\ x.rest \in Nat /\ x.restcnt \in Nat /\ x.free \in Seq(Nat)
    BY <1>1, <1>3 DEF BufRec, BlkRec
  <1>8. o >= BlkHdr /\ o + x.size <= x.rest BY <1>1, <1>4 DEF SmallOK, ChunksIn
  <1>9. Len(x.free) \in Nat BY <1>7
  <1>10. x.size >= Hdr /\ Len(x.free) < x.cnt /\ x.rest + x.restcnt * x.size + Ptr * x.cnt <= BlkSize BY <1>4 DEF SmallOK
  <1>11. u.off >= BlkHdr BY <1>5, <1>6, <1>7, <1>8 DEF BlkHdr
  <1>12. u.off + Hdr + u.len <= BlkSize - Ptr * Len(x.free)
    <2>1. x.restcnt * x.size \in Nat BY <1>7, TimesNat
    <2>2. u.off + Hdr + u.len \in Nat BY <1>7 DEF Hdr
    <2> HIDE DEF o, x
    <2> QED BY <1>5, <1>6, <1>7, <1>8, <1>9, <1>10, <2>1, <2>2, BelowStack
  <1>13. ASSUME NEW v \in InUse, v # u, v.b = b PROVE ~Meets(v.off, v.off + Hdr + v.len, u)
    <2> DEFINE p == v.off - v.shift
    <2>1. v \in BufRec /\ p \in held[b] BY <1>13 DEF InUseOK
    <2>2. p \in Nat BY <1>2, <2>1
    <2>3. p # o BY <1>13 DEF InUseOK, Loc
    <2>4. v.off >= p /\ v.off + Hdr + v.len <= p + x.size
      <3>1. BufFits(v, x) BY <1>13 DEF Fitting
      <3> QED BY <1>3, <2>1, <2>2, <3>1, InChunk
    <2>5. v.off \in Nat /\ v.len \in Nat BY <2>1 DEF BufRec
    <2>6. Off(o, p, x.size) BY <1>1, <1>4, <2>1, <2>3 DEF SmallOK, ChunksOff
    <2>7. u.off + Hdr + u.len \in Nat /\ v.off + Hdr + v.len \in Nat BY <1>7, <2>5, SMTT(30) DEF Hdr
    <2> HIDE DEF o, p, x
    <2> QED BY <1>5, <1>6, <1>7, <2>2, <2>4, <2>5, <2>6, <2>7, OffPieces DEF Meets
  <1>14. ASSUME NEW i \in 1 .. Len(x.free) PROVE ~Meets(x.free[i], x.free[i] + Hdr, u)
    <2>1. Off(o, x.free[i], x.size) BY <1>1, <1>4 DEF SmallOK, ChunksOff
    <2> HIDE DEF o, x
    <2>2. x.free[i] \in Nat BY <1>7
    <2>3. u.off + Hdr + u.len \in Nat /\ x.free[i] + Hdr \in Nat
      <3>1. u.off \in Nat /\ u.len \in Nat BY <1>7
      <3> QED BY <2>2, <3>1 DEF Hdr
    <2>4. x.free[i] >= x.free[i] /\ x.free[i] + Hdr <= x.free[i] + x.size BY <1>7, <1>10, <2>2 DEF Hdr
    <2> QED BY <1>5, <1>6, <1>7, <2>1, <2>2, <2>3, <2>4, OffPieces DEF Meets
  <1>15. (IF blk[u.b].small THEN BlkSize - Ptr * Freecnt(u.b) ELSE blk[u.b].size) = BlkSize - Ptr * Len(x.free)
    BY <1>4, Zenon DEF Freecnt
  <1> QED BY <1>11, <1>12, <1>13, <1>14, <1>15 DEF ApartFrom, Freecnt

\* A buffer in a large block is alone.
LEMMA BigApart ==
    ASSUME NEW own, NEW kown, NEW held, Mem(heap, blk, own, kown, held), InUseOK(held), Fitting(InUse, blk),
           NEW u \in InUse, blk[u.b].binndx = BigList
    PROVE  ApartFrom(u)
  <1>1. u \in BufRec /\ u.b \in Blocks /\ u.off - u.shift \in held[u.b] /\ held[u.b] # {} BY DEF InUseOK
  <1>2. blk[u.b].small = FALSE /\ held[u.b] = {BlkHdr} /\ blk[u.b].free = <<>> BY <1>1, HeldBlock
  <1>3. u.off \in Nat /\ u.shift \in Nat BY <1>1 DEF BufRec
  <1>4. u.off >= BlkHdr BY <1>1, <1>2, <1>3 DEF BlkHdr
  <1>5. u.off + Hdr + u.len <= blk[u.b].size BY DEF Fitting, BufFits
  <1>6. ASSUME NEW v \in InUse, v # u, v.b = u.b PROVE FALSE
    <2>1. v.off - v.shift \in held[u.b] BY <1>6 DEF InUseOK
    <2>2. Loc(v) = Loc(u) BY <1>1, <1>2, <1>6, <2>1 DEF Loc
    <2> QED BY <1>6, <2>2 DEF InUseOK
  <1>7. Freecnt(u.b) = 0 BY <1>2 DEF Freecnt
  <1>8. (IF blk[u.b].small THEN BlkSize - Ptr * Freecnt(u.b) ELSE blk[u.b].size) = blk[u.b].size BY <1>2, Zenon
  <1> QED BY <1>4, <1>5, <1>6, <1>7, <1>8 DEF ApartFrom

\* Buffers are apart.
LEMMA IInvBuffersApart == IInv => BuffersApart
  <1>1. SUFFICES ASSUME IInv, NEW u \in InUse PROVE ApartFrom(u) BY DEF BuffersApart, ApartFrom
  <1>2. PICK own, kown, held : Sound(own, kown, held) BY <1>1 DEF IInv
  <1>3. Mem(heap, blk, own, kown, held) /\ Claim(live, Busy, Cells, held) BY <1>2 DEF Sound
  <1>4. InUseOK(held) /\ Fitting(InUse, blk) BY <1>1, <1>3, InUseIs DEF IInv
  <1>5. CASE blk[u.b].binndx # BigList BY <1>3, <1>4, <1>5, SmallApart
  <1>6. CASE blk[u.b].binndx = BigList BY <1>3, <1>4, <1>6, BigApart
  <1> QED BY <1>5, <1>6

\* As many as the set they map to one to one.
LEMMA CountBy ==
    ASSUME NEW U, NEW A, IsFiniteSet(A), NEW f, f \in [U -> A],
           \A u, v \in U : f[u] = f[v] => u = v, \A a \in A : \E u \in U : f[u] = a
    PROVE  Cardinality(U) = Cardinality(A)
  <1> DEFINE g == [a \in A |-> CHOOSE u \in U : f[u] = a]
  <1>1. \A a \in A : g[a] \in U /\ f[g[a]] = a OBVIOUS
  <1>2. g \in [A -> U] BY <1>1
  <1> HIDE DEF g
  <1>3. \A a, c \in A : g[a] = g[c] => a = c BY <1>1
  <1>4. \A u \in U : \E a \in A : g[a] = u BY <1>1
  <1>5. g \in Bijection(A, U) BY <1>2, <1>3, <1>4 DEF Bijection, Injection, Surjection, IsInjective
  <1>6. ExistsBijection(A, U) BY <1>5 DEF ExistsBijection
  <1> QED BY <1>6, FS_Bijection

\* A chunk in use is a buffer or on its way back.
LEMMA UsedIs ==
    ASSUME Args, NEW own, NEW kown, NEW held, Mem(heap, blk, own, kown, held), Claim(live, Busy, Cells, held), NEW b \in Blocks
    PROVE  Cardinality({u \in InUse : u.b = b}) + Cardinality(Returning(b)) = Cardinality(held[b])
  <1> DEFINE U == {u \in InUse : u.b = b}
             A == {o \in held[b] : \E u \in InUse : Loc(u) = <<b, o>>}
             R == {o \in held[b] : \E t \in Threads : pc[t] = "free" /\ arg[t].b = b /\ arg[t].off = o}
  <1>1. InUseOK(held) BY InUseIs
  <1>2. IsFiniteSet(held[b])
    <2>1. CASE held[b] = {} BY <2>1, FS_EmptySet
    <2>2. CASE held[b] # {}
      <3>1. SmallOK(blk[b], held[b]) \/ held[b] = {BlkHdr} BY <2>2, HeldBlock
      <3>2. CASE SmallOK(blk[b], held[b]) BY <3>2 DEF SmallOK
      <3>3. CASE held[b] = {BlkHdr} BY <3>3, FS_Singleton
      <3> QED BY <3>1, <3>2, <3>3
    <2> QED BY <2>1, <2>2
  <1>3. A \subseteq held[b] /\ R \subseteq held[b] OBVIOUS
  <1>4. IsFiniteSet(A) /\ IsFiniteSet(R) BY <1>2, <1>3, FS_Subset
  <1>5. held[b] \subseteq A \cup R
    <2>1. SUFFICES ASSUME NEW o \in held[b] PROVE o \in A \cup R OBVIOUS
    <2>2. CASE \E u \in live : Loc(u) = <<b, o>> BY <2>2 DEF InUse
    <2>3. ASSUME NEW t \in Busy, Cells[t] = <<b, o>> PROVE o \in A \cup R
      <3>1. t \in Threads BY DEF Busy
      <3>2. CASE pc[t] = "free"
        <4>1. Cells[t] = <<arg[t].b, arg[t].off>> BY <3>1, <3>2 DEF Cells
        <4>2. arg[t].b = b /\ arg[t].off = o BY <2>3, <4>1
        <4> QED BY <3>1, <3>2, <4>2
      <3>3. CASE pc[t] = "drop"
        <4>1. Cells[t] = Loc(arg[t]) BY <3>1, <3>3 DEF Cells
        <4>2. arg[t] \in InUse BY <3>1, <3>3 DEF InUse
        <4> QED BY <2>3, <4>1, <4>2
      <3> QED BY <3>2, <3>3 DEF Busy
    <2> QED BY <2>2, <2>3 DEF Claim, Covers
  <1>6. A \cap R = {}
    <2>1. ASSUME NEW o \in A, o \in R PROVE FALSE
      <3>1. PICK t \in Threads : pc[t] = "free" /\ arg[t].b = b /\ arg[t].off = o BY <2>1
      <3>2. PICK u \in InUse : Loc(u) = <<b, o>> BY <2>1
      <3> QED BY <1>1, <3>1, <3>2 DEF InUseOK
    <2> QED BY <2>1
  <1>7. Cardinality(A) + Cardinality(R) = Cardinality(held[b])
    <2>1. A \cup R = held[b] BY <1>3, <1>5
    <2> HIDE DEF A, R
    <2>2. Cardinality(A \cup R) = Cardinality(A) + Cardinality(R) - Cardinality(A \cap R) BY <1>4, FS_Union
    <2>3. Cardinality(A \cap R) = 0 BY <1>6, FS_EmptySet
    <2>4. Cardinality(A) \in Nat /\ Cardinality(R) \in Nat BY <1>4, FS_CardinalityType
    <2>5. Cardinality(A \cup R) = Cardinality(held[b]) BY <2>1
    <2>6. ASSUME NEW k \in Nat, NEW m \in Nat, NEW n, NEW j, n = k + m - j, j = 0 PROVE k + m = n BY <2>6
    <2> QED BY <2>2, <2>3, <2>4, <2>5, <2>6
  <1>8. Cardinality(U) = Cardinality(A)
    <2> DEFINE f == [u \in U |-> u.off - u.shift]
    <2>1. ASSUME NEW u \in U PROVE u \in InUse /\ u.off - u.shift \in held[b] /\ Loc(u) = <<b, u.off - u.shift>>
      BY <1>1 DEF InUseOK, Loc
    <2>2. f \in [U -> A] BY <2>1
    <2>3. \A u, v \in U : f[u] = f[v] => u = v
      <3>1. ASSUME NEW u \in U, NEW v \in U, f[u] = f[v] PROVE u = v
        <4>1. Loc(u) = Loc(v) BY <2>1, <3>1
        <4>2. u \in InUse /\ v \in InUse OBVIOUS
        <4> QED BY <1>1, <4>1, <4>2 DEF InUseOK
      <3> QED BY <3>1
    <2>4. \A o \in A : \E u \in U : f[u] = o
      <3>1. ASSUME NEW o \in A PROVE \E u \in U : f[u] = o
        <4>1. PICK u \in InUse : Loc(u) = <<b, o>> OBVIOUS
        <4>2. u.b = b /\ u.off - u.shift = o BY <4>1 DEF Loc
        <4> QED BY <4>2
      <3> QED BY <3>1
    <2> HIDE DEF f, U, A
    <2> QED BY <1>4, <2>2, <2>3, <2>4, CountBy
  <1>9. Cardinality(Returning(b)) = Cardinality(R)
    <2> DEFINE f == [t \in Returning(b) |-> arg[t].off]
    <2>1. ASSUME NEW t \in Returning(b)
          PROVE  t \in Threads /\ t \in Busy /\ Cells[t] = <<b, arg[t].off>> /\ arg[t].off \in held[b] /\ arg[t].off \in R
      <3>1. t \in Threads /\ pc[t] = "free" /\ arg[t].b = b BY DEF Returning
      <3>2. t \in Busy /\ Cells[t] = <<b, arg[t].off>> BY <3>1 DEF Busy, Cells
      <3>3. arg[t].off \in held[b] BY <1>1, <3>1 DEF InUseOK
      <3> QED BY <3>1, <3>2, <3>3
    <2>2. f \in [Returning(b) -> R] BY <2>1
    <2>3. \A s, t \in Returning(b) : f[s] = f[t] => s = t
      <3>1. ASSUME NEW s \in Returning(b), NEW t \in Returning(b), f[s] = f[t] PROVE s = t
        <4>1. Cells[s] = Cells[t] /\ s \in Busy /\ t \in Busy BY <2>1, <3>1
        <4> QED BY <4>1 DEF Claim, Apart
      <3> QED BY <3>1
    <2>4. \A o \in R : \E t \in Returning(b) : f[t] = o BY DEF Returning
    <2> HIDE DEF f, R
    <2> QED BY <1>4, <2>2, <2>3, <2>4, CountBy
  <1> QED BY <1>7, <1>8, <1>9

\* The heaps from which block b can be reached are those it belongs to.
LEMMA HoldersAre ==
    ASSUME NEW own, NEW kown, NEW held, Mem(heap, blk, own, kown, held), NEW b \in Blocks
    PROVE  /\ \A t \in Threads : t \in Holders(b) <=> InHeap(own, kown, t, b)
           /\ \A t \in Heaps : b \in Kept(t) \cup Listed(t, BigList) <=> kown[b] = t \/ own[b] = <<t, BigList>>
  <1>1. Shape(heap, blk, own, kown, Rm(blk)) BY DEF Mem
  <1>2. ShapeTypes(heap, blk, own, kown) /\ Placed(heap, blk, own, kown) BY MemTypes
  <1>3. heap \in HeapsType BY <1>2 DEF ShapeTypes
  <1>4. ASSUME NEW t \in Heaps
        PROVE  /\ t \in Threads /\ heap[t] # NoHeap
               /\ \A l \in Lists : Listed(t, l) = BlocksOn(own, <<t, l>>)
               /\ Kept(t) = KeptBy(kown, t)
    <2>1. t \in Threads BY DEF Heaps
    <2>2. heap[t] # NoHeap BY <1>3, <2>1, HeapsMapped
    <2> QED BY <1>1, <2>1, <2>2, ReachedIs DEF Listed, Kept
  <1>5. ASSUME NEW t \in Heaps PROVE b \in Kept(t) \cup Listed(t, BigList) <=> kown[b] = t \/ own[b] = <<t, BigList>>
    <2>1. Kept(t) = KeptBy(kown, t) /\ Listed(t, BigList) = BlocksOn(own, <<t, BigList>>) BY <1>4 DEF Lists
    <2> QED BY <2>1 DEF KeptBy, BlocksOn
  <1>6. ASSUME NEW t \in Heaps PROVE b \in Kept(t) \cup UNION {Listed(t, l) : l \in Lists} <=> InHeap(own, kown, t, b)
    <2>1. b \in Kept(t) <=> kown[b] = t BY <1>4 DEF KeptBy
    <2>2. b \in UNION {Listed(t, l) : l \in Lists} <=> \E l \in Lists : b \in Listed(t, l) BY Zenon
    <2>3. \A l \in Lists : b \in Listed(t, l) <=> own[b] = <<t, l>> BY <1>4 DEF BlocksOn
    <2>4. (\E l \in Lists : own[b] = <<t, l>>) <=> own[b] # NoList /\ own[b][1] = t
      <3>1. ASSUME NEW l \in Lists, own[b] = <<t, l>> PROVE own[b] # NoList /\ own[b][1] = t
        BY <1>4, <3>1, NullApart DEF NoList
      <3>2. ASSUME own[b] # NoList, own[b][1] = t PROVE \E l \in Lists : own[b] = <<t, l>>
        <4>1. own[b] \in Ids BY <1>2, <3>2 DEF ShapeTypes
        <4>2. own[b] = <<own[b][1], own[b][2]>> /\ own[b][2] \in Lists BY <4>1 DEF Ids
        <4> QED BY <3>2, <4>2
      <3> QED BY <3>1, <3>2
    <2>5. (\E l \in Lists : b \in Listed(t, l)) <=> (\E l \in Lists : own[b] = <<t, l>>) BY <2>3
    <2> QED BY <2>1, <2>2, <2>4, <2>5 DEF InHeap
  <1>7. ASSUME NEW t \in Threads, InHeap(own, kown, t, b) PROVE t \in Heaps
    <2>1. heap[t] # NoHeap BY <1>2, <1>7, NullApart DEF InHeap, Placed
    <2> QED BY <1>3, <2>1, HeapsMapped
  <1>8. ASSUME NEW t \in Threads PROVE t \in Holders(b) <=> InHeap(own, kown, t, b) BY <1>6, <1>7 DEF Holders
  <1> QED BY <1>5, <1>8

\* One heap holds a block that is on a list or kept, and no heap any other.
LEMMA HoldersCount ==
    ASSUME NEW own, NEW kown, NEW held, Mem(heap, blk, own, kown, held), NEW b \in Blocks
    PROVE  /\ own[b] # NoList \/ kown[b] # NULL => Cardinality(Holders(b)) = 1
           /\ own[b] = NoList /\ kown[b] = NULL => Cardinality(Holders(b)) = 0
  <1>1. ShapeTypes(heap, blk, own, kown) /\ Placed(heap, blk, own, kown) BY MemTypes
  <1>2. \A t \in Threads : t \in Holders(b) <=> InHeap(own, kown, t, b) BY HoldersAre
  <1>3. Holders(b) \subseteq Threads BY DEF Holders, Heaps
  <1>4. ASSUME own[b] # NoList PROVE Cardinality(Holders(b)) = 1
    <2>1. own[b] \in Ids BY <1>1, <1>4 DEF ShapeTypes
    <2>2. own[b][1] \in Threads BY <2>1 DEF Ids
    <2>3. kown[b] = NULL BY <1>1, <1>4 DEF Placed
    <2>4. \A t \in Threads : InHeap(own, kown, t, b) <=> t = own[b][1] BY <1>4, <2>3, NullApart DEF InHeap
    <2>5. Holders(b) = {own[b][1]} BY <1>2, <1>3, <2>2, <2>4
    <2> QED BY <2>5, FS_Singleton
  <1>5. ASSUME kown[b] # NULL PROVE Cardinality(Holders(b)) = 1
    <2>1. own[b] = NoList /\ kown[b] \in Threads BY <1>1, <1>5 DEF Placed, ShapeTypes
    <2>2. \A t \in Threads : InHeap(own, kown, t, b) <=> t = kown[b] BY <2>1 DEF InHeap
    <2>3. Holders(b) = {kown[b]} BY <1>2, <1>3, <2>1, <2>2
    <2> QED BY <2>3, FS_Singleton
  <1>6. ASSUME own[b] = NoList, kown[b] = NULL PROVE Cardinality(Holders(b)) = 0
    <2>1. \A t \in Threads : ~InHeap(own, kown, t, b) BY <1>6, NullApart DEF InHeap
    <2>2. Holders(b) = {} BY <1>2, <1>3, <2>1
    <2> QED BY <2>2, FS_EmptySet
  <1> QED BY <1>4, <1>5, <1>6

\* Every chunk of block b is at one place.
LEMMA BlockAccounted ==
    ASSUME NEW own, NEW kown, NEW held, Mem(heap, blk, own, kown, held), Place(own, kown, held),
           NEW b \in Blocks, blk[b] # NoBlk, NEW used, used = Cardinality(held[b])
    PROVE  Accounted(b, used, Holders(b))
  <1>1. BlockOK(blk[b], own[b], kown[b], held[b]) /\ KindOK(blk[b]) BY DEF Mem
  <1>2. Placed(heap, blk, own, kown) BY MemTypes
  <1>3. \A t \in Threads : t \in Holders(b) <=> InHeap(own, kown, t, b) BY HoldersAre
  <1>4. \A t \in Heaps : b \in Kept(t) \cup Listed(t, BigList) <=> kown[b] = t \/ own[b] = <<t, BigList>> BY HoldersAre
  <1>5. /\ own[b] # NoList \/ kown[b] # NULL => Cardinality(Holders(b)) = 1
        /\ own[b] = NoList /\ kown[b] = NULL => Cardinality(Holders(b)) = 0
    BY HoldersCount
  <1>6. IF blk[b].small THEN Cardinality(Holders(b)) = 1 ELSE Cardinality(Holders(b)) + used = 1
    <2>1. CASE blk[b].binndx # BigList
      <3>1. blk[b].small = TRUE BY <1>1, <2>1, Zenon DEF KindOK
      <3>2. own[b] # NoList \/ kown[b] # NULL BY <1>1, <2>1 DEF BlockOK
      <3>3. Cardinality(Holders(b)) = 1 BY <1>5, <3>2
      <3> QED BY <3>1, <3>3, Zenon
    <2>2. CASE blk[b].binndx = BigList
      <3>1. blk[b].small = FALSE BY <1>1, <2>2, Zenon DEF KindOK
      <3>2. kown[b] = NULL BY <1>1, <2>2 DEF BlockOK
      <3>3. CASE own[b] # NoList
        <4>1. held[b] = {} BY <1>1, <2>2, <3>3 DEF BlockOK
        <4>2. used = 0 BY <4>1, FS_EmptySet
        <4>3. Cardinality(Holders(b)) + used = 1 BY <1>5, <3>3, <4>2
        <4> QED BY <3>1, <4>3, Zenon
      <3>4. CASE own[b] = NoList
        <4>1. held[b] = {BlkHdr} BY <1>1, <3>2, <3>4 DEF BlockOK
        <4>2. used = 1 BY <4>1, FS_Singleton
        <4>3. Cardinality(Holders(b)) + used = 1 BY <1>5, <3>2, <3>4, <4>2
        <4> QED BY <3>1, <4>3, Zenon
      <3> QED BY <3>3, <3>4
    <2> QED BY <2>1, <2>2
  <1>7. ASSUME NEW t \in Holders(b)
        PROVE  /\ pc[t] # "unmap" => blk[b].tid = tid[t]
               /\ IF b \in Kept(t) \cup Listed(t, BigList) THEN used = 0
                  ELSE /\ blk[b].restcnt + Freecnt(b) + used = blk[b].cnt
                       /\ Freecnt(b) < blk[b].cnt /\ blk[b].restcnt < blk[b].cnt
    <2>1. t \in Heaps /\ t \in Threads BY DEF Holders, Heaps
    <2>2. InHeap(own, kown, t, b) BY <1>3, <1>7, <2>1
    <2>3. pc[t] # "unmap" => blk[b].tid = tid[t] BY <2>1, <2>2 DEF Place, TidOK, InHeap
    <2>4. ASSUME kown[b] = t \/ own[b] = <<t, BigList>> PROVE used = 0
      <3>1. held[b] = {}
        <4>1. CASE kown[b] = t BY <1>1, <2>1, <4>1, NullApart DEF BlockOK
        <4>2. CASE own[b] = <<t, BigList>>
          <5>1. own[b] # NoList /\ own[b][2] = BigList BY <2>1, <4>2, NullApart DEF NoList
          <5> QED BY <1>1, <5>1 DEF BlockOK
        <4> QED BY <2>4, <4>1, <4>2
      <3> QED BY <3>1, FS_EmptySet
    <2>5. ASSUME ~(kown[b] = t \/ own[b] = <<t, BigList>>)
          PROVE  /\ blk[b].restcnt + Freecnt(b) + used = blk[b].cnt
                 /\ Freecnt(b) < blk[b].cnt /\ blk[b].restcnt < blk[b].cnt
      <3>1. own[b] # NoList /\ own[b][1] = t BY <2>2, <2>5 DEF InHeap
      <3>2. own[b] \in Ids BY <3>1, MemTypes DEF ShapeTypes
      <3>3. own[b] = <<own[b][1], own[b][2]>> BY <3>2 DEF Ids
      <3>4. own[b][2] # BigList BY <2>5, <3>1, <3>3
      <3>5. SmallOK(blk[b], held[b]) BY <1>1, <3>1, <3>4 DEF BlockOK
      <3> QED BY <3>5 DEF SmallOK, Freecnt
    <2> QED BY <1>4, <2>1, <2>3, <2>4, <2>5, Zenon
  <1> QED BY <1>6, <1>7, Zenon DEF Accounted

\* Every chunk of every block is at one place.
LEMMA IInvChunksAccounted == IInv => ChunksAccounted
  <1>1. SUFFICES ASSUME IInv, NEW b \in Blocks, blk[b].mapped
                 PROVE  Accounted(b, Cardinality({u \in InUse : u.b = b}) + Cardinality(Returning(b)), Holders(b))
    BY Zenon DEF ChunksAccounted, Accounted, Holders
  <1>2. PICK own, kown, held : Sound(own, kown, held) BY <1>1 DEF IInv
  <1>3. Mem(heap, blk, own, kown, held) /\ Place(own, kown, held) /\ Claim(live, Busy, Cells, held) /\ Args
    BY <1>1, <1>2 DEF Sound, IInv
  <1>4. blk \in BlksType BY <1>3, MemTypes DEF ShapeTypes
  <1>5. blk[b] # NoBlk BY <1>1, <1>4, BlksMapped
  <1>6. PICK used : used = Cardinality({u \in InUse : u.b = b}) + Cardinality(Returning(b)) OBVIOUS
  <1>7. used = Cardinality(held[b]) BY <1>3, <1>6, UsedIs
  <1>8. Accounted(b, used, Holders(b)) BY <1>3, <1>5, <1>7, BlockAccounted
  <1> QED BY <1>6, <1>8
-----------------------------------------------------------------------------
\* Every variable of the allocator keeps its type: the counters of kept blocks
\* stay within their limits and the table counts no more heaps than it has places.
THEOREM AllocTypes ==
    ASSUME BinsAgree, Clients = {}
    PROVE  Spec => []TypeOK
  BY AllocInvariant, IInvTypeOK, PTL

\* No buffer that malloc, memalign or realloc gave out reaches into another one,
\* into the header of a free chunk or into the free stack of its block.
THEOREM AllocBuffersApart ==
    ASSUME BinsAgree, Clients = {}
    PROVE  Spec => []BuffersApart
  BY AllocInvariant, IInvBuffersApart, PTL

\* The lists of every heap can be walked both ways, share no block, and are as
\* long as blkfreecnt and biglrucnt say.
THEOREM AllocListsSound ==
    ASSUME BinsAgree, Clients = {}
    PROVE  Spec => []ListsSound
  BY AllocInvariant, IInvListsSound, PTL

\* No chunk is lost or given twice: each is in the rest of its block, on the free
\* stack, in use or on its way back, and every mapped block has one place.
THEOREM AllocChunksAccounted ==
    ASSUME BinsAgree, Clients = {}
    PROVE  Spec => []ChunksAccounted
  BY AllocInvariant, IInvChunksAccounted, PTL

\* In a bin no block with room stands behind a full one, so nc_malloc_small, which
\* looks at the first block only, maps a block only when the bin is full.
THEOREM AllocRoomFirst ==
    ASSUME BinsAgree, Clients = {}
    PROVE  Spec => []RoomFirst
  BY AllocInvariant, IInvRoomFirst, PTL

\* No thread meets memory that is not mapped, not even while a thread ends and
\* its heap goes, and __thrcount and __allheaps agree with the heaps there are.
THEOREM AllocNoFault ==
    ASSUME BinsAgree, Clients = {}
    PROVE  Spec => []NoFault
  BY AllocInvariant, IInvNoFault, PTL
=============================================================================
