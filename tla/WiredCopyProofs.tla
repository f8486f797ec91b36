-------------------------- MODULE WiredCopyProofs --------------------------
(***************************************************************************)
(* The copy loop is right for every page size, page table and request.     *)
(***************************************************************************)
EXTENDS WiredCopy, PageLemmas

(* Addresses and their mappings.                                           *)

\* A physical address is a natural number with the offset of the virtual one.
LEMMA Physical ==
    ASSUME NEW r, Legal(r), NEW a \in Nat
    PROVE  /\ At(r, a) \in Nat
           /\ At(r, a) # 0 => Offset(At(r, a)) = Offset(a)
<1> DEFINE f == FindPhys(r.pmap, a)
<1>1. f \in Nat
  BY DEF Legal, FindPhys
<1>2. Offset(a) \in 0 .. PageSize - 1 /\ PageSize \in Nat
  BY DivMod, PageSizeAssumption
<1>3. f * PageSize + Offset(a) \in Nat
  BY <1>1, <1>2
<1>4. At(r, a) \in Nat
  BY <1>3 DEF At, FltVirtToPhys
<1>5. ASSUME At(r, a) # 0 PROVE Offset(At(r, a)) = Offset(a)
  <2>1. At(r, a) = f * PageSize + Offset(a)
    BY <1>5 DEF At, FltVirtToPhys
  <2> DEFINE p == At(r, a)
  <2>2. /\ Page(p) \in Int /\ Offset(p) \in 0 .. PageSize - 1
        /\ p = PageSize * Page(p) + Offset(p)
    BY <1>4, DivMod
  <2>3. PageSize * f + Offset(a) = PageSize * Page(p) + Offset(p)
    BY <1>1, <1>2, <2>1, <2>2
  <2> HIDE DEF f, p
  <2>4. f = Page(p) /\ Offset(a) = Offset(p)
    <3>1. f \in Int /\ Page(p) \in Int
      BY <1>1, <2>2
    <3>2. PageSize * f + Offset(a) = PageSize * Page(p) + Offset(p)
      BY <2>3
    <3>3. Offset(a) \in 0 .. PageSize - 1 /\ Offset(p) \in 0 .. PageSize - 1
      BY <1>2, <2>2
    <3>4. \A q \in Int, o \in Int : \A u \in 0 .. PageSize - 1, v \in 0 .. PageSize - 1 :
             PageSize * q + u = PageSize * o + v => q = o /\ u = v
      BY Unique
    <3> QED BY ONLY <3>1, <3>2, <3>3, <3>4, SMT
  <2> QED BY <2>4 DEF p
<1> QED BY <1>4, <1>5

\* The bytes up to the end of a page are mapped next to each other.
LEMMA Contiguous ==
    ASSUME NEW r, Legal(r), NEW a \in Nat, At(r, a) # 0,
           NEW i \in Nat, i < Left(At(r, a))
    PROVE  At(r, a + i) = At(r, a) + i /\ At(r, a + i) # 0
<1>1. i < PageSize - Offset(a)
  BY Physical DEF Left
<1>2. Page(a + i) = Page(a) /\ Offset(a + i) = Offset(a) + i
  BY <1>1, SamePage
<1>3. FindPhys(r.pmap, a + i) = FindPhys(r.pmap, a)
  BY <1>2 DEF FindPhys
<1>4. FindPhys(r.pmap, a) \in Nat /\ FindPhys(r.pmap, a) # 0
  BY DEF At, FltVirtToPhys, FindPhys, Legal
<1>5. PageSize \in Nat /\ Offset(a) \in 0 .. PageSize - 1
  BY DivMod, PageSizeAssumption
<1>6. /\ At(r, a) = FindPhys(r.pmap, a) * PageSize + Offset(a)
      /\ At(r, a + i) = FindPhys(r.pmap, a) * PageSize + (Offset(a) + i)
  BY <1>2, <1>3, <1>4 DEF At, FltVirtToPhys
<1> DEFINE m == FindPhys(r.pmap, a) * PageSize
<1>7. m \in Nat
  BY <1>4, <1>5
<1> HIDE DEF m
<1>8. At(r, a) = m + Offset(a) /\ At(r, a + i) = m + (Offset(a) + i)
  BY <1>6 DEF m
<1>9. At(r, a) \in Nat
  BY Physical
<1> QED BY <1>5, <1>7, <1>8, <1>9

-----------------------------------------------------------------------------
(* The loop invariant.                                                     *)

\* Where the loop is, and what is left.
Progress ==
    /\ resid \in 0 .. req.len
    /\ curSrc = req.src + Done /\ curDst = req.dst + Done
    /\ pc = "done" => /\ bytes = Done
                      /\ resid # 0 => At(req, curDst) = 0 \/ At(req, curSrc) = 0

IInv == TypeOK /\ Progress /\ CopiesAPrefix

\* What a chunk is: at least one byte, none beyond the pages or the request.
LEMMA ChunkFits ==
    ASSUME TypeOK, Progress, CanCopy
    PROVE  /\ Count \in 1 .. resid
           /\ Count <= Left(At(req, curSrc)) /\ Count <= Left(At(req, curDst))
           /\ curSrc \in Nat /\ curDst \in Nat
<1>1. Legal(req)
  BY RequestsAssumption DEF TypeOK
<1>2. curSrc \in Nat /\ curDst \in Nat /\ req.len \in Nat
  BY <1>1 DEF TypeOK, Legal
<1>3. /\ Left(At(req, curSrc)) \in 1 .. PageSize
      /\ Left(At(req, curDst)) \in 1 .. PageSize /\ PageSize \in Nat
  <2>1. At(req, curSrc) \in Nat /\ At(req, curDst) \in Nat
    BY <1>1, <1>2, Physical
  <2>2. /\ Offset(At(req, curSrc)) \in 0 .. PageSize - 1
        /\ Offset(At(req, curDst)) \in 0 .. PageSize - 1
    BY <2>1, DivMod
  <2> QED BY <2>2, PageSizeAssumption DEF Left
<1>4. resid \in Nat /\ resid # 0
  BY <1>2 DEF TypeOK, CanCopy
<1> QED BY <1>2, <1>3, <1>4 DEF Count, Least

LEMMA InitHolds == Init => IInv
<1> SUFFICES ASSUME Init PROVE IInv
  OBVIOUS
<1>1. Legal(req)
  BY RequestsAssumption DEF Init
<1>2. req.src \in Nat /\ req.dst \in Nat /\ req.len \in Nat
  BY <1>1 DEF Legal
<1>3. Done = 0
  BY <1>2 DEF Init, Done
<1>4. TypeOK
  BY <1>2, PhysAssumption DEF Init, TypeOK
<1>5. Progress
  BY <1>2, <1>3 DEF Init, Progress
<1>6. CopiesAPrefix
  BY <1>3 DEF Init, CopiesAPrefix
<1> QED BY <1>4, <1>5, <1>6 DEF IInv

LEMMA ChunkKeeps == IInv /\ CopyChunk => IInv'
<1> SUFFICES ASSUME IInv, CopyChunk PROVE IInv'
  OBVIOUS
<1> USE DEF IInv
<1>1. Legal(req) /\ req' = req
  BY RequestsAssumption DEF TypeOK, CopyChunk
<1>2. /\ req.src \in Nat /\ req.dst \in Nat /\ req.len \in Nat
      /\ resid \in 0 .. req.len
  BY <1>1 DEF Legal, TypeOK
<1>3. /\ Count \in 1 .. resid
      /\ Count <= Left(At(req, curSrc)) /\ Count <= Left(At(req, curDst))
      /\ curSrc \in Nat /\ curDst \in Nat
  BY ChunkFits DEF CopyChunk
<1> DEFINE n == Count
           d == Done
           s == At(req, curSrc)
           t == At(req, curDst)
<1>4. /\ d \in Nat /\ n \in Nat /\ n # 0 /\ d + n <= req.len
      /\ Done' = d + n
      /\ curSrc = req.src + d /\ curDst = req.dst + d
      /\ curSrc' = curSrc + n /\ curDst' = curDst + n /\ resid' = resid - n
  <2>1. curSrc' = curSrc + n /\ curDst' = curDst + n /\ resid' = resid - n
    BY DEF CopyChunk
  <2>2. curSrc = req.src + d /\ curDst = req.dst + d
    BY DEF Progress
  <2>3. d = req.len - resid /\ Done' = req.len - resid'
    BY <1>1 DEF Done
  <2> HIDE DEF n, d
  <2>4. n \in 1 .. resid
    BY <1>3 DEF n
  <2> QED BY <1>2, <2>1, <2>2, <2>3, <2>4
<1>5. mem' = Copied(s, t, n) /\ old' = old /\ bytes' = bytes /\ pc' = pc /\ pc = "copy"
  BY DEF CopyChunk
<1>6. s \in Nat /\ t \in Nat /\ s # 0 /\ t # 0
  BY <1>1, <1>3, Physical DEF CopyChunk, CanCopy
<1>7. ASSUME NEW i \in 0 .. n - 1
      PROVE  /\ At(req, req.src + (d + i)) = s + i /\ At(req, req.src + (d + i)) # 0
             /\ At(req, req.dst + (d + i)) = t + i /\ At(req, req.dst + (d + i)) # 0
  <2>1. i \in Nat /\ i < Left(s) /\ i < Left(t)
    <3>1. /\ Left(s) \in Int /\ Left(t) \in Int
      <4>1. Offset(s) \in Int /\ Offset(t) \in Int /\ PageSize \in Int
        BY <1>6, DivMod, PageSizeAssumption
      <4> QED BY <4>1 DEF Left
    <3> QED BY <1>3, <1>4, <3>1
  <2>2. At(req, curSrc + i) = s + i /\ At(req, curSrc + i) # 0
    BY <1>1, <1>3, <1>6, <2>1, Contiguous
  <2>3. At(req, curDst + i) = t + i /\ At(req, curDst + i) # 0
    BY <1>1, <1>3, <1>6, <2>1, Contiguous
  <2>4. curSrc + i = req.src + (d + i) /\ curDst + i = req.dst + (d + i)
    BY <1>2, <1>4
  <2> QED BY <2>2, <2>3, <2>4
<1> HIDE DEF n, d, s, t
<1>8. ASSUME NEW i \in 0 .. n - 1
      PROVE  /\ d + i \in 0 .. req.len - 1
             /\ s + i \in Phys /\ t + i \in Phys
  <2>1. d + i \in 0 .. req.len - 1
    BY <1>2, <1>4
  <2> QED BY <1>1, <1>7, <2>1 DEF Legal
<1>9. mem \in [Phys -> Bytes] /\ old \in [Phys -> Bytes]
  BY DEF TypeOK
<1>10. /\ \A i \in 0 .. n - 1 : mem'[t + i] = mem[s + i]
       /\ \A a \in Phys : (\A i \in 0 .. n - 1 : a # t + i) => mem'[a] = mem[a]
       /\ mem' \in [Phys -> Bytes]
  <2>1. ASSUME NEW i \in 0 .. n - 1 PROVE mem'[t + i] = mem[s + i]
    <3>1. t + i \in t .. t + n - 1 /\ s + ((t + i) - t) = s + i
      BY <1>4, <1>6
    <3> QED BY <1>5, <1>8, <3>1 DEF Copied
  <2>2. ASSUME NEW a \in Phys, a \in t .. t + n - 1
        PROVE  a - t \in 0 .. n - 1 /\ a = t + (a - t)
    BY <1>4, <1>6, <2>2, PhysAssumption
  <2>3. ASSUME NEW a \in Phys, \A i \in 0 .. n - 1 : a # t + i PROVE mem'[a] = mem[a]
    <3>1. a \notin t .. t + n - 1
      BY <2>2, <2>3
    <3> QED BY <1>5, <3>1 DEF Copied
  <2>4. ASSUME NEW a \in Phys PROVE mem'[a] \in Bytes
    <3>1. CASE a \in t .. t + n - 1
      <4>1. a - t \in 0 .. n - 1 /\ a = t + (a - t)
        BY <2>2, <3>1
      <4> QED BY <1>8, <1>9, <2>1, <4>1
    <3>2. CASE a \notin t .. t + n - 1
      BY <1>5, <1>9, <3>2 DEF Copied
    <3> QED BY <3>1, <3>2
  <2>5. mem' \in [Phys -> Bytes]
    BY <1>5, <2>4 DEF Copied
  <2> QED BY <2>1, <2>3, <2>5
<1>11. TypeOK'
  BY <1>1, <1>2, <1>3, <1>4, <1>5, <1>9, <1>10 DEF TypeOK, n
<1>12. Progress'
  BY <1>1, <1>2, <1>3, <1>4, <1>5 DEF Progress, n
<1>13. CopiesAPrefix'
  <2>1. ASSUME NEW j \in 0 .. d + n - 1
        PROVE  /\ At(req, req.src + j) # 0 /\ At(req, req.dst + j) # 0
               /\ mem'[At(req, req.dst + j)] = old[At(req, req.src + j)]
    <3>1. CASE j < d
      <4>1. j \in 0 .. d - 1 /\ j \in 0 .. req.len - 1
        BY <1>2, <1>4, <3>1
      <4>2. /\ At(req, req.src + j) # 0 /\ At(req, req.dst + j) # 0
            /\ mem[At(req, req.dst + j)] = old[At(req, req.src + j)]
        BY <4>1 DEF CopiesAPrefix, d
      <4>3. ASSUME NEW i \in 0 .. n - 1 PROVE At(req, req.dst + j) # t + i
        <5>1. d + i \in 0 .. req.len - 1 /\ d + i # j
          BY <1>4, <1>8, <3>1
        <5> QED BY <1>1, <1>7, <4>1, <5>1 DEF Legal
      <4>4. At(req, req.dst + j) \in Phys
        BY <1>1, <4>1, <4>2 DEF Legal
      <4> QED BY <1>10, <4>2, <4>3, <4>4
    <3>2. CASE ~(j < d)
      <4> DEFINE i == j - d
      <4>1. i \in 0 .. n - 1 /\ j = d + i
        BY <1>4, <3>2
      <4> HIDE DEF i
      <4>2. /\ At(req, req.src + j) = s + i /\ At(req, req.src + j) # 0
            /\ At(req, req.dst + j) = t + i /\ At(req, req.dst + j) # 0
        BY <1>7, <4>1
      <4>3. mem[s + i] = old[s + i]
        <5>1. ASSUME NEW k \in 0 .. d - 1 PROVE s + i # At(req, req.dst + k)
          <6>1. k \in 0 .. req.len - 1 /\ j \in 0 .. req.len - 1
            BY <1>2, <1>4
          <6>2. At(req, req.dst + k) # 0
            BY <5>1 DEF CopiesAPrefix, d
          <6>3. At(req, req.src + j) # At(req, req.dst + k)
            BY <1>1, <6>1, <6>2 DEF Legal
          <6> QED BY <4>2, <6>3
        <5> QED BY <1>8, <4>1, <5>1 DEF CopiesAPrefix, d
      <4> QED BY <1>10, <4>1, <4>2, <4>3
    <3> QED BY <3>1, <3>2
  <2>2. ASSUME NEW a \in Phys, \A j \in 0 .. d + n - 1 : a # At(req, req.dst + j)
        PROVE  mem'[a] = old[a]
    <3>1. ASSUME NEW i \in 0 .. n - 1 PROVE a # t + i
      <4>1. d + i \in 0 .. d + n - 1
        BY <1>4
      <4> QED BY <1>7, <2>2, <4>1
    <3>2. ASSUME NEW j \in 0 .. d - 1 PROVE a # At(req, req.dst + j)
      <4>1. j \in 0 .. d + n - 1
        BY <1>4
      <4> QED BY <2>2, <4>1
    <3>3. mem[a] = old[a]
      BY <3>2 DEF CopiesAPrefix, d
    <3> QED BY <1>10, <3>1, <3>3
  <2> QED BY <1>1, <1>4, <1>5, <2>1, <2>2 DEF CopiesAPrefix
<1> QED BY <1>11, <1>12, <1>13

LEMMA ReturnKeeps == IInv /\ Return => IInv'
<1> SUFFICES ASSUME IInv, Return PROVE IInv'
  OBVIOUS
<1>1. req.len \in Nat /\ resid \in 0 .. req.len
  BY RequestsAssumption DEF IInv, TypeOK, Legal
<1>2. TypeOK'
  BY <1>1 DEF IInv, TypeOK, Return
<1>3. Progress'
  BY <1>1 DEF IInv, Progress, Return, Done, CanCopy
<1>4. CopiesAPrefix'
  BY DEF IInv, CopiesAPrefix, Return, Done
<1> QED BY <1>2, <1>3, <1>4 DEF IInv

LEMMA Invariance == Spec => []IInv
<1>1. Init => IInv
  BY InitHolds
<1>2. IInv /\ [Next]_vars => IInv'
  <2>1. ASSUME IInv, UNCHANGED vars PROVE IInv'
    BY <2>1 DEF IInv, TypeOK, Progress, CopiesAPrefix, Done, vars
  <2> QED BY <2>1, ChunkKeeps, ReturnKeeps DEF Next
<1> QED BY <1>1, <1>2, PTL DEF Spec

\* VmPmap.cpp: what is left to copy never goes below zero, and no byte outside
\* the destination is written, whatever chunks the pages cut the copy into.
THEOREM CopyTypes == Spec => []TypeOK
<1>1. IInv => TypeOK
  BY DEF IInv
<1> QED BY <1>1, Invariance, PTL

\* The copy loop of FltWriteWiredSrcToWiredDst writes a prefix of the source
\* and nothing else, for every page size and page table.
THEOREM PrefixCopied == Spec => []CopiesAPrefix
<1>1. IInv => CopiesAPrefix
  BY DEF IInv
<1> QED BY <1>1, Invariance, PTL

\* Its result is the length of that prefix, and short only at a byte that is
\* not mapped.
THEOREM ResultExact == Spec => []ShortOnlyIfUnmapped
<1>1. IInv => ShortOnlyIfUnmapped
  <2> SUFFICES ASSUME IInv PROVE ShortOnlyIfUnmapped
    OBVIOUS
  <2>1. req.len \in Nat /\ resid \in 0 .. req.len
    BY RequestsAssumption DEF IInv, TypeOK, Legal
  <2> QED BY <2>1 DEF IInv, Progress, ShortOnlyIfUnmapped, Done
<1> QED BY <1>1, Invariance, PTL

\* A word that lies in one page is written at once, for every page size and
\* word length: the hooks rest on this when they write a slot that the kernel
\* may jump through meanwhile.
THEOREM WordsAreWrittenAtOnce == Spec => []WordAtOnce
<1>1. Init => WordAtOnce
  <2> SUFFICES ASSUME Init PROVE WordAtOnce
    OBVIOUS
  <2>1. req.len \in Nat
    BY RequestsAssumption DEF Init, Legal
  <2> QED BY <2>1 DEF Init, WordAtOnce, Done
<1>2. IInv /\ WordAtOnce /\ [Next]_vars => WordAtOnce'
  <2> SUFFICES ASSUME IInv, WordAtOnce, [Next]_vars, req' = req,
                      InOnePage(req.src), InOnePage(req.dst)
               PROVE  Done' \in {0, req.len}
    BY DEF WordAtOnce, InOnePage, Next, CopyChunk, Return, vars
  <2>1. Legal(req) /\ req.len \in Nat /\ resid \in 0 .. req.len
    BY RequestsAssumption DEF IInv, TypeOK, Legal
  <2>2. CASE CopyChunk
    <3>1. Done = 0 /\ resid = req.len
      BY <2>1, <2>2 DEF WordAtOnce, Done, CopyChunk, CanCopy
    <3>2. curSrc = req.src /\ curDst = req.dst /\ req.src \in Nat /\ req.dst \in Nat
      BY <2>1, <3>1 DEF IInv, Progress, Legal
    <3>3. /\ Left(At(req, curSrc)) = PageSize - Offset(req.src)
          /\ Left(At(req, curDst)) = PageSize - Offset(req.dst)
      BY <2>1, <2>2, <3>2, Physical DEF Left, CopyChunk, CanCopy
    <3>4. Count = req.len
      <4>1. PageSize \in Nat /\ Offset(req.src) \in Nat /\ Offset(req.dst) \in Nat
        BY <3>2, DivMod, PageSizeAssumption
      <4> QED BY <2>1, <3>1, <3>3, <4>1 DEF Count, Least, InOnePage
    <3> QED BY <2>1, <2>2, <3>1, <3>4 DEF CopyChunk, Done
  <2>3. CASE Return
    BY <2>1, <2>3 DEF Return, WordAtOnce, Done
  <2>4. CASE UNCHANGED vars
    BY <2>4 DEF vars, WordAtOnce, Done
  <2> QED BY <2>2, <2>3, <2>4 DEF Next
<1> QED BY <1>1, <1>2, Invariance, PTL DEF Spec

\* The loop of FltWriteWiredSrcToWiredDst gets on in every turn and stops at
\* the end of a page only, for every page size and request.
THEOREM CopyIsBounded == Spec => ChunksAreLong
<1>1. IInv /\ [Next]_vars =>
        [ pc' = "copy" =>
            /\ resid' < resid
            /\ resid' = 0 \/ Offset(curSrc') = 0 \/ Offset(curDst') = 0 ]_vars
  <2> SUFFICES ASSUME IInv, Next, pc' = "copy"
               PROVE  /\ resid' < resid
                      /\ resid' = 0 \/ Offset(curSrc') = 0 \/ Offset(curDst') = 0
    OBVIOUS
  <2>1. CopyChunk
    BY DEF Next, Return
  <2>2. /\ Count \in 1 .. resid /\ curSrc \in Nat /\ curDst \in Nat
        /\ resid' = resid - Count /\ curSrc' = curSrc + Count /\ curDst' = curDst + Count
    BY <2>1, ChunkFits DEF IInv, CopyChunk
  <2>3. resid \in Nat
    BY RequestsAssumption DEF IInv, TypeOK, Legal
  <2>4. Legal(req)
    BY RequestsAssumption DEF IInv, TypeOK
  <2>5. /\ Left(At(req, curSrc)) = PageSize - Offset(curSrc)
        /\ Left(At(req, curDst)) = PageSize - Offset(curDst)
    BY <2>1, <2>2, <2>4, Physical DEF Left, CopyChunk, CanCopy
  <2>6. Count \in {PageSize - Offset(curSrc), PageSize - Offset(curDst), resid}
    BY <2>5 DEF Count, Least
  <2>7. CASE Count = resid
    BY <2>2, <2>3, <2>7
  <2>8. CASE Count = PageSize - Offset(curSrc)
    BY <2>2, <2>3, <2>8, NextPage
  <2>9. CASE Count = PageSize - Offset(curDst)
    BY <2>2, <2>3, <2>9, NextPage
  <2> QED BY <2>6, <2>7, <2>8, <2>9
<1> QED BY <1>1, Invariance, PTL DEF Spec, ChunksAreLong
=============================================================================
