----------------------------- MODULE PageLemmas -----------------------------
(***************************************************************************)
(* Pages and offsets of addresses, for every page size.                    *)
(***************************************************************************)
EXTENDS KernelMemory, TLAPS

\* An address is a page and an offset.
LEMMA DivMod ==
    ASSUME NEW a \in Int
    PROVE  /\ Page(a) \in Int /\ Offset(a) \in 0 .. PageSize - 1
           /\ a = PageSize * Page(a) + Offset(a)
  BY PageSizeAssumption DEF Page, Offset

\* No two pages and offsets give one address.
LEMMA Unique ==
    ASSUME NEW q \in Int, NEW p \in Int, NEW r \in 0 .. PageSize - 1,
           NEW s \in 0 .. PageSize - 1, PageSize * q + r = PageSize * p + s
    PROVE  q = p /\ r = s
<1>1. PageSize \in Int /\ PageSize > 0
  BY PageSizeAssumption
<1>2. CASE q > p
  <2>1. PageSize * (q - p) >= PageSize
    BY <1>1, <1>2
  <2> QED BY <1>1, <2>1
<1>3. CASE q < p
  <2>1. PageSize * (p - q) >= PageSize
    BY <1>1, <1>3
  <2> QED BY <1>1, <2>1
<1> QED BY <1>1, <1>2, <1>3

\* The addresses up to the end of a page are in the page.
LEMMA SamePage ==
    ASSUME NEW a \in Nat, NEW i \in Nat, i < PageSize - Offset(a)
    PROVE  Page(a + i) = Page(a) /\ Offset(a + i) = Offset(a) + i
<1>1. PageSize \in Int
  BY PageSizeAssumption
<1>2. /\ Page(a) \in Int /\ Offset(a) \in 0 .. PageSize - 1
      /\ a = PageSize * Page(a) + Offset(a)
  BY DivMod
<1>3. /\ Page(a + i) \in Int /\ Offset(a + i) \in 0 .. PageSize - 1
      /\ a + i = PageSize * Page(a + i) + Offset(a + i)
  BY DivMod
<1>4. Offset(a) + i \in 0 .. PageSize - 1
  BY <1>1, <1>2
<1>5. PageSize * Page(a + i) + Offset(a + i) = PageSize * Page(a) + (Offset(a) + i)
  BY <1>1, <1>2, <1>3
<1> QED BY <1>2, <1>3, <1>4, <1>5, Unique

\* After the rest of a page the next one starts.
LEMMA NextPage ==
    ASSUME NEW a \in Nat
    PROVE  Offset(a + (PageSize - Offset(a))) = 0
<1> DEFINE b == a + (PageSize - Offset(a))
<1>1. PageSize \in Int /\ PageSize > 0 /\ 0 \in 0 .. PageSize - 1
  BY PageSizeAssumption
<1>2. /\ Page(a) \in Int /\ Offset(a) \in 0 .. PageSize - 1
      /\ a = PageSize * Page(a) + Offset(a)
  BY DivMod
<1>3. b \in Int
  BY <1>1, <1>2
<1>4. /\ Page(b) \in Int /\ Offset(b) \in 0 .. PageSize - 1
      /\ b = PageSize * Page(b) + Offset(b)
  BY <1>3, DivMod
<1>5. PageSize * Page(b) + Offset(b) = PageSize * (Page(a) + 1) + 0
  <2>1. PageSize * (Page(a) + 1) = PageSize * Page(a) + PageSize
    BY <1>1, <1>2
  <2> QED BY <1>1, <1>2, <1>4, <2>1
<1> HIDE DEF b
<1>6. Offset(b) = 0
  <2> DEFINE q == Page(b)
             r == Offset(b)
             p == Page(a) + 1
  <2>1. q \in Int /\ p \in Int /\ r \in 0 .. PageSize - 1 /\ 0 \in 0 .. PageSize - 1
    BY <1>1, <1>2, <1>4
  <2>2. PageSize * q + r = PageSize * p + 0
    BY <1>5
  <2> HIDE DEF q, r, p
  <2>3. \A m \in Int, n \in Int : \A u \in 0 .. PageSize - 1, v \in 0 .. PageSize - 1 :
           PageSize * m + u = PageSize * n + v => m = n /\ u = v
    BY Unique
  <2>4. r = 0
    BY ONLY <2>1, <2>2, <2>3, SMT
  <2> QED BY <2>4 DEF r
<1> QED BY <1>6 DEF b

\* An address between two that are at most a page apart is in the page of one
\* of them.
LEMMA BetweenPages ==
    ASSUME NEW a \in Int, NEW b \in Int, NEW c \in Int,
           a <= b, b <= c, c - a <= PageSize
    PROVE  Page(b) = Page(a) \/ Page(b) = Page(c)
<1>1. PageSize \in Int /\ PageSize > 0
  BY PageSizeAssumption
<1>2. /\ Page(a) \in Int /\ Offset(a) \in 0 .. PageSize - 1
      /\ a = PageSize * Page(a) + Offset(a)
  BY DivMod
<1>3. /\ Page(b) \in Int /\ Offset(b) \in 0 .. PageSize - 1
      /\ b = PageSize * Page(b) + Offset(b)
  BY DivMod
<1>4. /\ Page(c) \in Int /\ Offset(c) \in 0 .. PageSize - 1
      /\ c = PageSize * Page(c) + Offset(c)
  BY DivMod
<1>5. ASSUME NEW q \in Int, NEW p \in Int, NEW r \in 0 .. PageSize - 1,
             NEW s \in 0 .. PageSize - 1, PageSize * q + r <= PageSize * p + s
      PROVE  q <= p
  <2>1. CASE q > p
    <3>1. PageSize * (q - p) >= PageSize
      BY <1>1, <2>1
    <3> QED BY <1>1, <1>5, <3>1
  <2> QED BY <2>1
<1> DEFINE pa == Page(a)
           pb == Page(b)
           pc == Page(c)
<1>6. pa <= pb /\ pb <= pc
  <2>1. PageSize * pa + Offset(a) <= PageSize * pb + Offset(b)
    BY <1>2, <1>3
  <2>2. PageSize * pb + Offset(b) <= PageSize * pc + Offset(c)
    BY <1>3, <1>4
  <2> QED BY <1>2, <1>3, <1>4, <1>5, <2>1, <2>2
<1>7. pc <= pa + 1
  <2>1. PageSize * pc + Offset(c) <= PageSize * (pa + 1) + Offset(a)
    BY <1>1, <1>2, <1>4
  <2>2. pa + 1 \in Int /\ pc \in Int
    BY <1>2, <1>4
  <2> HIDE DEF pa, pc
  <2> QED BY <1>2, <1>4, <1>5, <2>1, <2>2
<1> QED BY <1>2, <1>3, <1>4, <1>6, <1>7

\* A page table with natural numbers.
PageTable(pmap) == \A p \in DOMAIN pmap : p \in Nat /\ pmap[p] \in Nat

\* Whether an address is mapped is a matter of its page.
LEMMA MappedByPage ==
    ASSUME NEW pmap, PageTable(pmap), NEW a \in Int, NEW b \in Int,
           Page(a) = Page(b), IsMapped(pmap, a)
    PROVE  IsMapped(pmap, b)
<1> DEFINE f == FindPhys(pmap, b)
<1>1. FindPhys(pmap, a) = f
  BY DEF FindPhys
<1>2. f \in Nat
  BY DEF FindPhys, PageTable
<1>3. f # 0
  BY <1>1 DEF IsMapped, FltVirtToPhys
<1>4. FltVirtToPhys(pmap, b) = f * PageSize + Offset(b)
  BY <1>3 DEF FltVirtToPhys
<1>5. Offset(b) \in Nat /\ PageSize \in Nat /\ PageSize > 0
  BY DivMod, PageSizeAssumption
<1> HIDE DEF f
<1>6. f * PageSize > 0
  BY <1>2, <1>3, <1>5
<1>7. f * PageSize \in Int
  BY <1>2, <1>5
<1> QED BY <1>4, <1>5, <1>6, <1>7 DEF IsMapped

\* What lies between mapped addresses that are at most a page apart is mapped.
LEMMA MappedBetween ==
    ASSUME NEW pmap, PageTable(pmap), NEW a \in Int, NEW c \in Int,
           c - a <= PageSize, IsMapped(pmap, a), IsMapped(pmap, c),
           NEW b \in a .. c
    PROVE  IsMapped(pmap, b)
  BY BetweenPages, MappedByPage
=============================================================================
