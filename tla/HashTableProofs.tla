-------------------------- MODULE HashTableProofs --------------------------
(***************************************************************************)
(* The hash table is in order after every step: its pointers, its          *)
(* counters, the memory it holds and an iteration over it.  The proof goes *)
(* from one list (what each relinking does to the cells of a list), over   *)
(* one table (buckets, list by age and counters), to the calls.  The last  *)
(* part shows that the table is a dictionary: what each call does to the   *)
(* entries and to their order, and that a rehash copies both.              *)
(***************************************************************************)
EXTENDS HashTableRefinement, FiniteSetTheorems, TLAPS

(* Lists: a walk meets every cell, and the pointers agree both ways.       *)

\* The values of a pointer, and pointers of all cells.
CellOrNone == Cells \cup {NoCell}
Pointers == [Cells -> CellOrNone]

\* X are the cells of the list l, all of them met by a walk.
IsList(l, X) ==
    /\ X \subseteq Cells
    /\ l.nxt \in Pointers /\ l.prv \in Pointers
    /\ Paired(l, X) /\ Connected(l, X)

\* Outside X the pointers of l and m are the same.
SameOutside(l, m, X) ==
    \A c \in Cells \ X : m.nxt[c] = l.nxt[c] /\ m.prv[c] = l.prv[c]

\* What the pointers of a list say of each other.
Links(l, X) ==
    /\ X \subseteq Cells /\ NoCell \notin Cells
    /\ l.nxt \in Pointers /\ l.prv \in Pointers
    /\ l.first \in X \cup {NoCell}
    /\ l.first # NoCell => l.prv[l.first] = NoCell
    /\ \A c \in X : /\ l.nxt[c] \in X \cup {NoCell}
                    /\ l.prv[c] \in X \cup {NoCell}
                    /\ l.nxt[c] # NoCell => l.prv[l.nxt[c]] = c
                    /\ l.prv[c] # NoCell => l.nxt[l.prv[c]] = c
                    /\ l.prv[c] = NoCell => c = l.first

\* A list gives what its pointers say of each other.
LEMMA ListLinks ==
    ASSUME NEW l, NEW X, IsList(l, X)
    PROVE  Links(l, X)
  BY CellsAssumption DEF Links, IsList, Paired, ClosedFrom

\* A set of cells that is closed is the whole list.
LEMMA ClosedIsAll ==
    ASSUME NEW l, NEW X, IsList(l, X), NEW S, S \subseteq X,
           l.first \in S \cup {NoCell},
           \A c \in S : l.nxt[c] \in S \cup {NoCell}
    PROVE  S = X
  BY DEF IsList, Connected, ClosedFrom

\* A list without a first cell has none.
LEMMA NoFirst ==
    ASSUME NEW l, NEW X, IsList(l, X), l.first = NoCell
    PROVE  X = {}
<1>1. ClosedFrom(l.first, l.nxt, {})
  BY DEF ClosedFrom
<1> QED BY <1>1 DEF IsList, Connected

\* What is to be shown of a list.
LEMMA ListIntro ==
    ASSUME NEW l, NEW X, Links(l, X),
           \A S \in SUBSET X :
              /\ l.first \in S \cup {NoCell}
              /\ \A c \in S : l.nxt[c] \in S \cup {NoCell}
              => S = X
    PROVE  IsList(l, X)
<1>1. Paired(l, X)
  BY DEF Paired, ClosedFrom, Links
<1>2. Connected(l, X)
  BY DEF Connected, ClosedFrom
<1> QED
  BY <1>1, <1>2 DEF IsList, Links

\* A walk meets the cells of the list and no others.
LEMMA ReachIsList ==
    ASSUME NEW l, NEW X, NEW U, IsList(l, X), X \subseteq U
    PROVE  Reach(l.first, l.nxt, U) = X
<1>1. ClosedFrom(l.first, l.nxt, X)
  BY DEF IsList, Paired
<1>2. ASSUME NEW S \in SUBSET U, ClosedFrom(l.first, l.nxt, S)
      PROVE  X \subseteq S
  <2>1. ClosedFrom(l.first, l.nxt, S \cap X)
    BY <1>1, <1>2 DEF ClosedFrom
  <2>2. S \cap X = X
    BY <2>1 DEF IsList, Connected
  <2> QED BY <2>2
<1> QED BY <1>1, <1>2 DEF Reach

\* What a walk meets, where that is closed, is connected.
LEMMA ReachConnected ==
    ASSUME NEW l, NEW U,
           ClosedFrom(l.first, l.nxt, Reach(l.first, l.nxt, U))
    PROVE  Connected(l, Reach(l.first, l.nxt, U))
  BY DEF Connected, Reach

\* No cells of a list form a ring.
LEMMA NoRing ==
    ASSUME NEW l, NEW X, IsList(l, X), NEW S \in SUBSET X,
           \A c \in S : l.prv[c] \in S
    PROVE  S = {}
<1>1. Links(l, X)
  BY ListLinks
<1>2. l.first \in (X \ S) \cup {NoCell}
  BY <1>1 DEF Links
<1>3. ASSUME NEW c \in X \ S PROVE l.nxt[c] \in (X \ S) \cup {NoCell}
  BY <1>1 DEF Links
<1>4. X \ S = X
  <2>1. X \ S \subseteq X
    OBVIOUS
  <2> QED BY <1>2, <1>3, <2>1, ClosedIsAll
<1> QED BY <1>4

\* No cell of a list follows itself,
LEMMA NoLoop ==
    ASSUME NEW l, NEW X, IsList(l, X), NEW p \in X
    PROVE  l.nxt[p] # p /\ l.prv[p] # p
<1>1. Links(l, X)
  BY ListLinks
<1>2. l.prv[p] # p
  <2>1. ASSUME l.prv[p] = p PROVE FALSE
    <3>1. {p} \in SUBSET X /\ \A c \in {p} : l.prv[c] \in {p}
      BY <2>1
    <3>2. {p} = {}
      BY <3>1, NoRing
    <3> QED BY <3>2
  <2> QED BY <2>1
<1>3. l.nxt[p] = p => l.prv[p] = p
  BY <1>1 DEF Links
<1> QED BY <1>2, <1>3

\* nor the second cell after it, nor the third.
LEMMA NoShortRing ==
    ASSUME NEW l, NEW X, IsList(l, X), NEW p \in X, l.prv[p] # NoCell
    PROVE  LET x == l.prv[p] IN l.prv[x] # p /\ l.nxt[p] # x
                                /\ (l.prv[x] # NoCell => l.nxt[p] # l.prv[x])
<1> DEFINE x == l.prv[p]
           a == l.prv[x]
           b == l.nxt[p]
<1>1. Links(l, X)
  BY ListLinks
<1>2. x \in X /\ a \in X \cup {NoCell} /\ b \in X \cup {NoCell}
  BY <1>1 DEF Links
<1>3. a # p
  <2>1. ASSUME a = p PROVE FALSE
    <3>1. {p, x} \in SUBSET X /\ \A c \in {p, x} : l.prv[c] \in {p, x}
      BY <2>1, <1>2
    <3>2. {p, x} = {}
      BY <3>1, NoRing
    <3> QED BY <3>2
  <2> QED BY <2>1
<1>4. b = x => a = p
  BY <1>1, <1>2 DEF Links
<1>5. a # NoCell => b # a
  <2>1. ASSUME a # NoCell, b = a PROVE FALSE
    <3>1. l.prv[a] = p
      BY <2>1, <1>1, <1>2 DEF Links
    <3>2. {p, x, a} \in SUBSET X /\ \A c \in {p, x, a} : l.prv[c] \in {p, x, a}
      BY <2>1, <3>1, <1>2
    <3>3. {p, x, a} = {}
      BY <3>2, NoRing
    <3> QED BY <3>3
  <2> QED BY <2>1
<1> QED BY <1>3, <1>4, <1>5

\* Cells that are not on a list do not matter for it.
LEMMA ListKept ==
    ASSUME NEW l, NEW m, NEW X, IsList(l, X),
           m.nxt \in Pointers, m.prv \in Pointers, m.first = l.first,
           \A c \in X : m.nxt[c] = l.nxt[c] /\ m.prv[c] = l.prv[c]
    PROVE  IsList(m, X)
<1>1. Links(m, X)
  BY ListLinks DEF Links
<1>2. Connected(m, X)
  BY DEF IsList, Connected, ClosedFrom
<1> QED
  BY <1>1, <1>2, ListIntro DEF Connected, ClosedFrom

\* ght_insert, at the front of a bucket.
LEMMA PushFrontList ==
    ASSUME NEW l, NEW X, IsList(l, X), NEW c \in Cells, c \notin X
    PROVE  /\ IsList(PushFront(l, c), X \cup {c})
           /\ SameOutside(l, PushFront(l, c), X \cup {c})
<1> DEFINE m == PushFront(l, c)
<1>1. /\ m.first = c /\ m.nxt = [l.nxt EXCEPT ![c] = l.first]
      /\ m.prv = IF l.first = NoCell THEN [l.prv EXCEPT ![c] = NoCell]
                 ELSE [l.prv EXCEPT ![c] = NoCell, ![l.first] = c]
  BY DEF PushFront, Put
<1>2. Links(l, X)
  BY ListLinks
<1> HIDE DEF m
<1>3. m.nxt \in Pointers /\ m.prv \in Pointers
  BY <1>1, <1>2 DEF Pointers, CellOrNone, Links
<1>4. /\ m.nxt[c] = l.first /\ m.prv[c] = NoCell
      /\ \A d \in Cells \ {c} : /\ m.nxt[d] = l.nxt[d]
                                /\ m.prv[d] = IF d = l.first THEN c ELSE l.prv[d]
  BY <1>1, <1>2 DEF Pointers, Links
<1>5. Links(m, X \cup {c})
  BY <1>1, <1>2, <1>3, <1>4 DEF Links
<1>6. ASSUME NEW S \in SUBSET (X \cup {c}), m.first \in S \cup {NoCell},
             \A d \in S : m.nxt[d] \in S \cup {NoCell}
      PROVE  S = X \cup {c}
  <2>1. c \in S
    BY <1>1, <1>2, <1>6 DEF Links
  <2>2. l.first \in (S \ {c}) \cup {NoCell}
    BY <1>2, <1>4, <1>6, <2>1 DEF Links
  <2>3. \A d \in S \ {c} : l.nxt[d] \in (S \ {c}) \cup {NoCell}
    BY <1>2, <1>4, <1>6 DEF Links
  <2>4. S \ {c} = X
    BY <2>2, <2>3, <1>6, ClosedIsAll
  <2> QED BY <2>1, <2>4
<1>7. IsList(m, X \cup {c})
  BY <1>5, <1>6, ListIntro
<1>8. SameOutside(l, m, X \cup {c})
  BY <1>2, <1>4 DEF SameOutside, Links
<1> QED BY <1>7, <1>8 DEF m

\* remove_from_chain, of one list: the cell leaves it, the rest stays one.
LEMMA UnlinkList ==
    ASSUME NEW l, NEW X, IsList(l, X), NEW p \in X
    PROVE  /\ IsList(Unlink(l, p), X \ {p})
           /\ SameOutside(l, Unlink(l, p), X)
<1> DEFINE m == Unlink(l, p)
           before == l.prv[p]
           after == l.nxt[p]
<1>1. /\ m.first = IF before = NoCell THEN after ELSE l.first
      /\ m.nxt = IF before = NoCell THEN l.nxt ELSE [l.nxt EXCEPT ![before] = after]
      /\ m.prv = IF after = NoCell THEN l.prv ELSE [l.prv EXCEPT ![after] = before]
  BY DEF Unlink, Put
<1>2. Links(l, X)
  BY ListLinks
<1>3. /\ p \in Cells /\ before \in X \cup {NoCell} /\ after \in X \cup {NoCell}
      /\ before # NoCell => l.nxt[before] = p
      /\ after # NoCell => l.prv[after] = p
      /\ before = NoCell => p = l.first
  BY <1>2 DEF Links
<1>4. before # p /\ after # p
  BY NoLoop
<1> HIDE DEF m, before, after
<1>5. m.nxt \in Pointers /\ m.prv \in Pointers
  BY <1>1, <1>2, <1>3 DEF Pointers, CellOrNone, Links
<1>6. \A d \in Cells : /\ m.nxt[d] = IF d = before THEN after ELSE l.nxt[d]
                       /\ m.prv[d] = IF d = after THEN before ELSE l.prv[d]
  BY <1>1, <1>2, <1>3 DEF Pointers, Links
<1>7. l.prv[p] = before /\ l.nxt[p] = after
  BY DEF before, after
<1>8. Links(m, X \ {p})
  <2>1. m.first \in (X \ {p}) \cup {NoCell}
    BY <1>1, <1>2, <1>3, <1>4, <1>7 DEF Links
  <2>2. m.first # NoCell => m.prv[m.first] = NoCell
    BY <1>1, <1>2, <1>3, <1>4, <1>6, <1>7 DEF Links
  <2>3. ASSUME NEW c \in X \ {p}
        PROVE  /\ m.nxt[c] \in (X \ {p}) \cup {NoCell}
               /\ m.prv[c] \in (X \ {p}) \cup {NoCell}
    BY <1>2, <1>3, <1>4, <1>6, <1>7 DEF Links
  <2>4. ASSUME NEW c \in X \ {p}
        PROVE  /\ m.nxt[c] # NoCell => m.prv[m.nxt[c]] = c
               /\ m.prv[c] # NoCell => m.nxt[m.prv[c]] = c
    BY <1>2, <1>3, <1>4, <1>6, <1>7 DEF Links
  <2>5. ASSUME NEW c \in X \ {p}, m.prv[c] = NoCell
        PROVE  c = m.first
    BY <2>5, <1>1, <1>2, <1>3, <1>4, <1>6, <1>7 DEF Links
  <2> QED BY <1>2, <1>5, <2>1, <2>2, <2>3, <2>4, <2>5 DEF Links
<1>9. ASSUME NEW S \in SUBSET (X \ {p}), m.first \in S \cup {NoCell},
             \A d \in S : m.nxt[d] \in S \cup {NoCell}
      PROVE  S = X \ {p}
  <2>1. \A d \in S : d \in Cells /\ d # p
    BY <1>2 DEF Links
  <2>2. CASE before = NoCell \/ before \in S
    <3>1. l.first \in (S \cup {p}) \cup {NoCell}
      BY <2>2, <1>1, <1>3, <1>9
    <3>2. after \in S \cup {NoCell}
      BY <2>1, <2>2, <1>1, <1>6, <1>9
    <3>3. ASSUME NEW d \in S \cup {p}
          PROVE  l.nxt[d] \in (S \cup {p}) \cup {NoCell}
      <4>1. CASE d = before
        BY <4>1, <1>2, <1>3 DEF Links
      <4>2. CASE d = p
        BY <4>2, <3>2, <1>7
      <4>3. CASE d # before /\ d # p
        BY <4>3, <2>1, <1>6, <1>9
      <4> QED BY <4>1, <4>2, <4>3
    <3>4. S \cup {p} = X
      <4>1. S \cup {p} \subseteq X
        OBVIOUS
      <4> QED BY <3>1, <3>3, <4>1, ClosedIsAll
    <3> QED BY <3>4
  <2>3. CASE before # NoCell /\ before \notin S
    <3>1. l.first \in S \cup {NoCell}
      BY <2>3, <1>1, <1>9
    <3>2. \A d \in S : l.nxt[d] \in S \cup {NoCell}
      BY <2>1, <2>3, <1>6, <1>9
    <3>3. S = X
      <4>1. S \subseteq X
        OBVIOUS
      <4> QED BY <3>1, <3>2, <4>1, ClosedIsAll
    <3> QED BY <3>3
  <2> QED BY <2>2, <2>3
<1>10. IsList(m, X \ {p})
  BY <1>8, <1>9, ListIntro
<1>11. SameOutside(l, m, X)
  BY <1>2, <1>3, <1>6 DEF SameOutside, Links
<1> QED BY <1>10, <1>11 DEF m

\* A list with a pointer to its last cell.
IsAgedList(l, X) == IsList(l, X) /\ Ended(l, X)

\* ght_insert, at the end of the list by age.
LEMMA AddLastList ==
    ASSUME NEW l, NEW X, IsAgedList(l, X),
           NEW c \in Cells, c \notin X, l.nxt[c] = NoCell
    PROVE  /\ IsAgedList(AddLast(l, c), X \cup {c})
           /\ SameOutside(l, AddLast(l, c), X \cup {c})
<1> DEFINE m == AddLast(l, c)
<1>1. /\ m.first = IF l.first = NoCell THEN c ELSE l.first
      /\ m.nxt = IF l.last = NoCell THEN l.nxt ELSE [l.nxt EXCEPT ![l.last] = c]
      /\ m.prv = [l.prv EXCEPT ![c] = l.last]
      /\ m.last = c
  BY DEF AddLast, Put
<1>2. IsList(l, X) /\ Ended(l, X) /\ Links(l, X)
  BY ListLinks DEF IsAgedList
<1> HIDE DEF m
<1>3. /\ l.last \in X \cup {NoCell} /\ (l.last = NoCell => X = {})
      /\ l.last # NoCell => l.nxt[l.last] = NoCell
      /\ l.first = NoCell => X = {}
      /\ \A d \in X : l.nxt[d] = NoCell => d = l.last
  <2>1. l.first = NoCell => X = {}
    BY <1>2, NoFirst
  <2> QED BY <1>2, <2>1 DEF Ended
<1>4. m.nxt \in Pointers /\ m.prv \in Pointers
  BY <1>1, <1>2, <1>3 DEF Pointers, CellOrNone, Links
<1>5. /\ \A d \in Cells : m.nxt[d] = IF d = l.last THEN c ELSE l.nxt[d]
      /\ \A d \in Cells : m.prv[d] = IF d = c THEN l.last ELSE l.prv[d]
  BY <1>1, <1>2, <1>3 DEF Pointers, Links
<1>6. Links(m, X \cup {c})
  BY <1>1, <1>2, <1>3, <1>4, <1>5 DEF Links
<1>7. ASSUME NEW S \in SUBSET (X \cup {c}), m.first \in S \cup {NoCell},
             \A d \in S : m.nxt[d] \in S \cup {NoCell}
      PROVE  S = X \cup {c}
  <2>1. l.first \in (S \ {c}) \cup {NoCell}
    BY <1>1, <1>2, <1>7 DEF Links
  <2>2. ASSUME NEW d \in S \ {c}
        PROVE  l.nxt[d] \in (S \ {c}) \cup {NoCell}
    BY <1>2, <1>3, <1>5, <1>7 DEF Links
  <2>3. S \ {c} = X
    <3>1. S \ {c} \subseteq X
      BY <1>7
    <3> QED BY <1>2, <2>1, <2>2, <3>1, ClosedIsAll
  <2>4. c \in S
    <3>1. CASE l.last = NoCell
      BY <3>1, <1>1, <1>2, <1>3, <1>7 DEF Links
    <3>2. CASE l.last # NoCell
      BY <3>2, <2>3, <1>2, <1>3, <1>5, <1>7 DEF Links
    <3> QED BY <3>1, <3>2
  <2> QED BY <2>3, <2>4
<1>8. IsList(m, X \cup {c})
  BY <1>6, <1>7, ListIntro
<1>9. Ended(m, X \cup {c})
  BY <1>1, <1>2, <1>3, <1>5 DEF Ended, Links
<1>10. SameOutside(l, m, X \cup {c})
  BY <1>2, <1>3, <1>5 DEF SameOutside, Links
<1> QED BY <1>8, <1>9, <1>10 DEF m, IsAgedList

\* remove_from_chain, of the list by age: the pointer to its end stays right.
LEMMA UnlinkAgedList ==
    ASSUME NEW l, NEW X, IsAgedList(l, X), NEW p \in X
    PROVE  /\ IsAgedList(UnlinkAged(l, p), X \ {p})
           /\ SameOutside(l, UnlinkAged(l, p), X)
<1> DEFINE u == Unlink(l, p)
           m == UnlinkAged(l, p)
<1>1. /\ m.first = u.first /\ m.nxt = u.nxt /\ m.prv = u.prv
      /\ m.last = IF l.nxt[p] = NoCell THEN l.prv[p] ELSE l.last
  BY DEF UnlinkAged
<1>2. IsList(l, X) /\ Ended(l, X) /\ Links(l, X)
  BY ListLinks DEF IsAgedList
<1>3. IsList(u, X \ {p}) /\ SameOutside(l, u, X)
  BY <1>2, UnlinkList
<1>4. /\ u.first = IF l.prv[p] = NoCell THEN l.nxt[p] ELSE l.first
      /\ u.nxt = IF l.prv[p] = NoCell THEN l.nxt
                 ELSE [l.nxt EXCEPT ![l.prv[p]] = l.nxt[p]]
  BY DEF Unlink, Put
<1> HIDE DEF u, m
<1>5. IsList(m, X \ {p})
  <2>1. Links(u, X \ {p})
    BY <1>3, ListLinks
  <2> QED BY <1>1, <1>3, <2>1, ListKept DEF Links
<1>6. /\ l.prv[p] \in X \cup {NoCell} /\ l.nxt[p] \in X \cup {NoCell}
      /\ l.prv[p] # NoCell => l.nxt[l.prv[p]] = p
      /\ l.prv[p] = NoCell => p = l.first
      /\ l.prv[p] # p /\ l.nxt[p] # p
      /\ \A d \in Cells : u.nxt[d] = IF d = l.prv[p] THEN l.nxt[p] ELSE l.nxt[d]
  <2>1. l.prv[p] # p /\ l.nxt[p] # p
    BY <1>2, NoLoop
  <2> QED BY <1>2, <1>4, <2>1 DEF Links, Pointers
<1>7. Ended(m, X \ {p})
  BY <1>1, <1>2, <1>4, <1>6 DEF Ended, Links
<1>8. SameOutside(l, m, X)
  BY <1>1, <1>3 DEF SameOutside
<1> QED BY <1>5, <1>7, <1>8 DEF m, IsAgedList

\* move_to_front: the same cells in another order.
LEMMA MoveToFrontList ==
    ASSUME NEW l, NEW X, IsList(l, X), NEW p \in X
    PROVE  /\ IsList(MoveToFront(l, p), X)
           /\ SameOutside(l, MoveToFront(l, p), X)
<1>1. CASE p = l.first
  BY <1>1 DEF MoveToFront, SameOutside
<1>2. CASE p # l.first
  <2> DEFINE m == MoveToFront(l, p)
             before == l.prv[p]
             after == l.nxt[p]
  <2>1. /\ m.first = p
        /\ m.nxt = [l.nxt EXCEPT ![before] = after, ![p] = l.first]
        /\ m.prv = IF after = NoCell
                   THEN [l.prv EXCEPT ![p] = NoCell, ![l.first] = p]
                   ELSE [l.prv EXCEPT ![after] = before, ![p] = NoCell,
                                      ![l.first] = p]
    BY <1>2 DEF MoveToFront, Put
  <2>2. Links(l, X)
    BY ListLinks
  <2>3. /\ l.first \in X /\ l.prv[l.first] = NoCell
        /\ before \in X /\ l.nxt[before] = p /\ before # p
        /\ after \in X \cup {NoCell} /\ after # p
        /\ after # NoCell => l.prv[after] = p /\ after # l.first
        /\ X \subseteq Cells /\ NoCell \notin Cells
    <3>1. before # p /\ after # p /\ l.first # NoCell
      BY NoLoop, NoFirst
    <3> QED BY <1>2, <2>2, <3>1 DEF Links
  <2> HIDE DEF m
  <2>4. m.nxt \in Pointers /\ m.prv \in Pointers
    BY <2>1, <2>2, <2>3 DEF Pointers, CellOrNone, Links
  <2>5. \A d \in Cells :
          /\ m.nxt[d] = IF d = p THEN l.first ELSE IF d = before THEN after ELSE l.nxt[d]
          /\ m.prv[d] = IF d = l.first THEN p ELSE IF d = p THEN NoCell
                        ELSE IF d = after THEN before ELSE l.prv[d]
    BY <1>2, <2>1, <2>2, <2>3 DEF Pointers, Links
  <2>6. l.prv[p] = before /\ l.nxt[p] = after
    OBVIOUS
  <2> HIDE DEF before, after
  <2>7. Links(m, X)
    <3>1. ASSUME NEW c \in X
          PROVE  m.nxt[c] \in X \cup {NoCell} /\ m.prv[c] \in X \cup {NoCell}
      BY <2>2, <2>3, <2>5 DEF Links
    <3>2. ASSUME NEW c \in X, m.nxt[c] # NoCell PROVE m.prv[m.nxt[c]] = c
      BY <1>2, <3>2, <2>2, <2>3, <2>5, <2>6 DEF Links
    <3>3. ASSUME NEW c \in X, m.prv[c] # NoCell PROVE m.nxt[m.prv[c]] = c
      BY <1>2, <3>3, <2>2, <2>3, <2>5, <2>6 DEF Links
    <3>4. ASSUME NEW c \in X, m.prv[c] = NoCell PROVE c = m.first
      BY <3>4, <2>1, <2>2, <2>3, <2>5 DEF Links
    <3> QED BY <1>2, <2>1, <2>3, <2>4, <2>5, <3>1, <3>2, <3>3, <3>4 DEF Links
  <2>8. ASSUME NEW S \in SUBSET X, m.first \in S \cup {NoCell},
               \A d \in S : m.nxt[d] \in S \cup {NoCell}
        PROVE  S = X
    <3>1. p \in S /\ l.first \in S /\ \A d \in S : d \in Cells
      BY <2>1, <2>3, <2>5, <2>8
    <3>2. CASE before \in S
      <4>1. after \in S \cup {NoCell}
        BY <3>2, <2>3, <2>5, <2>8
      <4>2. ASSUME NEW d \in S PROVE l.nxt[d] \in S \cup {NoCell}
        BY <3>1, <4>1, <2>3, <2>5, <2>6, <2>8
      <4> QED BY <3>1, <4>2, <2>8, ClosedIsAll
    <3>3. CASE before \notin S
      <4>1. ASSUME NEW d \in S \ {p} PROVE l.nxt[d] \in (S \ {p}) \cup {NoCell}
        BY <3>1, <3>3, <2>2, <2>3, <2>5, <2>6, <2>8 DEF Links
      <4>2. S \ {p} \subseteq X /\ l.first \in S \ {p}
        BY <1>2, <3>1, <2>8
      <4>3. S \ {p} = X
        BY <4>1, <4>2, ClosedIsAll
      <4> QED BY <4>3, <3>1
    <3> QED BY <3>2, <3>3
  <2>9. SameOutside(l, m, X)
    BY <2>3, <2>5 DEF SameOutside
  <2> QED BY <2>7, <2>8, <2>9, ListIntro DEF m
<1> QED BY <1>1, <1>2

\* transpose: likewise.
LEMMA TransposeList ==
    ASSUME NEW l, NEW X, IsList(l, X), NEW p \in X
    PROVE  /\ IsList(Transpose(l, p), X)
           /\ SameOutside(l, Transpose(l, p), X)
<1>1. CASE l.prv[p] = NoCell
  BY <1>1 DEF Transpose, SameOutside
<1>2. CASE l.prv[p] # NoCell
  <2> DEFINE m == Transpose(l, p)
             x == l.prv[p]
             a == l.prv[x]
             b == l.nxt[p]
  <2>1. /\ m.first = IF a = NoCell THEN p ELSE l.first
        /\ m.nxt = IF a = NoCell THEN [l.nxt EXCEPT ![x] = b, ![p] = x]
                   ELSE [l.nxt EXCEPT ![a] = p, ![x] = b, ![p] = x]
        /\ m.prv = IF b = NoCell THEN [l.prv EXCEPT ![x] = p, ![p] = a]
                   ELSE [l.prv EXCEPT ![b] = x, ![x] = p, ![p] = a]
    BY <1>2 DEF Transpose, Put
  <2>2. Links(l, X)
    BY ListLinks
  <2>3. /\ x \in X /\ x # p /\ l.nxt[x] = p /\ l.nxt[p] = b /\ l.prv[p] = x /\ l.prv[x] = a
        /\ a \in X \cup {NoCell} /\ a # x /\ a # p
        /\ a # NoCell => l.nxt[a] = x
        /\ a = NoCell => x = l.first
        /\ b \in X \cup {NoCell} /\ b # x /\ b # p /\ (a # NoCell => b # a)
        /\ b # NoCell => l.prv[b] = p
        /\ X \subseteq Cells /\ NoCell \notin Cells
    <3>1. x \in X
      BY <1>2, <2>2 DEF Links
    <3>2. x # p /\ a # x /\ b # p
      BY <3>1, NoLoop
    <3>3. a # p /\ b # x /\ (a # NoCell => b # a)
      BY <1>2, NoShortRing
    <3> QED BY <1>2, <2>2, <3>1, <3>2, <3>3 DEF Links
  <2> HIDE DEF m, x, a, b
  <2>4. m.nxt \in Pointers /\ m.prv \in Pointers
    BY <2>1, <2>2, <2>3 DEF Pointers, CellOrNone, Links
  <2>5. \A d \in Cells :
          /\ m.nxt[d] = IF d = p THEN x ELSE IF d = x THEN b
                        ELSE IF d = a THEN p ELSE l.nxt[d]
          /\ m.prv[d] = IF d = p THEN a ELSE IF d = x THEN p
                        ELSE IF d = b THEN x ELSE l.prv[d]
    BY <2>1, <2>2, <2>3 DEF Pointers, Links
  <2>6. Links(m, X)
    <3>1. ASSUME NEW c \in X
          PROVE  m.nxt[c] \in X \cup {NoCell} /\ m.prv[c] \in X \cup {NoCell}
      BY <2>2, <2>3, <2>5 DEF Links
    <3>2. ASSUME NEW c \in X, m.nxt[c] # NoCell PROVE m.prv[m.nxt[c]] = c
      BY <3>2, <2>2, <2>3, <2>5 DEF Links
    <3>3. ASSUME NEW c \in X, m.prv[c] # NoCell PROVE m.nxt[m.prv[c]] = c
      BY <3>3, <2>2, <2>3, <2>5 DEF Links
    <3>4. ASSUME NEW c \in X, m.prv[c] = NoCell PROVE c = m.first
      BY <3>4, <2>1, <2>2, <2>3, <2>5 DEF Links
    <3>5. m.first \in X /\ m.prv[m.first] = NoCell
      BY <2>1, <2>2, <2>3, <2>5, NoFirst DEF Links
    <3> QED BY <2>3, <2>4, <3>1, <3>2, <3>3, <3>4, <3>5 DEF Links
  <2>7. ASSUME NEW S \in SUBSET X, m.first \in S \cup {NoCell},
               \A d \in S : m.nxt[d] \in S \cup {NoCell}
        PROVE  S = X
    <3>1. l.first # NoCell /\ \A d \in S : d \in Cells
      BY <2>3, <2>7, NoFirst
    <3>2. CASE p \in S
      <4>1. x \in S /\ b \in S \cup {NoCell}
        BY <3>2, <2>3, <2>5, <2>7
      <4>2. l.first \in S
        BY <4>1, <3>1, <2>1, <2>3, <2>7
      <4>3. ASSUME NEW d \in S PROVE l.nxt[d] \in S \cup {NoCell}
        BY <3>1, <3>2, <4>1, <2>3, <2>5, <2>7
      <4> QED BY <4>2, <4>3, <2>7, ClosedIsAll
    <3>3. CASE p \notin S
      <4>1. a # NoCell /\ a \notin S /\ l.first \in S
        BY <3>1, <3>3, <2>1, <2>2, <2>3, <2>5, <2>7 DEF Links
      <4>2. l.first # x
        BY <4>1, <2>2, <2>3 DEF Links
      <4>3. ASSUME NEW d \in S \ {x} PROVE l.nxt[d] \in (S \ {x}) \cup {NoCell}
        BY <3>1, <3>3, <4>1, <2>2, <2>3, <2>5, <2>7 DEF Links
      <4>4. S \ {x} \subseteq X /\ l.first \in S \ {x}
        BY <4>1, <4>2, <2>7
      <4>5. S \ {x} = X
        BY <4>3, <4>4, ClosedIsAll
      <4> QED BY <4>5, <2>3
    <3> QED BY <3>2, <3>3
  <2>8. SameOutside(l, m, X)
    BY <2>3, <2>5 DEF SameOutside
  <2> QED BY <2>6, <2>7, <2>8, ListIntro DEF m
<1> QED BY <1>1, <1>2

-----------------------------------------------------------------------------

\* A walk along nxt from at meets the cells T.
Walks(at, nxt, T) ==
    /\ ClosedFrom(at, nxt, T)
    /\ \A S \in SUBSET T : ClosedFrom(at, nxt, S) => S = T

\* What a walk meets is what Reach finds.
LEMMA WalkReaches ==
    ASSUME NEW at, NEW nxt, NEW T, NEW U, Walks(at, nxt, T), T \subseteq U
    PROVE  Reach(at, nxt, U) = T
<1>1. ASSUME NEW S \in SUBSET U, ClosedFrom(at, nxt, S)
      PROVE  T \subseteq S
  <2>1. ClosedFrom(at, nxt, S \cap T)
    BY <1>1 DEF ClosedFrom, Walks
  <2>2. S \cap T = T
    BY <2>1 DEF Walks
  <2> QED BY <2>2
<1> QED BY <1>1 DEF Reach, Walks

\* From a cell of a list a walk stays on it.
LEMMA ReachWalks ==
    ASSUME NEW at, NEW nxt, NEW X, NEW U, X \subseteq U,
           at \in X \cup {NoCell}, \A c \in X : nxt[c] \in X \cup {NoCell}
    PROVE  Walks(at, nxt, Reach(at, nxt, U)) /\ Reach(at, nxt, U) \subseteq X
<1> DEFINE R == Reach(at, nxt, U)
<1>1. ClosedFrom(at, nxt, X)
  BY DEF ClosedFrom
<1>2. R \subseteq X
  BY <1>1 DEF Reach
<1>3. at \in R \cup {NoCell}
  BY DEF Reach, ClosedFrom
<1>4. \A c \in R : nxt[c] \in R \cup {NoCell}
  BY <1>2 DEF Reach, ClosedFrom
<1>5. \A S \in SUBSET R : ClosedFrom(at, nxt, S) => S = R
  BY DEF Reach
<1> QED BY <1>2, <1>3, <1>4, <1>5 DEF Walks, ClosedFrom

\* A walk from nowhere meets nothing, and the one from the first cell all.
LEMMA WalkNone ==
    ASSUME NEW nxt, NEW T, NoCell \notin T, Walks(NoCell, nxt, T)
    PROVE  T = {}
<1>1. ClosedFrom(NoCell, nxt, {})
  BY DEF ClosedFrom
<1> QED BY <1>1 DEF Walks

\* and the one from the first cell all.
LEMMA WalkAll ==
    ASSUME NEW l, NEW X, IsList(l, X)
    PROVE  Walks(l.first, l.nxt, X)
  BY DEF IsList, Paired, Connected, Walks

\* The cell at which a walk starts has no predecessor on it.
LEMMA WalkStart ==
    ASSUME NEW l, NEW X, IsList(l, X), NEW at \in X, NEW T \in SUBSET X,
           Walks(at, l.nxt, T)
    PROVE  at \in T /\ l.prv[at] \notin T /\ \A c \in T \ {at} : l.prv[c] \in T
<1> DEFINE S == {c \in T : c = at \/ l.prv[c] \in T}
<1>1. Links(l, X)
  BY ListLinks
<1>2. at \in T
  BY <1>1 DEF Walks, ClosedFrom, Links
<1>3. ClosedFrom(at, l.nxt, S)
  <2>1. ASSUME NEW c \in S PROVE l.nxt[c] \in S \cup {NoCell}
    BY <1>1 DEF Links, Walks, ClosedFrom
  <2> QED BY <1>2, <2>1 DEF ClosedFrom
<1>4. S = T
  BY <1>3 DEF Walks
<1>5. ASSUME l.prv[at] \in T PROVE FALSE
  <2>1. \A c \in T : l.prv[c] \in T
    BY <1>4, <1>5
  <2>2. T = {}
    BY <2>1, NoRing
  <2> QED BY <1>2, <2>2
<1> QED BY <1>2, <1>4, <1>5

\* One step of a walk.
LEMMA WalkStep ==
    ASSUME NEW l, NEW X, IsList(l, X), NEW at \in X, NEW T \in SUBSET X,
           Walks(at, l.nxt, T)
    PROVE  at \in T /\ Walks(l.nxt[at], l.nxt, T \ {at})
<1>1. Links(l, X)
  BY ListLinks
<1>2. at \in T /\ l.prv[at] \notin T
  BY WalkStart
<1>3. \A c \in T : l.nxt[c] \in (T \ {at}) \cup {NoCell}
  BY <1>1, <1>2 DEF Links, Walks, ClosedFrom
<1>4. ClosedFrom(l.nxt[at], l.nxt, T \ {at})
  BY <1>2, <1>3 DEF ClosedFrom
<1>5. ASSUME NEW S \in SUBSET (T \ {at}), ClosedFrom(l.nxt[at], l.nxt, S)
      PROVE  S = T \ {at}
  <2>1. ClosedFrom(at, l.nxt, S \cup {at})
    BY <1>5 DEF ClosedFrom
  <2>2. S \cup {at} = T
    BY <1>2, <2>1 DEF Walks
  <2> QED BY <2>2
<1> QED BY <1>2, <1>4, <1>5 DEF Walks

\* A walk in the list by age comes to the newest cell.
LEMMA WalkToEnd ==
    ASSUME NEW l, NEW X, IsAgedList(l, X), NEW at \in X, NEW T \in SUBSET X,
           Walks(at, l.nxt, T)
    PROVE  l.last \in T
<1> DEFINE R(c) == Reach(c, l.nxt, X)
           S == {c \in X : l.last \in R(c)}
<1>1. IsList(l, X) /\ Ended(l, X) /\ Links(l, X)
  BY ListLinks DEF IsAgedList
<1>2. ASSUME NEW c \in X
      PROVE  /\ R(c) \subseteq X /\ c \in R(c)
             /\ R(l.nxt[c]) = R(c) \ {c}
  <2>1. Walks(c, l.nxt, R(c)) /\ R(c) \subseteq X
    BY <1>1, ReachWalks DEF Links
  <2>2. c \in R(c) /\ Walks(l.nxt[c], l.nxt, R(c) \ {c})
    BY <1>1, <2>1, WalkStep
  <2> QED BY <2>1, <2>2, WalkReaches
<1>3. l.last \in X
  BY <1>1, NoFirst DEF Ended, Links
<1> HIDE DEF R
<1>4. \A c \in X : l.prv[c] # NoCell /\ c \in S => l.prv[c] \in S
  BY <1>1, <1>2 DEF Links
<1>5. l.first \in S
  <2>1. ASSUME l.first \notin S PROVE FALSE
    <3>1. \A c \in X \ S : l.nxt[c] \in (X \ S) \cup {NoCell}
      BY <1>1, <1>4 DEF Links
    <3>2. X \ S \subseteq X /\ l.first \in (X \ S) \cup {NoCell}
      BY <1>1, <2>1 DEF Links
    <3>3. X \ S = X
      BY <1>1, <3>1, <3>2, ClosedIsAll
    <3> QED BY <1>2, <1>3, <3>3
  <2> QED BY <2>1
<1>6. \A c \in S : l.nxt[c] \in S \cup {NoCell}
  BY <1>1, <1>2 DEF Ended, Links
<1>7. S = X
  <2>1. S \subseteq X
    OBVIOUS
  <2> QED BY <1>1, <1>5, <1>6, <2>1, ClosedIsAll
<1>8. R(at) = T
  BY WalkReaches DEF R
<1> QED BY <1>7, <1>8

\* An insertion comes at the end of every walk that has not ended.
LEMMA WalkAddLast ==
    ASSUME NEW l, NEW X, IsAgedList(l, X), NEW at \in X \cup {NoCell},
           NEW T \in SUBSET X, Walks(at, l.nxt, T),
           NEW c \in Cells, c \notin X, l.nxt[c] = NoCell
    PROVE  Walks(at, AddLast(l, c).nxt, IF at = NoCell THEN {} ELSE T \cup {c})
<1> DEFINE n == AddLast(l, c).nxt
<1>1. IsList(l, X) /\ Ended(l, X) /\ Links(l, X)
  BY ListLinks DEF IsAgedList
<1>2. n = IF l.last = NoCell THEN l.nxt ELSE [l.nxt EXCEPT ![l.last] = c]
  BY DEF AddLast, Put
<1> HIDE DEF n
<1>3. CASE at = NoCell
  BY <1>3 DEF Walks, ClosedFrom
<1>4. CASE at # NoCell
  <2>1. at \in T /\ l.last \in T
    BY <1>1, <1>4, WalkStep, WalkToEnd
  <2>2. \A d \in Cells : n[d] = IF d = l.last THEN c ELSE l.nxt[d]
    BY <1>1, <1>2, <2>1 DEF Links, Pointers
  <2>3. ClosedFrom(at, n, T \cup {c})
    BY <1>1, <2>1, <2>2 DEF ClosedFrom, Walks, Links
  <2>4. ASSUME NEW S \in SUBSET (T \cup {c}), ClosedFrom(at, n, S)
        PROVE  S = T \cup {c}
    <3>1. ClosedFrom(at, l.nxt, S \ {c})
      BY <1>1, <2>1, <2>2, <2>4 DEF ClosedFrom, Walks, Links, Ended
    <3>2. S \ {c} = T
      BY <3>1 DEF Walks
    <3> QED BY <1>1, <2>1, <2>2, <2>4, <3>2 DEF ClosedFrom, Links
  <2> QED BY <1>4, <2>3, <2>4 DEF Walks, n
<1> QED BY <1>3, <1>4

\* A removal takes the cell out of every walk.
LEMMA WalkUnlink ==
    ASSUME NEW l, NEW X, IsList(l, X), NEW at \in X \cup {NoCell},
           NEW T \in SUBSET X, Walks(at, l.nxt, T), NEW p \in X, at # p
    PROVE  Walks(at, Unlink(l, p).nxt, T \ {p})
<1> DEFINE n == Unlink(l, p).nxt
           before == l.prv[p]
<1>1. Links(l, X) /\ l.nxt[p] # p
  BY ListLinks, NoLoop
<1>2. n = IF before = NoCell THEN l.nxt ELSE [l.nxt EXCEPT ![before] = l.nxt[p]]
  BY DEF Unlink, Put
<1> HIDE DEF n
<1>3. \A d \in Cells : n[d] = IF d = before THEN l.nxt[p] ELSE l.nxt[d]
  BY <1>1, <1>2 DEF Links, Pointers
<1>4. /\ before \in X \cup {NoCell}
      /\ before # NoCell => l.nxt[before] = p
      /\ \A c \in X : l.nxt[c] = p => c = before
  BY <1>1 DEF Links
<1>5. at \in (T \ {p}) \cup {NoCell}
  BY DEF Walks, ClosedFrom
<1> HIDE DEF before
<1>6. ASSUME NEW c \in T \ {p} PROVE n[c] \in (T \ {p}) \cup {NoCell}
  BY <1>1, <1>3, <1>4 DEF Walks, ClosedFrom, Links
<1>7. ASSUME NEW S \in SUBSET (T \ {p}), ClosedFrom(at, n, S)
      PROVE  S = T \ {p}
  <2>1. CASE before \in S
    <3>1. l.nxt[p] \in S \cup {NoCell}
      BY <2>1, <1>1, <1>3, <1>7 DEF ClosedFrom, Links
    <3>2. ClosedFrom(at, l.nxt, S \cup {p})
      BY <3>1, <1>1, <1>3, <1>4, <1>7 DEF ClosedFrom, Links
    <3>3. p \in T
      BY <2>1, <1>1, <1>4, <1>7 DEF Walks, ClosedFrom, Links
    <3>4. S \cup {p} = T
      BY <3>2, <3>3 DEF Walks
    <3> QED BY <3>4
  <2>2. CASE before \notin S
    <3>1. ClosedFrom(at, l.nxt, S)
      BY <2>2, <1>1, <1>3, <1>7 DEF ClosedFrom, Links
    <3>2. S = T
      BY <3>1 DEF Walks
    <3> QED BY <3>2
  <2> QED BY <2>1, <2>2
<1> QED BY <1>5, <1>6, <1>7 DEF n, Walks, ClosedFrom

-----------------------------------------------------------------------------
(* Tables: buckets, the list by age and the counters.                      *)

\* The list of a bucket, and the list by age, from their fields.
BucketList(head, nx, pv, b) == [first |-> head[b], nxt |-> nx, prv |-> pv]
AgeList(t, nw, od) ==
    [first |-> t.oldest, nxt |-> nw, prv |-> od, last |-> t.newest]

\* An array of n entries.
IsArray(f, n, S) == f \in [0 .. n - 1 -> S]

\* The keys of the cells Y hash to the bucket b of n.
HashTo(Y, ky, n, b) == \A c \in Y : ky[c] \in Keys /\ Hash[ky[c]] % n = b

\* The cells Y have in l the pointers nx and pv.
KeepsPointers(l, nx, pv, Y) == \A c \in Y : l.nxt[c] = nx[c] /\ l.prv[c] = pv[c]
\* The cells Y have the same keys by ky and by ky2.
KeepsKeys(ky, ky2, Y) == \A c \in Y : ky2[c] = ky[c]

\* No two of the cells X have the same key.
KeysDiffer(ky, X) == \A c, d \in X : ky[c] = ky[d] => c = d

\* ch[b] are the cells of the bucket b of n, whose keys, by ky, hash to it.
Chained(head, n, nx, pv, ky, ch) ==
    /\ IsArray(head, n, CellOrNone)
    /\ IsArray(ch, n, SUBSET Cells)
    /\ \A b \in 0 .. n - 1 : IsList(BucketList(head, nx, pv, b), ch[b])
    /\ \A b \in 0 .. n - 1 : HashTo(ch[b], ky, n, b)

\* The table t is in order and holds the cells X.
IsTable(t, nx, pv, nw, od, ky, ch, X) ==
    /\ t \in TableType(t.size)
    /\ Chained(t.head, t.size, nx, pv, ky, ch)
    /\ IsAgedList(AgeList(t, nw, od), X)
    /\ X = UNION {ch[b] : b \in 0 .. t.size - 1}
    /\ KeysDiffer(ky, X)
    /\ IsFiniteSet(X) /\ t.items = Cardinality(X)
    /\ \A b \in 0 .. t.size - 1 : t.nr[b] = Cardinality(ch[b])

\* A key hashes to one of the buckets.
LEMMA HashType ==
    ASSUME NEW k \in Keys, NEW n \in Nat, n # 0
    PROVE  Hash[k] % n \in 0 .. n - 1
  BY KeysAssumption

\* No cell is in two buckets.
LEMMA BucketsApart ==
    ASSUME NEW head, NEW n, NEW nx, NEW pv, NEW ky, NEW ch,
           Chained(head, n, nx, pv, ky, ch),
           NEW a \in 0 .. n - 1, NEW b \in 0 .. n - 1, a # b
    PROVE  ch[a] \cap ch[b] = {}
  BY DEF Chained, HashTo

\* A list is its fields.
LEMMA SameFields ==
    ASSUME NEW l, NEW X, IsList(l, X)
    PROVE  IsList([first |-> l.first, nxt |-> l.nxt, prv |-> l.prv], X)
  BY DEF IsList, Paired, Connected, ClosedFrom

\* One entry of an array is another one.
OneChanged(f, g, n, b, x) ==
    g[b] = x /\ \A d \in 0 .. n - 1 : d # b => g[d] = f[d]

\* One bucket becomes another list.
LEMMA OneBucket ==
    ASSUME NEW head, NEW n \in Nat, NEW nx, NEW pv, NEW ky, NEW ch,
           Chained(head, n, nx, pv, ky, ch),
           NEW b \in 0 .. n - 1, NEW l, NEW ky2, NEW Y, IsList(l, Y),
           HashTo(Y, ky2, n, b), NEW O, \A d \in 0 .. n - 1 : d # b => ch[d] \subseteq O,
           KeepsPointers(l, nx, pv, O), KeepsKeys(ky, ky2, O),
           NEW h, IsArray(h, n, CellOrNone), OneChanged(head, h, n, b, l.first),
           NEW g, IsArray(g, n, SUBSET Cells), OneChanged(ch, g, n, b, Y)
    PROVE  Chained(h, n, l.nxt, l.prv, ky2, g)
<1>1. Links(l, Y)
  BY ListLinks
<1>2. l.nxt \in Pointers /\ l.prv \in Pointers
  BY <1>1 DEF Links
<1>3. ASSUME NEW d \in 0 .. n - 1
      PROVE  /\ IsList(BucketList(h, l.nxt, l.prv, d), g[d])
             /\ HashTo(g[d], ky2, n, d)
  <2>1. CASE d = b
    BY <2>1, SameFields DEF BucketList, OneChanged
  <2>2. CASE d # b
    <3>1. h[d] = head[d] /\ g[d] = ch[d]
      BY <2>2 DEF OneChanged
    <3>2. IsList(BucketList(head, nx, pv, d), ch[d])
      BY DEF Chained
    <3>3. IsList(BucketList(h, l.nxt, l.prv, d), ch[d])
      <4> DEFINE p == BucketList(head, nx, pv, d)
                 q == BucketList(h, l.nxt, l.prv, d)
      <4>1. /\ q.first = p.first /\ q.nxt \in Pointers /\ q.prv \in Pointers
            /\ \A c \in ch[d] : q.nxt[c] = p.nxt[c] /\ q.prv[c] = p.prv[c]
        BY <1>2, <2>2, <3>1 DEF BucketList, KeepsPointers
      <4> HIDE DEF p, q
      <4>2. IsList(q, ch[d])
        BY <3>2, <4>1, ListKept DEF p
      <4> QED BY <4>2 DEF q
    <3> QED BY <2>2, <3>1, <3>3 DEF Chained, HashTo, KeepsKeys
  <2> QED BY <2>1, <2>2
<1> QED BY <1>3 DEF Chained

\* The cells of all buckets, after one has changed.
LEMMA UnionChanged ==
    ASSUME NEW head, NEW n, NEW nx, NEW pv, NEW ky, NEW ch,
           Chained(head, n, nx, pv, ky, ch), NEW b \in 0 .. n - 1, NEW Y,
           NEW g, OneChanged(ch, g, n, b, Y)
    PROVE  UNION {g[d] : d \in 0 .. n - 1}
             = ((UNION {ch[d] : d \in 0 .. n - 1}) \ ch[b]) \cup Y
<1>1. \A d \in 0 .. n - 1 : d # b => ch[d] \cap ch[b] = {}
  BY BucketsApart
<1> QED BY <1>1 DEF OneChanged

\* Cells outside of a table do not matter for it.
LEMMA TableKept ==
    ASSUME NEW t, NEW nx, NEW pv, NEW nw, NEW od, NEW ky, NEW ch, NEW X,
           IsTable(t, nx, pv, nw, od, ky, ch, X),
           NEW nx2 \in Pointers, NEW pv2 \in Pointers, NEW nw2 \in Pointers,
           NEW od2 \in Pointers, NEW ky2,
           \A c \in X : /\ nx2[c] = nx[c] /\ pv2[c] = pv[c] /\ ky2[c] = ky[c]
                        /\ nw2[c] = nw[c] /\ od2[c] = od[c]
    PROVE  IsTable(t, nx2, pv2, nw2, od2, ky2, ch, X)
<1> DEFINE n == t.size
<1>1. \A b \in 0 .. n - 1 : ch[b] \subseteq X
  BY DEF IsTable
<1>2. ASSUME NEW b \in 0 .. n - 1
      PROVE  IsList(BucketList(t.head, nx2, pv2, b), ch[b])
  <2>1. IsList(BucketList(t.head, nx, pv, b), ch[b])
    BY DEF IsTable, Chained
  <2> QED BY <1>1, <2>1, ListKept DEF BucketList
<1>3. \A b \in 0 .. n - 1 : HashTo(ch[b], ky2, n, b)
  BY <1>1 DEF IsTable, Chained, HashTo
<1>4. Chained(t.head, n, nx2, pv2, ky2, ch)
  BY <1>2, <1>3 DEF Chained, IsTable
<1>5. IsList(AgeList(t, nw, od), X) /\ Ended(AgeList(t, nw, od), X)
  BY DEF IsTable, IsAgedList
<1>6. IsList(AgeList(t, nw2, od2), X)
  BY <1>5, ListKept DEF AgeList
<1>7. Ended(AgeList(t, nw2, od2), X)
  BY <1>5 DEF AgeList, Ended
<1>8. KeysDiffer(ky2, X)
  BY DEF IsTable, KeysDiffer
<1> QED BY <1>4, <1>6, <1>7, <1>8 DEF IsTable, IsAgedList

\* The fields of a table that is relinked.
LEMMA RelinkedFields ==
    ASSUME NEW size \in Nat, NEW t \in TableType(size), NEW l, NEW a, NEW n \in Int,
           NEW b \in 0 .. size - 1, l.first \in CellOrNone, a.first \in CellOrNone,
           a.last \in CellOrNone, t.items + n \in Nat, t.nr[b] + n \in Nat
    PROVE  /\ Relinked(t, b, l, a, n) \in TableType(size)
           /\ Relinked(t, b, l, a, n).size = size
           /\ Relinked(t, b, l, a, n).items = t.items + n
           /\ OneChanged(t.head, Relinked(t, b, l, a, n).head, size, b, l.first)
           /\ OneChanged(t.nr, Relinked(t, b, l, a, n).nr, size, b, t.nr[b] + n)
           /\ Relinked(t, b, l, a, n).oldest = a.first
           /\ Relinked(t, b, l, a, n).newest = a.last
<1> DEFINE h == [t.head EXCEPT ![b] = l.first]
           r == [t.nr EXCEPT ![b] = t.nr[b] + n]
           i == t.items + n
           R == Relinked(t, b, l, a, n)
<1>1. /\ h \in [0 .. size - 1 -> CellOrNone] /\ r \in [0 .. size - 1 -> Nat]
      /\ i \in Nat
  BY DEF TableType, CellOrNone
<1>2. R = [[[[[t EXCEPT !.head = h] EXCEPT !.nr = r] EXCEPT !.items = i]
             EXCEPT !.oldest = a.first] EXCEPT !.newest = a.last]
  BY DEF Relinked, TableType
<1>3. OneChanged(t.head, h, size, b, l.first) /\ OneChanged(t.nr, r, size, b, t.nr[b] + n)
  BY DEF TableType, OneChanged
<1> HIDE DEF h, r, R
<1>4. R \in TableType(size)
  BY <1>1, <1>2 DEF TableType, CellOrNone
<1>5. /\ R.size = size /\ R.items = i /\ R.head = h /\ R.nr = r
      /\ R.oldest = a.first /\ R.newest = a.last
  BY <1>1, <1>2 DEF TableType
<1> QED BY <1>3, <1>4, <1>5 DEF R

\* A list with an end is its fields.
LEMMA SameAgedFields ==
    ASSUME NEW l, NEW X, IsAgedList(l, X)
    PROVE  IsAgedList([first |-> l.first, nxt |-> l.nxt, prv |-> l.prv, last |-> l.last], X)
  BY DEF IsAgedList, Ended, IsList, Paired, Connected, ClosedFrom

\* A table of which one bucket and the list by age have changed.
LEMMA TableRelinked ==
    ASSUME NEW t, NEW nx, NEW pv, NEW nw, NEW od, NEW ky, NEW ch, NEW X,
           IsTable(t, nx, pv, nw, od, ky, ch, X),
           NEW b \in 0 .. t.size - 1, NEW l, NEW Y, IsList(l, Y),
           NEW a, NEW Z, IsAgedList(a, Z), Z = (X \ ch[b]) \cup Y,
           NEW ky2, HashTo(Y, ky2, t.size, b), KeepsKeys(ky, ky2, X \ ch[b]),
           KeysDiffer(ky2, Z),
           KeepsPointers(l, nx, pv, X \ ch[b]),
           NEW n \in Int, IsFiniteSet(Z),
           Cardinality(Z) = Cardinality(X) + n,
           Cardinality(Y) = Cardinality(ch[b]) + n,
           NEW g, IsArray(g, t.size, SUBSET Cells), OneChanged(ch, g, t.size, b, Y)
    PROVE  IsTable(Relinked(t, b, l, a, n), l.nxt, l.prv, a.nxt, a.prv, ky2, g, Z)
<1> DEFINE r == Relinked(t, b, l, a, n)
<1>1. /\ t \in TableType(t.size) /\ t.size \in Nat
      /\ Chained(t.head, t.size, nx, pv, ky, ch)
      /\ t.items = Cardinality(X)
      /\ \A d \in 0 .. t.size - 1 : t.nr[d] = Cardinality(ch[d]) /\ ch[d] \subseteq X
      /\ IsFiniteSet(X)
  BY SizesAssumption DEF IsTable, TableType
<1>2. /\ l.first \in CellOrNone /\ a.first \in CellOrNone /\ a.last \in CellOrNone
      /\ Y \subseteq Z
  <2>1. Links(l, Y) /\ Links(a, Z) /\ Ended(a, Z)
    BY ListLinks DEF IsAgedList
  <2> QED BY <2>1 DEF Links, CellOrNone, Ended
<1>3. Cardinality(Z) \in Nat /\ Cardinality(Y) \in Nat
  <2>1. IsFiniteSet(Y)
    BY <1>2, FS_Subset
  <2> QED BY <2>1, FS_CardinalityType
<1>4. /\ r \in TableType(t.size) /\ r.size = t.size /\ r.items = t.items + n
      /\ OneChanged(t.head, r.head, t.size, b, l.first)
      /\ OneChanged(t.nr, r.nr, t.size, b, t.nr[b] + n)
      /\ r.oldest = a.first /\ r.newest = a.last
  <2>1. t.items + n \in Nat /\ t.nr[b] + n \in Nat
    BY <1>1, <1>3
  <2> QED BY <1>1, <1>2, <2>1, RelinkedFields
<1> HIDE DEF r
<1>5. Chained(r.head, t.size, l.nxt, l.prv, ky2, g)
  <2>1. \A d \in 0 .. t.size - 1 : d # b => ch[d] \subseteq X \ ch[b]
    BY <1>1, BucketsApart
  <2>2. IsArray(r.head, t.size, CellOrNone)
    BY <1>4 DEF TableType, CellOrNone, IsArray
  <2>3. t.size \in Nat /\ Chained(t.head, t.size, nx, pv, ky, ch)
    BY <1>1
  <2>4. OneChanged(t.head, r.head, t.size, b, l.first)
    BY <1>4
  <2> QED BY <2>1, <2>2, <2>3, <2>4, OneBucket, Zenon
<1>6. IsAgedList(AgeList(r, a.nxt, a.prv), Z)
  BY <1>4, SameAgedFields DEF AgeList
<1>7. Z = UNION {g[d] : d \in 0 .. t.size - 1}
  <2>1. X = UNION {ch[d] : d \in 0 .. t.size - 1}
    BY DEF IsTable
  <2>2. UNION {g[d] : d \in 0 .. t.size - 1}
          = ((UNION {ch[d] : d \in 0 .. t.size - 1}) \ ch[b]) \cup Y
    BY <1>1, UnionChanged
  <2> QED BY <2>1, <2>2
<1>8. r.items = Cardinality(Z) /\ \A d \in 0 .. t.size - 1 : r.nr[d] = Cardinality(g[d])
  BY <1>1, <1>4 DEF OneChanged
<1>9. IsTable(r, l.nxt, l.prv, a.nxt, a.prv, ky2, g, Z)
  BY <1>4, <1>5, <1>6, <1>7, <1>8 DEF IsTable
<1> QED BY <1>9 DEF r

\* What a table says of one of its buckets and of its list by age.
LEMMA TableParts ==
    ASSUME NEW t, NEW nx, NEW pv, NEW nw, NEW od, NEW ky, NEW ch, NEW X,
           IsTable(t, nx, pv, nw, od, ky, ch, X), NEW b \in 0 .. t.size - 1
    PROVE  /\ IsList(BucketList(t.head, nx, pv, b), ch[b]) /\ HashTo(ch[b], ky, t.size, b)
           /\ IsAgedList(AgeList(t, nw, od), X)
           /\ t.size \in Nat \ {0} /\ ch[b] \subseteq X /\ X \subseteq Cells
           /\ IsFiniteSet(X) /\ IsFiniteSet(ch[b])
           /\ IsArray(ch, t.size, SUBSET Cells)
           /\ nx \in Pointers /\ pv \in Pointers /\ nw \in Pointers /\ od \in Pointers
<1>1. ch[b] \subseteq X
  BY DEF IsTable
<1>2. IsFiniteSet(X) /\ IsFiniteSet(ch[b])
  BY <1>1, FS_Subset DEF IsTable
<1>3. t.size \in Nat \ {0}
  BY SizesAssumption DEF IsTable, TableType
<1>4. IsList(BucketList(t.head, nx, pv, b), ch[b]) /\ IsAgedList(AgeList(t, nw, od), X)
  BY DEF IsTable, Chained
<1> QED BY <1>1, <1>2, <1>3, <1>4
        DEF IsTable, Chained, IsAgedList, IsList, BucketList, AgeList

\* The array ch after the entry b has become Y.
Changed(ch, n, b, Y) == [d \in 0 .. n - 1 |-> IF d = b THEN Y ELSE ch[d]]

\* Changing an entry leaves an array.
LEMMA ChangedArray ==
    ASSUME NEW ch, NEW n, NEW b \in 0 .. n - 1, NEW Y, Y \subseteq Cells,
           IsArray(ch, n, SUBSET Cells)
    PROVE  IsArray(Changed(ch, n, b, Y), n, SUBSET Cells)
           /\ OneChanged(ch, Changed(ch, n, b, Y), n, b, Y)
  BY DEF Changed, IsArray, OneChanged

\* The cell c is entered in the table.
LEMMA TableInsert ==
    ASSUME NEW t, NEW nx, NEW pv, NEW nw, NEW od, NEW ky, NEW ch, NEW X,
           IsTable(t, nx, pv, nw, od, ky, ch, X),
           NEW c \in Cells, c \notin X, nw[c] = NoCell,
           NEW ky2, KeepsKeys(ky, ky2, X), \A d \in X : ky[d] # ky2[c],
           NEW b \in 0 .. t.size - 1, HashTo({c}, ky2, t.size, b),
           NEW l, l = PushFront(BucketList(t.head, nx, pv, b), c),
           NEW a, a = AddLast(AgeList(t, nw, od), c)
    PROVE  /\ IsTable(Relinked(t, b, l, a, 1), l.nxt, l.prv, a.nxt, a.prv, ky2,
                      Changed(ch, t.size, b, ch[b] \cup {c}), X \cup {c})
           /\ SameOutside(BucketList(t.head, nx, pv, b), l, X \cup {c})
           /\ SameOutside(AgeList(t, nw, od), a, X \cup {c})
           /\ IsList(l, ch[b] \cup {c}) /\ IsAgedList(a, X \cup {c})
<1> DEFINE Y == ch[b] \cup {c}
           Z == X \cup {c}
           g == Changed(ch, t.size, b, Y)
<1>2. /\ IsList(BucketList(t.head, nx, pv, b), ch[b]) /\ HashTo(ch[b], ky, t.size, b)
      /\ IsAgedList(AgeList(t, nw, od), X)
      /\ t.size \in Nat \ {0} /\ ch[b] \subseteq X /\ X \subseteq Cells
      /\ IsFiniteSet(X) /\ IsFiniteSet(ch[b])
      /\ IsArray(ch, t.size, SUBSET Cells)
  BY TableParts
<1>3. /\ IsList(l, Y) /\ SameOutside(BucketList(t.head, nx, pv, b), l, Y)
  BY <1>2, PushFrontList
<1>4. IsAgedList(a, Z) /\ SameOutside(AgeList(t, nw, od), a, Z)
  <2>1. AgeList(t, nw, od).nxt[c] = NoCell
    BY DEF AgeList
  <2> QED BY <1>2, <2>1, AddLastList
<1>5. Z = (X \ ch[b]) \cup Y /\ Y \subseteq Cells /\ ch[b] \in SUBSET X
  BY <1>2
<1>6. HashTo(Y, ky2, t.size, b) /\ KeepsKeys(ky, ky2, X \ ch[b])
  BY <1>2 DEF HashTo, KeepsKeys
<1>7. KeysDiffer(ky2, Z)
  BY DEF IsTable, KeepsKeys, KeysDiffer
<1>8. KeepsPointers(l, nx, pv, X \ ch[b])
  BY <1>2, <1>3 DEF KeepsPointers, SameOutside, BucketList
<1>9. IsFiniteSet(Z) /\ Cardinality(Z) = Cardinality(X) + 1
  BY <1>2, FS_AddElement
<1>10. Cardinality(Y) = Cardinality(ch[b]) + 1
  BY <1>2, FS_AddElement
<1>11. IsArray(g, t.size, SUBSET Cells) /\ OneChanged(ch, g, t.size, b, Y)
  BY <1>2, <1>5, ChangedArray
<1> HIDE DEF Y, Z, g
<1>12. IsTable(Relinked(t, b, l, a, 1), l.nxt, l.prv, a.nxt, a.prv, ky2, g, Z)
  <2>1. 1 \in Int
    OBVIOUS
  <2> QED BY <2>1, <1>3, <1>4, <1>5, <1>6, <1>7, <1>8, <1>9, <1>10, <1>11,
             TableRelinked, ZenonT(60)
<1>13. SameOutside(BucketList(t.head, nx, pv, b), l, X \cup {c})
  BY <1>2, <1>3 DEF SameOutside, Y
<1> QED BY <1>3, <1>4, <1>12, <1>13 DEF Y, Z, g

\* The cell c is taken out of the table.
LEMMA TableRemove ==
    ASSUME NEW t, NEW nx, NEW pv, NEW nw, NEW od, NEW ky, NEW ch, NEW X,
           IsTable(t, nx, pv, nw, od, ky, ch, X),
           NEW b \in 0 .. t.size - 1, NEW c \in ch[b],
           NEW l, l = Unlink(BucketList(t.head, nx, pv, b), c),
           NEW a, a = UnlinkAged(AgeList(t, nw, od), c)
    PROVE  /\ IsTable(Relinked(t, b, l, a, -1), l.nxt, l.prv, a.nxt, a.prv, ky,
                      Changed(ch, t.size, b, ch[b] \ {c}), X \ {c})
           /\ IsList(l, ch[b] \ {c}) /\ IsAgedList(a, X \ {c})
<1> DEFINE Y == ch[b] \ {c}
           Z == X \ {c}
           g == Changed(ch, t.size, b, Y)
<1>2. /\ IsList(BucketList(t.head, nx, pv, b), ch[b]) /\ HashTo(ch[b], ky, t.size, b)
      /\ IsAgedList(AgeList(t, nw, od), X)
      /\ t.size \in Nat \ {0} /\ ch[b] \subseteq X /\ X \subseteq Cells
      /\ IsFiniteSet(X) /\ IsFiniteSet(ch[b])
      /\ IsArray(ch, t.size, SUBSET Cells)
  BY TableParts
<1>3. /\ IsList(l, Y) /\ SameOutside(BucketList(t.head, nx, pv, b), l, ch[b])
  BY <1>2, UnlinkList
<1>4. IsAgedList(a, Z)
  <2>1. c \in X
    BY <1>2
  <2> QED BY <1>2, <2>1, UnlinkAgedList
<1>5. Z = (X \ ch[b]) \cup Y /\ Y \subseteq Cells /\ ch[b] \in SUBSET X
  <2>1. \A d \in 0 .. t.size - 1 : ch[d] \subseteq X
    BY DEF IsTable
  <2> QED BY <1>2
<1>6. HashTo(Y, ky, t.size, b) /\ KeepsKeys(ky, ky, X \ ch[b])
  BY <1>2 DEF HashTo, KeepsKeys
<1>7. KeysDiffer(ky, Z)
  BY DEF IsTable, KeysDiffer
<1>8. KeepsPointers(l, nx, pv, X \ ch[b])
  BY <1>2, <1>3 DEF KeepsPointers, SameOutside, BucketList
<1>9. IsFiniteSet(Z) /\ Cardinality(Z) = Cardinality(X) + (-1)
  <2>1. IsFiniteSet(Z) /\ Cardinality(Z) = Cardinality(X) - 1
    BY <1>2, FS_RemoveElement
  <2>2. Cardinality(X) \in Nat
    BY <1>2, FS_CardinalityType
  <2> QED BY <2>1, <2>2
<1>10. Cardinality(Y) = Cardinality(ch[b]) + (-1)
  <2>1. Cardinality(Y) = Cardinality(ch[b]) - 1
    BY <1>2, FS_RemoveElement
  <2>2. Cardinality(ch[b]) \in Nat
    BY <1>2, FS_CardinalityType
  <2> QED BY <2>1, <2>2
<1>11. IsArray(g, t.size, SUBSET Cells) /\ OneChanged(ch, g, t.size, b, Y)
  BY <1>2, <1>5, ChangedArray
<1> HIDE DEF Y, Z, g
<1>12. IsTable(Relinked(t, b, l, a, -1), l.nxt, l.prv, a.nxt, a.prv, ky, g, Z)
  <2>1. -1 \in Int
    OBVIOUS
  <2> QED BY <2>1, <1>3, <1>4, <1>5, <1>6, <1>7, <1>8, <1>9, <1>10, <1>11,
             TableRelinked, ZenonT(60)
<1> QED BY <1>3, <1>4, <1>12 DEF Y, Z, g

\* The cell c can enter the bucket b of the table, and p leave it.
MayEvict(t, nw, ky, ch, X, c, b, p) ==
    /\ c \in Cells /\ c \notin X /\ nw[c] = NoCell
    /\ \A d \in X : ky[d] # ky[c]
    /\ b \in 0 .. t.size - 1 /\ HashTo({c}, ky, t.size, b) /\ p \in ch[b]

\* The cell c is entered, and p, which was in its bucket, put out.
LEMMA TableEvict ==
    ASSUME NEW t, NEW nx, NEW pv, NEW nw, NEW od, NEW ky, NEW ch, NEW X,
           IsTable(t, nx, pv, nw, od, ky, ch, X),
           NEW c, NEW b, NEW p, MayEvict(t, nw, ky, ch, X, c, b, p),
           NEW l, l = Unlink(PushFront(BucketList(t.head, nx, pv, b), c), p),
           NEW a, a = AddLast(UnlinkAged(AgeList(t, nw, od), p), c),
           NEW Y, Y = (ch[b] \cup {c}) \ {p}, NEW Z, Z = (X \ {p}) \cup {c},
           NEW g, g = Changed(ch, t.size, b, Y)
    PROVE  IsTable(Relinked(t, b, l, a, 0), l.nxt, l.prv, a.nxt, a.prv, ky, g, Z)
<1> DEFINE u == UnlinkAged(AgeList(t, nw, od), p)
           m == PushFront(BucketList(t.head, nx, pv, b), c)
<1>0. /\ c \in Cells /\ c \notin X /\ nw[c] = NoCell
      /\ \A d \in X : ky[d] # ky[c]
      /\ b \in 0 .. t.size - 1 /\ HashTo({c}, ky, t.size, b) /\ p \in ch[b]
  BY DEF MayEvict
<1>1. m = PushFront(BucketList(t.head, nx, pv, b), c) /\ l = Unlink(m, p)
  OBVIOUS
<1> HIDE DEF m
<1>2. /\ IsList(BucketList(t.head, nx, pv, b), ch[b]) /\ HashTo(ch[b], ky, t.size, b)
      /\ IsAgedList(AgeList(t, nw, od), X)
      /\ t.size \in Nat \ {0} /\ ch[b] \subseteq X /\ X \subseteq Cells
      /\ IsFiniteSet(X) /\ IsFiniteSet(ch[b])
      /\ IsArray(ch, t.size, SUBSET Cells)
  BY <1>0, TableParts
<1>3. /\ p \in X /\ p # c /\ c \notin ch[b]
  BY <1>0, <1>2
<1>4. /\ IsList(m, ch[b] \cup {c})
      /\ SameOutside(BucketList(t.head, nx, pv, b), m, ch[b] \cup {c})
  BY <1>0, <1>1, <1>2, <1>3, PushFrontList
<1>5. IsList(l, Y) /\ SameOutside(m, l, ch[b] \cup {c})
  <2>1. p \in ch[b] \cup {c}
    BY <1>0
  <2> QED BY <1>1, <1>4, <2>1, UnlinkList
<1>6. IsAgedList(u, X \ {p}) /\ SameOutside(AgeList(t, nw, od), u, X)
  BY <1>2, <1>3, UnlinkAgedList
<1>7. IsAgedList(a, Z)
  <2>1. u.nxt[c] = NoCell /\ c \notin X \ {p}
    BY <1>0, <1>6 DEF AgeList, SameOutside
  <2> QED BY <1>0, <1>6, <2>1, AddLastList
<1>8. Z = (X \ ch[b]) \cup Y /\ Y \subseteq Cells
  BY <1>0, <1>2, <1>3
<1>9. HashTo(Y, ky, t.size, b) /\ KeepsKeys(ky, ky, X \ ch[b])
  BY <1>0, <1>2 DEF HashTo, KeepsKeys
<1>10. KeysDiffer(ky, Z)
  BY <1>0 DEF IsTable, KeysDiffer
<1>11. KeepsPointers(l, nx, pv, X \ ch[b])
  BY <1>0, <1>2, <1>4, <1>5 DEF KeepsPointers, SameOutside, BucketList
<1>12. /\ IsFiniteSet(Z) /\ Cardinality(Z) = Cardinality(X) + 0
  <2>1. /\ IsFiniteSet(X \ {p}) /\ Cardinality(X \ {p}) = Cardinality(X) - 1
    BY <1>2, <1>3, FS_RemoveElement
  <2>2. IsFiniteSet(Z) /\ Cardinality(Z) = Cardinality(X \ {p}) + 1
    BY <1>0, <2>1, FS_AddElement
  <2>3. Cardinality(X) \in Nat
    BY <1>2, FS_CardinalityType
  <2> QED BY <2>1, <2>2, <2>3
<1>13. Cardinality(Y) = Cardinality(ch[b]) + 0
  <2>1. /\ IsFiniteSet(ch[b] \cup {c})
        /\ Cardinality(ch[b] \cup {c}) = Cardinality(ch[b]) + 1
    BY <1>0, <1>2, <1>3, FS_AddElement
  <2>2. Cardinality(Y) = Cardinality(ch[b] \cup {c}) - 1
    BY <1>0, <2>1, FS_RemoveElement
  <2>3. Cardinality(ch[b]) \in Nat
    BY <1>2, FS_CardinalityType
  <2> QED BY <2>1, <2>2, <2>3
<1>14. IsArray(g, t.size, SUBSET Cells) /\ OneChanged(ch, g, t.size, b, Y)
  BY <1>0, <1>2, <1>8, ChangedArray
<1>15. IsTable(Relinked(t, b, l, a, 0), l.nxt, l.prv, a.nxt, a.prv, ky, g, Z)
  <2>1. 0 \in Int
    OBVIOUS
  <2> QED BY <1>0, <2>1, <1>5, <1>7, <1>8, <1>9, <1>10, <1>11, <1>12, <1>13, <1>14,
             TableRelinked, ZenonT(60)
<1> QED BY <1>15

\* A search has moved a cell within its bucket.
LEMMA TableMoved ==
    ASSUME NEW t, NEW nx, NEW pv, NEW nw, NEW od, NEW ky, NEW ch, NEW X,
           IsTable(t, nx, pv, nw, od, ky, ch, X), NEW b \in 0 .. t.size - 1,
           NEW l, IsList(l, ch[b]),
           SameOutside(BucketList(t.head, nx, pv, b), l, ch[b])
    PROVE  IsTable([t EXCEPT !.head[b] = l.first], l.nxt, l.prv, nw, od, ky, ch, X)
<1> DEFINE h == [t.head EXCEPT ![b] = l.first]
           r == [t EXCEPT !.head[b] = l.first]
<1>1. /\ t \in TableType(t.size) /\ t.size \in Nat
      /\ Chained(t.head, t.size, nx, pv, ky, ch) /\ X \subseteq Cells
      /\ \A d \in 0 .. t.size - 1 : ch[d] \subseteq X
  BY SizesAssumption DEF IsTable, TableType, IsAgedList, IsList
<1>2. l.first \in CellOrNone
  BY ListLinks DEF Links, CellOrNone
<1>3. /\ h \in [0 .. t.size - 1 -> CellOrNone] /\ OneChanged(t.head, h, t.size, b, l.first)
  BY <1>1, <1>2 DEF TableType, CellOrNone, OneChanged
<1>4. r = [t EXCEPT !.head = h]
  BY <1>1 DEF TableType
<1> HIDE DEF h, r
<1>5. /\ r \in TableType(t.size) /\ r.size = t.size /\ r.head = h /\ r.items = t.items
      /\ r.nr = t.nr /\ r.oldest = t.oldest /\ r.newest = t.newest
  BY <1>1, <1>3, <1>4 DEF TableType, CellOrNone
<1>6. Chained(r.head, t.size, l.nxt, l.prv, ky, ch)
  <2>1. \A d \in 0 .. t.size - 1 : d # b => ch[d] \subseteq X \ ch[b]
    BY <1>1, BucketsApart
  <2>2. IsArray(r.head, t.size, CellOrNone) /\ IsArray(ch, t.size, SUBSET Cells)
    BY <1>1, <1>3, <1>5 DEF Chained, IsArray
  <2>3. KeepsPointers(l, nx, pv, X \ ch[b]) /\ KeepsKeys(ky, ky, X \ ch[b])
    BY <1>1 DEF KeepsPointers, KeepsKeys, SameOutside, BucketList
  <2>4. t.size \in Nat /\ Chained(t.head, t.size, nx, pv, ky, ch)
    BY <1>1
  <2>5. OneChanged(t.head, r.head, t.size, b, l.first) /\ OneChanged(ch, ch, t.size, b, ch[b])
    BY <1>3, <1>5 DEF OneChanged
  <2>6. HashTo(ch[b], ky, t.size, b)
    BY <2>4 DEF Chained
  <2> QED BY <2>1, <2>2, <2>3, <2>4, <2>5, <2>6, OneBucket, ZenonT(60)
<1>7. IsAgedList(AgeList(r, nw, od), X)
  BY <1>5 DEF AgeList, IsTable
<1>8. IsTable(r, l.nxt, l.prv, nw, od, ky, ch, X)
  BY <1>5, <1>6, <1>7 DEF IsTable
<1> QED BY <1>8 DEF r

\* An array of empty buckets.
NoChains(n) == [b \in 0 .. n - 1 |-> {}]

\* The table of ght_create, and the one that is not there.
LEMMA TableEmpty ==
    ASSUME NEW n \in 0 .. MaxSize, NEW t \in {NoTable, EmptyTable(n)}, t.size = n,
           NEW nx \in Pointers, NEW pv \in Pointers, NEW nw \in Pointers,
           NEW od \in Pointers, NEW ky
    PROVE  IsTable(t, nx, pv, nw, od, ky, NoChains(n), {})
<1>1. n \in Nat
  BY SizesAssumption
<1>2. t \in TableType(n) /\ t.oldest = NoCell /\ t.newest = NoCell /\ t.items = 0
      /\ \A b \in 0 .. n - 1 : t.head[b] = NoCell /\ t.nr[b] = 0
  <2>1. CASE t = NoTable
    <3>1. n = 0 /\ 0 .. n - 1 = {} /\ {n} \cap 0 .. MaxSize = {n}
      BY <2>1, SizesAssumption DEF NoTable
    <3>2. <<>> \in [0 .. n - 1 -> Cells \cup {NoCell}] /\ <<>> \in [0 .. n - 1 -> Nat]
      BY <3>1
    <3> QED BY <2>1, <3>1, <3>2 DEF NoTable, TableType
  <2>2. CASE t = EmptyTable(n)
    BY <1>1, <2>2, SizesAssumption DEF EmptyTable, TableType
  <2> QED BY <2>1, <2>2
<1>3. ASSUME NEW l, l.first = NoCell, l.nxt \in Pointers, l.prv \in Pointers
      PROVE  IsList(l, {})
  BY <1>3 DEF IsList, Paired, Connected, ClosedFrom
<1>4. Chained(t.head, n, nx, pv, ky, NoChains(n))
  BY <1>2, <1>3 DEF Chained, IsArray, NoChains, HashTo, BucketList, TableType, CellOrNone
<1>5. IsAgedList(AgeList(t, nw, od), {})
  BY <1>2, <1>3 DEF IsAgedList, Ended, AgeList
<1>6. {} = UNION {NoChains(n)[b] : b \in 0 .. n - 1}
  BY DEF NoChains
<1>7. /\ IsFiniteSet({}) /\ t.items = Cardinality({})
      /\ \A b \in 0 .. n - 1 : t.nr[b] = Cardinality(NoChains(n)[b])
  BY <1>2, FS_EmptySet DEF NoChains
<1> QED BY <1>2, <1>4, <1>5, <1>6, <1>7 DEF IsTable, KeysDiffer

\* Walks find the cells of a table,
LEMMA TableReached ==
    ASSUME NEW t, NEW nx, NEW pv, NEW nw, NEW od, NEW ky, NEW ch, NEW X,
           IsTable(t, nx, pv, nw, od, ky, ch, X), NEW U, X \subseteq U
    PROVE  Reach(t.oldest, nw, U) = X
<1> DEFINE l == AgeList(t, nw, od)
<1>1. IsList(l, X) /\ l.first = t.oldest /\ l.nxt = nw
  BY DEF IsTable, IsAgedList, AgeList
<1> HIDE DEF l
<1>2. Reach(l.first, l.nxt, U) = X
  BY <1>1, ReachIsList
<1> QED BY <1>1, <1>2

\* and those of its buckets.
LEMMA ChainReached ==
    ASSUME NEW t, NEW nx, NEW pv, NEW nw, NEW od, NEW ky, NEW ch, NEW X,
           IsTable(t, nx, pv, nw, od, ky, ch, X), NEW U, X \subseteq U,
           NEW b \in 0 .. t.size - 1
    PROVE  Reach(t.head[b], nx, U) = ch[b]
<1> DEFINE l == BucketList(t.head, nx, pv, b)
<1>1. /\ IsList(l, ch[b]) /\ l.first = t.head[b] /\ l.nxt = nx
      /\ ch[b] \subseteq U
  BY DEF IsTable, Chained, BucketList
<1> HIDE DEF l
<1>2. Reach(l.first, l.nxt, U) = ch[b]
  BY <1>1, ReachIsList
<1> QED BY <1>1, <1>2

-----------------------------------------------------------------------------
(* The inductive invariant.                                                *)

\* The chains that walks along nx find, by bucket.
ReachChains(t, nx, U) == [b \in 0 .. t.size - 1 |-> Reach(t.head[b], nx, U)]

\* The table t is in order and holds what walks within U find.
Ordered(t, nx, pv, nw, od, ky, U) ==
    IsTable(t, nx, pv, nw, od, ky, ReachChains(t, nx, U), Reach(t.oldest, nw, U))

\* The table, and the one that a rehash fills, are in order.
TablesInv ==
    /\ Ordered(tab, next, prev, newer, older, key, used)
    /\ Ordered(tmp, next, prev, newer, older, key, used)

\* What a step does to the list by age of the table, for the dictionary: the
\* entry p is removed,
Leaves(p) ==
    /\ Aged(tab)' = Aged(tab) \ {p}
    /\ \A e \in Aged(tab) \ {p} : /\ newer'[e] = UnlinkAged(Ages(tab), p).nxt[e]
                                 /\ key'[e] = key[e] /\ data'[e] = data[e]

\* it is put out by the new one, which hashes to the same bucket,
Evicts(p) ==
    /\ Index(tab, key[p]) = Index(tab, key[new])
    /\ Aged(tab)' = (Aged(tab) \ {p}) \cup {new}
    /\ \A e \in (Aged(tab) \ {p}) \cup {new} :
          /\ newer'[e] = AddLast(UnlinkAged(Ages(tab), p), new).nxt[e]
          /\ key'[e] = key[e] /\ data'[e] = data[e]

\* a rehash copies an entry to the cell c,
CopiesTo(c) ==
    /\ Aged(tab)' = Aged(tab) /\ Aged(tmp)' = Aged(tmp) \cup {c}
    /\ \A e \in Aged(tab) \cup Aged(tmp) : key'[e] = key[e] /\ data'[e] = data[e]
    /\ key'[c] = key[rit] /\ data'[c] = data[rit]
    /\ \A e \in Aged(tab) : newer'[e] = newer[e]
    /\ newer' = AddLast([Ages(tmp) EXCEPT !.nxt[c] = NoCell], c).nxt

\* or the copy becomes the table.
TakesOver ==
    /\ Aged(tab)' = Aged(tmp)
    /\ \A e \in Aged(tmp) : newer'[e] = newer[e] /\ key'[e] = key[e] /\ data'[e] = data[e]

\* What holds in the phases of a call.
CallInv ==
    /\ pc = "idle" => new = NoCell
    /\ pc = "link" => new \in Cells
    /\ pc # "idle" => tab.size # 0
    /\ pc # "rehash" => tmp = NoTable
    /\ pc = "rehash" => /\ tmp.size # 0 /\ ~it.on
                        /\ rit \in Aged(tab) \cup {NoCell}
                        /\ \A c \in Aged(tmp) : \E d \in Aged(tab) : key[c] = key[d]
    /\ new # NoCell => /\ newer[new] = NoCell
                       /\ \A c \in Aged(tab) : key[c] # key[new]
    /\ pc = "link" /\ it.on => opts.limit = 0

\* An iteration i over a list by age that holds X: it has before it what a walk
\* from i.at finds.
Iterates(i, nw, X) ==
    LET T == Reach(i.at, nw, X) IN
    /\ i.at \in X \cup {NoCell}
    /\ i.seen \subseteq X /\ i.seen \cap T = {}
    /\ i.due \subseteq i.seen \cup T

\* Iterations, and that there is nothing to owe when there is none.
IterInv ==
    /\ ~it.on => it = NoIteration
    /\ Iterates(it, newer, Aged(tab))

\* What is allocated has a key.
KeyInv == \A c \in used : key[c] \in Keys

\* The inductive invariant.  None of the properties is inductive by itself: a
\* relinking keeps a list only where all pointers agree, a counter is right only
\* where no cell is in two buckets, and a rehash or an eviction frees only what
\* is in no list if every cell is accounted for.
HInv ==
    /\ TypeOK /\ TablesInv /\ MemoryExact /\ KeyInv /\ CallInv /\ IterInv

-----------------------------------------------------------------------------

\* A table keeps its order whatever the set in which walks are made.
LEMMA OrderedIntro ==
    ASSUME NEW t, NEW nx, NEW pv, NEW nw, NEW od, NEW ky, NEW ch, NEW X,
           IsTable(t, nx, pv, nw, od, ky, ch, X), NEW U, X \subseteq U
    PROVE  /\ Ordered(t, nx, pv, nw, od, ky, U)
           /\ Reach(t.oldest, nw, U) = X
           /\ ReachChains(t, nx, U) = ch
<1>1. Reach(t.oldest, nw, U) = X
  BY TableReached
<1>2. \A b \in 0 .. t.size - 1 : Reach(t.head[b], nx, U) = ch[b]
  BY ChainReached
<1>3. ReachChains(t, nx, U) = ch
  BY <1>2 DEF ReachChains, IsTable, Chained, IsArray
<1> QED BY <1>1, <1>3 DEF Ordered

\* The iteration i has the cells T before it.
LEMMA IterIntro ==
    ASSUME NEW i, NEW nw, NEW X, NEW T \in SUBSET X, Walks(i.at, nw, T),
           i.at \in X \cup {NoCell}, i.seen \subseteq X, i.seen \cap T = {},
           i.due \subseteq i.seen \cup T
    PROVE  Iterates(i, nw, X)
  BY WalkReaches DEF Iterates

\* What an iteration has before it is on the list.
LEMMA IterWalk ==
    ASSUME NEW i, NEW l, NEW X, IsList(l, X), Iterates(i, l.nxt, X)
    PROVE  LET T == Reach(i.at, l.nxt, X) IN
           /\ T \subseteq X /\ Walks(i.at, l.nxt, T)
           /\ i.at \in X \cup {NoCell} /\ i.seen \subseteq X /\ i.seen \cap T = {}
           /\ i.due \subseteq i.seen \cup T
<1>1. Links(l, X)
  BY ListLinks
<1> QED BY <1>1, ReachWalks DEF Links, Iterates

\* A caller that does not iterate owes nothing.
LEMMA IterNone ==
    ASSUME NEW nw, NEW X
    PROVE  Iterates(NoIteration, nw, X)
<1>1. Walks(NoCell, nw, {})
  BY DEF Walks, ClosedFrom
<1> QED BY <1>1, IterIntro DEF NoIteration

\* ght_first
LEMMA IterFirst ==
    ASSUME NEW l, NEW X, IsAgedList(l, X), NEW i,
           i.at = IF l.first = NoCell THEN NoCell ELSE l.nxt[l.first],
           i.seen = {l.first} \ {NoCell}, i.due = X
    PROVE  Iterates(i, l.nxt, X)
<1>1. IsList(l, X) /\ Links(l, X) /\ Walks(l.first, l.nxt, X)
  BY ListLinks, WalkAll DEF IsAgedList
<1>2. CASE l.first = NoCell
  <2>1. X = {}
    BY <1>1, <1>2, NoFirst
  <2>2. Walks(i.at, l.nxt, {})
    BY <1>2 DEF Walks, ClosedFrom
  <2> QED BY <1>2, <2>1, <2>2, IterIntro
<1>3. CASE l.first # NoCell
  <2>1. l.first \in X /\ l.nxt[l.first] \in X \cup {NoCell}
    BY <1>1, <1>3 DEF Links
  <2>2. Walks(l.nxt[l.first], l.nxt, X \ {l.first})
    BY <1>1, <2>1, WalkStep
  <2>3. /\ X \ {l.first} \in SUBSET X /\ i.at = l.nxt[l.first]
        /\ i.seen = {l.first} /\ i.due \subseteq i.seen \cup (X \ {l.first})
    BY <1>3
  <2> QED BY <2>1, <2>2, <2>3, IterIntro
<1> QED BY <1>2, <1>3

\* ght_next
LEMMA IterAdvance ==
    ASSUME NEW l, NEW X, IsAgedList(l, X), NEW i, Iterates(i, l.nxt, X),
           i.at # NoCell, NEW j, j.at = l.nxt[i.at],
           j.seen = i.seen \cup {i.at}, j.due = i.due
    PROVE  Iterates(j, l.nxt, X)
<1> DEFINE T == Reach(i.at, l.nxt, X)
<1>1. IsList(l, X) /\ Links(l, X)
  BY ListLinks DEF IsAgedList
<1>2. /\ T \subseteq X /\ Walks(i.at, l.nxt, T)
      /\ i.at \in X /\ i.seen \subseteq X /\ i.seen \cap T = {}
      /\ i.due \subseteq i.seen \cup T
  BY <1>1, IterWalk
<1> HIDE DEF T
<1>3. i.at \in T /\ Walks(l.nxt[i.at], l.nxt, T \ {i.at})
  BY <1>1, <1>2, WalkStep
<1>4. /\ T \ {i.at} \in SUBSET X /\ j.at \in X \cup {NoCell} /\ j.seen \subseteq X
      /\ j.seen \cap (T \ {i.at}) = {} /\ j.due \subseteq j.seen \cup (T \ {i.at})
  BY <1>1, <1>2, <1>3 DEF Links
<1> QED BY <1>3, <1>4, IterIntro

\* An insertion during an iteration.
LEMMA IterInsert ==
    ASSUME NEW l, NEW X, IsAgedList(l, X), NEW i, Iterates(i, l.nxt, X),
           NEW c \in Cells, c \notin X, l.nxt[c] = NoCell
    PROVE  Iterates(i, AddLast(l, c).nxt, X \cup {c})
<1> DEFINE T == Reach(i.at, l.nxt, X)
           S == IF i.at = NoCell THEN {} ELSE T \cup {c}
<1>1. IsList(l, X)
  BY DEF IsAgedList
<1>2. /\ T \subseteq X /\ Walks(i.at, l.nxt, T)
      /\ i.at \in X \cup {NoCell} /\ i.seen \subseteq X /\ i.seen \cap T = {}
      /\ i.due \subseteq i.seen \cup T
  BY <1>1, IterWalk
<1>3. i.at = NoCell => T = {}
  <2>1. NoCell \notin X
    BY <1>1, CellsAssumption DEF IsList
  <2> QED BY <1>2, <2>1, WalkNone
<1> HIDE DEF T
<1>4. Walks(i.at, AddLast(l, c).nxt, S)
  BY <1>2, WalkAddLast
<1>5. /\ S \in SUBSET (X \cup {c}) /\ i.at \in (X \cup {c}) \cup {NoCell}
      /\ i.seen \subseteq X \cup {c} /\ i.seen \cap S = {} /\ i.due \subseteq i.seen \cup S
  BY <1>2, <1>3
<1> QED BY <1>4, <1>5, IterIntro

\* The removal of an entry that the iteration has passed.
LEMMA IterRemove ==
    ASSUME NEW l, NEW X, IsAgedList(l, X), NEW i, Iterates(i, l.nxt, X),
           NEW p \in X, p \in i.seen, NEW j, j.at = i.at,
           j.seen = i.seen \ {p}, j.due = i.due \ {p}
    PROVE  Iterates(j, UnlinkAged(l, p).nxt, X \ {p})
<1> DEFINE T == Reach(i.at, l.nxt, X)
<1>1. IsList(l, X) /\ Links(l, X)
  BY ListLinks DEF IsAgedList
<1>2. /\ T \subseteq X /\ Walks(i.at, l.nxt, T)
      /\ i.at \in X \cup {NoCell} /\ i.seen \subseteq X /\ i.seen \cap T = {}
      /\ i.due \subseteq i.seen \cup T
  BY <1>1, IterWalk
<1> HIDE DEF T
<1>3. i.at # p
  BY <1>1, <1>2, WalkStart DEF Links
<1>4. Walks(i.at, Unlink(l, p).nxt, T \ {p})
  BY <1>1, <1>2, <1>3, WalkUnlink
<1>5. UnlinkAged(l, p).nxt = Unlink(l, p).nxt
  BY DEF UnlinkAged
<1>6. /\ T \ {p} \in SUBSET (X \ {p}) /\ j.at \in (X \ {p}) \cup {NoCell}
      /\ j.seen \subseteq X \ {p} /\ j.seen \cap (T \ {p}) = {}
      /\ j.due \subseteq j.seen \cup (T \ {p})
  BY <1>2, <1>3
<1> QED BY <1>4, <1>5, <1>6, IterIntro

\* Cells outside of the list do not matter for an iteration.
LEMMA IterKept ==
    ASSUME NEW l, NEW X, IsList(l, X), NEW i, Iterates(i, l.nxt, X),
           NEW nw, \A c \in X : nw[c] = l.nxt[c]
    PROVE  Iterates(i, nw, X)
<1> DEFINE T == Reach(i.at, l.nxt, X)
<1>1. /\ T \subseteq X /\ Walks(i.at, l.nxt, T)
      /\ i.at \in X \cup {NoCell} /\ i.seen \subseteq X /\ i.seen \cap T = {}
      /\ i.due \subseteq i.seen \cup T
  BY IterWalk
<1> HIDE DEF T
<1>2. Walks(i.at, nw, T)
  BY <1>1 DEF Walks, ClosedFrom
<1> QED BY <1>1, <1>2, IterIntro

-----------------------------------------------------------------------------
(* What the invariant says, and that it holds at the start.                *)

\* The invariant, taken apart.
LEMMA InvTables ==
    ASSUME HInv
    PROVE  /\ IsTable(tab, next, prev, newer, older, key, ReachChains(tab, next, used), Aged(tab))
           /\ IsTable(tmp, next, prev, newer, older, key, ReachChains(tmp, next, used), Aged(tmp))
           /\ Aged(tab) \subseteq used /\ Aged(tmp) \subseteq used /\ used \subseteq Cells
           /\ NoCell \notin used
           /\ next \in Pointers /\ prev \in Pointers /\ newer \in Pointers
           /\ older \in Pointers
           /\ IsAgedList(Ages(tab), Aged(tab)) /\ IsAgedList(Ages(tmp), Aged(tmp))
<1>1. /\ IsTable(tab, next, prev, newer, older, key, ReachChains(tab, next, used), Aged(tab))
      /\ IsTable(tmp, next, prev, newer, older, key, ReachChains(tmp, next, used), Aged(tmp))
  BY DEF HInv, TablesInv, Ordered, Aged
<1>2. Aged(tab) \subseteq used /\ Aged(tmp) \subseteq used
  BY DEF Aged, Reach
<1>3. /\ next \in Pointers /\ prev \in Pointers /\ newer \in Pointers /\ older \in Pointers
      /\ used \subseteq Cells
  BY DEF HInv, TypeOK, Pointers, PointerType, CellOrNone
<1>4. IsAgedList(Ages(tab), Aged(tab)) /\ IsAgedList(Ages(tmp), Aged(tmp))
  BY <1>1 DEF IsTable, Ages, AgeList
<1> QED BY <1>1, <1>2, <1>3, <1>4, CellsAssumption

\* search_in_bucket finds the entry of the key wherever it is in the table.
LEMMA FoundExact ==
    ASSUME NEW t, t.size \in Nat \ {0},
           IsTable(t, next, prev, newer, older, key, ReachChains(t, next, used), Aged(t)),
           NEW k \in Keys
    PROVE  /\ Index(t, k) \in 0 .. t.size - 1
           /\ Chain(t, Index(t, k)) = ReachChains(t, next, used)[Index(t, k)]
           /\ Found(t, k) = {c \in Aged(t) : key[c] = k}
<1> DEFINE b == Index(t, k)
           ch == ReachChains(t, next, used)
<1>1. b \in 0 .. t.size - 1
  BY HashType DEF Index
<1>2. \A d \in 0 .. t.size - 1 : ch[d] = Chain(t, d)
  BY DEF ReachChains, Chain
<1> HIDE DEF ch
<1>3. Aged(t) = UNION {ch[d] : d \in 0 .. t.size - 1}
  BY DEF IsTable, ch
<1>4. \A d \in 0 .. t.size - 1 : HashTo(ch[d], key, t.size, d)
  BY DEF IsTable, Chained, ch
<1>5. \A c \in Aged(t) : key[c] = k => c \in ch[b]
  BY <1>3, <1>4 DEF HashTo, Index
<1>6. ch[b] \subseteq Aged(t)
  BY <1>1, <1>3
<1> QED BY <1>1, <1>2, <1>5, <1>6 DEF Found, ch

\* fn_alloc returns a free cell.
LEMMA FreshFree ==
    ASSUME NEW k, used \subseteq Cells, used # Cells
    PROVE  Fresh(k) \in Cells \ used
  BY DEF Fresh

\* A table is no larger than the bound.
LEMMA SizeForBound ==
    ASSUME NEW n \in 1 .. MaxSize
    PROVE  SizeFor(n) \in 1 .. MaxSize
  BY MaxSizeAssumption

\* A table that is created is empty, in order, and of the size asked for.
LEMMA Emptied ==
    ASSUME NEW n \in 0 .. MaxSize, NEW t \in {NoTable, EmptyTable(n)}, t.size = n,
           NEW nx \in Pointers, NEW pv \in Pointers, NEW nw \in Pointers,
           NEW od \in Pointers, NEW ky, NEW U
    PROVE  /\ Ordered(t, nx, pv, nw, od, ky, U)
           /\ Reach(t.oldest, nw, U) = {}
<1>1. IsTable(t, nx, pv, nw, od, ky, NoChains(n), {})
  BY TableEmpty
<1> QED BY <1>1, OrderedIntro

\* A table keeps its cells when those it has not got change.
LEMMA OrderedKept ==
    ASSUME NEW t, NEW nx, NEW pv, NEW nw, NEW od, NEW ky, NEW ch, NEW X,
           IsTable(t, nx, pv, nw, od, ky, ch, X),
           NEW nx2 \in Pointers, NEW pv2 \in Pointers, NEW nw2 \in Pointers,
           NEW od2 \in Pointers, NEW ky2,
           \A c \in X : /\ nx2[c] = nx[c] /\ pv2[c] = pv[c] /\ ky2[c] = ky[c]
                        /\ nw2[c] = nw[c] /\ od2[c] = od[c],
           NEW U, X \subseteq U
    PROVE  /\ Ordered(t, nx2, pv2, nw2, od2, ky2, U)
           /\ Reach(t.oldest, nw2, U) = X
<1>1. IsTable(t, nx2, pv2, nw2, od2, ky2, ch, X)
  BY TableKept
<1> QED BY <1>1, OrderedIntro

-----------------------------------------------------------------------------

\* A table in order is sound and its counters are exact.
LEMMA OrderedSound ==
    ASSUME NEW t,
           IsTable(t, next, prev, newer, older, key, ReachChains(t, next, used), Aged(t))
    PROVE  /\ TableSound(t)
           /\ t.items = Cardinality(Aged(t))
           /\ \A b \in Buckets(t) : t.nr[b] = Cardinality(Chain(t, b))
<1> DEFINE ch == ReachChains(t, next, used)
           X == Aged(t)
<1>1. \A b \in Buckets(t) : ch[b] = Chain(t, b)
  BY DEF ReachChains, Chain, Buckets
<1> HIDE DEF ch, X
<1>2. IsTable(t, next, prev, newer, older, key, ch, X)
  BY DEF ch, X
<1>3. ASSUME NEW b \in Buckets(t)
      PROVE  /\ Paired(Bucket(t, b), Chain(t, b))
             /\ \A c \in Chain(t, b) : Index(t, key[c]) = b
  <2>1. IsList(BucketList(t.head, next, prev, b), ch[b]) /\ HashTo(ch[b], key, t.size, b)
    BY <1>2 DEF IsTable, Chained, Buckets
  <2> QED BY <1>1, <2>1 DEF IsList, BucketList, Bucket, HashTo, Index
<1>4. Paired(Ages(t), X) /\ Ended(Ages(t), X)
  BY <1>2 DEF IsTable, IsAgedList, IsList, AgeList, Ages
<1>5. X = UNION {Chain(t, b) : b \in Buckets(t)}
  BY <1>1, <1>2 DEF IsTable, Buckets
<1>6. \A c, d \in X : key[c] = key[d] => c = d
  BY <1>2 DEF IsTable, KeysDiffer
<1>7. t.items = Cardinality(X) /\ \A b \in Buckets(t) : t.nr[b] = Cardinality(Chain(t, b))
  BY <1>1, <1>2 DEF IsTable, Buckets
<1> QED BY <1>3, <1>4, <1>5, <1>6, <1>7 DEF TableSound, X

\* The invariant implies the properties.
LEMMA InvImplies ==
    HInv => TypeOK /\ ListsSound /\ CountsExact /\ MemoryExact /\ IterationComplete
<1> SUFFICES ASSUME HInv
             PROVE  ListsSound /\ CountsExact /\ IterationComplete
  BY DEF HInv
<1>1. ListsSound /\ CountsExact
  BY InvTables, OrderedSound DEF ListsSound, CountsExact
<1>2. IterationComplete
  <2> DEFINE X == Aged(tab)
             T == Reach(it.at, newer, X)
  <2>1. IsList(Ages(tab), X) /\ Ages(tab).nxt = newer /\ X \subseteq used
    BY InvTables DEF IsAgedList, Ages
  <2>2. Iterates(it, newer, X)
    BY DEF HInv, IterInv
  <2> HIDE DEF X
  <2>3. /\ T \subseteq X /\ Walks(it.at, newer, T) /\ it.at \in X \cup {NoCell}
        /\ it.due \subseteq it.seen \cup T
    <3>1. Iterates(it, Ages(tab).nxt, X)
      BY <2>1, <2>2
    <3> QED BY <2>1, <3>1, IterWalk
  <2>4. Reach(it.at, newer, used) = T
    BY <2>1, <2>3, WalkReaches
  <2> QED BY <2>3, <2>4 DEF IterationComplete, X
<1> QED BY <1>1, <1>2

\* It holds at the start.
LEMMA InitInv == Init => HInv
<1> SUFFICES ASSUME Init PROVE HInv
  OBVIOUS
<1>1. /\ next \in Pointers /\ prev \in Pointers /\ newer \in Pointers
      /\ older \in Pointers
  BY DEF Init, Pointers, CellOrNone
<1>2. 0 \in 0 .. MaxSize /\ NoTable.size = 0
  BY SizesAssumption DEF NoTable
<1>3. /\ Ordered(NoTable, next, prev, newer, older, key, used)
      /\ Reach(NoTable.oldest, newer, used) = {}
  BY <1>1, <1>2, Emptied
<1>4. TablesInv /\ Aged(tab) = {} /\ Aged(tmp) = {}
  BY <1>3 DEF Init, TablesInv, Aged
<1>5. NoTable \in TableType(NoTable.size)
  BY <1>3 DEF Ordered, IsTable
<1>6. TypeOK
  BY <1>1, <1>5 DEF Init, TypeOK, Pointers, PointerType, CellOrNone, Defaults, Settings,
     Heuristics, NoIteration
<1>7. MemoryExact /\ KeyInv
  BY <1>4 DEF Init, MemoryExact, KeyInv
<1>8. CallInv
  BY DEF Init, CallInv, NoIteration
<1>9. IterInv
  BY <1>4, IterNone DEF Init, IterInv
<1> QED BY <1>4, <1>6, <1>7, <1>8, <1>9 DEF HInv

-----------------------------------------------------------------------------
(* The calls that leave the cells alone, and the iterations.               *)

\* A table without buckets holds nothing.
LEMMA NoBuckets ==
    ASSUME HInv, NEW t \in {tab, tmp}, t.size = 0
    PROVE  Aged(t) = {}
<1>1. IsTable(t, next, prev, newer, older, key, ReachChains(t, next, used), Aged(t))
  BY InvTables
<1>2. 0 .. t.size - 1 = {}
  OBVIOUS
<1> QED BY <1>1, <1>2 DEF IsTable

\* The variables that are not in the tables have their types after a step.
LEMMA TypeNext ==
    ASSUME TablesInv', next' \in Pointers, prev' \in Pointers,
           newer' \in Pointers, older' \in Pointers,
           key' \in [Cells -> Keys \cup {NoKey}], data' \in [Cells -> Data \cup {NoData}],
           used' \subseteq Cells, opts' \in Settings, pc' \in {"idle", "rehash", "link"},
           new' \in CellOrNone, rit' \in CellOrNone, lost' \subseteq Keys,
           it' \in [on : BOOLEAN, at : CellOrNone, seen : SUBSET Cells, due : SUBSET Cells]
    PROVE  TypeOK'
<1>1. tab' \in TableType(tab'.size) /\ tmp' \in TableType(tmp'.size)
  BY DEF TablesInv, Ordered, IsTable
<1> QED BY <1>1 DEF TypeOK, Pointers, PointerType, CellOrNone

\* The types of the variables.
LEMMA InvTypes ==
    ASSUME HInv
    PROVE  /\ next \in Pointers /\ prev \in Pointers
           /\ newer \in Pointers /\ older \in Pointers
           /\ key \in [Cells -> Keys \cup {NoKey}] /\ data \in [Cells -> Data \cup {NoData}]
           /\ used \subseteq Cells /\ opts \in Settings
           /\ pc \in {"idle", "rehash", "link"}
           /\ new \in CellOrNone /\ rit \in CellOrNone /\ lost \subseteq Keys
           /\ it \in [on : BOOLEAN, at : CellOrNone,
                      seen : SUBSET Cells, due : SUBSET Cells]
  BY DEF HInv, TypeOK, Pointers, PointerType, CellOrNone

\* A step that leaves the tables and the heap alone.
LEMMA TablesAlone ==
    ASSUME HInv, UNCHANGED <<tab, tmp, linkVars, heapVars>>
    PROVE  TablesInv' /\ KeyInv' /\ Aged(tab)' = Aged(tab) /\ Aged(tmp)' = Aged(tmp)
<1>1. TablesInv' /\ KeyInv'
  BY DEF HInv, TablesInv, KeyInv, linkVars, ageVars, heapVars
<1>2. Aged(tab)' = Aged(tab) /\ Aged(tmp)' = Aged(tmp)
  BY DEF Aged, linkVars, ageVars, heapVars
<1> QED BY <1>1, <1>2

\* ght_create
LEMMA CreateInv ==
    ASSUME HInv, NEW n \in Sizes, Create(n)
    PROVE  HInv' /\ Aged(tab) = {} /\ Aged(tab)' = {}
<1> DEFINE size == SizeFor(n)
<1>1. size \in 0 .. MaxSize /\ 0 \in 0 .. MaxSize
  BY SizeForBound, MaxSizeAssumption, SizesAssumption
<1>2. /\ pc = "idle" /\ tab.size = 0 /\ tab' \in {NoTable, EmptyTable(size)}
      /\ UNCHANGED <<rehashVars, linkVars, heapVars, callVars, it>>
  BY DEF Create
<1>3. /\ next' = next /\ prev' = prev /\ newer' = newer /\ older' = older
      /\ key' = key /\ used' = used /\ data' = data
      /\ tmp' = tmp /\ rit' = rit /\ lost' = lost /\ it' = it /\ pc' = pc /\ new' = new
      /\ opts' = Defaults
  BY <1>2 DEF Create, rehashVars, linkVars, ageVars, heapVars, callVars
<1>4. Aged(tab) = {}
  BY <1>2, NoBuckets
<1>5. NoTable.size = 0 /\ EmptyTable(size).size = size
  BY DEF NoTable, EmptyTable
<1>6. /\ Ordered(tab', next, prev, newer, older, key, used)
      /\ Reach(tab'.oldest, newer, used) = {}
  <2>1. CASE tab' = NoTable
    BY <1>1, <1>5, <2>1, InvTypes, Emptied
  <2>2. CASE tab' = EmptyTable(size)
    BY <1>1, <1>5, <2>2, InvTypes, Emptied
  <2> QED BY <1>2, <2>1, <2>2
<1>7. TablesInv' /\ Aged(tab)' = {} /\ Aged(tmp)' = Aged(tmp)
  BY <1>3, <1>6 DEF HInv, TablesInv, Aged
<1>8. MemoryExact' /\ KeyInv' /\ IterInv'
  BY <1>3, <1>4, <1>7 DEF HInv, MemoryExact, KeyInv, IterInv
<1>9. CallInv'
  BY <1>2, <1>3 DEF HInv, CallInv
<1>10. TypeOK'
  <2>1. Defaults \in Settings
    BY DEF Defaults, Settings, Heuristics
  <2> QED BY <1>3, <1>7, <2>1, TypeNext, InvTypes
<1> QED BY <1>4, <1>7, <1>8, <1>9, <1>10 DEF HInv

\* ght_set_heuristics and the other settings
LEMMA ConfigureInv ==
    ASSUME HInv, Configure
    PROVE  HInv'
<1>1. /\ Idle /\ opts' \in Settings
      /\ tab' = tab /\ tmp' = tmp /\ UNCHANGED <<tab, tmp, linkVars, heapVars>>
      /\ next' = next /\ prev' = prev /\ newer' = newer /\ older' = older
      /\ key' = key /\ used' = used /\ data' = data
      /\ rit' = rit /\ lost' = lost /\ it' = it /\ pc' = pc /\ new' = new
  BY ConfigsAssumption DEF Configure, rehashVars, linkVars, ageVars, heapVars, callVars
<1>2. TablesInv' /\ KeyInv' /\ Aged(tab)' = Aged(tab) /\ Aged(tmp)' = Aged(tmp)
  BY <1>1, TablesAlone
<1>3. MemoryExact' /\ IterInv'
  BY <1>1, <1>2 DEF HInv, MemoryExact, IterInv
<1>4. CallInv'
  BY <1>1 DEF HInv, CallInv, Idle
<1>5. TypeOK'
  BY <1>1, <1>2, TypeNext, InvTypes
<1> QED BY <1>2, <1>3, <1>4, <1>5 DEF HInv

\* The table that a rehash begins to fill is empty.
LEMMA BegunEmpty ==
    ASSUME NEW n \in 1 .. MaxSize, BeginRehash(n), next' \in Pointers,
           prev' \in Pointers, newer' \in Pointers, older' \in Pointers
    PROVE  /\ Ordered(tmp', next', prev', newer', older', key', used')
           /\ Aged(tmp)' = {} /\ tmp'.size # 0
<1> DEFINE size == SizeFor(n)
<1>1. size \in 0 .. MaxSize /\ size # 0
  BY SizeForBound
<1>2. tmp' = EmptyTable(size)
  BY DEF BeginRehash
<1>3. EmptyTable(size).size = size
  BY DEF EmptyTable
<1> HIDE DEF size
<1>4. Ordered(tmp', next', prev', newer', older', key', used')
      /\ Reach(tmp'.oldest, newer', used') = {}
  BY <1>1, <1>2, <1>3, Emptied
<1> QED BY <1>1, <1>2, <1>3, <1>4 DEF Aged

\* ght_rehash begins.
LEMMA RehashInv ==
    ASSUME HInv, NEW n \in Sizes, Rehash(n)
    PROVE  HInv' /\ Aged(tab)' = Aged(tab) /\ Aged(tmp)' = {}
<1>1. /\ Idle /\ ~it.on /\ BeginRehash(n)
      /\ pc' = "rehash" /\ rit' = tab.oldest /\ lost' = {} /\ tab' = tab
      /\ next' = next /\ prev' = prev /\ newer' = newer /\ older' = older
      /\ key' = key /\ used' = used /\ data' = data /\ it' = it /\ new' = new
      /\ opts' = opts
  BY DEF Rehash, BeginRehash, linkVars, ageVars, heapVars
<1>2. /\ Ordered(tmp', next', prev', newer', older', key', used')
      /\ Aged(tmp)' = {} /\ tmp'.size # 0
  <2>1. n \in 1 .. MaxSize
    BY MaxSizeAssumption
  <2>2. next' \in Pointers /\ prev' \in Pointers /\ newer' \in Pointers /\ older' \in Pointers
    BY <1>1, InvTypes
  <2> QED BY <1>1, <2>1, <2>2, BegunEmpty
<1>3. Aged(tab)' = Aged(tab) /\ TablesInv'
  BY <1>1, <1>2 DEF HInv, TablesInv, Aged
<1>4. Aged(tmp) = {}
  <2>1. tmp.size = 0
    BY <1>1 DEF HInv, CallInv, Idle, NoTable
  <2> QED BY <2>1, NoBuckets
<1>5. MemoryExact' /\ KeyInv' /\ IterInv'
  BY <1>1, <1>2, <1>3, <1>4 DEF HInv, MemoryExact, KeyInv, IterInv
<1>6. tab.oldest \in Aged(tab) \cup {NoCell}
  BY InvTables, ListLinks DEF IsAgedList, Links, Ages
<1>7. CallInv'
  BY <1>1, <1>2, <1>3, <1>6 DEF HInv, CallInv, Idle
<1>8. TypeOK'
  <2>1. tab.oldest \in CellOrNone
    BY <1>6, InvTables DEF CellOrNone
  <2> QED BY <1>1, <1>3, <2>1, TypeNext, InvTypes
<1> QED BY <1>2, <1>3, <1>5, <1>7, <1>8 DEF HInv

\* ght_rehash: an entry is skipped.
LEMMA RehashSkipInv ==
    ASSUME HInv, RehashSkip
    PROVE  HInv'
<1>1. /\ pc = "rehash" /\ rit # NoCell /\ rit' = newer[rit] /\ lost' = lost \cup {key[rit]}
      /\ tab' = tab /\ tmp' = tmp /\ UNCHANGED <<tab, tmp, linkVars, heapVars>>
      /\ next' = next /\ prev' = prev /\ newer' = newer /\ older' = older
      /\ key' = key /\ used' = used /\ data' = data
      /\ it' = it /\ pc' = pc /\ new' = new /\ opts' = opts
  BY DEF RehashSkip, linkVars, ageVars, heapVars, callVars
<1>2. TablesInv' /\ KeyInv' /\ Aged(tab)' = Aged(tab) /\ Aged(tmp)' = Aged(tmp)
  BY <1>1, TablesAlone
<1>3. MemoryExact' /\ IterInv'
  BY <1>1, <1>2 DEF HInv, MemoryExact, IterInv
<1>4. rit \in Aged(tab) /\ key[rit] \in Keys /\ newer[rit] \in Aged(tab) \cup {NoCell}
  <2>1. rit \in Aged(tab)
    BY <1>1 DEF HInv, CallInv
  <2>2. key[rit] \in Keys
    BY <2>1, InvTables DEF HInv, KeyInv
  <2>3. newer[rit] \in Aged(tab) \cup {NoCell}
    BY <2>1, InvTables, ListLinks DEF IsAgedList, Links, Ages
  <2> QED BY <2>1, <2>2, <2>3
<1>5. CallInv'
  BY <1>1, <1>2, <1>4 DEF HInv, CallInv
<1>6. TypeOK'
  <2>1. newer[rit] \in CellOrNone /\ lost' \subseteq Keys
    BY <1>1, <1>4, InvTables, InvTypes DEF CellOrNone
  <2> QED BY <1>1, <1>2, <2>1, TypeNext, InvTypes
<1> QED BY <1>2, <1>3, <1>5, <1>6 DEF HInv

\* A step of an iteration, which leaves everything else alone.
LEMMA IterationInv ==
    ASSUME HInv, Idle, Iterates(it', newer, Aged(tab)), ~it'.on => it' = NoIteration,
           it' \in [on : BOOLEAN, at : CellOrNone, seen : SUBSET Cells, due : SUBSET Cells],
           UNCHANGED <<tab, rehashVars, linkVars, heapVars, opts, callVars>>
    PROVE  HInv'
<1>1. /\ tab' = tab /\ tmp' = tmp /\ UNCHANGED <<tab, tmp, linkVars, heapVars>>
      /\ next' = next /\ prev' = prev /\ newer' = newer /\ older' = older
      /\ key' = key /\ used' = used /\ data' = data
      /\ rit' = rit /\ lost' = lost /\ pc' = pc /\ new' = new /\ opts' = opts
  BY DEF rehashVars, linkVars, ageVars, heapVars, callVars
<1>2. TablesInv' /\ KeyInv' /\ Aged(tab)' = Aged(tab) /\ Aged(tmp)' = Aged(tmp)
  BY <1>1, TablesAlone
<1>3. MemoryExact'
  BY <1>1, <1>2 DEF HInv, MemoryExact
<1>4. IterInv'
  BY <1>1, <1>2 DEF IterInv
<1>5. CallInv'
  BY <1>1 DEF HInv, CallInv, Idle
<1>6. TypeOK'
  BY <1>1, <1>2, TypeNext, InvTypes
<1> QED BY <1>2, <1>3, <1>4, <1>5, <1>6 DEF HInv

\* ght_first
LEMMA FirstInv ==
    ASSUME HInv, First
    PROVE  HInv'
<1>1. /\ Idle /\ it'.at = NextOf(tab.oldest) /\ it'.seen = {tab.oldest} \ {NoCell}
      /\ it'.due = Aged(tab) /\ it'.on
      /\ it' = [on |-> TRUE, at |-> NextOf(tab.oldest),
              seen |-> {tab.oldest} \ {NoCell}, due |-> Aged(tab)]
      /\ UNCHANGED <<tab, rehashVars, linkVars, heapVars, opts, callVars>>
  BY DEF First
<1>2. /\ IsAgedList(Ages(tab), Aged(tab)) /\ Ages(tab).first = tab.oldest
      /\ Ages(tab).nxt = newer
  BY InvTables DEF Ages
<1>3. Iterates(it', newer, Aged(tab))
  <2>1. Iterates(it', Ages(tab).nxt, Aged(tab))
    BY <1>1, <1>2, IterFirst DEF NextOf
  <2> QED BY <1>2, <2>1
<1>4. it' \in [on : BOOLEAN, at : CellOrNone, seen : SUBSET Cells, due : SUBSET Cells]
  <2>1. it'.at \in CellOrNone /\ it'.seen \subseteq Cells /\ it'.due \subseteq Cells
    BY <1>1, <1>3, InvTables DEF Iterates, CellOrNone
  <2> QED BY <1>1, <2>1
<1> QED BY <1>1, <1>3, <1>4, IterationInv

\* ght_next
LEMMA AdvanceInv ==
    ASSUME HInv, Advance
    PROVE  HInv'
<1>1. /\ Idle /\ it.on /\ it.at # NoCell
      /\ it' = [it EXCEPT !.at = NextOf(@), !.seen = @ \cup {it.at}]
      /\ UNCHANGED <<tab, rehashVars, linkVars, heapVars, opts, callVars>>
  BY DEF Advance
<1>2. /\ it'.at = newer[it.at] /\ it'.seen = it.seen \cup {it.at} /\ it'.due = it.due
      /\ it'.on = it.on
      /\ it' = [on |-> it.on, at |-> it'.at, seen |-> it'.seen, due |-> it.due]
  BY <1>1, InvTypes DEF NextOf
<1>3. /\ IsAgedList(Ages(tab), Aged(tab)) /\ Ages(tab).nxt = newer
  BY InvTables DEF Ages
<1>4. Iterates(it, newer, Aged(tab))
  BY DEF HInv, IterInv
<1>5. Iterates(it', newer, Aged(tab))
  <2>1. Iterates(it', Ages(tab).nxt, Aged(tab))
    BY <1>1, <1>2, <1>3, <1>4, IterAdvance
  <2> QED BY <1>3, <2>1
<1>6. it' \in [on : BOOLEAN, at : CellOrNone, seen : SUBSET Cells, due : SUBSET Cells]
  <2>1. it'.at \in CellOrNone /\ it'.seen \subseteq Cells
    BY <1>5, InvTables DEF Iterates, CellOrNone
  <2> QED BY <1>2, <2>1, InvTypes
<1> QED BY <1>1, <1>2, <1>5, <1>6, IterationInv

\* A caller has left its loop.
LEMMA EndIterationInv ==
    ASSUME HInv, EndIteration
    PROVE  HInv'
<1>1. /\ Idle /\ it' = NoIteration
      /\ UNCHANGED <<tab, rehashVars, linkVars, heapVars, opts, callVars>>
  BY DEF EndIteration
<1>2. Iterates(it', newer, Aged(tab))
  BY <1>1, IterNone
<1>3. it' \in [on : BOOLEAN, at : CellOrNone, seen : SUBSET Cells, due : SUBSET Cells]
  BY <1>1 DEF NoIteration, CellOrNone
<1> QED BY <1>1, <1>2, <1>3, IterationInv

-----------------------------------------------------------------------------
(* Freeing all entries, and the first part of an insertion.                *)

\* Nothing happens.
LEMMA StutterInv ==
    ASSUME HInv, UNCHANGED vars
    PROVE  HInv'
<1>1. /\ tab' = tab /\ tmp' = tmp /\ UNCHANGED <<tab, tmp, linkVars, heapVars>>
      /\ next' = next /\ prev' = prev /\ newer' = newer /\ older' = older
      /\ key' = key /\ used' = used /\ data' = data /\ opts' = opts
      /\ rit' = rit /\ lost' = lost /\ it' = it /\ pc' = pc /\ new' = new
  BY DEF vars, rehashVars, linkVars, ageVars, heapVars, callVars
<1>2. TablesInv' /\ KeyInv' /\ Aged(tab)' = Aged(tab) /\ Aged(tmp)' = Aged(tmp)
  BY <1>1, TablesAlone
<1>3. MemoryExact' /\ IterInv' /\ CallInv'
  BY <1>1, <1>2 DEF HInv, MemoryExact, IterInv, CallInv
<1>4. TypeOK'
  BY <1>1, <1>2, TypeNext, InvTypes
<1> QED BY <1>2, <1>3, <1>4 DEF HInv

\* A table stays in order in a step that leaves its cells alone.
LEMMA TableStays ==
    ASSUME NEW t,
           IsTable(t, next, prev, newer, older, key, ReachChains(t, next, used), Aged(t)),
           next' \in Pointers, prev' \in Pointers, newer' \in Pointers, older' \in Pointers,
           Aged(t) \subseteq used',
           \A c \in Aged(t) :
              /\ next'[c] = next[c] /\ prev'[c] = prev[c] /\ key'[c] = key[c]
              /\ newer'[c] = newer[c] /\ older'[c] = older[c]
    PROVE  /\ Ordered(t, next', prev', newer', older', key', used')
           /\ Reach(t.oldest, newer', used') = Aged(t)
<1> DEFINE ch == ReachChains(t, next, used)
           X == Aged(t)
<1>1. IsTable(t, next, prev, newer, older, key, ch, X)
  OBVIOUS
<1>2. \A c \in X : /\ next'[c] = next[c] /\ prev'[c] = prev[c] /\ key'[c] = key[c]
                   /\ newer'[c] = newer[c] /\ older'[c] = older[c]
  OBVIOUS
<1>3. X \subseteq used'
  OBVIOUS
<1>4. Ordered(t, next', prev', newer', older', key', used')
      /\ Reach(t.oldest, newer', used') = X
  <2> HIDE DEF ch, X
  <2>1. IsTable(t, next', prev', newer', older', key', ch, X)
    BY <1>1, <1>2, TableKept
  <2> QED BY <1>3, <2>1, OrderedIntro
<1> QED BY <1>4

\* What freeing cells leaves: the pointers, keys and data of the others.
LEMMA FreedCells ==
    ASSUME HInv, NEW S, NEW l, NEW a, Free(S, l, a),
           l.nxt \in Pointers, l.prv \in Pointers, a.nxt \in Pointers, a.prv \in Pointers
    PROVE  /\ next' \in Pointers /\ prev' \in Pointers
           /\ newer' \in Pointers /\ older' \in Pointers
           /\ \A c \in Cells \ S : /\ next'[c] = l.nxt[c] /\ prev'[c] = l.prv[c]
                                   /\ newer'[c] = a.nxt[c] /\ older'[c] = a.prv[c]
                                   /\ key'[c] = key[c] /\ data'[c] = data[c]
           /\ used' = used \ S
           /\ key' \in [Cells -> Keys \cup {NoKey}] /\ data' \in [Cells -> Data \cup {NoData}]
           /\ it'.on = it.on /\ it'.at = it.at
           /\ it'.seen = it.seen \ S /\ it'.due = it.due \ S
           /\ it' = [on |-> it.on, at |-> it.at, seen |-> it.seen \ S, due |-> it.due \ S]
<1>1. /\ next' = Wiped(l.nxt, S, NoCell) /\ prev' = Wiped(l.prv, S, NoCell)
      /\ newer' = Wiped(a.nxt, S, NoCell) /\ older' = Wiped(a.prv, S, NoCell)
      /\ used' = used \ S /\ key' = Wiped(key, S, NoKey) /\ data' = Wiped(data, S, NoData)
      /\ it' = [it EXCEPT !.seen = @ \ S, !.due = @ \ S]
  BY DEF Free, SetPointers
<1>2. \A f \in Pointers : Wiped(f, S, NoCell) \in Pointers
  BY DEF Wiped, Pointers, CellOrNone
<1>3. key' \in [Cells -> Keys \cup {NoKey}] /\ data' \in [Cells -> Data \cup {NoData}]
  BY <1>1, InvTypes DEF Wiped
<1>4. \A c \in Cells \ S : /\ next'[c] = l.nxt[c] /\ prev'[c] = l.prv[c]
                           /\ newer'[c] = a.nxt[c] /\ older'[c] = a.prv[c]
                           /\ key'[c] = key[c] /\ data'[c] = data[c]
  BY <1>1 DEF Wiped
<1>5. /\ it'.on = it.on /\ it'.at = it.at
      /\ it'.seen = it.seen \ S /\ it'.due = it.due \ S
      /\ it' = [on |-> it.on, at |-> it.at, seen |-> it.seen \ S, due |-> it.due \ S]
  BY <1>1, InvTypes
<1> QED BY <1>1, <1>2, <1>3, <1>4, <1>5

\* free_entry_chain of every bucket frees the entries of the table, and no others.
LEMMA FreedChains ==
    ASSUME HInv, FreeChains
    PROVE  /\ next' \in Pointers /\ prev' \in Pointers
           /\ newer' \in Pointers /\ older' \in Pointers
           /\ \A c \in Cells \ Aged(tab) :
                 /\ next'[c] = next[c] /\ prev'[c] = prev[c] /\ key'[c] = key[c]
                 /\ newer'[c] = newer[c] /\ older'[c] = older[c]
                 /\ data'[c] = data[c]
           /\ used' = used \ Aged(tab)
           /\ key' \in [Cells -> Keys \cup {NoKey}] /\ data' \in [Cells -> Data \cup {NoData}]
           /\ ~it.on => it' = NoIteration
<1> DEFINE S == UNION {Chain(tab, b) : b \in Buckets(tab)}
           ch == ReachChains(tab, next, used)
<1>1. S = Aged(tab)
  <2>1. \A b \in Buckets(tab) : ch[b] = Chain(tab, b)
    BY DEF ReachChains, Chain, Buckets
  <2> HIDE DEF ch
  <2>2. Aged(tab) = UNION {ch[b] : b \in 0 .. tab.size - 1}
    BY InvTables DEF IsTable, ch
  <2> QED BY <2>1, <2>2 DEF Buckets
<1>2. Free(Aged(tab), Bucket(tab, 0), Ages(tab))
  BY <1>1 DEF FreeChains
<1>3. /\ Bucket(tab, 0).nxt = next /\ Bucket(tab, 0).prv = prev
      /\ Ages(tab).nxt = newer /\ Ages(tab).prv = older
  BY DEF Bucket, Ages
<1>4. ~it.on => it' = NoIteration
  <2>1. ~it.on => it = NoIteration
    BY DEF HInv, IterInv
  <2> QED BY <1>2, <1>3, <2>1, FreedCells, InvTypes DEF NoIteration
<1> QED BY <1>2, <1>3, <1>4, FreedCells, InvTypes

\* ght_finalize
LEMMA FinalizeInv ==
    ASSUME HInv, Finalize
    PROVE  HInv' /\ Aged(tab)' = {}
<1>1. /\ Idle /\ ~it.on /\ FreeChains /\ tab' = NoTable /\ tmp' = tmp
      /\ rit' = rit /\ lost' = lost /\ opts' = opts /\ pc' = pc /\ new' = new
  BY DEF Finalize, rehashVars, callVars
<1>2. /\ next' \in Pointers /\ prev' \in Pointers /\ newer' \in Pointers /\ older' \in Pointers
      /\ used' = used \ Aged(tab) /\ it' = NoIteration
      /\ key' \in [Cells -> Keys \cup {NoKey}] /\ data' \in [Cells -> Data \cup {NoData}]
  BY <1>1, FreedChains
<1>3. pc = "idle" /\ tmp = NoTable /\ new = NoCell
  BY <1>1 DEF Idle, HInv, CallInv
<1>4. NoTable.size = 0 /\ 0 \in 0 .. MaxSize
  BY SizesAssumption DEF NoTable
<1>5. Ordered(NoTable, next', prev', newer', older', key', used')
      /\ Reach(NoTable.oldest, newer', used') = {}
  BY <1>2, <1>4, Emptied
<1>6. TablesInv' /\ Aged(tab)' = {} /\ Aged(tmp)' = {}
  BY <1>1, <1>3, <1>5 DEF TablesInv, Aged
<1>7. used' = {}
  <2>1. Aged(tmp) = {}
    BY <1>3, <1>4, NoBuckets
  <2> QED BY <1>2, <1>3, <2>1 DEF HInv, MemoryExact
<1>8. MemoryExact' /\ KeyInv'
  BY <1>1, <1>3, <1>6, <1>7 DEF MemoryExact, KeyInv
<1>9. IterInv'
  BY <1>2, <1>6, IterNone DEF IterInv
<1>10. CallInv'
  BY <1>1, <1>3 DEF CallInv
<1>11. TypeOK'
  <2>1. NoIteration \in [on : BOOLEAN, at : CellOrNone, seen : SUBSET Cells, due : SUBSET Cells]
    BY DEF NoIteration, CellOrNone
  <2> QED BY <1>1, <1>2, <1>6, <1>7, <2>1, TypeNext, InvTypes
<1> QED BY <1>6, <1>8, <1>9, <1>10, <1>11 DEF HInv

\* ght_rehash ends: the old entries are freed, the new table takes over.
LEMMA RehashEndInv ==
    ASSUME HInv, RehashEnd
    PROVE  HInv' /\ TakesOver
<1>1. /\ pc = "rehash" /\ FreeChains /\ tab' = tmp /\ tmp' = NoTable /\ lost' = {}
      /\ pc' = (IF new = NoCell THEN "idle" ELSE "link")
      /\ opts' = opts /\ new' = new /\ rit' = rit
  BY DEF RehashEnd
<1>2. /\ tmp.size # 0 /\ ~it.on
      /\ \A c \in Aged(tmp) : \E d \in Aged(tab) : key[c] = key[d]
      /\ new # NoCell => /\ newer[new] = NoCell
                         /\ \A c \in Aged(tab) : key[c] # key[new]
  BY <1>1 DEF HInv, CallInv
<1>3. /\ next' \in Pointers /\ prev' \in Pointers /\ newer' \in Pointers /\ older' \in Pointers
      /\ used' = used \ Aged(tab) /\ it' = NoIteration
      /\ key' \in [Cells -> Keys \cup {NoKey}] /\ data' \in [Cells -> Data \cup {NoData}]
      /\ \A c \in Cells \ Aged(tab) :
            /\ next'[c] = next[c] /\ prev'[c] = prev[c] /\ key'[c] = key[c]
            /\ newer'[c] = newer[c] /\ older'[c] = older[c] /\ data'[c] = data[c]
  BY <1>1, <1>2, FreedChains
<1>4. /\ used = Aged(tab) \cup Aged(tmp) \cup ({new} \ {NoCell})
      /\ Aged(tab) \cap Aged(tmp) = {} /\ new \notin Aged(tab) \cup Aged(tmp)
  BY DEF HInv, MemoryExact
<1>5. Aged(tmp) \subseteq Cells \ Aged(tab) /\ Aged(tmp) \subseteq used'
  BY <1>3, <1>4, InvTables
<1>6. /\ Ordered(tmp, next', prev', newer', older', key', used')
      /\ Reach(tmp.oldest, newer', used') = Aged(tmp)
  <2>1. \A c \in Aged(tmp) : /\ next'[c] = next[c] /\ prev'[c] = prev[c] /\ key'[c] = key[c]
                             /\ newer'[c] = newer[c] /\ older'[c] = older[c] /\ data'[c] = data[c]
    BY <1>3, <1>5
  <2>2. IsTable(tmp, next, prev, newer, older, key, ReachChains(tmp, next, used), Aged(tmp))
    BY InvTables
  <2>3. next' \in Pointers /\ prev' \in Pointers /\ newer' \in Pointers /\ older' \in Pointers
    BY <1>3
  <2> QED BY <1>5, <2>1, <2>2, <2>3, TableStays
<1>7. /\ Ordered(NoTable, next', prev', newer', older', key', used')
      /\ Reach(NoTable.oldest, newer', used') = {}
  <2>1. NoTable.size = 0 /\ 0 \in 0 .. MaxSize
    BY SizesAssumption DEF NoTable
  <2> QED BY <1>3, <2>1, Emptied
<1>8. TablesInv' /\ Aged(tab)' = Aged(tmp) /\ Aged(tmp)' = {}
  BY <1>1, <1>6, <1>7 DEF TablesInv, Aged
<1>9. MemoryExact'
  BY <1>1, <1>3, <1>4, <1>8 DEF MemoryExact
<1>10. KeyInv'
  BY <1>3, InvTypes DEF HInv, KeyInv
<1>11. IterInv'
  BY <1>3, <1>8, IterNone DEF IterInv
<1>12. new # NoCell => new \in Cells \ Aged(tab)
  BY <1>4, InvTypes DEF CellOrNone
<1>13. CallInv'
  <2>1. new' # NoCell => /\ newer'[new'] = NoCell
                         /\ \A c \in Aged(tab)' : key'[c] # key'[new']
    BY <1>1, <1>2, <1>3, <1>5, <1>8, <1>12
  <2>2. ~it'.on
    BY <1>3 DEF NoIteration
  <2> QED BY <1>1, <1>2, <1>12, <2>1, <2>2 DEF CallInv
<1>14. TypeOK'
  <2>1. NoIteration \in [on : BOOLEAN, at : CellOrNone, seen : SUBSET Cells, due : SUBSET Cells]
    BY DEF NoIteration, CellOrNone
  <2> QED BY <1>1, <1>3, <1>8, <2>1, TypeNext, InvTypes
<1>15. TakesOver
  BY <1>3, <1>5, <1>8 DEF TakesOver
<1> QED BY <1>8, <1>9, <1>10, <1>11, <1>13, <1>14, <1>15 DEF HInv

\* ght_insert, up to he_create
LEMMA InsertInv ==
    ASSUME HInv, NEW k \in Keys, NEW d \in Values[k], Insert(k, d)
    PROVE  HInv' /\ Aged(tab)' = Aged(tab) /\ Aged(tmp)' = {}
<1> DEFINE c == Fresh(k)
<1>1. /\ Idle /\ MayInsert /\ Found(tab, k) = {}
      /\ used' = used \cup {c} /\ key' = [key EXCEPT ![c] = k]
      /\ data' = [data EXCEPT ![c] = d]
      /\ next' = [next EXCEPT ![c] = NoCell] /\ prev' = [prev EXCEPT ![c] = NoCell]
      /\ newer' = [newer EXCEPT ![c] = NoCell] /\ older' = [older EXCEPT ![c] = NoCell]
      /\ new' = c /\ tab' = tab /\ opts' = opts /\ it' = it
      /\ \/ Crowded /\ 2 * tab.size <= MaxSize /\ BeginRehash(2 * tab.size)
         \/ pc' = "link" /\ tmp' = tmp /\ rit' = rit /\ lost' = lost
  BY DEF Insert, HeCreate, rehashVars
<1>2. c \in Cells /\ c \notin used
  BY InvTypes, FreshFree DEF Insert
<1> HIDE DEF c
<1>3. /\ next' \in Pointers /\ prev' \in Pointers /\ newer' \in Pointers /\ older' \in Pointers
      /\ key' \in [Cells -> Keys \cup {NoKey}]
      /\ \A e \in Cells \ {c} :
            /\ next'[e] = next[e] /\ prev'[e] = prev[e] /\ key'[e] = key[e]
            /\ newer'[e] = newer[e] /\ older'[e] = older[e]
      /\ newer'[c] = NoCell /\ key'[c] = k
  BY <1>1, <1>2, InvTypes DEF Pointers, CellOrNone
<1>4. data' \in [Cells -> Data \cup {NoData}]
  <2>1. d \in Data
    BY KeysAssumption
  <2> QED BY <1>1, <2>1, InvTypes
<1>5. /\ pc = "idle" /\ tab.size # 0 /\ tmp = NoTable /\ new = NoCell
  BY <1>1 DEF Idle, HInv, CallInv
<1>6. Aged(tmp) = {}
  BY <1>5, NoBuckets DEF NoTable
<1>7. Aged(tab) \subseteq used' /\ Aged(tab) \subseteq Cells \ {c}
  BY <1>1, <1>2, InvTables
<1>8. /\ Ordered(tab, next', prev', newer', older', key', used')
      /\ Reach(tab.oldest, newer', used') = Aged(tab)
  <2>1. \A e \in Aged(tab) : /\ next'[e] = next[e] /\ prev'[e] = prev[e] /\ key'[e] = key[e]
                             /\ newer'[e] = newer[e] /\ older'[e] = older[e]
    BY <1>3, <1>7
  <2>2. IsTable(tab, next, prev, newer, older, key, ReachChains(tab, next, used), Aged(tab))
    BY InvTables
  <2>3. next' \in Pointers /\ prev' \in Pointers /\ newer' \in Pointers /\ older' \in Pointers
    BY <1>3
  <2> QED BY <1>7, <2>1, <2>2, <2>3, TableStays
<1>9. tab.size \in 1 .. MaxSize
  BY <1>5, InvTables DEF IsTable, TableType
<1>10. /\ Ordered(tmp', next', prev', newer', older', key', used')
       /\ Aged(tmp)' = {}
  <2>1. CASE Crowded /\ 2 * tab.size <= MaxSize /\ BeginRehash(2 * tab.size)
    <3>1. 2 * tab.size \in 1 .. MaxSize
      BY <1>9, <2>1, SizesAssumption
    <3> QED BY <1>3, <2>1, <3>1, BegunEmpty
  <2>2. CASE pc' = "link" /\ tmp' = tmp /\ rit' = rit /\ lost' = lost
    <3>1. tmp' = NoTable /\ NoTable.size = 0 /\ 0 \in 0 .. MaxSize
      BY <1>5, <2>2, SizesAssumption DEF NoTable
    <3>2. Ordered(tmp', next', prev', newer', older', key', used')
          /\ Reach(tmp'.oldest, newer', used') = {}
      BY <1>3, <3>1, Emptied
    <3> QED BY <3>2 DEF Aged
  <2> QED BY <1>1, <2>1, <2>2
<1>11. TablesInv' /\ Aged(tab)' = Aged(tab)
  BY <1>1, <1>8, <1>10 DEF TablesInv, Aged
<1>12. MemoryExact'
  <2>1. used = Aged(tab) /\ c # NoCell
    BY <1>2, <1>5, <1>6, InvTables, CellsAssumption DEF HInv, MemoryExact
  <2> QED BY <1>1, <1>2, <1>10, <1>11, <2>1 DEF MemoryExact
<1>13. KeyInv'
  BY <1>1, <1>3, InvTypes DEF HInv, KeyInv
<1>14. IterInv'
  <2>1. /\ IsList(Ages(tab), Aged(tab)) /\ Ages(tab).nxt = newer
    BY InvTables DEF IsAgedList, Ages
  <2>2. Iterates(it, Ages(tab).nxt, Aged(tab)) /\ (~it.on => it = NoIteration)
    BY <2>1 DEF HInv, IterInv
  <2>3. \A e \in Aged(tab) : newer'[e] = Ages(tab).nxt[e]
    BY <1>3, <1>7, <2>1
  <2>4. Iterates(it, newer', Aged(tab))
    BY <2>1, <2>2, <2>3, IterKept
  <2> QED BY <1>1, <1>11, <2>2, <2>4 DEF IterInv
<1>15. tab.oldest \in Aged(tab) \cup {NoCell}
  BY InvTables, ListLinks DEF IsAgedList, Links, Ages
<1>16. \A e \in Aged(tab)' : key'[e] # key'[new']
  <2>1. \A e \in Aged(tab) : key[e] # k
    <3>1. tab.size \in Nat \ {0}
      BY <1>9, SizesAssumption
    <3> QED BY <1>1, <3>1, InvTables, FoundExact
  <2> QED BY <1>1, <1>3, <1>7, <1>11, <2>1
<1>17. CallInv'
  <2>1. CASE Crowded /\ 2 * tab.size <= MaxSize /\ BeginRehash(2 * tab.size)
    <3>1. pc' = "rehash" /\ rit' = tab.oldest /\ ~it'.on /\ tmp'.size # 0
      <4>1. 2 * tab.size \in 1 .. MaxSize
        BY <1>9, <2>1, SizesAssumption
      <4>2. tmp'.size # 0
        BY <1>3, <2>1, <4>1, BegunEmpty
      <4> QED BY <1>1, <2>1, <4>2 DEF BeginRehash, Crowded, MayInsert
    <3> QED BY <1>1, <1>2, <1>3, <1>5, <1>10, <1>11, <1>15, <1>16, <3>1, InvTables DEF CallInv
  <2>2. CASE pc' = "link" /\ tmp' = tmp /\ rit' = rit /\ lost' = lost
    <3>1. it'.on => opts'.limit = 0
      BY <1>1 DEF MayInsert
    <3> QED BY <1>1, <1>2, <1>3, <1>5, <1>16, <2>2, <3>1 DEF CallInv
  <2> QED BY <1>1, <2>1, <2>2
<1>18. TypeOK'
  <2>1. pc' \in {"idle", "rehash", "link"} /\ rit' \in CellOrNone /\ lost' \subseteq Keys
    BY <1>1, <1>15, InvTables, InvTypes DEF BeginRehash, CellOrNone
  <2>2. used' \subseteq Cells /\ new' \in CellOrNone
    BY <1>1, <1>2, InvTypes DEF CellOrNone
  <2> QED BY <1>1, <1>3, <1>4, <1>11, <2>1, <2>2, TypeNext, InvTypes
<1> QED BY <1>10, <1>11, <1>12, <1>13, <1>14, <1>17, <1>18 DEF HInv

-----------------------------------------------------------------------------
(* Searching, linking a new entry and removing one.                        *)

\* The table that is not there stays empty whatever the cells are.
LEMMA NoTableEmpty ==
    ASSUME next' \in Pointers, prev' \in Pointers, newer' \in Pointers, older' \in Pointers,
           tmp' = NoTable
    PROVE  /\ Ordered(tmp', next', prev', newer', older', key', used')
           /\ Aged(tmp)' = {}
<1>1. NoTable.size = 0 /\ 0 \in 0 .. MaxSize
  BY SizesAssumption DEF NoTable
<1>2. Ordered(tmp', next', prev', newer', older', key', used')
      /\ Reach(tmp'.oldest, newer', used') = {}
  BY <1>1, Emptied
<1> QED BY <1>2 DEF Aged

\* What a search does to a bucket: its cells stay a list, in some order.
LEMMA MovedList ==
    ASSUME NEW l, NEW X, IsList(l, X), NEW c \in X, opts \in Settings
    PROVE  IsList(Moved(l, c), X) /\ SameOutside(l, Moved(l, c), X)
<1>1. CASE opts.heuristics = "front"
  <2>1. Moved(l, c) = MoveToFront(l, c)
    BY <1>1 DEF Moved
  <2> QED BY <2>1, MoveToFrontList
<1>2. CASE opts.heuristics = "transpose"
  <2>1. Moved(l, c) = Transpose(l, c)
    BY <1>2 DEF Moved
  <2> QED BY <2>1, TransposeList
<1>3. CASE opts.heuristics # "front" /\ opts.heuristics # "transpose"
  <2>1. Moved(l, c) = l
    BY <1>3, Zenon DEF Moved
  <2> QED BY <2>1 DEF SameOutside
<1> QED BY <1>1, <1>2, <1>3

\* A search moves the entry within its bucket: the table stays in order.
LEMMA FoundMoved ==
    ASSUME HInv, Idle, NEW k \in Keys, NEW c \in Found(tab, k), MoveFound(k, c),
           UNCHANGED <<tmp, newer, older, key, used>>
    PROVE  /\ TablesInv' /\ Aged(tab)' = Aged(tab) /\ Aged(tmp)' = Aged(tmp)
           /\ next' \in Pointers /\ prev' \in Pointers /\ tab'.size = tab.size
<1> DEFINE ch == ReachChains(tab, next, used)
           X == Aged(tab)
           b == Index(tab, k)
           l == Moved(Bucket(tab, b), c)
<1>1. IsTable(tab, next, prev, newer, older, key, ch, X)
  BY InvTables
<1>2. tab.size \in Nat \ {0}
  BY <1>1 DEF Idle, IsTable, TableType
<1>3. b \in 0 .. tab.size - 1 /\ c \in ch[b]
  BY <1>1, <1>2, FoundExact DEF Found
<1>4. /\ next' = l.nxt /\ prev' = l.prv
      /\ tab' = [tab EXCEPT !.head[b] = l.first]
      /\ tmp' = tmp /\ newer' = newer /\ older' = older /\ key' = key /\ used' = used
  BY DEF MoveFound
<1>5. X \subseteq used'
  BY <1>4, InvTables
<1>6. Bucket(tab, b) = BucketList(tab.head, next, prev, b)
  BY DEF Bucket, BucketList
<1> HIDE DEF ch, X, b
<1>7. IsList(BucketList(tab.head, next, prev, b), ch[b])
  BY <1>1, <1>3, TableParts
<1>8. IsList(l, ch[b]) /\ SameOutside(BucketList(tab.head, next, prev, b), l, ch[b])
  BY <1>3, <1>6, <1>7, MovedList, InvTypes
<1>9. l.nxt \in Pointers /\ l.prv \in Pointers
  BY <1>8 DEF IsList
<1> HIDE DEF l
<1>10. IsTable(tab', next', prev', newer, older, key, ch, X)
  BY <1>1, <1>3, <1>4, <1>8, TableMoved
<1>11. /\ Ordered(tab', next', prev', newer', older', key', used')
       /\ Reach(tab'.oldest, newer', used') = X
  <2>1. IsTable(tab', next', prev', newer', older', key', ch, X)
    BY <1>4, <1>10
  <2> QED BY <1>5, <2>1, OrderedIntro
<1>12. tmp = NoTable
  BY DEF Idle, HInv, CallInv
<1>13. /\ Ordered(tmp', next', prev', newer', older', key', used')
       /\ Aged(tmp)' = {}
  BY <1>4, <1>9, <1>12, NoTableEmpty, InvTypes
<1>14. Aged(tmp) = {}
  BY <1>12, NoBuckets DEF NoTable
<1>15. tab'.size = tab.size
  BY <1>1, <1>4 DEF IsTable, TableType
<1> QED BY <1>4, <1>9, <1>11, <1>13, <1>14, <1>15 DEF TablesInv, Aged, X

\* A search has found an entry.
LEMMA SearchInv ==
    ASSUME HInv, Idle, NEW k \in Keys, NEW c \in Found(tab, k), MoveFound(k, c),
           data' \in [Cells -> Data \cup {NoData}],
           UNCHANGED <<rehashVars, ageVars, key, used, opts, callVars, it>>
    PROVE  HInv' /\ Aged(tab)' = Aged(tab)
<1>1. /\ tmp' = tmp /\ newer' = newer /\ older' = older
      /\ key' = key /\ used' = used
      /\ it' = it /\ pc' = pc /\ new' = new /\ opts' = opts /\ rit' = rit /\ lost' = lost
  BY DEF rehashVars, ageVars, callVars
<1>2. /\ TablesInv' /\ Aged(tab)' = Aged(tab) /\ Aged(tmp)' = Aged(tmp)
      /\ next' \in Pointers /\ prev' \in Pointers /\ tab'.size = tab.size
  BY <1>1, FoundMoved
<1>3. MemoryExact' /\ IterInv' /\ KeyInv'
  BY <1>1, <1>2 DEF HInv, MemoryExact, IterInv, KeyInv
<1>4. CallInv'
  BY <1>1, <1>2 DEF HInv, CallInv, Idle
<1>5. TypeOK'
  BY <1>1, <1>2, TypeNext, InvTypes
<1> QED BY <1>2, <1>3, <1>4, <1>5 DEF HInv

\* ght_get
LEMMA GetInv ==
    ASSUME HInv, NEW k \in Keys, Get(k)
    PROVE  HInv' /\ Aged(tab)' = Aged(tab)
<1>1. PICK c \in Found(tab, k) : MoveFound(k, c)
  BY DEF Get
<1>2. /\ Idle /\ data' \in [Cells -> Data \cup {NoData}]
      /\ UNCHANGED <<rehashVars, ageVars, key, used, opts, callVars, it>>
  BY InvTypes DEF Get, heapVars
<1> QED BY <1>1, <1>2, SearchInv

\* ght_replace
LEMMA ReplaceInv ==
    ASSUME HInv, NEW k \in Keys, NEW d \in Values[k], Replace(k, d)
    PROVE  HInv' /\ Aged(tab)' = Aged(tab)
<1>1. PICK c \in Found(tab, k) : MoveFound(k, c) /\ data' = [data EXCEPT ![c] = d]
  BY DEF Replace
<1>2. data' \in [Cells -> Data \cup {NoData}]
  <2>1. d \in Data
    BY KeysAssumption
  <2> QED BY <1>1, <2>1, InvTypes
<1>3. Idle /\ UNCHANGED <<rehashVars, ageVars, key, used, opts, callVars, it>>
  BY DEF Replace
<1> QED BY <1>1, <1>2, <1>3, SearchInv

\* ght_insert, where the bucket has room
LEMMA LinkRoomInv ==
    ASSUME HInv, LinkRoom
    PROVE  HInv' /\ Aged(tab)' = Aged(tab) \cup {new}
<1> DEFINE ch == ReachChains(tab, next, used)
           X == Aged(tab)
           b == Index(tab, key[new])
           l == PushFront(Bucket(tab, b), new)
           a == AddLast(Ages(tab), new)
<1>1. /\ pc = "link" /\ next' = l.nxt /\ prev' = l.prv /\ newer' = a.nxt /\ older' = a.prv
      /\ tab' = Relinked(tab, b, l, a, 1) /\ pc' = "idle" /\ new' = NoCell
      /\ tmp' = tmp /\ rit' = rit /\ lost' = lost /\ opts' = opts /\ it' = it
      /\ key' = key /\ data' = data /\ used' = used
  BY DEF LinkRoom, SetPointers, rehashVars, heapVars
<1>2. /\ new \in Cells /\ tab.size # 0 /\ tmp = NoTable /\ newer[new] = NoCell
      /\ \A d \in X : key[d] # key[new]
  BY <1>1, CellsAssumption DEF HInv, CallInv
<1>3. /\ used = X \cup {new} /\ new \notin X /\ key[new] \in Keys
  <2>1. Aged(tmp) = {}
    BY <1>2, NoBuckets DEF NoTable
  <2>2. used = X \cup {new} /\ new \notin X
    BY <1>2, <2>1, CellsAssumption DEF HInv, MemoryExact
  <2> QED BY <2>2 DEF HInv, KeyInv
<1>4. IsTable(tab, next, prev, newer, older, key, ch, X)
  BY InvTables
<1>5. tab.size \in Nat \ {0}
  BY <1>2, <1>4 DEF IsTable, TableType
<1>6. b \in 0 .. tab.size - 1 /\ HashTo({new}, key, tab.size, b)
  BY <1>3, <1>5, HashType DEF Index, HashTo
<1>7. KeepsKeys(key, key, X)
  BY DEF KeepsKeys
<1>8. /\ Bucket(tab, b) = BucketList(tab.head, next, prev, b)
      /\ Ages(tab) = AgeList(tab, newer, older) /\ Ages(tab).nxt = newer
  BY DEF Bucket, BucketList, Ages, AgeList
<1>9. l = PushFront(BucketList(tab.head, next, prev, b), new)
      /\ a = AddLast(AgeList(tab, newer, older), new)
  BY <1>8
<1> HIDE DEF ch, X, b, l, a
<1>10. /\ IsTable(Relinked(tab, b, l, a, 1), l.nxt, l.prv, a.nxt, a.prv, key,
                  Changed(ch, tab.size, b, ch[b] \cup {new}), X \cup {new})
       /\ IsList(l, ch[b] \cup {new}) /\ IsAgedList(a, X \cup {new})
  BY <1>2, <1>3, <1>4, <1>6, <1>7, <1>9, TableInsert, ZenonT(150)
<1>11. /\ next' \in Pointers /\ prev' \in Pointers /\ newer' \in Pointers /\ older' \in Pointers
  BY <1>1, <1>10 DEF IsAgedList, IsList
<1>12. /\ Ordered(tab', next', prev', newer', older', key', used')
       /\ Reach(tab'.oldest, newer', used') = X \cup {new}
  <2> DEFINE g == Changed(ch, tab.size, b, ch[b] \cup {new})
             Z == X \cup {new}
  <2>1. IsTable(tab', next', prev', newer', older', key', g, Z)
    BY <1>1, <1>10
  <2>2. Z \subseteq used'
    BY <1>1, <1>3
  <2> HIDE DEF g, Z
  <2>3. Ordered(tab', next', prev', newer', older', key', used')
        /\ Reach(tab'.oldest, newer', used') = Z
    BY <2>1, <2>2, OrderedIntro
  <2> QED BY <2>3 DEF Z
<1>13. Ordered(tmp', next', prev', newer', older', key', used') /\ Aged(tmp)' = {}
  BY <1>1, <1>2, <1>11, NoTableEmpty
<1>14. TablesInv' /\ Aged(tab)' = X \cup {new}
  BY <1>12, <1>13 DEF TablesInv, Aged
<1>15. MemoryExact' /\ KeyInv'
  <2>1. NoCell \notin X \cup {new}
    BY <1>3, InvTables
  <2> QED BY <1>1, <1>3, <1>13, <1>14, <2>1 DEF HInv, MemoryExact, KeyInv
<1>16. IterInv'
  <2>1. Iterates(it, Ages(tab).nxt, X) /\ (~it.on => it = NoIteration)
    BY <1>8 DEF HInv, IterInv, X
  <2>2. IsAgedList(Ages(tab), X) /\ Ages(tab).nxt[new] = NoCell
    BY <1>2, <1>8, InvTables DEF X
  <2>3. Iterates(it, AddLast(Ages(tab), new).nxt, X \cup {new})
    BY <1>2, <1>3, <2>1, <2>2, IterInsert
  <2> QED BY <1>1, <1>14, <2>1, <2>3 DEF IterInv, a
<1>17. CallInv'
  <2>1. tab'.size # 0
    <3>1. tab'.size = tab.size
      BY <1>1, <1>4 DEF Relinked, IsTable, TableType
    <3> QED BY <1>2, <3>1
  <2> QED BY <1>1, <1>2, <2>1 DEF CallInv
<1>18. TypeOK'
  BY <1>1, <1>11, <1>14, TypeNext, InvTypes DEF CellOrNone
<1> QED BY <1>14, <1>15, <1>16, <1>17, <1>18 DEF HInv, X

\* ght_remove
LEMMA RemoveInv ==
    ASSUME HInv, NEW k \in Keys, Remove(k)
    PROVE  HInv' /\ \E p \in Aged(tab) : key[p] = k /\ Leaves(p)
<1> DEFINE ch == ReachChains(tab, next, used)
           X == Aged(tab)
           b == Index(tab, k)
<1>1. PICK c \in Found(tab, k) :
         LET l == Unlink(Bucket(tab, b), c)
             a == UnlinkAged(Ages(tab), c)
         IN /\ MayRemove(c)
            /\ tab' = Relinked(tab, b, l, a, -1)
            /\ Free({c}, l, a)
  BY DEF Remove
<1> DEFINE l == Unlink(Bucket(tab, b), c)
           a == UnlinkAged(Ages(tab), c)
<1>2. /\ Idle /\ tmp' = tmp /\ rit' = rit /\ lost' = lost /\ opts' = opts
      /\ pc' = pc /\ new' = new
      /\ MayRemove(c) /\ tab' = Relinked(tab, b, l, a, -1) /\ Free({c}, l, a)
  BY <1>1 DEF Remove, rehashVars, callVars
<1>3. pc = "idle" /\ tab.size # 0 /\ tmp = NoTable /\ new = NoCell
  BY <1>2 DEF Idle, HInv, CallInv
<1>4. used = X
  <2>1. Aged(tmp) = {}
    BY <1>3, NoBuckets DEF NoTable
  <2> QED BY <1>3, <2>1 DEF HInv, MemoryExact
<1>5. IsTable(tab, next, prev, newer, older, key, ch, X)
  BY InvTables
<1>6. tab.size \in Nat \ {0}
  BY <1>3, <1>5 DEF IsTable, TableType
<1>7. b \in 0 .. tab.size - 1 /\ c \in ch[b] /\ c \in X
  BY <1>1, <1>5, <1>6, FoundExact DEF Found
<1>8. /\ Bucket(tab, b) = BucketList(tab.head, next, prev, b)
      /\ Ages(tab) = AgeList(tab, newer, older) /\ Ages(tab).nxt = newer
  BY DEF Bucket, BucketList, Ages, AgeList
<1>9. l = Unlink(BucketList(tab.head, next, prev, b), c)
      /\ a = UnlinkAged(AgeList(tab, newer, older), c)
  BY <1>8
<1> DEFINE g == Changed(ch, tab.size, b, ch[b] \ {c})
           Z == X \ {c}
<1> HIDE DEF ch, X, b, l, a
<1>10. /\ IsTable(Relinked(tab, b, l, a, -1), l.nxt, l.prv, a.nxt, a.prv, key, g, Z)
       /\ IsList(l, ch[b] \ {c}) /\ IsAgedList(a, Z)
  BY <1>5, <1>7, <1>9, TableRemove, ZenonT(150)
<1>11. l.nxt \in Pointers /\ l.prv \in Pointers /\ a.nxt \in Pointers /\ a.prv \in Pointers
  BY <1>10 DEF IsAgedList, IsList
<1>12. /\ next' \in Pointers /\ prev' \in Pointers /\ newer' \in Pointers /\ older' \in Pointers
       /\ \A e \in Cells \ {c} :
             /\ next'[e] = l.nxt[e] /\ prev'[e] = l.prv[e]
             /\ newer'[e] = a.nxt[e] /\ older'[e] = a.prv[e] /\ key'[e] = key[e]
             /\ data'[e] = data[e]
       /\ used' = used \ {c}
       /\ key' \in [Cells -> Keys \cup {NoKey}] /\ data' \in [Cells -> Data \cup {NoData}]
       /\ it'.on = it.on /\ it'.at = it.at
       /\ it'.seen = it.seen \ {c} /\ it'.due = it.due \ {c}
       /\ it' = [on |-> it.on, at |-> it.at, seen |-> it.seen \ {c}, due |-> it.due \ {c}]
  BY <1>2, <1>11, FreedCells
<1>13. X \subseteq Cells
  BY InvTables DEF X
<1>14. /\ Ordered(tab', next', prev', newer', older', key', used')
       /\ Reach(tab'.oldest, newer', used') = Z
  <2>1. IsTable(tab', l.nxt, l.prv, a.nxt, a.prv, key, g, Z)
    BY <1>2, <1>10
  <2>2. \A e \in Z : /\ next'[e] = l.nxt[e] /\ prev'[e] = l.prv[e] /\ key'[e] = key[e]
                     /\ newer'[e] = a.nxt[e] /\ older'[e] = a.prv[e]
    BY <1>12, <1>13
  <2>3. Z \subseteq used'
    BY <1>4, <1>12
  <2>4. next' \in Pointers /\ prev' \in Pointers /\ newer' \in Pointers /\ older' \in Pointers
    BY <1>12
  <2> HIDE DEF g, Z
  <2> DEFINE nx == l.nxt
             pv == l.prv
             nw == a.nxt
             od == a.prv
  <2>5. IsTable(tab', nx, pv, nw, od, key, g, Z)
    BY <2>1
  <2>6. \A e \in Z : /\ next'[e] = nx[e] /\ prev'[e] = pv[e] /\ key'[e] = key[e]
                     /\ newer'[e] = nw[e] /\ older'[e] = od[e]
    BY <2>2
  <2> HIDE DEF nx, pv, nw, od
  <2>7. IsTable(tab', next', prev', newer', older', key', g, Z)
    BY <2>4, <2>5, <2>6, TableKept
  <2> QED BY <2>3, <2>7, OrderedIntro
<1>15. Ordered(tmp', next', prev', newer', older', key', used') /\ Aged(tmp)' = {}
  BY <1>2, <1>3, <1>12, NoTableEmpty
<1>16. TablesInv' /\ Aged(tab)' = Z
  BY <1>14, <1>15 DEF TablesInv, Aged
<1>17. MemoryExact'
  BY <1>2, <1>3, <1>4, <1>12, <1>15, <1>16, InvTables DEF MemoryExact
<1>18. KeyInv'
  BY <1>12, InvTables DEF HInv, KeyInv
<1>19. IterInv'
  <2>1. Iterates(it, Ages(tab).nxt, X) /\ (~it.on => it = NoIteration)
    BY <1>8 DEF HInv, IterInv, X
  <2>2. CASE ~it.on
    <3>1. it' = NoIteration
      <4>1. it.on = FALSE /\ it.at = NoCell /\ it.seen \ {c} = {} /\ it.due \ {c} = {}
        BY <2>1, <2>2 DEF NoIteration
      <4> QED BY <1>12, <4>1 DEF NoIteration
    <3> QED BY <1>16, <3>1, IterNone DEF IterInv
  <2>3. CASE it.on
    <3>1. c \in it.seen
      BY <1>2, <2>3 DEF MayRemove
    <3>2. IsAgedList(Ages(tab), X)
      BY InvTables DEF X
    <3>3. Iterates(it', UnlinkAged(Ages(tab), c).nxt, Z)
      BY <1>7, <1>12, <2>1, <3>1, <3>2, IterRemove
    <3>4. Iterates(it', a.nxt, Z)
      BY <3>3 DEF a
    <3>5. Iterates(it', newer', Z)
      <4>1. IsList(a, Z) /\ \A e \in Z : newer'[e] = a.nxt[e]
        BY <1>10, <1>12, <1>13 DEF IsAgedList
      <4> HIDE DEF Z
      <4> QED BY <3>4, <4>1, IterKept
    <3> QED BY <1>12, <1>16, <2>3, <3>5 DEF IterInv
  <2> QED BY <2>2, <2>3
<1>20. CallInv'
  BY <1>2, <1>3 DEF CallInv
<1>21. TypeOK'
  <2>1. it' \in [on : BOOLEAN, at : CellOrNone, seen : SUBSET Cells, due : SUBSET Cells]
    BY <1>12, InvTypes
  <2> QED BY <1>2, <1>12, <1>16, <2>1, TypeNext, InvTypes
<1>22. c \in Aged(tab) /\ key[c] = k /\ Leaves(c)
  <2>1. key[c] = k
    BY <1>1 DEF Found
  <2>2. \A e \in Z : /\ newer'[e] = UnlinkAged(Ages(tab), c).nxt[e]
                     /\ key'[e] = key[e] /\ data'[e] = data[e]
    BY <1>12, <1>13 DEF a
  <2> QED BY <1>7, <1>16, <2>1, <2>2 DEF Leaves, X
<1> QED BY <1>16, <1>17, <1>18, <1>19, <1>20, <1>21, <1>22 DEF HInv

-----------------------------------------------------------------------------
(* Eviction, and a step of a rehash.                                       *)

\* ght_insert, where the bucket is full
LEMMA LinkEvictInv ==
    ASSUME HInv, LinkEvict
    PROVE  HInv' /\ \E p \in Aged(tab) : Evicts(p)
<1> DEFINE ch == ReachChains(tab, next, used)
           X == Aged(tab)
           b == Index(tab, key[new])
           m == PushFront(Bucket(tab, b), new)
<1>1. /\ pc = "link" /\ Full(b)
      /\ \E p \in Reach(m.first, m.nxt, used) :
            LET a == AddLast(UnlinkAged(Ages(tab), p), new) IN
            /\ m.nxt[p] = NoCell
            /\ tab' = Relinked(tab, b, Unlink(m, p), a, 0)
            /\ Free({p}, Unlink(m, p), a)
  BY DEF LinkEvict
<1>2. PICK p \in Reach(m.first, m.nxt, used) :
         LET a == AddLast(UnlinkAged(Ages(tab), p), new) IN
         /\ m.nxt[p] = NoCell
         /\ tab' = Relinked(tab, b, Unlink(m, p), a, 0)
         /\ Free({p}, Unlink(m, p), a)
  BY <1>1
<1> DEFINE l == Unlink(m, p)
           a == AddLast(UnlinkAged(Ages(tab), p), new)
           g == Changed(ch, tab.size, b, (ch[b] \cup {new}) \ {p})
           Z == (X \ {p}) \cup {new}
<1>3. /\ pc = "link" /\ pc' = "idle" /\ new' = NoCell
      /\ tmp' = tmp /\ rit' = rit /\ lost' = lost /\ opts' = opts
      /\ m.nxt[p] = NoCell /\ tab' = Relinked(tab, b, l, a, 0) /\ Free({p}, l, a)
  BY <1>2 DEF LinkEvict, rehashVars
<1>4. /\ new \in Cells /\ tab.size # 0 /\ tmp = NoTable /\ newer[new] = NoCell
      /\ \A d \in X : key[d] # key[new]
      /\ it.on => opts.limit = 0
  BY <1>3, CellsAssumption DEF HInv, CallInv
<1>5. /\ used = X \cup {new} /\ new \notin X /\ key[new] \in Keys
  <2>1. Aged(tmp) = {}
    BY <1>4, NoBuckets DEF NoTable
  <2>2. used = X \cup {new} /\ new \notin X
    BY <1>4, <2>1, CellsAssumption DEF HInv, MemoryExact
  <2> QED BY <2>2 DEF HInv, KeyInv
<1>6. IsTable(tab, next, prev, newer, older, key, ch, X)
  BY InvTables
<1>7. tab.size \in Nat \ {0}
  BY <1>4, <1>6 DEF IsTable, TableType
<1>8. b \in 0 .. tab.size - 1 /\ HashTo({new}, key, tab.size, b)
  BY <1>5, <1>7, HashType DEF Index, HashTo
<1>9. Bucket(tab, b) = BucketList(tab.head, next, prev, b)
      /\ Ages(tab) = AgeList(tab, newer, older)
  BY DEF Bucket, BucketList, Ages, AgeList
<1>10. /\ m = PushFront(BucketList(tab.head, next, prev, b), new)
       /\ l = Unlink(PushFront(BucketList(tab.head, next, prev, b), new), p)
       /\ a = AddLast(UnlinkAged(AgeList(tab, newer, older), p), new)
  BY <1>9
<1>11. ~it.on /\ tab.nr[b] # 0
  <2>1. opts.limit # 0 /\ opts.limit \in Nat /\ tab.nr[b] >= opts.limit
    BY <1>1, InvTypes DEF Full, Settings
  <2>2. tab.nr[b] \in Nat
    BY <1>6, <1>8 DEF IsTable, TableType
  <2> QED BY <1>4, <2>1, <2>2
<1> HIDE DEF ch, X, b
\* The entry put out is the last of the chain, which is not the new one: the
\* bucket is full, and so it has others.
<1>12. p \in ch[b] /\ p # new
  <2> DEFINE old == BucketList(tab.head, next, prev, b)
  <2>1. IsList(old, ch[b]) /\ ch[b] \subseteq X /\ IsFiniteSet(ch[b])
    BY <1>6, <1>8, TableParts
  <2>2. ch[b] # {}
    BY <1>6, <1>8, <1>11, FS_EmptySet DEF IsTable
  <2>3. old.first # NoCell /\ old.nxt \in Pointers
    <3>1. Links(old, ch[b])
      BY <2>1, ListLinks
    <3>2. old.first # NoCell
      <4> HIDE DEF old
      <4> QED BY <2>1, <2>2, NoFirst
    <3> QED BY <3>1, <3>2 DEF Links
  <2>4. m = PushFront(old, new)
    BY <1>10
  <2> HIDE DEF old
  <2>5. m.nxt[new] # NoCell
    BY <1>4, <2>3, <2>4 DEF PushFront, Pointers
  <2>6. IsList(m, ch[b] \cup {new})
    BY <1>4, <1>5, <2>1, <2>4, PushFrontList
  <2>7. ch[b] \cup {new} \subseteq used
    BY <1>5, <2>1
  <2>8. Reach(m.first, m.nxt, used) = ch[b] \cup {new}
    <3> HIDE DEF m
    <3> QED BY <2>6, <2>7, ReachIsList
  <2>9. p # new
    BY <1>3, <2>5
  <2> QED BY <1>2, <2>8, <2>9
<1>13. X \subseteq Cells /\ p \in X
  BY <1>6, <1>8, <1>12, TableParts
<1> HIDE DEF m, l, a
<1>14. IsTable(Relinked(tab, b, l, a, 0), l.nxt, l.prv, a.nxt, a.prv, key, g, Z)
  <2>1. MayEvict(tab, newer, key, ch, X, new, b, p)
    BY <1>4, <1>5, <1>8, <1>12 DEF MayEvict
  <2>3. /\ l = Unlink(PushFront(BucketList(tab.head, next, prev, b), new), p)
        /\ a = AddLast(UnlinkAged(AgeList(tab, newer, older), p), new)
    BY <1>10
  <2> DEFINE Y == (ch[b] \cup {new}) \ {p}
  <2>4. Y = (ch[b] \cup {new}) \ {p} /\ Z = (X \ {p}) \cup {new}
        /\ g = Changed(ch, tab.size, b, Y)
    OBVIOUS
  <2> HIDE DEF Y, Z, g
  <2> QED BY ONLY <1>6, <2>1, <2>3, <2>4, TableEvict
<1>15. l.nxt \in Pointers /\ l.prv \in Pointers /\ a.nxt \in Pointers /\ a.prv \in Pointers
  <2>1. Relinked(tab, b, l, a, 0).size = tab.size
    BY <1>6 DEF Relinked, IsTable, TableType
  <2>2. b \in 0 .. Relinked(tab, b, l, a, 0).size - 1
    BY <1>8, <2>1
  <2> QED BY <1>14, <2>2, TableParts
<1>16. /\ next' \in Pointers /\ prev' \in Pointers /\ newer' \in Pointers /\ older' \in Pointers
       /\ \A e \in Cells \ {p} :
             /\ next'[e] = l.nxt[e] /\ prev'[e] = l.prv[e]
             /\ newer'[e] = a.nxt[e] /\ older'[e] = a.prv[e] /\ key'[e] = key[e]
             /\ data'[e] = data[e]
       /\ used' = used \ {p}
       /\ key' \in [Cells -> Keys \cup {NoKey}] /\ data' \in [Cells -> Data \cup {NoData}]
       /\ it' = [on |-> it.on, at |-> it.at, seen |-> it.seen \ {p}, due |-> it.due \ {p}]
  BY <1>3, <1>15, FreedCells
<1>17. /\ Ordered(tab', next', prev', newer', older', key', used')
       /\ Reach(tab'.oldest, newer', used') = Z
  <2>1. Z \subseteq Cells \ {p} /\ Z \subseteq used'
    BY <1>4, <1>5, <1>12, <1>13, <1>16
  <2> DEFINE nx == l.nxt
             pv == l.prv
             nw == a.nxt
             od == a.prv
  <2>2. IsTable(tab', nx, pv, nw, od, key, g, Z)
    BY <1>3, <1>14
  <2>3. \A e \in Z : /\ next'[e] = nx[e] /\ prev'[e] = pv[e] /\ key'[e] = key[e]
                     /\ newer'[e] = nw[e] /\ older'[e] = od[e]
    BY <1>16, <2>1
  <2>4. next' \in Pointers /\ prev' \in Pointers /\ newer' \in Pointers /\ older' \in Pointers
    BY <1>16
  <2> HIDE DEF nx, pv, nw, od, g, Z
  <2>5. IsTable(tab', next', prev', newer', older', key', g, Z)
    BY <2>2, <2>3, <2>4, TableKept
  <2> QED BY <2>1, <2>5, OrderedIntro
<1>18. Ordered(tmp', next', prev', newer', older', key', used') /\ Aged(tmp)' = {}
  BY <1>3, <1>4, <1>16, NoTableEmpty
<1>19. TablesInv' /\ Aged(tab)' = Z
  BY <1>17, <1>18 DEF TablesInv, Aged
<1>20. MemoryExact'
  <2>1. NoCell \notin Z
    BY <1>4, <1>13, CellsAssumption
  <2> QED BY <1>3, <1>5, <1>12, <1>16, <1>18, <1>19, <2>1 DEF MemoryExact
<1>21. KeyInv'
  BY <1>16, InvTables DEF HInv, KeyInv
<1>22. IterInv'
  <2>1. it = NoIteration
    BY <1>11 DEF HInv, IterInv
  <2>2. it' = NoIteration
    BY <1>16, <2>1 DEF NoIteration
  <2> QED BY <1>19, <2>2, IterNone DEF IterInv
<1>23. CallInv'
  <2>1. tab'.size # 0
    <3>1. tab'.size = tab.size
      BY <1>3, <1>6 DEF Relinked, IsTable, TableType
    <3> QED BY <1>4, <3>1
  <2> QED BY <1>3, <1>4, <2>1 DEF CallInv
<1>24. TypeOK'
  <2>1. it' \in [on : BOOLEAN, at : CellOrNone, seen : SUBSET Cells, due : SUBSET Cells]
    BY <1>16, InvTypes
  <2>2. used' \subseteq Cells /\ new' \in CellOrNone
    BY <1>3, <1>16, InvTypes DEF CellOrNone
  <2> QED BY <1>3, <1>16, <1>19, <2>1, <2>2, TypeNext, InvTypes
<1>25. p \in Aged(tab) /\ Evicts(p)
  <2>1. Z \subseteq Cells \ {p}
    BY <1>4, <1>12, <1>13
  <2>2. \A e \in Z : /\ newer'[e] = AddLast(UnlinkAged(Ages(tab), p), new).nxt[e]
                     /\ key'[e] = key[e] /\ data'[e] = data[e]
    BY <1>16, <2>1 DEF a
  <2>3. HashTo(ch[b], key, tab.size, b)
    BY <1>6, <1>8 DEF IsTable, Chained
  <2>4. Index(tab, key[p]) = b
    BY <1>12, <2>3 DEF HashTo, Index
  <2> QED BY <1>13, <1>19, <2>2, <2>4 DEF Evicts, X, b
<1> QED BY <1>19, <1>20, <1>21, <1>22, <1>23, <1>24, <1>25 DEF HInv

\* ght_rehash: an entry is copied.
LEMMA RehashCopyInv ==
    ASSUME HInv, RehashCopy
    PROVE  HInv' /\ \E c \in Cells \ used : CopiesTo(c)
<1> DEFINE k == key[rit]
           c == Fresh(k)
           ch == ReachChains(tmp, next, used)
           X == Aged(tmp)
           b == Index(tmp, k)
           nw == [newer EXCEPT ![c] = NoCell]
           l == PushFront(Bucket(tmp, b), c)
           a == AddLast([Ages(tmp) EXCEPT !.nxt[c] = NoCell], c)
           g == Changed(ch, tmp.size, b, ch[b] \cup {c})
           Z == X \cup {c}
<1>1. /\ pc = "rehash" /\ rit # NoCell /\ Found(tmp, k) = {} /\ used # Cells
      /\ used' = used \cup {c} /\ key' = [key EXCEPT ![c] = k]
      /\ data' = [data EXCEPT ![c] = data[rit]]
      /\ next' = l.nxt /\ prev' = l.prv /\ newer' = a.nxt /\ older' = a.prv
      /\ tmp' = Relinked(tmp, b, l, a, 1) /\ rit' = newer[rit]
      /\ tab' = tab /\ lost' = lost /\ opts' = opts /\ pc' = pc /\ new' = new /\ it' = it
  BY DEF RehashCopy, HeCreate, SetPointers, callVars
<1>2. /\ tmp.size # 0 /\ ~it.on /\ rit \in Aged(tab) /\ tab.size # 0
      /\ \A e \in X : \E d \in Aged(tab) : key[e] = key[d]
      /\ new # NoCell => /\ newer[new] = NoCell
                         /\ \A e \in Aged(tab) : key[e] # key[new]
  BY <1>1 DEF HInv, CallInv
<1>3. c \in Cells \ used
  BY <1>1, InvTypes, FreshFree
<1>4. rit \in Cells /\ k \in Keys
  BY <1>2, InvTables DEF HInv, KeyInv
<1>5. /\ used = Aged(tab) \cup X \cup ({new} \ {NoCell})
      /\ Aged(tab) \cap X = {} /\ new \notin Aged(tab) \cup X
  BY DEF HInv, MemoryExact
<1>6. a = AddLast(AgeList(tmp, nw, older), c)
      /\ l = PushFront(BucketList(tmp.head, next, prev, b), c)
  BY DEF Ages, AgeList, Bucket, BucketList
<1>7. nw \in Pointers /\ nw[c] = NoCell /\ \A e \in Cells \ {c} : nw[e] = newer[e]
  BY <1>3, InvTypes DEF Pointers, CellOrNone
<1>8. IsTable(tmp, next, prev, newer, older, key, ch, X)
  BY InvTables
<1>9. tmp.size \in Nat \ {0}
  BY <1>2, <1>8 DEF IsTable, TableType
<1>10. b \in 0 .. tmp.size - 1 /\ \A d \in X : key[d] # k
  BY <1>1, <1>4, <1>8, <1>9, FoundExact
<1>11. X \subseteq Cells \ {c} /\ c \notin X /\ c \in Cells
  BY <1>3, InvTables
<1>12. /\ key' \in [Cells -> Keys \cup {NoKey}] /\ data' \in [Cells -> Data \cup {NoData}]
       /\ key'[c] = k /\ \A e \in Cells \ {c} : key'[e] = key[e]
  BY <1>1, <1>4, <1>11, InvTypes
<1>13. HashTo({c}, key', tmp.size, b)
  BY <1>4, <1>12 DEF HashTo, Index
<1> HIDE DEF k, c, ch, X, b, nw, l, a
<1>14. KeepsKeys(key, key', X) /\ \A d \in X : key[d] # key'[c]
  BY <1>10, <1>11, <1>12 DEF KeepsKeys
<1>15. IsTable(tmp, next, prev, nw, older, key, ch, X)
  <2>1. next \in Pointers /\ prev \in Pointers /\ nw \in Pointers /\ older \in Pointers
    BY <1>7, InvTypes
  <2>2. \A e \in X : /\ next[e] = next[e] /\ prev[e] = prev[e] /\ key[e] = key[e]
                     /\ nw[e] = newer[e] /\ older[e] = older[e]
    BY <1>7, <1>11
  <2> QED BY <1>8, <2>1, <2>2, TableKept
<1>16. /\ IsTable(Relinked(tmp, b, l, a, 1), l.nxt, l.prv, a.nxt, a.prv, key', g, Z)
       /\ SameOutside(BucketList(tmp.head, next, prev, b), l, Z)
       /\ SameOutside(AgeList(tmp, nw, older), a, Z)
       /\ IsList(l, ch[b] \cup {c}) /\ IsAgedList(a, Z)
  <2>1. c \in Cells /\ c \notin X /\ nw[c] = NoCell /\ b \in 0 .. tmp.size - 1
    BY <1>7, <1>10, <1>11
  <2>3. IsTable(Relinked(tmp, b, l, a, 1), l.nxt, l.prv, a.nxt, a.prv, key', g, Z)
    BY ONLY <1>6, <1>13, <1>14, <1>15, <2>1, TableInsert, SMTT(60)
  <2> DEFINE chain == BucketList(tmp.head, next, prev, b)
             ages == AgeList(tmp, nw, older)
  <2>4. /\ IsList(chain, ch[b]) /\ ch[b] \subseteq X
        /\ IsAgedList(ages, X) /\ ages.nxt[c] = NoCell
    BY <1>15, <2>1, TableParts DEF AgeList
  <2>5. l = PushFront(chain, c) /\ a = AddLast(ages, c)
    BY <1>6
  <2> HIDE DEF chain, ages
  <2>6. SameOutside(chain, l, ch[b] \cup {c}) /\ IsList(l, ch[b] \cup {c})
    BY <2>1, <2>4, <2>5, PushFrontList
  <2>7. SameOutside(ages, a, Z) /\ IsAgedList(a, Z)
    BY <2>1, <2>4, <2>5, AddLastList
  <2>8. SameOutside(chain, l, Z)
    BY <2>4, <2>6 DEF SameOutside
  <2> QED BY <2>3, <2>6, <2>7, <2>8 DEF chain, ages
<1>17. /\ next' \in Pointers /\ prev' \in Pointers /\ newer' \in Pointers /\ older' \in Pointers
       /\ \A e \in Cells \ Z :
             /\ next'[e] = next[e] /\ prev'[e] = prev[e] /\ key'[e] = key[e]
             /\ newer'[e] = newer[e] /\ older'[e] = older[e]
  BY <1>1, <1>7, <1>12, <1>16 DEF IsAgedList, IsList, SameOutside, BucketList, AgeList
<1>18. Z \subseteq used' /\ Aged(tab) \subseteq used' /\ Aged(tab) \subseteq Cells \ Z
  BY <1>1, <1>3, <1>5, InvTables DEF X
<1>19. /\ Ordered(tmp', next', prev', newer', older', key', used')
       /\ Reach(tmp'.oldest, newer', used') = Z
  <2>1. IsTable(tmp', next', prev', newer', older', key', g, Z)
    BY <1>1, <1>16
  <2> HIDE DEF g, Z
  <2> QED BY <1>18, <2>1, OrderedIntro
<1>20. /\ Ordered(tab, next', prev', newer', older', key', used')
       /\ Reach(tab.oldest, newer', used') = Aged(tab)
  <2>1. \A e \in Aged(tab) : /\ next'[e] = next[e] /\ prev'[e] = prev[e] /\ key'[e] = key[e]
                             /\ newer'[e] = newer[e] /\ older'[e] = older[e]
    BY <1>17, <1>18
  <2>2. IsTable(tab, next, prev, newer, older, key, ReachChains(tab, next, used), Aged(tab))
    BY InvTables
  <2>3. next' \in Pointers /\ prev' \in Pointers /\ newer' \in Pointers /\ older' \in Pointers
    BY <1>17
  <2> QED BY <1>18, <2>1, <2>2, <2>3, TableStays
<1>21. TablesInv' /\ Aged(tab)' = Aged(tab) /\ Aged(tmp)' = Z
  BY <1>1, <1>19, <1>20 DEF TablesInv, Aged
<1>22. MemoryExact'
  BY <1>1, <1>3, <1>5, <1>21, InvTables, CellsAssumption DEF MemoryExact
<1>23. KeyInv'
  BY <1>1, <1>4, <1>12, InvTables DEF HInv, KeyInv
<1>24. IterInv'
  <2>1. it' = NoIteration
    BY <1>1, <1>2 DEF HInv, IterInv
  <2> QED BY <1>21, <2>1, IterNone DEF IterInv
<1>25. new # NoCell => new \in Cells \ Z
  BY <1>3, <1>5, InvTypes DEF CellOrNone
<1>26. newer[rit] \in Aged(tab) \cup {NoCell}
  BY <1>2, InvTables, ListLinks DEF IsAgedList, Links, Ages
<1>27. CallInv'
  <2>1. new # NoCell => /\ newer'[new] = NoCell
                        /\ \A e \in Aged(tab) : key'[e] # key'[new]
    BY <1>2, <1>17, <1>18, <1>25
  <2>2. \A e \in Z : \E d \in Aged(tab) : key'[e] = key'[d]
    <3>1. \A d \in Aged(tab) : key'[d] = key[d]
      BY <1>17, <1>18
    <3>2. key'[c] = key'[rit]
      BY <1>2, <1>12, <3>1 DEF k
    <3>3. \A e \in X : key'[e] = key[e]
      BY <1>11, <1>12
    <3> QED BY <1>2, <3>1, <3>2, <3>3
  <2>3. tmp'.size # 0
    <3>1. tmp'.size = tmp.size
      BY <1>1, <1>8 DEF Relinked, IsTable, TableType
    <3> QED BY <1>2, <3>1
  <2> QED BY <1>1, <1>2, <1>21, <1>26, <2>1, <2>2, <2>3 DEF CallInv
<1>28. TypeOK'
  <2>1. used' \subseteq Cells /\ rit' \in CellOrNone
    BY <1>1, <1>11, <1>26, InvTables, InvTypes DEF CellOrNone
  <2> QED BY <1>1, <1>12, <1>17, <1>21, <2>1, TypeNext, InvTypes
<1>29. CopiesTo(c)
  <2>1. \A e \in Aged(tab) \cup Aged(tmp) :
           e # c /\ key'[e] = key[e] /\ data'[e] = data[e]
    BY <1>1, <1>3, <1>12, InvTables, InvTypes
  <2>2. data'[c] = data[rit] /\ key'[c] = key[rit]
    BY <1>1, <1>11, <1>12, InvTypes DEF k
  <2>3. \A e \in Aged(tab) : newer'[e] = newer[e]
    BY <1>17, <1>18
  <2>4. newer' = AddLast([Ages(tmp) EXCEPT !.nxt[c] = NoCell], c).nxt
    BY <1>1 DEF a
  <2> QED BY <1>21, <2>1, <2>2, <2>3, <2>4 DEF CopiesTo, X
<1> QED BY <1>3, <1>21, <1>22, <1>23, <1>24, <1>27, <1>28, <1>29 DEF HInv

-----------------------------------------------------------------------------
(* The theorems.                                                           *)

\* Every step keeps the invariant.
LEMMA NextInv == HInv /\ [Next]_vars => HInv'
<1> SUFFICES ASSUME HInv, [Next]_vars PROVE HInv'
  OBVIOUS
<1>1. ASSUME NEW n \in Sizes, Create(n) \/ Rehash(n) PROVE HInv'
  BY <1>1, CreateInv, RehashInv
<1>2. ASSUME Configure \/ Finalize PROVE HInv'
  BY <1>2, ConfigureInv, FinalizeInv
<1>3. ASSUME RehashCopy \/ RehashSkip \/ RehashEnd PROVE HInv'
  BY <1>3, RehashCopyInv, RehashSkipInv, RehashEndInv
<1>4. ASSUME NEW k \in Keys, NEW d \in Values[k], Insert(k, d) \/ Replace(k, d)
      PROVE  HInv'
  BY <1>4, InsertInv, ReplaceInv
<1>5. ASSUME NEW k \in Keys, Get(k) \/ Remove(k) PROVE HInv'
  BY <1>5, GetInv, RemoveInv
<1>6. ASSUME LinkRoom \/ LinkEvict PROVE HInv'
  BY <1>6, LinkRoomInv, LinkEvictInv
<1>7. ASSUME First \/ Advance \/ EndIteration PROVE HInv'
  BY <1>7, FirstInv, AdvanceInv, EndIterationInv
<1>8. CASE UNCHANGED vars
  BY <1>8, StutterInv
<1> QED BY <1>1, <1>2, <1>3, <1>4, <1>5, <1>6, <1>7, <1>8 DEF Next

\* CommonHashTable.cpp: the invariant holds, for any number of cells, keys and
\* buckets and any hash function, load, bucket limit and heuristics.
THEOREM Invariance == Spec => []HInv
<1> QED BY InitInv, NextInv, PTL DEF Spec

\* CommonHashTable.cpp: pointers point to cells or to nothing, buckets have as
\* many entries as p_ht says there are.
THEOREM TypeCorrect == Spec => []TypeOK
<1>1. HInv => TypeOK
  BY InvImplies
<1> QED BY <1>1, Invariance, PTL

\* ght_insert, ght_remove, ght_rehash and the heuristics: each bucket and the
\* list by age stay doubly linked lists of the same entries, with no key twice.
THEOREM ListsStaySound == Spec => []ListsSound
<1>1. HInv => ListsSound
  BY InvImplies
<1> QED BY <1>1, Invariance, PTL

\* i_items and p_nr: what automatic rehashing and bounded buckets compare is
\* the number of entries there are.
THEOREM CountersExact == Spec => []CountsExact
<1>1. HInv => CountsExact
  BY InvImplies
<1> QED BY <1>1, Invariance, PTL

\* he_create and he_finalize: no entry is leaked, and none is freed that a
\* list still holds.
THEOREM NothingLeaks == Spec => []MemoryExact
<1>1. HInv => MemoryExact
  BY InvImplies
<1> QED BY <1>1, Invariance, PTL

\* ght_first and ght_next: an iteration under insertions, and removals of what
\* it has passed, never holds a freed entry and misses none.
THEOREM IterationMissesNothing == Spec => []IterationComplete
<1>1. HInv => IterationComplete
  BY InvImplies
<1> QED BY <1>1, Invariance, PTL

-----------------------------------------------------------------------------
(* The order of the cells of a list.                                       *)

\* A cell follows another if a walk from that one meets it.
LEMMA FollowsPairs ==
    ASSUME NEW nxt, NEW X
    PROVE  /\ Follows(nxt, X) \subseteq X \X X
           /\ \A c, d : <<c, d>> \in Follows(nxt, X)
                        <=> c \in X /\ d \in Reach(c, nxt, X) /\ d # c
<1>1. \A c \in X : Reach(c, nxt, X) \subseteq X
  BY DEF Reach
<1>2. \A c, d : <<c, d>> \in Follows(nxt, X)
                <=> c \in X /\ d \in Reach(c, nxt, X) /\ d # c
  BY DEF Follows
<1>3. Follows(nxt, X) \subseteq X \X X
  BY <1>1 DEF Follows
<1> QED BY <1>2, <1>3

\* From each cell of a list a walk meets the cell, then what one from the next
\* cell meets.
LEMMA WalkFacts ==
    ASSUME NEW l, NEW X, IsList(l, X), NEW c \in X
    PROVE  /\ Walks(c, l.nxt, Reach(c, l.nxt, X)) /\ Reach(c, l.nxt, X) \subseteq X
           /\ c \in Reach(c, l.nxt, X)
           /\ Reach(l.nxt[c], l.nxt, X) = Reach(c, l.nxt, X) \ {c}
<1> DEFINE R == Reach(c, l.nxt, X)
<1>1. Walks(c, l.nxt, R) /\ R \subseteq X
  BY ListLinks, ReachWalks DEF Links
<1> HIDE DEF R
<1>2. c \in R /\ Walks(l.nxt[c], l.nxt, R \ {c})
  BY <1>1, WalkStep
<1>3. Reach(l.nxt[c], l.nxt, X) = R \ {c}
  <2>1. R \ {c} \subseteq X
    BY <1>1
  <2> QED BY <1>2, <2>1, WalkReaches
<1> QED BY <1>1, <1>2, <1>3 DEF R

\* Of two cells of a list one is met from the other.
LEMMA OneFollows ==
    ASSUME NEW l, NEW X, IsList(l, X), NEW c \in X, NEW d \in X
    PROVE  d \in Reach(c, l.nxt, X) \/ c \in Reach(d, l.nxt, X)
<1> DEFINE R(x) == Reach(x, l.nxt, X)
           S == {x \in X : c \in R(x) \/ x \in R(c)}
<1>1. \A x \in X : /\ ClosedFrom(x, l.nxt, R(x)) /\ R(x) \subseteq X
                   /\ x \in R(x) /\ R(l.nxt[x]) = R(x) \ {x}
  BY WalkFacts DEF Walks
<1>2. Links(l, X)
  BY ListLinks
<1>3. R(l.first) = X
  BY WalkAll, WalkReaches
<1> HIDE DEF R
<1>4. l.first \in S
  BY <1>2, <1>3, NoFirst DEF Links
<1>5. ASSUME NEW x \in S PROVE l.nxt[x] \in S \cup {NoCell}
  <2>1. l.nxt[x] \in X \cup {NoCell}
    BY <1>2 DEF Links
  <2>2. CASE x \in R(c)
    BY <1>1, <2>1, <2>2 DEF ClosedFrom
  <2>3. CASE x \notin R(c)
    BY <1>1, <2>1, <2>3
  <2> QED BY <2>2, <2>3
<1>6. S = X
  <2>1. S \subseteq X
    OBVIOUS
  <2> QED BY <1>4, <1>5, <2>1, ClosedIsAll
<1> QED BY <1>6 DEF R

\* What a walk meets, and so what follows, depends on the pointers of the cells
\* of the list only.
LEMMA ReachKept ==
    ASSUME NEW nxt, NEW nxt2, NEW X, \A c \in X : nxt2[c] = nxt[c], NEW at
    PROVE  Reach(at, nxt2, X) = Reach(at, nxt, X)
<1>1. \A S \in SUBSET X : ClosedFrom(at, nxt2, S) <=> ClosedFrom(at, nxt, S)
  BY DEF ClosedFrom
<1> QED BY <1>1 DEF Reach

\* Likewise for what follows a cell.
LEMMA FollowsKept ==
    ASSUME NEW nxt, NEW nxt2, NEW X, \A c \in X : nxt2[c] = nxt[c]
    PROVE  Follows(nxt2, X) = Follows(nxt, X)
<1>1. ASSUME NEW at PROVE Reach(at, nxt2, X) = Reach(at, nxt, X)
  BY ReachKept
<1> QED BY <1>1 DEF Follows

\* Each of X is followed by c.
Later(X, c) == X \X {c}

\* A cell added at the end follows all others,
LEMMA FollowsAddLast ==
    ASSUME NEW l, NEW X, IsAgedList(l, X), NEW c \in Cells, c \notin X, l.nxt[c] = NoCell
    PROVE  Follows(AddLast(l, c).nxt, X \cup {c}) = Follows(l.nxt, X) \cup Later(X, c)
<1> DEFINE m == AddLast(l, c)
           n == m.nxt
           Y == X \cup {c}
<1>1. IsList(l, X) /\ Links(l, X) /\ IsAgedList(m, Y) /\ IsList(m, Y) /\ Links(m, Y) /\ Ended(m, Y)
      /\ m.last = c
  BY AddLastList, ListLinks DEF IsAgedList, AddLast
<1> HIDE DEF m, Y
<1>2. ASSUME NEW e \in X PROVE Reach(e, n, Y) = Reach(e, l.nxt, X) \cup {c}
  <2>1. Walks(e, l.nxt, Reach(e, l.nxt, X)) /\ Reach(e, l.nxt, X) \subseteq X /\ e # NoCell
    BY <1>1, WalkFacts DEF Links
  <2>2. Walks(e, n, Reach(e, l.nxt, X) \cup {c})
    BY <2>1, WalkAddLast DEF m
  <2>3. Reach(e, l.nxt, X) \cup {c} \subseteq Y
    BY <2>1 DEF Y
  <2> QED BY <2>2, <2>3, WalkReaches
<1>3. Reach(c, n, Y) = {c}
  <2>1. c \in Y /\ m.nxt[c] = NoCell /\ c # NoCell
    BY <1>1, CellsAssumption DEF Ended, Y
  <2>2. Walks(c, n, {c})
    BY <2>1 DEF Walks, ClosedFrom
  <2>3. {c} \subseteq Y
    BY <2>1
  <2> QED BY <2>2, <2>3, WalkReaches
<1> HIDE DEF n
<1>4. ASSUME NEW e, NEW d
      PROVE  <<e, d>> \in Follows(n, Y) <=> <<e, d>> \in Follows(l.nxt, X) \cup Later(X, c)
  <2>1. <<e, d>> \in Follows(n, Y) <=> e \in Y /\ d \in Reach(e, n, Y) /\ d # e
    BY FollowsPairs
  <2>2. <<e, d>> \in Follows(l.nxt, X) <=> e \in X /\ d \in Reach(e, l.nxt, X) /\ d # e
    BY FollowsPairs
  <2> QED BY <1>2, <1>3, <2>1, <2>2 DEF Y, Later
<1>5. Follows(n, Y) \subseteq Y \X Y /\ Follows(l.nxt, X) \cup Later(X, c) \subseteq Y \X Y
  BY FollowsPairs DEF Y, Later
<1>6. Follows(n, Y) = Follows(l.nxt, X) \cup Later(X, c)
  BY <1>4, <1>5
<1> QED BY <1>6 DEF n, m, Y

\* The pairs F without those of p.
Dropped(F, p) == {e \in F : e[1] # p /\ e[2] # p}

\* and a cell that is unlinked leaves the others in their order.
LEMMA FollowsUnlink ==
    ASSUME NEW l, NEW X, IsAgedList(l, X), NEW p \in X
    PROVE  Follows(UnlinkAged(l, p).nxt, X \ {p}) = Dropped(Follows(l.nxt, X), p)
<1> DEFINE n == Unlink(l, p).nxt
           Y == X \ {p}
<1>1. IsList(l, X) /\ UnlinkAged(l, p).nxt = n
  BY DEF IsAgedList, UnlinkAged
<1>2. ASSUME NEW e \in Y PROVE Reach(e, n, Y) = Reach(e, l.nxt, X) \ {p}
  <2>1. Walks(e, l.nxt, Reach(e, l.nxt, X)) /\ Reach(e, l.nxt, X) \subseteq X
    BY <1>1, WalkFacts
  <2>2. Walks(e, n, Reach(e, l.nxt, X) \ {p})
    BY <1>1, <2>1, WalkUnlink
  <2>3. Reach(e, l.nxt, X) \ {p} \subseteq Y
    BY <2>1
  <2> QED BY <2>2, <2>3, WalkReaches
<1> HIDE DEF n
<1>3. ASSUME NEW e, NEW d
      PROVE  <<e, d>> \in Follows(n, Y) <=> <<e, d>> \in Dropped(Follows(l.nxt, X), p)
  <2>1. <<e, d>> \in Follows(n, Y) <=> e \in Y /\ d \in Reach(e, n, Y) /\ d # e
    BY FollowsPairs
  <2>2. <<e, d>> \in Follows(l.nxt, X) <=> e \in X /\ d \in Reach(e, l.nxt, X) /\ d # e
    BY FollowsPairs
  <2>3. <<e, d>> \in Dropped(Follows(l.nxt, X), p)
        <=> <<e, d>> \in Follows(l.nxt, X) /\ e # p /\ d # p
    BY DEF Dropped
  <2> QED BY <1>2, <2>1, <2>2, <2>3
<1>4. Follows(n, Y) \subseteq Y \X Y
  BY FollowsPairs
<1>5. Dropped(Follows(l.nxt, X), p) \subseteq X \X X
  BY FollowsPairs DEF Dropped
<1> QED BY <1>1, <1>3, <1>4, <1>5, SMTT(40)

-----------------------------------------------------------------------------
(* Entries as a map, and the order of their keys.                          *)

\* The map m gives the cells X, whose keys are ky, their data, and is empty
\* otherwise.
Holds(m, X, ky, dt) ==
    /\ m \in [Keys -> Data \cup {NoData}]
    /\ \A c \in X : ky[c] \in Keys /\ dt[c] \in Data /\ m[ky[c]] = dt[c]
    /\ \A k \in Keys : (\A c \in X : ky[c] # k) => m[k] = NoData

\* The keys of the cells X, and those of the pairs of cells F.
KeysOf(X, ky) == {ky[c] : c \in X}
OrderOf(F, ky) == {<<ky[e[1]], ky[e[2]]>> : e \in F}

\* The pairs o without those of the key k.
DroppedKey(o, k) == {q \in o : q[1] # k /\ q[2] # k}

\* The cells X have the same keys and data afterwards.
SameCells(X, ky, dt, ky2, dt2) == \A c \in X : ky2[c] = ky[c] /\ dt2[c] = dt[c]

\* The cells of a map are what is stored in it.
LEMMA HoldsStored ==
    ASSUME NEW m, NEW X, NEW ky, NEW dt, Holds(m, X, ky, dt)
    PROVE  {k \in Keys : m[k] # NoData} = KeysOf(X, ky)
<1>1. NoData \notin Data
  BY KeysAssumption
<1> QED BY <1>1 DEF Holds, KeysOf

\* The same cells, with the same keys and data.
LEMMA HoldsSame ==
    ASSUME NEW m, NEW m2, NEW X, NEW ky, NEW dt, NEW ky2, NEW dt2,
           Holds(m, X, ky, dt), Holds(m2, X, ky2, dt2), SameCells(X, ky, dt, ky2, dt2)
    PROVE  m2 = m
<1>1. m \in [Keys -> Data \cup {NoData}] /\ m2 \in [Keys -> Data \cup {NoData}]
  BY DEF Holds
<1>2. ASSUME NEW k \in Keys PROVE m2[k] = m[k]
  BY DEF Holds, SameCells
<1> QED BY <1>1, <1>2

\* The map m2 has the data d for the key k, which m has not.
Adds(m, m2, k, d) ==
    k \in Keys /\ d \in Data /\ m[k] = NoData /\ m2 = [m EXCEPT ![k] = d]

\* A cell more.
LEMMA HoldsAdd ==
    ASSUME NEW m, NEW m2, NEW X, NEW ky, NEW dt, NEW ky2, NEW dt2, NEW c,
           Holds(m, X, ky, dt), Holds(m2, X \cup {c}, ky2, dt2),
           SameCells(X, ky, dt, ky2, dt2), \A d \in X : ky[d] # ky2[c]
    PROVE  Adds(m, m2, ky2[c], dt2[c])
<1>1. /\ m \in [Keys -> Data \cup {NoData}] /\ m2 \in [Keys -> Data \cup {NoData}]
      /\ ky2[c] \in Keys /\ dt2[c] \in Data /\ m[ky2[c]] = NoData
  BY DEF Holds
<1>2. ASSUME NEW k \in Keys PROVE m2[k] = IF k = ky2[c] THEN dt2[c] ELSE m[k]
  <2>1. CASE k = ky2[c]
    BY <2>1 DEF Holds
  <2>2. CASE k # ky2[c] /\ \A d \in X : ky[d] # k
    BY <2>2 DEF Holds, SameCells
  <2>3. CASE k # ky2[c] /\ \E d \in X : ky[d] = k
    BY <2>3 DEF Holds, SameCells
  <2> QED BY <2>1, <2>2, <2>3
<1> QED BY <1>1, <1>2 DEF Adds

\* The map m2 has nothing for the key k, which m has.
Removes(m, m2, k) == k \in Keys /\ m[k] # NoData /\ m2 = [m EXCEPT ![k] = NoData]

\* A cell less.
LEMMA HoldsDrop ==
    ASSUME NEW m, NEW m2, NEW X, NEW ky, NEW dt, NEW ky2, NEW dt2, NEW p \in X,
           Holds(m, X, ky, dt), Holds(m2, X \ {p}, ky2, dt2),
           SameCells(X \ {p}, ky, dt, ky2, dt2), KeysDiffer(ky, X)
    PROVE  Removes(m, m2, ky[p])
<1>1. /\ m \in [Keys -> Data \cup {NoData}] /\ m2 \in [Keys -> Data \cup {NoData}]
      /\ ky[p] \in Keys /\ m[ky[p]] # NoData
  BY KeysAssumption DEF Holds
<1>2. ASSUME NEW k \in Keys PROVE m2[k] = IF k = ky[p] THEN NoData ELSE m[k]
  <2>1. CASE k = ky[p]
    <3>1. \A d \in X \ {p} : ky2[d] # k
      BY <2>1 DEF KeysDiffer, SameCells
    <3> QED BY <2>1, <3>1 DEF Holds
  <2>2. CASE k # ky[p] /\ \A d \in X : ky[d] # k
    BY <2>2 DEF Holds, SameCells
  <2>3. CASE k # ky[p] /\ \E d \in X : ky[d] = k
    BY <2>3 DEF Holds, SameCells
  <2> QED BY <2>1, <2>2, <2>3
<1> QED BY <1>1, <1>2 DEF Removes

\* The map m2 has other data for the key k.
Replaces(m, m2, k, d) ==
    k \in Keys /\ d \in Data /\ m[k] # NoData /\ m2 = [m EXCEPT ![k] = d]

\* Other data for one of the cells.
LEMMA HoldsReplace ==
    ASSUME NEW m, NEW m2, NEW X, NEW ky, NEW dt, NEW dt2, NEW c \in X, NEW d,
           Holds(m, X, ky, dt), Holds(m2, X, ky, dt2), KeysDiffer(ky, X),
           dt2[c] = d, \A e \in X \ {c} : dt2[e] = dt[e]
    PROVE  Replaces(m, m2, ky[c], d)
<1>1. /\ m \in [Keys -> Data \cup {NoData}] /\ m2 \in [Keys -> Data \cup {NoData}]
      /\ ky[c] \in Keys /\ m[ky[c]] # NoData /\ d \in Data
  BY KeysAssumption DEF Holds
<1>2. ASSUME NEW k \in Keys PROVE m2[k] = IF k = ky[c] THEN d ELSE m[k]
  <2>1. CASE k = ky[c]
    BY <2>1 DEF Holds
  <2>2. CASE k # ky[c] /\ \A e \in X : ky[e] # k
    BY <2>2 DEF Holds
  <2>3. CASE k # ky[c] /\ \E e \in X : ky[e] = k
    BY <2>3 DEF Holds
  <2> QED BY <2>1, <2>2, <2>3
<1> QED BY <1>1, <1>2 DEF Replaces

\* The order of the keys, with the same cells,
LEMMA OrderSame ==
    ASSUME NEW F, NEW X, NEW ky, NEW ky2, F \subseteq X \X X, \A c \in X : ky2[c] = ky[c]
    PROVE  OrderOf(F, ky2) = OrderOf(F, ky)
  BY DEF OrderOf

\* When the cell c comes after the cells X, its key comes after theirs.
OrderAdded(F, X, c, ky, ky2) ==
    OrderOf(F \cup Later(X, c), ky2) = OrderOf(F, ky) \cup Later(KeysOf(X, ky), ky2[c])

\* with a cell more
LEMMA OrderAdd ==
    ASSUME NEW F, NEW X, NEW ky, NEW ky2, NEW c, F \subseteq X \X X,
           \A d \in X : ky2[d] = ky[d]
    PROVE  OrderAdded(F, X, c, ky, ky2)
<1>1. OrderOf(F \cup Later(X, c), ky2) = OrderOf(F, ky2) \cup OrderOf(Later(X, c), ky2)
  BY DEF OrderOf
<1>2. OrderOf(F, ky2) = OrderOf(F, ky)
  BY OrderSame
<1>3. OrderOf(Later(X, c), ky2) = Later(KeysOf(X, ky), ky2[c])
  <2>1. \A e \in Later(X, c) : e[1] \in X /\ e[2] = c /\ ky2[e[1]] = ky[e[1]]
    BY DEF Later
  <2>2. \A d \in X : <<d, c>> \in Later(X, c) /\ <<d, c>>[1] = d /\ <<d, c>>[2] = c
    BY DEF Later
  <2>3. OrderOf(Later(X, c), ky2) \subseteq Later(KeysOf(X, ky), ky2[c])
    BY <2>1 DEF OrderOf, KeysOf, Later
  <2>4. ASSUME NEW d \in X PROVE <<ky[d], ky2[c]>> \in OrderOf(Later(X, c), ky2)
    BY <2>2 DEF OrderOf
  <2>5. Later(KeysOf(X, ky), ky2[c]) \subseteq OrderOf(Later(X, c), ky2)
    <3>1. ASSUME NEW x \in KeysOf(X, ky) PROVE <<x, ky2[c]>> \in OrderOf(Later(X, c), ky2)
      BY <2>4 DEF KeysOf
    <3> QED BY <3>1 DEF Later
  <2> QED BY <2>3, <2>5
<1> QED BY <1>1, <1>2, <1>3 DEF OrderAdded

\* and with a cell less.
LEMMA OrderDrop ==
    ASSUME NEW F, NEW X, NEW ky, NEW ky2, NEW p \in X, F \subseteq X \X X,
           KeysDiffer(ky, X), \A d \in X \ {p} : ky2[d] = ky[d]
    PROVE  OrderOf(Dropped(F, p), ky2) = DroppedKey(OrderOf(F, ky), ky[p])
<1>1. \A c \in X : ky[c] = ky[p] <=> c = p
  BY DEF KeysDiffer
<1>2. \A e \in F : e \in Dropped(F, p) <=> ky[e[1]] # ky[p] /\ ky[e[2]] # ky[p]
  BY <1>1 DEF Dropped
<1>3. \A e \in Dropped(F, p) : ky2[e[1]] = ky[e[1]] /\ ky2[e[2]] = ky[e[2]]
  BY DEF Dropped
<1> QED BY <1>2, <1>3 DEF OrderOf, DroppedKey, Dropped

-----------------------------------------------------------------------------
(* A rehash as the copying of entries and their order.                     *)

\* The cells c and d have the same key.
SameKey(ky, c, d) == ky[c] = ky[d]

\* A rehash copies the cells X, of which the cells rest are left, to Y; lo are
\* the keys of those it could not copy.  F and G are the orders of X and Y.
Copies(X, F, Y, G, rest, lo, ky, dt) ==
    /\ \A d \in rest : ky[d] \notin lo /\ \A c \in Y : ky[c] # ky[d]
    /\ \A d \in X \ rest : ky[d] \in lo <=> \A c \in Y : ky[c] # ky[d]
    /\ \A c \in Y : \E d \in X : ky[c] = ky[d] /\ dt[c] = dt[d]
    /\ \A c1, c2 \in Y : \A d1, d2 \in X :
          SameKey(ky, c1, d1) /\ SameKey(ky, c2, d2)
          => (<<c1, c2>> \in G <=> <<d1, d2>> \in F)

\* The cell r is the next one, and rest what is left with it.
NextCopied(X, F, rest, r) ==
    /\ r \in rest /\ rest \subseteq X
    /\ <<r, r>> \notin F
    /\ \A d \in X \ rest : <<d, r>> \in F /\ <<r, d>> \notin F

\* Before anything is copied.
LEMMA CopiesStart ==
    ASSUME NEW X, NEW F, NEW G, NEW ky, NEW dt
    PROVE  Copies(X, F, {}, G, X, {}, ky, dt)
  BY DEF Copies

\* A cell that is copied,
LEMMA CopiesCopy ==
    ASSUME NEW X, NEW F, NEW Y, NEW G, NEW rest, NEW lo, NEW ky, NEW dt,
           Copies(X, F, Y, G, rest, lo, ky, dt),
           NEW r, NextCopied(X, F, rest, r), KeysDiffer(ky, X), G \subseteq Y \X Y,
           NEW c, c \notin X \cup Y, NEW ky2, NEW dt2,
           SameCells(X \cup Y, ky, dt, ky2, dt2), ky2[c] = ky[r], dt2[c] = dt[r]
    PROVE  Copies(X, F, Y \cup {c}, G \cup Later(Y, c), rest \ {r}, lo, ky2, dt2)
<1>1. r \in X /\ \A d \in X : ky[d] = ky[r] <=> d = r
  BY DEF NextCopied, KeysDiffer
<1>2. \A d \in X \cup Y : ky2[d] = ky[d] /\ dt2[d] = dt[d]
  BY DEF SameCells
<1>3. \A d \in rest \ {r} : ky2[d] \notin lo /\ \A e \in Y \cup {c} : ky2[e] # ky2[d]
  BY <1>1, <1>2 DEF Copies, NextCopied
<1>4. \A d \in X \ (rest \ {r}) : ky2[d] \in lo <=> \A e \in Y \cup {c} : ky2[e] # ky2[d]
  <2>1. ky2[r] \notin lo /\ ky2[c] = ky2[r]
    BY <1>1, <1>2 DEF Copies, NextCopied
  <2>2. ASSUME NEW d \in X \ rest
        PROVE  ky2[d] \in lo <=> \A e \in Y \cup {c} : ky2[e] # ky2[d]
    <3>1. d # r /\ ky2[c] # ky2[d]
      BY <1>1, <1>2 DEF NextCopied
    <3>2. ky[d] \in lo <=> \A e \in Y : ky[e] # ky[d]
      BY DEF Copies
    <3> QED BY <1>2, <3>1, <3>2
  <2> QED BY <2>1, <2>2
<1>5. \A e \in Y \cup {c} : \E d \in X : ky2[e] = ky2[d] /\ dt2[e] = dt2[d]
  BY <1>1, <1>2 DEF Copies
<1>6. ASSUME NEW c1 \in Y \cup {c}, NEW c2 \in Y \cup {c}, NEW d1 \in X, NEW d2 \in X,
             ky2[c1] = ky2[d1], ky2[c2] = ky2[d2]
      PROVE  <<c1, c2>> \in G \cup Later(Y, c) <=> <<d1, d2>> \in F
  <2>1. /\ <<c1, c2>> \in G => c1 \in Y /\ c2 \in Y
        /\ <<c1, c2>> \in Later(Y, c) <=> c1 \in Y /\ c2 = c
        /\ c \notin Y
    BY DEF Later
  <2>2. ASSUME NEW e \in Y, NEW d \in X, ky2[e] = ky2[d] PROVE d \in X \ rest
    BY <1>2, <2>2 DEF Copies
  <2>3. ASSUME NEW d \in X, ky2[c] = ky2[d] PROVE d = r
    BY <1>1, <1>2, <2>3
  <2>4. CASE c1 \in Y /\ c2 \in Y
    <3>1. SameKey(ky, c1, d1) /\ SameKey(ky, c2, d2)
      BY <1>2, <1>6, <2>4 DEF SameKey
    <3>2. <<c1, c2>> \in G <=> <<d1, d2>> \in F
      BY <2>4, <3>1 DEF Copies
    <3> QED BY <2>1, <2>4, <3>2
  <2>5. CASE c1 \in Y /\ c2 = c
    <3>1. d1 \in X \ rest /\ d2 = r
      BY <1>6, <2>2, <2>3, <2>5
    <3> QED BY <2>1, <2>5, <3>1 DEF NextCopied
  <2>6. CASE c1 = c /\ c2 \in Y
    <3>1. d1 = r /\ d2 \in X \ rest
      BY <1>6, <2>2, <2>3, <2>6
    <3> QED BY <2>1, <2>6, <3>1 DEF NextCopied
  <2>7. CASE c1 = c /\ c2 = c
    <3>1. d1 = r /\ d2 = r
      BY <1>6, <2>3, <2>7
    <3> QED BY <2>1, <2>7, <3>1 DEF NextCopied
  <2> QED BY <2>4, <2>5, <2>6, <2>7
<1> QED BY <1>3, <1>4, <1>5, <1>6 DEF Copies, SameKey

\* and one that is skipped.
LEMMA CopiesSkip ==
    ASSUME NEW X, NEW F, NEW Y, NEW G, NEW rest, NEW lo, NEW ky, NEW dt,
           Copies(X, F, Y, G, rest, lo, ky, dt),
           NEW r \in rest, rest \subseteq X, KeysDiffer(ky, X)
    PROVE  Copies(X, F, Y, G, rest \ {r}, lo \cup {ky[r]}, ky, dt)
<1>1. r \in X /\ \A d \in X : ky[d] = ky[r] <=> d = r
  BY DEF KeysDiffer
<1>2. \A d \in rest \ {r} : ky[d] \notin lo \cup {ky[r]} /\ \A c \in Y : ky[c] # ky[d]
  BY <1>1 DEF Copies
<1>3. \A d \in X \ (rest \ {r}) : ky[d] \in lo \cup {ky[r]} <=> \A c \in Y : ky[c] # ky[d]
  <2>1. \A c \in Y : ky[c] # ky[r]
    BY DEF Copies
  <2>2. ASSUME NEW d \in X \ rest
        PROVE  ky[d] \in lo \cup {ky[r]} <=> \A c \in Y : ky[c] # ky[d]
    BY <1>1 DEF Copies
  <2> QED BY <2>1, <2>2
<1> QED BY <1>2, <1>3 DEF Copies

\* When the rehash has copied or skipped all cells, the copy has what the table
\* had but the keys that were lost,
LEMMA CopiesHold ==
    ASSUME NEW X, NEW F, NEW Y, NEW G, NEW lo, NEW ky, NEW dt,
           Copies(X, F, Y, G, {}, lo, ky, dt),
           NEW m, NEW m2, NEW ky2, NEW dt2, Holds(m, X, ky, dt), Holds(m2, Y, ky2, dt2),
           SameCells(Y, ky, dt, ky2, dt2)
    PROVE  m2 = [k \in Keys |-> IF k \in lo THEN NoData ELSE m[k]]
<1>1. m2 \in [Keys -> Data \cup {NoData}]
  BY DEF Holds
<1>2. ASSUME NEW k \in Keys PROVE m2[k] = IF k \in lo THEN NoData ELSE m[k]
  <2>1. CASE \E c \in Y : ky[c] = k
    <3>1. PICK c \in Y : ky[c] = k
      BY <2>1
    <3>2. PICK d \in X : ky[c] = ky[d] /\ dt[c] = dt[d]
      BY DEF Copies
    <3>3. k \notin lo
      BY <3>1, <3>2 DEF Copies
    <3>4. m2[k] = dt[c] /\ m[k] = dt[d]
      BY <3>1, <3>2 DEF Holds, SameCells
    <3> QED BY <3>2, <3>3, <3>4
  <2>2. CASE \A c \in Y : ky[c] # k
    <3>1. m2[k] = NoData
      BY <2>2 DEF Holds, SameCells
    <3>2. k \notin lo => \A d \in X : ky[d] # k
      BY <2>2 DEF Copies
    <3> QED BY <3>1, <3>2 DEF Holds
  <2> QED BY <2>1, <2>2
<1> QED BY <1>1, <1>2

\* in the same order.
LEMMA CopiesOrder ==
    ASSUME NEW X, NEW F, NEW Y, NEW G, NEW lo, NEW ky, NEW dt,
           Copies(X, F, Y, G, {}, lo, ky, dt), F \subseteq X \X X, G \subseteq Y \X Y,
           NEW ky2, \A c \in Y : ky2[c] = ky[c]
    PROVE  OrderOf(G, ky2) = {q \in OrderOf(F, ky) : q[1] \notin lo /\ q[2] \notin lo}
<1> DEFINE o == {q \in OrderOf(F, ky) : q[1] \notin lo /\ q[2] \notin lo}
<1>1. OrderOf(G, ky2) = OrderOf(G, ky)
  BY OrderSame
<1>2. \A e \in F : e[1] \in X /\ e[2] \in X /\ e = <<e[1], e[2]>>
  OBVIOUS
<1>3. \A e \in G : e[1] \in Y /\ e[2] \in Y /\ e = <<e[1], e[2]>>
  OBVIOUS
<1>4. ASSUME NEW e \in G PROVE <<ky[e[1]], ky[e[2]]>> \in o
  <2>1. PICK d1 \in X : ky[e[1]] = ky[d1]
    BY <1>3 DEF Copies
  <2>2. PICK d2 \in X : ky[e[2]] = ky[d2]
    BY <1>3 DEF Copies
  <2>3. <<d1, d2>> \in F
    <3>1. SameKey(ky, e[1], d1) /\ SameKey(ky, e[2], d2)
      BY <2>1, <2>2 DEF SameKey
    <3>2. <<e[1], e[2]>> \in G <=> <<d1, d2>> \in F
      BY <1>3, <3>1 DEF Copies
    <3> QED BY <1>3, <3>2
  <2>4. ky[d1] \notin lo /\ ky[d2] \notin lo
    BY <1>3, <2>1, <2>2 DEF Copies
  <2>5. <<ky[d1], ky[d2]>> \in OrderOf(F, ky)
    BY <2>3 DEF OrderOf
  <2> QED BY <2>1, <2>2, <2>4, <2>5
<1>5. ASSUME NEW e \in F, ky[e[1]] \notin lo, ky[e[2]] \notin lo
      PROVE  <<ky[e[1]], ky[e[2]]>> \in OrderOf(G, ky)
  <2>1. PICK c1 \in Y : ky[c1] = ky[e[1]]
    BY <1>2, <1>5 DEF Copies
  <2>2. PICK c2 \in Y : ky[c2] = ky[e[2]]
    BY <1>2, <1>5 DEF Copies
  <2>3. <<c1, c2>> \in G
    <3>1. SameKey(ky, c1, e[1]) /\ SameKey(ky, c2, e[2])
      BY <2>1, <2>2 DEF SameKey
    <3>2. <<c1, c2>> \in G <=> <<e[1], e[2]>> \in F
      BY <1>2, <3>1 DEF Copies
    <3> QED BY <1>2, <3>2
  <2> QED BY <2>1, <2>2, <2>3 DEF OrderOf
<1>6. OrderOf(G, ky) \subseteq o
  BY <1>4 DEF OrderOf
<1>7. o \subseteq OrderOf(G, ky)
  <2>1. ASSUME NEW q \in o PROVE q \in OrderOf(G, ky)
    <3>1. q \in OrderOf(F, ky) /\ q[1] \notin lo /\ q[2] \notin lo
      OBVIOUS
    <3>2. PICK e \in F : q = <<ky[e[1]], ky[e[2]]>>
      BY <3>1 DEF OrderOf
    <3>3. q[1] = ky[e[1]] /\ q[2] = ky[e[2]]
      BY <3>2
    <3> QED BY <1>5, <3>1, <3>2, <3>3
  <2> QED BY <2>1
<1> QED BY <1>1, <1>6, <1>7

-----------------------------------------------------------------------------
(* What the table holds, and what a rehash has copied.                     *)

\* What is allocated has data.
DataInv == \A c \in used : data[c] \in Data

\* The cells that a rehash has still to copy.
Rest == Reach(rit, newer, Aged(tab))

\* A rehash under way.
Copying ==
    /\ pc # "rehash" => lost = {}
    /\ pc = "rehash" => Copies(Aged(tab), Follows(newer, Aged(tab)), Aged(tmp),
                               Follows(newer, Aged(tmp)), Rest, lost, key, data)

\* The dictionary of the table's entries.
EntriesHeld == Holds(Contents, Aged(tab), key, data)

\* What is needed beside HInv for the table to be a dictionary.
DInv == DataInv /\ Copying

\* The table's entries, as what is stored.
LEMMA TableEntries ==
    ASSUME HInv
    PROVE  /\ IsAgedList(Ages(tab), Aged(tab)) /\ IsList(Ages(tab), Aged(tab))
           /\ Ages(tab).nxt = newer
           /\ KeysDiffer(key, Aged(tab)) /\ Aged(tab) \subseteq used
           /\ Aged(tab) \subseteq Cells
           /\ \A c \in Aged(tab) : key[c] \in Keys
           /\ Follows(newer, Aged(tab)) \subseteq Aged(tab) \X Aged(tab)
<1>1. IsTable(tab, next, prev, newer, older, key, ReachChains(tab, next, used), Aged(tab))
  BY InvTables
<1>2. KeysDiffer(key, Aged(tab))
  BY <1>1 DEF IsTable
<1>3. IsAgedList(Ages(tab), Aged(tab)) /\ Aged(tab) \subseteq used /\ used \subseteq Cells
  BY InvTables
<1>4. IsList(Ages(tab), Aged(tab)) /\ Ages(tab).nxt = newer
  BY <1>3 DEF IsAgedList, Ages
<1>5. \A c \in Aged(tab) : key[c] \in Keys
  BY <1>3 DEF HInv, KeyInv
<1>6. Follows(newer, Aged(tab)) \subseteq Aged(tab) \X Aged(tab)
  BY FollowsPairs
<1> QED BY <1>2, <1>3, <1>4, <1>5, <1>6

\* What the buckets give for a key is the data of its entry.
LEMMA ContentsHeld == HInv /\ DInv => EntriesHeld
<1> SUFFICES ASSUME HInv, DInv PROVE EntriesHeld
  OBVIOUS
<1> DEFINE X == Aged(tab)
<1>1. \A c \in X : key[c] \in Keys /\ data[c] \in Data
  BY TableEntries DEF DInv, DataInv
<1>2. KeysDiffer(key, X)
  BY TableEntries
<1>3. tab.size = 0 => X = {}
  BY NoBuckets
<1>4. tab.size # 0 => \A k \in Keys : Found(tab, k) = {c \in X : key[c] = k}
  <2>1. IsTable(tab, next, prev, newer, older, key, ReachChains(tab, next, used), Aged(tab))
    BY InvTables
  <2>2. tab.size \in Nat
    BY <2>1 DEF IsTable, TableType
  <2> QED BY <2>1, <2>2, FoundExact
<1> HIDE DEF X
<1>5. ASSUME NEW k \in Keys, \A c \in X : key[c] # k PROVE DataFor(k) = NoData
  BY <1>4, <1>5 DEF DataFor
<1>6. ASSUME NEW c \in X PROVE DataFor(key[c]) = data[c]
  <2>1. tab.size # 0 /\ Found(tab, key[c]) = {c}
    BY <1>1, <1>2, <1>3, <1>4 DEF KeysDiffer
  <2> QED BY <2>1 DEF DataFor
<1>7. ASSUME NEW k \in Keys PROVE Contents[k] = DataFor(k) /\ DataFor(k) \in Data \cup {NoData}
  <2>1. CASE \A c \in X : key[c] # k
    BY <1>5, <2>1 DEF Contents
  <2>2. CASE \E c \in X : key[c] = k
    BY <1>1, <1>6, <2>2 DEF Contents
  <2> QED BY <2>1, <2>2
<1>8. Contents \in [Keys -> Data \cup {NoData}]
  BY <1>7 DEF Contents
<1>9. Holds(Contents, X, key, data)
  BY <1>1, <1>5, <1>6, <1>7, <1>8 DEF Holds
<1> QED BY <1>9 DEF EntriesHeld, X

\* A rehash that begins has every entry to copy.
LEMMA BegunCopying ==
    ASSUME HInv, Aged(tab)' = Aged(tab), Aged(tmp)' = {}, lost' = {},
           rit' = tab.oldest, \A c \in Aged(tab) : newer'[c] = newer[c]
    PROVE  Copying'
<1> DEFINE X == Aged(tab)
           F == Follows(newer', Aged(tab)')
<1>1. Reach(tab.oldest, newer, X) = X
  <2>1. IsList(Ages(tab), X) /\ Ages(tab).nxt = newer /\ Ages(tab).first = tab.oldest
    BY TableEntries DEF Ages
  <2> HIDE DEF X
  <2> QED BY <2>1, ReachIsList
<1>2. Reach(tab.oldest, newer', X) = X
  <2>1. \A c \in X : newer'[c] = newer[c]
    OBVIOUS
  <2> HIDE DEF X
  <2> QED BY <1>1, <2>1, ReachKept
<1>3. Rest' = X /\ Aged(tab)' = X
  BY <1>2 DEF Rest
<1>4. Copies(X, Follows(newer', X), {}, Follows(newer', {}), X, {}, key', data')
  BY CopiesStart
<1> QED BY <1>3, <1>4 DEF Copying

\* The next entry that a rehash copies.
LEMMA NextOne ==
    ASSUME HInv, pc = "rehash", rit # NoCell
    PROVE  /\ NextCopied(Aged(tab), Follows(newer, Aged(tab)), Rest, rit)
           /\ Reach(newer[rit], newer, Aged(tab)) = Rest \ {rit}
<1> DEFINE l == Ages(tab)
           X == Aged(tab)
<1>1. IsList(l, X) /\ l.nxt = newer /\ rit \in X
  BY TableEntries DEF HInv, CallInv
<1> HIDE DEF l, X
<1>2. /\ Rest \subseteq X /\ rit \in Rest /\ Reach(newer[rit], newer, X) = Rest \ {rit}
      /\ Walks(rit, newer, Rest)
  BY <1>1, WalkFacts DEF Rest, X
<1>3. ASSUME NEW d \in X, d # rit
      PROVE  /\ <<d, rit>> \in Follows(newer, X) <=> rit \in Reach(d, newer, X)
             /\ <<rit, d>> \in Follows(newer, X) <=> d \in Rest
  BY <1>1, <1>3, FollowsPairs DEF Rest, X
<1>4. \A d \in X \ Rest : <<d, rit>> \in Follows(newer, X) /\ <<rit, d>> \notin Follows(newer, X)
  <2>1. \A d \in X \ Rest : d # rit /\ rit \in Reach(d, newer, X)
    BY <1>1, <1>2, OneFollows DEF Rest, X
  <2> QED BY <1>3, <2>1
<1>5. <<rit, rit>> \notin Follows(newer, X)
  BY FollowsPairs
<1> QED BY <1>2, <1>4, <1>5 DEF NextCopied, X

-----------------------------------------------------------------------------
(* The steps of the dictionary.                                            *)

\* Maps from keys to data, and the keys that are stored.
Map == [Keys -> Data \cup {NoData}]
StoredKeys == {k \in Keys : Contents[k] # NoData}

\* Steps of the dictionary: an insertion,
LEMMA StepInsert ==
    ASSUME NEW k \in Keys, NEW d \in Data, Contents \in Map, Contents[k] = NoData,
           Contents' = [Contents EXCEPT ![k] = d],
           KeysByAge' = KeysByAge \cup Later(StoredKeys, k), lost' = lost
    PROVE  Dict!Next
<1>1. Contents'[k] # Contents[k] /\ Contents'[k] = d
  BY KeysAssumption DEF Map
<1>2. Dict!Insert(k, d)
  BY DEF Dict!Insert, Dict!Stored, StoredKeys, Later
<1> QED BY <1>1, <1>2 DEF Dict!Next

\* one that puts another entry out,
LEMMA StepEvict ==
    ASSUME NEW k \in Keys, NEW d \in Data, NEW v \in Keys, Contents \in Map,
           Contents[k] = NoData, Contents[v] # NoData,
           Contents' = [Contents EXCEPT ![k] = d, ![v] = NoData],
           KeysByAge' = DroppedKey(KeysByAge, v) \cup Later(StoredKeys \ {v}, k),
           lost' = lost
    PROVE  Dict!Next
<1>1. Contents'[k] # Contents[k] /\ Contents'[k] = d
  BY KeysAssumption DEF Map
<1>2. Dict!Without({v}) = DroppedKey(KeysByAge, v)
  BY DEF Dict!Without, DroppedKey
<1>3. v \in Dict!Stored /\ Dict!Stored = StoredKeys
  BY DEF Dict!Stored, StoredKeys
<1>4. Dict!Insert(k, d)
  BY <1>2, <1>3 DEF Dict!Insert, Later
<1> QED BY <1>1, <1>4 DEF Dict!Next

\* a replacement,
LEMMA StepReplace ==
    ASSUME NEW k \in Keys, NEW d \in Data, Contents \in Map, Contents[k] # NoData,
           Contents' = [Contents EXCEPT ![k] = d], KeysByAge' = KeysByAge, lost' = lost
    PROVE  [Dict!Next]_(Dict!vars)
<1>1. CASE Contents[k] = d
  <2>1. Contents' = Contents
    BY <1>1 DEF Map
  <2> QED BY <2>1 DEF Dict!vars
<1>2. CASE Contents[k] # d
  <2>1. Contents'[k] # Contents[k] /\ Contents'[k] = d
    BY <1>2 DEF Map
  <2>2. Dict!Replace(k, d)
    BY DEF Dict!Replace
  <2> QED BY <2>1, <2>2 DEF Dict!Next
<1> QED BY <1>1, <1>2

\* a removal,
LEMMA StepRemove ==
    ASSUME NEW k \in Keys, Contents \in Map, Contents[k] # NoData,
           Contents' = [Contents EXCEPT ![k] = NoData],
           KeysByAge' = DroppedKey(KeysByAge, k), lost' = lost
    PROVE  Dict!Next
<1>1. Contents'[k] # Contents[k]
  BY DEF Map
<1>2. Dict!Remove(k)
  BY DEF Dict!Remove, Dict!Without, DroppedKey
<1> QED BY <1>1, <1>2 DEF Dict!Next

\* memory that is denied,
LEMMA StepDeny ==
    ASSUME NEW k \in Keys, k \notin lost, lost' = lost \cup {k}, Contents[k] # NoData,
           Contents' = Contents, KeysByAge' = KeysByAge
    PROVE  Dict!Next
<1>1. Dict!Deny(k)
  BY DEF Dict!Deny
<1> QED BY <1>1 DEF Dict!Next

\* the end of a rehash
LEMMA StepForget ==
    ASSUME lost' = {}, Contents \in Map,
           Contents' = [k \in Keys |-> IF k \in lost THEN NoData ELSE Contents[k]],
           KeysByAge' = {q \in KeysByAge : q[1] \notin lost /\ q[2] \notin lost}
    PROVE  [Dict!Next]_(Dict!vars)
<1>1. CASE lost = {}
  <2>1. Contents' = Contents
    BY <1>1 DEF Map
  <2>2. KeysByAge' = KeysByAge
    BY <1>1
  <2> QED BY <1>1, <2>1, <2>2 DEF Dict!vars
<1>2. CASE lost # {}
  <2>1. Dict!Forget
    BY <1>2 DEF Dict!Forget, Dict!Without
  <2> QED BY <2>1 DEF Dict!Next
<1> QED BY <1>1, <1>2

\* and of the table.
LEMMA StepClear ==
    ASSUME Contents' = [k \in Keys |-> NoData], KeysByAge' = {}, lost' = lost
    PROVE  Dict!Next
<1>1. Dict!Clear
  BY DEF Dict!Clear
<1> QED BY <1>1 DEF Dict!Next

\* The data of one key is set: nothing goes.
LEMMA NoneGoes ==
    ASSUME NEW k \in Keys, NEW d \in Data, Contents \in Map,
           Contents' = [Contents EXCEPT ![k] = d]
    PROVE  TakesRightly
<1>1. \A j \in Keys : Contents'[j] = NoData => Contents[j] = NoData
  BY KeysAssumption DEF Map
<1> QED BY <1>1 DEF TakesRightly, Goes

\* One key goes, and the step may take it.
LEMMA OneGoes ==
    ASSUME NEW v \in Keys, MayTake(v),
           \A j \in Keys \ {v} : Contents'[j] = NoData => Contents[j] = NoData
    PROVE  TakesRightly
  BY DEF TakesRightly, Goes

\* The order of the keys is that of the entries.
LEMMA OrderedKeys ==
    /\ KeysByAge = OrderOf(Follows(newer, Aged(tab)), key)
    /\ KeysByAge' = OrderOf(Follows(newer', Aged(tab)'), key')
  BY DEF KeysByAge, OrderOf

\* What the table holds, as a map.
LEMMA HeldMap ==
    ASSUME EntriesHeld
    PROVE  Contents \in Map /\ StoredKeys = KeysOf(Aged(tab), key)
  BY HoldsStored DEF EntriesHeld, Holds, Map, StoredKeys

\* A step that leaves the entries, their order, keys and data.
LEMMA EntriesStay ==
    ASSUME EntriesHeld, EntriesHeld', Aged(tab)' = Aged(tab),
           \A c \in Aged(tab) : newer'[c] = newer[c] /\ key'[c] = key[c] /\ data'[c] = data[c]
    PROVE  Contents' = Contents /\ KeysByAge' = KeysByAge
<1> DEFINE X == Aged(tab)
<1>1. /\ Holds(Contents, X, key, data) /\ Holds(Contents', X, key', data')
      /\ SameCells(X, key, data, key', data')
  BY DEF EntriesHeld, SameCells
<1>2. \A c \in X : newer'[c] = newer[c] /\ key'[c] = key[c]
  OBVIOUS
<1>3. KeysByAge = OrderOf(Follows(newer, X), key) /\ KeysByAge' = OrderOf(Follows(newer', X), key')
  BY OrderedKeys
<1> HIDE DEF X
<1>4. Contents' = Contents
  BY <1>1, HoldsSame
<1>5. Follows(newer', X) = Follows(newer, X) /\ Follows(newer, X) \subseteq X \X X
  BY <1>2, FollowsKept, FollowsPairs
<1>6. OrderOf(Follows(newer, X), key') = OrderOf(Follows(newer, X), key)
  <2> DEFINE F == Follows(newer, X)
  <2>1. F \subseteq X \X X /\ \A c \in X : key'[c] = key[c]
    BY <1>2, <1>5
  <2> HIDE DEF F
  <2>2. OrderOf(F, key') = OrderOf(F, key)
    BY <2>1, OrderSame
  <2> QED BY <2>2 DEF F
<1> QED BY <1>3, <1>4, <1>5, <1>6

-----------------------------------------------------------------------------
(* Which call is which step of the dictionary.                             *)

\* ght_insert, where the bucket has room: the dictionary's insertion.
LEMMA LinkRoomInserts ==
    ASSUME HInv, EntriesHeld, EntriesHeld', LinkRoom
    PROVE  Dict!Next /\ TakesRightly
<1> DEFINE X == Aged(tab)
           F == Follows(newer, X)
           k == key[new]
           d == data[new]
<1>1. /\ pc = "link" /\ newer' = AddLast(Ages(tab), new).nxt
      /\ key' = key /\ data' = data /\ lost' = lost
  BY DEF LinkRoom, SetPointers, rehashVars, heapVars
<1>2. Aged(tab)' = X \cup {new}
  BY LinkRoomInv
<1>3. /\ new \in Cells /\ new \notin X /\ newer[new] = NoCell
      /\ \A c \in X : key[c] # k
  BY <1>1, CellsAssumption DEF HInv, CallInv, MemoryExact
<1>4. Follows(newer', Aged(tab)') = F \cup Later(X, new)
  <2> DEFINE l == Ages(tab)
  <2>1. IsAgedList(l, X) /\ l.nxt = newer
    BY TableEntries
  <2> HIDE DEF l, X
  <2>2. Follows(AddLast(l, new).nxt, X \cup {new}) = Follows(l.nxt, X) \cup Later(X, new)
    BY <1>3, <2>1, FollowsAddLast
  <2> QED BY <1>1, <1>2, <2>1, <2>2 DEF l
<1>5. F \subseteq X \X X
  BY FollowsPairs
<1>6. /\ Holds(Contents, X, key, data) /\ Holds(Contents', X \cup {new}, key, data)
      /\ SameCells(X, key, data, key, data)
  BY <1>1, <1>2 DEF EntriesHeld, SameCells
<1>7. KeysByAge = OrderOf(F, key) /\ KeysByAge' = OrderOf(F \cup Later(X, new), key)
  BY <1>1, <1>4, OrderedKeys
<1>8. Contents \in Map /\ StoredKeys = KeysOf(X, key)
  BY HeldMap
<1> HIDE DEF X, F
<1>9. /\ k \in Keys /\ d \in Data /\ Contents[k] = NoData
      /\ Contents' = [Contents EXCEPT ![k] = d]
  <2>1. Adds(Contents, Contents', k, d)
    BY <1>3, <1>6, HoldsAdd, Zenon
  <2> QED BY <2>1 DEF Adds
<1>10. KeysByAge' = KeysByAge \cup Later(StoredKeys, k)
  <2>1. OrderAdded(F, X, new, key, key)
    BY <1>5, OrderAdd, Zenon
  <2> QED BY <1>7, <1>8, <2>1 DEF OrderAdded
<1>11. Dict!Next
  BY <1>1, <1>8, <1>9, <1>10, StepInsert
<1>12. TakesRightly
  BY <1>8, <1>9, NoneGoes
<1> QED BY <1>11, <1>12

\* What is left of a map without one of its cells.
LEMMA HoldsWithout ==
    ASSUME NEW m, NEW X, NEW ky, NEW dt, Holds(m, X, ky, dt), KeysDiffer(ky, X), NEW p \in X
    PROVE  /\ Holds([m EXCEPT ![ky[p]] = NoData], X \ {p}, ky, dt)
           /\ ky[p] \in Keys /\ m[ky[p]] # NoData
<1>1. m \in [Keys -> Data \cup {NoData}] /\ ky[p] \in Keys /\ m[ky[p]] # NoData
  BY KeysAssumption DEF Holds
<1> DEFINE n == [m EXCEPT ![ky[p]] = NoData]
<1>2. n \in [Keys -> Data \cup {NoData}] /\ n[ky[p]] = NoData
      /\ \A k \in Keys : k # ky[p] => n[k] = m[k]
  BY <1>1
<1>3. \A c \in X \ {p} : ky[c] # ky[p]
  BY DEF KeysDiffer
<1> HIDE DEF n
<1>4. Holds(n, X \ {p}, ky, dt)
  BY <1>2, <1>3 DEF Holds
<1> QED BY <1>1, <1>4 DEF n

\* ght_insert, where it is full: an insertion that puts another entry out.
LEMMA LinkEvictInserts ==
    ASSUME HInv, EntriesHeld, EntriesHeld', LinkEvict
    PROVE  Dict!Next /\ TakesRightly
<1> DEFINE X == Aged(tab)
           F == Follows(newer, X)
           k == key[new]
           d == data[new]
<1>1. pc = "link" /\ lost' = lost
  BY DEF LinkEvict, rehashVars
<1>2. PICK p \in X : Evicts(p)
  BY LinkEvictInv
<1> DEFINE v == key[p]
           Y == X \ {p}
           n == [Contents EXCEPT ![v] = NoData]
<1>3. /\ new \in Cells /\ new \notin X /\ newer[new] = NoCell
      /\ \A c \in X : key[c] # k
  BY <1>1, CellsAssumption DEF HInv, CallInv, MemoryExact
<1>4. KeysDiffer(key, X)
  BY TableEntries
<1>5. /\ Aged(tab)' = Y \cup {new}
      /\ \A e \in Y \cup {new} : key'[e] = key[e] /\ data'[e] = data[e]
  BY <1>2 DEF Evicts
<1>6. Follows(newer', Aged(tab)') = Dropped(F, p) \cup Later(Y, new)
  <2> DEFINE l == Ages(tab)
             u == UnlinkAged(l, p)
             a == AddLast(u, new)
             na == a.nxt
  <2>1. IsAgedList(l, X) /\ l.nxt = newer
    BY TableEntries
  <2>2. \A e \in Y \cup {new} : newer'[e] = na[e]
    BY <1>2 DEF Evicts
  <2> HIDE DEF l, X, u
  <2>3. IsAgedList(u, Y) /\ SameOutside(l, u, X)
    BY <2>1, UnlinkAgedList DEF u
  <2>4. u.nxt[new] = NoCell
    BY <1>3, <2>1, <2>3 DEF SameOutside
  <2>5. Follows(u.nxt, Y) = Dropped(F, p)
    BY <2>1, FollowsUnlink DEF u
  <2> HIDE DEF Y
  <2>6. new \notin Y
    BY <1>3 DEF Y
  <2>7. Follows(na, Y \cup {new}) = Follows(u.nxt, Y) \cup Later(Y, new)
    BY <1>3, <2>3, <2>4, <2>6, FollowsAddLast, SMTT(40)
  <2> HIDE DEF na
  <2>8. Follows(newer', Y \cup {new}) = Follows(na, Y \cup {new})
    <3> DEFINE Z == Y \cup {new}
    <3>1. \A e \in Z : newer'[e] = na[e]
      BY <2>2
    <3> HIDE DEF Z
    <3> QED BY <3>1, FollowsKept DEF Z
  <2> QED BY <1>5, <2>5, <2>7, <2>8
<1>7. F \subseteq X \X X
  BY FollowsPairs
<1>8. /\ Holds(Contents, X, key, data) /\ Holds(Contents', Y \cup {new}, key', data')
      /\ SameCells(Y, key, data, key', data')
  BY <1>5 DEF EntriesHeld, SameCells
<1>9. KeysByAge = OrderOf(F, key)
      /\ KeysByAge' = OrderOf(Dropped(F, p) \cup Later(Y, new), key')
  BY <1>6, OrderedKeys
<1>10. Contents \in Map /\ StoredKeys = KeysOf(X, key)
  BY HeldMap
<1>11. key'[new] = k /\ data'[new] = d
  BY <1>5
<1>12. new \notin Y /\ \A c \in Y : key[c] # key'[new]
  BY <1>3, <1>11
<1> HIDE DEF X, F, n, Y
<1>13. Holds(n, Y, key, data) /\ v \in Keys /\ Contents[v] # NoData
  BY <1>2, <1>4, <1>8, HoldsWithout DEF n, Y
<1>14. /\ k \in Keys /\ d \in Data /\ n[k] = NoData
       /\ Contents' = [n EXCEPT ![k] = d]
  <2>1. Adds(n, Contents', key'[new], data'[new])
    BY <1>8, <1>12, <1>13, HoldsAdd, Zenon
  <2> QED BY <1>11, <2>1 DEF Adds
<1>15. v # k
  BY <1>2, <1>3
<1>16. /\ Contents[k] = NoData
       /\ Contents' = [Contents EXCEPT ![k] = d, ![v] = NoData]
  BY <1>10, <1>13, <1>14, <1>15 DEF n, Map
<1>17. KeysByAge' = DroppedKey(KeysByAge, v) \cup Later(StoredKeys \ {v}, k)
  <2> DEFINE G == Dropped(F, p)
  <2>1. G \subseteq Y \X Y
    BY <1>7 DEF Dropped, Y
  <2>2. OrderOf(G, key) = DroppedKey(OrderOf(F, key), v)
    <3>1. \A c \in X \ {p} : key[c] = key[c]
      OBVIOUS
    <3> QED BY <1>2, <1>4, <1>7, <3>1, OrderDrop
  <2>3. \A c \in Y : key'[c] = key[c]
    BY <1>5
  <2> HIDE DEF G
  <2>4. OrderOf(G \cup Later(Y, new), key') = OrderOf(G, key) \cup Later(KeysOf(Y, key), key'[new])
    <3>1. OrderAdded(G, Y, new, key, key')
      BY <2>1, <2>3, OrderAdd, Zenon
    <3> QED BY <3>1 DEF OrderAdded
  <2>5. KeysOf(Y, key) = KeysOf(X, key) \ {v}
    BY <1>2, <1>4 DEF KeysOf, KeysDiffer, Y
  <2> QED BY <1>9, <1>10, <1>11, <2>2, <2>4, <2>5 DEF G
<1>18. Dict!Next
  BY <1>1, <1>10, <1>13, <1>14, <1>16, <1>17, StepEvict
<1>19. TakesRightly
  <2>1. MayTake(v)
    BY <1>2 DEF Evicts, MayTake
  <2>2. \A j \in Keys \ {v} : Contents'[j] = NoData => Contents[j] = NoData
    BY <1>10, <1>13, <1>14, <1>16, KeysAssumption DEF Map
  <2> QED BY <1>13, <2>1, <2>2, OneGoes
<1> QED BY <1>18, <1>19

\* ght_remove
LEMMA RemoveRemoves ==
    ASSUME HInv, EntriesHeld, EntriesHeld', NEW k \in Keys, Remove(k)
    PROVE  Dict!Next /\ TakesRightly
<1> DEFINE X == Aged(tab)
           F == Follows(newer, X)
<1>1. lost' = lost
  BY DEF Remove, rehashVars
<1>2. PICK p \in X : key[p] = k /\ Leaves(p)
  BY RemoveInv
<1> DEFINE Y == X \ {p}
<1>3. /\ Aged(tab)' = Y
      /\ \A e \in Y : key'[e] = key[e] /\ data'[e] = data[e]
  BY <1>2 DEF Leaves
<1>4. KeysDiffer(key, X)
  BY TableEntries
<1>5. Follows(newer', Aged(tab)') = Dropped(F, p)
  <2> DEFINE l == Ages(tab)
             n == UnlinkAged(l, p).nxt
  <2>1. IsAgedList(l, X) /\ l.nxt = newer
    BY TableEntries
  <2>2. \A e \in Y : newer'[e] = n[e]
    BY <1>2 DEF Leaves
  <2> HIDE DEF l, X
  <2>3. Follows(n, Y) = Dropped(F, p)
    BY <2>1, FollowsUnlink
  <2> HIDE DEF n, Y
  <2>4. Follows(newer', Y) = Follows(n, Y)
    BY <2>2, FollowsKept
  <2> QED BY <1>3, <2>3, <2>4
<1>6. F \subseteq X \X X
  BY FollowsPairs
<1>7. /\ Holds(Contents, X, key, data) /\ Holds(Contents', Y, key', data')
      /\ SameCells(Y, key, data, key', data')
  BY <1>3 DEF EntriesHeld, SameCells
<1>8. KeysByAge = OrderOf(F, key) /\ KeysByAge' = OrderOf(Dropped(F, p), key')
  BY <1>5, OrderedKeys
<1>9. Contents \in Map
  BY HeldMap
<1> HIDE DEF X, F
<1>10. Removes(Contents, Contents', key[p])
  BY <1>4, <1>7, HoldsDrop, Zenon
<1>11. OrderOf(Dropped(F, p), key') = DroppedKey(OrderOf(F, key), key[p])
  BY <1>3, <1>4, <1>6, OrderDrop
<1>12. Dict!Next
  BY <1>1, <1>2, <1>8, <1>9, <1>10, <1>11, StepRemove DEF Removes
<1>13. TakesRightly
  <2>1. \A j \in Keys \ {k} : Contents'[j] = NoData => Contents[j] = NoData
    BY <1>2, <1>9, <1>10 DEF Removes, Map
  <2>2. MayTake(k)
    BY DEF MayTake
  <2> QED BY <2>1, <2>2, OneGoes
<1> QED BY <1>12, <1>13

\* ght_replace
LEMMA ReplaceReplaces ==
    ASSUME HInv, EntriesHeld, EntriesHeld', NEW k \in Keys, NEW d \in Values[k], Replace(k, d)
    PROVE  [Dict!Next]_(Dict!vars) /\ TakesRightly
<1> DEFINE X == Aged(tab)
<1>1. /\ Idle /\ lost' = lost /\ newer' = newer /\ key' = key
  BY DEF Replace, rehashVars, ageVars
<1>2. PICK c \in Found(tab, k) : data' = [data EXCEPT ![c] = d]
  BY DEF Replace
<1>3. Aged(tab)' = X
  BY ReplaceInv
<1>4. KeysDiffer(key, X) /\ X \subseteq Cells
  BY TableEntries
<1>5. c \in X /\ key[c] = k
  <2>1. IsTable(tab, next, prev, newer, older, key, ReachChains(tab, next, used), Aged(tab))
    BY InvTables
  <2>2. tab.size \in Nat \ {0}
    BY <1>1, <2>1 DEF Idle, IsTable, TableType
  <2> QED BY <1>2, <2>1, <2>2, FoundExact
<1>6. data'[c] = d /\ \A e \in X \ {c} : data'[e] = data[e]
  BY <1>2, <1>4, <1>5, InvTypes
<1>7. Holds(Contents, X, key, data) /\ Holds(Contents', X, key, data')
  BY <1>1, <1>3 DEF EntriesHeld
<1>8. KeysByAge' = KeysByAge
  BY <1>1, <1>3, OrderedKeys
<1>9. Contents \in Map
  BY HeldMap
<1> HIDE DEF X
<1>10. Replaces(Contents, Contents', key[c], d)
  BY <1>4, <1>5, <1>6, <1>7, HoldsReplace, Zenon
<1>11. [Dict!Next]_(Dict!vars)
  BY <1>1, <1>5, <1>8, <1>9, <1>10, StepReplace DEF Replaces
<1>12. TakesRightly
  BY <1>5, <1>9, <1>10, NoneGoes DEF Replaces
<1> QED BY <1>11, <1>12

\* ght_rehash: an entry is skipped.
LEMMA RehashSkipDenies ==
    ASSUME HInv, DInv, EntriesHeld, EntriesHeld', RehashSkip
    PROVE  Dict!Next /\ TakesRightly
<1>1. /\ pc = "rehash" /\ rit # NoCell /\ lost' = lost \cup {key[rit]}
      /\ UNCHANGED <<tab, tmp, linkVars, heapVars>>
      /\ newer' = newer /\ key' = key /\ data' = data
  BY DEF RehashSkip, linkVars, ageVars, heapVars
<1>2. Aged(tab)' = Aged(tab)
  BY <1>1, TablesAlone
<1>3. rit \in Rest /\ rit \in Aged(tab)
  BY <1>1, NextOne DEF NextCopied
<1>4. key[rit] \in Keys /\ key[rit] \notin lost
  BY <1>1, <1>3, TableEntries DEF DInv, Copying, Copies
<1>5. Contents[key[rit]] # NoData
  BY <1>3, KeysAssumption DEF EntriesHeld, Holds
<1>6. Contents' = Contents /\ KeysByAge' = KeysByAge
  BY <1>1, <1>2, EntriesStay
<1>7. Dict!Next
  BY <1>1, <1>4, <1>5, <1>6, StepDeny
<1> QED BY <1>6, <1>7 DEF TakesRightly, Goes

\* It ends.
LEMMA RehashEndForgets ==
    ASSUME HInv, DInv, EntriesHeld, EntriesHeld', RehashEnd
    PROVE  [Dict!Next]_(Dict!vars) /\ TakesRightly
<1> DEFINE X == Aged(tab)
           Y == Aged(tmp)
           F == Follows(newer, X)
           G == Follows(newer, Y)
<1>1. pc = "rehash" /\ rit = NoCell /\ lost' = {}
  BY DEF RehashEnd
<1>2. TakesOver
  BY RehashEndInv
<1>3. /\ Aged(tab)' = Y
      /\ \A c \in Y : newer'[c] = newer[c] /\ key'[c] = key[c] /\ data'[c] = data[c]
  BY <1>2 DEF TakesOver
<1>4. Rest = {}
  BY <1>1 DEF Rest, Reach, ClosedFrom
<1>5. Copies(X, F, Y, G, {}, lost, key, data)
  BY <1>1, <1>4 DEF DInv, Copying
<1>6. /\ Holds(Contents, X, key, data) /\ Holds(Contents', Y, key', data')
      /\ SameCells(Y, key, data, key', data')
  BY <1>3 DEF EntriesHeld, SameCells
<1>7. KeysByAge = OrderOf(F, key) /\ KeysByAge' = OrderOf(Follows(newer', Y), key')
  BY <1>3, OrderedKeys
<1>8. F \subseteq X \X X /\ G \subseteq Y \X Y
  BY FollowsPairs
<1>9. Contents \in Map
  BY HeldMap
<1> HIDE DEF X, Y, F
<1>10. Follows(newer', Y) = G
  BY <1>3, FollowsKept
<1> HIDE DEF G
<1>11. Contents' = [k \in Keys |-> IF k \in lost THEN NoData ELSE Contents[k]]
  BY <1>5, <1>6, CopiesHold
<1>12. OrderOf(G, key') = {q \in OrderOf(F, key) : q[1] \notin lost /\ q[2] \notin lost}
  BY <1>3, <1>5, <1>8, CopiesOrder
<1>13. [Dict!Next]_(Dict!vars)
  BY <1>1, <1>7, <1>9, <1>10, <1>11, <1>12, StepForget
<1>14. ASSUME NEW k \in Keys, Goes(k) PROVE MayTake(k)
  BY <1>11, <1>14 DEF Goes, MayTake
<1> QED BY <1>13, <1>14 DEF TakesRightly

\* ght_finalize
LEMMA FinalizeClears ==
    ASSUME HInv, EntriesHeld', Finalize
    PROVE  Dict!Next /\ TakesRightly
<1>1. Aged(tab)' = {} /\ lost' = lost
  BY FinalizeInv DEF Finalize, rehashVars
<1>2. Contents' = [k \in Keys |-> NoData]
  BY <1>1 DEF EntriesHeld, Holds
<1>3. KeysByAge' = {}
  BY <1>1, OrderedKeys DEF Follows, OrderOf
<1>4. Dict!Next
  BY <1>1, <1>2, <1>3, StepClear
<1> QED BY <1>4 DEF TakesRightly, MayTake

\* A step that changes no entry and denies none is none of the dictionary's.
LEMMA NoStep ==
    ASSUME EntriesHeld, EntriesHeld', Aged(tab)' = Aged(tab), lost' = lost,
           \A c \in Aged(tab) : newer'[c] = newer[c] /\ key'[c] = key[c] /\ data'[c] = data[c]
    PROVE  UNCHANGED Dict!vars
  BY EntriesStay DEF Dict!vars

\* ght_create, searches and iterations, and the parts of an insertion and a
\* rehash that cannot be seen.
LEMMA OthersStutter ==
    ASSUME HInv, DInv, EntriesHeld, EntriesHeld',
           \/ \E n \in Sizes : Create(n) \/ Rehash(n)
           \/ Configure \/ RehashCopy \/ First \/ Advance \/ EndIteration
           \/ \E k \in Keys : Get(k) \/ \E d \in Values[k] : Insert(k, d)
           \/ UNCHANGED vars
    PROVE  UNCHANGED Dict!vars
<1>1. ASSUME NEW n \in Sizes, Create(n) PROVE UNCHANGED Dict!vars
  <2>1. Aged(tab) = {} /\ Aged(tab)' = {}
    BY <1>1, CreateInv
  <2>2. lost' = lost
    BY <1>1 DEF Create, rehashVars
  <2> QED BY <2>1, <2>2, NoStep
<1>2. ASSUME NEW n \in Sizes, Rehash(n) PROVE UNCHANGED Dict!vars
  <2>1. Aged(tab)' = Aged(tab)
    BY <1>2, RehashInv
  <2>2. lost' = lost /\ newer' = newer /\ key' = key /\ data' = data
    BY <1>2 DEF Rehash, BeginRehash, linkVars, ageVars, heapVars, DInv, Copying, Idle
  <2> QED BY <2>1, <2>2, NoStep
<1>3. ASSUME RehashCopy PROVE UNCHANGED Dict!vars
  <2>1. PICK c \in Cells \ used : CopiesTo(c)
    BY <1>3, RehashCopyInv
  <2>2. lost' = lost
    BY <1>3 DEF RehashCopy
  <2> QED BY <2>1, <2>2, NoStep DEF CopiesTo
<1>4. ASSUME NEW k \in Keys, Get(k) PROVE UNCHANGED Dict!vars
  <2>1. Aged(tab)' = Aged(tab)
    BY <1>4, GetInv
  <2>2. lost' = lost /\ newer' = newer /\ key' = key /\ data' = data
    BY <1>4 DEF Get, rehashVars, ageVars, heapVars
  <2> QED BY <2>1, <2>2, NoStep
<1>5. ASSUME NEW k \in Keys, NEW d \in Values[k], Insert(k, d) PROVE UNCHANGED Dict!vars
  <2> DEFINE c == Fresh(k)
  <2>1. Aged(tab)' = Aged(tab)
    BY <1>5, InsertInv
  <2>2. /\ lost' = lost
        /\ key' = [key EXCEPT ![c] = k] /\ data' = [data EXCEPT ![c] = d]
        /\ newer' = [newer EXCEPT ![c] = NoCell] /\ used # Cells
    BY <1>5 DEF Insert, HeCreate, BeginRehash, rehashVars, DInv, Copying, Idle
  <2>3. c \notin Aged(tab) /\ Aged(tab) \subseteq Cells
    BY <2>2, FreshFree, InvTypes, InvTables
  <2> HIDE DEF c
  <2>4. \A e \in Aged(tab) : newer'[e] = newer[e] /\ key'[e] = key[e] /\ data'[e] = data[e]
    BY <2>2, <2>3, InvTypes DEF Pointers
  <2> QED BY <2>1, <2>2, <2>4, NoStep
<1>6. ASSUME Configure \/ First \/ Advance \/ EndIteration \/ UNCHANGED vars
      PROVE  UNCHANGED Dict!vars
  <2>1. UNCHANGED <<tab, tmp, linkVars, heapVars>> /\ lost' = lost
    BY <1>6 DEF Configure, First, Advance, EndIteration, vars, rehashVars
  <2>2. Aged(tab)' = Aged(tab) /\ newer' = newer /\ key' = key /\ data' = data
    BY <2>1, TablesAlone DEF linkVars, ageVars, heapVars
  <2> QED BY <2>1, <2>2, NoStep
<1> QED BY <1>1, <1>2, <1>3, <1>4, <1>5, <1>6

-----------------------------------------------------------------------------
(* A rehash under way, and the theorem.                                    *)

\* It holds at the start, where the dictionary is empty.
LEMMA InitEntries == Init => DInv /\ Dict!Init
<1> SUFFICES ASSUME Init PROVE DInv /\ Dict!Init
  OBVIOUS
<1>1. DInv
  BY DEF Init, DInv, DataInv, Copying
<1>2. Contents = [k \in Keys |-> NoData]
  BY DEF Init, Contents, DataFor, NoTable
<1>3. KeysByAge = {}
  <2>1. Aged(tab) = {}
    BY DEF Init, Aged, Reach
  <2> QED BY <2>1 DEF KeysByAge, Follows
<1> QED BY <1>1, <1>2, <1>3 DEF Dict!Init, Init

\* What is allocated has data after every step.
LEMMA DataNext ==
    ASSUME HInv, DataInv, [Next]_vars
    PROVE  DataInv'
<1>1. ASSUME UNCHANGED heapVars PROVE DataInv'
  BY <1>1 DEF DataInv, heapVars
<1>2. ASSUME NEW S, NEW l, NEW a, Free(S, l, a) PROVE DataInv'
  BY <1>2, InvTypes DEF DataInv, Free, Wiped
<1>3. ASSUME NEW c \in Cells, NEW k, NEW d \in Data, HeCreate(c, k, d) PROVE DataInv'
  BY <1>3, InvTypes DEF DataInv, HeCreate
<1>4. ASSUME NEW n \in Sizes, Create(n) \/ Rehash(n) PROVE DataInv'
  BY <1>1, <1>4 DEF Create, Rehash
<1>5. ASSUME Finalize \/ RehashEnd PROVE DataInv'
  BY <1>2, <1>5 DEF Finalize, RehashEnd, FreeChains
<1>6. ASSUME RehashCopy PROVE DataInv'
  <2>1. HeCreate(Fresh(key[rit]), key[rit], data[rit]) /\ rit \in Aged(tab) /\ used # Cells
    BY <1>6 DEF RehashCopy, HInv, CallInv
  <2>2. data[rit] \in Data
    BY <2>1, TableEntries DEF DataInv
  <2> QED BY <1>3, <2>1, <2>2, FreshFree, InvTypes
<1>7. ASSUME NEW k \in Keys, NEW d \in Values[k], Insert(k, d) PROVE DataInv'
  <2>1. HeCreate(Fresh(k), k, d) /\ used # Cells /\ d \in Data
    BY <1>7, KeysAssumption DEF Insert
  <2> QED BY <1>3, <2>1, FreshFree, InvTypes
<1>8. ASSUME NEW k \in Keys, NEW d \in Values[k], Replace(k, d) PROVE DataInv'
  <2>1. PICK c \in Found(tab, k) : data' = [data EXCEPT ![c] = d]
    BY <1>8 DEF Replace
  <2>2. used' = used /\ d \in Data
    BY <1>8, KeysAssumption DEF Replace
  <2> QED BY <2>1, <2>2, InvTypes DEF DataInv
<1>9. ASSUME NEW k \in Keys, Get(k) \/ Remove(k) PROVE DataInv'
  BY <1>1, <1>2, <1>9 DEF Get, Remove
<1>10. ASSUME LinkRoom \/ LinkEvict PROVE DataInv'
  BY <1>1, <1>2, <1>10 DEF LinkRoom, LinkEvict
<1>11. ASSUME Configure \/ RehashSkip \/ First \/ Advance \/ EndIteration \/ UNCHANGED vars
       PROVE  DataInv'
  BY <1>1, <1>11 DEF Configure, RehashSkip, First, Advance, EndIteration, vars
<1> QED BY <1>4, <1>5, <1>6, <1>7, <1>8, <1>9, <1>10, <1>11 DEF Next

\* An entry is copied.
LEMMA CopyCopying ==
    ASSUME HInv, DInv, RehashCopy
    PROVE  Copying'
<1> DEFINE X == Aged(tab)
           Y == Aged(tmp)
           F == Follows(newer, X)
           G == Follows(newer, Y)
<1>1. pc = "rehash" /\ pc' = pc /\ rit # NoCell /\ rit' = newer[rit] /\ lost' = lost
  BY DEF RehashCopy, callVars
<1>2. PICK c \in Cells \ used : CopiesTo(c)
  BY RehashCopyInv
<1>3. /\ Aged(tab)' = X /\ Aged(tmp)' = Y \cup {c}
      /\ \A e \in X \cup Y : key'[e] = key[e] /\ data'[e] = data[e]
      /\ key'[c] = key[rit] /\ data'[c] = data[rit]
      /\ \A e \in X : newer'[e] = newer[e]
      /\ newer' = AddLast([Ages(tmp) EXCEPT !.nxt[c] = NoCell], c).nxt
  BY <1>2 DEF CopiesTo
<1>4. c \notin X \cup Y
  BY <1>2, InvTables
<1>5. KeysDiffer(key, X) /\ G \subseteq Y \X Y
  BY TableEntries, FollowsPairs
<1>6. NextCopied(X, F, Rest, rit) /\ Reach(newer[rit], newer, X) = Rest \ {rit}
  BY <1>1, NextOne
<1>7. Copies(X, F, Y, G, Rest, lost, key, data)
  BY <1>1 DEF DInv, Copying
<1>8. Follows(newer', Y \cup {c}) = G \cup Later(Y, c)
  <2> DEFINE nw == [newer EXCEPT ![c] = NoCell]
             l == AgeList(tmp, nw, older)
  <2>1. newer' = AddLast(l, c).nxt
    BY <1>3 DEF Ages, AgeList
  <2>2. IsAgedList(AgeList(tmp, newer, older), Y) /\ Y \subseteq Cells
    BY InvTables DEF Ages, AgeList
  <2>3. nw \in Pointers /\ nw[c] = NoCell /\ \A e \in Y : nw[e] = newer[e]
    BY <1>2, <1>4, <2>2, InvTypes DEF Pointers, CellOrNone
  <2> HIDE DEF nw, Y, G
  <2>4. IsAgedList(l, Y)
    <3>1. IsList(l, Y)
      <4>1. /\ IsList(AgeList(tmp, newer, older), Y)
            /\ l.nxt = nw /\ l.prv = older /\ l.first = AgeList(tmp, newer, older).first
            /\ AgeList(tmp, newer, older).nxt = newer
            /\ AgeList(tmp, newer, older).prv = older
        BY <2>2 DEF IsAgedList, AgeList
      <4> HIDE DEF l
      <4> QED BY <2>3, <4>1, InvTypes, ListKept
    <3>2. Ended(l, Y)
      BY <2>2, <2>3, CellsAssumption DEF IsAgedList, Ended, AgeList
    <3> QED BY <3>1, <3>2 DEF IsAgedList
  <2>5. l.nxt = nw /\ Follows(nw, Y) = G
    BY <2>3, FollowsKept DEF AgeList, G
  <2> HIDE DEF l
  <2>6. Follows(AddLast(l, c).nxt, Y \cup {c}) = Follows(l.nxt, Y) \cup Later(Y, c)
    BY <1>2, <1>4, <2>3, <2>4, <2>5, FollowsAddLast
  <2> QED BY <2>1, <2>5, <2>6
<1>9. Rest' = Rest \ {rit} /\ Follows(newer', X) = F
  <2> HIDE DEF X
  <2>1. Reach(newer[rit], newer', X) = Reach(newer[rit], newer, X)
    BY <1>3, ReachKept
  <2>2. Rest' = Reach(newer[rit], newer', X)
    BY <1>1, <1>3 DEF Rest
  <2>3. Follows(newer', X) = F
    BY <1>3, FollowsKept
  <2> QED BY <1>6, <2>1, <2>2, <2>3
<1>10. SameCells(X \cup Y, key, data, key', data')
  BY <1>3 DEF SameCells
<1> HIDE DEF X, Y, F, G
<1>11. Copies(X, F, Y \cup {c}, G \cup Later(Y, c), Rest \ {rit}, lost, key', data')
  BY <1>3, <1>4, <1>5, <1>6, <1>7, <1>10, CopiesCopy, ZenonT(60)
<1>12. Copies(Aged(tab)', Follows(newer', Aged(tab)'), Aged(tmp)',
              Follows(newer', Aged(tmp)'), Rest', lost', key', data')
  BY <1>1, <1>3, <1>8, <1>9, <1>11
<1> QED BY <1>1, <1>12 DEF Copying

\* An entry is skipped.
LEMMA SkipCopying ==
    ASSUME HInv, DInv, RehashSkip
    PROVE  Copying'
<1> DEFINE X == Aged(tab)
           Y == Aged(tmp)
           F == Follows(newer, X)
           G == Follows(newer, Y)
<1>1. /\ pc = "rehash" /\ pc' = pc /\ rit # NoCell /\ rit' = newer[rit]
      /\ lost' = lost \cup {key[rit]}
      /\ UNCHANGED <<tab, tmp, linkVars, heapVars>>
      /\ newer' = newer /\ key' = key /\ data' = data
  BY DEF RehashSkip, linkVars, ageVars, heapVars, callVars
<1>2. Aged(tab)' = X /\ Aged(tmp)' = Y
  BY <1>1, TablesAlone
<1>3. NextCopied(X, F, Rest, rit) /\ Reach(newer[rit], newer, X) = Rest \ {rit}
  BY <1>1, NextOne
<1>4. Copies(X, F, Y, G, Rest, lost, key, data)
  BY <1>1 DEF DInv, Copying
<1>5. KeysDiffer(key, X)
  BY TableEntries
<1>6. Rest' = Rest \ {rit}
  BY <1>1, <1>2, <1>3 DEF Rest
<1> HIDE DEF X, Y, F, G
<1>7. Copies(X, F, Y, G, Rest \ {rit}, lost \cup {key[rit]}, key, data)
  BY <1>3, <1>4, <1>5, CopiesSkip DEF NextCopied
<1>8. Copies(Aged(tab)', Follows(newer', Aged(tab)'), Aged(tmp)',
             Follows(newer', Aged(tmp)'), Rest', lost', key', data')
  BY <1>1, <1>2, <1>6, <1>7 DEF F, G
<1> QED BY <1>1, <1>8 DEF Copying

\* What a rehash has copied is right after every step.
LEMMA CopyingNext ==
    ASSUME HInv, DInv, [Next]_vars
    PROVE  Copying'
<1>1. ASSUME pc' # "rehash", lost' = {} PROVE Copying'
  BY <1>1 DEF Copying
<1>2. ASSUME pc # "rehash", pc' # "rehash", lost' = lost PROVE Copying'
  BY <1>1, <1>2 DEF DInv, Copying
<1>3. ASSUME NEW n \in Sizes, Rehash(n) PROVE Copying'
  <2>1. /\ Aged(tab)' = Aged(tab) /\ Aged(tmp)' = {} /\ lost' = {} /\ rit' = tab.oldest
        /\ newer' = newer
    BY <1>3, RehashInv DEF Rehash, BeginRehash, linkVars, ageVars
  <2> QED BY <2>1, BegunCopying
<1>4. ASSUME NEW k \in Keys, NEW d \in Values[k], Insert(k, d) PROVE Copying'
  <2>1. CASE pc' = "link" /\ lost' = lost
    BY <1>2, <1>4, <2>1 DEF Insert, Idle
  <2>2. CASE lost' = {} /\ rit' = tab.oldest
    <3>1. Aged(tab)' = Aged(tab) /\ Aged(tmp)' = {}
      BY <1>4, InsertInv
    <3>2. newer' = [newer EXCEPT ![Fresh(k)] = NoCell] /\ used # Cells
      BY <1>4 DEF Insert
    <3>3. Fresh(k) \notin Aged(tab) /\ Aged(tab) \subseteq Cells
      BY <3>2, FreshFree, InvTypes, InvTables
    <3>4. \A c \in Aged(tab) : newer'[c] = newer[c]
      BY <3>2, <3>3, InvTypes DEF Pointers
    <3> QED BY <2>2, <3>1, <3>4, BegunCopying
  <2> QED BY <1>4, <2>1, <2>2 DEF Insert, BeginRehash, rehashVars
<1>5. ASSUME RehashCopy \/ RehashSkip PROVE Copying'
  BY <1>5, CopyCopying, SkipCopying
<1>6. ASSUME RehashEnd PROVE Copying'
  BY <1>1, <1>6 DEF RehashEnd
<1>7. ASSUME \/ \E n \in Sizes : Create(n)
             \/ Configure \/ Finalize \/ First \/ Advance \/ EndIteration
             \/ \E k \in Keys : Get(k) \/ Remove(k) \/ \E d \in Values[k] : Replace(k, d)
      PROVE  Copying'
  <2>1. pc = "idle" /\ pc' = pc /\ lost' = lost
    BY <1>7 DEF Create, Configure, Finalize, First, Advance, EndIteration, Get, Remove,
       Replace, Idle, callVars, rehashVars
  <2> QED BY <1>2, <2>1
<1>8. ASSUME LinkRoom \/ LinkEvict PROVE Copying'
  BY <1>2, <1>8 DEF LinkRoom, LinkEvict, rehashVars
<1>9. ASSUME UNCHANGED vars PROVE Copying'
  BY <1>9 DEF vars, DInv, Copying, Rest, Aged, callVars, rehashVars, linkVars, ageVars, heapVars
<1> QED BY <1>3, <1>4, <1>5, <1>6, <1>7, <1>8, <1>9 DEF Next

\* Every step of the table is one of the dictionary, or none, and takes out
\* only what it may.
LEMMA StepImplements ==
    ASSUME HInv, DInv, EntriesHeld, EntriesHeld', [Next]_vars
    PROVE  [Dict!Next]_(Dict!vars) /\ TakesRightly
<1>1. ASSUME \/ \E n \in Sizes : Create(n) \/ Rehash(n)
             \/ Configure \/ RehashCopy \/ First \/ Advance \/ EndIteration
             \/ \E k \in Keys : Get(k) \/ \E d \in Values[k] : Insert(k, d)
             \/ UNCHANGED vars
      PROVE  [Dict!Next]_(Dict!vars) /\ TakesRightly
  <2>1. UNCHANGED Dict!vars
    BY <1>1, OthersStutter
  <2>2. Contents' = Contents
    BY <2>1 DEF Dict!vars
  <2> QED BY <2>1, <2>2 DEF TakesRightly, Goes
<1>2. ASSUME Finalize \/ RehashSkip \/ RehashEnd
      PROVE  [Dict!Next]_(Dict!vars) /\ TakesRightly
  BY <1>2, FinalizeClears, RehashSkipDenies, RehashEndForgets
<1>3. ASSUME LinkRoom \/ LinkEvict
      PROVE  [Dict!Next]_(Dict!vars) /\ TakesRightly
  BY <1>3, LinkRoomInserts, LinkEvictInserts
<1>4. ASSUME NEW k \in Keys, Remove(k) \/ \E d \in Values[k] : Replace(k, d)
      PROVE  [Dict!Next]_(Dict!vars) /\ TakesRightly
  BY <1>4, RemoveRemoves, ReplaceReplaces
<1> QED BY <1>1, <1>2, <1>3, <1>4 DEF Next

\* CommonHashTable.cpp: the hash table is a dictionary that keeps the order of
\* insertion, for any number of cells and keys, any hash function, load, bucket
\* limit and heuristics: no search, rehash or relinking can be noticed, and an
\* entry goes only by a removal of its key, by an insertion into its own full
\* bucket, by a rehash that had no memory for it, or with the table.
THEOREM TableIsADictionary == Spec => ImplementsDictionary
<1>1. Init => DInv /\ Dict!Init
  BY InitEntries
<1>2. HInv /\ DInv /\ [Next]_vars => DInv'
  BY DataNext, CopyingNext DEF DInv
<1>3. HInv /\ DInv => EntriesHeld
  BY ContentsHeld
<1>4. HInv /\ DInv /\ EntriesHeld /\ EntriesHeld' /\ [Next]_vars
      => [Dict!Next]_(Dict!vars) /\ TakesRightly
  BY StepImplements
<1> QED BY <1>1, <1>2, <1>3, <1>4, Invariance, PTL DEF Spec, ImplementsDictionary, Dict!Spec

\* A walk from a cell of a list finds the same, wherever it is looked for.
LEMMA ReachWithin ==
    ASSUME NEW at, NEW nxt, NEW X, NEW U, X \subseteq U, at \in X \cup {NoCell},
           \A c \in X : nxt[c] \in X \cup {NoCell}
    PROVE  Reach(at, nxt, U) = Reach(at, nxt, X)
<1> DEFINE R == Reach(at, nxt, U)
<1>1. Walks(at, nxt, R) /\ R \subseteq X
  BY ReachWalks
<1> HIDE DEF R
<1>2. Reach(at, nxt, X) = R
  BY <1>1, WalkReaches
<1> QED BY <1>2 DEF R

\* A turn of the loop of a rehash, which leaves the old list's order alone.
LEMMA TurnAdvances ==
    ASSUME HInv, pc = "rehash", rit # NoCell, rit' = newer[rit],
           \A c \in Aged(tab) : newer'[c] = newer[c], Aged(tab) \subseteq used'
    PROVE  Cardinality(ToCopy') < Cardinality(ToCopy)
<1> DEFINE X == Aged(tab)
           R == Reach(rit, newer, X)
<1>1. rit \in X /\ IsList(Ages(tab), X) /\ Ages(tab).nxt = newer /\ X \subseteq used
  BY InvTables DEF HInv, CallInv, IsAgedList, Ages
<1>2. IsFiniteSet(X)
  BY InvTables DEF IsTable
<1> HIDE DEF X
<1>3. \A c \in X : newer[c] \in X \cup {NoCell} /\ newer'[c] = newer[c]
  BY <1>1, ListLinks DEF Links, X
<1>4. ToCopy = R
  BY <1>1, <1>3, ReachWithin DEF ToCopy
<1>5. R \subseteq X /\ rit \in R /\ Reach(newer[rit], newer, X) = R \ {rit}
  BY <1>1, WalkFacts
<1>6. ToCopy' = R \ {rit}
  <2>1. newer[rit] \in X \cup {NoCell} /\ \A c \in X : newer'[c] \in X \cup {NoCell}
    BY <1>1, <1>3
  <2>2. X \subseteq used'
    BY DEF X
  <2>3. Reach(newer[rit], newer', used') = Reach(newer[rit], newer', X)
    BY <2>1, <2>2, ReachWithin
  <2>4. Reach(newer[rit], newer', X) = Reach(newer[rit], newer, X)
    BY <1>3, ReachKept
  <2> QED BY <1>5, <2>3, <2>4 DEF ToCopy
<1> HIDE DEF R
<1>7. IsFiniteSet(R)
  BY <1>2, <1>5, FS_Subset
<1>8. Cardinality(R) \in Nat /\ Cardinality(R \ {rit}) = Cardinality(R) - 1
  BY <1>5, <1>7, FS_CardinalityType, FS_RemoveElement
<1> QED BY <1>4, <1>6, <1>8

\* ght_rehash: each turn of its loop leaves an entry less to copy, and it ends
\* when none is left, for any number of cells, keys and buckets.
THEOREM RehashIsBounded == Spec => RehashAdvances
<1>1. ASSUME HInv, [Next]_vars, pc = "rehash"
      PROVE  \/ UNCHANGED vars
             \/ IF pc' = "rehash" THEN Cardinality(ToCopy') < Cardinality(ToCopy)
                                  ELSE ToCopy = {}
  <2>1. CASE RehashCopy
    <3>1. PICK c \in Cells \ used : CopiesTo(c)
      BY <1>1, <2>1, RehashCopyInv
    <3>2. used \subseteq used' /\ rit # NoCell /\ rit' = newer[rit] /\ pc' = pc
      BY <2>1 DEF RehashCopy, HeCreate, callVars
    <3>3. /\ \A e \in Aged(tab) : newer'[e] = newer[e]
          /\ Aged(tab) \subseteq used'
      BY <1>1, <3>1, <3>2, InvTables DEF CopiesTo
    <3> QED BY <1>1, <3>2, <3>3, TurnAdvances
  <2>2. CASE RehashSkip
    <3>1. newer' = newer /\ used' = used /\ rit # NoCell /\ rit' = newer[rit] /\ pc' = pc
      BY <2>2 DEF RehashSkip, linkVars, ageVars, heapVars, callVars
    <3>2. Aged(tab) \subseteq used'
      BY <1>1, <3>1, InvTables
    <3> QED BY <1>1, <3>1, <3>2, TurnAdvances
  <2>3. CASE RehashEnd
    <3>1. rit = NoCell /\ pc' # "rehash"
      BY <2>3 DEF RehashEnd
    <3>2. ClosedFrom(NoCell, newer, {})
      BY DEF ClosedFrom
    <3>3. ToCopy = {}
      BY <3>1, <3>2 DEF ToCopy, Reach
    <3> QED BY <3>1, <3>3
  <2> QED
    BY <1>1, <2>1, <2>2, <2>3
    DEF Next, Create, Rehash, Configure, Finalize, Insert, Replace, Get, Remove,
        LinkRoom, LinkEvict, First, Advance, EndIteration, Idle
<1> QED BY <1>1, Invariance, PTL DEF Spec, RehashAdvances
=============================================================================
