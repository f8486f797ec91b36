----------------------------- MODULE LinkedList -----------------------------
(***************************************************************************)
(* The doubly linked lists of CommonHashTable.cpp, pointer by pointer.  A  *)
(* cell is a ght_hash_entry_t; it is on two lists at once, the list of its *)
(* bucket (p_next, p_prev) and the list from the oldest entry to the       *)
(* newest (p_newer, p_older).  Both have the same shape:                   *)
(*   first   the first cell, or NoCell for an empty list                   *)
(*   nxt     the pointers forward                                          *)
(*   prv     the pointers backward                                         *)
(*   last    the last cell; only the list by age has such a pointer        *)
(* An operator takes a list and returns the list that the code leaves.     *)
(***************************************************************************)
EXTENDS FiniteSets

CONSTANTS
    Cells,  \* heap cells for ght_hash_entry_t objects
    NoCell  \* NULL

ASSUME CellsAssumption == NoCell \notin Cells

\* "if (x) x->field = y", on the field f of all cells.
Put(f, x, y) == IF x = NoCell THEN f ELSE [f EXCEPT ![x] = y]

\* ght_insert: "Place the entry first in the list."
PushFront(l, c) ==
    [first |-> c,
     nxt   |-> [l.nxt EXCEPT ![c] = l.first],
     prv   |-> Put([l.prv EXCEPT ![c] = NoCell], l.first, c)]

\* remove_from_chain, of one list.
Unlink(l, p) ==
    [first |-> IF l.prv[p] = NoCell THEN l.nxt[p] ELSE l.first,
     nxt   |-> Put(l.nxt, l.prv[p], l.nxt[p]),
     prv   |-> Put(l.prv, l.nxt[p], l.prv[p])]

\* Mutant: the newest entry goes, p_newest stays.
UnlinkAgedLastKept(l, p) ==
    [first |-> Unlink(l, p).first, nxt |-> Unlink(l, p).nxt,
     prv |-> Unlink(l, p).prv, last |-> l.last]

\* remove_from_chain, of the list by age.
UnlinkAged(l, p) ==
    [first |-> Unlink(l, p).first, nxt |-> Unlink(l, p).nxt,
     prv   |-> Unlink(l, p).prv,
     last  |-> IF l.nxt[p] = NoCell THEN l.prv[p] ELSE l.last]

\* ght_insert: the new cell, whose p_newer is NULL, becomes the newest.
AddLast(l, c) ==
    [first |-> IF l.first = NoCell THEN c ELSE l.first,
     nxt   |-> Put(l.nxt, l.last, c),
     prv   |-> [l.prv EXCEPT ![c] = l.last],
     last  |-> c]

\* move_to_front
MoveToFront(l, p) ==
    IF p = l.first THEN l ELSE
    [first |-> p,
     nxt   |-> [l.nxt EXCEPT ![l.prv[p]] = l.nxt[p], ![p] = l.first],
     prv   |-> [Put(l.prv, l.nxt[p], l.prv[p]) EXCEPT ![p] = NoCell,
                                                      ![l.first] = p]]

\* Mutant: the cell before the pair keeps pointing to its old successor.
TransposeShort(l, p) ==
    IF l.prv[p] = NoCell THEN l ELSE
    LET x == l.prv[p] IN
    [first |-> IF l.prv[x] = NoCell THEN p ELSE l.first,
     nxt   |-> [l.nxt EXCEPT ![x] = l.nxt[p], ![p] = x],
     prv   |-> [Put(l.prv, l.nxt[p], x) EXCEPT ![x] = p, ![p] = l.prv[x]]]

\* transpose: p and the cell before it change places.
Transpose(l, p) ==
    IF l.prv[p] = NoCell THEN l ELSE
    LET x == l.prv[p]
        a == l.prv[x]
        b == l.nxt[p]
    IN [first |-> IF a = NoCell THEN p ELSE l.first,
        nxt   |-> [Put(l.nxt, a, p) EXCEPT ![x] = b, ![p] = x],
        prv   |-> [Put(l.prv, b, x) EXCEPT ![x] = p, ![p] = a]]

-----------------------------------------------------------------------------
(* What a list contains, and when it is in order.                          *)

\* S has the cell at, if it is one, and every cell that follows one of S.
ClosedFrom(at, nxt, S) ==
    at \in S \cup {NoCell} /\ \A c \in S : nxt[c] \in S \cup {NoCell}

\* The cells of U that a walk along nxt from the cell at visits: the least
\* set that is closed.
Reach(at, nxt, U) ==
    LET closed == {S \in SUBSET U : ClosedFrom(at, nxt, S)}
    IN {c \in U : \A S \in closed : c \in S}

\* The pointers of the list l, whose cells are X, agree in both directions.
Paired(l, X) ==
    /\ ClosedFrom(l.first, l.nxt, X)
    /\ l.first # NoCell => l.prv[l.first] = NoCell
    /\ \A c \in X :
         /\ l.nxt[c] # NoCell => l.prv[l.nxt[c]] = c
         /\ IF l.prv[c] = NoCell THEN c = l.first
            ELSE l.prv[c] \in X /\ l.nxt[l.prv[c]] = c

\* A walk visits all of X.
Connected(l, X) ==
    \A S \in SUBSET X : ClosedFrom(l.first, l.nxt, S) => S = X

\* The pointer to the last cell is right.
Ended(l, X) ==
    /\ l.last \in X \cup {NoCell}
    /\ l.first # NoCell => l.last # NoCell
    /\ l.last # NoCell => l.nxt[l.last] = NoCell
    /\ \A c \in X : l.nxt[c] = NoCell => c = l.last
=============================================================================
