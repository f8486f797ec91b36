------------------------ MODULE HashTableRefinement ------------------------
(***************************************************************************)
(* The hash table implements the dictionary: what its keys map to is read  *)
(* off the buckets, the order off the list by age.                         *)
(***************************************************************************)
EXTENDS HashTable

\* What a search in the bucket of k finds.
DataFor(k) ==
    IF tab.size = 0 \/ Found(tab, k) = {} THEN NoData
    ELSE data[CHOOSE c \in Found(tab, k) : TRUE]

Contents == [k \in Keys |-> DataFor(k)]

\* The pairs of the cells X that follow each other: a walk along nxt from the
\* first one meets the second.
Follows(nxt, X) == UNION {{c} \X (Reach(c, nxt, X) \ {c}) : c \in X}

\* The pairs of keys whose entries follow each other by age.
KeysByAge == {<<key[e[1]], key[e[2]]>> : e \in Follows(newer, Aged(tab))}

Dict == INSTANCE Dictionary WITH map <- Contents, order <- KeysByAge

\* The step takes the entry of k out.
Goes(k) == Contents[k] # NoData /\ Contents'[k] = NoData

\* The steps that may: a removal of k itself, an insertion of another key with
\* the same bucket if that is full, the end of a rehash that had no memory for
\* the copy, and ght_finalize.
MayTake(k) ==
    \/ Remove(k)
    \/ LinkEvict /\ Index(tab, k) = Index(tab, key[new])
    \/ RehashEnd /\ k \in lost
    \/ Finalize

\* What goes in a step goes by one of these.
TakesRightly == \A k \in Keys : Goes(k) => MayTake(k)

\* Every call of the table is a call of the dictionary or leaves it alone:
\* searching with a heuristic and rehashing cannot be noticed, and an entry
\* goes only by one of the steps above, never by a call for another bucket.
ImplementsDictionary == Dict!Spec /\ [][TakesRightly]_vars
=============================================================================
