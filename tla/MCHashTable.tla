---------------------------- MODULE MCHashTable ----------------------------
(***************************************************************************)
(* A small table for TLC: keys that collide in one bucket and keys that a  *)
(* larger table separates.                                                 *)
(***************************************************************************)
EXTENDS HashTableRefinement, TLC

CONSTANTS a1, a2, b1, b2, c1, c2  \* the cells

\* Three values of the hash function, two keys with the same one.
MCHash == [k \in Keys |-> IF k = "k1" THEN 1 ELSE IF k = "k2" THEN 2 ELSE 3]

\* The data of the keys differ, and one key has a second value.
MCValues == [k \in Keys |-> IF k = "k3" THEN {k, "other"} ELSE {k}]

\* Two cells for each key: one in each table of a rehash.
MCCells == {a1, a2, b1, b2, c1, c2}
MCUsual == [c \in MCCells |-> IF c \in {a1, a2} THEN "k1"
                              ELSE IF c \in {b1, b2} THEN "k2" ELSE "k3"]

\* Which of the two cells of a key is taken makes no difference: where both
\* are free, both are as wiped.
Symmetry == Permutations({a1, a2}) \cup Permutations({b1, b2})
            \cup Permutations({c1, c2})

\* Settings other than those a table is created with, which the driver keeps.
MCConfigs ==
    {[limit |-> 0, heuristics |-> "transpose", rehash |-> TRUE],
     [limit |-> 2, heuristics |-> "front", rehash |-> FALSE]}
=============================================================================
