------------------------------ MODULE Progress ------------------------------
(***************************************************************************)
(* The order by which a loop is seen to end: no sequence of tuples of one  *)
(* length, each below the one before, goes on for ever.                    *)
(***************************************************************************)
EXTENDS Naturals, Sequences

\* The tuple of natural numbers new is below old, of the same length: at the
\* first place where they differ it has the smaller number.
Descends(new, old) ==
    /\ new \in Seq(Nat) /\ Len(new) = Len(old)
    /\ \E j \in 1 .. Len(old) :
          new[j] < old[j] /\ \A l \in 1 .. j - 1 : new[l] = old[l]
=============================================================================
