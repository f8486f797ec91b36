---------------------------- MODULE MCWiredCopy ----------------------------
(***************************************************************************)
(* Pages of four bytes: a source in the virtual pages 1 and 2, a           *)
(* destination in 3 and 4, at all offsets, of all lengths up to two pages; *)
(* the pages are scattered in physical memory, or one is not mapped.       *)
(***************************************************************************)
EXTENDS WiredCopy, FiniteSets

MCPhys == PageSize .. 6 * PageSize - 1
Scattered == [v \in 1 .. 4 |-> CASE v = 1 -> 4 [] v = 2 -> 1 [] v = 3 -> 5 [] OTHER -> 2]
MCPmaps == {Scattered} \cup {[Scattered EXCEPT ![v] = 0] : v \in 1 .. 4}

MCRequests == {r \in
    [src : PageSize .. 2 * PageSize - 1, dst : 3 * PageSize .. 4 * PageSize - 1,
     len : 0 .. 2 * PageSize, pmap : MCPmaps] :
    r.src + r.len <= 3 * PageSize /\ r.dst + r.len <= 5 * PageSize}

\* Every byte is told apart.
MCBytes == Phys
MCMemories == {[a \in Phys |-> a]}
=============================================================================
