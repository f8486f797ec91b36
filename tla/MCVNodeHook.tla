---------------------------- MODULE MCVNodeHook ----------------------------
(***************************************************************************)
(* Small instances of VNodeHook, its invariant and its claims for TLC.     *)
(***************************************************************************)
EXTENDS VNodeHookClaims, VNodeHookInvariants, VNodeHookLife, TLC

CONSTANTS dir, fileA, fileB, link, usb, hfs, msdos

\* One volume: a directory and two files in it that share a vector.
VolumeVopOf  == [v \in Vnodes |-> hfs]
VolumeParent == [v \in Vnodes |-> IF v = dir THEN NoVnode ELSE dir]

\* Two volumes: a directory with a symbolic link on one, which share a vector
\* although the link is not of a disk type, and the root of the other.
TwoVopOf  == [v \in Vnodes |-> IF v = usb THEN msdos ELSE hfs]
TwoParent == [v \in Vnodes |-> IF v = link THEN dir ELSE NoVnode]

\* The first, a middle and the last entry of gFltVnodeVopHookEntries; the
\* last one, exchange, has no offset in the fake file system's table.
ShortHookOps == <<"reclaim", "lookup", "exchange">>

\* The whole of gFltVnodeVopHookEntries.
AllHookOps ==
    <<"reclaim", "read", "open", "write", "pagein", "pageout", "lookup",
      "create", "close", "inactive", "rename", "exchange">>
AllKnownOps == {AllHookOps[k] : k \in 1..11}

Symmetry == Permutations(Threads) \cup Permutations(Entries)
============================================================================
