--------------------------- MODULE MCTransparent ---------------------------
(***************************************************************************)
(* A small instance of VNodeHookRefinement for TLC, without symmetry, as   *)
(* its run checks liveness.                                                *)
(***************************************************************************)
EXTENDS VNodeHookRefinement

CONSTANTS dir, fileA, hfs

VolumeVopOf  == [v \in Vnodes |-> hfs]
VolumeParent == [v \in Vnodes |-> IF v = dir THEN NoVnode ELSE dir]

ShortHookOps == <<"reclaim", "lookup", "exchange">>
============================================================================
