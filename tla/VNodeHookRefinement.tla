------------------------ MODULE VNodeHookRefinement ------------------------
(***************************************************************************)
(* The hooks implement a transparent filter.  A vector is attached while   *)
(* the table has an entry for it; the slots, the lock, the counters and    *)
(* the references are details.                                             *)
(***************************************************************************)
EXTENDS VNodeHook

Attached == { w \in Vops : hash[w] # NoEntry }

Request ==
    [t \in Threads |->
        IF op[t] = NoOp THEN Null ELSE Original(VopOf[vn[t]], op[t])]

TF == INSTANCE TransparentFilter
        WITH attached <- Attached, request <- Request, target <- fn

\* Every step of the hooks is a step of a transparent filter or none at all,
\* and under fair scheduling every call is forwarded and returns: no caller
\* can tell the hooked vector from the file system's (VFSHooks.cpp:49-382).
Transparent == TF!Spec
============================================================================
