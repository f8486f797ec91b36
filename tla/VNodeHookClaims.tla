-------------------------- MODULE VNodeHookClaims --------------------------
(***************************************************************************)
(* What comments and assertions of VNodeHook.cpp and VNodeHook.h say and   *)
(* the code does not keep.  Each claim has a run that violates it.         *)
(***************************************************************************)
EXTENDS VNodeHook

\* FltUnHookVnodeVop removes only an entry that counts no vnode
\* (VNodeHook.cpp:568, assert( 0x0 == existingEntry->getVnodeCounter() )).
RemovedEntryIsUncounted ==
    [][\A w \in Vops :
         hash[w] # NoEntry /\ hash'[w] = NoEntry
            => vNodeCounter[hash[w]] = 0]_vars

\* A vnode is uncounted only after it was counted (VNodeHook.h:210,
\* assert( this->vNodeCounter > 0x0 )).
UncountsACountedVnode ==
    [][\A e \in Entries :
         vNodeCounter'[e] = vNodeCounter[e] - 1 => vNodeCounter[e] > 0]_vars

\* vNodeCounter is "the number of vnodes which we are aware of for this v_op
\* vector" (VNodeHook.h:109-112): while no call is under way it is not above
\* the number of vnodes that have the vector and are not reclaimed.
CounterCountsVnodes ==
    (\A t \in Threads : pc[t] = "idle") =>
        \A w \in Vops : hash[w] # NoEntry =>
            vNodeCounter[hash[w]] <=
                Cardinality({v \in Vnodes : VopOf[v] = w /\ vstate[v] # "dead"})

\* "the lookup and create must be hooked ater all over vnode operations"
\* (VNodeHook.cpp:45-49): no slot is hooked after the vector's lookup or
\* create.
LookupAndCreateHookedLast ==
    [][\A w \in Vops, o \in Ops \ {"lookup", "create"} :
         slot[w][o] # Hook(o) /\ slot'[w][o] = Hook(o) =>
            \A c \in {"lookup", "create"} : slot[w][c] # Hook(c)]_vars
============================================================================
