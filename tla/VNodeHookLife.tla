--------------------------- MODULE VNodeHookLife ---------------------------
(***************************************************************************)
(* The hooks in the life of the driver.  Lifecycle has the listener and    *)
(* the hook functions in a few steps, as far as they use what start has    *)
(* created; VNodeHook has them in full, in a driver that has been started. *)
(***************************************************************************)
EXTENDS VNodeHook

\* A vector leads into the driver from the entry in the table on, and until
\* its last slot has been restored.
Led ==
    { w \in Vops :
        \/ hash[w] # NoEntry
        \/ \E o \in Ops : slot[w][o] = Hook(o) }

\* A callback is between FltHookVnodeVop's check for the table and the moment
\* the vector is known to be hooked; a hook function, between its entry and the
\* call of the original.
BeforeHooked ==
    {"hookShared", "hookRetrieve", "hookAlloc", "hookExcl", "hookRecheck"}

LifePlace(p) ==
    CASE p \in BeforeHooked -> "hooking"
      [] p \in HookLabels \ BeforeHooked -> "callback"
      [] p \in GetLabels \cup UnhookLabels -> "hook"
      [] p \in {"idle", "callOriginal"} -> "out"

LifeCall == [t \in Threads |-> LifePlace(pc[t])]

\* start has been through, with the least references that IOKit may hold.
Life == INSTANCE Lifecycle
          WITH KernelRefs <- 2, refs <- 3, owed <- 2,
               phase <- "started", heap <- {"table", "lock", "buckets", "gate"},
               layout <- TRUE, sTable <- TRUE, gate <- TRUE, listener <- TRUE,
               instance <- TRUE, hooked <- Led, call <- LifeCall

\* What Lifecycle assumes of the listener and the hooks is what they do: a
\* vector comes into use only through a callback that has found the table, one
\* vector each time, and goes out of use only in a hook function, which is
\* entered through a hooked slot (VNodeHook.cpp:233-641, Kauth.cpp:54-92).
UsesLife == Life!UseSpec
=============================================================================
