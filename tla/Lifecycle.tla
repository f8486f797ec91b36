----------------------------- MODULE Lifecycle -----------------------------
(***************************************************************************)
(* The life of the driver (FsdFilter.cpp), with what it creates, registers *)
(* and must not take away: the table of hooks and its lock                 *)
(* (VNodeHook.cpp), the listener of the vnode scope (Kauth.cpp).  The      *)
(* kernel calls the listener from any thread as soon as it is registered,  *)
(* and jumps through hooked slots as long as they are hooked.              *)
(***************************************************************************)
EXTENDS Integers

CONSTANTS
    Threads,    \* kernel threads that authorise actions on vnodes
    Vops,       \* operation vectors
    KernelRefs  \* references of IOKit to a driver that it starts

ASSUME KernelRefsAssumption == KernelRefs \in Nat /\ KernelRefs > 1

VARIABLES
    phase,   \* where start, stop or free is
    layout,  \* the offsets that FltGetVnodeLayout finds are known
    heap,    \* allocated: "table", "lock", "buckets", "gate"
    sTable,  \* sVnodeHooksHashTable # NULL
    gate,    \* gVnodeGate # NULL
    listener,   \* kauth calls VnodeAuthorizeCallback
    instance,   \* com_FsdFilter::Instance # NULL
    refs,    \* references to the driver
    owed,    \* those of them that IOKit has yet to give back
    hooked,  \* the vectors with an entry in the table and hooked slots
    call     \* call[t]: "out", or where t is in the listener or in a hook

driverVars == <<layout, heap, sTable, gate, listener, instance>>
refVars == <<refs, owed>>
lifeVars == <<phase, driverVars, refVars, hooked, call>>

TableParts == {"table", "lock", "buckets"}

LifeInit ==
    /\ phase = "layout"
    /\ layout = FALSE /\ heap = {}
    /\ sTable = FALSE /\ gate = FALSE /\ listener = FALSE /\ instance = FALSE
    /\ refs = KernelRefs /\ owed = KernelRefs
    /\ hooked = {}
    /\ call = [t \in Threads |-> "out"]

-----------------------------------------------------------------------------
(* start                                                                   *)

\* "goto __exit_on_error": start gives up a reference and returns false.
\* With the last one the driver is freed.
Released(next) ==
    /\ refs' = refs - 1
    /\ phase' = IF refs = 1 THEN "freeGate" ELSE next

FailStart == Released("failed") /\ UNCHANGED owed

\* FltGetVnodeLayout
GetVnodeLayout(known) ==
    /\ phase = "layout"
    /\ layout' = known
    /\ IF known THEN phase' = "table" /\ UNCHANGED refVars ELSE FailStart
    /\ UNCHANGED <<heap, sTable, gate, listener, instance, hooked, call>>

\* Mutant: only the object is deleted when the buckets cannot be allocated.
UndoneLeak(part) ==
    IF part = "gate" THEN {} ELSE {"table"}

\* What withSize, or withCallbackRegistration, frees when the part cannot be
\* allocated: the parts that it has allocated before.
Undone(part) ==
    CASE part = "lock" -> {"table"}
      [] part = "buckets" -> {"table", "lock"}
      [] OTHER -> {}

\* Mutant: start goes on without a table.
CreateTableUnchecked(part, next) ==
    /\ phase = part
    /\ heap' = heap \cup {part}
    /\ sTable' = FALSE
    /\ phase' = next
    /\ UNCHANGED <<layout, gate, listener, instance, refVars, hooked, call>>

\* VFSHookInit does nothing.  CreateStaticTableWithSize: the object, its lock
\* and its buckets; the table is visible when it is complete.
CreateTable(part, next) ==
    /\ phase = part
    /\ \/ /\ heap' = heap \cup {part}
          /\ sTable' = (part = "buckets")
          /\ phase' = next
          /\ UNCHANGED refVars
       \/ /\ heap' = heap \ Undone(part)
          /\ FailStart
          /\ UNCHANGED sTable
    /\ UNCHANGED <<layout, gate, listener, instance, hooked, call>>

\* withCallbackRegistration: the object, if there is memory for it.
CreateGate ==
    /\ phase = "gate"
    /\ \/ heap' = heap \cup {"gate"} /\ phase' = "register" /\ UNCHANGED refVars
       \/ FailStart /\ UNCHANGED heap
    /\ UNCHANGED <<layout, sTable, gate, listener, instance, hooked, call>>

\* Mutant: the object is not released when it cannot be registered.
RegisterLeak ==
    /\ phase = "register"
    /\ \/ listener' = TRUE /\ phase' = "set" /\ UNCHANGED <<heap, refVars>>
       \/ FailStart /\ UNCHANGED <<heap, listener>>
    /\ UNCHANGED <<layout, sTable, gate, instance, hooked, call>>

\* RegisterVnodeScopeCallback; when it fails the object is released.
Register ==
    /\ phase = "register"
    /\ \/ listener' = TRUE /\ phase' = "set" /\ UNCHANGED <<heap, refVars>>
       \/ FailStart /\ heap' = heap \ {"gate"} /\ UNCHANGED listener
    /\ UNCHANGED <<layout, sTable, gate, instance, hooked, call>>

\* gVnodeGate is set when the listener may have been called already.
SetGate ==
    /\ phase = "set"
    /\ gate' = TRUE /\ phase' = "instance"
    /\ UNCHANGED <<layout, heap, sTable, listener, instance, refVars, hooked, call>>

\* Mutant: the driver can be unloaded.
RetainNot ==
    /\ phase = "instance"
    /\ instance' = TRUE
    /\ phase' = "started"
    /\ UNCHANGED <<layout, heap, sTable, gate, listener, refVars, hooked, call>>

\* Instance is set; registerService; retain makes the driver non-unloadable.
Retain ==
    /\ phase = "instance"
    /\ instance' = TRUE
    /\ refs' = refs + 1
    /\ phase' = "started"
    /\ UNCHANGED <<layout, heap, sTable, gate, listener, owed, hooked, call>>

-----------------------------------------------------------------------------
(* stop and free                                                           *)

\* IOKit terminates the driver; stop only calls its superclass.
Stop ==
    /\ phase = "started" /\ phase' = "stopped"
    /\ UNCHANGED <<driverVars, refVars, hooked, call>>

\* IOKit gives a reference back, after start has failed or after stop.
KernelRelease ==
    /\ phase \in {"failed", "stopped"} /\ owed > 0
    /\ owed' = owed - 1
    /\ Released(phase)
    /\ UNCHANGED <<driverVars, hooked, call>>

\* free: the gate is released; its own free does not call kauth_unlisten_scope.
FreeGate ==
    /\ phase = "freeGate"
    /\ gate' = FALSE
    /\ heap' = IF gate THEN heap \ {"gate"} ELSE heap
    /\ phase' = "freeTable"
    /\ UNCHANGED <<layout, sTable, listener, instance, refVars, hooked, call>>

\* DeleteStaticTable: entries that are left are released, slots that are
\* hooked stay so; then VFSHookRelease, which does nothing.
FreeTable ==
    /\ phase = "freeTable"
    /\ heap' = IF sTable THEN heap \ TableParts ELSE heap
    /\ sTable' = FALSE
    /\ phase' = "freed"
    /\ UNCHANGED <<layout, gate, listener, instance, refVars, hooked, call>>

-----------------------------------------------------------------------------
(* The listener and the hooks.                                             *)

\* kauth calls VnodeAuthorizeCallback.
Authorize(t) ==
    /\ listener /\ call[t] = "out"
    /\ call' = [call EXCEPT ![t] = "callback"]
    /\ UNCHANGED <<phase, driverVars, refVars, hooked>>

\* FltHookVnodeVop, for the vnode or then for its parent, goes on to the lock
\* only with a layout and a table.
Check(t) ==
    /\ call[t] = "callback"
    /\ layout /\ sTable
    /\ call' = [call EXCEPT ![t] = "hooking"]
    /\ UNCHANGED <<phase, driverVars, refVars, hooked>>

\* It hooks a vector, or finds it hooked, or has no memory to.
HookVop(t) ==
    /\ call[t] = "hooking"
    /\ \/ \E v \in Vops : hooked' = hooked \cup {v}
       \/ UNCHANGED hooked
    /\ call' = [call EXCEPT ![t] = "callback"]
    /\ UNCHANGED <<phase, driverVars, refVars>>

\* The callback has done what it can for the vnode and its parent.
Defer(t) ==
    /\ call[t] = "callback"
    /\ call' = [call EXCEPT ![t] = "out"]
    /\ UNCHANGED <<phase, driverVars, refVars, hooked>>

\* The kernel jumps through a hooked slot.
EnterHook(t) ==
    /\ call[t] = "out" /\ hooked # {}
    /\ call' = [call EXCEPT ![t] = "hook"]
    /\ UNCHANGED <<phase, driverVars, refVars, hooked>>

\* The hook function of a reclaim unhooks a vector, and is still there after.
UnHookVop(t) ==
    /\ call[t] = "hook"
    /\ \E v \in hooked : hooked' = hooked \ {v}
    /\ UNCHANGED <<phase, driverVars, refVars, call>>

\* The hook function has its original and needs the table no more.
LeaveHook(t) ==
    /\ call[t] = "hook"
    /\ call' = [call EXCEPT ![t] = "out"]
    /\ UNCHANGED <<phase, driverVars, refVars, hooked>>

-----------------------------------------------------------------------------

\* start after the search.
StartOn ==
    \/ CreateTable("table", "lock") \/ CreateTable("lock", "buckets")
    \/ CreateTable("buckets", "gate") \/ CreateGate \/ Register \/ SetGate \/ Retain
Start == StartOn \/ \E known \in BOOLEAN : GetVnodeLayout(known)
Free == FreeGate \/ FreeTable
Use(t) ==
    \/ Authorize(t) \/ Check(t) \/ HookVop(t) \/ Defer(t)
    \/ EnterHook(t) \/ UnHookVop(t) \/ LeaveHook(t)
Kernel == Stop \/ KernelRelease \/ \E t \in Threads : Use(t)

LifeNext == Start \/ Free \/ Kernel

LifeSpec == LifeInit /\ [][LifeNext]_lifeVars

\* The driver once it has been started, and while only the listener and the
\* hooks run.
Started ==
    /\ phase = "started"
    /\ layout = TRUE /\ sTable = TRUE
    /\ gate = TRUE /\ listener = TRUE /\ instance = TRUE
    /\ heap = TableParts \cup {"gate"}
    /\ refs = KernelRefs + 1 /\ owed = KernelRefs
    /\ hooked = {}
    /\ call = [t \in Threads |-> "out"]
UseSpec == Started /\ [][\E t \in Threads : Use(t)]_lifeVars

-----------------------------------------------------------------------------
(* Properties.                                                             *)

StartPhases == {"layout", "table", "lock", "buckets", "gate", "register",
                "set", "instance"}
Phases == StartPhases \cup {"started", "stopped", "failed", "freeGate", "freeTable", "freed"}

LifeTypeOK ==
    /\ phase \in Phases
    /\ layout \in BOOLEAN /\ sTable \in BOOLEAN /\ gate \in BOOLEAN
    /\ listener \in BOOLEAN /\ instance \in BOOLEAN
    /\ heap \subseteq TableParts \cup {"gate"}
    /\ refs \in Nat /\ owed \in 0 .. KernelRefs
    /\ hooked \subseteq Vops
    /\ call \in [Threads -> {"out", "callback", "hooking", "hook"}]

\* Wherever a thread may come into the driver, through the listener, which
\* may run before start has gone on, or through a hooked slot, it meets the
\* table with its lock, and the layout.  The hook functions only assert it.
TableOutlivesUse ==
    listener \/ hooked # {} \/ (\E t \in Threads : call[t] # "out") =>
        layout /\ sTable /\ TableParts \subseteq heap

\* Once the driver is freed nothing leads into it, and nothing is left of
\* it.  free relies on start: it neither stops the listener nor unhooks.
FreedForGood ==
    phase = "freed" =>
        /\ heap = {} /\ ~sTable /\ ~gate
        /\ ~listener /\ hooked = {}

\* A driver that has been started stays, however many of its references
\* IOKit gives back: slots are hooked by then, and nothing unhooks them.
StaysLoaded == instance => phase \in {"started", "stopped"}

-----------------------------------------------------------------------------
(* The inductive invariant of these: what there is in each phase.          *)

Running == {"started", "stopped"}
Freeing == {"failed", "freeGate", "freeTable"}

\* The parts of the table, in the order in which start allocates them.
HeapOfPhase ==
    /\ phase \in {"layout", "table"} => heap = {}
    /\ phase = "lock" => heap = {"table"}
    /\ phase = "buckets" => heap = {"table", "lock"}
    /\ phase = "gate" => heap = TableParts
    /\ phase \in {"register", "set", "instance"} \cup Running =>
          heap = TableParts \cup {"gate"}
    /\ phase \in Freeing => heap = {} \/ heap = TableParts
    /\ phase = "freed" => heap = {}

FlagsOfPhase ==
    /\ sTable <=> TableParts \subseteq heap
    /\ phase \in (StartPhases \ {"layout"}) \cup Running => layout
    /\ listener <=> phase \in {"set", "instance"} \cup Running
    /\ gate <=> phase \in {"instance"} \cup Running
    /\ StaysLoaded
    /\ hooked # {} \/ (\E t \in Threads : call[t] # "out") => listener

\* start retains the driver once more than IOKit will release it, or, when it
\* fails, releases it once.
RefsOfPhase ==
    /\ phase \in StartPhases => refs = KernelRefs /\ owed = KernelRefs
    /\ phase = "failed" => refs = owed - 1 /\ refs > 0
    /\ phase \in Running => refs = owed + 1

LifeInv == LifeTypeOK /\ HeapOfPhase /\ FlagsOfPhase /\ RefsOfPhase
=============================================================================
