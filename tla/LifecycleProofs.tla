-------------------------- MODULE LifecycleProofs --------------------------
(***************************************************************************)
(* Proofs about the life of the driver, for any number of threads, of      *)
(* vectors and of references.                                              *)
(***************************************************************************)
EXTENDS Lifecycle, TLAPS

USE KernelRefsAssumption DEF KernelRefsAssumption, StartPhases, Running, Freeing, TableParts

\* The invariant holds when the driver is loaded.
LEMMA LifeInitInv == LifeInit => LifeInv
<1> SUFFICES ASSUME LifeInit PROVE LifeInv
  OBVIOUS
<1>1. LifeTypeOK
  <2>1. refs \in Nat /\ owed \in 0 .. KernelRefs
    BY DEF LifeInit
  <2>2. call \in [Threads -> {"out", "callback", "hooking", "hook"}]
    BY DEF LifeInit
  <2> QED
    BY <2>1, <2>2, Zenon DEF LifeInit, LifeTypeOK, Phases
<1>2. HeapOfPhase
  BY DEF LifeInit, HeapOfPhase
<1>3. FlagsOfPhase
  BY DEF LifeInit, FlagsOfPhase, StaysLoaded
<1>4. RefsOfPhase
  BY DEF LifeInit, RefsOfPhase
<1> QED
  BY <1>1, <1>2, <1>3, <1>4 DEF LifeInv

\* The search returns.
LEMMA GetVnodeLayoutInv ==
  ASSUME NEW known \in BOOLEAN, GetVnodeLayout(known), LifeInv
  PROVE  LifeInv'
<1> USE DEF LifeInv
<1>1. LifeTypeOK'
  BY DEF LifeTypeOK, Phases, RefsOfPhase, GetVnodeLayout, FailStart, Released, refVars
<1>2. HeapOfPhase'
  BY DEF LifeTypeOK, HeapOfPhase, FlagsOfPhase, GetVnodeLayout, FailStart, Released, refVars
<1>3. FlagsOfPhase'
  BY DEF LifeTypeOK, HeapOfPhase, FlagsOfPhase, StaysLoaded, GetVnodeLayout, FailStart, Released, refVars
<1>4. RefsOfPhase'
  BY DEF LifeTypeOK, Phases, RefsOfPhase, GetVnodeLayout, FailStart, Released, refVars
<1> QED
  BY <1>1, <1>2, <1>3, <1>4

\* A part of the table is allocated, or those before it are freed.
LEMMA CreateTableInv ==
  ASSUME NEW part, NEW next,
         <<part, next>> \in {<<"table", "lock">>, <<"lock", "buckets">>, <<"buckets", "gate">>},
         CreateTable(part, next), LifeInv
  PROVE  LifeInv'
<1> USE DEF LifeInv
<1>1. LifeTypeOK'
  <2>1. refs' \in Nat /\ owed' \in 0 .. KernelRefs
    BY DEF LifeTypeOK, RefsOfPhase, CreateTable, Undone, FailStart, Released, refVars
  <2>2. phase' \in Phases
    BY DEF Phases, RefsOfPhase, CreateTable, Undone, FailStart, Released, refVars
  <2>3. heap' \subseteq TableParts \cup {"gate"}
    BY DEF LifeTypeOK, CreateTable, Undone, FailStart, Released, refVars
  <2>4. sTable' \in BOOLEAN /\ listener' \in BOOLEAN
    BY DEF LifeTypeOK, CreateTable, Undone, FailStart, Released, refVars
  <2> QED
    BY <2>1, <2>2, <2>3, <2>4 DEF LifeTypeOK, CreateTable, Undone, FailStart, Released, refVars
<1>2. HeapOfPhase'
  BY DEF LifeTypeOK, HeapOfPhase, FlagsOfPhase, CreateTable, Undone, FailStart, Released, refVars
<1>3. FlagsOfPhase'
  BY DEF LifeTypeOK, HeapOfPhase, FlagsOfPhase, StaysLoaded, CreateTable, Undone, FailStart, Released, refVars
<1>4. RefsOfPhase'
  BY DEF LifeTypeOK, Phases, RefsOfPhase, CreateTable, Undone, FailStart, Released, refVars
<1> QED
  BY <1>1, <1>2, <1>3, <1>4

\* The gate is allocated, or start fails.
LEMMA CreateGateInv ==
  ASSUME CreateGate, LifeInv
  PROVE  LifeInv'
<1> USE DEF LifeInv
<1>1. LifeTypeOK'
  <2>1. refs' \in Nat /\ owed' \in 0 .. KernelRefs
    BY DEF LifeTypeOK, RefsOfPhase, CreateGate, FailStart, Released, refVars
  <2>2. phase' \in Phases
    BY DEF Phases, RefsOfPhase, CreateGate, FailStart, Released, refVars
  <2>3. heap' \subseteq TableParts \cup {"gate"}
    BY DEF LifeTypeOK, CreateGate, FailStart, Released, refVars
  <2>4. sTable' \in BOOLEAN /\ listener' \in BOOLEAN
    BY DEF LifeTypeOK, CreateGate, FailStart, Released, refVars
  <2> QED
    BY <2>1, <2>2, <2>3, <2>4 DEF LifeTypeOK, CreateGate, FailStart, Released, refVars
<1>2. HeapOfPhase'
  BY DEF LifeTypeOK, HeapOfPhase, FlagsOfPhase, CreateGate, FailStart, Released, refVars
<1>3. FlagsOfPhase'
  BY DEF LifeTypeOK, HeapOfPhase, FlagsOfPhase, StaysLoaded, CreateGate, FailStart, Released, refVars
<1>4. RefsOfPhase'
  BY DEF LifeTypeOK, Phases, RefsOfPhase, CreateGate, FailStart, Released, refVars
<1> QED
  BY <1>1, <1>2, <1>3, <1>4

\* The listener is registered, or the gate is released.
LEMMA RegisterInv ==
  ASSUME Register, LifeInv
  PROVE  LifeInv'
<1> USE DEF LifeInv
<1>1. LifeTypeOK'
  <2>1. refs' \in Nat /\ owed' \in 0 .. KernelRefs
    BY DEF LifeTypeOK, RefsOfPhase, Register, FailStart, Released, refVars
  <2>2. phase' \in Phases
    BY DEF Phases, RefsOfPhase, Register, FailStart, Released, refVars
  <2>3. heap' \subseteq TableParts \cup {"gate"}
    BY DEF LifeTypeOK, Register, FailStart, Released, refVars
  <2>4. sTable' \in BOOLEAN /\ listener' \in BOOLEAN
    BY DEF LifeTypeOK, Register, FailStart, Released, refVars
  <2> QED
    BY <2>1, <2>2, <2>3, <2>4 DEF LifeTypeOK, Register, FailStart, Released, refVars
<1>2. HeapOfPhase'
  BY DEF LifeTypeOK, HeapOfPhase, FlagsOfPhase, Register, FailStart, Released, refVars
<1>3. FlagsOfPhase'
  BY DEF LifeTypeOK, HeapOfPhase, FlagsOfPhase, StaysLoaded, Register, FailStart, Released, refVars
<1>4. RefsOfPhase'
  BY DEF LifeTypeOK, Phases, RefsOfPhase, Register, FailStart, Released, refVars
<1> QED
  BY <1>1, <1>2, <1>3, <1>4

\* The gate is visible.
LEMMA SetGateInv ==
  ASSUME SetGate, LifeInv
  PROVE  LifeInv'
<1> USE DEF LifeInv
<1>1. LifeTypeOK'
  BY DEF LifeTypeOK, Phases, SetGate, refVars
<1>2. HeapOfPhase'
  BY DEF LifeTypeOK, HeapOfPhase, FlagsOfPhase, SetGate, refVars
<1>3. FlagsOfPhase'
  BY DEF LifeTypeOK, HeapOfPhase, FlagsOfPhase, StaysLoaded, SetGate, refVars
<1>4. RefsOfPhase'
  BY DEF LifeTypeOK, Phases, RefsOfPhase, SetGate, refVars
<1> QED
  BY <1>1, <1>2, <1>3, <1>4

\* The driver retains itself.
LEMMA RetainInv ==
  ASSUME Retain, LifeInv
  PROVE  LifeInv'
<1> USE DEF LifeInv
<1>1. LifeTypeOK'
  BY DEF LifeTypeOK, Phases, Retain
<1>2. HeapOfPhase'
  BY DEF LifeTypeOK, HeapOfPhase, FlagsOfPhase, Retain
<1>3. FlagsOfPhase'
  BY DEF LifeTypeOK, HeapOfPhase, FlagsOfPhase, StaysLoaded, Retain
<1>4. RefsOfPhase'
  BY DEF LifeTypeOK, Phases, RefsOfPhase, Retain
<1> QED
  BY <1>1, <1>2, <1>3, <1>4

\* The driver is stopped.
LEMMA StopInv ==
  ASSUME Stop, LifeInv
  PROVE  LifeInv'
<1> USE DEF LifeInv
<1>1. LifeTypeOK'
  BY DEF LifeTypeOK, Phases, Stop, driverVars, refVars
<1>2. HeapOfPhase'
  BY DEF LifeTypeOK, HeapOfPhase, FlagsOfPhase, Stop, driverVars, refVars
<1>3. FlagsOfPhase'
  BY DEF LifeTypeOK, HeapOfPhase, FlagsOfPhase, StaysLoaded, Stop, driverVars, refVars
<1>4. RefsOfPhase'
  BY DEF LifeTypeOK, Phases, RefsOfPhase, Stop, driverVars, refVars
<1> QED
  BY <1>1, <1>2, <1>3, <1>4

\* IOKit gives a reference back.
LEMMA KernelReleaseInv ==
  ASSUME KernelRelease, LifeInv
  PROVE  LifeInv'
<1> USE DEF LifeInv
<1>1. LifeTypeOK'
  BY DEF LifeTypeOK, Phases, RefsOfPhase, KernelRelease, Released, driverVars
<1>2. HeapOfPhase'
  BY DEF LifeTypeOK, HeapOfPhase, FlagsOfPhase, RefsOfPhase, KernelRelease, Released, driverVars
<1>3. FlagsOfPhase'
  BY DEF LifeTypeOK, HeapOfPhase, FlagsOfPhase, RefsOfPhase, StaysLoaded, KernelRelease, Released, driverVars
<1>4. RefsOfPhase'
  BY DEF LifeTypeOK, Phases, RefsOfPhase, KernelRelease, Released, driverVars
<1> QED
  BY <1>1, <1>2, <1>3, <1>4

\* The gate is released.
LEMMA FreeGateInv ==
  ASSUME FreeGate, LifeInv
  PROVE  LifeInv'
<1> USE DEF LifeInv
<1>1. LifeTypeOK'
  BY DEF LifeTypeOK, Phases, FreeGate, refVars
<1>2. HeapOfPhase'
  BY DEF LifeTypeOK, HeapOfPhase, FlagsOfPhase, FreeGate, refVars
<1>3. FlagsOfPhase'
  BY DEF LifeTypeOK, HeapOfPhase, FlagsOfPhase, StaysLoaded, FreeGate, refVars
<1>4. RefsOfPhase'
  BY DEF LifeTypeOK, Phases, RefsOfPhase, FreeGate, refVars
<1> QED
  BY <1>1, <1>2, <1>3, <1>4

\* The table is deleted.
LEMMA FreeTableInv ==
  ASSUME FreeTable, LifeInv
  PROVE  LifeInv'
<1> USE DEF LifeInv
<1>1. LifeTypeOK'
  BY DEF LifeTypeOK, Phases, FreeTable, refVars
<1>2. HeapOfPhase'
  BY DEF LifeTypeOK, HeapOfPhase, FlagsOfPhase, FreeTable, refVars
<1>3. FlagsOfPhase'
  BY DEF LifeTypeOK, HeapOfPhase, FlagsOfPhase, StaysLoaded, FreeTable, refVars
<1>4. RefsOfPhase'
  BY DEF LifeTypeOK, Phases, RefsOfPhase, FreeTable, refVars
<1> QED
  BY <1>1, <1>2, <1>3, <1>4

\* kauth calls the listener.
LEMMA AuthorizeInv ==
  ASSUME NEW t \in Threads, Authorize(t), LifeInv
  PROVE  LifeInv'
<1> USE DEF LifeInv
<1>1. LifeTypeOK'
  BY DEF LifeTypeOK, Phases, Authorize, driverVars, refVars
<1>2. HeapOfPhase'
  BY DEF LifeTypeOK, HeapOfPhase, FlagsOfPhase, Authorize, driverVars, refVars
<1>3. FlagsOfPhase'
  BY DEF LifeTypeOK, HeapOfPhase, FlagsOfPhase, StaysLoaded, Authorize, driverVars, refVars
<1>4. RefsOfPhase'
  BY DEF LifeTypeOK, Phases, RefsOfPhase, Authorize, driverVars, refVars
<1> QED
  BY <1>1, <1>2, <1>3, <1>4

\* The listener looks at the layout and the table.
LEMMA CheckInv ==
  ASSUME NEW t \in Threads, Check(t), LifeInv
  PROVE  LifeInv'
<1> USE DEF LifeInv
<1>1. LifeTypeOK'
  BY DEF LifeTypeOK, Phases, Check, driverVars, refVars
<1>2. HeapOfPhase'
  BY DEF LifeTypeOK, HeapOfPhase, FlagsOfPhase, Check, driverVars, refVars
<1>3. FlagsOfPhase'
  BY DEF LifeTypeOK, HeapOfPhase, FlagsOfPhase, StaysLoaded, Check, driverVars, refVars
<1>4. RefsOfPhase'
  BY DEF LifeTypeOK, Phases, RefsOfPhase, Check, driverVars, refVars
<1> QED
  BY <1>1, <1>2, <1>3, <1>4

\* The listener hooks a vector.
LEMMA HookVopInv ==
  ASSUME NEW t \in Threads, HookVop(t), LifeInv
  PROVE  LifeInv'
<1> USE DEF LifeInv
<1>1. LifeTypeOK'
  BY DEF LifeTypeOK, Phases, HookVop, driverVars, refVars
<1>2. HeapOfPhase'
  BY DEF LifeTypeOK, HeapOfPhase, FlagsOfPhase, HookVop, driverVars, refVars
<1>3. FlagsOfPhase'
  BY DEF LifeTypeOK, HeapOfPhase, FlagsOfPhase, StaysLoaded, HookVop, driverVars, refVars
<1>4. RefsOfPhase'
  BY DEF LifeTypeOK, Phases, RefsOfPhase, HookVop, driverVars, refVars
<1> QED
  BY <1>1, <1>2, <1>3, <1>4

\* The listener returns.
LEMMA DeferInv ==
  ASSUME NEW t \in Threads, Defer(t), LifeInv
  PROVE  LifeInv'
<1> USE DEF LifeInv
<1>1. LifeTypeOK'
  BY DEF LifeTypeOK, Phases, Defer, driverVars, refVars
<1>2. HeapOfPhase'
  BY DEF LifeTypeOK, HeapOfPhase, FlagsOfPhase, Defer, driverVars, refVars
<1>3. FlagsOfPhase'
  BY DEF LifeTypeOK, HeapOfPhase, FlagsOfPhase, StaysLoaded, Defer, driverVars, refVars
<1>4. RefsOfPhase'
  BY DEF LifeTypeOK, Phases, RefsOfPhase, Defer, driverVars, refVars
<1> QED
  BY <1>1, <1>2, <1>3, <1>4

\* A thread comes in through a slot.
LEMMA EnterHookInv ==
  ASSUME NEW t \in Threads, EnterHook(t), LifeInv
  PROVE  LifeInv'
<1> USE DEF LifeInv
<1>1. LifeTypeOK'
  BY DEF LifeTypeOK, Phases, EnterHook, driverVars, refVars
<1>2. HeapOfPhase'
  BY DEF LifeTypeOK, HeapOfPhase, FlagsOfPhase, EnterHook, driverVars, refVars
<1>3. FlagsOfPhase'
  BY DEF LifeTypeOK, HeapOfPhase, FlagsOfPhase, StaysLoaded, EnterHook, driverVars, refVars
<1>4. RefsOfPhase'
  BY DEF LifeTypeOK, Phases, RefsOfPhase, EnterHook, driverVars, refVars
<1> QED
  BY <1>1, <1>2, <1>3, <1>4

\* A vector is unhooked.
LEMMA UnHookVopInv ==
  ASSUME NEW t \in Threads, UnHookVop(t), LifeInv
  PROVE  LifeInv'
<1> USE DEF LifeInv
<1>1. LifeTypeOK'
  BY DEF LifeTypeOK, Phases, UnHookVop, driverVars, refVars
<1>2. HeapOfPhase'
  BY DEF LifeTypeOK, HeapOfPhase, FlagsOfPhase, UnHookVop, driverVars, refVars
<1>3. FlagsOfPhase'
  BY DEF LifeTypeOK, HeapOfPhase, FlagsOfPhase, StaysLoaded, UnHookVop, driverVars, refVars
<1>4. RefsOfPhase'
  BY DEF LifeTypeOK, Phases, RefsOfPhase, UnHookVop, driverVars, refVars
<1> QED
  BY <1>1, <1>2, <1>3, <1>4

\* A hook function is done.
LEMMA LeaveHookInv ==
  ASSUME NEW t \in Threads, LeaveHook(t), LifeInv
  PROVE  LifeInv'
<1> USE DEF LifeInv
<1>1. LifeTypeOK'
  BY DEF LifeTypeOK, Phases, LeaveHook, driverVars, refVars
<1>2. HeapOfPhase'
  BY DEF LifeTypeOK, HeapOfPhase, FlagsOfPhase, LeaveHook, driverVars, refVars
<1>3. FlagsOfPhase'
  BY DEF LifeTypeOK, HeapOfPhase, FlagsOfPhase, StaysLoaded, LeaveHook, driverVars, refVars
<1>4. RefsOfPhase'
  BY DEF LifeTypeOK, Phases, RefsOfPhase, LeaveHook, driverVars, refVars
<1> QED
  BY <1>1, <1>2, <1>3, <1>4

\* Every step of the driver and of the kernel keeps the invariant.
LEMMA LifeNextInv == LifeInv /\ [LifeNext]_lifeVars => LifeInv'
<1> SUFFICES ASSUME LifeInv, [LifeNext]_lifeVars PROVE LifeInv'
  OBVIOUS
<1>1. CASE StartOn
  BY <1>1, CreateTableInv, CreateGateInv, RegisterInv, SetGateInv, RetainInv DEF StartOn
<1>2. CASE \E known \in BOOLEAN : GetVnodeLayout(known)
  BY <1>2, GetVnodeLayoutInv
<1>3. CASE Free
  BY <1>3, FreeGateInv, FreeTableInv DEF Free
<1>4. CASE Kernel
  BY <1>4, StopInv, KernelReleaseInv, AuthorizeInv, CheckInv, HookVopInv, DeferInv,
     EnterHookInv, UnHookVopInv, LeaveHookInv
  DEF Kernel, Use
<1>5. CASE UNCHANGED lifeVars
  BY <1>5 DEF lifeVars, driverVars, refVars, LifeInv, LifeTypeOK, HeapOfPhase, FlagsOfPhase,
             RefsOfPhase, StaysLoaded
<1> QED
  BY <1>1, <1>2, <1>3, <1>4, <1>5 DEF LifeNext, Start

\* The phases, the heap, the flags and the references agree at all times.
THEOREM LifeInvariant == LifeSpec => []LifeInv
  BY LifeInitInv, LifeNextInv, PTL DEF LifeSpec

\* FsdFilter.cpp and Kauth.cpp: a thread that enters the driver, through the
\* listener or through a hooked slot, meets the layout and the whole table.
THEOREM UseWithinLife == LifeSpec => []TableOutlivesUse
<1>1. LifeInv => TableOutlivesUse
  BY DEF LifeInv, LifeTypeOK, HeapOfPhase, FlagsOfPhase, TableOutlivesUse
<1> QED
  BY <1>1, LifeInvariant, PTL

\* FsdFilter.cpp, free: whatever step of start has failed, nothing is left
\* allocated, registered or hooked when the driver is freed.
THEOREM NothingLeft == LifeSpec => []FreedForGood
<1>1. LifeInv => FreedForGood
  BY DEF LifeInv, LifeTypeOK, HeapOfPhase, FlagsOfPhase, FreedForGood
<1> QED
  BY <1>1, LifeInvariant, PTL

\* FsdFilter.cpp, "make the driver non-unloadable": a driver that has been
\* started is not freed, whatever references IOKit gives back.
THEOREM NotUnloaded == LifeSpec => []StaysLoaded
<1>1. LifeInv => StaysLoaded
  BY DEF LifeInv, FlagsOfPhase
<1> QED
  BY <1>1, LifeInvariant, PTL

\* VNodeHook.cpp and Kauth.cpp while the driver runs: a driver on which only
\* the listener and the hooks work is one in the middle of its life, so that
\* what holds of the life cycle holds of it.
THEOREM UseIsLife == UseSpec => [](LifeInv /\ TableOutlivesUse)
<1>1. Started => LifeInv
  <2> SUFFICES ASSUME Started PROVE LifeInv
    OBVIOUS
  <2>1. LifeTypeOK
    <3>1. refs \in Nat /\ owed \in 0 .. KernelRefs
      BY DEF Started
    <3>2. call \in [Threads -> {"out", "callback", "hooking", "hook"}]
      BY DEF Started
    <3> QED
      BY <3>1, <3>2, Zenon DEF Started, LifeTypeOK, Phases
  <2>2. HeapOfPhase
    BY DEF Started, HeapOfPhase
  <2>3. FlagsOfPhase
    BY DEF Started, FlagsOfPhase, StaysLoaded
  <2>4. RefsOfPhase
    BY DEF Started, RefsOfPhase
  <2> QED
    BY <2>1, <2>2, <2>3, <2>4 DEF LifeInv
<1>2. (\E t \in Threads : Use(t)) => LifeNext
  BY DEF LifeNext, Kernel
<1>3. LifeInv /\ [\E t \in Threads : Use(t)]_lifeVars => LifeInv'
  BY <1>2, LifeNextInv
<1>4. LifeInv => TableOutlivesUse
  BY DEF LifeInv, LifeTypeOK, HeapOfPhase, FlagsOfPhase, TableOutlivesUse
<1> QED
  BY <1>1, <1>3, <1>4, PTL DEF UseSpec
=============================================================================
