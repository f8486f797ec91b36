---------------------------- MODULE DriverProofs ----------------------------
(***************************************************************************)
(* The driver, seen without the state of the search, is Lifecycle; seen    *)
(* without the life cycle, it is the search.  What was proved of each      *)
(* holds of the two together.                                              *)
(***************************************************************************)
EXTENDS Driver, LifecycleProofs, VnodeLayoutProofs

\* The result of the search is a Boolean, whatever the kernel.
LEMMA ResultType == DriverSpec => [](rc \in BOOLEAN)
<1>1. DriverInit => rc \in BOOLEAN
  BY DEF DriverInit, Init
<1>2. rc \in BOOLEAN /\ [DriverNext]_allVars => (rc \in BOOLEAN)'
  <2> SUFFICES ASSUME rc \in BOOLEAN, [DriverNext]_allVars PROVE rc' \in BOOLEAN
    OBVIOUS
  <2>1. CASE Next
    BY <2>1, Zenon DEF Next, FltRegisterFakeFsd, FltFakeFsdCreateVnode, Forward, ForwardEnd,
       Backward, BackwardEnd, ScanSlot, ScanEnd, NextMount, NoMount, MountWord,
       MountEnd, VfsSlot, VfsEnd, Clean1, Clean2, Clean, FltUnRegisterFakeFsd, Fail
  <2>2. CASE UNCHANGED vars
    BY <2>2 DEF vars
  <2> QED
    BY <2>1, <2>2 DEF DriverNext, Searching, Searched, Starting, Others, allVars
<1> QED
  BY <1>1, <1>2, PTL DEF DriverSpec

\* FsdFilter.cpp: start, stop and free around the search are the life cycle.
THEOREM DriverImplementsLifecycle == DriverSpec => LifeSpec
<1>1. DriverInit => LifeInit
  BY DEF DriverInit
<1>2. rc \in BOOLEAN /\ [DriverNext]_allVars => [LifeNext]_lifeVars
  BY Zenon DEF DriverNext, Searching, Searched, Starting, Others, allVars, lifeVars,
     LifeNext, Start
<1> QED
  BY <1>1, <1>2, ResultType, PTL DEF DriverSpec, LifeSpec

\* FltFakeFSD.cpp: the search runs in start, once, and nothing else touches
\* its state.
THEOREM DriverImplementsSearch == DriverSpec => Spec
<1>1. DriverInit => Init
  BY DEF DriverInit
<1>2. [DriverNext]_allVars => [Next]_vars
  BY Zenon DEF DriverNext, Searching, Searched, Starting, Others, allVars
<1> QED
  BY <1>1, <1>2, PTL DEF DriverSpec, Spec

\* FsdFilter.cpp with the search it starts with: in any kernel, nothing leads
\* into the driver when its table is not there, or is left when it is gone.
THEOREM DriverLife ==
    DriverSpec => [](TableOutlivesUse /\ FreedForGood /\ StaysLoaded)
  BY DriverImplementsLifecycle, UseWithinLife, NothingLeft, NotUnloaded, PTL

\* FltFakeFSD.cpp as start runs it: only what is mapped is read, and the fake
\* file system does not outlive the search.
THEOREM DriverSearch == DriverSpec => [](ReadsMapped /\ FakeFsdGone)
  BY DriverImplementsSearch, OnlyMappedIsRead, NothingFakeLeft, PTL

\* FltFakeFSD.cpp as start runs it: no memory keeps start in the search.
THEOREM DriverAdvances == DriverSpec => SearchAdvances
  BY DriverImplementsSearch, SearchIsBounded, PTL

\* FsdFilter.cpp and FltFakeFSD.cpp: in every state of a driver that searches,
\* starts, hooks and stops, the state of both parts is well-formed.
THEOREM DriverTypes == DriverSpec => []DriverTypeOK
<1>1. LifeInv => LifeTypeOK
  BY DEF LifeInv
<1>2. TypeOK /\ LifeTypeOK => DriverTypeOK
  BY DEF DriverTypeOK
<1> QED
  BY <1>1, <1>2, DriverImplementsSearch, DriverImplementsLifecycle, SearchTypes,
     LifeInvariant, PTL

\* The layout is known once the search has succeeded.
KnownWhenFound == (phase = "layout" => ~layout) /\ (layout => Ended /\ rc)

LEMMA LayoutKnown == DriverSpec => []KnownWhenFound
<1>1. DriverInit => KnownWhenFound
  BY DEF DriverInit, LifeInit, KnownWhenFound
<1>2. KnownWhenFound /\ [DriverNext]_allVars => KnownWhenFound'
  <2> SUFFICES ASSUME KnownWhenFound, [DriverNext]_allVars PROVE KnownWhenFound'
    OBVIOUS
  <2> USE DEF KnownWhenFound
  <2>1. CASE Searching
    BY <2>1 DEF Searching, lifeVars, driverVars
  <2>2. CASE Searched
    <3>1. layout' = rc /\ phase' # "layout" /\ pc' = pc /\ rc' = rc /\ Ended
      BY <2>2, Zenon DEF Searched, GetVnodeLayout, FailStart, Released, vars
    <3> QED
      BY <3>1 DEF Ended
  <2>3. CASE UNCHANGED vars /\ layout' = layout /\ (phase' = "layout" => phase = "layout")
    BY <2>3 DEF vars, Ended
  <2>4. CASE Starting
    <3>1. layout' = layout /\ phase' # "layout"
      BY <2>4 DEF Starting, StartOn, CreateTable, CreateGate, Register, SetGate, Retain,
         FailStart, Released
    <3> QED
      BY <2>3, <2>4, <3>1 DEF Starting
  <2>5. CASE Others
    <3>1. layout' = layout /\ (phase' = "layout" => phase = "layout")
      BY <2>5 DEF Others, Free, FreeGate, FreeTable, Kernel, Stop, KernelRelease, Released,
         Use, Authorize, Check, HookVop, Defer, EnterHook, UnHookVop, LeaveHook, driverVars
    <3> QED
      BY <2>3, <2>5, <3>1 DEF Others
  <2>6. CASE UNCHANGED allVars
    BY <2>3, <2>6 DEF allVars, lifeVars, driverVars
  <2> QED
    BY <2>1, <2>2, <2>4, <2>5, <2>6 DEF DriverNext
<1> QED
  BY <1>1, <1>2, PTL DEF DriverSpec

\* FsdFilter.cpp, FltFakeFSD.cpp and VNodeHook.cpp together: whenever a vector
\* is hooked, or about to be, the offsets are those of the kernel that was
\* searched, if there v_op and the vfsops are marked at all.
THEOREM HooksFind == DriverSpec => []HooksFindTheSlots
<1>1. KnownWhenFound /\ TableOutlivesUse /\ (Ended /\ rc => LayoutRight) => HooksFindTheSlots
  <2> SUFFICES ASSUME KnownWhenFound, TableOutlivesUse, Ended /\ rc => LayoutRight,
                      hooked # {} \/ \E t \in Threads : call[t] = "hooking"
               PROVE  LayoutRight
    BY DEF HooksFindTheSlots
  <2>1. layout
    BY DEF TableOutlivesUse
  <2> QED
    BY <2>1 DEF KnownWhenFound
<1> QED
  BY <1>1, LayoutKnown, DriverImplementsSearch, LayoutFound, DriverLife, PTL
=============================================================================
