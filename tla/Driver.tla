------------------------------- MODULE Driver -------------------------------
(***************************************************************************)
(* The driver from its start on: Lifecycle, whose first step is the search *)
(* of VnodeLayout, which runs in the thread of start.                      *)
(***************************************************************************)
EXTENDS VnodeLayout, Lifecycle

allVars == <<vars, lifeVars>>

DriverInit == Init /\ LifeInit

\* start is in FltGetVnodeLayout.
Searching == phase = "layout" /\ Next /\ UNCHANGED lifeVars

\* It returns.
Searched ==
    /\ Ended
    /\ GetVnodeLayout(rc)
    /\ UNCHANGED vars

Starting == StartOn /\ UNCHANGED vars
Others == (Free \/ Kernel) /\ UNCHANGED vars

\* The thread of start is scheduled; what the kernel does is up to it.
DriverNext == Searching \/ Searched \/ Starting \/ Others
DriverSpec ==
    /\ DriverInit /\ [][DriverNext]_allVars
    /\ WF_allVars(Searching \/ Searched \/ Starting)

-----------------------------------------------------------------------------
(* Properties.                                                             *)

DriverTypeOK == TypeOK /\ LifeTypeOK

\* Slots of a vector are overwritten only where the functions of a vector
\* are: the hook functions trust the offsets that the search has found in a
\* kernel whose structures it did not know.  Pointers near v_op that lead to
\* a part of the vector leave offsets behind.  Only a second pointer from
\* which all functions are seen misleads the search.
HooksFindTheSlots ==
    hooked # {} \/ (\E t \in Threads : call[t] = "hooking") => LayoutRight

\* start returns: each loop of the search is bounded, whatever is in memory.
StartEnds == <>(phase \notin StartPhases)
=============================================================================
