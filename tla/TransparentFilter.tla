------------------------- MODULE TransparentFilter -------------------------
(***************************************************************************)
(* What the hooks promise to the kernel and to the file systems: a filter  *)
(* that may be attached to an operation vector and detached again at any   *)
(* time, and that no call can notice.  A call for operation o of vector w  *)
(* is forwarded once, to the function the file system registered for       *)
(* <<w, o>>, and returns; a reclaim may detach vectors, but only once it   *)
(* knows where to forward to, since the way to find out goes with them.    *)
(***************************************************************************)
CONSTANTS Threads, Vops, Ops

None == <<>>

VARIABLES
    attached,  \* the vectors the filter is attached to
    request,   \* request[t]: the function thread t's call is for, or None
    target     \* target[t]: the function the call is forwarded to, or None

vars == <<attached, request, target>>

Init ==
    /\ attached = {}
    /\ request = [t \in Threads |-> None]
    /\ target = [t \in Threads |-> None]

\* A thread that is in no call attaches the filter to one more vector.
Attach(t, w) ==
    /\ request[t] = None
    /\ w \notin attached
    /\ attached' = attached \cup {w}
    /\ UNCHANGED <<request, target>>

Detach(t, w) ==
    /\ target[t] # None
    /\ request[t][2] = "reclaim"
    /\ w \in attached
    /\ attached' = attached \ {w}
    /\ UNCHANGED <<request, target>>

\* The kernel calls an operation: the filter gets the call, or the file
\* system gets it at once.
Invoke(t, w, o) ==
    /\ request[t] = None
    /\ request' = [request EXCEPT ![t] = <<w, o>>]
    /\ \/ target' = [target EXCEPT ![t] = <<w, o>>]
       \/ UNCHANGED target
    /\ UNCHANGED attached

Resolve(t) ==
    /\ request[t] # None /\ target[t] = None
    /\ target' = [target EXCEPT ![t] = request[t]]
    /\ UNCHANGED <<attached, request>>

Return(t) ==
    /\ target[t] # None
    /\ request' = [request EXCEPT ![t] = None]
    /\ target' = [target EXCEPT ![t] = None]
    /\ UNCHANGED attached

Next ==
    \E t \in Threads :
        \/ \E w \in Vops : Attach(t, w) \/ Detach(t, w)
        \/ \E w \in Vops, o \in Ops : Invoke(t, w, o)
        \/ Resolve(t) \/ Return(t)

\* Calls end; nobody has to attach, to detach or to call.
Fairness == \A t \in Threads : WF_vars(Resolve(t)) /\ WF_vars(Return(t))

Spec == Init /\ [][Next]_vars /\ Fairness
============================================================================
