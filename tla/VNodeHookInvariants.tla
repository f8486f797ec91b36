------------------------ MODULE VNodeHookInvariants ------------------------
(***************************************************************************)
(* The inductive invariant of VNodeHook, in named parts.  RefsExact and    *)
(* TypeOK are parts of it; SlotsMatchTable, ForwardsToOriginal and         *)
(* CounterInRange follow.                                                  *)
(***************************************************************************)
EXTENDS VNodeHook

SharedLabels ==
    {"hookRetrieve", "getRetrieve", "getRetry", "unhookRetrieve"}
ExclusiveLabels ==
    {"hookRecheck", "hookLoop", "hookUnlock",
     "unhookRemove", "unhookLoop", "unhookUnlock"}

\* The lock is held exactly inside the locked sections, and excludes writers
\* from readers and from each other.
LockOK ==
    /\ \A t \in Threads : writer = t <=> pc[t] \in ExclusiveLabels
    /\ \A t \in Threads : t \in readers <=> pc[t] \in SharedLabels
    /\ writer # NoThread => readers = {}

\* An entry belongs to one vector, and until its slots are written to the
\* thread that allocated it.
OwnersOK ==
    /\ \A w, x \in Vops : hash[w] # NoEntry /\ hash[w] = hash[x] => w = x
    /\ \A t, u \in Threads : new[t] # NoEntry /\ new[t] = new[u] => t = u
    /\ \A t \in Threads : pc[t] \in {"hookExcl", "hookRecheck"} =>
          \A w \in Vops : hash[w] # new[t]
    /\ \A t, u \in Threads :
          pc[t] \in {"hookExcl", "hookRecheck", "hookLoop"} => ent[u] # new[t]

\* What slot k of vector w holds when it is hooked, with its original in entry
\* e, and when it is not.
Hooked(w, o, e) == slot[w][o] = Hook(o) /\ origVop[e][o] = Original(w, o)
Plain(w, o)     == slot[w][o] = Original(w, o)

\* Vector w in the loop of FltHookVnodeVop: hooked up to idx[t].
Hooking(t) ==
    /\ hash[Vop(t)] = new[t]
    /\ \A k \in 1..Len(HookOps) :
          IF k < idx[t] /\ HookOps[k] \in KnownOps
          THEN Hooked(Vop(t), HookOps[k], new[t])
          ELSE Plain(Vop(t), HookOps[k])

\* Vector w in the loop of FltUnHookVnodeVop: plain up to idx[t], and the
\* removed entry still has all the originals.
Unhooking(t) ==
    /\ hash[Vop(t)] = NoEntry
    /\ \A k \in 1..Len(HookOps) :
          IF k >= idx[t] /\ HookOps[k] \in KnownOps
          THEN Hooked(Vop(t), HookOps[k], ent[t])
          ELSE Plain(Vop(t), HookOps[k])

SlotsOK ==
    /\ SlotsMatchTable
    /\ \A t \in Threads : pc[t] = "hookLoop" => Hooking(t)
    /\ \A t \in Threads : pc[t] = "unhookLoop" => Unhooking(t)

\* A hook runs for an operation that can be hooked, an entry it has retrieved
\* keeps its original, and once found the original stays the right one until
\* the call returns.
CallsOK ==
    \A t \in Threads :
        /\ pc[t] \in GetLabels => op[t] \in KnownOps
        /\ pc[t] = "getEntry" =>
              origVop[ent[t]][op[t]] = Original(Vop(t), op[t])
        /\ pc[t] \in UnhookLabels \cup {"callOriginal"} =>
              fn[t] = Original(VopOf[vn[t]], op[t])
        /\ pc[t] \in HookLabels \cup GetLabels \cup {"idle"} => fn[t] = Null

\* The two vnodes that a callback counts and a reclaim uncounts.
Pair == {"vnode", "parent"}
BeforeCount ==
    {"hook", "hookShared", "hookRetrieve", "hookAlloc", "hookExcl", "hookRecheck"}
BeforeUncount == {"unhook", "unhookShared", "unhookRetrieve", "unhookDec"}

\* The callback of thread t may still count k.
MayCount(t, k) ==
    /\ pc[t] \in HookLabels
    /\ IF k = "vnode" THEN cur[t] = vn[t] /\ pc[t] \in BeforeCount
                       ELSE cur[t] = vn[t] \/ pc[t] \in BeforeCount

\* The reclaim of thread t may have uncounted k: it is past that.
PastUncount(t, k) ==
    /\ op[t] = "reclaim"
    /\ \/ pc[t] = "callOriginal"
       \/ /\ pc[t] \in UnhookLabels
          /\ IF k = "vnode" THEN cur[t] # vn[t] \/ pc[t] \notin BeforeUncount
                             ELSE cur[t] # vn[t] /\ pc[t] \notin BeforeUncount

\* What may still be counted, and what may have been uncounted.
ToCount == {x \in Threads \X Pair : MayCount(x[1], x[2])}
Uncounted ==
    {x \in Gone \X Pair :
        \/ vstate[x[1]] = "dead"
        \/ \E t \in Threads : vn[t] = x[1] /\ PastUncount(t, x[2])}

\* A vnode is reclaimed once, by one thread.
ReclaimedOnce ==
    /\ \A t \in Threads : op[t] = "reclaim" => vstate[vn[t]] = "terminating"
    /\ \A t, u \in Threads :
          op[t] = "reclaim" /\ op[u] = "reclaim" /\ vn[t] = vn[u] => t = u

\* A counter and what is still to be added to one come to two per callback, and
\* what was taken from it is accounted for.
CountOK ==
    /\ ReclaimedOnce
    /\ IsFiniteSet(Gone)
    /\ Cardinality(ToCount) <= 2 * auths
    /\ \A e \in Entries :
          /\ vNodeCounter[e] + Cardinality(ToCount) <= 2 * auths
          /\ vNodeCounter[e] >= -Cardinality(Uncounted)

Inv == TypeOK /\ LockOK /\ RefsExact /\ OwnersOK /\ SlotsOK /\ CallsOK /\ CountOK
============================================================================
