----------------------------- MODULE VNodeHook -----------------------------
(***************************************************************************)
(* The vnode operation hooks of the filter (VNodeHook.cpp, VNodeHook.h,    *)
(* VFSHooks.cpp, Kauth.cpp).                                               *)
(*                                                                         *)
(* All vnodes of one file system share an operation vector (a "v_op").     *)
(* The filter replaces some slots of the vector by its own functions and   *)
(* keeps the functions it replaced in an entry of a hash table keyed by    *)
(* the vector.  Three kinds of calls run concurrently in kernel threads:   *)
(*   - a kauth callback hooks the vector of a vnode and of its parent;     *)
(*   - a VFS call jumps through a slot, and a hook function looks up the   *)
(*     function to forward to;                                             *)
(*   - a reclaim does the same, and between the look-up and the forwarding *)
(*     it unhooks the vector of the vnode and of its parent.               *)
(* A thread's position is pc[t]; a step is a section between two lock      *)
(* operations or one atomic operation on a shared counter.                 *)
(***************************************************************************)
EXTENDS Integers, Sequences, FiniteSets

CONSTANTS
    Threads,    \* kernel threads
    Vnodes,     \* vnodes, each one incarnation: created, used, reclaimed
    Vops,       \* operation vectors
    Entries,    \* heap cells for FltVnodeHookEntry objects
    VopOf,      \* VopOf[v]: the vector of vnode v
    Parent,     \* Parent[v]: v_parent of v, or NoVnode for a root
    DiskVnodes, \* the vnodes whose type is VREG or VDIR
    HookOps,    \* gFltVnodeVopHookEntries: the operations, in hooking order
    KnownOps,   \* the operations gFltVnodeOpvOffsetDesc has an offset for
    NoThread, NoVnode, NoEntry, Filter, \* sentinels; Filter owns hook code
    MaxAuth     \* bound: kauth callbacks in one behaviour

Ops == { HookOps[k] : k \in DOMAIN HookOps }

ASSUME NamesAssumption ==
    /\ NoThread \notin Threads
    /\ NoVnode \notin Vnodes
    /\ NoEntry \notin Entries
    /\ Filter \notin Vops

ASSUME FileSystemAssumption ==
    /\ VopOf \in [Vnodes -> Vops]
    /\ Parent \in [Vnodes -> Vnodes \cup {NoVnode}]
    /\ \A v \in Vnodes : Parent[v] # v
    /\ DiskVnodes \subseteq Vnodes

ASSUME HookOpsAssumption ==
    /\ HookOps \in Seq(STRING)
    /\ \A j, k \in DOMAIN HookOps : HookOps[j] = HookOps[k] => j = k
    /\ "reclaim" \in Ops /\ "none" \notin Ops
    /\ KnownOps \subseteq Ops

ASSUME MaxAuthAssumption == MaxAuth \in Nat

ASSUME FiniteAssumption == IsFiniteSet(Threads) /\ IsFiniteSet(Vops)

\* Functions a slot can point to: the file system's own, or a hook.
Original(w, o) == <<w, o>>
Hook(o)        == <<Filter, o>>
Null           == <<>>
Functions == ((Vops \cup {Filter}) \X Ops) \cup {Null}

VARIABLES
    slot,         \* slot[w][o]: what operation o of vector w points to
    hash,         \* hash[w]: the entry stored under w, or NoEntry
    refs,         \* refs[e]: OSObject reference count, 0 when the cell is free
    vNodeCounter, \* vNodeCounter[e]
    origVop,      \* origVop[e][o]: the saved function
    readers,      \* RWLock: threads holding it shared
    writer,       \* RWLock: the thread holding it exclusive, or NoThread
    vstate,       \* vstate[v]: "live", "terminating" (VL_TERMINATE) or "dead"
    auths,        \* kauth callbacks so far
    pc,           \* pc[t]: where thread t is
    vn,           \* vn[t]: the vnode of the outer call
    cur,          \* cur[t]: vn[t] or its parent, while that one is processed
    op,           \* op[t]: the operation called through a slot
    fn,           \* fn[t]: the function a hook has found to forward to
    ent,          \* ent[t]: existingEntry, a referenced entry
    new,          \* new[t]: newEntry
    idx           \* idx[t]: the index i of the loop over the hooks

tableVars == <<slot, hash>>
entryVars == <<refs, vNodeCounter, origVop>>
lockVars  == <<readers, writer>>
vnodeVars == <<vstate, auths>>
callVars  == <<vn, cur, op, fn>>
ptrVars   == <<ent, new, idx>>
vars == <<tableVars, entryVars, lockVars, vnodeVars, pc, callVars, ptrVars>>

NoOp == "none"  \* op[t] outside a VFS call

\* The positions of a thread, by the function it is in.
HookLabels ==
    {"hook", "hookShared", "hookRetrieve", "hookFound", "hookAlloc", "hookExcl",
     "hookRecheck", "hookLoop", "hookUnlock", "hookRelease", "hookParent"}
GetLabels ==
    {"getShared", "getRetrieve", "getShared2", "getRetry", "getEntry"}
UnhookLabels ==
    {"unhook", "unhookShared", "unhookRetrieve", "unhookDec", "unhookExcl",
     "unhookRemove", "unhookLoop", "unhookUnlock", "unhookRelease",
     "unhookParent"}
Labels == {"idle", "callOriginal"} \cup HookLabels \cup GetLabels
            \cup UnhookLabels

Init ==
    /\ slot = [w \in Vops |-> [o \in Ops |-> Original(w, o)]]
    /\ hash = [w \in Vops |-> NoEntry]
    /\ refs = [e \in Entries |-> 0]
    /\ vNodeCounter = [e \in Entries |-> 0]
    /\ origVop = [e \in Entries |-> [o \in Ops |-> Null]]
    /\ readers = {} /\ writer = NoThread
    /\ vstate = [v \in Vnodes |-> "live"]
    /\ auths = 0
    /\ pc  = [t \in Threads |-> "idle"]
    /\ vn  = [t \in Threads |-> NoVnode]
    /\ cur = [t \in Threads |-> NoVnode]
    /\ op  = [t \in Threads |-> NoOp]
    /\ fn  = [t \in Threads |-> Null]
    /\ ent = [t \in Threads |-> NoEntry]
    /\ new = [t \in Threads |-> NoEntry]
    /\ idx = [t \in Threads |-> 0]

-----------------------------------------------------------------------------
(* Small steps shared by the operations.                                   *)

Vop(t) == VopOf[cur[t]]  \* FltGetVnodeOpVector of the vnode being processed

At(t, here) == pc[t] = here
Goto(t, there) == pc' = [pc EXCEPT ![t] = there]

\* OSObject::retain and release of one entry; the last release frees it.
Retain(e)  == refs' = [refs EXCEPT ![e] = @ + 1]
Release(e) == refs' = [refs EXCEPT ![e] = @ - 1]

\* RetrieveEntry( v_op, true ) has found e: a reference for existingEntry.
Take(t, e) == ent' = [ent EXCEPT ![t] = e] /\ Retain(e)

\* Mutant: existingEntry still points to the entry it no longer owns.
DropDangling(t) == Release(ent[t]) /\ UNCHANGED ent

\* Release existingEntry.
Drop(t) == Release(ent[t]) /\ ent' = [ent EXCEPT ![t] = NoEntry]

Count(e, n) == vNodeCounter' = [vNodeCounter EXCEPT ![e] = @ + n]

\* Mutant: the table does not own a reference to its entry.
AddUnreferenced(w, e) == hash' = [hash EXCEPT ![w] = e] /\ UNCHANGED refs

\* Mutant: FltHookVnodeVop does not see that AddEntry had no memory.
AddUnchecked(w, e) == UNCHANGED <<hash, refs>>

AddEntry(w, e) == hash' = [hash EXCEPT ![w] = e] /\ Retain(e)

SetOriginalVop(e, o, f) == origVop' = [origVop EXCEPT ![e][o] = f]

\* Mutant: the second look-up of FltGetOriginalVnodeOp is not locked.
ReadableOnce(t) == writer = NoThread \/ At(t, "getShared2")

Readable(t) == writer = NoThread

\* Mutant: the exclusive lock does not wait for the readers.
WritableAmongReaders == writer = NoThread

Writable == writer = NoThread /\ readers = {}

\* LockShared, LockExclusive and UnLockExclusive, wherever they are called.
LockShared(t) ==
    /\ \/ At(t, "hookShared") /\ Goto(t, "hookRetrieve")
       \/ At(t, "getShared") /\ Goto(t, "getRetrieve")
       \/ At(t, "getShared2") /\ Goto(t, "getRetry")
       \/ At(t, "unhookShared") /\ Goto(t, "unhookRetrieve")
    /\ Readable(t)
    /\ readers' = readers \cup {t}
    /\ UNCHANGED <<tableVars, entryVars, writer, vnodeVars, callVars, ptrVars>>

\* UnLockShared ends the step that looked the table up.
UnLockShared(t) == readers' = readers \ {t} /\ UNCHANGED writer

LockExclusive(t) ==
    /\ \/ At(t, "hookExcl") /\ Goto(t, "hookRecheck")
       \/ At(t, "unhookExcl") /\ Goto(t, "unhookRemove")
    /\ Writable
    /\ writer' = t
    /\ UNCHANGED <<tableVars, entryVars, readers, vnodeVars, callVars, ptrVars>>

UnLockExclusive(t) ==
    /\ \/ At(t, "hookUnlock") /\ Goto(t, "hookRelease")
       \/ At(t, "unhookUnlock") /\ Goto(t, "unhookRelease")
    /\ writer' = NoThread
    /\ UNCHANGED <<tableVars, entryVars, readers, vnodeVars, callVars, ptrVars>>

\* The end of the loops over gFltVnodeVopHookEntries.
LoopEnd(t) ==
    /\ \/ At(t, "hookLoop") /\ Goto(t, "hookUnlock")
       \/ At(t, "unhookLoop") /\ Goto(t, "unhookUnlock")
    /\ idx[t] > Len(HookOps)
    /\ idx' = [idx EXCEPT ![t] = 0]
    /\ UNCHANGED <<tableVars, entryVars, lockVars, vnodeVars, callVars, ent, new>>

\* Mutant: the parents are followed up to the root, by way of the vnode itself.
HasParentAgain(t) ==
    /\ Parent[vn[t]] # NoVnode
    /\ vstate[Parent[vn[t]]] = "live"

\* vnode_getparent in the two functions for a vnode and its parent: there is
\* a parent to go on with, after the vnode itself.
HasParent(t) ==
    /\ cur[t] = vn[t]
    /\ Parent[vn[t]] # NoVnode
    /\ vstate[Parent[vn[t]]] = "live"

\* No thread is inside a call that holds an iocount on v.
Drained(v) == \A t \in Threads : v \notin {vn[t], cur[t]}

Enter(t, v, o) ==
    /\ vn' = [vn EXCEPT ![t] = v]
    /\ cur' = [cur EXCEPT ![t] = v]
    /\ op' = [op EXCEPT ![t] = o]

Return(t) == Enter(t, NoVnode, NoOp) /\ Goto(t, "idle")

-----------------------------------------------------------------------------
(* Hooking: VnodeAuthorizeCallback, FltHookVnodeVopAndParent and           *)
(* FltHookVnodeVop.                                                        *)

\* The kernel authorises an access to v, which holds an iocount on v.  For a
\* recycled vnode, or one that is not of a disk type, the callback does nothing.
KauthCallback(t, v) ==
    /\ At(t, "idle")
    /\ vstate[v] = "live" /\ v \in DiskVnodes
    /\ auths < MaxAuth
    /\ auths' = auths + 1
    /\ Enter(t, v, NoOp)
    /\ Goto(t, "hook")
    /\ UNCHANGED <<tableVars, entryVars, lockVars, vstate, fn, ptrVars>>

\* A recycled vnode, or one that is not a file or a directory, is not hooked.
HookCheck(t) ==
    /\ At(t, "hook")
    /\ Goto(t, IF vstate[cur[t]] = "live" /\ cur[t] \in DiskVnodes
               THEN "hookShared" ELSE "hookParent")
    /\ UNCHANGED <<tableVars, entryVars, lockVars, vnodeVars, callVars, ptrVars>>

\* Under the shared lock: count the vnode on the entry of a hooked vector.
HookRetrieve(t) ==
    LET e == hash[Vop(t)] IN
    /\ At(t, "hookRetrieve")
    /\ UnLockShared(t)
    /\ \/ /\ e = NoEntry
          /\ Goto(t, "hookAlloc")
          /\ UNCHANGED <<refs, vNodeCounter, ent>>
       \/ /\ e # NoEntry
          /\ Take(t, e) /\ Count(e, 1)
          /\ Goto(t, "hookFound")
    /\ UNCHANGED <<tableVars, origVop, vnodeVars, callVars, new, idx>>

\* After the unlock: the vector was hooked already.
HookFound(t) ==
    /\ At(t, "hookFound")
    /\ Drop(t)
    /\ Goto(t, "hookParent")
    /\ UNCHANGED <<tableVars, vNodeCounter, origVop, lockVars, vnodeVars,
                   callVars, new, idx>>

\* newEntry() and init(); it may fail for lack of memory.
HookAlloc(t) ==
    /\ At(t, "hookAlloc")
    /\ \/ \E e \in Entries :
            /\ refs[e] = 0
            /\ refs' = [refs EXCEPT ![e] = 1]
            /\ vNodeCounter' = [vNodeCounter EXCEPT ![e] = 0]
            /\ origVop' = [origVop EXCEPT ![e] = [o \in Ops |-> Null]]
            /\ new' = [new EXCEPT ![t] = e]
            /\ Goto(t, "hookExcl")
       \/ Goto(t, "hookParent") /\ UNCHANGED <<entryVars, new>>
    /\ UNCHANGED <<tableVars, lockVars, vnodeVars, callVars, ent, idx>>

\* Mutant: the table is not looked up again once the lock is exclusive.
RecheckSkipped(t) == NoEntry

\* What the table holds when the lock has been reacquired exclusively.
Recheck(t) == hash[Vop(t)]

\* Mutant: the exit of a vector found hooked skips the unlock.
LeakLock(t) == Goto(t, "hookRelease")

ExitWithLock(t) == Goto(t, "hookUnlock")

\* With the lock held exclusively: another thread may have hooked the vector
\* meanwhile; otherwise AddEntry stores the entry, or fails for lack of memory.
HookRecheck(t) ==
    LET e == Recheck(t)  n == new[t] IN
    /\ At(t, "hookRecheck")
    /\ \/ /\ e # NoEntry
          /\ Count(e, 1)
          /\ ExitWithLock(t)
          /\ UNCHANGED <<hash, refs, idx>>
       \/ /\ e = NoEntry
          /\ AddEntry(Vop(t), n) /\ Count(n, 1)
          /\ idx' = [idx EXCEPT ![t] = 1]
          /\ Goto(t, "hookLoop")
       \/ /\ e = NoEntry
          /\ ExitWithLock(t)
          /\ UNCHANGED <<hash, refs, vNodeCounter, idx>>
    /\ UNCHANGED <<slot, origVop, lockVars, vnodeVars, callVars, ent, new>>

\* Mutant: the array of hooks is walked from its end.
HookAtBackwards(k) == HookOps[Len(HookOps) + 1 - k]

HookAt(k) == HookOps[k]

\* Save the original function, then write the hook into the slot.  Operations
\* without an offset are skipped.  Callers read the slots without the lock.
HookSlot(t) ==
    LET w == Vop(t)  o == HookAt(idx[t]) IN
    /\ At(t, "hookLoop")
    /\ idx[t] <= Len(HookOps)
    /\ \/ /\ o \in KnownOps
          /\ SetOriginalVop(new[t], o, slot[w][o])
          /\ slot' = [slot EXCEPT ![w][o] = Hook(o)]
       \/ o \notin KnownOps /\ UNCHANGED <<origVop, slot>>
    /\ idx' = [idx EXCEPT ![t] = @ + 1]
    /\ UNCHANGED <<hash, refs, vNodeCounter, lockVars, vnodeVars, pc, callVars,
                   ent, new>>

\* The new entry was referenced by AddEntry or not added at all.
HookRelease(t) ==
    /\ At(t, "hookRelease")
    /\ Release(new[t])
    /\ new' = [new EXCEPT ![t] = NoEntry]
    /\ Goto(t, "hookParent")
    /\ UNCHANGED <<tableVars, vNodeCounter, origVop, lockVars, vnodeVars,
                   callVars, ent, idx>>

\* FltHookVnodeVopAndParent: hook the parent too, whatever came of the vnode.
HookParent(t) ==
    /\ At(t, "hookParent")
    /\ \/ /\ HasParent(t)
          /\ cur' = [cur EXCEPT ![t] = Parent[vn[t]]]
          /\ Goto(t, "hook")
          /\ UNCHANGED <<vn, op>>
       \/ ~HasParent(t) /\ Return(t)
    /\ UNCHANGED <<tableVars, entryVars, lockVars, vnodeVars, fn, ptrVars>>

-----------------------------------------------------------------------------
(* VFS calls: the kernel jumps through the slot of the vnode's vector; a   *)
(* hook function (VFSHooks.cpp) finds the original with                    *)
(* FltGetOriginalVnodeOp and forwards the call to it.                      *)

\* The slot is read without a lock: it may be written at the same time.
Jump(t, v, o) ==
    /\ Enter(t, v, o)
    /\ \/ /\ slot[VopOf[v]][o] = Hook(o)
          /\ Goto(t, "getShared")
          /\ UNCHANGED fn
       \/ /\ slot[VopOf[v]][o] # Hook(o)
          /\ fn' = [fn EXCEPT ![t] = slot[VopOf[v]][o]]
          /\ Goto(t, "callOriginal")
    /\ UNCHANGED <<tableVars, entryVars, lockVars, vnodeVars, ptrVars>>

VnopCall(t, v, o) ==
    /\ At(t, "idle")
    /\ vstate[v] = "live" /\ o # "reclaim"
    /\ Jump(t, v, o)

\* vnode_reclaim_internal: mark the vnode, drain its users, call VNOP_RECLAIM.
\* A forced unmount takes the vnodes of a volume in any order.
Terminate(v) ==
    /\ vstate[v] = "live"
    /\ vstate' = [vstate EXCEPT ![v] = "terminating"]
    /\ UNCHANGED <<tableVars, entryVars, lockVars, auths, pc, callVars, ptrVars>>

Reclaim(t, v) ==
    /\ At(t, "idle")
    /\ vstate[v] = "terminating" /\ Drained(v)
    /\ Jump(t, v, "reclaim")

\* Mutant: every hook unhooks the vector, not the reclaim hook alone.
AfterGetUnhook(t) == Goto(t, "unhook")

\* A hook has its original: a reclaim hook now unhooks, the others forward.
AfterGet(t) == Goto(t, IF op[t] = "reclaim" THEN "unhook" ELSE "callOriginal")

\* The first look-up: a hook usually finds the entry of its vector.
GetRetrieve(t) ==
    LET e == hash[Vop(t)] IN
    /\ At(t, "getRetrieve")
    /\ UnLockShared(t)
    /\ \/ e # NoEntry /\ Take(t, e) /\ Goto(t, "getEntry")
       \/ e = NoEntry /\ Goto(t, "getShared2") /\ UNCHANGED <<refs, ent>>
    /\ UNCHANGED <<tableVars, vNodeCounter, origVop, vnodeVars, callVars, new,
                   idx>>

\* The second look-up: the vector was unhooked while the hook was running; it
\* may be hooked again by now, and if not the slot holds the original.
GetRetry(t) ==
    LET e == hash[Vop(t)] IN
    /\ At(t, "getRetry")
    /\ UnLockShared(t)
    /\ \/ e # NoEntry /\ Take(t, e) /\ Goto(t, "getEntry") /\ UNCHANGED fn
       \/ /\ e = NoEntry
          /\ fn' = [fn EXCEPT ![t] = slot[Vop(t)][op[t]]]
          /\ AfterGet(t)
          /\ UNCHANGED <<refs, ent>>
    /\ UNCHANGED <<tableVars, vNodeCounter, origVop, vnodeVars, vn, cur, op, new,
                   idx>>

\* Read the saved function from the referenced entry, then release the entry.
GetEntry(t) ==
    /\ At(t, "getEntry")
    /\ fn' = [fn EXCEPT ![t] = origVop[ent[t]][op[t]]]
    /\ Drop(t)
    /\ AfterGet(t)
    /\ UNCHANGED <<tableVars, vNodeCounter, origVop, lockVars, vnodeVars, vn, cur,
                   op, new, idx>>

\* origVnop( ap ): the call returns, and a reclaimed vnode is dead after it.
CallOriginal(t) ==
    /\ At(t, "callOriginal")
    /\ vstate' = [vstate EXCEPT ![vn[t]] =
                     IF op[t] = "reclaim" THEN "dead" ELSE @]
    /\ fn' = [fn EXCEPT ![t] = Null]
    /\ Return(t)
    /\ UNCHANGED <<tableVars, entryVars, lockVars, auths, ptrVars>>

-----------------------------------------------------------------------------
(* Unhooking: FltUnHookVnodeVopAndParent and FltUnHookVnodeVop.            *)

UnhookCheck(t) ==
    /\ At(t, "unhook")
    /\ Goto(t, IF cur[t] \in DiskVnodes THEN "unhookShared" ELSE "unhookParent")
    /\ UNCHANGED <<tableVars, entryVars, lockVars, vnodeVars, callVars, ptrVars>>

UnhookRetrieve(t) ==
    LET e == hash[Vop(t)] IN
    /\ At(t, "unhookRetrieve")
    /\ UnLockShared(t)
    /\ \/ e # NoEntry /\ Take(t, e) /\ Goto(t, "unhookDec")
       \/ e = NoEntry /\ Goto(t, "unhookParent") /\ UNCHANGED <<refs, ent>>
    /\ UNCHANGED <<tableVars, vNodeCounter, origVop, vnodeVars, callVars, new,
                   idx>>

\* The fast check, outside the lock: only the decrement from 1 goes on.
UnhookDecrement(t) ==
    /\ At(t, "unhookDec")
    /\ Count(ent[t], -1)
    /\ Goto(t, IF vNodeCounter[ent[t]] = 1 THEN "unhookExcl" ELSE "unhookRelease")
    /\ UNCHANGED <<tableVars, refs, origVop, lockVars, vnodeVars, callVars,
                   ptrVars>>

\* With the lock held exclusively: a vnode may have been counted meanwhile.
\* Otherwise drop the reference and remove whatever the table has for the
\* vector; RemoveEntry hands the table's own reference over.
UnhookRemove(t) ==
    LET e == ent[t]  r == hash[Vop(t)] IN
    /\ At(t, "unhookRemove")
    /\ \/ /\ vNodeCounter[e] # 0
          /\ Goto(t, "unhookUnlock")
          /\ UNCHANGED <<hash, refs, ent, idx>>
       \/ /\ vNodeCounter[e] = 0
          /\ Release(e)
          /\ ent' = [ent EXCEPT ![t] = r]
          /\ hash' = [hash EXCEPT ![Vop(t)] = NoEntry]
          /\ \/ r = NoEntry /\ Goto(t, "unhookUnlock") /\ UNCHANGED idx
             \/ /\ r # NoEntry
                /\ idx' = [idx EXCEPT ![t] = 1]
                /\ Goto(t, "unhookLoop")
    /\ UNCHANGED <<slot, vNodeCounter, origVop, lockVars, vnodeVars, callVars,
                   new>>

\* Restore one slot from the removed entry.
UnhookSlot(t) ==
    LET w == Vop(t)  o == HookAt(idx[t]) IN
    /\ At(t, "unhookLoop")
    /\ idx[t] <= Len(HookOps)
    /\ \/ /\ o \in KnownOps
          /\ slot' = [slot EXCEPT ![w][o] = origVop[ent[t]][o]]
       \/ o \notin KnownOps /\ UNCHANGED slot
    /\ idx' = [idx EXCEPT ![t] = @ + 1]
    /\ UNCHANGED <<hash, entryVars, lockVars, vnodeVars, pc, callVars, ent, new>>

UnhookRelease(t) ==
    /\ At(t, "unhookRelease")
    /\ \/ ent[t] # NoEntry /\ Drop(t)
       \/ ent[t] = NoEntry /\ UNCHANGED <<refs, ent>>
    /\ Goto(t, "unhookParent")
    /\ UNCHANGED <<tableVars, vNodeCounter, origVop, lockVars, vnodeVars,
                   callVars, new, idx>>

\* FltUnHookVnodeVopAndParent: the parent is uncounted as well; then forward.
UnhookParent(t) ==
    /\ At(t, "unhookParent")
    /\ \/ /\ HasParent(t)
          /\ cur' = [cur EXCEPT ![t] = Parent[vn[t]]]
          /\ Goto(t, "unhook")
       \/ /\ ~HasParent(t)
          /\ cur' = [cur EXCEPT ![t] = vn[t]]
          /\ Goto(t, "callOriginal")
    /\ UNCHANGED <<tableVars, entryVars, lockVars, vnodeVars, vn, op, fn, ptrVars>>

-----------------------------------------------------------------------------
\* The steps of a call under way, and the calls the kernel starts.
LockStep(t) ==
    LockShared(t) \/ LockExclusive(t) \/ UnLockExclusive(t) \/ LoopEnd(t)
HookStep(t) ==
    \/ HookCheck(t) \/ HookRetrieve(t) \/ HookFound(t) \/ HookAlloc(t)
    \/ HookRecheck(t) \/ HookSlot(t) \/ HookRelease(t) \/ HookParent(t)
GetStep(t) == GetRetrieve(t) \/ GetRetry(t) \/ GetEntry(t) \/ CallOriginal(t)
UnhookStep(t) ==
    \/ UnhookCheck(t) \/ UnhookRetrieve(t) \/ UnhookDecrement(t)
    \/ UnhookRemove(t) \/ UnhookSlot(t) \/ UnhookRelease(t) \/ UnhookParent(t)

Step(t) == LockStep(t) \/ HookStep(t) \/ GetStep(t) \/ UnhookStep(t)

Start(t) ==
    \E v \in Vnodes :
        KauthCallback(t, v) \/ Reclaim(t, v) \/ \E o \in Ops : VnopCall(t, v, o)

\* All vnodes are gone: nothing is left to happen.
Finished ==
    /\ \A t \in Threads : pc[t] = "idle"
    /\ \A v \in Vnodes : vstate[v] = "dead"
    /\ UNCHANGED vars

Next ==
    \/ \E t \in Threads : Step(t) \/ Start(t)
    \/ \E v \in Vnodes : Terminate(v)
    \/ Finished

\* Threads are scheduled, and the lock is granted to a waiting writer again
\* and again (IORWLock holds new readers back while a writer waits).
Fairness == \A t \in Threads : WF_vars(Step(t)) /\ SF_vars(LockExclusive(t))

Spec == Init /\ [][Next]_vars
FairSpec == Spec /\ Fairness

-----------------------------------------------------------------------------
(* Properties.                                                             *)

\* What the local variables of a thread hold where: the code drops a pointer
\* as soon as it has released the reference behind it.
LocalsOK(t) ==
    /\ vn[t] = NoVnode <=> pc[t] = "idle"
    /\ cur[t] = NoVnode <=> pc[t] = "idle"
    /\ op[t] = NoOp <=> pc[t] \in HookLabels \cup {"idle"}
    /\ pc[t] \in UnhookLabels => op[t] = "reclaim"
    /\ pc[t] \in GetLabels \cup {"callOriginal"} => cur[t] = vn[t]
    /\ new[t] # NoEntry <=>
          pc[t] \in {"hookExcl", "hookRecheck", "hookLoop", "hookUnlock",
                    "hookRelease"}
    /\ pc[t] \in {"hookFound", "getEntry", "unhookDec", "unhookExcl",
                 "unhookRemove", "unhookLoop"} => ent[t] # NoEntry
    /\ ent[t] # NoEntry =>
          pc[t] \in {"hookFound", "getEntry", "unhookDec", "unhookExcl",
                    "unhookRemove", "unhookLoop", "unhookUnlock",
                    "unhookRelease"}
    /\ idx[t] # 0 <=> pc[t] \in {"hookLoop", "unhookLoop"}

\* The shared state.
SharedTyped ==
    /\ slot \in [Vops -> [Ops -> Functions]]
    /\ hash \in [Vops -> Entries \cup {NoEntry}]
    /\ refs \in [Entries -> Int]
    /\ vNodeCounter \in [Entries -> Int]
    /\ origVop \in [Entries -> [Ops -> Functions]]
    /\ readers \subseteq Threads
    /\ writer \in Threads \cup {NoThread}
    /\ vstate \in [Vnodes -> {"live", "terminating", "dead"}]
    /\ auths \in 0..MaxAuth

\* The local variables.
LocalsTyped ==
    /\ pc \in [Threads -> Labels]
    /\ vn \in [Threads -> Vnodes \cup {NoVnode}]
    /\ cur \in [Threads -> Vnodes \cup {NoVnode}]
    /\ op \in [Threads -> Ops \cup {NoOp}]
    /\ fn \in [Threads -> Functions]
    /\ ent \in [Threads -> Entries \cup {NoEntry}]
    /\ new \in [Threads -> Entries \cup {NoEntry}]
    /\ idx \in [Threads -> 0..Len(HookOps) + 1]

\* The type invariant.
TypeOK == SharedTyped /\ LocalsTyped /\ \A t \in Threads : LocalsOK(t)

\* Who owns a reference to entry e: the table, a thread that retrieved or
\* removed it, the thread that allocated it.
Holders(e) ==
    ({"hash"} \X {w \in Vops : hash[w] = e})
      \cup ({"ent"} \X {t \in Threads : ent[t] = e})
      \cup ({"new"} \X {t \in Threads : new[t] = e})

\* Every entry has exactly as many references as owners: none is used after
\* it was freed, freed twice or leaked, on any path through the two functions
\* (VNodeHook.cpp:325, 483, 554, 564 and 639 each drop one reference).
RefsExact == \A e \in Entries : refs[e] = Cardinality(Holders(e))

\* A thread is in the middle of writing the slots of w.
Rewriting(w) ==
    \E t \in Threads : pc[t] \in {"hookLoop", "unhookLoop"} /\ Vop(t) = w

\* Outside the two loops the vector and the table agree: the vector of an
\* entry has all its hooks and the entry the functions they replaced, and a
\* vector without an entry is the file system's own, to the last slot.
SlotsMatchTable ==
    \A w \in Vops : Rewriting(w) \/
        \A o \in Ops :
            IF hash[w] # NoEntry /\ o \in KnownOps
            THEN /\ slot[w][o] = Hook(o)
                 /\ origVop[hash[w]][o] = Original(w, o)
            ELSE slot[w][o] = Original(w, o)

\* Whatever hooks and unhooks the vector meanwhile, a hook forwards a call to
\* the function the file system put into that slot of that vector: never to
\* a hook (endless recursion), to NULL or to another file system
\* (FltGetOriginalVnodeOp, VNodeHook.cpp:133-229).
ForwardsToOriginal ==
    \A t \in Threads :
        pc[t] = "callOriginal" => fn[t] = Original(VopOf[vn[t]], op[t])

\* Vnodes that are being or have been reclaimed.
Gone == {v \in Vnodes : vstate[v] # "live"}

\* However the authorisations and reclaims overlap, each adds to or takes from
\* a counter twice at most, for the vnode and for its parent, and an entry that
\* is freed and allocated again starts from zero.  So the 32-bit counter, whose
\* assertions are vacuous (VNodeHook.h:200, 210), cannot wrap before there have
\* been 2^30 of them (incrementVnodeCounter, decrementVnodeCounter).
CounterInRange ==
    \A e \in Entries :
        /\ vNodeCounter[e] <= 2 * auths
        /\ vNodeCounter[e] >= -2 * Cardinality(Gone)

\* Hooking makes reclaim the first hook of a vector, so that no vnode is
\* discovered through a hook while its reclaim would be missed (the comment
\* at VNodeHook.cpp:34-41).
ReclaimHookedFirst ==
    [][\A w \in Vops, o \in Ops :
         slot[w][o] # Hook(o) /\ slot'[w][o] = Hook(o) /\ o # "reclaim"
            => slot[w]["reclaim"] = Hook("reclaim")]_vars

\* The most steps a call has left before its thread when it is at p, with i the
\* index of the loop and parent the steps it may take for the parent after this
\* vnode.  FltHookVnodeVop and FltUnHookVnodeVop take a turn each of the loop
\* over the hooks, and one to leave it.
LoopSteps == Len(HookOps) + 1
Turn == LoopSteps + 9
Before(p, parent, i) ==
    CASE p = "idle"           -> 0
      [] p = "callOriginal"   -> 1
      [] p = "hookParent"     -> parent + 1
      [] p \in {"hookRelease", "hookFound"} -> parent + 2
      [] p = "hookUnlock"     -> parent + 3
      [] p = "hookLoop"       -> parent + 4 + LoopSteps - i
      [] p = "hookRecheck"    -> parent + 4 + LoopSteps
      [] p = "hookExcl"       -> parent + 5 + LoopSteps
      [] p = "hookAlloc"      -> parent + 6 + LoopSteps
      [] p = "hookRetrieve"   -> parent + 7 + LoopSteps
      [] p = "hookShared"     -> parent + 8 + LoopSteps
      [] p = "hook"           -> parent + 9 + LoopSteps
      [] p = "unhookParent"   -> parent + 2
      [] p = "unhookRelease"  -> parent + 3
      [] p = "unhookUnlock"   -> parent + 4
      [] p = "unhookLoop"     -> parent + 5 + LoopSteps - i
      [] p = "unhookRemove"   -> parent + 5 + LoopSteps
      [] p = "unhookExcl"     -> parent + 6 + LoopSteps
      [] p = "unhookDec"      -> parent + 7 + LoopSteps
      [] p = "unhookRetrieve" -> parent + 8 + LoopSteps
      [] p = "unhookShared"   -> parent + 9 + LoopSteps
      [] p = "unhook"         -> parent + 10 + LoopSteps
      [] p = "getEntry"       -> 2 * Turn + 2
      [] p = "getRetry"       -> 2 * Turn + 3
      [] p = "getShared2"     -> 2 * Turn + 4
      [] p = "getRetrieve"    -> 2 * Turn + 5
      [] p = "getShared"      -> 2 * Turn + 6
StepsLeft(t) == Before(pc[t], IF cur[t] = vn[t] THEN Turn ELSE 0, idx[t])

\* Whatever other threads hook and unhook meanwhile, a call takes no more than
\* that many steps, and no step of another thread sets it back: neither the
\* second look-up nor the test under the exclusive lock is ever repeated.
CallsAreShort ==
    [][\A t \in Threads :
         \/ pc[t] = "idle"
         \/ pc'[t] = pc[t] /\ idx'[t] = idx[t]
         \/ StepsLeft(t)' \in 0 .. StepsLeft(t) - 1]_vars

\* Every call comes to an end: no thread is stuck between the two locks.
CallsComplete == \A t \in Threads : pc[t] # "idle" ~> pc[t] = "idle"
=============================================================================
