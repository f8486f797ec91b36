-------------------------- MODULE VNodeHookProofs --------------------------
(***************************************************************************)
(* The proofs about VNodeHook, for any number of threads, vnodes, vectors, *)
(* entries and operations.  Inv (VNodeHookInvariants) is inductive:        *)
(*   - the types, by what one step of one thread writes;                   *)
(*   - the lock, the pointers to entries and the slots, each by a small    *)
(*     list of moves that every step is one of (LockMoves, OwnerMoves,     *)
(*     TableMoves), so that the argument is made per move;                 *)
(*   - the calls, from the slots;                                          *)
(*   - the counters, by what each move still has to count or uncount.      *)
(* The theorems at the end follow from it, and so do, step by step, the    *)
(* refinements of TransparentFilter and of Lifecycle.  Calls are short by  *)
(* the moves of one thread from position to position (CallMoves).          *)
(***************************************************************************)
EXTENDS VNodeHookInvariants, VNodeHookRefinement, VNodeHookLife, FiniteSetTheorems,
        TLAPS

-----------------------------------------------------------------------------
(* Type correctness.                                                       *)

\* The operations are those of the array of hooks, by position.
LEMMA OpsFact ==
  /\ Len(HookOps) \in Nat
  /\ \A k \in 1..Len(HookOps) : HookOps[k] \in Ops
  /\ \A o \in Ops : \E k \in 1..Len(HookOps) : o = HookOps[k]
  /\ \A j, k \in 1..Len(HookOps) : HookOps[j] = HookOps[k] => j = k
  /\ "reclaim" \in Ops
  /\ NoOp \notin Ops
<1>1. Len(HookOps) \in Nat /\ DOMAIN HookOps = 1..Len(HookOps)
  BY HookOpsAssumption, SMT
<1> QED
  BY <1>1, HookOpsAssumption, Zenon DEF Ops, NoOp

\* A write into a table of tables.
LEMMA NestedUpdate ==
  ASSUME NEW A, NEW B, NEW C, NEW f \in [A -> [B -> C]],
         NEW a \in A, NEW b \in B, NEW c \in C
  PROVE  [f EXCEPT ![a][b] = c] \in [A -> [B -> C]]
  OBVIOUS

\* A step of thread t writes only t's copies of the local variables.
OnlyMoves(t) ==
    /\ pc' = [pc EXCEPT ![t] = pc'[t]]
    /\ vn' = [vn EXCEPT ![t] = vn'[t]]
    /\ cur' = [cur EXCEPT ![t] = cur'[t]]
    /\ op' = [op EXCEPT ![t] = op'[t]]
    /\ fn' = [fn EXCEPT ![t] = fn'[t]]
    /\ ent' = [ent EXCEPT ![t] = ent'[t]]
    /\ new' = [new EXCEPT ![t] = new'[t]]
    /\ idx' = [idx EXCEPT ![t] = idx'[t]]

\* The locals of thread u are what they were.
Stays(u) ==
    /\ pc'[u] = pc[u] /\ vn'[u] = vn[u] /\ cur'[u] = cur[u] /\ op'[u] = op[u]
    /\ fn'[u] = fn[u] /\ ent'[u] = ent[u] /\ new'[u] = new[u]
    /\ idx'[u] = idx[u]

\* The locals a step leaves thread t with, by type.
CallTyped(t) ==
    /\ pc[t] \in Labels
    /\ vn[t] \in Vnodes \cup {NoVnode}
    /\ cur[t] \in Vnodes \cup {NoVnode}
    /\ op[t] \in Ops \cup {NoOp}
    /\ new[t] \in Entries \cup {NoEntry}

\* A step of thread t leaves the locals of the other threads alone.
LEMMA StepMoves ==
  ASSUME NEW t \in Threads, Step(t) \/ Start(t),
         LocalsTyped
  PROVE  OnlyMoves(t)
<1>1. CASE LockShared(t) \/ LockExclusive(t) \/ UnLockExclusive(t) \/
          LoopEnd(t) \/ HookCheck(t)
  BY <1>1 DEF LockShared, At, Goto, Readable, tableVars, entryVars,
     vnodeVars, callVars, ptrVars, LockExclusive, Writable, UnLockExclusive,
     LoopEnd, lockVars, HookCheck, OnlyMoves, LocalsTyped
<1>2. CASE HookRetrieve(t) \/ HookFound(t) \/ HookAlloc(t) \/ HookRecheck(t)
          \/ HookSlot(t)
  BY <1>2 DEF HookRetrieve, Vop, At, UnLockShared, Goto, Take, Count,
     tableVars, vnodeVars, callVars, Retain, HookFound, Drop, lockVars,
     Release, HookAlloc, entryVars, HookRecheck, Recheck, ExitWithLock,
     AddEntry, HookSlot, HookAt, SetOriginalVop, OnlyMoves, LocalsTyped
<1>3. CASE HookRelease(t) \/ HookParent(t) \/ GetRetrieve(t) \/ GetRetry(t)
          \/ GetEntry(t)
  BY <1>3 DEF HookRelease, At, Release, Goto, tableVars, lockVars,
     vnodeVars, callVars, HookParent, HasParent, Return, entryVars, ptrVars,
     Enter, GetRetrieve, Vop, UnLockShared, Take, Retain, GetRetry,
     AfterGet, GetEntry, Drop, OnlyMoves, LocalsTyped
<1>4. CASE CallOriginal(t) \/ UnhookCheck(t) \/ UnhookRetrieve(t) \/
          UnhookDecrement(t) \/ UnhookRemove(t)
  BY <1>4 DEF CallOriginal, At, Return, tableVars, entryVars, lockVars,
     ptrVars, Enter, Goto, UnhookCheck, vnodeVars, callVars, UnhookRetrieve,
     Vop, UnLockShared, Take, Retain, UnhookDecrement, Count, UnhookRemove,
     Release, OnlyMoves, LocalsTyped
<1>5. CASE UnhookSlot(t) \/ UnhookRelease(t) \/ UnhookParent(t) \/ (\E v \in
          Vnodes : KauthCallback(t, v)) \/ (\E v \in Vnodes : Reclaim(t, v))
  BY <1>5 DEF UnhookSlot, Vop, HookAt, At, entryVars, lockVars, vnodeVars,
     callVars, UnhookRelease, Drop, Goto, tableVars, Release, UnhookParent,
     HasParent, ptrVars, KauthCallback, Enter, Reclaim, Drained, Jump,
     OnlyMoves, LocalsTyped
<1>6. CASE (\E v \in Vnodes, o \in Ops : VnopCall(t, v, o))
  BY <1>6 DEF VnopCall, At, Jump, Enter, Goto, tableVars, entryVars,
     lockVars, vnodeVars, ptrVars, OnlyMoves, LocalsTyped
<1> QED
  BY <1>1, <1>2, <1>3, <1>4, <1>5, <1>6 DEF Step, LockStep, HookStep,
     GetStep, UnhookStep, Start

\* The same, for one other thread.
LEMMA OthersStay ==
  ASSUME LocalsTyped, NEW t \in Threads, OnlyMoves(t),
         NEW u \in Threads, u # t
  PROVE  Stays(u)
  BY DEF LocalsTyped, OnlyMoves, Stays

\* The position, the vnodes, the operation and the new entry of the moving
\* thread keep their types.
LEMMA StepCallTyped ==
  ASSUME NEW t \in Threads, Step(t) \/ Start(t),
         SharedTyped, LocalsTyped, LocalsOK(t)
  PROVE  CallTyped(t)'
<1>1. CASE LockShared(t) \/ LockExclusive(t) \/ UnLockExclusive(t) \/
          LoopEnd(t) \/ HookCheck(t)
  BY <1>1, FileSystemAssumption, OpsFact DEF LockShared, At, Goto, Readable,
     tableVars, entryVars, vnodeVars, callVars, ptrVars, LockExclusive,
     Writable, UnLockExclusive, LoopEnd, lockVars, HookCheck, CallTyped,
     LocalsTyped, LocalsOK, Labels, HookLabels, GetLabels, UnhookLabels,
     NoOp
<1>2. CASE HookRetrieve(t) \/ HookFound(t) \/ HookAlloc(t) \/ HookRecheck(t)
          \/ HookSlot(t)
  BY <1>2, FileSystemAssumption, OpsFact DEF HookRetrieve, Vop, At,
     UnLockShared, Goto, Take, Count, tableVars, vnodeVars, callVars,
     Retain, HookFound, Drop, lockVars, Release, HookAlloc, entryVars,
     HookRecheck, Recheck, ExitWithLock, AddEntry, HookSlot, HookAt,
     SetOriginalVop, CallTyped, LocalsTyped, LocalsOK, Labels, HookLabels,
     GetLabels, UnhookLabels, NoOp
<1>3. CASE HookRelease(t) \/ HookParent(t) \/ GetRetrieve(t) \/ GetRetry(t)
          \/ GetEntry(t)
  BY <1>3, FileSystemAssumption, OpsFact DEF HookRelease, At, Release, Goto,
     tableVars, lockVars, vnodeVars, callVars, HookParent, HasParent,
     Return, entryVars, ptrVars, Enter, GetRetrieve, Vop, UnLockShared,
     Take, Retain, GetRetry, AfterGet, GetEntry, Drop, CallTyped,
     LocalsTyped, LocalsOK, Labels, HookLabels, GetLabels, UnhookLabels,
     NoOp
<1>4. CASE CallOriginal(t) \/ UnhookCheck(t) \/ UnhookRetrieve(t) \/
          UnhookDecrement(t) \/ UnhookRemove(t)
  BY <1>4, FileSystemAssumption, OpsFact DEF CallOriginal, At, Return,
     tableVars, entryVars, lockVars, ptrVars, Enter, Goto, UnhookCheck,
     vnodeVars, callVars, UnhookRetrieve, Vop, UnLockShared, Take, Retain,
     UnhookDecrement, Count, UnhookRemove, Release, CallTyped, LocalsTyped,
     LocalsOK, Labels, HookLabels, GetLabels, UnhookLabels, NoOp
<1>5. CASE UnhookSlot(t) \/ UnhookRelease(t) \/ UnhookParent(t) \/ (\E v \in
          Vnodes : KauthCallback(t, v)) \/ (\E v \in Vnodes : Reclaim(t, v))
  BY <1>5, FileSystemAssumption, OpsFact DEF UnhookSlot, Vop, HookAt, At,
     entryVars, lockVars, vnodeVars, callVars, UnhookRelease, Drop, Goto,
     tableVars, Release, UnhookParent, HasParent, ptrVars, KauthCallback,
     Enter, Reclaim, Drained, Jump, CallTyped, LocalsTyped, LocalsOK,
     Labels, HookLabels, GetLabels, UnhookLabels, NoOp
<1>6. CASE (\E v \in Vnodes, o \in Ops : VnopCall(t, v, o))
  BY <1>6, FileSystemAssumption, OpsFact DEF VnopCall, At, Jump, Enter,
     Goto, tableVars, entryVars, lockVars, vnodeVars, ptrVars, CallTyped,
     LocalsTyped, LocalsOK, Labels, HookLabels, GetLabels, UnhookLabels,
     NoOp
<1> QED
  BY <1>1, <1>2, <1>3, <1>4, <1>5, <1>6 DEF Step, LockStep, HookStep,
     GetStep, UnhookStep, Start

\* So does the function it found: it comes from a slot or from an entry.
LEMMA StepFnTyped ==
  ASSUME NEW t \in Threads, Step(t) \/ Start(t),
         SharedTyped, LocalsTyped, LocalsOK(t)
  PROVE  fn'[t] \in Functions
<1>1. CASE LockShared(t) \/ LockExclusive(t) \/ UnLockExclusive(t) \/
          LoopEnd(t) \/ HookCheck(t)
  BY <1>1, FileSystemAssumption, OpsFact DEF LockShared, At, Goto, Readable,
     tableVars, entryVars, vnodeVars, callVars, ptrVars, LockExclusive,
     Writable, UnLockExclusive, LoopEnd, lockVars, HookCheck, SharedTyped,
     LocalsTyped, LocalsOK, Functions, Null, Labels, HookLabels, GetLabels,
     UnhookLabels, NoOp
<1>2. CASE HookRetrieve(t) \/ HookFound(t) \/ HookAlloc(t) \/ HookRecheck(t)
          \/ HookSlot(t)
  BY <1>2, FileSystemAssumption, OpsFact DEF HookRetrieve, Vop, At,
     UnLockShared, Goto, Take, Count, tableVars, vnodeVars, callVars,
     Retain, HookFound, Drop, lockVars, Release, HookAlloc, entryVars,
     HookRecheck, Recheck, ExitWithLock, AddEntry, HookSlot, HookAt,
     SetOriginalVop, SharedTyped, LocalsTyped, LocalsOK, Functions, Null,
     Labels, HookLabels, GetLabels, UnhookLabels, NoOp
<1>3. CASE HookRelease(t) \/ HookParent(t) \/ GetRetrieve(t) \/
          CallOriginal(t) \/ UnhookCheck(t)
  BY <1>3, FileSystemAssumption, OpsFact DEF HookRelease, At, Release, Goto,
     tableVars, lockVars, vnodeVars, callVars, HookParent, HasParent,
     Return, entryVars, ptrVars, Enter, GetRetrieve, Vop, UnLockShared,
     Take, Retain, CallOriginal, UnhookCheck, SharedTyped, LocalsTyped,
     LocalsOK, Functions, Null, Labels, HookLabels, GetLabels, UnhookLabels,
     NoOp
<1>4. CASE UnhookRetrieve(t) \/ UnhookDecrement(t) \/ UnhookRemove(t) \/
          UnhookSlot(t) \/ UnhookRelease(t)
  BY <1>4, FileSystemAssumption, OpsFact DEF UnhookRetrieve, Vop, At,
     UnLockShared, Take, Goto, tableVars, vnodeVars, callVars, Retain,
     UnhookDecrement, Count, lockVars, ptrVars, UnhookRemove, Release,
     UnhookSlot, HookAt, entryVars, UnhookRelease, Drop, SharedTyped,
     LocalsTyped, LocalsOK, Functions, Null, Labels, HookLabels, GetLabels,
     UnhookLabels, NoOp
<1>5. CASE UnhookParent(t) \/ (\E v \in Vnodes : KauthCallback(t, v)) \/ (\E
          v \in Vnodes : Reclaim(t, v)) \/ (\E v \in Vnodes, o \in Ops :
          VnopCall(t, v, o))
  BY <1>5, FileSystemAssumption, OpsFact DEF UnhookParent, At, HasParent,
     Goto, tableVars, entryVars, lockVars, vnodeVars, ptrVars,
     KauthCallback, Enter, Reclaim, Drained, Jump, VnopCall, SharedTyped,
     LocalsTyped, LocalsOK, Functions, Null, Labels, HookLabels, GetLabels,
     UnhookLabels, NoOp
<1>6. CASE GetRetry(t)
  <2>1. Vop(t) \in Vops /\ op[t] \in Ops
    BY <1>6, FileSystemAssumption DEF GetRetry, At, Vop, LocalsTyped, LocalsOK,
       GetLabels, HookLabels
  <2>2. slot[Vop(t)][op[t]] \in Functions
    BY <2>1 DEF SharedTyped
  <2> QED
    BY <1>6, <2>2 DEF GetRetry, LocalsTyped
<1>7. CASE GetEntry(t)
  <2>1. ent[t] \in Entries /\ op[t] \in Ops
    BY <1>7 DEF GetEntry, At, LocalsTyped, LocalsOK, GetLabels, HookLabels
  <2>2. origVop[ent[t]][op[t]] \in Functions
    BY <2>1 DEF SharedTyped
  <2> QED
    BY <1>7, <2>2 DEF GetEntry, LocalsTyped
<1> QED
  BY <1>1, <1>2, <1>3, <1>4, <1>5, <1>6, <1>7 DEF Step, LockStep, HookStep,
     GetStep, UnhookStep, Start

\* So does the entry it retrieved: it comes from the table.
LEMMA StepEntTyped ==
  ASSUME NEW t \in Threads, Step(t) \/ Start(t),
         SharedTyped, LocalsTyped, LocalsOK(t)
  PROVE  ent'[t] \in Entries \cup {NoEntry}
<1>1. CASE LockShared(t) \/ LockExclusive(t) \/ UnLockExclusive(t) \/
          LoopEnd(t) \/ HookCheck(t)
  BY <1>1, FileSystemAssumption DEF LockShared, At, Goto, Readable,
     tableVars, entryVars, vnodeVars, callVars, ptrVars, LockExclusive,
     Writable, UnLockExclusive, LoopEnd, lockVars, HookCheck, SharedTyped,
     LocalsTyped, LocalsOK, Labels, HookLabels, GetLabels, UnhookLabels,
     NoOp
<1>2. CASE HookRetrieve(t) \/ HookFound(t) \/ HookAlloc(t) \/ HookRecheck(t)
          \/ HookSlot(t)
  BY <1>2, FileSystemAssumption DEF HookRetrieve, Vop, At, UnLockShared,
     Goto, Take, Count, tableVars, vnodeVars, callVars, Retain, HookFound,
     Drop, lockVars, Release, HookAlloc, entryVars, HookRecheck, Recheck,
     ExitWithLock, AddEntry, HookSlot, HookAt, SetOriginalVop, SharedTyped,
     LocalsTyped, LocalsOK, Labels, HookLabels, GetLabels, UnhookLabels,
     NoOp
<1>3. CASE HookRelease(t) \/ HookParent(t) \/ GetRetrieve(t) \/ GetRetry(t)
          \/ GetEntry(t)
  BY <1>3, FileSystemAssumption DEF HookRelease, At, Release, Goto,
     tableVars, lockVars, vnodeVars, callVars, HookParent, HasParent,
     Return, entryVars, ptrVars, Enter, GetRetrieve, Vop, UnLockShared,
     Take, Retain, GetRetry, AfterGet, GetEntry, Drop, SharedTyped,
     LocalsTyped, LocalsOK, Labels, HookLabels, GetLabels, UnhookLabels,
     NoOp
<1>4. CASE CallOriginal(t) \/ UnhookCheck(t) \/ UnhookRetrieve(t) \/
          UnhookDecrement(t) \/ UnhookRemove(t)
  BY <1>4, FileSystemAssumption DEF CallOriginal, At, Return, tableVars,
     entryVars, lockVars, ptrVars, Enter, Goto, UnhookCheck, vnodeVars,
     callVars, UnhookRetrieve, Vop, UnLockShared, Take, Retain,
     UnhookDecrement, Count, UnhookRemove, Release, SharedTyped,
     LocalsTyped, LocalsOK, Labels, HookLabels, GetLabels, UnhookLabels,
     NoOp
<1>5. CASE UnhookSlot(t) \/ UnhookRelease(t) \/ UnhookParent(t) \/ (\E v \in
          Vnodes : KauthCallback(t, v)) \/ (\E v \in Vnodes : Reclaim(t, v))
  BY <1>5, FileSystemAssumption DEF UnhookSlot, Vop, HookAt, At, entryVars,
     lockVars, vnodeVars, callVars, UnhookRelease, Drop, Goto, tableVars,
     Release, UnhookParent, HasParent, ptrVars, KauthCallback, Enter,
     Reclaim, Drained, Jump, SharedTyped, LocalsTyped, LocalsOK, Labels,
     HookLabels, GetLabels, UnhookLabels, NoOp
<1>6. CASE (\E v \in Vnodes, o \in Ops : VnopCall(t, v, o))
  BY <1>6, FileSystemAssumption DEF VnopCall, At, Jump, Enter, Goto,
     tableVars, entryVars, lockVars, vnodeVars, ptrVars, SharedTyped,
     LocalsTyped, LocalsOK, Labels, HookLabels, GetLabels, UnhookLabels,
     NoOp
<1> QED
  BY <1>1, <1>2, <1>3, <1>4, <1>5, <1>6 DEF Step, LockStep, HookStep,
     GetStep, UnhookStep, Start

\* So does its loop index: the loops advance it only up to the end.
LEMMA StepIdxTyped ==
  ASSUME NEW t \in Threads, Step(t) \/ Start(t),
         LocalsTyped, LocalsOK(t)
  PROVE  idx'[t] \in 0..Len(HookOps) + 1
<1>1. CASE LockShared(t) \/ LockExclusive(t) \/ UnLockExclusive(t) \/
          LoopEnd(t) \/ HookCheck(t)
  BY <1>1, OpsFact DEF LockShared, At, Goto, Readable, tableVars, entryVars,
     vnodeVars, callVars, ptrVars, LockExclusive, Writable, UnLockExclusive,
     LoopEnd, lockVars, HookCheck, LocalsTyped, LocalsOK, Labels,
     HookLabels, GetLabels, UnhookLabels, NoOp
<1>2. CASE HookRetrieve(t) \/ HookFound(t) \/ HookAlloc(t) \/ HookRecheck(t)
          \/ HookSlot(t)
  BY <1>2, OpsFact DEF HookRetrieve, Vop, At, UnLockShared, Goto, Take,
     Count, tableVars, vnodeVars, callVars, Retain, HookFound, Drop,
     lockVars, Release, HookAlloc, entryVars, HookRecheck, Recheck,
     ExitWithLock, AddEntry, HookSlot, HookAt, SetOriginalVop, LocalsTyped,
     LocalsOK, Labels, HookLabels, GetLabels, UnhookLabels, NoOp
<1>3. CASE HookRelease(t) \/ HookParent(t) \/ GetRetrieve(t) \/ GetRetry(t)
          \/ GetEntry(t)
  BY <1>3, OpsFact DEF HookRelease, At, Release, Goto, tableVars, lockVars,
     vnodeVars, callVars, HookParent, HasParent, Return, entryVars, ptrVars,
     Enter, GetRetrieve, Vop, UnLockShared, Take, Retain, GetRetry,
     AfterGet, GetEntry, Drop, LocalsTyped, LocalsOK, Labels, HookLabels,
     GetLabels, UnhookLabels, NoOp
<1>4. CASE CallOriginal(t) \/ UnhookCheck(t) \/ UnhookRetrieve(t) \/
          UnhookDecrement(t) \/ UnhookRemove(t)
  BY <1>4, OpsFact DEF CallOriginal, At, Return, tableVars, entryVars,
     lockVars, ptrVars, Enter, Goto, UnhookCheck, vnodeVars, callVars,
     UnhookRetrieve, Vop, UnLockShared, Take, Retain, UnhookDecrement,
     Count, UnhookRemove, Release, LocalsTyped, LocalsOK, Labels,
     HookLabels, GetLabels, UnhookLabels, NoOp
<1>5. CASE UnhookSlot(t) \/ UnhookRelease(t) \/ UnhookParent(t) \/ (\E v \in
          Vnodes : KauthCallback(t, v)) \/ (\E v \in Vnodes : Reclaim(t, v))
  BY <1>5, OpsFact DEF UnhookSlot, Vop, HookAt, At, entryVars, lockVars,
     vnodeVars, callVars, UnhookRelease, Drop, Goto, tableVars, Release,
     UnhookParent, HasParent, ptrVars, KauthCallback, Enter, Reclaim,
     Drained, Jump, LocalsTyped, LocalsOK, Labels, HookLabels, GetLabels,
     UnhookLabels, NoOp
<1>6. CASE (\E v \in Vnodes, o \in Ops : VnopCall(t, v, o))
  BY <1>6, OpsFact DEF VnopCall, At, Jump, Enter, Goto, tableVars,
     entryVars, lockVars, vnodeVars, ptrVars, LocalsTyped, LocalsOK, Labels,
     HookLabels, GetLabels, UnhookLabels, NoOp
<1> QED
  BY <1>1, <1>2, <1>3, <1>4, <1>5, <1>6 DEF Step, LockStep, HookStep,
     GetStep, UnhookStep, Start

\* The two lemmas on the other threads and on the moving one, combined.
LEMMA LocalsTypedStep ==
  ASSUME LocalsTyped, NEW t \in Threads, OnlyMoves(t), CallTyped(t)',
         fn'[t] \in Functions, ent'[t] \in Entries \cup {NoEntry},
         idx'[t] \in 0..Len(HookOps) + 1
  PROVE  LocalsTyped'
<1>1. (pc \in [Threads -> Labels])'
  BY DEF LocalsTyped, OnlyMoves, CallTyped
<1>2. (vn \in [Threads -> Vnodes \cup {NoVnode}])'
  BY DEF LocalsTyped, OnlyMoves, CallTyped
<1>3. (cur \in [Threads -> Vnodes \cup {NoVnode}])'
  BY DEF LocalsTyped, OnlyMoves, CallTyped
<1>4. (op \in [Threads -> Ops \cup {NoOp}])'
  BY DEF LocalsTyped, OnlyMoves, CallTyped
<1>5. (fn \in [Threads -> Functions])'
  BY DEF LocalsTyped, OnlyMoves
<1>6. (ent \in [Threads -> Entries \cup {NoEntry}])'
  BY DEF LocalsTyped, OnlyMoves
<1>7. (new \in [Threads -> Entries \cup {NoEntry}])'
  BY DEF LocalsTyped, OnlyMoves, CallTyped
<1>8. (idx \in [Threads -> 0..Len(HookOps) + 1])'
  BY DEF LocalsTyped, OnlyMoves
<1> QED
  BY <1>1, <1>2, <1>3, <1>4, <1>5, <1>6, <1>7, <1>8 DEF LocalsTyped

\* The moving thread's pointers are set where the code uses them.
LEMMA LocalsOKStep ==
  ASSUME NEW t \in Threads, Step(t) \/ Start(t),
         LocalsTyped
  PROVE  LocalsOK(t) => LocalsOK(t)'
<1>1. CASE LockShared(t) \/ LockExclusive(t) \/ UnLockExclusive(t) \/
          LoopEnd(t) \/ HookCheck(t)
  BY <1>1 DEF LockShared, At, Goto, Readable, tableVars, entryVars,
     vnodeVars, callVars, ptrVars, LockExclusive, Writable, UnLockExclusive,
     LoopEnd, lockVars, HookCheck, LocalsTyped, LocalsOK, Labels,
     HookLabels, GetLabels, UnhookLabels, NoOp
<1>2. CASE HookRetrieve(t) \/ HookFound(t) \/ HookRecheck(t) \/ HookSlot(t)
          \/ HookRelease(t)
  BY <1>2 DEF HookRetrieve, Vop, At, UnLockShared, Goto, Take, Count,
     tableVars, vnodeVars, callVars, Retain, HookFound, Drop, lockVars,
     Release, HookRecheck, Recheck, ExitWithLock, AddEntry, HookSlot,
     HookAt, SetOriginalVop, HookRelease, LocalsTyped, LocalsOK, Labels,
     HookLabels, GetLabels, UnhookLabels, NoOp
<1>3. CASE HookParent(t) \/ GetRetrieve(t) \/ GetRetry(t) \/ GetEntry(t) \/
          CallOriginal(t)
  BY <1>3 DEF HookParent, At, HasParent, Goto, Return, tableVars, entryVars,
     lockVars, vnodeVars, ptrVars, Enter, GetRetrieve, Vop, UnLockShared,
     Take, callVars, Retain, GetRetry, AfterGet, GetEntry, Drop, Release,
     CallOriginal, LocalsTyped, LocalsOK, Labels, HookLabels, GetLabels,
     UnhookLabels, NoOp
<1>4. CASE UnhookCheck(t) \/ UnhookRetrieve(t) \/ UnhookDecrement(t) \/
          UnhookRemove(t) \/ UnhookSlot(t)
  BY <1>4 DEF UnhookCheck, At, Goto, tableVars, entryVars, lockVars,
     vnodeVars, callVars, ptrVars, UnhookRetrieve, Vop, UnLockShared, Take,
     Retain, UnhookDecrement, Count, UnhookRemove, Release, UnhookSlot,
     HookAt, LocalsTyped, LocalsOK, Labels, HookLabels, GetLabels,
     UnhookLabels, NoOp
<1>5. CASE UnhookRelease(t) \/ UnhookParent(t) \/ (\E v \in Vnodes :
          Reclaim(t, v))
  BY <1>5 DEF UnhookRelease, At, Drop, Goto, tableVars, lockVars, vnodeVars,
     callVars, Release, UnhookParent, HasParent, entryVars, ptrVars,
     Reclaim, Drained, Jump, Enter, LocalsTyped, LocalsOK, Labels,
     HookLabels, GetLabels, UnhookLabels, NoOp
<1>6. CASE HookAlloc(t)
  <2>1. /\ pc[t] = "hookAlloc" /\ ent'[t] = ent[t] /\ idx'[t] = idx[t]
        /\ vn'[t] = vn[t] /\ cur'[t] = cur[t] /\ op'[t] = op[t]
    BY <1>6 DEF HookAlloc, At, LocalsTyped, callVars
  <2>2. \/ pc'[t] = "hookExcl" /\ new'[t] \in Entries
        \/ pc'[t] = "hookParent" /\ new'[t] = new[t]
    BY <1>6 DEF HookAlloc, Goto, LocalsTyped
  <2> QED
    BY <2>1, <2>2, NamesAssumption DEF LocalsOK, HookLabels, GetLabels,
       UnhookLabels
<1>7. CASE (\E v \in Vnodes : KauthCallback(t, v))
  BY <1>7, NamesAssumption DEF KauthCallback, At, Enter, Goto, tableVars,
     entryVars, lockVars, ptrVars, LocalsTyped, LocalsOK, Labels,
     HookLabels, GetLabels, UnhookLabels, NoOp
<1>8. CASE (\E v \in Vnodes, o \in Ops : VnopCall(t, v, o))
  BY <1>8, NamesAssumption, OpsFact DEF VnopCall, At, Jump, Enter, Goto,
     tableVars, entryVars, lockVars, vnodeVars, ptrVars, LocalsTyped,
     LocalsOK, Labels, HookLabels, GetLabels, UnhookLabels, NoOp
<1> QED
  BY <1>1, <1>2, <1>3, <1>4, <1>5, <1>6, <1>7, <1>8 DEF Step, LockStep,
     HookStep, GetStep, UnhookStep, Start

\* The shared state keeps its types.
LEMMA SharedTypedStep ==
  ASSUME NEW t \in Threads, Step(t) \/ Start(t),
         SharedTyped, LocalsTyped, LocalsOK(t)
  PROVE  SharedTyped'
<1>1. CASE LockShared(t) \/ LockExclusive(t) \/ UnLockExclusive(t)
  BY <1>1, FileSystemAssumption DEF LockShared, At, Goto, Readable,
     tableVars, entryVars, vnodeVars, callVars, ptrVars, LockExclusive,
     Writable, UnLockExclusive, SharedTyped, LocalsTyped, LocalsOK, Labels,
     HookLabels, GetLabels, UnhookLabels, NoOp
<1>2. CASE LoopEnd(t) \/ HookCheck(t) \/ HookRetrieve(t)
  BY <1>2, FileSystemAssumption, SMTT(30) DEF LoopEnd, At, Goto, tableVars, entryVars,
     lockVars, vnodeVars, callVars, HookCheck, ptrVars, HookRetrieve, Vop,
     UnLockShared, Take, Count, Retain, SharedTyped, LocalsTyped, LocalsOK,
     Labels, HookLabels, GetLabels, UnhookLabels, NoOp
<1>3. CASE HookFound(t) \/ HookRelease(t) \/ HookParent(t)
  BY <1>3, FileSystemAssumption DEF HookFound, At, Drop, Goto, tableVars,
     lockVars, vnodeVars, callVars, Release, HookRelease, HookParent,
     HasParent, Return, entryVars, ptrVars, Enter, SharedTyped, LocalsTyped,
     LocalsOK, Labels, HookLabels, GetLabels, UnhookLabels, NoOp
<1>4. CASE GetRetrieve(t) \/ GetRetry(t) \/ GetEntry(t)
  BY <1>4, FileSystemAssumption DEF GetRetrieve, Vop, At, UnLockShared,
     Take, Goto, tableVars, vnodeVars, callVars, Retain, GetRetry, AfterGet,
     GetEntry, Drop, lockVars, Release, SharedTyped, LocalsTyped, LocalsOK,
     Labels, HookLabels, GetLabels, UnhookLabels, NoOp
<1>5. CASE UnhookCheck(t) \/ UnhookRetrieve(t) \/ UnhookDecrement(t)
  BY <1>5, FileSystemAssumption DEF UnhookCheck, At, Goto, tableVars,
     entryVars, lockVars, vnodeVars, callVars, ptrVars, UnhookRetrieve, Vop,
     UnLockShared, Take, Retain, UnhookDecrement, Count, SharedTyped,
     LocalsTyped, LocalsOK, Labels, HookLabels, GetLabels, UnhookLabels,
     NoOp
<1>6. CASE UnhookRelease(t) \/ UnhookParent(t) \/ (\E v \in Vnodes :
          Reclaim(t, v))
  BY <1>6, FileSystemAssumption DEF UnhookRelease, At, Drop, Goto,
     tableVars, lockVars, vnodeVars, callVars, Release, UnhookParent,
     HasParent, entryVars, ptrVars, Reclaim, Drained, Jump, Enter,
     SharedTyped, LocalsTyped, LocalsOK, Labels, HookLabels, GetLabels,
     UnhookLabels, NoOp
<1>7. CASE (\E v \in Vnodes, o \in Ops : VnopCall(t, v, o))
  BY <1>7, FileSystemAssumption DEF VnopCall, At, Jump, Enter, Goto,
     tableVars, entryVars, lockVars, vnodeVars, ptrVars, SharedTyped,
     LocalsTyped, LocalsOK, Labels, HookLabels, GetLabels, UnhookLabels,
     NoOp
<1>8. CASE CallOriginal(t)
  BY <1>8, FileSystemAssumption DEF CallOriginal, At, Return, tableVars,
     entryVars, lockVars, ptrVars, Enter, Goto, SharedTyped, LocalsTyped,
     LocalsOK, Labels, HookLabels, GetLabels, UnhookLabels, NoOp
<1>9. CASE HookAlloc(t)
  <2>1. [o \in Ops |-> Null] \in [Ops -> Functions]
    BY DEF Functions
  <2>2. (origVop \in [Entries -> [Ops -> Functions]])'
    BY <1>9, <2>1 DEF HookAlloc, SharedTyped, entryVars
  <2>3. (refs \in [Entries -> Int] /\ vNodeCounter \in [Entries -> Int])'
    BY <1>9 DEF HookAlloc, SharedTyped, entryVars
  <2> QED
    BY <1>9, <2>2, <2>3 DEF HookAlloc, SharedTyped, tableVars, lockVars,
       vnodeVars
<1>10. CASE (\E v \in Vnodes : KauthCallback(t, v))
  <2>1. auths' \in 0..MaxAuth
    BY <1>10, MaxAuthAssumption DEF KauthCallback, SharedTyped
  <2> QED
    BY <1>10, <2>1 DEF KauthCallback, SharedTyped, tableVars, entryVars, lockVars
<1>11. CASE HookRecheck(t)
  <2>1. Vop(t) \in Vops /\ new[t] \in Entries
    BY <1>11, FileSystemAssumption DEF HookRecheck, At, Vop, LocalsTyped,
       LocalsOK, SharedTyped
  <2>2. (hash \in [Vops -> Entries \cup {NoEntry}])'
    BY <1>11, <2>1 DEF HookRecheck, AddEntry, SharedTyped
  <2>3. (refs \in [Entries -> Int])'
    BY <1>11, <2>1 DEF HookRecheck, AddEntry, Retain, SharedTyped
  <2>4. (vNodeCounter \in [Entries -> Int])'
    BY <1>11, <2>1 DEF HookRecheck, Recheck, Count, SharedTyped
  <2> QED
    BY <1>11, <2>2, <2>3, <2>4 DEF HookRecheck, SharedTyped, lockVars, vnodeVars
<1>12. CASE HookSlot(t)
  <2>1. /\ Vop(t) \in Vops /\ new[t] \in Entries
        /\ HookOps[idx[t]] \in Ops
    BY <1>12, FileSystemAssumption, OpsFact DEF HookSlot, At, Vop, LocalsTyped,
       LocalsOK
  <2>2. slot[Vop(t)][HookOps[idx[t]]] \in Functions
    BY <2>1 DEF SharedTyped
  <2>3. Hook(HookOps[idx[t]]) \in Functions
    BY <2>1 DEF Hook, Functions
  <2> DEFINE w == Vop(t)  o == HookOps[idx[t]]  e == new[t]
  <2>4. [slot EXCEPT ![w][o] = Hook(o)] \in [Vops -> [Ops -> Functions]]
    BY <2>1, <2>3, NestedUpdate DEF SharedTyped
  <2>5. [origVop EXCEPT ![e][o] = slot[w][o]] \in [Entries -> [Ops -> Functions]]
    BY <2>1, <2>2, NestedUpdate DEF SharedTyped
  <2>6. \/ slot' = [slot EXCEPT ![w][o] = Hook(o)]
        \/ slot' = slot
    BY <1>12, Zenon DEF HookSlot, HookAt
  <2>7. \/ origVop' = [origVop EXCEPT ![e][o] = slot[w][o]]
        \/ origVop' = origVop
    BY <1>12, Zenon DEF HookSlot, HookAt, SetOriginalVop
  <2> HIDE DEF w, o, e
  <2>8. slot' \in [Vops -> [Ops -> Functions]]
    BY <2>4, <2>6 DEF SharedTyped
  <2>9. origVop' \in [Entries -> [Ops -> Functions]]
    BY <2>5, <2>7 DEF SharedTyped
  <2> QED
    BY <1>12, <2>8, <2>9 DEF HookSlot, SharedTyped, lockVars, vnodeVars
<1>13. CASE UnhookRemove(t)
  <2>1. Vop(t) \in Vops /\ ent[t] \in Entries
    BY <1>13, FileSystemAssumption DEF UnhookRemove, At, Vop, LocalsTyped,
       LocalsOK
  <2>2. (hash \in [Vops -> Entries \cup {NoEntry}])'
    BY <1>13, <2>1 DEF UnhookRemove, SharedTyped
  <2>3. (refs \in [Entries -> Int])'
    BY <1>13, <2>1 DEF UnhookRemove, Release, SharedTyped
  <2> QED
    BY <1>13, <2>2, <2>3 DEF UnhookRemove, SharedTyped, lockVars, vnodeVars
<1>14. CASE UnhookSlot(t)
  <2>1. /\ Vop(t) \in Vops /\ ent[t] \in Entries
        /\ HookOps[idx[t]] \in Ops
    BY <1>14, FileSystemAssumption, OpsFact DEF UnhookSlot, At, Vop, LocalsTyped,
       LocalsOK
  <2>2. origVop[ent[t]][HookOps[idx[t]]] \in Functions
    BY <2>1 DEF SharedTyped
  <2> DEFINE w == Vop(t)  o == HookOps[idx[t]]  f == origVop[ent[t]][o]
  <2>3. [slot EXCEPT ![w][o] = f] \in [Vops -> [Ops -> Functions]]
    BY <2>1, <2>2, NestedUpdate DEF SharedTyped
  <2>4. slot' = [slot EXCEPT ![w][o] = f] \/ slot' = slot
    BY <1>14, Zenon DEF UnhookSlot, HookAt
  <2> HIDE DEF w, o, f
  <2>5. slot' \in [Vops -> [Ops -> Functions]]
    BY <2>3, <2>4 DEF SharedTyped
  <2> QED
    BY <1>14, <2>5 DEF UnhookSlot, SharedTyped, entryVars, lockVars, vnodeVars
<1> QED
  BY <1>1, <1>2, <1>3, <1>4, <1>5, <1>6, <1>7, <1>8, <1>9, <1>10, <1>11,
     <1>12, <1>13, <1>14 DEF Step, LockStep, HookStep, GetStep, UnhookStep,
     Start

\* A step of a call keeps the types, and leaves the other threads alone.
LEMMA StepTypeOK ==
  ASSUME TypeOK, NEW t \in Threads, Step(t) \/ Start(t)
  PROVE  TypeOK' /\ OnlyMoves(t) /\ \A u \in Threads \ {t} : Stays(u)
<1>1. SharedTyped /\ LocalsTyped /\ LocalsOK(t)
  BY DEF TypeOK
<1>2. OnlyMoves(t)
  BY <1>1, StepMoves
<1>3. \A u \in Threads \ {t} : Stays(u)
  BY <1>1, <1>2, OthersStay
<1>4. LocalsTyped'
  BY <1>1, <1>2, StepCallTyped, StepFnTyped, StepEntTyped, StepIdxTyped,
     LocalsTypedStep
<1>5. SharedTyped'
  BY <1>1, SharedTypedStep
<1>6. ASSUME NEW u \in Threads
      PROVE  LocalsOK(u)'
  <2>1. CASE u = t
    BY <1>1, <2>1, LocalsOKStep
  <2>2. CASE u # t
    BY <1>3, <2>2 DEF TypeOK, LocalsOK, Stays
  <2> QED
    BY <2>1, <2>2
<1> QED
  BY <1>2, <1>3, <1>4, <1>5, <1>6 DEF TypeOK

\* Only the life of a vnode changes, or nothing.
Quiet ==
    /\ UNCHANGED <<tableVars, entryVars, lockVars, auths, pc, callVars, ptrVars>>
    /\ \/ vstate' = vstate
       \/ \E v \in Vnodes :
             vstate[v] = "live" /\ vstate' = [vstate EXCEPT ![v] = "terminating"]

\* Every step is a step of a call or a quiet one.
LEMMA NextCases ==
  ASSUME [Next]_vars
  PROVE  \/ \E t \in Threads : Step(t) \/ Start(t)
         \/ Quiet
<1>1. ASSUME NEW v \in Vnodes, Terminate(v)
      PROVE  Quiet
  BY <1>1 DEF Terminate, Quiet
<1>2. CASE UNCHANGED vars
  BY <1>2 DEF vars, vnodeVars, Quiet
<1> QED
  BY <1>1, <1>2 DEF Next, Finished

\* What the parts of the invariant other than the types speak of.
QuietVars ==
    <<slot, hash, entryVars, lockVars, auths, pc, callVars, ptrVars>>

\* Quiet steps keep the types and all the other variables.
LEMMA QuietTypeOK ==
  ASSUME TypeOK, Quiet
  PROVE  TypeOK' /\ UNCHANGED QuietVars
<1>1. vstate' \in [Vnodes -> {"live", "terminating", "dead"}]
  BY DEF TypeOK, SharedTyped, Quiet
<1>2. SharedTyped'
  BY <1>1 DEF TypeOK, SharedTyped, Quiet, tableVars, entryVars, lockVars
<1>3. LocalsTyped'
  BY DEF TypeOK, LocalsTyped, Quiet, callVars, ptrVars
<1>4. ASSUME NEW u \in Threads
      PROVE  LocalsOK(u)'
  BY DEF TypeOK, LocalsOK, Quiet, callVars, ptrVars
<1>5. UNCHANGED QuietVars
  BY DEF Quiet, QuietVars, tableVars, entryVars
<1> QED
  BY <1>2, <1>3, <1>4, <1>5 DEF TypeOK

\* The types hold at the start.
LEMMA InitTypeOK == Init => TypeOK
<1> SUFFICES ASSUME Init PROVE TypeOK
  OBVIOUS
<1>1. slot \in [Vops -> [Ops -> Functions]]
  <2>1. \A w \in Vops, o \in Ops : Original(w, o) \in Functions
    BY DEF Original, Functions
  <2> QED
    BY <2>1 DEF Init
<1>2. origVop \in [Entries -> [Ops -> Functions]]
  BY DEF Init, Functions
<1>3. SharedTyped
  BY <1>1, <1>2, MaxAuthAssumption DEF Init, SharedTyped
<1>4. LocalsTyped
  <2>1. Null \in Functions
    BY DEF Functions
  <2> QED
    BY <2>1, OpsFact DEF Init, LocalsTyped, Labels
<1>5. ASSUME NEW t \in Threads
      PROVE  LocalsOK(t)
  BY DEF Init, LocalsOK, HookLabels, GetLabels, UnhookLabels
<1> QED
  BY <1>3, <1>4, <1>5 DEF TypeOK

\* The shared and the local variables keep their types, and existingEntry and
\* newEntry of FltHookVnodeVop and FltUnHookVnodeVop are set exactly where the
\* code uses them (VNodeHook.cpp:288-289 and 524).
THEOREM TypeCorrect == Spec => []TypeOK
<1>1. TypeOK /\ [Next]_vars => TypeOK'
  BY NextCases, StepTypeOK, QuietTypeOK
<1> QED
  BY <1>1, InitTypeOK, PTL DEF Spec

-----------------------------------------------------------------------------
(* The reader-writer lock.                                                 *)

\* Where a thread holds the lock shared and where exclusive.
Reads(t)  == pc[t] \in SharedLabels
Writes(t) == pc[t] \in ExclusiveLabels

\* What a step of t does with the lock: nothing, or one of its operations.
LockMoves(t) ==
    \/ UNCHANGED <<readers, writer>> /\ Reads(t)' = Reads(t) /\ Writes(t)' = Writes(t)
    \/ /\ writer = NoThread /\ UNCHANGED writer /\ readers' = readers \cup {t}
       /\ ~Writes(t) /\ Reads(t)' /\ ~Writes(t)'
    \/ /\ readers' = readers \ {t} /\ UNCHANGED writer
       /\ ~Writes(t) /\ ~Reads(t)' /\ ~Writes(t)'
    \/ /\ Writable /\ writer' = t /\ UNCHANGED readers
       /\ ~Reads(t) /\ ~Reads(t)' /\ Writes(t)'
    \/ /\ writer' = NoThread /\ UNCHANGED readers
       /\ Writes(t) /\ ~Reads(t)' /\ ~Writes(t)'

\* Every step does one of these things with the lock.
LEMMA StepLockMoves ==
  ASSUME NEW t \in Threads, Step(t) \/ Start(t),
         pc \in [Threads -> Labels]
  PROVE  LockMoves(t)
<1>1. CASE LockShared(t) \/ LockExclusive(t) \/ UnLockExclusive(t)
  BY <1>1 DEF LockShared, At, Goto, Readable, tableVars, entryVars,
     vnodeVars, callVars, ptrVars, LockExclusive, Writable, UnLockExclusive,
     LockMoves, Reads, Writes, SharedLabels, ExclusiveLabels
<1>2. CASE HookRetrieve(t) \/ GetRetrieve(t) \/ GetRetry(t) \/
          UnhookRetrieve(t)
  BY <1>2 DEF HookRetrieve, Vop, At, UnLockShared, Goto, Take, Count,
     tableVars, vnodeVars, callVars, Retain, GetRetrieve, GetRetry,
     AfterGet, UnhookRetrieve, LockMoves, Reads, Writes, SharedLabels,
     ExclusiveLabels
<1>3. CASE LoopEnd(t) \/ HookCheck(t) \/ HookFound(t) \/ HookAlloc(t) \/
          HookRecheck(t) \/ HookSlot(t) \/ HookRelease(t)
  BY <1>3 DEF LoopEnd, At, Goto, tableVars, entryVars, lockVars, vnodeVars,
     callVars, HookCheck, ptrVars, HookFound, Drop, Release, HookAlloc,
     HookRecheck, Recheck, Count, ExitWithLock, AddEntry, Vop, Retain,
     HookSlot, HookAt, SetOriginalVop, HookRelease, LockMoves, Reads,
     Writes, SharedLabels, ExclusiveLabels
<1>4. CASE HookParent(t) \/ GetEntry(t) \/ CallOriginal(t) \/ UnhookCheck(t)
          \/ UnhookDecrement(t) \/ UnhookRemove(t) \/ UnhookSlot(t)
  BY <1>4 DEF HookParent, At, HasParent, Goto, Return, tableVars, entryVars,
     lockVars, vnodeVars, ptrVars, Enter, GetEntry, Drop, AfterGet, Release,
     CallOriginal, UnhookCheck, callVars, UnhookDecrement, Count,
     UnhookRemove, Vop, UnhookSlot, HookAt, LockMoves, Reads, Writes,
     SharedLabels, ExclusiveLabels
<1>5. CASE UnhookRelease(t) \/ UnhookParent(t) \/ (\E v \in Vnodes :
          KauthCallback(t, v)) \/ (\E v \in Vnodes : Reclaim(t, v)) \/ (\E v
          \in Vnodes, o \in Ops : VnopCall(t, v, o))
  BY <1>5 DEF UnhookRelease, At, Drop, Goto, tableVars, lockVars, vnodeVars,
     callVars, Release, UnhookParent, HasParent, entryVars, ptrVars,
     KauthCallback, Enter, Reclaim, Drained, Jump, VnopCall, LockMoves,
     Reads, Writes, SharedLabels, ExclusiveLabels
<1> QED
  BY <1>1, <1>2, <1>3, <1>4, <1>5 DEF Step, LockStep, HookStep, GetStep,
     UnhookStep, Start

\* Whichever it is, the lock stays exclusive.
LEMMA LockOKStep ==
  ASSUME TypeOK, LockOK, NEW t \in Threads, LockMoves(t),
         \A u \in Threads \ {t} : Stays(u)
  PROVE  LockOK'
<1>1. /\ \A u \in Threads : writer = u <=> Writes(u)
      /\ \A u \in Threads : u \in readers <=> Reads(u)
      /\ writer # NoThread => readers = {}
      /\ readers \subseteq Threads
  BY DEF LockOK, Reads, Writes, TypeOK, SharedTyped
<1>2. \A u \in Threads \ {t} : Reads(u)' = Reads(u) /\ Writes(u)' = Writes(u)
  BY DEF Stays, Reads, Writes
<1>3. /\ \A u \in Threads : writer' = u <=> Writes(u)'
      /\ \A u \in Threads : u \in readers' <=> Reads(u)'
      /\ writer' # NoThread => readers' = {}
  BY <1>1, <1>2, NamesAssumption DEF LockMoves, Writable
<1> QED
  BY <1>3 DEF LockOK, Reads, Writes

-----------------------------------------------------------------------------
(* References and their owners.                                            *)

\* Where a thread holds an entry it allocated and has not added to the table.
Unadded == {"hookExcl", "hookRecheck"}

Keeps(t) ==
    /\ UNCHANGED <<hash, refs, ent, new>>
    /\ pc'[t] \in Unadded => pc[t] \in Unadded
    /\ pc'[t] = "hookLoop" => pc[t] = "hookLoop"
Takes(t, w) ==
    /\ pc[t] \in SharedLabels /\ hash[w] # NoEntry /\ ent[t] = NoEntry
    /\ Take(t, hash[w]) /\ UNCHANGED <<hash, new>>
    /\ pc'[t] \notin Unadded \cup {"hookLoop"}
Drops(t) ==
    /\ ent[t] # NoEntry /\ Drop(t) /\ UNCHANGED <<hash, new>>
    /\ pc'[t] \notin Unadded \cup {"hookLoop"}
Allocates(t, e) ==
    /\ refs[e] = 0 /\ new[t] = NoEntry
    /\ refs' = [refs EXCEPT ![e] = 1] /\ new' = [new EXCEPT ![t] = e]
    /\ UNCHANGED <<hash, ent>>
Adds(t, w) ==
    /\ pc[t] = "hookRecheck" /\ new[t] # NoEntry /\ hash[w] = NoEntry
    /\ AddEntry(w, new[t]) /\ UNCHANGED <<ent, new>>
    /\ pc'[t] = "hookLoop"
Frees(t) ==
    /\ new[t] # NoEntry /\ Release(new[t])
    /\ new' = [new EXCEPT ![t] = NoEntry] /\ UNCHANGED <<hash, ent>>
    /\ pc'[t] \notin Unadded \cup {"hookLoop"}
Removes(t, w) ==
    /\ pc[t] = "unhookRemove" /\ ent[t] # NoEntry
    /\ Release(ent[t])
    /\ ent' = [ent EXCEPT ![t] = hash[w]] /\ hash' = [hash EXCEPT ![w] = NoEntry]
    /\ UNCHANGED new
    /\ pc'[t] \notin Unadded \cup {"hookLoop"}

OwnerMoves(t) ==
    \/ Keeps(t) \/ Drops(t) \/ Frees(t)
    \/ \E w \in Vops : Takes(t, w) \/ Adds(t, w) \/ Removes(t, w)
    \/ \E e \in Entries : Allocates(t, e)

\* Every step does one of these things with the pointers to entries.
LEMMA StepOwnerMoves ==
  ASSUME NEW t \in Threads, Step(t) \/ Start(t),
         LocalsTyped, LocalsOK(t)
  PROVE  OwnerMoves(t)
<1>1. CASE HookRetrieve(t)
  <2>1. Vop(t) \in Vops /\ ent[t] = NoEntry
    BY <1>1, FileSystemAssumption DEF HookRetrieve, At, Vop, LocalsTyped, LocalsOK,
       HookLabels, GetLabels, UnhookLabels
  <2>2. Takes(t, Vop(t)) \/ Keeps(t)
    BY <1>1, <2>1 DEF HookRetrieve, At, Goto, Takes, Keeps, Unadded, SharedLabels,
       LocalsTyped, tableVars
  <2> QED
    BY <2>1, <2>2 DEF OwnerMoves
<1>2. CASE GetRetrieve(t)
  <2>1. Vop(t) \in Vops /\ ent[t] = NoEntry
    BY <1>2, FileSystemAssumption DEF GetRetrieve, At, Vop, LocalsTyped, LocalsOK,
       HookLabels, GetLabels, UnhookLabels
  <2>2. Takes(t, Vop(t)) \/ Keeps(t)
    BY <1>2, <2>1 DEF GetRetrieve, At, Goto, Takes, Keeps, Unadded, SharedLabels,
       LocalsTyped, tableVars
  <2> QED
    BY <2>1, <2>2 DEF OwnerMoves
<1>3. CASE GetRetry(t)
  <2>1. Vop(t) \in Vops /\ ent[t] = NoEntry
    BY <1>3, FileSystemAssumption DEF GetRetry, At, Vop, LocalsTyped, LocalsOK,
       HookLabels, GetLabels, UnhookLabels
  <2>2. Takes(t, Vop(t)) \/ Keeps(t)
    BY <1>3, <2>1 DEF GetRetry, At, Goto, AfterGet, Takes, Keeps, Unadded, SharedLabels,
       LocalsTyped, tableVars
  <2> QED
    BY <2>1, <2>2 DEF OwnerMoves
<1>4. CASE UnhookRetrieve(t)
  <2>1. Vop(t) \in Vops /\ ent[t] = NoEntry
    BY <1>4, FileSystemAssumption DEF UnhookRetrieve, At, Vop, LocalsTyped, LocalsOK,
       HookLabels, GetLabels, UnhookLabels
  <2>2. Takes(t, Vop(t)) \/ Keeps(t)
    BY <1>4, <2>1 DEF UnhookRetrieve, At, Goto, Takes, Keeps, Unadded, SharedLabels,
       LocalsTyped, tableVars
  <2> QED
    BY <2>1, <2>2 DEF OwnerMoves
<1>5. CASE HookFound(t)
  BY <1>5 DEF HookFound, At, Drop, Goto, tableVars, lockVars, vnodeVars,
     callVars, Release, OwnerMoves, Drops, Unadded, LocalsTyped, LocalsOK
<1>6. CASE HookAlloc(t)
  BY <1>6, NamesAssumption DEF HookAlloc, At, Goto, entryVars, tableVars,
     lockVars, vnodeVars, callVars, OwnerMoves, Keeps, Unadded, Allocates,
     LocalsTyped, LocalsOK
<1>7. CASE HookRecheck(t)
  <2>1. Vop(t) \in Vops /\ new[t] # NoEntry /\ pc[t] = "hookRecheck"
    BY <1>7, FileSystemAssumption DEF HookRecheck, At, Vop, LocalsTyped,
       LocalsOK
  <2>2. Adds(t, Vop(t)) \/ Keeps(t)
    BY <1>7, <2>1 DEF HookRecheck, Recheck, ExitWithLock, Goto, Adds, Keeps,
       Unadded, LocalsTyped
  <2> QED
    BY <2>1, <2>2 DEF OwnerMoves
<1>8. CASE HookRelease(t)
  BY <1>8 DEF HookRelease, At, Release, Goto, tableVars, lockVars,
     vnodeVars, callVars, OwnerMoves, Frees, Unadded, LocalsTyped, LocalsOK
<1>9. CASE GetEntry(t)
  BY <1>9 DEF GetEntry, At, Drop, AfterGet, tableVars, lockVars, vnodeVars,
     Release, Goto, OwnerMoves, Drops, Unadded, LocalsTyped, LocalsOK
<1>10. CASE UnhookRemove(t)
  <2>1. Vop(t) \in Vops /\ ent[t] # NoEntry /\ pc[t] = "unhookRemove"
    BY <1>10, FileSystemAssumption DEF UnhookRemove, At, Vop, LocalsTyped,
       LocalsOK
  <2>2. Removes(t, Vop(t)) \/ Keeps(t)
    BY <1>10, <2>1 DEF UnhookRemove, Goto, Removes, Keeps, Unadded, LocalsTyped
  <2> QED
    BY <2>1, <2>2 DEF OwnerMoves
<1>11. CASE UnhookRelease(t)
  BY <1>11 DEF UnhookRelease, At, Drop, Goto, tableVars, lockVars,
     vnodeVars, callVars, Release, OwnerMoves, Keeps, Unadded, Drops,
     LocalsTyped, LocalsOK
<1>12. CASE LockShared(t) \/ LockExclusive(t) \/ UnLockExclusive(t) \/
          LoopEnd(t) \/ HookCheck(t)
  BY <1>12 DEF LockShared, At, Goto, Readable, tableVars, entryVars,
     vnodeVars, callVars, ptrVars, LockExclusive, Writable, UnLockExclusive,
     LoopEnd, lockVars, HookCheck, OwnerMoves, Keeps, Unadded, LocalsTyped
<1>13. CASE HookSlot(t) \/ HookParent(t) \/ CallOriginal(t) \/ UnhookCheck(t)
          \/ UnhookDecrement(t)
  BY <1>13 DEF HookSlot, Vop, HookAt, At, SetOriginalVop, lockVars,
     vnodeVars, callVars, HookParent, HasParent, Goto, Return, tableVars,
     entryVars, ptrVars, Enter, CallOriginal, UnhookCheck, UnhookDecrement,
     Count, OwnerMoves, Keeps, Unadded, LocalsTyped
<1>14. CASE UnhookSlot(t) \/ UnhookParent(t) \/ (\E v \in Vnodes :
          KauthCallback(t, v)) \/ (\E v \in Vnodes : Reclaim(t, v)) \/ (\E v
          \in Vnodes, o \in Ops : VnopCall(t, v, o))
  BY <1>14 DEF UnhookSlot, Vop, HookAt, At, entryVars, lockVars, vnodeVars,
     callVars, UnhookParent, HasParent, Goto, tableVars, ptrVars,
     KauthCallback, Enter, Reclaim, Drained, Jump, VnopCall, OwnerMoves,
     Keeps, Unadded, LocalsTyped
<1> QED
  BY <1>1, <1>2, <1>3, <1>4, <1>5, <1>6, <1>7, <1>8, <1>9, <1>10, <1>11,
     <1>12, <1>13, <1>14 DEF Step, LockStep, HookStep, GetStep, UnhookStep,
     Start

\* The owners of an entry, one by one; they are finitely many.
LEMMA HoldersMembers ==
  ASSUME NEW e
  PROVE  /\ \A x : x \in Holders(e) <=>
              \/ \E w \in Vops : hash[w] = e /\ x = <<"hash", w>>
              \/ \E t \in Threads : ent[t] = e /\ x = <<"ent", t>>
              \/ \E t \in Threads : new[t] = e /\ x = <<"new", t>>
         /\ IsFiniteSet(Holders(e))
<1>1. \A x : x \in Holders(e) <=>
              \/ \E w \in Vops : hash[w] = e /\ x = <<"hash", w>>
              \/ \E t \in Threads : ent[t] = e /\ x = <<"ent", t>>
              \/ \E t \in Threads : new[t] = e /\ x = <<"new", t>>
  BY DEF Holders
<1>2. IsFiniteSet({"hash", "ent", "new"}) /\ IsFiniteSet(Threads \cup Vops)
  <2>1. {"hash", "ent", "new"} = {"hash"} \cup ({"ent"} \cup {"new"})
    OBVIOUS
  <2>2. IsFiniteSet({"ent"} \cup {"new"})
    BY FS_Union, FS_Singleton
  <2>3. IsFiniteSet({"hash"} \cup ({"ent"} \cup {"new"}))
    BY <2>2, FS_Union, FS_Singleton
  <2> QED
    BY <2>1, <2>3, FiniteAssumption, FS_Union
<1>3. IsFiniteSet({"hash", "ent", "new"} \X (Threads \cup Vops))
  BY <1>2, FS_Product
<1>4. Holders(e) \subseteq {"hash", "ent", "new"} \X (Threads \cup Vops)
  BY DEF Holders
<1> QED
  BY <1>1, <1>3, <1>4, FS_Subset

\* An entry gains or loses one owner and one reference, the others none.
LEMMA OneMoreHolder ==
  ASSUME RefsExact, refs \in [Entries -> Int], NEW e \in Entries, NEW x,
         refs' = [refs EXCEPT ![e] = @ + 1],
         x \notin Holders(e), Holders(e)' = Holders(e) \cup {x},
         \A y \in Entries \ {e} : Holders(y)' = Holders(y)
  PROVE  RefsExact'
<1>1. Cardinality(Holders(e) \cup {x}) = Cardinality(Holders(e)) + 1
  BY HoldersMembers, FS_AddElement
<1>2. refs'[e] = Cardinality(Holders(e)')
  BY <1>1 DEF RefsExact
<1>3. \A y \in Entries \ {e} : refs'[y] = Cardinality(Holders(y)')
  BY DEF RefsExact
<1> QED
  BY <1>2, <1>3 DEF RefsExact

\* An entry loses one owner and one reference, the others keep theirs.
LEMMA OneLessHolder ==
  ASSUME RefsExact, refs \in [Entries -> Int], NEW e \in Entries,
         refs' = [refs EXCEPT ![e] = @ - 1],
         NEW x \in Holders(e), Holders(e)' = Holders(e) \ {x},
         \A y \in Entries \ {e} : Cardinality(Holders(y)') = Cardinality(Holders(y))
  PROVE  RefsExact'
<1>1. Cardinality(Holders(e) \ {x}) = Cardinality(Holders(e)) - 1
  BY HoldersMembers, FS_RemoveElement
<1>2. refs'[e] = Cardinality(Holders(e)')
  BY <1>1 DEF RefsExact
<1>3. \A y \in Entries \ {e} : refs'[y] = Cardinality(Holders(y)')
  BY DEF RefsExact
<1> QED
  BY <1>2, <1>3 DEF RefsExact

\* An entry without references has no owners.
LEMMA FreeEntry ==
  ASSUME RefsExact, NEW e \in Entries, refs[e] = 0
  PROVE  /\ Holders(e) = {}
         /\ \A w \in Vops : hash[w] # e
         /\ \A t \in Threads : ent[t] # e /\ new[t] # e
<1>1. Holders(e) = {}
  BY HoldersMembers, FS_EmptySet DEF RefsExact
<1> QED
  BY <1>1, HoldersMembers

\* How the owners of an entry follow from a change of one pointer.
LEMMA EntSet ==
  ASSUME ent \in [Threads -> Entries \cup {NoEntry}], NEW t \in Threads,
         NEW e \in Entries, ent[t] = NoEntry,
         ent' = [ent EXCEPT ![t] = e], UNCHANGED <<hash, new>>
  PROVE  /\ <<"ent", t>> \notin Holders(e)
         /\ Holders(e)' = Holders(e) \cup {<<"ent", t>>}
         /\ \A y \in Entries \ {e} : Holders(y)' = Holders(y)
  BY NamesAssumption DEF Holders

\* The same when a retrieved entry is dropped,
LEMMA EntCleared ==
  ASSUME ent \in [Threads -> Entries \cup {NoEntry}], NEW t \in Threads,
         NEW e \in Entries, ent[t] = e,
         ent' = [ent EXCEPT ![t] = NoEntry], UNCHANGED <<hash, new>>
  PROVE  /\ <<"ent", t>> \in Holders(e)
         /\ Holders(e)' = Holders(e) \ {<<"ent", t>>}
         /\ \A y \in Entries \ {e} : Holders(y)' = Holders(y)
  BY NamesAssumption DEF Holders

\* when a new entry is allocated,
LEMMA NewSet ==
  ASSUME new \in [Threads -> Entries \cup {NoEntry}], NEW t \in Threads,
         NEW e \in Entries, new[t] = NoEntry,
         new' = [new EXCEPT ![t] = e], UNCHANGED <<hash, ent>>
  PROVE  /\ <<"new", t>> \notin Holders(e)
         /\ Holders(e)' = Holders(e) \cup {<<"new", t>>}
         /\ \A y \in Entries \ {e} : Holders(y)' = Holders(y)
  BY NamesAssumption DEF Holders

\* when it is released,
LEMMA NewCleared ==
  ASSUME new \in [Threads -> Entries \cup {NoEntry}], NEW t \in Threads,
         NEW e \in Entries, new[t] = e,
         new' = [new EXCEPT ![t] = NoEntry], UNCHANGED <<hash, ent>>
  PROVE  /\ <<"new", t>> \in Holders(e)
         /\ Holders(e)' = Holders(e) \ {<<"new", t>>}
         /\ \A y \in Entries \ {e} : Holders(y)' = Holders(y)
  BY NamesAssumption DEF Holders

\* and when it is added to the table.
LEMMA HashSet ==
  ASSUME hash \in [Vops -> Entries \cup {NoEntry}], NEW w \in Vops,
         NEW e \in Entries, hash[w] = NoEntry,
         hash' = [hash EXCEPT ![w] = e], UNCHANGED <<ent, new>>
  PROVE  /\ <<"hash", w>> \notin Holders(e)
         /\ Holders(e)' = Holders(e) \cup {<<"hash", w>>}
         /\ \A y \in Entries \ {e} : Holders(y)' = Holders(y)
  BY NamesAssumption DEF Holders

\* FltUnHookVnodeVop removes an entry r while it has the entry e.
LEMMA EntReplaced ==
  ASSUME ent \in [Threads -> Entries \cup {NoEntry}],
         hash \in [Vops -> Entries \cup {NoEntry}],
         NEW t \in Threads, NEW w \in Vops, NEW e \in Entries, ent[t] = e,
         hash[w] # e,
         ent' = [ent EXCEPT ![t] = hash[w]], hash' = [hash EXCEPT ![w] = NoEntry],
         UNCHANGED new
  PROVE  /\ <<"ent", t>> \in Holders(e)
         /\ Holders(e)' = Holders(e) \ {<<"ent", t>>}
         /\ \A y \in Entries \ {e} : y # hash[w] => Holders(y)' = Holders(y)
  BY NamesAssumption DEF Holders

\* The removed entry goes from the table to the thread.
LEMMA EntMoved ==
  ASSUME ent \in [Threads -> Entries \cup {NoEntry}],
         hash \in [Vops -> Entries \cup {NoEntry}],
         NEW t \in Threads, NEW w \in Vops, NEW r \in Entries, ent[t] # r,
         hash[w] = r,
         ent' = [ent EXCEPT ![t] = r], hash' = [hash EXCEPT ![w] = NoEntry],
         UNCHANGED new
  PROVE  /\ <<"hash", w>> \in Holders(r)
         /\ <<"ent", t>> \notin Holders(r)
         /\ Holders(r)' = (Holders(r) \ {<<"hash", w>>}) \cup {<<"ent", t>>}
  BY NamesAssumption DEF Holders

\* If it is the entry the thread had, only the table's ownership ends.
LEMMA EntRemoved ==
  ASSUME ent \in [Threads -> Entries \cup {NoEntry}],
         hash \in [Vops -> Entries \cup {NoEntry}],
         NEW t \in Threads, NEW w \in Vops, NEW e \in Entries, ent[t] = e,
         hash[w] = e, ent' = ent, hash' = [hash EXCEPT ![w] = NoEntry],
         UNCHANGED new
  PROVE  /\ <<"hash", w>> \in Holders(e)
         /\ Holders(e)' = Holders(e) \ {<<"hash", w>>}
         /\ \A y \in Entries \ {e} : Holders(y)' = Holders(y)
  BY NamesAssumption DEF Holders

\* Whatever a step does with the pointers, the references follow.
LEMMA RefsExactStep ==
  ASSUME TypeOK, RefsExact, NEW t \in Threads, OwnerMoves(t)
  PROVE  RefsExact'
<1>1. /\ refs \in [Entries -> Int] /\ hash \in [Vops -> Entries \cup {NoEntry}]
      /\ ent \in [Threads -> Entries \cup {NoEntry}]
      /\ new \in [Threads -> Entries \cup {NoEntry}]
      /\ NoEntry \notin Entries
  BY NamesAssumption DEF TypeOK, SharedTyped, LocalsTyped
<1>2. CASE Keeps(t)
  BY <1>2 DEF Keeps, RefsExact, Holders
<1>3. ASSUME NEW w \in Vops, Takes(t, w)
      PROVE  RefsExact'
  <2> DEFINE e == hash[w]
  <2>1. /\ e \in Entries /\ refs' = [refs EXCEPT ![e] = @ + 1]
        /\ ent[t] = NoEntry /\ ent' = [ent EXCEPT ![t] = e]
        /\ UNCHANGED <<hash, new>>
    BY <1>1, <1>3 DEF Takes, Take, Retain
  <2> QED
    BY <1>1, <2>1, EntSet, OneMoreHolder
<1>4. CASE Drops(t)
  <2>1. PICK e \in Entries : e = ent[t]
    BY <1>1, <1>4 DEF Drops
  <2>2. /\ refs' = [refs EXCEPT ![e] = @ - 1]
        /\ ent' = [ent EXCEPT ![t] = NoEntry] /\ UNCHANGED <<hash, new>>
    BY <1>4, <2>1 DEF Drops, Drop, Release
  <2> QED
    BY <1>1, <2>1, <2>2, EntCleared, OneLessHolder
<1>5. ASSUME NEW e \in Entries, Allocates(t, e)
      PROVE  RefsExact'
  <2>1. /\ refs' = [refs EXCEPT ![e] = @ + 1]
        /\ new[t] = NoEntry /\ new' = [new EXCEPT ![t] = e]
        /\ UNCHANGED <<hash, ent>>
    BY <1>1, <1>5 DEF Allocates
  <2> QED
    BY <1>1, <2>1, NewSet, OneMoreHolder
<1>6. ASSUME NEW w \in Vops, Adds(t, w)
      PROVE  RefsExact'
  <2> DEFINE e == new[t]
  <2>1. /\ e \in Entries /\ refs' = [refs EXCEPT ![e] = @ + 1]
        /\ hash[w] = NoEntry /\ hash' = [hash EXCEPT ![w] = e]
        /\ UNCHANGED <<ent, new>>
    BY <1>1, <1>6 DEF Adds, AddEntry, Retain
  <2> QED
    BY <1>1, <2>1, HashSet, OneMoreHolder
<1>7. CASE Frees(t)
  <2>1. PICK e \in Entries : e = new[t]
    BY <1>1, <1>7 DEF Frees
  <2>2. /\ refs' = [refs EXCEPT ![e] = @ - 1]
        /\ new' = [new EXCEPT ![t] = NoEntry] /\ UNCHANGED <<hash, ent>>
    BY <1>7, <2>1 DEF Frees, Release
  <2> QED
    BY <1>1, <2>1, <2>2, NewCleared, OneLessHolder
<1>8. ASSUME NEW w \in Vops, Removes(t, w)
      PROVE  RefsExact'
  <2>1. PICK e \in Entries : e = ent[t]
    BY <1>1, <1>8 DEF Removes
  <2>2. /\ refs' = [refs EXCEPT ![e] = @ - 1]
        /\ ent' = [ent EXCEPT ![t] = hash[w]]
        /\ hash' = [hash EXCEPT ![w] = NoEntry] /\ UNCHANGED new
    BY <1>8, <2>1 DEF Removes, Release
  <2>3. CASE hash[w] = e
    <3>1. ent' = ent
      BY <1>1, <2>1, <2>2, <2>3
    <3> QED
      BY <1>1, <2>1, <2>2, <2>3, <3>1, EntRemoved, OneLessHolder, ZenonT(60)
  <2>4. CASE hash[w] # e
    <3>1. /\ <<"ent", t>> \in Holders(e)
          /\ Holders(e)' = Holders(e) \ {<<"ent", t>>}
          /\ \A y \in Entries \ {e} : y # hash[w] => Holders(y)' = Holders(y)
      BY <1>1, <2>1, <2>2, <2>4, EntReplaced, ZenonT(40)
    <3>2. ASSUME NEW r \in Entries, r = hash[w]
          PROVE  Cardinality(Holders(r)') = Cardinality(Holders(r))
      <4>1. /\ <<"hash", w>> \in Holders(r) /\ <<"ent", t>> \notin Holders(r)
            /\ Holders(r)' = (Holders(r) \ {<<"hash", w>>}) \cup {<<"ent", t>>}
        BY <1>1, <2>1, <2>2, <2>4, <3>2, EntMoved
      <4> DEFINE S == Holders(r) \ {<<"hash", w>>}
      <4>2. IsFiniteSet(Holders(r)) /\ Cardinality(Holders(r)) \in Nat
        BY HoldersMembers, FS_CardinalityType
      <4>3. IsFiniteSet(S) /\ Cardinality(S) = Cardinality(Holders(r)) - 1
        BY <4>1, <4>2, FS_RemoveElement
      <4>4. Cardinality(S \cup {<<"ent", t>>}) = Cardinality(S) + 1
        BY <4>1, <4>3, FS_AddElement
      <4> HIDE DEF S
      <4>5. Cardinality(S \cup {<<"ent", t>>}) = Cardinality(Holders(r))
        BY <4>2, <4>3, <4>4
      <4> QED
        BY <4>1, <4>5 DEF S
    <3>3. \A y \in Entries \ {e} : Cardinality(Holders(y)') = Cardinality(Holders(y))
      BY <3>1, <3>2
    <3> QED
      BY <1>1, <2>2, <3>1, <3>3, OneLessHolder
  <2> QED
    BY <2>3, <2>4
<1> QED
  BY <1>2, <1>3, <1>4, <1>5, <1>6, <1>7, <1>8 DEF OwnerMoves

\* OwnersOK in four named parts.
HashInjective == \A w, x \in Vops : hash[w] # NoEntry /\ hash[w] = hash[x] => w = x
NewInjective == \A t, u \in Threads : new[t] # NoEntry /\ new[t] = new[u] => t = u
NewUnadded ==
    \A u \in Threads : pc[u] \in Unadded => \A w \in Vops : hash[w] # new[u]
NewNotEnt ==
    \A u, s \in Threads :
        pc[u] \in Unadded \cup {"hookLoop"} => ent[s] # new[u]

\* OwnersOK is these four parts.
LEMMA OwnersParts == OwnersOK <=> HashInjective /\ NewInjective /\ NewUnadded /\ NewNotEnt
  BY DEF OwnersOK, HashInjective, NewInjective, NewUnadded, NewNotEnt, Unadded

\* Each of the seven pointer moves keeps the four parts.
LEMMA OwnersOKStep ==
  ASSUME TypeOK, LockOK, RefsExact, OwnersOK, NEW t \in Threads, OwnerMoves(t),
         pc' = [pc EXCEPT ![t] = pc'[t]]
  PROVE  OwnersOK'
<1>1. /\ refs \in [Entries -> Int] /\ hash \in [Vops -> Entries \cup {NoEntry}]
      /\ ent \in [Threads -> Entries \cup {NoEntry}]
      /\ new \in [Threads -> Entries \cup {NoEntry}]
      /\ pc \in [Threads -> Labels] /\ NoEntry \notin Entries
  BY NamesAssumption DEF TypeOK, SharedTyped, LocalsTyped
<1>2. /\ HashInjective /\ NewInjective /\ NewUnadded /\ NewNotEnt
      /\ \A u \in Threads : pc[u] \in Unadded \cup {"hookLoop"} => new[u] # NoEntry
  BY OwnersParts DEF TypeOK, LocalsOK, Unadded
<1>3. ASSUME NEW u \in Threads, pc[u] = "hookLoop"
      PROVE  writer = u /\ \A s \in Threads : pc[s] \notin SharedLabels /\
                                             (pc[s] = "unhookRemove" => s = u)
  BY <1>3, NamesAssumption DEF LockOK, ExclusiveLabels
<1> SUFFICES (HashInjective /\ NewInjective /\ NewUnadded /\ NewNotEnt)'
  BY DEF OwnersOK, HashInjective, NewInjective, NewUnadded, NewNotEnt, Unadded
<1>4. CASE Keeps(t)
  BY <1>1, <1>2, <1>4 DEF Keeps, HashInjective, NewInjective, NewUnadded, NewNotEnt
<1>5. ASSUME NEW w \in Vops, Takes(t, w)
      PROVE  (HashInjective /\ NewInjective /\ NewUnadded /\ NewNotEnt)'
  <2>1. \A u \in Threads : pc[u] \in Unadded \cup {"hookLoop"} => hash[w] # new[u]
    BY <1>2, <1>3, <1>5 DEF Takes, NewUnadded
  <2>2. (HashInjective /\ NewInjective)'
    BY <1>2, <1>5 DEF Takes, HashInjective, NewInjective
  <2>3. NewUnadded' /\ NewNotEnt'
    BY <1>1, <1>2, <1>5, <2>1 DEF Takes, Take, NewUnadded, NewNotEnt
  <2> QED
    BY <2>2, <2>3
<1>6. CASE Drops(t)
  <2>1. (HashInjective /\ NewInjective /\ NewUnadded)'
    BY <1>1, <1>2, <1>6 DEF Drops, HashInjective, NewInjective, NewUnadded
  <2>2. NewNotEnt'
    BY <1>1, <1>2, <1>6 DEF Drops, Drop, NewNotEnt
  <2> QED
    BY <2>1, <2>2
<1>7. ASSUME NEW e \in Entries, Allocates(t, e)
      PROVE  (HashInjective /\ NewInjective /\ NewUnadded /\ NewNotEnt)'
  <2>1. /\ \A w \in Vops : hash[w] # e
        /\ \A u \in Threads : ent[u] # e /\ new[u] # e
    BY <1>7, FreeEntry DEF Allocates
  <2>2. (HashInjective /\ NewInjective)'
    BY <1>1, <1>2, <1>7, <2>1 DEF Allocates, HashInjective, NewInjective
  <2>3. NewUnadded' /\ NewNotEnt'
    BY <1>1, <1>2, <1>7, <2>1 DEF Allocates, NewUnadded, NewNotEnt
  <2> QED
    BY <2>2, <2>3
<1>8. ASSUME NEW w \in Vops, Adds(t, w)
      PROVE  (HashInjective /\ NewInjective /\ NewUnadded /\ NewNotEnt)'
  <2>1. /\ pc[t] \in Unadded /\ new[t] \in Entries
        /\ \A x \in Vops : hash[x] # new[t]
        /\ \A u \in Threads : u # t => new[u] # new[t]
        /\ \A u \in Threads : ent[u] # new[t]
    BY <1>1, <1>2, <1>8 DEF Adds, Unadded, NewInjective, NewUnadded, NewNotEnt
  <2>2. (HashInjective /\ NewInjective)'
    BY <1>1, <1>2, <1>8, <2>1 DEF Adds, AddEntry, HashInjective, NewInjective
  <2>3. NewUnadded'
    BY <1>1, <1>2, <1>8, <2>1 DEF Adds, AddEntry, NewUnadded, Unadded
  <2>4. NewNotEnt'
    BY <1>1, <1>2, <1>8, <2>1 DEF Adds, NewNotEnt
  <2> QED
    BY <2>2, <2>3, <2>4
<1>9. CASE Frees(t)
  BY <1>1, <1>2, <1>9 DEF Frees, HashInjective, NewInjective, NewUnadded, NewNotEnt
<1>10. ASSUME NEW w \in Vops, Removes(t, w)
       PROVE  (HashInjective /\ NewInjective /\ NewUnadded /\ NewNotEnt)'
  <2>1. \A u \in Threads \ {t} :
          pc[u] \in Unadded \cup {"hookLoop"} => hash[w] # new[u]
    BY <1>2, <1>3, <1>10 DEF Removes, NewUnadded
  <2>2. (HashInjective /\ NewInjective)'
    BY <1>1, <1>2, <1>10 DEF Removes, HashInjective, NewInjective
  <2>3. NewUnadded'
    BY <1>1, <1>2, <1>10 DEF Removes, NewUnadded
  <2>4. NewNotEnt'
    BY <1>1, <1>2, <1>10, <2>1 DEF Removes, NewNotEnt
  <2> QED
    BY <2>2, <2>3, <2>4
<1> QED
  BY <1>4, <1>5, <1>6, <1>7, <1>8, <1>9, <1>10 DEF OwnerMoves

-----------------------------------------------------------------------------
(* The slots and the table.                                                *)

Loops == {"hookLoop", "unhookLoop"}

\* Vector w outside the loops, and slot k of the vectors inside them.
Settled(w) ==
    \A o \in Ops : IF hash[w] # NoEntry /\ o \in KnownOps
                   THEN Hooked(w, o, hash[w]) ELSE Plain(w, o)

\* What a step of t does with the slots, the table and the saved functions.
Leaves(t) ==
    UNCHANGED <<slot, hash, origVop>> /\ pc[t] \notin Loops /\ pc'[t] \notin Loops
Clears(t, e) ==
    /\ UNCHANGED <<slot, hash>> /\ pc[t] \notin Loops /\ pc'[t] \notin Loops
    /\ refs[e] = 0 /\ \E f : origVop' = [origVop EXCEPT ![e] = f]
StartsHooking(t, w) ==
    /\ UNCHANGED <<slot, origVop, cur, new>> /\ w = Vop(t)
    /\ hash[w] = NoEntry /\ hash' = [hash EXCEPT ![w] = new[t]]
    /\ pc[t] = "hookRecheck" /\ pc'[t] = "hookLoop" /\ idx'[t] = 1
StartsUnhooking(t, w) ==
    /\ UNCHANGED <<slot, origVop, cur>> /\ w = Vop(t)
    /\ hash[w] # NoEntry /\ hash' = [hash EXCEPT ![w] = NoEntry]
    /\ pc[t] = "unhookRemove" /\ pc'[t] = "unhookLoop" /\ idx'[t] = 1
    /\ ent'[t] = hash[w]
Rewrites(t) ==
    /\ UNCHANGED <<hash, pc, cur, ent, new>>
    /\ HookSlot(t) \/ UnhookSlot(t)
EndsLoop(t) ==
    /\ UNCHANGED <<slot, hash, origVop, cur>> /\ pc[t] \in Loops
    /\ pc'[t] \notin Loops /\ idx[t] > Len(HookOps)

TableMoves(t) ==
    \/ Leaves(t) \/ Rewrites(t) \/ EndsLoop(t)
    \/ \E w \in Vops : StartsHooking(t, w) \/ StartsUnhooking(t, w)
    \/ \E e \in Entries : Clears(t, e)

\* Every step does one of these things with the slots and the table.
LEMMA StepTableMoves ==
  ASSUME NEW t \in Threads, Step(t) \/ Start(t),
         SharedTyped, LocalsTyped, LocalsOK(t)
  PROVE  TableMoves(t)
<1>1. CASE LoopEnd(t)
  BY <1>1, OpsFact DEF LoopEnd, At, Goto, tableVars, entryVars, lockVars,
     vnodeVars, callVars, TableMoves, EndsLoop, Loops, LocalsTyped
<1>2. CASE HookAlloc(t)
  BY <1>2 DEF HookAlloc, At, Goto, entryVars, tableVars, lockVars,
     vnodeVars, callVars, LocalsTyped, Clears, TableMoves, Leaves, Loops
<1>3. CASE HookSlot(t) \/ UnhookSlot(t)
  BY <1>3 DEF TableMoves, Rewrites, HookSlot, UnhookSlot, callVars
<1>4. CASE HookRecheck(t)
  <2>1. Vop(t) \in Vops
    BY <1>4, FileSystemAssumption DEF HookRecheck, At, Vop, LocalsTyped,
       LocalsOK
  <2>2. StartsHooking(t, Vop(t)) \/ Leaves(t)
    BY <1>4, <2>1 DEF HookRecheck, Recheck, AddEntry, ExitWithLock, At, Goto,
       StartsHooking, Leaves, Loops, LocalsTyped, callVars
  <2> QED
    BY <2>1, <2>2 DEF TableMoves
<1>5. CASE UnhookRemove(t)
  <2>1. Vop(t) \in Vops
    BY <1>5, FileSystemAssumption DEF UnhookRemove, At, Vop, LocalsTyped,
       LocalsOK
  <2>2. hash[Vop(t)] = NoEntry => [hash EXCEPT ![Vop(t)] = NoEntry] = hash
    BY <2>1 DEF SharedTyped
  <2>3. StartsUnhooking(t, Vop(t)) \/ Leaves(t)
    BY <1>5, <2>1, <2>2 DEF UnhookRemove, At, Goto, StartsUnhooking, Leaves,
       Loops, LocalsTyped, callVars
  <2> QED
    BY <2>1, <2>3 DEF TableMoves
<1>6. CASE LockShared(t) \/ LockExclusive(t) \/ UnLockExclusive(t) \/
          HookCheck(t) \/ HookRetrieve(t)
  BY <1>6 DEF LockShared, At, Goto, Readable, tableVars, entryVars,
     vnodeVars, callVars, ptrVars, LockExclusive, Writable, UnLockExclusive,
     HookCheck, lockVars, HookRetrieve, Vop, UnLockShared, Take, Count,
     Retain, LocalsTyped, TableMoves, Leaves, Loops
<1>7. CASE HookFound(t) \/ HookRelease(t) \/ HookParent(t) \/ GetRetrieve(t)
          \/ GetRetry(t)
  BY <1>7 DEF HookFound, At, Drop, Goto, tableVars, lockVars, vnodeVars,
     callVars, Release, HookRelease, HookParent, HasParent, Return,
     entryVars, ptrVars, Enter, GetRetrieve, Vop, UnLockShared, Take,
     Retain, GetRetry, AfterGet, LocalsTyped, TableMoves, Leaves, Loops
<1>8. CASE GetEntry(t) \/ CallOriginal(t) \/ UnhookCheck(t) \/
          UnhookRetrieve(t) \/ UnhookDecrement(t)
  BY <1>8 DEF GetEntry, At, Drop, AfterGet, tableVars, lockVars, vnodeVars,
     Release, Goto, CallOriginal, Return, entryVars, ptrVars, Enter,
     UnhookCheck, callVars, UnhookRetrieve, Vop, UnLockShared, Take, Retain,
     UnhookDecrement, Count, LocalsTyped, TableMoves, Leaves, Loops
<1>9. CASE UnhookRelease(t) \/ UnhookParent(t) \/ (\E v \in Vnodes :
          KauthCallback(t, v)) \/ (\E v \in Vnodes : Reclaim(t, v)) \/ (\E v
          \in Vnodes, o \in Ops : VnopCall(t, v, o))
  BY <1>9 DEF UnhookRelease, At, Drop, Goto, tableVars, lockVars, vnodeVars,
     callVars, Release, UnhookParent, HasParent, entryVars, ptrVars,
     KauthCallback, Enter, Reclaim, Drained, Jump, VnopCall, LocalsTyped,
     TableMoves, Leaves, Loops
<1> QED
  BY <1>1, <1>2, <1>3, <1>4, <1>5, <1>6, <1>7, <1>8, <1>9 DEF Step,
     LockStep, HookStep, GetStep, UnhookStep, Start

\* A thread in a loop is alone with its vector, and with the table.
LEMMA LoopAlone ==
  ASSUME TypeOK, LockOK, NEW t \in Threads, pc[t] \in ExclusiveLabels
  PROVE  /\ \A u \in Threads \ {t} : pc[u] \notin ExclusiveLabels \cup SharedLabels
         /\ \A u \in Threads \ {t} : pc[u] \notin Loops
         /\ \A x \in Vops : Rewriting(x) => pc[t] \in Loops /\ Vop(t) = x
  BY NamesAssumption DEF LockOK, Loops, ExclusiveLabels, Rewriting

\* SlotsOK by vector and by thread.
LEMMA SlotsParts ==
  SlotsOK <=>
    /\ \A x \in Vops : Rewriting(x) \/ Settled(x)
    /\ \A t \in Threads : pc[t] = "hookLoop" => Hooking(t)
    /\ \A t \in Threads : pc[t] = "unhookLoop" => Unhooking(t)
  BY DEF SlotsOK, SlotsMatchTable, Settled, Hooked, Plain

\* A step outside the loops keeps SlotsOK if it writes the saved functions
\* of a free entry at most.
LEMMA LeavesSlotsOK ==
  ASSUME TypeOK, LocalsTyped', SlotsOK, NEW t \in Threads,
         \A u \in Threads \ {t} : Stays(u), UNCHANGED <<slot, hash>>,
         pc[t] \notin Loops, pc'[t] \notin Loops,
         \A e \in Entries :
            \/ origVop'[e] = origVop[e]
            \/ /\ \A w \in Vops : hash[w] # e
               /\ \A u \in Threads : ent[u] # e /\ new[u] # e
  PROVE  SlotsOK'
<1>1. /\ \A x \in Vops : Rewriting(x) \/ Settled(x)
      /\ \A u \in Threads : pc[u] = "hookLoop" => Hooking(u)
      /\ \A u \in Threads : pc[u] = "unhookLoop" => Unhooking(u)
  BY SlotsParts
<1>2. \A w \in Vops : Rewriting(w) => Rewriting(w)'
  BY DEF Rewriting, Loops, Stays, Vop
<1>3. \A w \in Vops : Settled(w) => Settled(w)'
  BY DEF Settled, Hooked, Plain, TypeOK, SharedTyped
<1>4. ASSUME NEW u \in Threads, pc'[u] \in Loops
      PROVE  u # t /\ Stays(u) /\ Vop(u)' = Vop(u)
  BY <1>4 DEF Vop, Stays
<1>5. ASSUME NEW u \in Threads, pc'[u] = "hookLoop"
      PROVE  Hooking(u)'
  <2>1. Hooking(u) /\ Stays(u) /\ Vop(u)' = Vop(u)
    BY <1>1, <1>4, <1>5 DEF Loops, Stays
  <2>2. new[u] \in Entries /\ origVop'[new[u]] = origVop[new[u]]
    BY <1>4, <1>5 DEF TypeOK, LocalsTyped, LocalsOK, Stays, Loops
  <2> QED
    BY <2>1, <2>2 DEF Hooking, Hooked, Plain, Stays
<1>6. ASSUME NEW u \in Threads, pc'[u] = "unhookLoop"
      PROVE  Unhooking(u)'
  <2>1. Unhooking(u) /\ Stays(u) /\ Vop(u)' = Vop(u)
    BY <1>1, <1>4, <1>6 DEF Loops, Stays
  <2>2. ent[u] \in Entries /\ origVop'[ent[u]] = origVop[ent[u]]
    BY <1>4, <1>6 DEF TypeOK, LocalsTyped, LocalsOK, Stays, Loops
  <2> QED
    BY <2>1, <2>2 DEF Unhooking, Hooked, Plain, Stays
<1> QED
  BY <1>1, <1>2, <1>3, <1>5, <1>6 DEF SlotsOK, SlotsMatchTable, Settled, Hooked, Plain

\* AddEntry: a plain vector is in the hooking loop, at its first slot.
LEMMA StartsHookingSlotsOK ==
  ASSUME TypeOK, LockOK, OwnersOK, SlotsOK, NEW t \in Threads,
         \A u \in Threads \ {t} : Stays(u), NEW w \in Vops, StartsHooking(t, w)
  PROVE  SlotsOK'
<1>1. /\ slot \in [Vops -> [Ops -> Functions]]
      /\ hash \in [Vops -> Entries \cup {NoEntry}]
      /\ origVop \in [Entries -> [Ops -> Functions]]
      /\ new[t] \in Entries \cup {NoEntry} /\ ent[t] \in Entries \cup {NoEntry}
  BY DEF TypeOK, SharedTyped, LocalsTyped
<1>2. /\ \A x \in Vops : Rewriting(x) \/ Settled(x)
      /\ pc[t] = "hookLoop" => Hooking(t)
      /\ pc[t] = "unhookLoop" => Unhooking(t)
  BY SlotsParts
<1>3. /\ \A u \in Threads \ {t} : pc[u] \notin Loops /\ pc'[u] \notin Loops
      /\ \A x \in Vops : Rewriting(x) => pc[t] \in Loops /\ Vop(t) = x
  BY LoopAlone DEF Stays, StartsHooking, ExclusiveLabels
<1>4. Settled(w) /\ Vop(t)' = w /\ Rewriting(w)'
  BY <1>2, <1>3 DEF StartsHooking, Loops, Rewriting, Vop
<1>5. \A k \in 1..Len(HookOps) : Plain(w, HookOps[k])
  BY <1>4, OpsFact DEF Settled, StartsHooking
<1>6. Hooking(t)'
  BY <1>1, <1>4, <1>5 DEF Hooking, Plain, StartsHooking
<1>7. ASSUME NEW x \in Vops, x # w
      PROVE  Settled(x)'
  <2>1. Settled(x)
    BY <1>2, <1>3, <1>7 DEF StartsHooking, Loops
  <2> QED
    BY <1>1, <1>7, <2>1 DEF Settled, Hooked, Plain, StartsHooking
<1> QED
  BY <1>3, <1>4, <1>6, <1>7 DEF SlotsOK, SlotsMatchTable, Settled, Hooked, Plain,
     StartsHooking, Loops

\* RemoveEntry: a hooked vector is in the unhooking loop, at its first
\* slot.
LEMMA StartsUnhookingSlotsOK ==
  ASSUME TypeOK, LockOK, OwnersOK, SlotsOK, NEW t \in Threads,
         \A u \in Threads \ {t} : Stays(u), NEW w \in Vops, StartsUnhooking(t, w)
  PROVE  SlotsOK'
<1>1. /\ slot \in [Vops -> [Ops -> Functions]]
      /\ hash \in [Vops -> Entries \cup {NoEntry}]
      /\ origVop \in [Entries -> [Ops -> Functions]]
      /\ new[t] \in Entries \cup {NoEntry} /\ ent[t] \in Entries \cup {NoEntry}
  BY DEF TypeOK, SharedTyped, LocalsTyped
<1>2. /\ \A x \in Vops : Rewriting(x) \/ Settled(x)
      /\ pc[t] = "hookLoop" => Hooking(t)
      /\ pc[t] = "unhookLoop" => Unhooking(t)
  BY SlotsParts
<1>3. /\ \A u \in Threads \ {t} : pc[u] \notin Loops /\ pc'[u] \notin Loops
      /\ \A x \in Vops : Rewriting(x) => pc[t] \in Loops /\ Vop(t) = x
  BY LoopAlone DEF Stays, StartsUnhooking, ExclusiveLabels
<1>4. Settled(w) /\ Vop(t)' = w /\ Rewriting(w)'
  BY <1>2, <1>3 DEF StartsUnhooking, Loops, Rewriting, Vop
<1>5. \A k \in 1..Len(HookOps) :
         IF HookOps[k] \in KnownOps THEN Hooked(w, HookOps[k], hash[w])
         ELSE Plain(w, HookOps[k])
  BY <1>4, OpsFact DEF Settled, StartsUnhooking
<1>6. Unhooking(t)'
  BY <1>1, <1>4, <1>5 DEF Unhooking, Hooked, Plain, StartsUnhooking
<1>7. ASSUME NEW x \in Vops, x # w
      PROVE  Settled(x)'
  <2>1. Settled(x)
    BY <1>2, <1>3, <1>7 DEF StartsUnhooking, Loops
  <2> QED
    BY <1>1, <1>7, <2>1 DEF Settled, Hooked, Plain, StartsUnhooking
<1> QED
  BY <1>3, <1>4, <1>6, <1>7 DEF SlotsOK, SlotsMatchTable, Settled, Hooked, Plain,
     StartsUnhooking, Loops

\* Past the last slot the vector agrees with the table again.
LEMMA EndsLoopSlotsOK ==
  ASSUME TypeOK, LockOK, OwnersOK, SlotsOK, NEW t \in Threads,
         \A u \in Threads \ {t} : Stays(u), EndsLoop(t)
  PROVE  SlotsOK'
<1>0. Vop(t) \in Vops /\ pc[t] \in ExclusiveLabels /\ idx[t] \in Int
  BY FileSystemAssumption DEF TypeOK, LocalsTyped, LocalsOK, EndsLoop, Loops, Vop,
     ExclusiveLabels
<1>1. /\ slot \in [Vops -> [Ops -> Functions]]
      /\ hash \in [Vops -> Entries \cup {NoEntry}]
      /\ origVop \in [Entries -> [Ops -> Functions]]
      /\ new[t] \in Entries \cup {NoEntry} /\ ent[t] \in Entries \cup {NoEntry}
  BY DEF TypeOK, SharedTyped, LocalsTyped
<1>2. /\ \A x \in Vops : Rewriting(x) \/ Settled(x)
      /\ pc[t] = "hookLoop" => Hooking(t)
      /\ pc[t] = "unhookLoop" => Unhooking(t)
  BY SlotsParts
<1>3. /\ \A u \in Threads \ {t} : pc[u] \notin Loops /\ pc'[u] \notin Loops
      /\ \A x \in Vops : Rewriting(x) => pc[t] \in Loops /\ Vop(t) = x
  BY <1>0, LoopAlone DEF Stays
<1>4. ASSUME NEW x \in Vops
      PROVE  Settled(x)
  <2>1. CASE x # Vop(t)
    BY <1>2, <1>3, <2>1
  <2>2. CASE x = Vop(t) /\ pc[t] = "hookLoop"
    <3>1. /\ hash[x] = new[t] /\ new[t] # NoEntry
          /\ \A k \in 1..Len(HookOps) :
                IF HookOps[k] \in KnownOps THEN Hooked(x, HookOps[k], new[t])
                ELSE Plain(x, HookOps[k])
      BY <1>0, <1>2, <2>2, OpsFact DEF Hooking, EndsLoop, TypeOK, LocalsOK
    <3> QED
      BY <3>1, OpsFact DEF Settled
  <2>3. CASE x = Vop(t) /\ pc[t] = "unhookLoop"
    <3>1. /\ hash[x] = NoEntry
          /\ \A k \in 1..Len(HookOps) : Plain(x, HookOps[k])
      BY <1>0, <1>2, <2>3, OpsFact DEF Unhooking, EndsLoop
    <3> QED
      BY <3>1, OpsFact DEF Settled
  <2> QED
    BY <2>1, <2>2, <2>3 DEF EndsLoop, Loops
<1> QED
  BY <1>3, <1>4 DEF SlotsOK, SlotsMatchTable, Settled, Hooked, Plain, EndsLoop, Loops

\* One slot is saved and hooked: the loop of FltHookVnodeVop.
LEMMA HookSlotSlotsOK ==
  ASSUME TypeOK, LockOK, OwnersOK, SlotsOK, NEW t \in Threads,
         \A u \in Threads \ {t} : Stays(u), Rewrites(t), HookSlot(t)
  PROVE  SlotsOK'
<1>0. /\ pc[t] = "hookLoop" /\ Vop(t) \in Vops /\ new[t] \in Entries
      /\ idx[t] \in 1..Len(HookOps)
  BY FileSystemAssumption, OpsFact DEF TypeOK, LocalsTyped, LocalsOK, HookSlot,
     At, Vop
<1> DEFINE w == Vop(t)  i == idx[t]  o == HookOps[i]  e == new[t]
<1>1. /\ slot \in [Vops -> [Ops -> Functions]]
      /\ hash \in [Vops -> Entries \cup {NoEntry}]
      /\ origVop \in [Entries -> [Ops -> Functions]]
      /\ new[t] \in Entries \cup {NoEntry} /\ ent[t] \in Entries \cup {NoEntry}
  BY DEF TypeOK, SharedTyped, LocalsTyped
<1>2. /\ \A x \in Vops : Rewriting(x) \/ Settled(x)
      /\ pc[t] = "hookLoop" => Hooking(t)
      /\ pc[t] = "unhookLoop" => Unhooking(t)
  BY SlotsParts
<1>3. /\ \A u \in Threads \ {t} : pc[u] \notin Loops /\ pc'[u] \notin Loops
      /\ \A x \in Vops : Rewriting(x) => pc[t] \in Loops /\ Vop(t) = x
  BY <1>0, LoopAlone DEF Stays, ExclusiveLabels
<1>4. Vop(t)' = w /\ pc' = pc /\ Rewriting(w)' /\ o \in Ops
  BY <1>0, OpsFact DEF Rewrites, Rewriting, Vop
<1>5. /\ hash[w] = e
      /\ \A k \in 1..Len(HookOps) :
            IF k < i /\ HookOps[k] \in KnownOps THEN Hooked(w, HookOps[k], e)
            ELSE Plain(w, HookOps[k])
  BY <1>0, <1>2 DEF Hooking
<1>6. UNCHANGED <<hash, cur, ent, new>> /\ idx'[t] = i + 1
  BY <1>0 DEF Rewrites, HookSlot, TypeOK, LocalsTyped
<1>7. /\ \A x \in Vops \ {w} : slot'[x] = slot[x]
      /\ \A x \in Entries \ {e} : origVop'[x] = origVop[x]
      /\ \A p \in Ops : IF p = o /\ o \in KnownOps
                        THEN slot'[w][p] = Hook(o) /\ origVop'[e][p] = slot[w][o]
                        ELSE slot'[w][p] = slot[w][p] /\ origVop'[e][p] = origVop[e][p]
  <2> HIDE DEF w, o, e
  <2>1. CASE o \in KnownOps
    <3>1. /\ slot' = [slot EXCEPT ![w][o] = Hook(o)]
          /\ origVop' = [origVop EXCEPT ![e][o] = slot[w][o]]
      BY <2>1, Zenon DEF HookSlot, HookAt, SetOriginalVop, w, o, e, i
    <3>2. w \in Vops /\ e \in Entries
      BY <1>0 DEF w, e
    <3> QED
      BY <1>1, <1>4, <2>1, <3>1, <3>2
  <2>2. CASE o \notin KnownOps
    <3>1. slot' = slot /\ origVop' = origVop
      BY <2>2, Zenon DEF HookSlot, HookAt, o, i
    <3> QED
      BY <2>2, <3>1
  <2> QED
    BY <2>1, <2>2
<1>8. ASSUME NEW k \in 1..Len(HookOps)
      PROVE  IF k < i + 1 /\ HookOps[k] \in KnownOps
             THEN Hooked(w, HookOps[k], e)' ELSE Plain(w, HookOps[k])'
  <2>1. HookOps[k] \in Ops /\ (HookOps[k] = o <=> k = i)
    BY <1>0, OpsFact
  <2> HIDE DEF o
  <2>2. CASE k = i
    <3>1. slot[w][o] = Original(w, o)
      BY <1>0, <1>5, <2>1, <2>2 DEF Plain
    <3> QED
      BY <1>0, <1>4, <1>6, <1>7, <2>1, <2>2, <3>1 DEF Hooked, Plain
  <2>3. CASE k # i
    <3>1. slot'[w][HookOps[k]] = slot[w][HookOps[k]] /\ origVop'[e][HookOps[k]] = origVop[e][HookOps[k]]
      BY <1>7, <2>1, <2>3
    <3>2. k < i + 1 <=> k < i
      BY <1>0, <2>3, OpsFact
    <3> QED
      BY <1>4, <1>5, <1>6, <3>1, <3>2 DEF Hooked, Plain
  <2> QED
    BY <2>2, <2>3
<1>9. Hooking(t)'
  BY <1>4, <1>5, <1>6, <1>8 DEF Hooking
<1>10. ASSUME NEW x \in Vops, x # w
       PROVE  Settled(x)'
  <2>1. Settled(x) /\ slot'[x] = slot[x]
    BY <1>2, <1>3, <1>7, <1>10
  <2>2. hash[x] # e
    BY <1>0, <1>5, <1>10, NamesAssumption DEF OwnersOK
  <2>3. hash[x] # NoEntry => origVop'[hash[x]] = origVop[hash[x]]
    BY <1>1, <1>7, <2>2
  <2> QED
    BY <1>6, <2>1, <2>3 DEF Settled, Hooked, Plain
<1> QED
  BY <1>0, <1>3, <1>4, <1>9, <1>10 DEF SlotsOK, SlotsMatchTable, Settled, Hooked,
     Plain, Loops

\* One slot is restored: the loop of FltUnHookVnodeVop.
LEMMA UnhookSlotSlotsOK ==
  ASSUME TypeOK, LockOK, OwnersOK, SlotsOK, NEW t \in Threads,
         \A u \in Threads \ {t} : Stays(u), Rewrites(t), UnhookSlot(t)
  PROVE  SlotsOK'
<1>0. /\ pc[t] = "unhookLoop" /\ Vop(t) \in Vops /\ ent[t] \in Entries
      /\ idx[t] \in 1..Len(HookOps)
  BY FileSystemAssumption, OpsFact DEF TypeOK, LocalsTyped, LocalsOK, UnhookSlot,
     At, Vop
<1> DEFINE w == Vop(t)  i == idx[t]  o == HookOps[i]  e == ent[t]
<1>1. /\ slot \in [Vops -> [Ops -> Functions]]
      /\ hash \in [Vops -> Entries \cup {NoEntry}]
      /\ origVop \in [Entries -> [Ops -> Functions]]
      /\ new[t] \in Entries \cup {NoEntry} /\ ent[t] \in Entries \cup {NoEntry}
  BY DEF TypeOK, SharedTyped, LocalsTyped
<1>2. /\ \A x \in Vops : Rewriting(x) \/ Settled(x)
      /\ pc[t] = "hookLoop" => Hooking(t)
      /\ pc[t] = "unhookLoop" => Unhooking(t)
  BY SlotsParts
<1>3. /\ \A u \in Threads \ {t} : pc[u] \notin Loops /\ pc'[u] \notin Loops
      /\ \A x \in Vops : Rewriting(x) => pc[t] \in Loops /\ Vop(t) = x
  BY <1>0, LoopAlone DEF Stays, ExclusiveLabels
<1>4. Vop(t)' = w /\ pc' = pc /\ Rewriting(w)' /\ o \in Ops
  BY <1>0, OpsFact DEF Rewrites, Rewriting, Vop
<1>5. /\ hash[w] = NoEntry
      /\ \A k \in 1..Len(HookOps) :
            IF k >= i /\ HookOps[k] \in KnownOps THEN Hooked(w, HookOps[k], e)
            ELSE Plain(w, HookOps[k])
  BY <1>0, <1>2 DEF Unhooking
<1>6. UNCHANGED <<hash, origVop, cur, ent, new>> /\ idx'[t] = i + 1
  BY <1>0 DEF Rewrites, UnhookSlot, TypeOK, LocalsTyped, entryVars
<1>7. /\ \A x \in Vops \ {w} : slot'[x] = slot[x]
      /\ \A p \in Ops : IF p = o /\ o \in KnownOps
                        THEN slot'[w][p] = origVop[e][o]
                        ELSE slot'[w][p] = slot[w][p]
  <2> HIDE DEF w, o, e
  <2>1. CASE o \in KnownOps
    <3>1. slot' = [slot EXCEPT ![w][o] = origVop[e][o]]
      BY <2>1, Zenon DEF UnhookSlot, HookAt, w, o, e, i
    <3>2. w \in Vops
      BY <1>0 DEF w
    <3> QED
      BY <1>1, <1>4, <2>1, <3>1, <3>2
  <2>2. CASE o \notin KnownOps
    <3>1. slot' = slot
      BY <2>2, Zenon DEF UnhookSlot, HookAt, o, i
    <3> QED
      BY <2>2, <3>1
  <2> QED
    BY <2>1, <2>2
<1>8. ASSUME NEW k \in 1..Len(HookOps)
      PROVE  IF k >= i + 1 /\ HookOps[k] \in KnownOps
             THEN Hooked(w, HookOps[k], e)' ELSE Plain(w, HookOps[k])'
  <2>1. HookOps[k] \in Ops /\ (HookOps[k] = o <=> k = i)
    BY <1>0, OpsFact
  <2> HIDE DEF o
  <2>2. CASE k = i
    <3>1. /\ ~(k >= i + 1) /\ k >= i
          /\ o \in KnownOps => origVop[e][o] = Original(w, o)
          /\ o \notin KnownOps => slot[w][o] = Original(w, o)
      BY <1>0, <1>5, <2>1, <2>2 DEF Hooked, Plain
    <3> QED
      BY <1>4, <1>6, <1>7, <2>1, <2>2, <3>1 DEF Plain
  <2>3. CASE k # i
    <3>1. slot'[w][HookOps[k]] = slot[w][HookOps[k]]
      BY <1>7, <2>1, <2>3
    <3>2. k >= i + 1 <=> k >= i
      BY <1>0, <2>3, OpsFact
    <3> QED
      BY <1>4, <1>5, <1>6, <3>1, <3>2 DEF Hooked, Plain
  <2> QED
    BY <2>2, <2>3
<1>9. Unhooking(t)'
  BY <1>4, <1>5, <1>6, <1>8 DEF Unhooking
<1>10. ASSUME NEW x \in Vops, x # w
       PROVE  Settled(x)'
  <2>1. Settled(x) /\ slot'[x] = slot[x]
    BY <1>2, <1>3, <1>7, <1>10
  <2> QED
    BY <1>6, <2>1 DEF Settled, Hooked, Plain
<1> QED
  BY <1>0, <1>3, <1>4, <1>9, <1>10 DEF SlotsOK, SlotsMatchTable, Settled, Hooked,
     Plain, Loops

\* All of them together.
LEMMA SlotsOKStep ==
  ASSUME TypeOK, LockOK, RefsExact, OwnersOK, SlotsOK, LocalsTyped',
         NEW t \in Threads, TableMoves(t), \A u \in Threads \ {t} : Stays(u)
  PROVE  SlotsOK'
<1>1. CASE Leaves(t)
  BY <1>1, LeavesSlotsOK DEF Leaves
<1>2. ASSUME NEW e \in Entries, Clears(t, e)
      PROVE  SlotsOK'
  <2>1. \A x \in Entries : x # e => origVop'[x] = origVop[x]
    BY <1>2 DEF Clears, TypeOK, SharedTyped
  <2>2. /\ \A w \in Vops : hash[w] # e
        /\ \A u \in Threads : ent[u] # e /\ new[u] # e
    BY <1>2, FreeEntry DEF Clears
  <2> QED
    BY <1>2, <2>1, <2>2, LeavesSlotsOK DEF Clears
<1>3. CASE Rewrites(t)
  BY <1>3, HookSlotSlotsOK, UnhookSlotSlotsOK DEF Rewrites
<1> QED
  BY <1>1, <1>2, <1>3, StartsHookingSlotsOK, StartsUnhookingSlotsOK,
     EndsLoopSlotsOK DEF TableMoves

-----------------------------------------------------------------------------
(* The functions calls are forwarded to.                                   *)

CallOK(t) ==
    /\ pc[t] \in GetLabels => op[t] \in KnownOps
    /\ pc[t] = "getEntry" => origVop[ent[t]][op[t]] = Original(Vop(t), op[t])
    /\ pc[t] \in UnhookLabels \cup {"callOriginal"} =>
          fn[t] = Original(VopOf[vn[t]], op[t])
    /\ pc[t] \in HookLabels \cup GetLabels \cup {"idle"} => fn[t] = Null

\* A slot holds the function of its file system, or a hook that can be there.
LEMMA SlotValues ==
  ASSUME TypeOK, SlotsOK, NEW w \in Vops, NEW o \in Ops
  PROVE  /\ slot[w][o] = Original(w, o) \/ (slot[w][o] = Hook(o) /\ o \in KnownOps)
         /\ Original(w, o) # Hook(o)
<1>1. PICK k \in 1..Len(HookOps) : o = HookOps[k]
  BY OpsFact
<1> DEFINE Goal == Plain(w, o) \/ \E e : Hooked(w, o, e) /\ o \in KnownOps
<1> HIDE DEF Goal
<1>2. ASSUME Rewriting(w)
      PROVE  Goal
  <2>1. PICK u \in Threads : pc[u] \in {"hookLoop", "unhookLoop"} /\ Vop(u) = w
    BY <1>2 DEF Rewriting
  <2>2. Hooking(u) \/ Unhooking(u)
    BY <2>1, SlotsParts
  <2>3. ASSUME Hooking(u)
        PROVE  Goal
    <3>1. IF k < idx[u] /\ o \in KnownOps
          THEN Hooked(w, o, new[u]) ELSE Plain(w, o)
      BY <1>1, <2>1, <2>3 DEF Hooking
    <3> QED
      BY <3>1 DEF Goal
  <2>4. ASSUME Unhooking(u)
        PROVE  Goal
    <3>1. IF k >= idx[u] /\ o \in KnownOps
          THEN Hooked(w, o, ent[u]) ELSE Plain(w, o)
      BY <1>1, <2>1, <2>4 DEF Unhooking
    <3> QED
      BY <3>1 DEF Goal
  <2> QED
    BY <2>2, <2>3, <2>4
<1>3. ASSUME Settled(w)
      PROVE  Goal
  BY <1>3 DEF Settled, Goal
<1>4. Original(w, o) # Hook(o)
  BY NamesAssumption DEF Original, Hook
<1> QED
  <2>1. Goal
    BY <1>2, <1>3, SlotsParts
  <2> QED
    BY <1>4, <2>1 DEF Goal, Hooked, Plain

\* Nobody writes the slots of any vector while a thread reads the table.
LEMMA ReaderSettled ==
  ASSUME TypeOK, LockOK, SlotsOK, NEW t \in Threads, pc[t] \in SharedLabels,
         NEW w \in Vops
  PROVE  Settled(w)
<1>1. writer = NoThread
  BY DEF LockOK
<1>2. ~Rewriting(w)
  BY <1>1, NamesAssumption DEF LockOK, Rewriting, ExclusiveLabels
<1> QED
  BY <1>2, SlotsParts

\* A step of a call keeps what its own thread knows of the original.
LEMMA StepCallOK ==
  ASSUME NEW t \in Threads, Step(t) \/ Start(t),
         TypeOK, LockOK, SlotsOK, CallOK(t)
  PROVE  CallOK(t)'
<1>1. CASE LockShared(t) \/ LockExclusive(t) \/ UnLockExclusive(t) \/
          LoopEnd(t)
  <2>1. /\ pc'[t] # "getEntry" /\ pc'[t] # "callOriginal" /\ pc[t] # "callOriginal"
        /\ pc'[t] \in GetLabels => pc[t] \in GetLabels
        /\ pc'[t] \in UnhookLabels => pc[t] \in UnhookLabels
        /\ pc'[t] \in HookLabels \cup {"idle"} => pc[t] \in HookLabels \cup {"idle"}
        /\ fn' = fn /\ vn' = vn /\ op' = op
    BY <1>1 DEF TypeOK, LocalsTyped, LockShared, At, Goto, Readable,
       tableVars, entryVars, vnodeVars, callVars, ptrVars, LockExclusive,
       Writable, UnLockExclusive, LoopEnd, lockVars, GetLabels,
       UnhookLabels, HookLabels
  <2> QED
    BY <2>1 DEF CallOK
<1>2. CASE HookCheck(t) \/ HookRetrieve(t) \/ HookFound(t) \/ HookAlloc(t) \/
          HookRecheck(t) \/ HookSlot(t) \/ HookRelease(t) \/ HookParent(t) \/
          (\E v \in Vnodes : KauthCallback(t, v)) \/ CallOriginal(t)
  <2>1. /\ pc'[t] \in HookLabels \cup {"idle"}
        /\ \/ fn' = fn /\ pc[t] \in HookLabels \cup {"idle"}
           \/ fn'[t] = Null
    BY <1>2 DEF TypeOK, LocalsTyped, HookCheck, At, Goto, tableVars,
       entryVars, lockVars, vnodeVars, callVars, ptrVars, HookRetrieve,
       Vop, UnLockShared, Take, Count, Retain, HookFound, Drop, Release,
       HookAlloc, HookRecheck, Recheck, ExitWithLock, AddEntry, HookSlot,
       HookAt, SetOriginalVop, HookRelease, HookParent, HasParent, Return,
       Enter, KauthCallback, CallOriginal, HookLabels
  <2> QED
    BY <2>1 DEF CallOK, HookLabels, GetLabels, UnhookLabels
<1>3. CASE UnhookCheck(t) \/ UnhookRetrieve(t) \/ UnhookDecrement(t) \/
          UnhookRemove(t) \/ UnhookSlot(t) \/ UnhookRelease(t) \/
          UnhookParent(t)
  <2>1. /\ pc[t] \in UnhookLabels /\ pc'[t] \in UnhookLabels \cup {"callOriginal"}
        /\ fn' = fn /\ vn' = vn /\ op' = op
    BY <1>3 DEF TypeOK, LocalsTyped, UnhookCheck, At, Goto, tableVars,
       entryVars, lockVars, vnodeVars, callVars, ptrVars, UnhookRetrieve,
       Vop, UnLockShared, Take, Retain, UnhookDecrement, Count,
       UnhookRemove, Release, UnhookSlot, HookAt, UnhookRelease, Drop,
       UnhookParent, HasParent, UnhookLabels
  <2> QED
    BY <2>1 DEF CallOK, UnhookLabels, GetLabels, HookLabels
<1>4. CASE GetRetrieve(t)
  <2>1. /\ pc[t] = "getRetrieve" /\ Vop(t) \in Vops /\ op[t] \in KnownOps \cap Ops
        /\ cur[t] = vn[t] /\ op' = op /\ vn' = vn /\ cur' = cur
        /\ origVop' = origVop /\ fn[t] = Null
    BY <1>4, OpsFact, FileSystemAssumption, HookOpsAssumption DEF GetRetrieve, At, Vop,
       TypeOK, LocalsTyped, LocalsOK, CallOK, GetLabels, HookLabels, callVars
  <2>2. Settled(Vop(t))
    BY <2>1, ReaderSettled DEF SharedLabels
  <2>3. \/ /\ hash[Vop(t)] # NoEntry /\ pc'[t] = "getEntry"
           /\ ent'[t] = hash[Vop(t)] /\ fn' = fn
        \/ pc'[t] = "getShared2" /\ fn' = fn
    BY <1>4 DEF GetRetrieve, Take, Goto, callVars, TypeOK, LocalsTyped
  <2> QED
    BY <2>1, <2>2, <2>3 DEF CallOK, Settled, Hooked, Plain, Vop, GetLabels,
       UnhookLabels, HookLabels
<1>5. CASE GetRetry(t)
  <2>1. /\ pc[t] = "getRetry" /\ Vop(t) \in Vops /\ op[t] \in KnownOps \cap Ops
        /\ cur[t] = vn[t] /\ op' = op /\ vn' = vn /\ cur' = cur
        /\ origVop' = origVop /\ fn[t] = Null
    BY <1>5, OpsFact, FileSystemAssumption, HookOpsAssumption DEF GetRetry, At, Vop,
       TypeOK, LocalsTyped, LocalsOK, CallOK, GetLabels, HookLabels, callVars
  <2>2. Settled(Vop(t))
    BY <2>1, ReaderSettled DEF SharedLabels
  <2>3. \/ /\ hash[Vop(t)] # NoEntry /\ pc'[t] = "getEntry"
           /\ ent'[t] = hash[Vop(t)] /\ fn' = fn
        \/ /\ hash[Vop(t)] = NoEntry /\ pc'[t] \in {"unhook", "callOriginal"}
           /\ fn'[t] = slot[Vop(t)][op[t]]
    BY <1>5 DEF GetRetry, Take, Goto, callVars, AfterGet, TypeOK, LocalsTyped
  <2> QED
    BY <2>1, <2>2, <2>3 DEF CallOK, Settled, Hooked, Plain, Vop, GetLabels,
       UnhookLabels, HookLabels
<1>6. CASE GetEntry(t)
  <2>1. /\ pc[t] = "getEntry" /\ cur[t] = vn[t] /\ vn' = vn /\ op' = op
        /\ pc'[t] \in {"unhook", "callOriginal"}
        /\ fn'[t] = origVop[ent[t]][op[t]]
    BY <1>6 DEF GetEntry, At, Goto, AfterGet, TypeOK, LocalsTyped, LocalsOK,
       GetLabels
  <2> QED
    BY <2>1 DEF CallOK, Vop, GetLabels, UnhookLabels, HookLabels
<1>7. CASE (\E v \in Vnodes : Reclaim(t, v)) \/ (\E v \in Vnodes, o \in Ops :
          VnopCall(t, v, o))
  <2>1. PICK v \in Vnodes, o \in Ops : Jump(t, v, o)
    BY <1>7, OpsFact DEF Reclaim, VnopCall
  <2>2. vn'[t] = v /\ op'[t] = o /\ VopOf[v] \in Vops
    BY <2>1, FileSystemAssumption DEF Jump, Enter, TypeOK, LocalsTyped
  <2>3. \/ /\ pc'[t] = "getShared" /\ slot[VopOf[v]][o] = Hook(o)
           /\ fn' = fn /\ pc[t] = "idle"
        \/ /\ pc'[t] = "callOriginal" /\ slot[VopOf[v]][o] # Hook(o)
           /\ fn'[t] = slot[VopOf[v]][o]
    BY <1>7, <2>1 DEF Jump, Goto, Reclaim, VnopCall, At, TypeOK, LocalsTyped
  <2> QED
    BY <2>2, <2>3, SlotValues DEF CallOK, GetLabels, UnhookLabels, HookLabels
<1> QED
  BY <1>1, <1>2, <1>3, <1>4, <1>5, <1>6, <1>7 DEF Step, LockStep, HookStep,
     GetStep, UnhookStep, Start

\* The saved functions another thread is about to read do not change.
LEMMA OtherCallOK ==
  ASSUME TypeOK, RefsExact, OwnersOK, NEW t \in Threads, TableMoves(t),
         NEW u \in Threads, u # t, Stays(u), CallOK(u)
  PROVE  CallOK(u)'
<1>1. ASSUME pc[u] = "getEntry"
      PROVE  origVop'[ent[u]] = origVop[ent[u]]
  <2>1. ent[u] \in Entries
    BY <1>1 DEF TypeOK, LocalsTyped, LocalsOK
  <2>2. ASSUME NEW e \in Entries, Clears(t, e)
        PROVE  origVop'[ent[u]] = origVop[ent[u]]
    BY <2>1, <2>2, FreeEntry DEF Clears, TypeOK, SharedTyped
  <2>3. CASE Rewrites(t)
    <3>1. CASE HookSlot(t)
      <4>1. ent[u] # new[t]
        BY <3>1 DEF HookSlot, At, OwnersOK
      <4>2. \/ origVop' = origVop
            \/ \E o, f : origVop' = [origVop EXCEPT ![new[t]][o] = f]
        BY <3>1, Zenon DEF HookSlot, SetOriginalVop
      <4> QED
        BY <2>1, <4>1, <4>2 DEF TypeOK, SharedTyped
    <3>2. CASE UnhookSlot(t)
      BY <3>2 DEF UnhookSlot, entryVars
    <3> QED
      BY <2>3, <3>1, <3>2 DEF Rewrites
  <2> QED
    BY <2>2, <2>3 DEF TableMoves, Leaves, EndsLoop, StartsHooking, StartsUnhooking
<1> QED
  BY <1>1 DEF CallOK, Stays, Vop

-----------------------------------------------------------------------------
(* The ways of a call.                                                     *)

\* The ways from one position of a call to another, for the same vnode.
Follow ==
    {<<"hook", "hookShared">>, <<"hook", "hookParent">>,
     <<"hookShared", "hookRetrieve">>, <<"hookRetrieve", "hookAlloc">>,
     <<"hookRetrieve", "hookFound">>, <<"hookFound", "hookParent">>,
     <<"hookAlloc", "hookExcl">>, <<"hookAlloc", "hookParent">>,
     <<"hookExcl", "hookRecheck">>, <<"hookRecheck", "hookUnlock">>,
     <<"hookRecheck", "hookLoop">>, <<"hookLoop", "hookUnlock">>,
     <<"hookUnlock", "hookRelease">>, <<"hookRelease", "hookParent">>,
     <<"getShared", "getRetrieve">>, <<"getRetrieve", "getShared2">>,
     <<"getRetrieve", "getEntry">>, <<"getShared2", "getRetry">>,
     <<"getRetry", "getEntry">>, <<"getRetry", "unhook">>,
     <<"getRetry", "callOriginal">>, <<"getEntry", "unhook">>,
     <<"getEntry", "callOriginal">>, <<"unhook", "unhookShared">>,
     <<"unhook", "unhookParent">>, <<"unhookShared", "unhookRetrieve">>,
     <<"unhookRetrieve", "unhookDec">>, <<"unhookRetrieve", "unhookParent">>,
     <<"unhookDec", "unhookExcl">>, <<"unhookDec", "unhookRelease">>,
     <<"unhookExcl", "unhookRemove">>, <<"unhookRemove", "unhookUnlock">>,
     <<"unhookRemove", "unhookLoop">>, <<"unhookLoop", "unhookUnlock">>,
     <<"unhookUnlock", "unhookRelease">>, <<"unhookRelease", "unhookParent">>}

\* A step of t stays with the vnode it is at.
SamePlace(t) == cur'[t] = cur[t] /\ vn'[t] = vn[t]

\* A step of a call is one of these ways, a turn of one of the loops, goes on to
\* the parent, or ends what FltHookVnodeVopAndParent, FltUnHookVnodeVopAndParent
\* or the call do.
CallMoves(t) ==
    \/ /\ SamePlace(t) /\ <<pc[t], pc'[t]>> \in Follow
       /\ pc'[t] \in {"hookLoop", "unhookLoop"} => idx'[t] = 1
    \/ /\ SamePlace(t) /\ pc'[t] = pc[t] /\ pc[t] \in {"hookLoop", "unhookLoop"}
       /\ idx[t] \in 1 .. Len(HookOps) /\ idx'[t] = idx[t] + 1
    \/ /\ cur[t] = vn[t] /\ cur'[t] # vn'[t]
       /\ \/ pc[t] = "hookParent" /\ pc'[t] = "hook"
          \/ pc[t] = "unhookParent" /\ pc'[t] = "unhook"
    \/ pc[t] = "hookParent" /\ pc'[t] = "idle"
    \/ pc[t] = "unhookParent" /\ pc'[t] = "callOriginal"
    \/ pc[t] = "callOriginal" /\ pc'[t] = "idle"

\* Every step of a call is one of these moves.
LEMMA StepCallMoves ==
  ASSUME NEW t \in Threads, Step(t), LocalsTyped, LocalsOK(t)
  PROVE  CallMoves(t)
<1>1. CASE LockStep(t)
  <2>1. CASE LockShared(t)
    BY <2>1
    DEF LockShared, At, Goto, LocalsTyped, CallMoves, Follow, SamePlace, callVars, ptrVars
  <2>2. CASE LockExclusive(t)
    BY <2>2
    DEF LockExclusive, At, Goto, LocalsTyped, CallMoves, Follow, SamePlace, callVars, ptrVars
  <2>3. CASE UnLockExclusive(t)
    BY <2>3
    DEF UnLockExclusive, At, Goto, LocalsTyped, CallMoves, Follow, SamePlace, callVars, ptrVars
  <2>4. CASE LoopEnd(t)
    BY <2>4
    DEF LoopEnd, At, Goto, LocalsTyped, CallMoves, Follow, SamePlace, callVars, ptrVars
  <2> QED
    BY <1>1, <2>1, <2>2, <2>3, <2>4 DEF LockStep
<1>2. CASE HookStep(t)
  <2>1. CASE HookCheck(t)
    BY <2>1
    DEF HookCheck, At, Goto, LocalsTyped, CallMoves, Follow, SamePlace, callVars, ptrVars
  <2>2. CASE HookRetrieve(t)
    BY <2>2
    DEF HookRetrieve, At, Goto, LocalsTyped, CallMoves, Follow, SamePlace, callVars, ptrVars
  <2>3. CASE HookFound(t)
    BY <2>3
    DEF HookFound, At, Goto, LocalsTyped, CallMoves, Follow, SamePlace, callVars, ptrVars
  <2>4. CASE HookAlloc(t)
    BY <2>4
    DEF HookAlloc, At, Goto, LocalsTyped, CallMoves, Follow, SamePlace, callVars, ptrVars
  <2>5. CASE HookRecheck(t)
    BY <2>5
    DEF HookRecheck, At, Goto, LocalsTyped, CallMoves, Follow, SamePlace, callVars,
        ptrVars, ExitWithLock
  <2>6. CASE HookSlot(t)
    BY <2>6, OpsFact
    DEF HookSlot, At, Goto, LocalsTyped, CallMoves, Follow, SamePlace, callVars,
        ptrVars, LocalsOK
  <2>7. CASE HookRelease(t)
    BY <2>7
    DEF HookRelease, At, Goto, LocalsTyped, CallMoves, Follow, SamePlace, callVars, ptrVars
  <2>8. CASE HookParent(t)
    BY <2>8, FileSystemAssumption
    DEF HookParent, At, Goto, LocalsTyped, CallMoves, Follow, SamePlace, callVars,
        ptrVars, HasParent, LocalsOK, Return, Enter
  <2> QED
    BY <1>2, <2>1, <2>2, <2>3, <2>4, <2>5, <2>6, <2>7, <2>8 DEF HookStep
<1>3. CASE GetStep(t)
  <2>1. CASE GetRetrieve(t)
    BY <2>1
    DEF GetRetrieve, At, Goto, LocalsTyped, CallMoves, Follow, SamePlace, callVars, ptrVars
  <2>2. CASE GetRetry(t)
    BY <2>2
    DEF GetRetry, At, Goto, LocalsTyped, CallMoves, Follow, SamePlace, callVars,
        ptrVars, AfterGet
  <2>3. CASE GetEntry(t)
    BY <2>3
    DEF GetEntry, At, Goto, LocalsTyped, CallMoves, Follow, SamePlace, callVars,
        ptrVars, AfterGet
  <2>4. CASE CallOriginal(t)
    BY <2>4
    DEF CallOriginal, At, Goto, LocalsTyped, CallMoves, Follow, SamePlace, callVars,
        ptrVars, Return, Enter
  <2> QED
    BY <1>3, <2>1, <2>2, <2>3, <2>4 DEF GetStep
<1>4. CASE UnhookStep(t)
  <2>1. CASE UnhookCheck(t)
    BY <2>1
    DEF UnhookCheck, At, Goto, LocalsTyped, CallMoves, Follow, SamePlace, callVars, ptrVars
  <2>2. CASE UnhookRetrieve(t)
    BY <2>2
    DEF UnhookRetrieve, At, Goto, LocalsTyped, CallMoves, Follow, SamePlace, callVars, ptrVars
  <2>3. CASE UnhookDecrement(t)
    BY <2>3
    DEF UnhookDecrement, At, Goto, LocalsTyped, CallMoves, Follow, SamePlace, callVars, ptrVars
  <2>4. CASE UnhookRemove(t)
    BY <2>4
    DEF UnhookRemove, At, Goto, LocalsTyped, CallMoves, Follow, SamePlace, callVars, ptrVars
  <2>5. CASE UnhookSlot(t)
    BY <2>5, OpsFact
    DEF UnhookSlot, At, Goto, LocalsTyped, CallMoves, Follow, SamePlace, callVars,
        ptrVars, LocalsOK
  <2>6. CASE UnhookRelease(t)
    BY <2>6
    DEF UnhookRelease, At, Goto, LocalsTyped, CallMoves, Follow, SamePlace, callVars, ptrVars
  <2>7. CASE UnhookParent(t)
    BY <2>7, FileSystemAssumption
    DEF UnhookParent, At, Goto, LocalsTyped, CallMoves, Follow, SamePlace, callVars,
        ptrVars, HasParent, LocalsOK
  <2> QED
    BY <1>4, <2>1, <2>2, <2>3, <2>4, <2>5, <2>6, <2>7 DEF UnhookStep
<1> QED
  BY <1>1, <1>2, <1>3, <1>4 DEF Step

-----------------------------------------------------------------------------
(* The counters.                                                           *)

\* Where the ways lead to: what is counted or uncounted is so once.
LEMMA FollowLabels ==
  ASSUME NEW p, NEW q, <<p, q>> \in Follow
  PROVE  /\ q \in HookLabels => p \in HookLabels
         /\ q \in BeforeCount => p \in BeforeCount
         /\ p \in UnhookLabels => q \in UnhookLabels
         /\ p \in UnhookLabels /\ p \notin BeforeUncount => q \notin BeforeUncount
         /\ p # "callOriginal"
  BY DEF Follow, HookLabels, UnhookLabels, BeforeCount, BeforeUncount

\* A callback never gets more to count.
LEMMA StepMayCount ==
  ASSUME NEW t \in Threads, CallMoves(t), NEW k \in Pair, MayCount(t, k)'
  PROVE  MayCount(t, k)
<1>1. CASE SamePlace(t) /\ <<pc[t], pc'[t]>> \in Follow
  BY <1>1, FollowLabels DEF MayCount, SamePlace
<1>2. CASE SamePlace(t) /\ pc'[t] = pc[t]
  BY <1>2 DEF MayCount, SamePlace
<1>3. CASE cur[t] = vn[t] /\ cur'[t] # vn'[t] /\ pc[t] = "hookParent" /\ pc'[t] = "hook"
  BY <1>3 DEF MayCount, HookLabels
<1>4. CASE pc'[t] \in {"unhook", "idle", "callOriginal"}
  BY <1>4 DEF MayCount, HookLabels
<1> QED
  BY <1>1, <1>2, <1>3, <1>4 DEF CallMoves

\* A reclaim never gets back before what it may have uncounted.
LEMMA StepPastUncount ==
  ASSUME NEW t \in Threads, CallMoves(t), op'[t] = op[t], pc[t] # "callOriginal",
         NEW k \in Pair, PastUncount(t, k)
  PROVE  PastUncount(t, k)'
<1>1. CASE SamePlace(t) /\ <<pc[t], pc'[t]>> \in Follow
  BY <1>1, FollowLabels DEF PastUncount, SamePlace
<1>2. CASE SamePlace(t) /\ pc'[t] = pc[t]
  BY <1>2 DEF PastUncount, SamePlace
<1>3. CASE cur[t] = vn[t] /\ cur'[t] # vn'[t] /\ pc[t] = "unhookParent" /\ pc'[t] = "unhook"
  BY <1>3 DEF PastUncount, UnhookLabels, BeforeUncount, Pair
<1>4. CASE pc[t] = "unhookParent" /\ pc'[t] = "callOriginal"
  BY <1>4 DEF PastUncount
<1>5. CASE pc[t] = "hookParent"
  BY <1>5 DEF PastUncount, UnhookLabels
<1> QED
  BY <1>1, <1>2, <1>3, <1>4, <1>5 DEF CallMoves

\* What a step does to the counters: nothing, a new entry, one more or less.
Same(t) == vNodeCounter' = vNodeCounter
Zeroes(t) == \E e \in Entries : vNodeCounter' = [vNodeCounter EXCEPT ![e] = 0]
Counts(t) ==
    /\ \E e \in Entries : vNodeCounter' = [vNodeCounter EXCEPT ![e] = @ + 1]
    /\ pc[t] \in BeforeCount /\ pc'[t] \notin BeforeCount
    /\ pc[t] \in HookLabels /\ SamePlace(t)
Uncounts(t) ==
    /\ \E e \in Entries : vNodeCounter' = [vNodeCounter EXCEPT ![e] = @ - 1]
    /\ pc[t] = "unhookDec" /\ pc'[t] \in UnhookLabels \ BeforeUncount
    /\ SamePlace(t)
CounterMoves(t) == Same(t) \/ Zeroes(t) \/ Counts(t) \/ Uncounts(t)

\* Every step is one of these.
LEMMA StepCounterMoves ==
  ASSUME NEW t \in Threads, Step(t) \/ Start(t), TypeOK
  PROVE  CounterMoves(t)
<1>0. LocalsTyped /\ SharedTyped /\ LocalsOK(t)
  BY DEF TypeOK
<1>1. CASE LockStep(t)
  BY <1>1 DEF LockStep, LockShared, LockExclusive, UnLockExclusive, LoopEnd, entryVars,
     CounterMoves, Same
<1>2. CASE HookCheck(t) \/ HookFound(t) \/ HookSlot(t) \/ HookRelease(t) \/ HookParent(t)
  BY <1>2 DEF HookCheck, HookFound, HookSlot, HookRelease, HookParent, entryVars,
     CounterMoves, Same
<1>3. CASE HookAlloc(t)
  BY <1>3 DEF HookAlloc, entryVars, CounterMoves, Same, Zeroes
<1>4. CASE HookRetrieve(t)
  <2>1. hash[Vop(t)] # NoEntry => hash[Vop(t)] \in Entries
    <3>1. cur[t] \in Vnodes
      BY <1>0, <1>4 DEF HookRetrieve, At, LocalsTyped, LocalsOK
    <3> QED
      BY <1>0, <3>1, FileSystemAssumption DEF SharedTyped, Vop
  <2>2. SamePlace(t)
    BY <1>4 DEF HookRetrieve, callVars, SamePlace
  <2>3. CASE hash[Vop(t)] = NoEntry
    BY <1>4, <2>3 DEF HookRetrieve, CounterMoves, Same
  <2>4. CASE hash[Vop(t)] # NoEntry
    <3>1. vNodeCounter' = [vNodeCounter EXCEPT ![hash[Vop(t)]] = @ + 1]
      BY <1>4, <2>4 DEF HookRetrieve, Count
    <3>2. pc[t] = "hookRetrieve" /\ pc'[t] = "hookFound"
      BY <1>0, <1>4, <2>4 DEF HookRetrieve, At, Goto, LocalsTyped
    <3> QED
      BY <2>1, <2>2, <2>4, <3>1, <3>2 DEF CounterMoves, Counts, BeforeCount, HookLabels
  <2> QED
    BY <2>3, <2>4
<1>5. CASE HookRecheck(t)
  <2>1. pc[t] = "hookRecheck" /\ pc'[t] \in {"hookUnlock", "hookLoop"} /\ SamePlace(t)
    BY <1>0, <1>5 DEF HookRecheck, At, Goto, ExitWithLock, LocalsTyped, callVars, SamePlace
  <2>2. new[t] \in Entries
    BY <1>0, <2>1 DEF LocalsTyped, LocalsOK
  <2>3. hash[Vop(t)] # NoEntry => hash[Vop(t)] \in Entries
    <3>1. cur[t] \in Vnodes
      BY <1>0, <2>1 DEF LocalsTyped, LocalsOK
    <3> QED
      BY <1>0, <3>1, FileSystemAssumption DEF SharedTyped, Vop
  <2>4. \/ Same(t)
        \/ vNodeCounter' = [vNodeCounter EXCEPT ![new[t]] = @ + 1]
        \/ /\ hash[Vop(t)] # NoEntry
           /\ vNodeCounter' = [vNodeCounter EXCEPT ![hash[Vop(t)]] = @ + 1]
    BY <1>5 DEF HookRecheck, Recheck, Count, Same
  <2>5. Same(t) \/ \E e \in Entries : vNodeCounter' = [vNodeCounter EXCEPT ![e] = @ + 1]
    BY <2>2, <2>3, <2>4
  <2>6. pc[t] \in BeforeCount /\ pc'[t] \notin BeforeCount /\ pc[t] \in HookLabels
    BY <2>1 DEF BeforeCount, HookLabels
  <2> QED
    BY <2>1, <2>5, <2>6 DEF CounterMoves, Counts
<1>6. CASE GetStep(t)
  BY <1>6 DEF GetStep, GetRetrieve, GetRetry, GetEntry, CallOriginal, entryVars,
     CounterMoves, Same
<1>7. CASE UnhookDecrement(t)
  <2>1. /\ pc[t] = "unhookDec" /\ pc'[t] \in {"unhookExcl", "unhookRelease"}
        /\ SamePlace(t)
    BY <1>0, <1>7 DEF UnhookDecrement, At, Goto, LocalsTyped, callVars, SamePlace
  <2>2. ent[t] \in Entries
    BY <1>0, <2>1 DEF LocalsTyped, LocalsOK
  <2>3. vNodeCounter' = [vNodeCounter EXCEPT ![ent[t]] = @ - 1]
    <3>1. vNodeCounter[ent[t]] \in Int
      BY <1>0, <2>2 DEF SharedTyped
    <3>2. vNodeCounter' = [vNodeCounter EXCEPT ![ent[t]] = @ + (-1)]
      BY <1>7 DEF UnhookDecrement, Count
    <3> QED
      BY <3>1, <3>2
  <2> QED
    BY <2>1, <2>2, <2>3 DEF CounterMoves, Uncounts, UnhookLabels, BeforeUncount
<1>8. CASE UnhookCheck(t) \/ UnhookRetrieve(t) \/ UnhookRemove(t) \/ UnhookSlot(t)
           \/ UnhookRelease(t) \/ UnhookParent(t)
  BY <1>8 DEF UnhookCheck, UnhookRetrieve, UnhookRemove, UnhookSlot, UnhookRelease,
     UnhookParent, entryVars, CounterMoves, Same
<1>9. CASE Start(t)
  BY <1>9 DEF Start, KauthCallback, Reclaim, VnopCall, Jump, entryVars, CounterMoves, Same
<1> QED
  BY <1>1, <1>2, <1>3, <1>4, <1>5, <1>6, <1>7, <1>8, <1>9
  DEF Step, HookStep, UnhookStep

\* What a step does to the life of vnodes: a call goes on, a reclaim begins, one
\* ends, or another call begins or ends.
GoesOn(t) ==
    /\ vstate' = vstate /\ op'[t] = op[t] /\ vn'[t] = vn[t]
    /\ pc[t] # "callOriginal" /\ CallMoves(t)
ReclaimBegins(t) ==
    /\ vstate' = vstate /\ op[t] # "reclaim"
    /\ vn'[t] \in Vnodes /\ vstate[vn'[t]] = "terminating"
    /\ \A u \in Threads : vn[u] # vn'[t]
ReclaimEnds(t) ==
    /\ op[t] = "reclaim" /\ op'[t] # "reclaim" /\ vn[t] \in Vnodes
    /\ vstate' = [vstate EXCEPT ![vn[t]] = "dead"]
OtherCall(t) == vstate' = vstate /\ op[t] # "reclaim" /\ op'[t] # "reclaim"
LifeMoves(t) == GoesOn(t) \/ ReclaimBegins(t) \/ ReclaimEnds(t) \/ OtherCall(t)

\* Every step is one of these.
LEMMA StepLifeMoves ==
  ASSUME NEW t \in Threads, Step(t) \/ Start(t), TypeOK
  PROVE  LifeMoves(t)
<1>0. LocalsTyped /\ SharedTyped /\ LocalsOK(t) /\ NoOp # "reclaim"
  BY DEF TypeOK, NoOp
<1>1. CASE CallOriginal(t)
  <2>1. pc[t] = "callOriginal" /\ vn[t] \in Vnodes /\ op'[t] = NoOp
    BY <1>0, <1>1 DEF CallOriginal, At, Return, Enter, LocalsTyped, LocalsOK
  <2>2. CASE op[t] = "reclaim"
    BY <1>0, <1>1, <2>1, <2>2 DEF CallOriginal, LifeMoves, ReclaimEnds
  <2>3. CASE op[t] # "reclaim"
    <3>1. vstate' = vstate
      BY <1>0, <1>1, <2>3 DEF CallOriginal, SharedTyped
    <3> QED
      BY <1>0, <2>1, <2>3, <3>1 DEF LifeMoves, OtherCall
  <2> QED
    BY <2>2, <2>3
<1>2. CASE HookParent(t)
  <2>1. vstate' = vstate /\ op[t] = NoOp /\ op'[t] = NoOp
    BY <1>0, <1>2 DEF HookParent, At, Return, Enter, LocalsTyped, LocalsOK, HookLabels,
       vnodeVars
  <2> QED
    BY <1>0, <2>1 DEF LifeMoves, OtherCall
<1>3. CASE Start(t)
  <2>1. vstate' = vstate /\ op[t] = NoOp
    BY <1>0, <1>3 DEF Start, KauthCallback, Reclaim, VnopCall, Jump, At, vnodeVars, LocalsOK
  <2>2. ASSUME NEW v \in Vnodes, KauthCallback(t, v)
        PROVE  OtherCall(t)
    BY <1>0, <2>1, <2>2 DEF KauthCallback, Enter, LocalsTyped, OtherCall
  <2>3. ASSUME NEW v \in Vnodes, NEW o \in Ops, VnopCall(t, v, o)
        PROVE  OtherCall(t)
    BY <1>0, <2>1, <2>3 DEF VnopCall, Jump, Enter, LocalsTyped, OtherCall
  <2>4. ASSUME NEW v \in Vnodes, Reclaim(t, v)
        PROVE  ReclaimBegins(t)
    <3>1. vn'[t] = v /\ vstate[v] = "terminating"
      BY <1>0, <2>4 DEF Reclaim, Jump, Enter, LocalsTyped
    <3>2. \A u \in Threads : vn[u] # v
      BY <2>4 DEF Reclaim, Drained
    <3> QED
      BY <1>0, <2>1, <3>1, <3>2 DEF ReclaimBegins
  <2> QED
    BY <1>3, <2>2, <2>3, <2>4 DEF Start, LifeMoves
<1>4. CASE Step(t) /\ ~CallOriginal(t) /\ ~HookParent(t)
  <2>1. CallMoves(t)
    BY <1>0, <1>4, StepCallMoves
  <2>2. CASE LockStep(t)
    BY <2>1, <2>2 DEF LockStep, LockShared, LockExclusive, UnLockExclusive, LoopEnd, At,
       vnodeVars, callVars, LifeMoves, GoesOn
  <2>3. CASE HookCheck(t) \/ HookRetrieve(t) \/ HookFound(t) \/ HookAlloc(t)
            \/ HookRecheck(t) \/ HookSlot(t) \/ HookRelease(t)
    BY <2>1, <2>3 DEF HookCheck, HookRetrieve, HookFound, HookAlloc, HookRecheck, HookSlot,
       HookRelease, At, vnodeVars, callVars, LifeMoves, GoesOn
  <2>4. CASE GetRetrieve(t) \/ GetRetry(t) \/ GetEntry(t)
    BY <2>1, <2>4 DEF GetRetrieve, GetRetry, GetEntry, At, vnodeVars, callVars, LifeMoves,
       GoesOn
  <2>5. CASE UnhookStep(t)
    BY <2>1, <2>5 DEF UnhookStep, UnhookCheck, UnhookRetrieve, UnhookDecrement,
       UnhookRemove, UnhookSlot, UnhookRelease, UnhookParent, At, vnodeVars, callVars,
       LifeMoves, GoesOn
  <2> QED
    BY <1>4, <2>2, <2>3, <2>4, <2>5 DEF Step, HookStep, GetStep
<1> QED
  BY <1>1, <1>2, <1>3, <1>4

\* The tokens that Cardinality is taken of are finitely many.
LEMMA PairFinite == IsFiniteSet(Pair) /\ Cardinality(Pair) = 2
<1>1. Pair = {"vnode"} \cup {"parent"}
  BY DEF Pair
<1>2. IsFiniteSet({"vnode"}) /\ Cardinality({"vnode"}) = 1
  BY FS_Singleton
<1>3. /\ IsFiniteSet({"vnode"} \cup {"parent"})
      /\ Cardinality({"vnode"} \cup {"parent"}) = Cardinality({"vnode"}) + 1
  BY <1>2, FS_AddElement
<1> QED
  BY <1>1, <1>2, <1>3

LEMMA TokensFinite ==
  ASSUME NEW S \in SUBSET (Threads \X Pair)
  PROVE  IsFiniteSet(S) /\ Cardinality(S) \in Nat
<1>1. IsFiniteSet(Threads \X Pair)
  BY PairFinite, FiniteAssumption, FS_Product
<1> QED
  BY <1>1, FS_Subset, FS_CardinalityType

LEMMA OneMore ==
  ASSUME NEW S, NEW x, IsFiniteSet(S)
  PROVE  /\ IsFiniteSet(S \cup {x}) /\ Cardinality(S) \in Nat
         /\ Cardinality(S \cup {x}) \in Nat
         /\ Cardinality(S \cup {x}) <= Cardinality(S) + 1
<1>1. /\ IsFiniteSet(S \cup {x})
      /\ Cardinality(S \cup {x}) =
            IF x \in S THEN Cardinality(S) ELSE Cardinality(S) + 1
  BY FS_AddElement
<1>2. Cardinality(S) \in Nat /\ Cardinality(S \cup {x}) \in Nat
  BY <1>1, FS_CardinalityType
<1>3. Cardinality(S \cup {x}) <= Cardinality(S) + 1
  <2>1. CASE x \in S
    BY <1>1, <1>2, <2>1
  <2>2. CASE x \notin S
    BY <1>1, <1>2, <2>2
  <2> QED
    BY <2>1, <2>2
<1> QED
  BY <1>1, <1>2, <1>3

\* The other threads have as much to count as before.
LEMMA OthersCount ==
  ASSUME NEW u \in Threads, Stays(u), NEW k \in Pair
  PROVE  MayCount(u, k)' <=> MayCount(u, k)
  BY DEF MayCount, Stays

\* A callback gets two to count, when it begins.
LEMMA StepToCount ==
  ASSUME NEW t \in Threads, Step(t) \/ Start(t), TypeOK,
         \A u \in Threads \ {t} : Stays(u)
  PROVE  \/ auths' = auths /\ ToCount' \subseteq ToCount
         \/ /\ auths' = auths + 1 /\ vNodeCounter' = vNodeCounter
            /\ ToCount' \subseteq ToCount \cup {<<t, "vnode">>, <<t, "parent">>}
<1>0. LocalsTyped /\ SharedTyped /\ LocalsOK(t)
  BY DEF TypeOK
<1>1. \A x \in ToCount' : x = <<t, x[2]>> \/ x \in ToCount
  BY OthersCount DEF ToCount
<1>2. CASE Step(t)
  <2>1. CallMoves(t)
    BY <1>0, <1>2, StepCallMoves
  <2>2. ToCount' \subseteq ToCount
    BY <1>1, <2>1, StepMayCount DEF ToCount
  <2>3. auths' = auths
    BY <1>2 DEF Step, LockStep, LockShared, LockExclusive, UnLockExclusive, LoopEnd,
       HookStep, HookCheck, HookRetrieve, HookFound, HookAlloc, HookRecheck, HookSlot,
       HookRelease, HookParent, GetStep, GetRetrieve, GetRetry, GetEntry, CallOriginal,
       UnhookStep, UnhookCheck, UnhookRetrieve, UnhookDecrement, UnhookRemove, UnhookSlot,
       UnhookRelease, UnhookParent, vnodeVars
  <2> QED
    BY <2>2, <2>3
<1>3. ASSUME NEW v \in Vnodes, KauthCallback(t, v)
      PROVE  /\ auths' = auths + 1 /\ vNodeCounter' = vNodeCounter
             /\ ToCount' \subseteq ToCount \cup {<<t, "vnode">>, <<t, "parent">>}
  <2>1. \A x \in ToCount' : x[2] \in {"vnode", "parent"}
    BY DEF ToCount, Pair
  <2>2. ToCount' \subseteq ToCount \cup {<<t, "vnode">>, <<t, "parent">>}
    BY <1>1, <2>1
  <2> QED
    BY <1>3, <2>2 DEF KauthCallback, entryVars
<1>4. ASSUME \E v \in Vnodes, o \in Ops : Jump(t, v, o), auths' = auths
      PROVE  ToCount' \subseteq ToCount
  <2>1. pc'[t] \in {"getShared", "callOriginal"}
    BY <1>0, <1>4 DEF Jump, Goto, LocalsTyped
  <2>2. \A k \in Pair : ~MayCount(t, k)'
    BY <2>1 DEF MayCount, HookLabels
  <2> QED
    BY <1>1, <2>2 DEF ToCount
<1>5. ASSUME NEW v \in Vnodes, Reclaim(t, v) \/ \E o \in Ops : VnopCall(t, v, o)
      PROVE  auths' = auths /\ \E o \in Ops : Jump(t, v, o)
  BY <1>5, OpsFact DEF Reclaim, VnopCall, Jump, vnodeVars
<1> QED
  BY <1>2, <1>3, <1>4, <1>5 DEF Start

\* The counters and what is to be counted come to two per callback.
LEMMA UpperStep ==
  ASSUME NEW t \in Threads, Step(t) \/ Start(t), TypeOK, TypeOK',
         \A u \in Threads \ {t} : Stays(u), CountOK
  PROVE  /\ Cardinality(ToCount)' <= 2 * auths'
         /\ \A e \in Entries : vNodeCounter'[e] + Cardinality(ToCount)' <= 2 * auths'
<1> DEFINE S == ToCount
           T == ToCount'
<1>1. S \in SUBSET (Threads \X Pair) /\ T \in SUBSET (Threads \X Pair)
  BY DEF ToCount
<1>2. /\ IsFiniteSet(S) /\ Cardinality(S) \in Nat
      /\ IsFiniteSet(T) /\ Cardinality(T) \in Nat
  BY <1>1, TokensFinite
<1>3. /\ auths \in Nat /\ vNodeCounter \in [Entries -> Int]
      /\ vNodeCounter' \in [Entries -> Int]
  BY MaxAuthAssumption DEF TypeOK, SharedTyped
<1>4. /\ Cardinality(S) <= 2 * auths
      /\ \A e \in Entries : vNodeCounter[e] + Cardinality(S) <= 2 * auths
  BY DEF CountOK
<1>5. CASE auths' = auths + 1 /\ vNodeCounter' = vNodeCounter
           /\ T \subseteq S \cup {<<t, "vnode">>, <<t, "parent">>}
  <2>1. Cardinality(T) <= Cardinality(S) + 2
    <3>1. /\ IsFiniteSet(S \cup {<<t, "vnode">>})
          /\ Cardinality(S \cup {<<t, "vnode">>}) <= Cardinality(S) + 1
          /\ Cardinality(S \cup {<<t, "vnode">>}) \in Nat
      BY <1>2, OneMore
    <3> DEFINE U == S \cup {<<t, "vnode">>}
    <3>2. /\ IsFiniteSet(U \cup {<<t, "parent">>})
          /\ Cardinality(U \cup {<<t, "parent">>}) <= Cardinality(U) + 1
          /\ Cardinality(U \cup {<<t, "parent">>}) \in Nat
      BY <3>1, OneMore
    <3>3. T \subseteq U \cup {<<t, "parent">>}
      BY <1>5
    <3>4. Cardinality(T) <= Cardinality(U \cup {<<t, "parent">>})
      BY <3>2, <3>3, FS_Subset
    <3> QED
      BY <1>2, <3>1, <3>2, <3>4
  <2> QED
    BY <1>2, <1>3, <1>4, <1>5, <2>1
<1>6. CASE auths' = auths /\ T \subseteq S
  <2>1. Cardinality(T) <= Cardinality(S)
    BY <1>2, <1>6, FS_Subset
  <2>2. CASE Same(t)
    BY <1>2, <1>3, <1>4, <1>6, <2>1, <2>2 DEF Same
  <2>3. CASE Zeroes(t)
    BY <1>2, <1>3, <1>4, <1>6, <2>1, <2>3 DEF Zeroes
  <2>4. CASE Uncounts(t)
    BY <1>2, <1>3, <1>4, <1>6, <2>1, <2>4 DEF Uncounts
  <2>5. CASE Counts(t)
    <3> DEFINE x == <<t, IF cur[t] = vn[t] THEN "vnode" ELSE "parent">>
    <3>1. x \in S
      BY <2>5 DEF Counts, ToCount, MayCount, Pair
    <3>2. x \notin T
      BY <2>5 DEF Counts, ToCount, MayCount, Pair, SamePlace
    <3>3. T \subseteq S \ {x}
      BY <1>6, <3>2
    <3>4. /\ IsFiniteSet(S \ {x})
          /\ Cardinality(S \ {x}) = Cardinality(S) - 1
      BY <1>2, <3>1, FS_RemoveElement
    <3>5. Cardinality(T) <= Cardinality(S) - 1
      BY <3>3, <3>4, FS_Subset
    <3>6. PICK e \in Entries : vNodeCounter' = [vNodeCounter EXCEPT ![e] = @ + 1]
      BY <2>5 DEF Counts
    <3> HIDE DEF S, T, x
    <3>7. \A y \in Entries : vNodeCounter'[y] <= vNodeCounter[y] + 1
      BY <1>3, <3>6
    <3>8. \A y \in Entries : vNodeCounter'[y] + Cardinality(T) <= 2 * auths
      BY <1>2, <1>3, <1>4, <3>5, <3>7
    <3>9. Cardinality(T) <= 2 * auths
      BY <1>2, <1>3, <1>4, <3>5
    <3> QED
      BY <1>6, <3>8, <3>9 DEF T
  <2> QED
    BY <2>2, <2>3, <2>4, <2>5, StepCounterMoves DEF CounterMoves
<1> QED
  BY <1>5, <1>6, StepToCount

\* A vnode is reclaimed once, and what may have been uncounted stays so.
LEMMA LifeStep ==
  ASSUME NEW t \in Threads, LifeMoves(t), \A u \in Threads \ {t} : Stays(u),
         TypeOK, ReclaimedOnce
  PROVE  ReclaimedOnce' /\ Gone' = Gone /\ Uncounted \subseteq Uncounted'
<1>0. vstate \in [Vnodes -> {"live", "terminating", "dead"}]
  BY DEF TypeOK, SharedTyped
<1>1. \A u \in Threads \ {t} : op'[u] = op[u] /\ vn'[u] = vn[u]
  BY DEF Stays
<1>2. \A u \in Threads \ {t}, k \in Pair : PastUncount(u, k)' <=> PastUncount(u, k)
  BY DEF Stays, PastUncount
<1>3. \A u \in Threads, k \in Pair : PastUncount(u, k) => op[u] = "reclaim"
  BY DEF PastUncount
<1>4. CASE GoesOn(t)
  <2>1. \A k \in Pair : PastUncount(t, k) => PastUncount(t, k)'
    BY <1>4, StepPastUncount DEF GoesOn
  <2>2. vstate' = vstate /\ \A u \in Threads : op'[u] = op[u] /\ vn'[u] = vn[u]
    BY <1>1, <1>4 DEF GoesOn
  <2>3. ReclaimedOnce' /\ Gone' = Gone
    BY <2>2 DEF ReclaimedOnce, Gone
  <2>4. \A u \in Threads, k \in Pair : PastUncount(u, k) => PastUncount(u, k)'
    BY <1>2, <2>1
  <2> QED
    BY <2>2, <2>3, <2>4 DEF Uncounted
<1>5. CASE ReclaimBegins(t) \/ OtherCall(t)
  <2>1. vstate' = vstate /\ op[t] # "reclaim"
    BY <1>5 DEF ReclaimBegins, OtherCall
  <2>2. Gone' = Gone
    BY <2>1 DEF Gone
  <2>3. ReclaimedOnce'
    BY <1>1, <1>5, <2>1 DEF ReclaimBegins, OtherCall, ReclaimedOnce
  <2>4. \A u \in Threads, k \in Pair : PastUncount(u, k) =>
            PastUncount(u, k)' /\ vn'[u] = vn[u]
    BY <1>1, <1>2, <1>3, <2>1
  <2> QED
    BY <2>1, <2>2, <2>3, <2>4 DEF Uncounted
<1>6. CASE ReclaimEnds(t)
  <2>1. /\ op[t] = "reclaim" /\ op'[t] # "reclaim" /\ vn[t] \in Vnodes
        /\ vstate' = [vstate EXCEPT ![vn[t]] = "dead"]
        /\ vstate[vn[t]] = "terminating"
    BY <1>6 DEF ReclaimEnds, ReclaimedOnce
  <2>2. Gone' = Gone
    BY <1>0, <2>1 DEF Gone
  <2>3. \A u \in Threads : op'[u] = "reclaim" => u # t /\ op[u] = "reclaim" /\ vn'[u] = vn[u]
    BY <1>1, <2>1
  <2>4. \A u \in Threads : op'[u] = "reclaim" => vn[u] # vn[t] /\ vn[u] \in Vnodes \cup {NoVnode}
    BY <2>1, <2>3 DEF ReclaimedOnce, TypeOK, LocalsTyped
  <2>5. \A v : v # vn[t] => vstate'[v] = vstate[v]
    BY <1>0, <2>1
  <2>6. ReclaimedOnce'
    BY <2>3, <2>4, <2>5 DEF ReclaimedOnce
  <2>7. ASSUME NEW x \in Uncounted
        PROVE  x \in Uncounted'
    <3>1. x \in Gone' \X Pair /\ x[1] \in Vnodes /\ x[2] \in Pair
      BY <2>2 DEF Uncounted, Gone
    <3>2. CASE vstate[x[1]] = "dead"
      BY <2>1, <2>5, <3>1, <3>2 DEF Uncounted
    <3>3. ASSUME NEW u \in Threads, vn[u] = x[1], PastUncount(u, x[2])
          PROVE  x \in Uncounted'
      <4>1. CASE u = t
        <5>1. vstate'[x[1]] = "dead"
          BY <1>0, <2>1, <3>3, <4>1
        <5> QED
          BY <3>1, <5>1 DEF Uncounted
      <4>2. CASE u # t
        BY <1>1, <1>2, <3>1, <3>3, <4>2 DEF Uncounted
      <4> QED
        BY <4>1, <4>2
    <3> QED
      BY <3>2, <3>3 DEF Uncounted
  <2> QED
    BY <2>2, <2>6, <2>7
<1> QED
  BY <1>4, <1>5, <1>6 DEF LifeMoves

\* A step that uncounts leaves one more that may have been uncounted.
LEMMA UncountsOneMore ==
  ASSUME NEW t \in Threads, Uncounts(t), LifeMoves(t), TypeOK, TypeOK', ReclaimedOnce
  PROVE  \E x : x \notin Uncounted /\ x \in Uncounted'
<1>1. PICK k \in Pair : k = IF cur[t] = vn[t] THEN "vnode" ELSE "parent"
  BY DEF Pair
<1>2. PICK x : x = <<vn[t], k>>
  OBVIOUS
<1>3. op[t] = "reclaim" /\ vn[t] \in Vnodes
  BY DEF Uncounts, TypeOK, LocalsTyped, LocalsOK, UnhookLabels
<1>4. GoesOn(t)
  <2>1. op'[t] = "reclaim"
    BY DEF Uncounts, TypeOK, LocalsOK
  <2> QED
    BY <1>3, <2>1 DEF LifeMoves, ReclaimBegins, ReclaimEnds, OtherCall
<1>5. vstate[vn[t]] = "terminating" /\ vstate' = vstate /\ op'[t] = op[t] /\ vn'[t] = vn[t]
  BY <1>3, <1>4 DEF ReclaimedOnce, GoesOn
<1>6. x \in Gone' \X Pair
  BY <1>3, <1>5, <1>2 DEF Gone
<1>7. PastUncount(t, k)'
  BY <1>3, <1>5, <1>1 DEF PastUncount, Uncounts, SamePlace
<1>8. ~PastUncount(t, k)
  BY <1>1 DEF PastUncount, Uncounts, BeforeUncount
<1>9. x \in Uncounted'
  <2>1. x[1] = vn'[t] /\ x[2] = k
    BY <1>5, <1>2
  <2>2. vn'[t] = x[1] /\ PastUncount(t, x[2])'
    BY <1>7, <2>1
  <2> QED
    BY <1>6, <2>2 DEF Uncounted
<1>10. x \notin Uncounted
  <2>1. ASSUME NEW u \in Threads, vn[u] = vn[t], PastUncount(u, k)
        PROVE  FALSE
    <3>1. op[u] = "reclaim"
      BY <2>1 DEF PastUncount
    <3>2. u = t
      BY <1>3, <2>1, <3>1 DEF ReclaimedOnce
    <3> QED
      BY <1>8, <2>1, <3>2
  <2> QED
    BY <1>5, <1>2, <2>1 DEF Uncounted
<1> QED
  BY <1>9, <1>10

\* No counter is further below zero than the vnodes uncounted allow.
LEMMA LowerStep ==
  ASSUME NEW t \in Threads, Step(t) \/ Start(t), TypeOK, TypeOK',
         LifeMoves(t), ReclaimedOnce, IsFiniteSet(Gone), Gone' = Gone,
         Uncounted \subseteq Uncounted',
         \A e \in Entries : vNodeCounter[e] >= -Cardinality(Uncounted)
  PROVE  \A e \in Entries : vNodeCounter'[e] >= -Cardinality(Uncounted)'
<1> DEFINE S == Uncounted
           T == Uncounted'
<1>1. IsFiniteSet(Gone \X Pair)
  BY PairFinite, FS_Product
<1>2. S \subseteq Gone \X Pair /\ T \subseteq Gone \X Pair /\ S \subseteq T
  BY DEF Uncounted
<1>3. IsFiniteSet(S) /\ IsFiniteSet(T)
  BY <1>1, <1>2, FS_Subset
<1>4. Cardinality(S) \in Nat /\ Cardinality(T) \in Nat /\ Cardinality(S) <= Cardinality(T)
  BY <1>2, <1>3, FS_Subset, FS_CardinalityType
<1>5. vNodeCounter \in [Entries -> Int] /\ vNodeCounter' \in [Entries -> Int]
  BY DEF TypeOK, SharedTyped
<1>6. CASE Uncounts(t)
  <2>1. PICK x : x \notin S /\ x \in T
    BY <1>6, UncountsOneMore
  <2>2. IsFiniteSet(S \cup {x}) /\ Cardinality(S \cup {x}) = Cardinality(S) + 1
    BY <1>3, <2>1, FS_AddElement
  <2>3. S \cup {x} \subseteq T
    BY <1>2, <2>1
  <2>4. Cardinality(S \cup {x}) <= Cardinality(T)
    BY <1>3, <2>3, FS_Subset
  <2>5. Cardinality(T) >= Cardinality(S) + 1
    BY <1>4, <2>2, <2>4
  <2>6. PICK e \in Entries : vNodeCounter' = [vNodeCounter EXCEPT ![e] = @ - 1]
    BY <1>6 DEF Uncounts
  <2>7. \A y \in Entries : vNodeCounter'[y] >= vNodeCounter[y] - 1
    BY <1>5, <2>6
  <2> QED
    BY <1>4, <1>5, <2>5, <2>7
<1>7. CASE Same(t)
  BY <1>4, <1>5, <1>7 DEF Same
<1>8. CASE Zeroes(t)
  BY <1>4, <1>5, <1>8 DEF Zeroes
<1>9. CASE Counts(t)
  <2>1. PICK e \in Entries : vNodeCounter' = [vNodeCounter EXCEPT ![e] = @ + 1]
    BY <1>9 DEF Counts
  <2>2. \A y \in Entries : vNodeCounter'[y] >= vNodeCounter[y]
    BY <1>5, <2>1
  <2> QED
    BY <1>4, <1>5, <2>2
<1> QED
  BY <1>6, <1>7, <1>8, <1>9, StepCounterMoves DEF CounterMoves

\* The counters keep within what was authorised and reclaimed.
LEMMA CountOKStep ==
  ASSUME NEW t \in Threads, Step(t) \/ Start(t), TypeOK, TypeOK',
         \A u \in Threads \ {t} : Stays(u), CountOK
  PROVE  CountOK'
<1>1. LifeMoves(t)
  BY StepLifeMoves
<1>2. ReclaimedOnce' /\ Gone' = Gone /\ Uncounted \subseteq Uncounted'
  BY <1>1, LifeStep DEF CountOK
<1>3. \A e \in Entries : vNodeCounter'[e] >= -Cardinality(Uncounted)'
  BY <1>1, <1>2, LowerStep DEF CountOK
<1>4. /\ Cardinality(ToCount)' <= 2 * auths'
      /\ \A e \in Entries : vNodeCounter'[e] + Cardinality(ToCount)' <= 2 * auths'
  BY UpperStep
<1>5. IsFiniteSet(Gone)'
  BY <1>2 DEF CountOK
<1> QED
  BY <1>2, <1>3, <1>4, <1>5 DEF CountOK

\* A vnode that starts to be reclaimed is one more that may be uncounted.
LEMMA QuietCountOK ==
  ASSUME TypeOK, TypeOK', Quiet, CountOK
  PROVE  CountOK'
<1>1. UNCHANGED <<vNodeCounter, auths, pc, vn, cur, op>>
  BY DEF Quiet, entryVars, callVars
<1>2. ToCount' = ToCount
  BY <1>1 DEF ToCount, MayCount
<1>3. ReclaimedOnce'
  <2>1. \A v \in Vnodes : vstate[v] = "terminating" => vstate'[v] = "terminating"
    BY DEF Quiet, TypeOK, SharedTyped
  <2>2. \A t \in Threads : op[t] = "reclaim" => vn[t] \in Vnodes
    BY DEF TypeOK, LocalsTyped, LocalsOK, NoOp
  <2> QED
    BY <1>1, <2>1, <2>2 DEF CountOK, ReclaimedOnce
<1>4. Gone' \subseteq Gone \/ \E v \in Vnodes : Gone' \subseteq Gone \cup {v}
  BY DEF Quiet, Gone, TypeOK, SharedTyped
<1>5. IsFiniteSet(Gone')
  BY <1>4, FS_AddElement, FS_Subset DEF CountOK
<1>6. Gone \subseteq Gone'
  BY DEF Quiet, Gone, TypeOK, SharedTyped
<1>7. \A v \in Vnodes : vstate[v] = "dead" => vstate'[v] = "dead"
  BY DEF Quiet, TypeOK, SharedTyped
<1>8. \A u \in Threads, k \in Pair : PastUncount(u, k)' <=> PastUncount(u, k)
  BY <1>1 DEF PastUncount
<1>9. Uncounted \subseteq Uncounted'
  BY <1>1, <1>6, <1>7, <1>8 DEF Uncounted, Gone
<1>10. /\ Cardinality(Uncounted) \in Nat /\ Cardinality(Uncounted') \in Nat
       /\ Cardinality(Uncounted) <= Cardinality(Uncounted')
  <2>1. IsFiniteSet(Gone' \X Pair)
    BY <1>5, PairFinite, FS_Product
  <2>2. Uncounted' \subseteq Gone' \X Pair
    BY DEF Uncounted
  <2>3. IsFiniteSet(Uncounted') /\ IsFiniteSet(Uncounted)
    BY <1>9, <2>1, <2>2, FS_Subset
  <2> QED
    BY <1>9, <2>3, FS_Subset, FS_CardinalityType
<1>11. ASSUME NEW e \in Entries
       PROVE  vNodeCounter'[e] >= -Cardinality(Uncounted')
  BY <1>1, <1>10 DEF CountOK, TypeOK, SharedTyped
<1> QED
  BY <1>1, <1>2, <1>3, <1>5, <1>11 DEF CountOK

\* There is nothing to count and nothing reclaimed at the start.
LEMMA InitCountOK == Init => CountOK
<1> SUFFICES ASSUME Init PROVE CountOK
  OBVIOUS
<1>1. Gone = {} /\ ToCount = {} /\ Uncounted = {}
  BY DEF Init, Gone, ToCount, MayCount, HookLabels, Uncounted
<1>2. ReclaimedOnce
  BY DEF Init, ReclaimedOnce, NoOp
<1>3. IsFiniteSet({}) /\ Cardinality({}) = 0
  BY FS_EmptySet
<1> QED
  BY <1>1, <1>2, <1>3 DEF Init, CountOK

\* With two for each vnode that is gone, the counters are in the range.
LEMMA CountInRange == CountOK /\ TypeOK => CounterInRange
<1> SUFFICES ASSUME CountOK, TypeOK PROVE CounterInRange
  OBVIOUS
<1>1. Cardinality(ToCount) \in Nat
  BY TokensFinite DEF ToCount
<1>2. Cardinality(Gone) \in Nat /\ IsFiniteSet(Gone)
  BY FS_CardinalityType DEF CountOK
<1>3. IsFiniteSet(Gone \X Pair) /\ Cardinality(Gone \X Pair) = Cardinality(Gone) * 2
  BY <1>2, PairFinite, FS_Product
<1>4. Uncounted \subseteq Gone \X Pair
  BY DEF Uncounted
<1>5. IsFiniteSet(Uncounted) /\ Cardinality(Uncounted) <= Cardinality(Gone \X Pair)
  BY <1>3, <1>4, FS_Subset
<1>6. Cardinality(Uncounted) \in Nat /\ Cardinality(Uncounted) <= 2 * Cardinality(Gone)
  BY <1>2, <1>3, <1>5, FS_CardinalityType
<1>7. auths \in Nat /\ vNodeCounter \in [Entries -> Int]
  BY MaxAuthAssumption DEF TypeOK, SharedTyped
<1>8. \A e \in Entries :
         /\ vNodeCounter[e] + Cardinality(ToCount) <= 2 * auths
         /\ vNodeCounter[e] >= -Cardinality(Uncounted)
  BY DEF CountOK
<1>9. ASSUME NEW e \in Entries
      PROVE  /\ vNodeCounter[e] <= 2 * auths
             /\ vNodeCounter[e] >= -2 * Cardinality(Gone)
  BY <1>1, <1>2, <1>6, <1>7, <1>8
<1> QED
  BY <1>9 DEF CounterInRange

-----------------------------------------------------------------------------
(* The theorems.                                                           *)

\* The invariant holds at the start.
LEMMA InitInv == Init => Inv
<1> SUFFICES ASSUME Init PROVE Inv
  OBVIOUS
<1>1. TypeOK
  BY InitTypeOK
<1>2. LockOK
  BY NamesAssumption DEF Init, LockOK, SharedLabels, ExclusiveLabels
<1>3. RefsExact
  <2>1. \A e \in Entries : Holders(e) = {} /\ refs[e] = 0
    BY NamesAssumption DEF Init, Holders
  <2> QED
    BY <2>1, FS_EmptySet DEF RefsExact
<1>4. OwnersOK
  BY DEF Init, OwnersOK
<1>5. SlotsOK
  <2>1. \A w \in Vops : Settled(w)
    BY DEF Init, Settled, Plain
  <2> QED
    BY <2>1, SlotsParts DEF Init
<1>6. CallsOK
  BY DEF Init, CallsOK, GetLabels, UnhookLabels, HookLabels
<1>7. CountOK
  BY InitCountOK
<1> QED
  BY <1>1, <1>2, <1>3, <1>4, <1>5, <1>6, <1>7 DEF Inv

\* CallsOK by thread.
LEMMA CallsParts == CallsOK <=> \A t \in Threads : CallOK(t)
  BY DEF CallsOK, CallOK

\* A step of a call preserves the invariant.
LEMMA StepInv ==
  ASSUME Inv, NEW t \in Threads, Step(t) \/ Start(t)
  PROVE  Inv'
<1>1. TypeOK /\ LockOK /\ RefsExact /\ OwnersOK /\ SlotsOK /\ CallsOK /\ CountOK
  BY DEF Inv
<1>2. SharedTyped /\ LocalsTyped /\ LocalsOK(t) /\ pc \in [Threads -> Labels]
  BY <1>1 DEF TypeOK, LocalsTyped
<1>3. TypeOK' /\ LocalsTyped' /\ OnlyMoves(t) /\ \A u \in Threads \ {t} : Stays(u)
  BY <1>1, StepTypeOK DEF TypeOK
<1>4. LockMoves(t) /\ OwnerMoves(t) /\ TableMoves(t)
  BY <1>2, StepLockMoves, StepOwnerMoves, StepTableMoves
<1>5. LockOK'
  BY <1>1, <1>3, <1>4, LockOKStep
<1>6. RefsExact'
  BY <1>1, <1>4, RefsExactStep
<1>7. OwnersOK'
  BY <1>1, <1>3, <1>4, OwnersOKStep DEF OnlyMoves
<1>8. SlotsOK'
  BY <1>1, <1>3, <1>4, SlotsOKStep
<1>9. CallsOK'
  <2>1. CallOK(t)'
    BY <1>1, CallsParts, StepCallOK
  <2>2. ASSUME NEW u \in Threads, u # t
        PROVE  CallOK(u)'
    BY <1>1, <1>3, <1>4, <2>2, CallsParts, OtherCallOK
  <2> QED
    BY <2>1, <2>2 DEF CallsOK, CallOK
<1>10. CountOK'
  BY <1>1, <1>3, CountOKStep
<1> QED
  BY <1>3, <1>5, <1>6, <1>7, <1>8, <1>9, <1>10 DEF Inv

\* A quiet step preserves it.
LEMMA QuietInv ==
  ASSUME Inv, Quiet
  PROVE  Inv'
<1>1. TypeOK' /\ UNCHANGED QuietVars
  BY QuietTypeOK DEF Inv
<1>2. LockOK'
  BY <1>1 DEF Inv, LockOK, QuietVars, lockVars
<1>3. RefsExact'
  BY <1>1 DEF Inv, RefsExact, Holders, QuietVars, entryVars, ptrVars
<1>4. OwnersOK'
  BY <1>1 DEF Inv, OwnersOK, QuietVars, ptrVars
<1>5. SlotsOK'
  BY <1>1 DEF Inv, SlotsOK, SlotsMatchTable, Rewriting, Hooking, Unhooking, Hooked,
     Plain, Vop, QuietVars, entryVars, callVars, ptrVars
<1>6. CallsOK'
  BY <1>1 DEF Inv, CallsOK, Vop, QuietVars, entryVars, callVars, ptrVars
<1>7. CountOK'
  BY <1>1, QuietCountOK DEF Inv
<1> QED
  BY <1>1, <1>2, <1>3, <1>4, <1>5, <1>6, <1>7 DEF Inv

\* The invariant is inductive.
LEMMA InvInductive == Inv /\ [Next]_vars => Inv'
  BY NextCases, StepInv, QuietInv

\* For any number of threads, vnodes and vectors, the entries, the slots, the
\* lock, the references and the pending calls agree at every step of
\* FltHookVnodeVop and FltUnHookVnodeVop (VNodeHook.cpp:233-641); the theorems
\* below read their properties off this one.
THEOREM Invariance == Spec => []Inv
  BY InitInv, InvInductive, PTL DEF Spec

\* No entry is used after it was freed, freed twice or leaked, whatever the
\* interleaving of the two functions (VNodeHook.cpp:233-641).
THEOREM ReferencesExact == Spec => []RefsExact
<1>1. Inv => RefsExact
  BY DEF Inv
<1> QED
  BY <1>1, Invariance, PTL

\* While no call is under way only the table has references: one to the entry of
\* each hooked vector, and none to any other, so that FltHookVnodeVop and
\* FltUnHookVnodeVop leave no entry behind (VNodeHook.cpp:233-641).
THEOREM HooksLeakNothing ==
  Spec => []((\A t \in Threads : pc[t] = "idle") =>
             \A e \in Entries :
                refs[e] = IF \E w \in Vops : hash[w] = e THEN 1 ELSE 0)
<1> DEFINE AtRest == \A t \in Threads : pc[t] = "idle"
           Owed(e) == IF \E w \in Vops : hash[w] = e THEN 1 ELSE 0
<1>1. ASSUME Inv, AtRest, NEW e \in Entries
      PROVE  refs[e] = Owed(e)
  <2>1. \A t \in Threads : ent[t] # e /\ new[t] # e
    BY <1>1, NamesAssumption DEF Inv, TypeOK, LocalsOK
  <2>2. refs[e] = Cardinality(Holders(e))
    BY <1>1 DEF Inv, RefsExact
  <2>3. \A x : x \in Holders(e) <=> \E w \in Vops : hash[w] = e /\ x = <<"hash", w>>
    BY <2>1, HoldersMembers
  <2>4. CASE \E w \in Vops : hash[w] = e
    <3>1. PICK w \in Vops : hash[w] = e
      BY <2>4
    <3>2. \A x \in Vops : hash[x] = e => x = w
      BY <1>1, <3>1, NamesAssumption DEF Inv, OwnersOK
    <3>3. Holders(e) = {<<"hash", w>>}
      BY <2>3, <3>1, <3>2
    <3>4. Cardinality({<<"hash", w>>}) = 1
      BY FS_Singleton
    <3> QED
      BY <2>2, <2>4, <3>3, <3>4
  <2>5. CASE ~\E w \in Vops : hash[w] = e
    <3>1. Holders(e) = {}
      BY <2>3, <2>5
    <3> QED
      BY <2>2, <2>5, <3>1, FS_EmptySet
  <2> QED
    BY <2>4, <2>5
<1>2. Inv => (AtRest => \A e \in Entries : refs[e] = Owed(e))
  BY <1>1
<1> QED
  BY <1>2, Invariance, PTL

\* The counter of an entry moves within two per authorisation and two per
\* reclaim, whatever callbacks and reclaims overlap and whichever entries are
\* removed and allocated again (VNodeHook.h:194-218).
THEOREM CountersStayInRange == Spec => []CounterInRange
<1>1. Inv => CounterInRange
  BY CountInRange DEF Inv
<1> QED
  BY <1>1, Invariance, PTL

\* So a signed counter never wraps, and its increments and decrements are those of
\* an integer, while there have been fewer callbacks than half of its range above
\* zero and there are no more vnodes than that: 2^30 of them for the 32 bits of
\* vNodeCounter (OSIncrementAtomic, OSDecrementAtomic, VNodeHook.h:201 and 211).
THEOREM CounterNeverWraps ==
  ASSUME NEW Half \in Nat, MaxAuth < Half, IsFiniteSet(Vnodes), Cardinality(Vnodes) <= Half
  PROVE  Spec => [](\A e \in Entries : vNodeCounter[e] \in -(2 * Half) .. 2 * Half - 1)
<1>1. ASSUME Inv, NEW e \in Entries
      PROVE  vNodeCounter[e] \in -(2 * Half) .. 2 * Half - 1
  <2>1. vNodeCounter[e] <= 2 * auths /\ vNodeCounter[e] >= -2 * Cardinality(Gone)
    BY <1>1, CountInRange DEF Inv, CounterInRange
  <2>2. vNodeCounter[e] \in Int /\ auths \in 0 .. MaxAuth
    BY <1>1 DEF Inv, TypeOK, SharedTyped
  <2>3. Gone \subseteq Vnodes
    BY DEF Gone
  <2>4. /\ Cardinality(Gone) \in Nat /\ Cardinality(Vnodes) \in Nat
        /\ Cardinality(Gone) <= Cardinality(Vnodes)
    BY <2>3, FS_Subset, FS_CardinalityType
  <2> QED
    BY <2>1, <2>2, <2>4, MaxAuthAssumption
<1>2. Inv => \A e \in Entries : vNodeCounter[e] \in -(2 * Half) .. 2 * Half - 1
  BY <1>1
<1> QED
  BY <1>2, Invariance, PTL

\* The vectors agree with the table whenever nobody is rewriting them.
THEOREM TableMatchesSlots == Spec => []SlotsMatchTable
<1>1. Inv => SlotsMatchTable
  BY DEF Inv, SlotsOK
<1> QED
  BY <1>1, Invariance, PTL

\* Every call that passes through the filter is forwarded to the function its
\* file system put into the vector (FltGetOriginalVnodeOp,
\* VNodeHook.cpp:133-229).
THEOREM CallsReachTheOriginal == Spec => []ForwardsToOriginal
<1>1. Inv => ForwardsToOriginal
  BY DEF Inv, CallsOK, ForwardsToOriginal
<1> QED
  BY <1>1, Invariance, PTL

\* The lock excludes the two loops from each other and from every look-up: at
\* any time at most one thread writes slots or the table.
THEOREM OneWriter == Spec => []LockOK
<1>1. Inv => LockOK
  BY DEF Inv
<1> QED
  BY <1>1, Invariance, PTL

\* With reclaim at the head of gFltVnodeVopHookEntries, every other hook is
\* written after the reclaim hook of the same vector.
THEOREM ReclaimIsHookedFirst ==
  ASSUME Len(HookOps) > 0, HookOps[1] = "reclaim", "reclaim" \in KnownOps
  PROVE  Spec => ReclaimHookedFirst
<1> DEFINE First(w, o) ==
       slot[w][o] # Hook(o) /\ slot'[w][o] = Hook(o) /\ o # "reclaim"
          => slot[w]["reclaim"] = Hook("reclaim")
<1>1. ASSUME Inv, [Next]_vars, NEW w \in Vops, NEW o \in Ops
      PROVE  First(w, o)
  <2>1. ASSUME NEW t \in Threads, HookSlot(t), slot' # slot
        PROVE  First(w, o)
    <3>1. /\ pc[t] = "hookLoop" /\ Vop(t) \in Vops /\ idx[t] \in 1..Len(HookOps)
          /\ slot \in [Vops -> [Ops -> Functions]]
      BY <1>1, <2>1, FileSystemAssumption, OpsFact DEF Inv, TypeOK, SharedTyped,
         LocalsTyped, LocalsOK, HookSlot, At, Vop
    <3>2. \/ w # Vop(t) \/ o # HookOps[idx[t]]
          \/ w = Vop(t) /\ o = HookOps[idx[t]]
      OBVIOUS
    <3>3. slot' = [slot EXCEPT ![Vop(t)][HookOps[idx[t]]] = Hook(HookOps[idx[t]])]
      BY <2>1, Zenon DEF HookSlot, HookAt
    <3>4. CASE w = Vop(t) /\ o = HookOps[idx[t]] /\ o # "reclaim"
      <4>1. 1 < idx[t] /\ 1 \in 1..Len(HookOps)
        BY <3>1, <3>4, OpsFact
      <4>2. Hooked(w, "reclaim", new[t])
        BY <1>1, <3>1, <3>4, <4>1, OpsFact DEF Inv, SlotsOK, Hooking
      <4> QED
        BY <4>2 DEF Hooked
    <3>5. CASE w # Vop(t) \/ o # HookOps[idx[t]]
      BY <3>1, <3>3, <3>5
    <3> QED
      BY <3>4, <3>5
  <2>2. ASSUME NEW t \in Threads, UnhookSlot(t), slot' # slot
        PROVE  First(w, o)
    <3>1. /\ pc[t] = "unhookLoop" /\ Vop(t) \in Vops /\ idx[t] \in 1..Len(HookOps)
          /\ slot \in [Vops -> [Ops -> Functions]] /\ HookOps[idx[t]] \in Ops
      BY <1>1, <2>2, FileSystemAssumption, OpsFact, SMTT(30)
      DEF Inv, TypeOK, SharedTyped, LocalsTyped, LocalsOK, UnhookSlot, At, Vop
    <3>2. /\ HookOps[idx[t]] \in KnownOps
          /\ slot' = [slot EXCEPT ![Vop(t)][HookOps[idx[t]]]
                                     = origVop[ent[t]][HookOps[idx[t]]]]
      BY <2>2, Zenon DEF UnhookSlot, HookAt
    <3>3. origVop[ent[t]][HookOps[idx[t]]] = Original(Vop(t), HookOps[idx[t]])
      BY <1>1, <3>1, <3>2, OpsFact DEF Inv, SlotsOK, Unhooking, Hooked
    <3>4. Original(Vop(t), HookOps[idx[t]]) # Hook(HookOps[idx[t]])
      BY <1>1, <3>1, SlotValues DEF Inv
    <3> QED
      BY <3>1, <3>2, <3>3, <3>4
  <2>3. ASSUME NEW t \in Threads, Step(t) \/ Start(t)
        PROVE  slot' = slot \/ HookSlot(t) \/ UnhookSlot(t)
    <3>1. TableMoves(t)
      BY <1>1, <2>3, StepTableMoves DEF Inv, TypeOK
    <3> QED
      BY <3>1 DEF TableMoves, Leaves, Clears, StartsHooking, StartsUnhooking,
         EndsLoop, Rewrites
  <2>4. Quiet => slot' = slot
    BY DEF Quiet, tableVars
  <2> QED
    BY <1>1, <2>1, <2>2, <2>3, <2>4, NextCases
<1>2. Inv /\ [Next]_vars => [\A w \in Vops, o \in Ops : First(w, o)]_vars
  BY <1>1
<1> QED
  BY <1>2, Invariance, PTL DEF Spec, ReclaimHookedFirst

-----------------------------------------------------------------------------
(* Calls are short.                                                        *)

\* What is left, position by position.
LEMMA BeforeValues ==
    \A parent, i :
       /\ Before("idle", parent, i) = 0
       /\ Before("callOriginal", parent, i) = 1
       /\ Before("hookParent", parent, i) = parent + 1
       /\ Before("hookRelease", parent, i) = parent + 2
       /\ Before("hookFound", parent, i) = parent + 2
       /\ Before("hookUnlock", parent, i) = parent + 3
       /\ Before("hookLoop", parent, i) = parent + 4 + LoopSteps - i
       /\ Before("hookRecheck", parent, i) = parent + 4 + LoopSteps
       /\ Before("hookExcl", parent, i) = parent + 5 + LoopSteps
       /\ Before("hookAlloc", parent, i) = parent + 6 + LoopSteps
       /\ Before("hookRetrieve", parent, i) = parent + 7 + LoopSteps
       /\ Before("hookShared", parent, i) = parent + 8 + LoopSteps
       /\ Before("hook", parent, i) = parent + 9 + LoopSteps
       /\ Before("unhookParent", parent, i) = parent + 2
       /\ Before("unhookRelease", parent, i) = parent + 3
       /\ Before("unhookUnlock", parent, i) = parent + 4
       /\ Before("unhookLoop", parent, i) = parent + 5 + LoopSteps - i
       /\ Before("unhookRemove", parent, i) = parent + 5 + LoopSteps
       /\ Before("unhookExcl", parent, i) = parent + 6 + LoopSteps
       /\ Before("unhookDec", parent, i) = parent + 7 + LoopSteps
       /\ Before("unhookRetrieve", parent, i) = parent + 8 + LoopSteps
       /\ Before("unhookShared", parent, i) = parent + 9 + LoopSteps
       /\ Before("unhook", parent, i) = parent + 10 + LoopSteps
       /\ Before("getEntry", parent, i) = 2 * Turn + 2
       /\ Before("getRetry", parent, i) = 2 * Turn + 3
       /\ Before("getShared2", parent, i) = 2 * Turn + 4
       /\ Before("getRetrieve", parent, i) = 2 * Turn + 5
       /\ Before("getShared", parent, i) = 2 * Turn + 6
<1> TAKE parent, i
<1>1. Before("idle", parent, i) = 0
  BY Zenon DEF Before
<1>2. Before("callOriginal", parent, i) = 1
  BY Zenon DEF Before
<1>3. Before("hookParent", parent, i) = parent + 1
  BY Zenon DEF Before
<1>4. Before("hookRelease", parent, i) = parent + 2
  BY Zenon DEF Before
<1>5. Before("hookFound", parent, i) = parent + 2
  BY Zenon DEF Before
<1>6. Before("hookUnlock", parent, i) = parent + 3
  BY Zenon DEF Before
<1>7. Before("hookLoop", parent, i) = parent + 4 + LoopSteps - i
  BY Zenon DEF Before
<1>8. Before("hookRecheck", parent, i) = parent + 4 + LoopSteps
  BY Zenon DEF Before
<1>9. Before("hookExcl", parent, i) = parent + 5 + LoopSteps
  BY Zenon DEF Before
<1>10. Before("hookAlloc", parent, i) = parent + 6 + LoopSteps
  BY Zenon DEF Before
<1>11. Before("hookRetrieve", parent, i) = parent + 7 + LoopSteps
  BY Zenon DEF Before
<1>12. Before("hookShared", parent, i) = parent + 8 + LoopSteps
  BY Zenon DEF Before
<1>13. Before("hook", parent, i) = parent + 9 + LoopSteps
  BY Zenon DEF Before
<1>14. Before("unhookParent", parent, i) = parent + 2
  BY Zenon DEF Before
<1>15. Before("unhookRelease", parent, i) = parent + 3
  BY Zenon DEF Before
<1>16. Before("unhookUnlock", parent, i) = parent + 4
  BY Zenon DEF Before
<1>17. Before("unhookLoop", parent, i) = parent + 5 + LoopSteps - i
  BY Zenon DEF Before
<1>18. Before("unhookRemove", parent, i) = parent + 5 + LoopSteps
  BY Zenon DEF Before
<1>19. Before("unhookExcl", parent, i) = parent + 6 + LoopSteps
  BY Zenon DEF Before
<1>20. Before("unhookDec", parent, i) = parent + 7 + LoopSteps
  BY Zenon DEF Before
<1>21. Before("unhookRetrieve", parent, i) = parent + 8 + LoopSteps
  BY Zenon DEF Before
<1>22. Before("unhookShared", parent, i) = parent + 9 + LoopSteps
  BY Zenon DEF Before
<1>23. Before("unhook", parent, i) = parent + 10 + LoopSteps
  BY Zenon DEF Before
<1>24. Before("getEntry", parent, i) = 2 * Turn + 2
  BY Zenon DEF Before
<1>25. Before("getRetry", parent, i) = 2 * Turn + 3
  BY Zenon DEF Before
<1>26. Before("getShared2", parent, i) = 2 * Turn + 4
  BY Zenon DEF Before
<1>27. Before("getRetrieve", parent, i) = 2 * Turn + 5
  BY Zenon DEF Before
<1>28. Before("getShared", parent, i) = 2 * Turn + 6
  BY Zenon DEF Before
<1> QED
  BY <1>1, <1>2, <1>3, <1>4, <1>5, <1>6, <1>7, <1>8, <1>9, <1>10, <1>11, <1>12, <1>13,
     <1>14, <1>15, <1>16, <1>17, <1>18, <1>19, <1>20, <1>21, <1>22, <1>23, <1>24,
     <1>25, <1>26, <1>27, <1>28, Zenon

\* On each of the ways less is left after than before.
LEMMA FollowShortens ==
  ASSUME NEW parent \in {0, Turn}, NEW i \in 0 .. LoopSteps, NEW j \in 0 .. LoopSteps,
         NEW p, NEW q, <<p, q>> \in Follow,
         q \in {"hookLoop", "unhookLoop"} => j = 1
  PROVE  Before(q, parent, j) \in 0 .. Before(p, parent, i) - 1
<1>1. LoopSteps \in Nat /\ Turn = LoopSteps + 9 /\ (parent = 0 \/ parent = Turn)
  BY OpsFact DEF LoopSteps, Turn
<1>2. CASE p = "hook"
  <2>1. Before(p, parent, i) = parent + 9 + LoopSteps
    BY <1>2, BeforeValues
  <2>2. q \in {"hookShared", "hookParent"}
    BY <1>2 DEF Follow
  <2>3. /\ q = "hookShared" => Before(q, parent, j) = parent + 8 + LoopSteps
        /\ q = "hookParent" => Before(q, parent, j) = parent + 1
    BY BeforeValues
  <2> QED
    BY <1>1, <2>1, <2>2, <2>3
<1>3. CASE p = "hookShared"
  <2>1. Before(p, parent, i) = parent + 8 + LoopSteps
    BY <1>3, BeforeValues
  <2>2. q = "hookRetrieve"
    BY <1>3 DEF Follow
  <2>3. Before(q, parent, j) = parent + 7 + LoopSteps
    BY <2>2, BeforeValues
  <2> QED
    BY <1>1, <2>1, <2>3
<1>4. CASE p = "hookRetrieve"
  <2>1. Before(p, parent, i) = parent + 7 + LoopSteps
    BY <1>4, BeforeValues
  <2>2. q \in {"hookAlloc", "hookFound"}
    BY <1>4 DEF Follow
  <2>3. /\ q = "hookAlloc" => Before(q, parent, j) = parent + 6 + LoopSteps
        /\ q = "hookFound" => Before(q, parent, j) = parent + 2
    BY BeforeValues
  <2> QED
    BY <1>1, <2>1, <2>2, <2>3
<1>5. CASE p = "hookFound"
  <2>1. Before(p, parent, i) = parent + 2
    BY <1>5, BeforeValues
  <2>2. q = "hookParent"
    BY <1>5 DEF Follow
  <2>3. Before(q, parent, j) = parent + 1
    BY <2>2, BeforeValues
  <2> QED
    BY <1>1, <2>1, <2>3
<1>6. CASE p = "hookAlloc"
  <2>1. Before(p, parent, i) = parent + 6 + LoopSteps
    BY <1>6, BeforeValues
  <2>2. q \in {"hookExcl", "hookParent"}
    BY <1>6 DEF Follow
  <2>3. /\ q = "hookExcl" => Before(q, parent, j) = parent + 5 + LoopSteps
        /\ q = "hookParent" => Before(q, parent, j) = parent + 1
    BY BeforeValues
  <2> QED
    BY <1>1, <2>1, <2>2, <2>3
<1>7. CASE p = "hookExcl"
  <2>1. Before(p, parent, i) = parent + 5 + LoopSteps
    BY <1>7, BeforeValues
  <2>2. q = "hookRecheck"
    BY <1>7 DEF Follow
  <2>3. Before(q, parent, j) = parent + 4 + LoopSteps
    BY <2>2, BeforeValues
  <2> QED
    BY <1>1, <2>1, <2>3
<1>8. CASE p = "hookRecheck"
  <2>1. Before(p, parent, i) = parent + 4 + LoopSteps
    BY <1>8, BeforeValues
  <2>2. q \in {"hookUnlock", "hookLoop"}
    BY <1>8 DEF Follow
  <2>3. /\ q = "hookUnlock" => Before(q, parent, j) = parent + 3
        /\ q = "hookLoop" => Before(q, parent, j) = parent + 4 + LoopSteps - j
    BY BeforeValues
  <2> QED
    BY <1>1, <2>1, <2>2, <2>3
<1>9. CASE p = "hookLoop"
  <2>1. Before(p, parent, i) = parent + 4 + LoopSteps - i
    BY <1>9, BeforeValues
  <2>2. q = "hookUnlock"
    BY <1>9 DEF Follow
  <2>3. Before(q, parent, j) = parent + 3
    BY <2>2, BeforeValues
  <2> QED
    BY <1>1, <2>1, <2>3
<1>10. CASE p = "hookUnlock"
  <2>1. Before(p, parent, i) = parent + 3
    BY <1>10, BeforeValues
  <2>2. q = "hookRelease"
    BY <1>10 DEF Follow
  <2>3. Before(q, parent, j) = parent + 2
    BY <2>2, BeforeValues
  <2> QED
    BY <1>1, <2>1, <2>3
<1>11. CASE p = "hookRelease"
  <2>1. Before(p, parent, i) = parent + 2
    BY <1>11, BeforeValues
  <2>2. q = "hookParent"
    BY <1>11 DEF Follow
  <2>3. Before(q, parent, j) = parent + 1
    BY <2>2, BeforeValues
  <2> QED
    BY <1>1, <2>1, <2>3
<1>12. CASE p = "getShared"
  <2>1. Before(p, parent, i) = 2 * Turn + 6
    BY <1>12, BeforeValues
  <2>2. q = "getRetrieve"
    BY <1>12 DEF Follow
  <2>3. Before(q, parent, j) = 2 * Turn + 5
    BY <2>2, BeforeValues
  <2> QED
    BY <1>1, <2>1, <2>3
<1>13. CASE p = "getRetrieve"
  <2>1. Before(p, parent, i) = 2 * Turn + 5
    BY <1>13, BeforeValues
  <2>2. q \in {"getShared2", "getEntry"}
    BY <1>13 DEF Follow
  <2>3. /\ q = "getShared2" => Before(q, parent, j) = 2 * Turn + 4
        /\ q = "getEntry" => Before(q, parent, j) = 2 * Turn + 2
    BY BeforeValues
  <2> QED
    BY <1>1, <2>1, <2>2, <2>3
<1>14. CASE p = "getShared2"
  <2>1. Before(p, parent, i) = 2 * Turn + 4
    BY <1>14, BeforeValues
  <2>2. q = "getRetry"
    BY <1>14 DEF Follow
  <2>3. Before(q, parent, j) = 2 * Turn + 3
    BY <2>2, BeforeValues
  <2> QED
    BY <1>1, <2>1, <2>3
<1>15. CASE p = "getRetry"
  <2>1. Before(p, parent, i) = 2 * Turn + 3
    BY <1>15, BeforeValues
  <2>2. q \in {"getEntry", "unhook", "callOriginal"}
    BY <1>15 DEF Follow
  <2>3. /\ q = "getEntry" => Before(q, parent, j) = 2 * Turn + 2
        /\ q = "unhook" => Before(q, parent, j) = parent + 10 + LoopSteps
        /\ q = "callOriginal" => Before(q, parent, j) = 1
    BY BeforeValues
  <2> QED
    BY <1>1, <2>1, <2>2, <2>3
<1>16. CASE p = "getEntry"
  <2>1. Before(p, parent, i) = 2 * Turn + 2
    BY <1>16, BeforeValues
  <2>2. q \in {"unhook", "callOriginal"}
    BY <1>16 DEF Follow
  <2>3. /\ q = "unhook" => Before(q, parent, j) = parent + 10 + LoopSteps
        /\ q = "callOriginal" => Before(q, parent, j) = 1
    BY BeforeValues
  <2> QED
    BY <1>1, <2>1, <2>2, <2>3
<1>17. CASE p = "unhook"
  <2>1. Before(p, parent, i) = parent + 10 + LoopSteps
    BY <1>17, BeforeValues
  <2>2. q \in {"unhookShared", "unhookParent"}
    BY <1>17 DEF Follow
  <2>3. /\ q = "unhookShared" => Before(q, parent, j) = parent + 9 + LoopSteps
        /\ q = "unhookParent" => Before(q, parent, j) = parent + 2
    BY BeforeValues
  <2> QED
    BY <1>1, <2>1, <2>2, <2>3
<1>18. CASE p = "unhookShared"
  <2>1. Before(p, parent, i) = parent + 9 + LoopSteps
    BY <1>18, BeforeValues
  <2>2. q = "unhookRetrieve"
    BY <1>18 DEF Follow
  <2>3. Before(q, parent, j) = parent + 8 + LoopSteps
    BY <2>2, BeforeValues
  <2> QED
    BY <1>1, <2>1, <2>3
<1>19. CASE p = "unhookRetrieve"
  <2>1. Before(p, parent, i) = parent + 8 + LoopSteps
    BY <1>19, BeforeValues
  <2>2. q \in {"unhookDec", "unhookParent"}
    BY <1>19 DEF Follow
  <2>3. /\ q = "unhookDec" => Before(q, parent, j) = parent + 7 + LoopSteps
        /\ q = "unhookParent" => Before(q, parent, j) = parent + 2
    BY BeforeValues
  <2> QED
    BY <1>1, <2>1, <2>2, <2>3
<1>20. CASE p = "unhookDec"
  <2>1. Before(p, parent, i) = parent + 7 + LoopSteps
    BY <1>20, BeforeValues
  <2>2. q \in {"unhookExcl", "unhookRelease"}
    BY <1>20 DEF Follow
  <2>3. /\ q = "unhookExcl" => Before(q, parent, j) = parent + 6 + LoopSteps
        /\ q = "unhookRelease" => Before(q, parent, j) = parent + 3
    BY BeforeValues
  <2> QED
    BY <1>1, <2>1, <2>2, <2>3
<1>21. CASE p = "unhookExcl"
  <2>1. Before(p, parent, i) = parent + 6 + LoopSteps
    BY <1>21, BeforeValues
  <2>2. q = "unhookRemove"
    BY <1>21 DEF Follow
  <2>3. Before(q, parent, j) = parent + 5 + LoopSteps
    BY <2>2, BeforeValues
  <2> QED
    BY <1>1, <2>1, <2>3
<1>22. CASE p = "unhookRemove"
  <2>1. Before(p, parent, i) = parent + 5 + LoopSteps
    BY <1>22, BeforeValues
  <2>2. q \in {"unhookUnlock", "unhookLoop"}
    BY <1>22 DEF Follow
  <2>3. /\ q = "unhookUnlock" => Before(q, parent, j) = parent + 4
        /\ q = "unhookLoop" => Before(q, parent, j) = parent + 5 + LoopSteps - j
    BY BeforeValues
  <2> QED
    BY <1>1, <2>1, <2>2, <2>3
<1>23. CASE p = "unhookLoop"
  <2>1. Before(p, parent, i) = parent + 5 + LoopSteps - i
    BY <1>23, BeforeValues
  <2>2. q = "unhookUnlock"
    BY <1>23 DEF Follow
  <2>3. Before(q, parent, j) = parent + 4
    BY <2>2, BeforeValues
  <2> QED
    BY <1>1, <2>1, <2>3
<1>24. CASE p = "unhookUnlock"
  <2>1. Before(p, parent, i) = parent + 4
    BY <1>24, BeforeValues
  <2>2. q = "unhookRelease"
    BY <1>24 DEF Follow
  <2>3. Before(q, parent, j) = parent + 3
    BY <2>2, BeforeValues
  <2> QED
    BY <1>1, <2>1, <2>3
<1>25. CASE p = "unhookRelease"
  <2>1. Before(p, parent, i) = parent + 3
    BY <1>25, BeforeValues
  <2>2. q = "unhookParent"
    BY <1>25 DEF Follow
  <2>3. Before(q, parent, j) = parent + 2
    BY <2>2, BeforeValues
  <2> QED
    BY <1>1, <2>1, <2>3
<1>26. p \in {"hook", "hookShared", "hookRetrieve", "hookFound", "hookAlloc",
              "hookExcl", "hookRecheck", "hookLoop", "hookUnlock", "hookRelease",
              "getShared", "getRetrieve", "getShared2", "getRetry", "getEntry",
              "unhook", "unhookShared", "unhookRetrieve", "unhookDec", "unhookExcl",
              "unhookRemove", "unhookLoop", "unhookUnlock", "unhookRelease"}
  BY DEF Follow
<1> QED
  BY <1>26, <1>2, <1>3, <1>4, <1>5, <1>6, <1>7, <1>8, <1>9, <1>10, <1>11, <1>12, <1>13,
     <1>14, <1>15, <1>16, <1>17, <1>18, <1>19, <1>20, <1>21, <1>22, <1>23, <1>24,
     <1>25

\* So there is on each move of a call.
LEMMA StepShortens ==
  ASSUME NEW t \in Threads, Step(t), LocalsTyped, LocalsOK(t)
  PROVE  StepsLeft(t)' \in 0 .. StepsLeft(t) - 1
<1> DEFINE parent  == IF cur[t] = vn[t] THEN Turn ELSE 0
           parent1 == IF cur'[t] = vn'[t] THEN Turn ELSE 0
<1>1. /\ LoopSteps \in Nat /\ Len(HookOps) \in Nat /\ LoopSteps = Len(HookOps) + 1
      /\ Turn = LoopSteps + 9 /\ parent \in {0, Turn} /\ parent1 \in {0, Turn}
  BY OpsFact DEF LoopSteps, Turn
<1>2. idx[t] \in 0 .. LoopSteps /\ idx'[t] \in 0 .. LoopSteps
  BY StepIdxTyped DEF LocalsTyped, LoopSteps
<1>3. StepsLeft(t) = Before(pc[t], parent, idx[t]) /\ StepsLeft(t)' = Before(pc'[t], parent1, idx'[t])
  BY DEF StepsLeft
<1>4. CallMoves(t)
  BY StepCallMoves
<1>5. CASE /\ SamePlace(t) /\ <<pc[t], pc'[t]>> \in Follow
           /\ pc'[t] \in {"hookLoop", "unhookLoop"} => idx'[t] = 1
  <2>1. parent1 = parent
    BY <1>5 DEF SamePlace
  <2> HIDE DEF parent, parent1
  <2>2. Before(pc'[t], parent, idx'[t]) \in 0 .. Before(pc[t], parent, idx[t]) - 1
    BY <1>1, <1>2, <1>5, FollowShortens, Zenon
  <2> QED
    BY <1>3, <2>1, <2>2, Zenon
<1>6. CASE /\ SamePlace(t) /\ pc'[t] = pc[t] /\ pc[t] \in {"hookLoop", "unhookLoop"}
           /\ idx[t] \in 1 .. Len(HookOps) /\ idx'[t] = idx[t] + 1
  <2>1. parent1 = parent
    BY <1>6 DEF SamePlace
  <2> HIDE DEF parent, parent1
  <2>2. PICK n \in Nat : idx[t] = n /\ idx'[t] = n + 1 /\ n < LoopSteps
    BY <1>1, <1>6
  <2>3. PICK c \in {4, 5} :
          /\ Before(pc[t], parent, idx[t]) = parent + c + LoopSteps - idx[t]
          /\ Before(pc'[t], parent, idx'[t]) = parent + c + LoopSteps - idx'[t]
    BY <1>6, BeforeValues
  <2>4. /\ StepsLeft(t) = parent + c + LoopSteps - n
        /\ StepsLeft(t)' = parent + c + LoopSteps - (n + 1)
    BY <1>3, <2>1, <2>2, <2>3
  <2> DEFINE m == parent + c + LoopSteps - (n + 1)
  <2>5. m \in Nat /\ parent + c + LoopSteps - (n + 1) = m /\ parent + c + LoopSteps - n = m + 1
    <3>1. parent \in Nat /\ c \in Nat /\ LoopSteps \in Nat /\ n \in Nat /\ n + 1 <= LoopSteps
      BY <1>1, <2>2
    <3> QED
      BY ONLY <3>1
  <2> HIDE DEF m
  <2>6. StepsLeft(t) = m + 1 /\ StepsLeft(t)' = m
    BY ONLY <2>4, <2>5, Zenon
  <2> QED
    BY ONLY <2>5, <2>6
<1>7. CASE /\ cur[t] = vn[t] /\ cur'[t] # vn'[t]
           /\ \/ pc[t] = "hookParent" /\ pc'[t] = "hook"
              \/ pc[t] = "unhookParent" /\ pc'[t] = "unhook"
  <2>1. parent = Turn /\ parent1 = 0
    BY <1>7
  <2> HIDE DEF parent, parent1
  <2>2. \/ /\ Before(pc[t], parent, idx[t]) = parent + 1
           /\ Before(pc'[t], parent1, idx'[t]) = parent1 + 9 + LoopSteps
        \/ /\ Before(pc[t], parent, idx[t]) = parent + 2
           /\ Before(pc'[t], parent1, idx'[t]) = parent1 + 10 + LoopSteps
    BY <1>7, BeforeValues
  <2> QED
    BY <1>1, <1>3, <2>1, <2>2
<1>8. CASE \/ pc[t] = "hookParent" /\ pc'[t] = "idle"
           \/ pc[t] = "unhookParent" /\ pc'[t] = "callOriginal"
           \/ pc[t] = "callOriginal" /\ pc'[t] = "idle"
  <2> HIDE DEF parent, parent1
  <2>1. \/ Before(pc[t], parent, idx[t]) = parent + 1 /\ Before(pc'[t], parent1, idx'[t]) = 0
        \/ Before(pc[t], parent, idx[t]) = parent + 2 /\ Before(pc'[t], parent1, idx'[t]) = 1
        \/ Before(pc[t], parent, idx[t]) = 1 /\ Before(pc'[t], parent1, idx'[t]) = 0
    BY <1>8, BeforeValues
  <2> QED
    BY <1>1, <1>3, <2>1
<1> QED
  BY <1>4, <1>5, <1>6, <1>7, <1>8 DEF CallMoves

\* For any number of threads, vnodes and vectors, and whatever they do
\* meanwhile: a thread goes through the two functions (VNodeHook.cpp:233-641)
\* and the look-up (133-229) in a number of steps given by the array of hooks.
THEOREM CallsTakeFewSteps == Spec => CallsAreShort
<1>1. ASSUME TypeOK, [Next]_vars, NEW u \in Threads
      PROVE  \/ pc[u] = "idle"
             \/ pc'[u] = pc[u] /\ idx'[u] = idx[u]
             \/ StepsLeft(u)' \in 0 .. StepsLeft(u) - 1
  <2>1. CASE Quiet
    BY <2>1 DEF Quiet, ptrVars
  <2>2. ASSUME NEW t \in Threads, Step(t) \/ Start(t), t # u
        PROVE  pc'[u] = pc[u] /\ idx'[u] = idx[u]
    <3>1. LocalsTyped /\ OnlyMoves(t)
      BY <1>1, <2>2, StepMoves DEF TypeOK
    <3>2. Stays(u)
      BY <2>2, <3>1, OthersStay
    <3> QED
      BY <3>2 DEF Stays
  <2>3. CASE Start(u)
    BY <2>3 DEF Start, KauthCallback, Reclaim, VnopCall, At
  <2>4. CASE Step(u)
    BY <1>1, <2>4, StepShortens DEF TypeOK
  <2> QED
    BY <1>1, <2>1, <2>2, <2>3, <2>4, NextCases
<1>2. TypeOK /\ [Next]_vars =>
        [\A t \in Threads :
           \/ pc[t] = "idle"
           \/ pc'[t] = pc[t] /\ idx'[t] = idx[t]
           \/ StepsLeft(t)' \in 0 .. StepsLeft(t) - 1]_vars
  BY <1>1
<1> QED
  BY <1>2, TypeCorrect, PTL DEF Spec, CallsAreShort

\* Where a thread waits for the lock.
Waiting ==
    {"hookShared", "hookExcl", "getShared", "getShared2", "unhookShared", "unhookExcl"}

\* No thread waits for one that waits: when all threads are outside the code
\* or at a lock, the lock is free, whichever exit the calls before have taken
\* (VNodeHook.cpp:472 and 631 end the locked sections).
THEOREM LockComesFree ==
  Spec => []((\A t \in Threads : pc[t] \in Waiting \cup {"idle"}) => Writable)
<1>1. ASSUME Inv, \A t \in Threads : pc[t] \in Waiting \cup {"idle"}
      PROVE  Writable
  <2>1. \A t \in Threads : pc[t] \notin ExclusiveLabels /\ pc[t] \notin SharedLabels
    BY <1>1 DEF Waiting, ExclusiveLabels, SharedLabels
  <2>2. readers \subseteq Threads /\ writer \in Threads \cup {NoThread}
    BY <1>1 DEF Inv, TypeOK, SharedTyped
  <2>3. readers = {} /\ writer = NoThread
    BY <1>1, <2>1, <2>2 DEF Inv, LockOK
  <2> QED
    BY <2>3 DEF Writable
<1> QED
  BY <1>1, Invariance, PTL

-----------------------------------------------------------------------------
(* The hooks implement a transparent filter step by step: AddEntry         *)
(* attaches a vector, RemoveEntry detaches it, a jump through a slot is a  *)
(* call, finding the original resolves it, and every other step is hidden. *)
(* What the abstract guards ask for comes from the inductive invariant.    *)

\* The part of the refinement that is about single steps.
TransparentSteps == TF!Init /\ [][TF!Next]_(TF!vars)

\* A request changes only when a VFS call starts or ends.
LEMMA RequestKept ==
  ASSUME op' = op, \A u \in Threads : op[u] = NoOp \/ vn'[u] = vn[u]
  PROVE  Request' = Request
  BY DEF Request

\* It starts with the operation,
LEMMA RequestMade ==
  ASSUME LocalsTyped, NEW t \in Threads, NEW v, NEW o \in Ops, Enter(t, v, o)
  PROVE  Request' = [Request EXCEPT ![t] = Original(VopOf[v], o)]
  BY OpsFact DEF Request, Enter, LocalsTyped

\* and ends without one.
LEMMA RequestEnded ==
  ASSUME LocalsTyped, NEW t \in Threads, NEW v, Enter(t, v, NoOp)
  PROVE  /\ Request' = [Request EXCEPT ![t] = Null]
         /\ op[t] = NoOp => Request' = Request
  BY DEF Request, Enter, LocalsTyped

\* A request is a pair, and is there exactly during a VFS call.
LEMMA RequestOf ==
  ASSUME NEW t \in Threads
  PROVE  /\ op[t] = NoOp => Request[t] = TF!None
         /\ op[t] # NoOp => /\ Request[t] = Original(VopOf[vn[t]], op[t])
                            /\ Request[t] # TF!None
                            /\ Request[t][2] = op[t]
  BY DEF Request, Original, Null, TF!None

\* Every step of a thread is a step of the transparent filter or hidden.
LEMMA StepTransparent ==
  ASSUME NEW t \in Threads, Step(t) \/ Start(t),
         Inv
  PROVE  TF!Next \/ UNCHANGED TF!vars
<1>1. CASE LockShared(t) \/ LockExclusive(t) \/ UnLockExclusive(t) \/
          LoopEnd(t) \/ HookCheck(t) \/ HookRetrieve(t)
  <2>1. hash' = hash /\ fn' = fn /\ op' = op /\ vn' = vn
    BY <1>1 DEF LockShared, At, Goto, Readable, tableVars, entryVars,
       vnodeVars, callVars, ptrVars, LockExclusive, Writable,
       UnLockExclusive, LoopEnd, lockVars, HookCheck, HookRetrieve, Vop,
       UnLockShared, Take, Count, Retain
  <2> QED
    BY <2>1, RequestKept DEF TF!vars, Attached
<1>2. CASE HookFound(t) \/ HookAlloc(t) \/ HookSlot(t) \/ HookRelease(t) \/
          GetRetrieve(t) \/ UnhookCheck(t)
  <2>1. hash' = hash /\ fn' = fn /\ op' = op /\ vn' = vn
    BY <1>2 DEF HookFound, At, Drop, Goto, tableVars, lockVars, vnodeVars,
       callVars, Release, HookAlloc, entryVars, HookSlot, Vop, HookAt,
       SetOriginalVop, HookRelease, GetRetrieve, UnLockShared, Take,
       Retain, UnhookCheck, ptrVars
  <2> QED
    BY <2>1, RequestKept DEF TF!vars, Attached
<1>3. CASE UnhookRetrieve(t) \/ UnhookDecrement(t) \/ UnhookSlot(t) \/
          UnhookRelease(t) \/ UnhookParent(t)
  <2>1. hash' = hash /\ fn' = fn /\ op' = op /\ vn' = vn
    BY <1>3 DEF UnhookRetrieve, Vop, At, UnLockShared, Take, Goto,
       tableVars, vnodeVars, callVars, Retain, UnhookDecrement, Count,
       lockVars, ptrVars, UnhookSlot, HookAt, entryVars, UnhookRelease,
       Drop, Release, UnhookParent, HasParent
  <2> QED
    BY <2>1, RequestKept DEF TF!vars, Attached
<1>4. CASE (\E v \in Vnodes : KauthCallback(t, v)) \/ HookParent(t)
  <2>1. LocalsTyped /\ op[t] = NoOp /\ hash' = hash /\ fn' = fn
    BY <1>4 DEF KauthCallback, At, Enter, Goto, tableVars, entryVars,
       lockVars, ptrVars, HookParent, Inv, TypeOK, LocalsOK, HookLabels
  <2>2. Request' = Request
    <3>1. CASE \E v \in Vnodes : KauthCallback(t, v)
      BY <2>1, <3>1, RequestEnded DEF KauthCallback
    <3>2. CASE HookParent(t) /\ HasParent(t)
      <4>1. op' = op /\ vn' = vn
        BY <3>2 DEF HookParent
      <4> QED
        BY <4>1, RequestKept
    <3>3. CASE HookParent(t) /\ ~HasParent(t)
      BY <2>1, <3>3, RequestEnded DEF HookParent, Return
    <3> QED
      BY <1>4, <3>1, <3>2, <3>3
  <2> QED
    BY <2>1, <2>2 DEF TF!vars, Attached
<1>5. CASE HookRecheck(t)
  <2>1. /\ op[t] = NoOp /\ fn' = fn /\ op' = op /\ vn' = vn /\ Vop(t) \in Vops
        /\ hash \in [Vops -> Entries \cup {NoEntry}] /\ new[t] # NoEntry
    BY <1>5, FileSystemAssumption DEF HookRecheck, At, Vop, callVars, Inv, TypeOK,
       SharedTyped, LocalsTyped, LocalsOK, HookLabels
  <2>2. Request' = Request
    BY <2>1, RequestKept
  <2>3. \/ hash' = hash
        \/ hash[Vop(t)] = NoEntry /\ hash' = [hash EXCEPT ![Vop(t)] = new[t]]
    BY <1>5 DEF HookRecheck, Recheck, AddEntry
  <2>4. CASE hash' = hash
    BY <2>1, <2>2, <2>4 DEF TF!vars, Attached
  <2>5. CASE hash[Vop(t)] = NoEntry /\ hash' = [hash EXCEPT ![Vop(t)] = new[t]]
    <3>1. Vop(t) \notin Attached /\ Attached' = Attached \cup {Vop(t)}
      BY <2>1, <2>5 DEF Attached
    <3>2. TF!Attach(t, Vop(t))
      BY <2>1, <2>2, <3>1, RequestOf DEF TF!Attach
    <3> QED
      BY <2>1, <3>2 DEF TF!Next
  <2> QED
    BY <2>3, <2>4, <2>5
<1>6. CASE UnhookRemove(t)
  <2>1. /\ op[t] = "reclaim" /\ op[t] # NoOp /\ fn' = fn /\ op' = op /\ vn' = vn
        /\ Vop(t) \in Vops /\ hash \in [Vops -> Entries \cup {NoEntry}]
        /\ fn[t] = Original(VopOf[vn[t]], op[t])
    BY <1>6, FileSystemAssumption, OpsFact DEF UnhookRemove, At, Vop, callVars,
       Inv, TypeOK, SharedTyped, LocalsTyped, LocalsOK, UnhookLabels, CallsOK
  <2>2. Request' = Request
    BY <2>1, RequestKept
  <2>3. hash' = hash \/ hash' = [hash EXCEPT ![Vop(t)] = NoEntry]
    BY <1>6 DEF UnhookRemove
  <2>4. CASE hash' = hash
    BY <2>1, <2>2, <2>4 DEF TF!vars, Attached
  <2>5. CASE hash' = [hash EXCEPT ![Vop(t)] = NoEntry] /\ hash' # hash
    <3>1. Vop(t) \in Attached /\ Attached' = Attached \ {Vop(t)}
      BY <2>1, <2>5 DEF Attached
    <3>2. TF!Detach(t, Vop(t))
      BY <2>1, <2>2, <3>1, RequestOf DEF TF!Detach
    <3> QED
      BY <2>1, <3>2 DEF TF!Next
  <2> QED
    BY <2>3, <2>4, <2>5
<1>7. CASE GetRetry(t) \/ GetEntry(t)
  <2>1. /\ pc[t] \in GetLabels /\ op[t] # NoOp /\ fn[t] = Null
        /\ hash' = hash /\ op' = op /\ vn' = vn
        /\ fn \in [Threads -> Functions]
    BY <1>7 DEF GetRetry, GetEntry, At, tableVars, Inv, TypeOK, LocalsTyped,
       LocalsOK, GetLabels, HookLabels, CallsOK
  <2>2. Request' = Request /\ Attached' = Attached
    BY <2>1, RequestKept DEF Attached
  <2>3. \/ fn' = fn
        \/ /\ fn' = [fn EXCEPT ![t] = fn'[t]]
           /\ pc'[t] \in {"unhook", "callOriginal"}
    BY <1>7, <2>1 DEF GetRetry, GetEntry, Goto, AfterGet, Inv, TypeOK, LocalsTyped
  <2>4. CASE pc'[t] \in {"unhook", "callOriginal"} /\ fn' = [fn EXCEPT ![t] = fn'[t]]
    <3>1. CallsOK'
      BY StepInv DEF Inv
    <3>2. fn'[t] = Original(VopOf[vn[t]], op[t])
      BY <2>1, <2>4, <3>1 DEF CallsOK, UnhookLabels
    <3>3. TF!Resolve(t)
      BY <2>1, <2>2, <2>4, <3>2, RequestOf DEF TF!Resolve, TF!None, Null
    <3> QED
      BY <3>3 DEF TF!Next
  <2> QED
    BY <2>2, <2>3, <2>4 DEF TF!vars
<1>8. CASE CallOriginal(t)
  <2>1. /\ LocalsTyped /\ hash' = hash /\ fn' = [fn EXCEPT ![t] = Null]
        /\ Enter(t, NoVnode, NoOp)
        /\ fn[t] = Original(VopOf[vn[t]], op[t])
    BY <1>8 DEF CallOriginal, At, Return, tableVars, Inv, TypeOK, CallsOK
  <2>2. Request' = [Request EXCEPT ![t] = Null] /\ Attached' = Attached
    BY <2>1, RequestEnded DEF Attached
  <2>3. TF!Return(t)
    BY <2>1, <2>2 DEF TF!Return, TF!None, Null, Original
  <2> QED
    BY <2>3 DEF TF!Next
<1>9. CASE (\E v \in Vnodes : Reclaim(t, v)) \/ (\E v \in Vnodes, o \in Ops :
          VnopCall(t, v, o))
  <2>1. PICK v \in Vnodes, o \in Ops : Jump(t, v, o) /\ pc[t] = "idle"
    BY <1>9, OpsFact DEF Reclaim, VnopCall, At
  <2>2. /\ LocalsTyped /\ op[t] = NoOp /\ hash' = hash /\ VopOf[v] \in Vops
        /\ Enter(t, v, o)
    BY <2>1, FileSystemAssumption DEF Jump, tableVars, Inv, TypeOK, LocalsOK
  <2>3. Request' = [Request EXCEPT ![t] = Original(VopOf[v], o)] /\ Attached' = Attached
    BY <2>2, RequestMade DEF Attached
  <2>4. fn' = fn \/ fn' = [fn EXCEPT ![t] = Original(VopOf[v], o)]
    <3>1. slot[VopOf[v]][o] # Hook(o) => slot[VopOf[v]][o] = Original(VopOf[v], o)
      BY <2>2, SlotValues DEF Inv
    <3> QED
      BY <2>1, <3>1 DEF Jump
  <2>5. TF!Invoke(t, VopOf[v], o)
    BY <2>2, <2>3, <2>4, RequestOf DEF TF!Invoke, Original
  <2> QED
    BY <2>2, <2>5 DEF TF!Next
<1> QED
  BY <1>1, <1>2, <1>3, <1>4, <1>5, <1>6, <1>7, <1>8, <1>9 DEF Step,
     LockStep, HookStep, GetStep, UnhookStep, Start

\* Nothing is attached or requested at the start.
LEMMA InitTransparent == Init => TF!Init
  BY DEF Init, TF!Init, TF!None, Attached, Request, Null

\* Every interleaving of hooking, unhooking and calls is a behaviour of a
\* filter that no caller can notice (VNodeHook.cpp:133-679, VFSHooks.cpp:49-382).
THEOREM HooksAreTransparent == Spec => TransparentSteps
<1>1. Inv /\ [Next]_vars => [TF!Next]_(TF!vars)
  <2>1. Quiet => UNCHANGED TF!vars
    BY RequestKept DEF Quiet, tableVars, callVars, TF!vars, Attached
  <2> QED
    BY <2>1, NextCases, StepTransparent
<1> QED
  BY <1>1, InitTransparent, Invariance, PTL DEF Spec, TransparentSteps

-----------------------------------------------------------------------------
(* The listener and the hooks use the driver as its life cycle says.  The  *)
(* steps between the locks are hidden; what is left is where a vector      *)
(* begins and ceases to lead into the driver, and where a thread comes in  *)
(* and goes out.                                                           *)

\* The places, position by position.
LEMMA PlaceValues ==
  /\ \A p \in BeforeHooked : LifePlace(p) = "hooking"
  /\ \A p \in HookLabels \ BeforeHooked : LifePlace(p) = "callback"
  /\ \A p \in GetLabels \cup UnhookLabels : LifePlace(p) = "hook"
  /\ LifePlace("idle") = "out" /\ LifePlace("callOriginal") = "out"
  BY DEF LifePlace, BeforeHooked, HookLabels, GetLabels, UnhookLabels

\* A thread goes from place to place,
PlaceMoves(p, q) ==
    \/ q = p
    \/ p = "out" /\ q = "callback"
    \/ p = "callback" /\ q = "hooking"
    \/ p = "hooking" /\ q = "callback"
    \/ p = "callback" /\ q = "out"
    \/ p = "hook" /\ q = "out"

\* along the ways of a call.
LEMMA FollowPlaces ==
  ASSUME NEW p, NEW q, <<p, q>> \in Follow
  PROVE  PlaceMoves(LifePlace(p), LifePlace(q))
<1>1. /\ p \in BeforeHooked => LifePlace(p) = "hooking"
      /\ p \in HookLabels \ BeforeHooked => LifePlace(p) = "callback"
      /\ p \in GetLabels \cup UnhookLabels => LifePlace(p) = "hook"
      /\ p \in {"idle", "callOriginal"} => LifePlace(p) = "out"
  BY PlaceValues
<1>2. /\ q \in BeforeHooked => LifePlace(q) = "hooking"
      /\ q \in HookLabels \ BeforeHooked => LifePlace(q) = "callback"
      /\ q \in GetLabels \cup UnhookLabels => LifePlace(q) = "hook"
      /\ q \in {"idle", "callOriginal"} => LifePlace(q) = "out"
  BY PlaceValues
<1> QED
  BY <1>1, <1>2 DEF Follow, PlaceMoves, BeforeHooked, HookLabels, GetLabels, UnhookLabels

\* A step under way moves its thread so.
LEMMA StepPlaces ==
  ASSUME NEW t \in Threads, CallMoves(t)
  PROVE  PlaceMoves(LifePlace(pc[t]), LifePlace(pc'[t]))
<1>1. CASE <<pc[t], pc'[t]>> \in Follow
  BY <1>1, FollowPlaces
<1>2. /\ LifePlace("hookParent") = "callback" /\ LifePlace("hook") = "callback"
      /\ LifePlace("unhookParent") = "hook" /\ LifePlace("unhook") = "hook"
      /\ LifePlace("idle") = "out" /\ LifePlace("callOriginal") = "out"
  BY PlaceValues DEF BeforeHooked, HookLabels, UnhookLabels
<1> QED
  BY <1>1, <1>2 DEF CallMoves, PlaceMoves

\* The other threads stay where they are.
LEMMA CallUpdate ==
  ASSUME LocalsTyped, NEW t \in Threads, OnlyMoves(t)
  PROVE  LifeCall' = [LifeCall EXCEPT ![t] = LifePlace(pc'[t])]
  BY DEF LocalsTyped, OnlyMoves, LifeCall

\* What a step does to the vectors that lead into the driver.
LEMMA StepLed ==
  ASSUME Inv, NEW t \in Threads, TableMoves(t), LocalsTyped'
  PROVE  \/ Led' = Led
         \/ /\ pc[t] = "hookRecheck" /\ pc'[t] = "hookLoop"
            /\ \E w \in Vops : Led' = Led \cup {w}
         \/ /\ pc[t] \in UnhookLabels /\ pc'[t] \in UnhookLabels
            /\ \E w \in Led : Led' = Led \ {w}
<1>1. /\ hash \in [Vops -> Entries \cup {NoEntry}]
      /\ slot \in [Vops -> [Ops -> Functions]] /\ NoEntry \notin Entries
      /\ TypeOK /\ SlotsOK /\ LocalsTyped /\ LocalsOK(t)
  BY NamesAssumption DEF Inv, TypeOK, SharedTyped
<1>2. CASE UNCHANGED <<slot, hash>>
  BY <1>2 DEF Led
<1>3. ASSUME NEW w \in Vops, StartsHooking(t, w)
      PROVE  /\ pc[t] = "hookRecheck" /\ pc'[t] = "hookLoop"
             /\ Led' = Led \cup {w}
  <2>1. new[t] # NoEntry
    BY <1>1, <1>3 DEF StartsHooking, LocalsOK
  <2>2. slot' = slot /\ hash' = [hash EXCEPT ![w] = new[t]]
    BY <1>3 DEF StartsHooking
  <2>3. \A x \in Vops : x \in Led' <=> x \in Led \/ x = w
    BY <1>1, <2>1, <2>2 DEF Led
  <2>4. Led' = Led \cup {w}
    BY <2>3 DEF Led
  <2> QED
    BY <1>3, <2>4 DEF StartsHooking
<1>4. ASSUME NEW w \in Vops, StartsUnhooking(t, w)
      PROVE  /\ pc[t] \in UnhookLabels /\ pc'[t] \in UnhookLabels
             /\ w \in Led /\ (Led' = Led \/ Led' = Led \ {w})
  <2>1. slot' = slot /\ hash' = [hash EXCEPT ![w] = NoEntry] /\ hash[w] # NoEntry
    BY <1>4 DEF StartsUnhooking
  <2>2. \A x \in Vops : x # w => (x \in Led' <=> x \in Led)
    BY <1>1, <2>1 DEF Led
  <2>3. w \in Led
    BY <2>1 DEF Led
  <2>4. CASE w \in Led'
    <3>1. \A x \in Vops : x \in Led' <=> x \in Led
      BY <2>2, <2>3, <2>4
    <3> QED
      BY <1>4, <2>3, <3>1 DEF StartsUnhooking, Led, UnhookLabels
  <2>5. CASE w \notin Led'
    <3>1. \A x \in Vops : x \in Led' <=> x \in Led /\ x # w
      BY <2>2, <2>5
    <3>2. Led' = Led \ {w}
      BY <3>1 DEF Led
    <3> QED
      BY <1>4, <2>3, <3>2 DEF StartsUnhooking, UnhookLabels
  <2> QED
    BY <2>4, <2>5
<1>5. CASE Rewrites(t) /\ HookSlot(t)
  <2>1. /\ pc[t] = "hookLoop" /\ hash' = hash /\ hash[Vop(t)] = new[t]
        /\ new[t] # NoEntry
    BY <1>1, <1>5 DEF Rewrites, HookSlot, At, LocalsOK, SlotsOK, Hooking
  <2>2. \A x \in Vops : x # Vop(t) => slot'[x] = slot[x]
    BY <1>1, <1>5 DEF HookSlot
  <2>3. \A x \in Vops : x \in Led' <=> x \in Led
    BY <2>1, <2>2 DEF Led
  <2> QED
    BY <2>3 DEF Led
<1>6. CASE Rewrites(t) /\ UnhookSlot(t)
  <2>1. PICK w \in Vops : w = Vop(t)
    BY <1>1, <1>6, FileSystemAssumption DEF Rewrites, UnhookSlot, At, Vop, LocalsTyped,
       LocalsOK
  <2>2. PICK o \in Ops : o = HookAt(idx[t])
    BY <1>1, <1>6, OpsFact DEF UnhookSlot, At, HookAt, LocalsTyped, LocalsOK
  <2>3. pc[t] = "unhookLoop" /\ pc'[t] = "unhookLoop" /\ hash' = hash
    BY <1>6 DEF Rewrites, UnhookSlot, At
  <2> DEFINE f == Original(w, o)
  <2> HIDE DEF f
  <2>4. slot' = slot \/ slot' = [slot EXCEPT ![w][o] = f]
    <3>1. \/ slot' = slot
          \/ o \in KnownOps /\ slot' = [slot EXCEPT ![w][o] = origVop[ent[t]][o]]
      BY <1>6, <2>1, <2>2 DEF UnhookSlot
    <3>2. o \in KnownOps => origVop[ent[t]][o] = f
      <4>1. Unhooking(t) /\ idx[t] \in 1 .. Len(HookOps)
        BY <1>1, <1>6, <2>3, OpsFact DEF SlotsOK, LocalsTyped, LocalsOK, UnhookSlot
      <4> QED
        BY <2>1, <2>2, <4>1 DEF Unhooking, Hooked, HookAt, f
    <3> QED
      BY <3>1, <3>2
  <2>5. f # Hook(o)
    BY <1>1, SlotValues DEF f
  <2>6. \A x \in Vops : x # w => slot'[x] = slot[x]
    BY <1>1, <2>4
  <2>7. \A k \in Ops : slot'[w][k] = Hook(k) => slot[w][k] = Hook(k)
    BY <1>1, <2>4, <2>5
  <2>8. \A x \in Vops : (x # w => (x \in Led' <=> x \in Led)) /\ (x \in Led' => x \in Led)
    BY <2>3, <2>6, <2>7 DEF Led
  <2>9. Led' = Led \/ (w \in Led /\ Led' = Led \ {w})
    BY <2>8 DEF Led
  <2> QED
    BY <2>3, <2>9 DEF UnhookLabels
<1> QED
  BY <1>2, <1>3, <1>4, <1>5, <1>6 DEF TableMoves, Leaves, Clears, EndsLoop, Rewrites


\* A thread that moves so makes a step of the listener or of the hooks.
LEMMA MoveIsUse ==
  ASSUME NEW t \in Threads, NEW q, LifeCall' = [LifeCall EXCEPT ![t] = q],
         Led' = Led,
         PlaceMoves(LifeCall[t], q) \/ (LifeCall[t] = "out" /\ q = "hook" /\ Led # {})
  PROVE  Life!Use(t) \/ UNCHANGED Life!lifeVars
<1>1. LifeCall' = LifeCall \/ q # LifeCall[t]
  BY DEF LifeCall
<1>2. CASE q # LifeCall[t]
  BY <1>2 DEF PlaceMoves, Life!Use, Life!Authorize, Life!Check, Life!HookVop, Life!Defer,
     Life!EnterHook, Life!LeaveHook, Life!driverVars, Life!refVars
<1> QED
  BY <1>1, <1>2 DEF Life!lifeVars, Life!driverVars, Life!refVars

\* Every step of a thread is one of the listener or the hooks, or hidden.
LEMMA StepUses ==
  ASSUME Inv, NEW t \in Threads, Step(t) \/ Start(t)
  PROVE  Life!Use(t) \/ UNCHANGED Life!lifeVars
<1>1. SharedTyped /\ LocalsTyped /\ LocalsOK(t) /\ SlotsOK /\ TypeOK
  BY DEF Inv, TypeOK
<1>2. Inv' /\ LocalsTyped'
  BY StepInv DEF Inv, TypeOK
<1>3. LifeCall' = [LifeCall EXCEPT ![t] = LifePlace(pc'[t])]
  BY <1>1, StepMoves, CallUpdate
<1>4. LifeCall[t] = LifePlace(pc[t])
  BY DEF LifeCall
<1>5. CASE Step(t)
  <2>1. PlaceMoves(LifePlace(pc[t]), LifePlace(pc'[t]))
    BY <1>1, <1>5, StepCallMoves, StepPlaces
  <2>2. CASE Led' = Led
    BY <1>3, <1>4, <2>1, <2>2, MoveIsUse
  <2>3. ASSUME pc[t] = "hookRecheck", pc'[t] = "hookLoop",
               NEW w \in Vops, Led' = Led \cup {w}
        PROVE  Life!Use(t)
    <3>1. LifePlace(pc[t]) = "hooking" /\ LifePlace(pc'[t]) = "callback"
      BY <2>3, PlaceValues DEF BeforeHooked, HookLabels
    <3> QED
      BY <1>3, <1>4, <2>3, <3>1 DEF Life!Use, Life!HookVop, Life!driverVars, Life!refVars
  <2>4. ASSUME pc[t] \in UnhookLabels, pc'[t] \in UnhookLabels,
               NEW w \in Led, Led' = Led \ {w}
        PROVE  Life!Use(t)
    <3>1. LifePlace(pc[t]) = "hook" /\ LifePlace(pc'[t]) = "hook"
      BY <2>4, PlaceValues
    <3>2. LifeCall' = LifeCall
      BY <1>3, <1>4, <3>1 DEF LifeCall
    <3> QED
      BY <1>4, <2>4, <3>1, <3>2 DEF Life!Use, Life!UnHookVop, Life!driverVars, Life!refVars
  <2> QED
    BY <1>1, <1>2, <1>5, <2>2, <2>3, <2>4, StepTableMoves, StepLed
<1>6. CASE Start(t)
  <2>1. CASE \E v \in Vnodes : KauthCallback(t, v)
    <3>1. /\ pc[t] = "idle" /\ pc'[t] = "hook" /\ slot' = slot /\ hash' = hash
      BY <1>1, <2>1 DEF KauthCallback, At, Goto, tableVars, LocalsTyped
    <3>2. LifePlace(pc[t]) = "out" /\ LifePlace(pc'[t]) = "callback"
      BY <3>1, PlaceValues DEF BeforeHooked, HookLabels
    <3>3. Led' = Led
      BY <3>1 DEF Led
    <3> QED
      BY <1>3, <1>4, <3>2, <3>3, MoveIsUse DEF PlaceMoves
  <2>2. ASSUME NEW v \in Vnodes, NEW o \in Ops, pc[t] = "idle", Jump(t, v, o)
        PROVE  Life!Use(t) \/ UNCHANGED Life!lifeVars
    <3>1. /\ slot' = slot /\ hash' = hash /\ VopOf[v] \in Vops
          /\ \/ pc'[t] = "getShared" /\ slot[VopOf[v]][o] = Hook(o)
             \/ pc'[t] = "callOriginal"
      BY <1>1, <2>2, FileSystemAssumption DEF Jump, Goto, tableVars, LocalsTyped
    <3>2. /\ LifePlace("idle") = "out" /\ LifePlace("getShared") = "hook"
          /\ LifePlace("callOriginal") = "out"
      BY PlaceValues DEF GetLabels
    <3>3. Led' = Led /\ (pc'[t] = "getShared" => Led # {})
      BY <3>1 DEF Led
    <3> QED
      BY <1>3, <1>4, <2>2, <3>1, <3>2, <3>3, MoveIsUse DEF PlaceMoves
  <2> QED
    BY <1>6, <2>1, <2>2, OpsFact DEF Start, Reclaim, VnopCall, At
<1> QED
  BY <1>5, <1>6

\* A driver that has been started, with nothing hooked.
LEMMA InitUses == Init => Life!Started
<1> SUFFICES ASSUME Init PROVE Life!Started
  OBVIOUS
<1>1. Led = {}
  <2>1. \A w \in Vops, o \in Ops : slot[w][o] # Hook(o)
    BY NamesAssumption DEF Init, Original, Hook
  <2>2. \A w \in Vops : hash[w] = NoEntry
    BY DEF Init
  <2>3. \A w \in Vops : w \notin Led
    BY <2>1, <2>2 DEF Led
  <2> QED
    BY <2>3 DEF Led
<1>2. LifeCall = [t \in Threads |-> "out"]
  BY PlaceValues DEF Init, LifeCall
<1> QED
  BY <1>1, <1>2 DEF Life!Started, Life!TableParts

\* The listener and the hooks do with the driver what its life cycle lets them,
\* and no more: a vector leads into the driver only from a callback that has
\* found the table, and only until a hook function takes it out again
\* (VNodeHook.cpp:133-679, Kauth.cpp:54-92).
THEOREM HooksUseTheDriver == Spec => UsesLife
<1>1. Inv /\ [Next]_vars => [\E t \in Threads : Life!Use(t)]_(Life!lifeVars)
  <2>1. Quiet => UNCHANGED Life!lifeVars
    BY DEF Quiet, tableVars, Led, LifeCall, Life!lifeVars, Life!driverVars, Life!refVars
  <2> QED
    BY <2>1, NextCases, StepUses
<1> QED
  BY <1>1, InitUses, Invariance, PTL DEF Spec, UsesLife, Life!UseSpec
============================================================================
