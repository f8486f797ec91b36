---------------------------- MODULE VnodeLayout ----------------------------
(***************************************************************************)
(* The search for the layout of struct vnode and struct mount              *)
(* (FltFakeFSD.cpp).  The driver registers a fake file system, creates two *)
(* vnodes with data it chose, finds that data in the vnodes, and looks     *)
(* before it for a pointer to a vector in which the functions of the fake  *)
(* file system are: that is v_op, and where each function is is the offset *)
(* of its operation in every vector.  In a mounted volume it looks for a   *)
(* pointer to a table of functions.  A step is one turn of a loop.         *)
(***************************************************************************)
EXTENDS KernelMemory, Progress, FiniteSets, Sequences

CONSTANTS
    Word,      \* sizeof( void* )
    FakeOps,   \* the operations of gFltVnodeOpvOffsetDesc
    Impl,      \* Impl[op]: the address of the FltFakeFsd function for op
    VData1, VData2,  \* v_data of the two vnodes, no valid addresses
    MaxSlots,  \* slots of a vector that are searched (100)
    MountSize, \* bytes of a mount that are searched (256)
    MaxVfsSlots,  \* slots of a possible vfsops that are searched (50)
    MinFunctions, \* functions that make it a vfsops (4)
    CodeLen,   \* bytes that are disassembled (100)
    UnmountOffset, \* offsetof( struct vfsops, vfs_unmount )
    Unknown,   \* DLD_VOP_UNKNOWN_OFFSET
    Kernels    \* bound: the kernels that are searched

ASSUME WordAssumption ==
    /\ Word \in 1 .. PageSize /\ CodeLen \in 1 .. PageSize - 1
    /\ VData1 \in Int /\ UnmountOffset \in Nat /\ Unknown \notin Nat
    /\ {MaxSlots, MountSize, MaxVfsSlots, MinFunctions} \subseteq Nat
ASSUME ImplAssumption ==
    IsFiniteSet(FakeOps) /\ \A o, p \in FakeOps : Impl[o] = Impl[p] => o = p

\* A kernel k: k.pmap; k.words[a], the word at the address a; k.node[1],
\* k.node[2], the vnodes; k.mounts, a sequence of mounts; k.code, where
\* functions start with push and mov, and the disassembler sees it.  The first
\* words of vnodes and mounts are mapped: no more is known.
Objects(k) == {k.node[1], k.node[2]} \cup {k.mounts[m] : m \in 1 .. Len(k.mounts)}
ASSUME KernelsAssumption == \A k \in Kernels :
    /\ \A p \in DOMAIN k.pmap : p \in Nat /\ k.pmap[p] \in Nat
    /\ \A a \in DOMAIN k.words : k.words[a] \in Int
    /\ k.mounts \in Seq(Nat)
    /\ \A o \in Objects(k) : o \in Nat /\ \A a \in o .. o + Word - 1 : IsMapped(k.pmap, a)

VARIABLES
    kernel,  \* memory: its page table, words, mounts, and the code in it
    pc,      \* where the search is
    rc,      \* RC: TRUE for kIOReturnSuccess
    registered, \* gFltFakeFsdHandle
    nodes,   \* the vnodes created, in order: a part of <<1, 2>>
    vnodeCount, \* gVnodeCount
    at1, at2, size, \* ptrNode1, ptrNode2, vNodeHeaderSize
    vopOffset,      \* vNodeVopOffset
    func, i, hits,  \* the slot looked at, its number, numberOfHits
    offsets, \* gFltVnodeOpvOffsetDesc[].offset
    gVNodeVopOffset, gVfsOperationVectorOffset, gUnmountOffset,
    mnt, word, found, \* mount number, vfsOpPtr, functionsFound
    read     \* history: the addresses the last step has read

fsdVars == <<registered, nodes, vnodeCount>>
ptrVars == <<at1, at2, size, vopOffset>>
slotVars == <<func, i, hits>>
resultVars == <<offsets, gVNodeVopOffset, gVfsOperationVectorOffset, gUnmountOffset>>
mountVars == <<mnt, word, found>>
vars == <<kernel, pc, rc, fsdVars, ptrVars, slotVars, resultVars, mountVars, read>>

-----------------------------------------------------------------------------
(* What is in memory.                                                      *)

Mapped(a) == IsMapped(kernel.pmap, a)
Span(a, n) == a .. a + n - 1  \* the addresses of n bytes

\* The word at a in k.  Words that matter are aligned; any other is no address.
WordAt(k, a) == IF a \in DOMAIN k.words THEN k.words[a] ELSE VData1 - 1
Read(a) == WordAt(kernel, a)

\* Mutant: the check that a page is mapped is left to the first word.
CrossesNever(a, b) == FALSE

\* The word at a leaves the page of start for one that is not mapped.
CrossesUnmapped(a, start) ==
    Page(a + Word - 1) # Page(start) /\ ~Mapped(a + Word - 1)

\* DdIsFunctionAtKernelAddress: the two checks, and what it disassembles.
Decodable(k, a) ==
    /\ IsMapped(k.pmap, a)
    /\ Page(a) # Page(a + CodeLen) => IsMapped(k.pmap, a + CodeLen - 1)
IsFunction(k, a) == Decodable(k, a) /\ a \in k.code
CodeOf(a) == IF Decodable(kernel, a) THEN Span(a, CodeLen) ELSE {}

\* FltRetriveVnodeOpvOffsetDescByFakeFsdVnodeOp: the operation whose fake
\* function f is, if any.
OpOf(f) == {op \in FakeOps : Impl[op] = f}

Init ==
    /\ kernel \in Kernels
    /\ pc = "register" /\ rc = TRUE
    /\ registered = FALSE /\ nodes = <<>> /\ vnodeCount = 0
    /\ at1 = 0 /\ at2 = 0 /\ size = 0 /\ vopOffset = 0
    /\ func = 0 /\ i = 0 /\ hits = 0
    /\ offsets = [op \in FakeOps |-> Unknown]
    /\ gVNodeVopOffset = Unknown
    /\ gVfsOperationVectorOffset = Unknown /\ gUnmountOffset = Unknown
    /\ mnt = 1 /\ word = 0 /\ found = 0
    /\ read = {}

-----------------------------------------------------------------------------
(* The fake file system.                                                   *)

\* "goto __exit" with an error.
Fail == rc' = FALSE /\ pc' = "clean1"

FltRegisterFakeFsd ==
    /\ pc = "register"
    /\ \/ registered' = TRUE /\ pc' = "create" /\ UNCHANGED rc
       \/ UNCHANGED registered /\ Fail
    /\ read' = {}
    /\ UNCHANGED <<kernel, nodes, vnodeCount, ptrVars, slotVars, resultVars, mountVars>>

\* The next of the two vnodes.
FltFakeFsdCreateVnode ==
    /\ pc = "create"
    /\ \/ /\ nodes' = Append(nodes, Len(nodes) + 1)
          /\ vnodeCount' = vnodeCount + 1
          /\ pc' = IF Len(nodes) = 1 THEN "forward" ELSE "create"
          /\ at1' = kernel.node[1] /\ at2' = kernel.node[2]
          /\ UNCHANGED rc
       \/ Fail /\ UNCHANGED <<nodes, vnodeCount, at1, at2>>
    /\ read' = {}
    /\ UNCHANGED <<kernel, registered, size, vopOffset, slotVars, resultVars, mountVars>>

\* Mutant: a vnode is put whether or not it was created.
RecycleAlways(n) == vnodeCount' = vnodeCount - 1

\* Mutant: the second vnode is forgotten.
RecycleFirstOnly(n) ==
    IF n = 1 /\ Len(nodes) >= n THEN vnodeCount' = vnodeCount - 1
    ELSE UNCHANGED vnodeCount

\* vnode_recycle and vnode_put of the vnode n, if there is one: the kernel
\* reclaims it, and FltFakeFsdReclaim counts it out.
Recycle(n) ==
    IF Len(nodes) >= n THEN vnodeCount' = vnodeCount - 1
    ELSE UNCHANGED vnodeCount

Clean(here, n, next) ==
    /\ pc = here /\ Recycle(n) /\ pc' = next
    /\ read' = {}
    /\ UNCHANGED <<kernel, rc, registered, nodes, ptrVars, slotVars, resultVars, mountVars>>

Clean1 == Clean("clean1", 1, "clean2")
Clean2 == Clean("clean2", 2, "unregister")

\* No volume is mounted from it, so that vfs_fsremove succeeds.
FltUnRegisterFakeFsd ==
    /\ pc = "unregister"
    /\ registered' = FALSE
    /\ pc' = "done"
    /\ read' = {}
    /\ UNCHANGED <<kernel, rc, nodes, vnodeCount, ptrVars, slotVars, resultVars, mountVars>>

-----------------------------------------------------------------------------
(* FltGetVnodeLayout: forward to v_data.                                   *)

ForwardReads ==
    Span(at1, Word) \cup (IF Read(at1) = VData1 THEN {} ELSE Span(at2, Word))
Different == Read(at1) # VData1 /\ Read(at2) # VData2

Forward ==
    /\ pc = "forward" /\ Different
    /\ at1' = at1 + Word /\ at2' = at2 + Word /\ size' = size + Word
    /\ IF \/ CrossesUnmapped(at1', kernel.node[1])
          \/ CrossesUnmapped(at2', kernel.node[2])
          \/ size' >= PageSize
       THEN Fail
       ELSE UNCHANGED <<rc, pc>>
    /\ read' = ForwardReads
    /\ UNCHANGED <<kernel, fsdVars, vopOffset, slotVars, resultVars, mountVars>>

\* The data has been found; at the very start it is no header.
ForwardEnd ==
    /\ pc = "forward" /\ ~Different
    /\ IF size = 0 THEN Fail ELSE pc' = "backward" /\ UNCHANGED rc
    /\ vopOffset' = size
    /\ read' = ForwardReads
    /\ UNCHANGED <<kernel, fsdVars, at1, at2, size, slotVars, resultVars, mountVars>>

-----------------------------------------------------------------------------
(* Back to v_op.                                                           *)

\* Mutant: a candidate is looked at before the step back, which it skips.
BackwardStays ==
    /\ pc = "backward" /\ at1 > kernel.node[1]
    /\ IF Read(at1) # 0 /\ Mapped(Read(at1))
       THEN /\ pc' = "scan" /\ func' = Read(at1) /\ i' = 0 /\ hits' = 0
            /\ UNCHANGED <<at1, at2, vopOffset>>
       ELSE /\ at1' = at1 - Word /\ at2' = at2 - Word /\ vopOffset' = vopOffset - Word
            /\ UNCHANGED <<pc, slotVars>>
    /\ read' = Span(at1, Word)
    /\ UNCHANGED <<kernel, rc, fsdVars, size, resultVars, mountVars>>

\* One word back.  Both v_op1 and v_op2 are read from the first vnode.
Backward ==
    /\ pc = "backward" /\ at1 > kernel.node[1]
    /\ at1' = at1 - Word /\ at2' = at2 - Word /\ vopOffset' = vopOffset - Word
    /\ IF Read(at1') # 0 /\ Mapped(Read(at1'))
       THEN pc' = "scan" /\ func' = Read(at1') /\ i' = 0 /\ hits' = 0
       ELSE UNCHANGED <<pc, slotVars>>
    /\ read' = Span(at1', Word)
    /\ UNCHANGED <<kernel, rc, fsdVars, size, resultVars, mountVars>>

\* v_op has not been found.
BackwardEnd ==
    /\ pc = "backward" /\ ~(at1 > kernel.node[1])
    /\ Fail
    /\ read' = {}
    /\ UNCHANGED <<kernel, fsdVars, ptrVars, slotVars, resultVars, mountVars>>

InVector == i < MaxSlots /\ ~CrossesUnmapped(func, Read(at1))

\* i * sizeof( VOPFUNC )
SlotOffset == i * Word

\* Mutant: the first function found is enough.
EnoughAtOne(n) == n = 1

\* All functions have been found.
Enough(n) == n = Cardinality(FakeOps)

\* One slot of what may be the vector.
ScanSlot ==
    /\ pc = "scan" /\ InVector
    /\ LET ops == OpOf(Read(func)) IN
         /\ hits' = hits + Cardinality(ops)
         /\ offsets' = [op \in FakeOps |-> IF op \in ops THEN SlotOffset ELSE offsets[op]]
         /\ IF ops # {} /\ Enough(hits')
            THEN /\ gVNodeVopOffset' = vopOffset
                 /\ pc' = "mounts"
                 /\ UNCHANGED <<func, i>>
            ELSE /\ func' = func + Word /\ i' = i + 1
                 /\ UNCHANGED <<gVNodeVopOffset, pc>>
    /\ read' = Span(func, Word)
    /\ UNCHANGED <<kernel, rc, fsdVars, ptrVars, gVfsOperationVectorOffset,
                   gUnmountOffset, mountVars>>

\* It was none.
ScanEnd ==
    /\ pc = "scan" /\ ~InVector
    /\ pc' = "backward"
    /\ read' = {}
    /\ UNCHANGED <<kernel, rc, fsdVars, ptrVars, slotVars, resultVars, mountVars>>

-----------------------------------------------------------------------------
(* FltGetMountLayout: vfs_iterate calls the search for each mount, until   *)
(* it succeeds for one.                                                    *)

NextMount ==
    /\ pc = "mounts" /\ mnt <= Len(kernel.mounts)
    /\ word' = kernel.mounts[mnt] /\ pc' = "mount"
    /\ read' = {}
    /\ UNCHANGED <<kernel, rc, fsdVars, ptrVars, slotVars, resultVars, mnt, found>>

NoMount ==
    /\ pc = "mounts" /\ mnt > Len(kernel.mounts)
    /\ Fail
    /\ read' = {}
    /\ UNCHANGED <<kernel, fsdVars, ptrVars, slotVars, resultVars, mountVars>>

InMount == Mapped(word + Word - 1) /\ word < kernel.mounts[mnt] + MountSize

\* One word of the mount.
MountWord ==
    /\ pc = "mount" /\ InMount
    /\ IF Mapped(Read(word))
       THEN pc' = "vfs" /\ func' = Read(word) /\ i' = 0 /\ found' = 0 /\ UNCHANGED word
       ELSE word' = word + Word /\ UNCHANGED <<pc, func, i, found>>
    /\ read' = Span(word, Word)
    /\ UNCHANGED <<kernel, rc, fsdVars, ptrVars, hits, resultVars, mnt>>

\* This mount has none.
MountEnd ==
    /\ pc = "mount" /\ ~InMount
    /\ pc' = "mounts" /\ mnt' = mnt + 1
    /\ read' = {}
    /\ UNCHANGED <<kernel, rc, fsdVars, ptrVars, slotVars, resultVars, word, found>>

InVfsOps == i < MaxVfsSlots /\ ~CrossesUnmapped(func, Read(word))

\* One slot of what may be a vfsops.
VfsSlot ==
    /\ pc = "vfs" /\ InVfsOps
    /\ found' = IF IsFunction(kernel, Read(func)) THEN found + 1 ELSE found
    /\ IF found' >= MinFunctions
       THEN /\ gVfsOperationVectorOffset' = word - kernel.mounts[mnt]
            /\ gUnmountOffset' = UnmountOffset
            /\ pc' = "clean1"
            /\ UNCHANGED <<func, i>>
       ELSE /\ func' = func + Word /\ i' = i + 1
            /\ UNCHANGED <<gVfsOperationVectorOffset, gUnmountOffset, pc>>
    /\ read' = Span(func, Word) \cup CodeOf(Read(func))
    /\ UNCHANGED <<kernel, rc, fsdVars, ptrVars, hits, offsets, gVNodeVopOffset, mnt, word>>

VfsEnd ==
    /\ pc = "vfs" /\ ~InVfsOps
    /\ pc' = "mount" /\ word' = word + Word
    /\ read' = {}
    /\ UNCHANGED <<kernel, rc, fsdVars, ptrVars, slotVars, resultVars, mnt, found>>

-----------------------------------------------------------------------------

Next ==
    \/ FltRegisterFakeFsd \/ FltFakeFsdCreateVnode
    \/ Forward \/ ForwardEnd \/ Backward \/ BackwardEnd \/ ScanSlot \/ ScanEnd
    \/ NextMount \/ NoMount \/ MountWord \/ MountEnd \/ VfsSlot \/ VfsEnd
    \/ Clean1 \/ Clean2 \/ FltUnRegisterFakeFsd

Spec == Init /\ [][Next]_vars

-----------------------------------------------------------------------------
(* Properties.                                                             *)

Ended == pc = "done"
Offsets == Nat \cup {Unknown}

TypeOK ==
    /\ kernel \in Kernels
    /\ pc \in {"register", "create", "forward", "backward", "scan", "mounts",
               "mount", "vfs", "clean1", "clean2", "unregister", "done"}
    /\ {rc, registered} \subseteq BOOLEAN
    /\ nodes \in {<<>>, <<1>>, <<1, 2>>} /\ vnodeCount \in 0 .. 2
    /\ {at1, at2, size, vopOffset, func, i, hits, mnt, word, found} \subseteq Nat
    /\ offsets \in [FakeOps -> Offsets]
    /\ {gVNodeVopOffset, gVfsOperationVectorOffset, gUnmountOffset} \subseteq Offsets

\* The search, which reads memory whose structure it does not know, reads no
\* byte that is not mapped: each would be a panic.  The checks at page
\* crossings are easy to get wrong by one.
ReadsMapped == \A a \in read : Mapped(a)

\* Of n slots from p on, those that lead to a fake function, or to a function.
FakeSlots(k, p, n) == {j \in 0 .. n - 1 : OpOf(WordAt(k, p + j * Word)) # {}}
FunctionSlots(k, p, n) == {j \in 0 .. n - 1 : IsFunction(k, WordAt(k, p + j * Word))}

\* What the search goes by is a mark of v_op in k: no other word of the page
\* or so that is searched leads to as many fake functions as there are, and
\* none of them is in two slots of the vector.
VopMarked(k) ==
    /\ \A a \in Span(k.node[1], PageSize) :
          Cardinality(FakeSlots(k, WordAt(k, a), MaxSlots)) >= Cardinality(FakeOps)
          => k.vop = a - k.node[1] /\ WordAt(k, a) = k.vector
    /\ \A j, l \in FakeSlots(k, k.vector, MaxSlots) :
          WordAt(k, k.vector + j * Word) = WordAt(k, k.vector + l * Word) => j = l

\* Of the words of the mounts only the pointers to the vfsops lead to as many
\* functions as the search wants.
VfsMarked(k) ==
    \A m \in DOMAIN k.mounts : \A a \in Span(k.mounts[m], MountSize) :
        Cardinality(FunctionSlots(k, WordAt(k, a), MaxVfsSlots)) >= MinFunctions
        => WordAt(k, a) = k.vfsops

\* What the search has found is the layout of the kernel.
VectorRight ==
    /\ gVNodeVopOffset = kernel.vop
    /\ \A op \in FakeOps : /\ offsets[op] # Unknown
                           /\ Read(kernel.vector + offsets[op]) = Impl[op]
VfsRight ==
    /\ gVfsOperationVectorOffset # Unknown
    /\ \E m \in DOMAIN kernel.mounts :
          Read(kernel.mounts[m] + gVfsOperationVectorOffset) = kernel.vfsops
LayoutRight == (VopMarked(kernel) => VectorRight) /\ (VfsMarked(kernel) => VfsRight)

\* Whichever step fails, the fake file system is gone when the search ends,
\* with its vnodes.
FakeFsdGone == Ended => vnodeCount = 0 /\ ~registered

\* What is still to be searched: the stage, then what is left of the walk, of
\* the mount, and of the vector or table that is looked at.
MountsLeft == Len(kernel.mounts) + 1 - mnt
WordsLeft == kernel.mounts[mnt] + MountSize + Word - word
SearchLeft ==
    CASE pc = "register"   -> <<8, 0, 0, 0>>
      [] pc = "create"     -> <<7, 2 - Len(nodes), 0, 0>>
      [] pc = "forward"    -> <<6, PageSize - size, 0, 0>>
      [] pc = "backward"   -> <<5, vopOffset, 0, 0>>
      [] pc = "scan"       -> <<5, vopOffset, 0, MaxSlots + 1 - i>>
      [] pc = "mounts"     -> <<4, MountsLeft, MountSize + Word + 1, 0>>
      [] pc = "mount"      -> <<4, MountsLeft, WordsLeft, MaxVfsSlots + 2>>
      [] pc = "vfs"        -> <<4, MountsLeft, WordsLeft, MaxVfsSlots + 1 - i>>
      [] pc = "clean1"     -> <<3, 0, 0, 0>>
      [] pc = "clean2"     -> <<2, 0, 0, 0>>
      [] pc = "unregister" -> <<1, 0, 0, 0>>
      [] pc = "done"       -> <<0, 0, 0, 0>>

\* Each step leaves less to search, whatever words it meets: no pointer in
\* memory makes the search go round, or on for longer than the limits say.
SearchAdvances == [][Descends(SearchLeft', SearchLeft)]_vars
=============================================================================
