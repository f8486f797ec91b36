------------------------- MODULE VnodeLayoutProofs -------------------------
(***************************************************************************)
(* The search reads mapped memory only, leaves no fake file system, and    *)
(* computes with addresses and offsets that are never negative,            *)
(* for every size of pages and words, every number of operations and       *)
(* slots, and every kernel whose vnodes and mounts start in mapped memory. *)
(***************************************************************************)
EXTENDS VnodeLayout, PageLemmas, FiniteSetTheorems

-----------------------------------------------------------------------------
(* The fake file system.                                                   *)

\* Which of the vnodes created are left.
VnodesLeft ==
    /\ Len(nodes) \in 0 .. 2 /\ nodes \in Seq(Nat)
    /\ pc = "create" => Len(nodes) < 2
    /\ pc \notin {"clean2", "unregister", "done"} => vnodeCount = Len(nodes)
    /\ pc = "clean2" => vnodeCount = IF Len(nodes) = 2 THEN 1 ELSE 0
    /\ pc \in {"unregister", "done"} => vnodeCount = 0
    /\ pc = "done" => ~registered
    /\ pc = "register" => Len(nodes) = 0

\* Each step of the search keeps the count.
LEMMA VnodesLeftNext ==
  ASSUME VnodesLeft, [Next]_vars
  PROVE  VnodesLeft'
<1> USE DEF VnodesLeft, fsdVars
<1>1. CASE FltRegisterFakeFsd
  BY <1>1 DEF FltRegisterFakeFsd, Fail
<1>2. CASE FltFakeFsdCreateVnode
  <2>1. CASE Fail /\ UNCHANGED <<nodes, vnodeCount>>
    BY <1>2, <2>1 DEF FltFakeFsdCreateVnode, Fail
  <2>2. CASE nodes' = Append(nodes, Len(nodes) + 1)
    <3>1. pc = "create" /\ Len(nodes) \in Nat /\ Len(nodes) < 2
      BY <1>2 DEF FltFakeFsdCreateVnode
    <3>2. nodes' \in Seq(Nat) /\ Len(nodes') = Len(nodes) + 1
      BY <2>2, <3>1
    <3>3. CASE vnodeCount' = vnodeCount + 1
      BY <1>2, <3>1, <3>2, <3>3 DEF FltFakeFsdCreateVnode
    <3>4. CASE Fail /\ UNCHANGED <<nodes, vnodeCount>>
      BY <1>2, <3>4 DEF FltFakeFsdCreateVnode, Fail
    <3> QED BY <1>2, <3>3, <3>4 DEF FltFakeFsdCreateVnode
  <2> QED BY <1>2, <2>1, <2>2 DEF FltFakeFsdCreateVnode
<1>3. CASE Forward
  BY <1>3 DEF Forward, Fail
<1>4. CASE ForwardEnd
  BY <1>4 DEF ForwardEnd, Fail
<1>5. CASE Backward
  BY <1>5 DEF Backward, Fail
<1>6. CASE BackwardEnd
  BY <1>6 DEF BackwardEnd, Fail
<1>7. CASE ScanSlot
  BY <1>7 DEF ScanSlot, Fail
<1>8. CASE ScanEnd
  BY <1>8 DEF ScanEnd, Fail
<1>9. CASE NextMount
  BY <1>9 DEF NextMount, Fail
<1>10. CASE NoMount
  BY <1>10 DEF NoMount, Fail
<1>11. CASE MountWord
  BY <1>11 DEF MountWord, Fail
<1>12. CASE MountEnd
  BY <1>12 DEF MountEnd, Fail
<1>13. CASE VfsSlot
  BY <1>13 DEF VfsSlot, Fail
<1>14. CASE VfsEnd
  BY <1>14 DEF VfsEnd, Fail
<1>15. CASE Clean1
  <2>1. pc = "clean1" /\ pc' = "clean2" /\ nodes' = nodes /\ Recycle(1)
    BY <1>15 DEF Clean1, Clean
  <2>2. vnodeCount = Len(nodes) /\ Len(nodes) \in 0 .. 2
    BY <2>1
  <2>3. vnodeCount' = IF Len(nodes) >= 1 THEN vnodeCount - 1 ELSE vnodeCount
    BY <2>1 DEF Recycle
  <2>4. vnodeCount' = IF Len(nodes) = 2 THEN 1 ELSE 0
    BY ONLY <2>2, <2>3
  <2>5. Len(nodes') \in 0 .. 2 /\ nodes' \in Seq(Nat)
    BY <2>1, Zenon
  <2> QED
    BY ONLY <2>1, <2>4, <2>5 DEF VnodesLeft
<1>16. CASE Clean2
  <2>1. pc = "clean2" /\ pc' = "unregister" /\ nodes' = nodes /\ Recycle(2)
    BY <1>16 DEF Clean2, Clean
  <2>2. vnodeCount \in Nat /\ Len(nodes) \in 0 .. 2
    BY <2>1
  <2>3. vnodeCount' = IF Len(nodes) >= 2 THEN vnodeCount - 1 ELSE vnodeCount
    BY <2>1 DEF Recycle
  <2>4. vnodeCount' = 0
    BY <2>1, <2>2, <2>3, SMTT(40)
  <2> QED
    BY <2>1, <2>2, <2>4
<1>17. CASE FltUnRegisterFakeFsd
  BY <1>17 DEF FltUnRegisterFakeFsd
<1>18. CASE UNCHANGED vars
  BY <1>18 DEF vars
<1> QED
  BY <1>1, <1>2, <1>3, <1>4, <1>5, <1>6, <1>7, <1>8, <1>9, <1>10, <1>11, <1>12, <1>13, <1>14, <1>15, <1>16, <1>17, <1>18
  DEF Next

\* FltFakeFSD.cpp, FltGetVnodeLayout: whichever step fails, no vnode and no
\* file system of the driver is left when it returns.
THEOREM NothingFakeLeft == Spec => []FakeFsdGone
<1>1. Init => VnodesLeft
  BY DEF Init, VnodesLeft
<1>2. VnodesLeft => FakeFsdGone
  BY DEF VnodesLeft, FakeFsdGone, Ended
<1> QED
  BY <1>1, <1>2, VnodesLeftNext, PTL DEF Spec

-----------------------------------------------------------------------------
(* The reads.                                                              *)

\* A walk by words from s has reached a, over mapped memory.
Walked(s, a) ==
    /\ s \in Nat /\ a \in Int
    /\ \E n \in Nat : a = s + n * Word
    /\ \A b \in s .. a + Word - 1 : Mapped(b)

\* A walk from start, which is mapped, has come to f.
Reaches(f, start) ==
    /\ f \in Int /\ start \in Int /\ Mapped(start)
    /\ f = start \/ Mapped(f - 1)

ReadInv ==
    /\ kernel \in Kernels
    /\ mnt \in Nat \ {0}
    /\ pc = "forward" => Walked(kernel.node[1], at1) /\ Walked(kernel.node[2], at2)
    /\ pc \in {"backward", "scan"} => Walked(kernel.node[1], at1)
    /\ pc = "scan" => Reaches(func, Read(at1))
    /\ pc \in {"mount", "vfs"} => /\ mnt <= Len(kernel.mounts)
                                  /\ Reaches(word, kernel.mounts[mnt])
    /\ pc = "vfs" => Mapped(word + Word - 1) /\ Reaches(func, Read(word))
    /\ ReadsMapped

\* What the assumption on kernels says of the one that is searched.
LEMMA KernelFacts ==
  ASSUME kernel \in Kernels
  PROVE  /\ PageTable(kernel.pmap)
         /\ \A a : Read(a) \in Int
         /\ \A o \in Objects(kernel) : o \in Nat /\ \A a \in Span(o, Word) : Mapped(a)
  BY KernelsAssumption, WordAssumption DEF PageTable, Read, WordAt, Span, Mapped

\* The sizes.
LEMMA Sizes ==
  /\ Word \in Nat /\ 0 < Word /\ Word <= PageSize
  /\ CodeLen \in Nat /\ 0 < CodeLen /\ CodeLen <= PageSize
  /\ PageSize \in Nat
  BY WordAssumption, PageSizeAssumption

\* Two mapped ends of at most a page.
LEMMA Between ==
  ASSUME kernel \in Kernels, NEW a \in Int, NEW c \in Int, c - a <= PageSize,
         Mapped(a), Mapped(c), NEW b \in a .. c
  PROVE  Mapped(b)
  BY KernelFacts, MappedBetween DEF Mapped

\* An address in the page of a mapped one.
LEMMA InPage ==
  ASSUME kernel \in Kernels, NEW a \in Int, NEW b \in Int, Page(b) = Page(a), Mapped(a)
  PROVE  Mapped(b)
  BY KernelFacts, MappedByPage DEF Mapped

\* One word further than a walk has come, the check makes the word readable.
LEMMA NextWord ==
  ASSUME kernel \in Kernels, NEW f, NEW start, Reaches(f, start), ~CrossesUnmapped(f, start)
  PROVE  Mapped(f + Word - 1) /\ \A b \in Span(f, Word) : Mapped(b)
<1>1. f \in Int /\ start \in Int /\ Mapped(start)
  BY DEF Reaches
<1>2. f + Word - 1 \in Int
  BY <1>1, Sizes
<1>3. Mapped(f + Word - 1)
  BY <1>1, <1>2, InPage DEF CrossesUnmapped
<1>4. ASSUME NEW b \in f .. f + Word - 1 PROVE Mapped(b)
  <2>1. CASE f = start
    <3>1. Mapped(f) /\ (f + Word - 1) - f <= PageSize
      BY <1>1, <2>1, Sizes
    <3> QED
      BY <1>1, <1>2, <1>3, <1>4, <3>1, Between
  <2>2. CASE Mapped(f - 1)
    <3>1. /\ f - 1 \in Int /\ (f + Word - 1) - (f - 1) <= PageSize
          /\ b \in (f - 1) .. f + Word - 1
      BY <1>1, <1>4, Sizes
    <3> QED
      BY <1>2, <1>3, <2>2, <3>1, Between
  <2> QED
    BY <2>1, <2>2 DEF Reaches
<1> QED
  BY <1>3, <1>4 DEF Span

\* The walk through a vnode goes on by a word.
LEMMA WalkOn ==
  ASSUME kernel \in Kernels, NEW s \in Objects(kernel), NEW a, Walked(s, a),
         ~CrossesUnmapped(a + Word, s)
  PROVE  Walked(s, a + Word)
<1>1. s \in Nat /\ a \in Int /\ a >= s
  BY Sizes DEF Walked
<1>2. PICK n \in Nat : a = s + n * Word
  BY DEF Walked
<1>3. a + Word = s + (n + 1) * Word /\ n + 1 \in Nat
  <2>1. Word \in Int /\ n \in Int
    BY Sizes
  <2>2. (n + 1) * Word = n * Word + Word
    BY <2>1
  <2> QED
    BY <1>1, <1>2, <2>1, <2>2
<1>4. Mapped(s)
  BY <1>1, KernelFacts, Sizes DEF Span
<1>5. Mapped((a + Word) - 1)
  BY <1>1, Sizes DEF Walked
<1>6. Reaches(a + Word, s)
  BY <1>1, <1>4, <1>5, Sizes DEF Reaches
<1>7. \A b \in (a + Word) .. (a + Word) + Word - 1 : Mapped(b)
  BY <1>6, NextWord DEF Span
<1>8. \A b \in s .. (a + Word) - 1 : Mapped(b)
  BY <1>1, Sizes DEF Walked
<1>9. \A b \in s .. (a + Word) + Word - 1 : Mapped(b)
  BY <1>1, <1>7, <1>8, Sizes
<1> QED
  BY <1>1, <1>3, <1>9, Sizes DEF Walked

\* It goes back by a word.
LEMMA WalkBack ==
  ASSUME NEW s, NEW a, Walked(s, a), a > s
  PROVE  Walked(s, a - Word)
<1>1. s \in Nat /\ a \in Int
  BY DEF Walked
<1>2. PICK n \in Nat : a = s + n * Word
  BY DEF Walked
<1>3. n > 0
  BY <1>1, <1>2, Sizes
<1>4. n - 1 \in Nat /\ a - Word = s + (n - 1) * Word
  BY <1>1, <1>2, <1>3, Sizes
<1>5. \A b \in s .. (a - Word) + Word - 1 : Mapped(b)
  BY <1>1, Sizes DEF Walked
<1> QED
  BY <1>1, <1>4, <1>5, Sizes DEF Walked

\* The word that a walk has come to is mapped.
LEMMA WalkedWord ==
  ASSUME NEW s, NEW a, Walked(s, a)
  PROVE  \A b \in Span(a, Word) : Mapped(b)
<1>1. s \in Nat /\ a \in Int /\ a >= s
  BY Sizes DEF Walked
<1> QED
  BY <1>1, Sizes DEF Walked, Span

\* Where the vnode and the mounts are.
LEMMA InObjects ==
  /\ kernel.node[1] \in Objects(kernel) /\ kernel.node[2] \in Objects(kernel)
  /\ \A m \in 1 .. Len(kernel.mounts) : kernel.mounts[m] \in Objects(kernel)
  BY DEF Objects

\* Reads at a word that both walks have come to.
LEMMA ForwardReadsMapped ==
  ASSUME Walked(kernel.node[1], at1), Walked(kernel.node[2], at2)
  PROVE  \A a \in ForwardReads : Mapped(a)
  BY WalkedWord DEF ForwardReads

\* A step of the walk to v_data.
LEMMA ForwardNext ==
  ASSUME ReadInv, Forward \/ ForwardEnd
  PROVE  ReadInv'
<1> USE DEF ReadInv
<1>1. Walked(kernel.node[1], at1) /\ Walked(kernel.node[2], at2)
  BY DEF Forward, ForwardEnd
<1>2. read' = ForwardReads /\ kernel' = kernel /\ mnt' = mnt
  BY DEF Forward, ForwardEnd, mountVars
<1>3. ReadsMapped'
  BY <1>1, <1>2, ForwardReadsMapped DEF ReadsMapped, Mapped
<1>4. CASE Forward
  <2>1. CASE pc' = "forward"
    <3>1. /\ at1' = at1 + Word /\ at2' = at2 + Word
          /\ ~CrossesUnmapped(at1', kernel.node[1]) /\ ~CrossesUnmapped(at2', kernel.node[2])
      BY <1>4, <2>1 DEF Forward, Fail
    <3>2. Walked(kernel.node[1], at1') /\ Walked(kernel.node[2], at2')
      BY <1>1, <3>1, WalkOn, InObjects
    <3> QED
      BY <1>2, <1>3, <2>1, <3>2 DEF Walked, Mapped
  <2>2. CASE pc' = "clean1"
    BY <1>2, <1>3, <2>2
  <2> QED
    BY <1>4, <2>1, <2>2 DEF Forward, Fail
<1>5. CASE ForwardEnd
  <2>1. pc' \in {"backward", "clean1"} /\ at1' = at1
    BY <1>5 DEF ForwardEnd, Fail
  <2> QED
    BY <1>1, <1>2, <1>3, <2>1 DEF Walked, Mapped
<1> QED
  BY <1>4, <1>5

\* A step back to v_op.
LEMMA BackwardNext ==
  ASSUME ReadInv, Backward
  PROVE  ReadInv'
<1> USE DEF ReadInv
<1>1. /\ Walked(kernel.node[1], at1) /\ at1 > kernel.node[1]
      /\ at1' = at1 - Word /\ kernel' = kernel /\ mnt' = mnt /\ read' = Span(at1', Word)
  BY DEF Backward, mountVars
<1>2. Walked(kernel.node[1], at1')
  BY <1>1, WalkBack
<1>3. \A a \in read' : Mapped(a)
  BY <1>1, <1>2, WalkedWord
<1>4. CASE pc' = "scan"
  <2>1. func' = Read(at1') /\ Mapped(func')
    BY <1>4 DEF Backward
  <2>2. Reaches(func', Read(at1'))
    BY <2>1, KernelFacts DEF Reaches
  <2> QED
    BY <1>1, <1>2, <1>3, <1>4, <2>2 DEF Walked, Reaches, ReadsMapped, Mapped, Read, WordAt
<1>5. CASE pc' = "backward"
  BY <1>1, <1>2, <1>3, <1>5 DEF Walked, ReadsMapped, Mapped
<1> QED
  BY <1>4, <1>5 DEF Backward

\* A slot of what may be the vector.
LEMMA ScanNext ==
  ASSUME ReadInv, ScanSlot
  PROVE  ReadInv'
<1> USE DEF ReadInv
<1>1. /\ Walked(kernel.node[1], at1) /\ Reaches(func, Read(at1))
      /\ ~CrossesUnmapped(func, Read(at1))
      /\ at1' = at1 /\ kernel' = kernel /\ mnt' = mnt /\ read' = Span(func, Word)
      /\ pc' = "mounts" \/ (pc' = "scan" /\ func' = func + Word)
  BY DEF ScanSlot, InVector, mountVars, ptrVars
<1>2. Mapped(func + Word - 1) /\ \A b \in Span(func, Word) : Mapped(b)
  BY <1>1, NextWord
<1>3. Reaches(func + Word, Read(at1))
  BY <1>1, <1>2, Sizes DEF Reaches
<1> QED
  BY <1>1, <1>2, <1>3 DEF Walked, Reaches, ReadsMapped, Mapped, Read, WordAt

\* A word of a mount.
LEMMA MountNext ==
  ASSUME ReadInv, MountWord
  PROVE  ReadInv'
<1> USE DEF ReadInv
<1>1. /\ mnt <= Len(kernel.mounts) /\ Reaches(word, kernel.mounts[mnt])
      /\ Mapped(word + Word - 1)
      /\ kernel' = kernel /\ mnt' = mnt /\ read' = Span(word, Word)
  BY DEF MountWord, InMount
<1>2. \A b \in Span(word, Word) : Mapped(b)
  BY <1>1, NextWord DEF CrossesUnmapped
<1>3. CASE pc' = "vfs" /\ func' = Read(word) /\ word' = word /\ Mapped(Read(word))
  <2>1. Reaches(func', Read(word))
    BY <1>3, KernelFacts DEF Reaches
  <2> QED
    BY <1>1, <1>2, <1>3, <2>1 DEF Reaches, ReadsMapped, Mapped, Read, WordAt
<1>4. CASE pc' = "mount" /\ word' = word + Word
  <2>1. Reaches(word + Word, kernel.mounts[mnt])
    BY <1>1, Sizes DEF Reaches
  <2> QED
    BY <1>1, <1>2, <1>4, <2>1 DEF Reaches, ReadsMapped, Mapped
<1> QED
  BY <1>3, <1>4 DEF MountWord

\* The code that is disassembled lies in mapped memory.
LEMMA CodeMapped ==
  ASSUME kernel \in Kernels, NEW a \in Int
  PROVE  \A b \in CodeOf(a) : Mapped(b)
<1> SUFFICES ASSUME Decodable(kernel, a), NEW b \in a .. a + CodeLen - 1 PROVE Mapped(b)
  BY DEF CodeOf, Span
<1>1. /\ a + CodeLen - 1 \in Int /\ (a + CodeLen - 1) - a <= PageSize
      /\ a + CodeLen \in Int /\ (a + CodeLen) - a <= PageSize
      /\ b \in a .. a + CodeLen
  BY Sizes
<1>2. Mapped(a)
  BY DEF Decodable, Mapped
<1>3. CASE Page(a) = Page(a + CodeLen)
  <2>1. Mapped(a + CodeLen)
    BY <1>1, <1>2, <1>3, InPage
  <2> QED
    BY <1>1, <1>2, <2>1, Between
<1>4. CASE Mapped(a + CodeLen - 1)
  BY <1>1, <1>2, <1>4, Between
<1> QED
  BY <1>3, <1>4 DEF Decodable, Mapped

\* A slot of what may be a vfsops.
LEMMA VfsNext ==
  ASSUME ReadInv, VfsSlot
  PROVE  ReadInv'
<1> USE DEF ReadInv
<1>1. /\ mnt <= Len(kernel.mounts) /\ Reaches(word, kernel.mounts[mnt])
      /\ Mapped(word + Word - 1) /\ Reaches(func, Read(word))
      /\ ~CrossesUnmapped(func, Read(word))
      /\ kernel' = kernel /\ mnt' = mnt /\ word' = word
      /\ read' = Span(func, Word) \cup CodeOf(Read(func))
      /\ pc' = "clean1" \/ (pc' = "vfs" /\ func' = func + Word)
  BY DEF VfsSlot, InVfsOps
<1>2. Mapped(func + Word - 1) /\ \A b \in Span(func, Word) : Mapped(b)
  BY <1>1, NextWord
<1>3. \A b \in CodeOf(Read(func)) : Mapped(b)
  BY KernelFacts, CodeMapped
<1>4. Reaches(func + Word, Read(word))
  BY <1>1, <1>2, Sizes DEF Reaches
<1> QED
  BY <1>1, <1>2, <1>3, <1>4 DEF Reaches, ReadsMapped, Mapped, Read, WordAt

\* Steps that read nothing.
LEMMA QuietNext ==
  ASSUME ReadInv,
         \/ FltRegisterFakeFsd \/ FltFakeFsdCreateVnode \/ BackwardEnd \/ ScanEnd
         \/ NextMount \/ NoMount \/ MountEnd \/ VfsEnd
         \/ Clean1 \/ Clean2 \/ FltUnRegisterFakeFsd
  PROVE  ReadInv'
<1> USE DEF ReadInv
<1>1. read' = {} /\ kernel' = kernel
  BY DEF FltRegisterFakeFsd, FltFakeFsdCreateVnode, BackwardEnd, ScanEnd, NextMount,
         NoMount, MountEnd, VfsEnd, Clean1, Clean2, Clean, FltUnRegisterFakeFsd
<1>2. ReadsMapped'
  BY <1>1 DEF ReadsMapped
<1>3. CASE FltRegisterFakeFsd
  BY <1>1, <1>2, <1>3 DEF FltRegisterFakeFsd, Fail, mountVars
<1>4. CASE FltFakeFsdCreateVnode
  <2>1. mnt' = mnt /\ pc' \in {"create", "clean1", "forward"}
    BY <1>4 DEF FltFakeFsdCreateVnode, Fail, mountVars
  <2>2. CASE pc' = "forward"
    <3>1. at1' = kernel.node[1] /\ at2' = kernel.node[2]
      BY <1>4, <2>2 DEF FltFakeFsdCreateVnode, Fail
    <3>2. ASSUME NEW o \in Objects(kernel) PROVE Walked(o, o)
      <4>1. o \in Nat /\ \A a \in o .. o + Word - 1 : Mapped(a)
        BY KernelFacts DEF Span
      <4>2. o = o + 0 * Word
        BY <4>1, Sizes
      <4> QED
        BY <4>1, <4>2 DEF Walked
    <3>3. Walked(kernel.node[1], kernel.node[1]) /\ Walked(kernel.node[2], kernel.node[2])
      BY <3>2, InObjects
    <3> QED
      BY <1>1, <1>2, <2>1, <2>2, <3>1, <3>3 DEF Walked, Mapped
  <2> QED
    BY <1>1, <1>2, <2>1, <2>2
<1>5. CASE BackwardEnd
  BY <1>1, <1>2, <1>5 DEF BackwardEnd, Fail, mountVars
<1>6. CASE ScanEnd
  BY <1>1, <1>2, <1>6 DEF ScanEnd, mountVars, ptrVars, Walked, Mapped
<1>7. CASE NextMount
  <2>1. kernel.mounts[mnt] \in Nat /\ Mapped(kernel.mounts[mnt])
    <3>1. kernel.mounts[mnt] \in Objects(kernel)
      BY <1>7, InObjects, KernelsAssumption DEF NextMount
    <3> QED
      BY <3>1, KernelFacts, Sizes DEF Span
  <2>2. Reaches(kernel.mounts[mnt], kernel.mounts[mnt])
    BY <2>1 DEF Reaches
  <2>3. pc' = "mount" /\ word' = kernel.mounts[mnt] /\ mnt' = mnt /\ mnt <= Len(kernel.mounts)
    BY <1>7 DEF NextMount
  <2> QED
    BY <1>1, <1>2, <2>2, <2>3 DEF Reaches, Mapped
<1>8. CASE NoMount
  BY <1>1, <1>2, <1>8 DEF NoMount, Fail, mountVars
<1>9. CASE MountEnd
  <2>1. pc' = "mounts" /\ mnt' = mnt + 1
    BY <1>9 DEF MountEnd
  <2> QED
    BY <1>1, <1>2, <2>1
<1>10. CASE VfsEnd
  <2>1. /\ pc' = "mount" /\ word' = word + Word /\ mnt' = mnt
        /\ mnt <= Len(kernel.mounts) /\ Reaches(word, kernel.mounts[mnt])
        /\ Mapped(word + Word - 1)
    BY <1>10 DEF VfsEnd
  <2>2. Reaches(word + Word, kernel.mounts[mnt])
    BY <2>1, Sizes DEF Reaches
  <2> QED
    BY <1>1, <1>2, <2>1, <2>2 DEF Reaches, Mapped
<1>11. CASE Clean1 \/ Clean2
  BY <1>1, <1>2, <1>11 DEF Clean1, Clean2, Clean, mountVars
<1>12. CASE FltUnRegisterFakeFsd
  BY <1>1, <1>2, <1>12 DEF FltUnRegisterFakeFsd, mountVars
<1> QED
  BY <1>3, <1>4, <1>5, <1>6, <1>7, <1>8, <1>9, <1>10, <1>11, <1>12

\* Each step keeps to mapped memory.
LEMMA ReadInvNext == ReadInv /\ [Next]_vars => ReadInv'
<1> SUFFICES ASSUME ReadInv, [Next]_vars PROVE ReadInv'
  OBVIOUS
<1>1. CASE Next
  BY <1>1, ForwardNext, BackwardNext, ScanNext, MountNext, VfsNext, QuietNext DEF Next
<1>2. CASE UNCHANGED vars
  BY <1>2 DEF vars, ptrVars, slotVars, mountVars, ReadInv, ReadsMapped, Walked, Reaches,
              Mapped, Read, WordAt
<1> QED
  BY <1>1, <1>2

\* FltFakeFSD.cpp: the search reads no byte that is not mapped, whatever is
\* in the vnodes, the mounts and the memory that their words lead to.
THEOREM OnlyMappedIsRead == Spec => []ReadsMapped
<1>1. Init => ReadInv
  BY DEF Init, ReadInv, ReadsMapped
<1>2. ReadInv => ReadsMapped
  BY DEF ReadInv
<1> QED
  BY <1>1, <1>2, ReadInvNext, PTL DEF Spec

-----------------------------------------------------------------------------
(* Types.  Addresses and offsets are subtracted from, so that they stay    *)
(* natural numbers only because each loop knows where it started.          *)

\* Both pointers are as far from their vnodes as the size, or the offset of
\* the candidate, says; the search in a mount has not left it downwards.
Together ==
    /\ pc \in {"register", "create"} => size = 0
    /\ pc = "forward" => at1 = kernel.node[1] + size /\ at2 = kernel.node[2] + size
    /\ pc \in {"backward", "scan"} =>
          at1 = kernel.node[1] + vopOffset /\ at2 = kernel.node[2] + vopOffset
    /\ pc \in {"mount", "vfs"} => word >= kernel.mounts[mnt]

SearchInv == TypeOK /\ VnodesLeft /\ ReadInv /\ Together

\* Mapped addresses are natural numbers.
LEMMA MappedNat ==
  ASSUME kernel \in Kernels, NEW a \in Int, Mapped(a)
  PROVE  a \in Nat
<1>1. Page(a) \in DOMAIN kernel.pmap
  BY DEF Mapped, IsMapped, FltVirtToPhys, FindPhys
<1>2. Page(a) \in Nat
  BY <1>1, KernelsAssumption
<1>3. /\ Page(a) \in Int /\ Offset(a) \in 0 .. PageSize - 1
      /\ a = PageSize * Page(a) + Offset(a)
  BY DivMod
<1>4. PageSize * Page(a) >= 0
  <2>1. \A m \in Nat, n \in Nat : m * n >= 0
    OBVIOUS
  <2> QED
    BY <1>2, <2>1, PageSizeAssumption
<1>5. PageSize * Page(a) \in Int /\ PageSize \in Nat
  BY <1>2, PageSizeAssumption
<1> QED
  BY <1>3, <1>4, <1>5

\* A function is that of one operation at most.
LEMMA OpOfCount ==
  ASSUME NEW f
  PROVE  Cardinality(OpOf(f)) \in Nat
<1>1. CASE OpOf(f) = {}
  BY <1>1, FS_EmptySet
<1>2. CASE \E op \in FakeOps : OpOf(f) = {op}
  BY <1>2, FS_Singleton
<1> QED
  BY <1>1, <1>2, ImplAssumption DEF OpOf

\* A slot has a natural number for its offset.
LEMMA SlotOffsetNat ==
  ASSUME TypeOK
  PROVE  SlotOffset \in Nat
<1>1. \A m \in Nat, n \in Nat : m * n \in Nat
  OBVIOUS
<1> QED
  BY <1>1, Sizes DEF SlotOffset, TypeOK

\* Vnodes and mounts are where they can be.
LEMMA ObjectsNat ==
  ASSUME kernel \in Kernels
  PROVE  /\ kernel.node[1] \in Nat /\ kernel.node[2] \in Nat
         /\ \A m \in 1 .. Len(kernel.mounts) : kernel.mounts[m] \in Nat
  BY KernelFacts, InObjects

\* One more at the end of a sequence.
LEMMA AppendFacts ==
  ASSUME NEW s \in Seq(Nat), NEW e \in Nat
  PROVE  /\ Append(s, e) \in Seq(Nat) /\ Len(Append(s, e)) = Len(s) + 1
         /\ Append(s, e)[Len(s) + 1] = e
         /\ \A k \in 1 .. Len(s) : Append(s, e)[k] = s[k]
  OBVIOUS

\* The second vnode after the first.
LEMMA BothCreated ==
  ASSUME NEW s \in Seq(Nat), Len(s) = 1, s[1] = 1, NEW e, e = 2, NEW t, t = Append(s, e)
  PROVE  t = <<1, 2>>
<1>1. e \in Nat
  OBVIOUS
<1>2. /\ t \in Seq(Nat) /\ Len(t) = Len(s) + 1 /\ t[Len(s) + 1] = e
      /\ \A k \in 1 .. Len(s) : t[k] = s[k]
  BY ONLY t = Append(s, e), s \in Seq(Nat), <1>1, AppendFacts
<1>3. t \in Seq(Nat)
  BY <1>2
<1>4. Len(t) = 2 /\ t[1] = 1 /\ t[2] = 2
  BY ONLY <1>2, Len(s) = 1, s[1] = 1, e = 2
<1> QED
  BY ONLY <1>3, <1>4

\* The steps of the fake file system.
LEMMA FakeTyped ==
  ASSUME SearchInv,
         \/ FltRegisterFakeFsd \/ FltFakeFsdCreateVnode \/ Clean1 \/ Clean2
         \/ FltUnRegisterFakeFsd
  PROVE  TypeOK' /\ Together'
<1> USE DEF SearchInv, fsdVars, ptrVars, slotVars, resultVars, mountVars
<1>1. CASE FltRegisterFakeFsd
  BY <1>1 DEF FltRegisterFakeFsd, Fail, TypeOK, Together, Offsets
<1>2. CASE FltFakeFsdCreateVnode
  <2>1. /\ kernel' = kernel /\ size' = size /\ kernel \in Kernels
        /\ pc' \in {"create", "forward", "clean1"} /\ rc' \in BOOLEAN
    BY <1>2 DEF FltFakeFsdCreateVnode, Fail, TypeOK
  <2>2. at1' \in Nat /\ at2' \in Nat
    BY <1>2, <2>1, ObjectsNat DEF FltFakeFsdCreateVnode, TypeOK
  <2>3. nodes' \in {<<>>, <<1>>, <<1, 2>>} /\ vnodeCount' \in 0 .. 2
    <3>1. CASE UNCHANGED <<nodes, vnodeCount>>
      BY <3>1 DEF TypeOK
    <3>2. CASE nodes' = Append(nodes, Len(nodes) + 1) /\ vnodeCount' = vnodeCount + 1
      <4>1. nodes \in {<<>>, <<1>>} /\ vnodeCount = Len(nodes)
        BY <1>2 DEF FltFakeFsdCreateVnode, VnodesLeft, TypeOK
      <4>2. CASE nodes = <<>>
        BY <3>2, <4>1, <4>2
      <4>3. CASE nodes = <<1>>
        <5>1. nodes \in Seq(Nat) /\ Len(nodes) = 1 /\ nodes[1] = 1
          BY ONLY <4>3
        <5>2. Len(nodes) + 1 = 2 /\ nodes' = Append(nodes, Len(nodes) + 1)
          BY <3>2, <5>1
        <5>3. nodes' = <<1, 2>>
          <6> DEFINE e == Len(nodes) + 1
                     t == nodes'
          <6>1. e = 2 /\ t = Append(nodes, e)
            BY <5>2
          <6> HIDE DEF e, t
          <6>2. t = <<1, 2>>
            BY ONLY <5>1, <6>1, BothCreated
          <6> QED
            BY <6>2 DEF t
        <5>4. vnodeCount' = 2
          BY <3>2, <4>1, <5>1
        <5>5. nodes' \in {<<>>, <<1>>, <<1, 2>>}
          BY ONLY <5>3
        <5>6. vnodeCount' \in 0 .. 2
          BY ONLY <5>4
        <5> QED
          BY ONLY <5>5, <5>6
      <4> QED
        BY <4>1, <4>2, <4>3
    <3> QED
      BY <1>2, <3>1, <3>2 DEF FltFakeFsdCreateVnode
  <2>4. CASE pc' = "forward"
    <3>1. pc = "create" /\ at1' = kernel.node[1] /\ at2' = kernel.node[2]
      BY <1>2, <2>4 DEF FltFakeFsdCreateVnode, Fail
    <3>2. size = 0
      BY <3>1 DEF Together
    <3> QED
      BY <1>2, <2>1, <2>2, <2>3, <2>4, <3>1, <3>2, ObjectsNat, SMTT(40)
      DEF FltFakeFsdCreateVnode, TypeOK, Together, Offsets
  <2>5. CASE pc' # "forward"
    BY <1>2, <2>1, <2>2, <2>3, <2>5 DEF FltFakeFsdCreateVnode, TypeOK, Together, Offsets
  <2> QED
    BY <2>4, <2>5
<1>3. CASE Clean1
  <2>1. vnodeCount' \in 0 .. 2
    BY <1>3, SMTT(40) DEF Clean1, Clean, Recycle, VnodesLeft, TypeOK
  <2> QED
    BY <1>3, <2>1 DEF Clean1, Clean, TypeOK, Together, Offsets
<1>4. CASE Clean2
  <2>1. vnodeCount' \in 0 .. 2
    <3> DEFINE n == Len(nodes)
    <3>1. vnodeCount = IF n = 2 THEN 1 ELSE 0
      BY <1>4 DEF Clean2, Clean, VnodesLeft
    <3>2. n \in 0 .. 2
      BY DEF VnodesLeft
    <3>3. vnodeCount' = IF n >= 2 THEN vnodeCount - 1 ELSE vnodeCount
      BY <1>4 DEF Clean2, Clean, Recycle
    <3> HIDE DEF n
    <3>4. CASE n = 2
      BY ONLY <3>1, <3>3, <3>4
    <3>5. CASE n # 2
      BY ONLY <3>1, <3>2, <3>3, <3>5
    <3> QED
      BY <3>4, <3>5
  <2> QED
    BY <1>4, <2>1 DEF Clean2, Clean, TypeOK, Together, Offsets
<1>5. CASE FltUnRegisterFakeFsd
  BY <1>5 DEF FltUnRegisterFakeFsd, TypeOK, Together, Offsets
<1> QED
  BY <1>1, <1>2, <1>3, <1>4, <1>5

\* The steps to v_data and back to v_op.
LEMMA VnodeTyped ==
  ASSUME SearchInv, Forward \/ ForwardEnd \/ Backward \/ BackwardEnd \/ ScanSlot \/ ScanEnd
  PROVE  TypeOK' /\ Together'
<1> USE DEF SearchInv, fsdVars, ptrVars, slotVars, resultVars, mountVars
<1>0. kernel \in Kernels /\ kernel.node[1] \in Nat /\ kernel.node[2] \in Nat /\ Word \in Nat
  BY ObjectsNat, Sizes DEF TypeOK
<1>1. CASE Forward
  <2>1. /\ pc = "forward" /\ kernel' = kernel /\ pc' \in {"forward", "clean1"}
        /\ at1' = at1 + Word /\ at2' = at2 + Word /\ size' = size + Word
        /\ rc' \in BOOLEAN
    BY <1>1 DEF Forward, Fail, TypeOK
  <2>2. /\ at1' \in Nat /\ at2' \in Nat /\ size' \in Nat
        /\ at1' = kernel.node[1] + size' /\ at2' = kernel.node[2] + size'
    <3>1. /\ at1 \in Nat /\ at2 \in Nat /\ size \in Nat
          /\ at1 = kernel.node[1] + size /\ at2 = kernel.node[2] + size
      BY <2>1 DEF TypeOK, Together
    <3> QED
      BY ONLY <1>0, <2>1, <3>1
  <2> QED
    BY <1>1, <2>1, <2>2 DEF Forward, TypeOK, Together, Offsets
<1>2. CASE ForwardEnd
  <2>1. /\ pc = "forward" /\ pc' \in {"backward", "clean1"} /\ rc' \in BOOLEAN
        /\ vopOffset' = size /\ UNCHANGED <<kernel, fsdVars, at1, at2, size>>
        /\ UNCHANGED <<slotVars, resultVars, mountVars>>
    BY <1>2 DEF ForwardEnd, Fail, TypeOK
  <2>2. TypeOK'
    BY <2>1 DEF TypeOK
  <2>3. Together'
    BY <1>0, <2>1 DEF Together
  <2> QED
    BY <2>2, <2>3
<1>3. CASE Backward
  <2>1. /\ pc = "backward" /\ kernel' = kernel /\ at1' = at1 - Word /\ at2' = at2 - Word
        /\ vopOffset' = vopOffset - Word /\ pc' \in {"backward", "scan"}
    BY <1>3 DEF Backward
  <2>2. Walked(kernel.node[1], at1 - Word)
    BY <1>3, WalkBack DEF Backward, ReadInv
  <2>3. at1 - Word >= kernel.node[1]
    BY <2>2, Sizes DEF Walked
  <2>4. /\ at1 = kernel.node[1] + vopOffset /\ at2 = kernel.node[2] + vopOffset
        /\ vopOffset \in Nat /\ at1 \in Nat /\ at2 \in Nat
    BY <2>1 DEF Together, TypeOK
  <2>5. /\ at1' \in Nat /\ at2' \in Nat /\ vopOffset' \in Nat
        /\ at1' = kernel.node[1] + vopOffset' /\ at2' = kernel.node[2] + vopOffset'
    BY <1>0, <2>1, <2>3, <2>4
  <2>6. func' \in Nat /\ i' \in Nat /\ hits' \in Nat
    <3>1. CASE func' = Read(at1') /\ Mapped(Read(at1')) /\ i' = 0 /\ hits' = 0
      BY <1>0, <3>1, KernelFacts, MappedNat
    <3>2. CASE UNCHANGED slotVars
      BY <3>2 DEF TypeOK
    <3> QED
      BY <1>3, <3>1, <3>2 DEF Backward
  <2> QED
    BY <1>3, <2>1, <2>5, <2>6 DEF Backward, TypeOK, Together, Offsets
<1>4. CASE BackwardEnd
  BY <1>4 DEF BackwardEnd, Fail, TypeOK, Together, Offsets
<1>5. CASE ScanSlot
  <2>1. /\ pc = "scan" /\ kernel' = kernel /\ at1' = at1 /\ at2' = at2
        /\ vopOffset' = vopOffset /\ pc' \in {"scan", "mounts"}
    BY <1>5 DEF ScanSlot
  <2>2. hits' \in Nat
    BY <1>5, OpOfCount, SMTT(40) DEF ScanSlot, TypeOK
  <2>3. offsets' \in [FakeOps -> Offsets]
    BY <1>5, SlotOffsetNat DEF ScanSlot, TypeOK, Offsets
  <2>4. func' \in Nat /\ i' \in Nat
    <3>1. func \in Nat /\ i \in Nat
      BY DEF TypeOK
    <3>2. UNCHANGED <<func, i>> \/ (func' = func + Word /\ i' = i + 1)
      BY <1>5, Zenon DEF ScanSlot
    <3> QED
      BY <1>0, <3>1, <3>2
  <2>5. gVNodeVopOffset' \in Offsets
    <3>1. gVNodeVopOffset' \in {vopOffset, gVNodeVopOffset}
      BY <1>5, Zenon DEF ScanSlot
    <3> QED
      BY <3>1 DEF TypeOK, Offsets
  <2> QED
    BY <1>5, <2>1, <2>2, <2>3, <2>4, <2>5 DEF ScanSlot, TypeOK, Together
<1>6. CASE ScanEnd
  BY <1>6 DEF ScanEnd, TypeOK, Together, Offsets
<1> QED
  BY <1>1, <1>2, <1>3, <1>4, <1>5, <1>6

\* The steps through the mounts.
LEMMA MountTyped ==
  ASSUME SearchInv, NextMount \/ NoMount \/ MountWord \/ MountEnd \/ VfsSlot \/ VfsEnd
  PROVE  TypeOK' /\ Together'
<1> USE DEF SearchInv, fsdVars, ptrVars, slotVars, resultVars, mountVars
<1>0. /\ kernel \in Kernels /\ Word \in Nat /\ mnt \in Nat \ {0}
      /\ Len(kernel.mounts) \in Nat
      /\ mnt <= Len(kernel.mounts) => kernel.mounts[mnt] \in Nat
  <2>1. kernel \in Kernels /\ mnt \in Nat \ {0}
    BY DEF ReadInv
  <2>2. Len(kernel.mounts) \in Nat
    BY <2>1, KernelsAssumption
  <2> QED
    BY <2>1, <2>2, ObjectsNat, Sizes
<1>1. CASE NextMount
  BY <1>0, <1>1, SMTT(40) DEF NextMount, TypeOK, Together, Offsets
<1>2. CASE NoMount
  BY <1>2 DEF NoMount, Fail, TypeOK, Together, Offsets
<1>3. CASE MountWord
  <2>1. func' \in Nat /\ i' \in Nat /\ found' \in Nat
    BY <1>0, <1>3, KernelFacts, MappedNat, SMTT(40) DEF MountWord, TypeOK
  <2>2. word' \in Nat /\ word' >= word /\ pc' \in {"mount", "vfs"} /\ pc = "mount"
    BY <1>0, <1>3 DEF MountWord, TypeOK
  <2>3. mnt' = mnt /\ kernel' = kernel /\ word \in Nat /\ kernel.mounts[mnt] \in Nat
    BY <1>0, <1>3, <2>2 DEF MountWord, TypeOK, ReadInv
  <2>4. UNCHANGED <<kernel, rc, fsdVars, ptrVars, hits, resultVars, mnt>>
    BY <1>3, Zenon DEF MountWord
  <2>5. TypeOK'
    BY <2>1, <2>2, <2>3, <2>4 DEF TypeOK
  <2>6. word' >= kernel.mounts[mnt]
    BY <2>2, <2>3, SMTT(40) DEF Together, TypeOK
  <2>7. Together'
    BY <2>2, <2>3, <2>6 DEF Together
  <2> QED
    BY <2>5, <2>7
<1>4. CASE MountEnd
  BY <1>4 DEF MountEnd, TypeOK, Together, Offsets
<1>5. CASE VfsSlot
  <2>1. func' \in Nat /\ i' \in Nat /\ found' \in Nat
    <3>1. func \in Nat /\ i \in Nat /\ found \in Nat
      BY DEF TypeOK
    <3>2. UNCHANGED <<func, i>> \/ (func' = func + Word /\ i' = i + 1)
      BY <1>5, Zenon DEF VfsSlot
    <3>3. found' \in {found, found + 1}
      BY <1>5, Zenon DEF VfsSlot
    <3> QED
      BY <1>0, <3>1, <3>2, <3>3
  <2>2. word \in Nat /\ kernel.mounts[mnt] \in Nat /\ word >= kernel.mounts[mnt]
    BY <1>0, <1>5 DEF VfsSlot, TypeOK, Together, ReadInv
  <2>3. gVfsOperationVectorOffset' \in Offsets /\ gUnmountOffset' \in Offsets
    <3>1. /\ gVfsOperationVectorOffset' \in {gVfsOperationVectorOffset,
                                              word - kernel.mounts[mnt]}
          /\ gUnmountOffset' \in {gUnmountOffset, UnmountOffset}
      BY <1>5, Zenon DEF VfsSlot
    <3>2. word - kernel.mounts[mnt] \in Nat /\ UnmountOffset \in Nat
      BY <2>2, WordAssumption
    <3> QED
      BY <3>1, <3>2 DEF TypeOK, Offsets
  <2>4. /\ pc = "vfs" /\ pc' \in {"vfs", "clean1"} /\ mnt' = mnt /\ kernel' = kernel
        /\ word' = word
    BY <1>5 DEF VfsSlot
  <2> QED
    BY <1>5, <2>1, <2>2, <2>3, <2>4 DEF VfsSlot, TypeOK, Together
<1>6. CASE VfsEnd
  <2>1. word \in Nat /\ kernel.mounts[mnt] \in Nat /\ word >= kernel.mounts[mnt]
    BY <1>0, <1>6 DEF VfsEnd, TypeOK, Together, ReadInv
  <2>2. /\ pc' = "mount" /\ word' = word + Word /\ word' \in Nat
        /\ UNCHANGED <<kernel, rc, fsdVars, ptrVars, slotVars, resultVars, mnt, found>>
    BY <1>0, <1>6, <2>1 DEF VfsEnd
  <2>3. TypeOK'
    BY <2>2 DEF TypeOK
  <2>4. Together'
    BY <1>0, <2>1, <2>2 DEF Together
  <2> QED
    BY <2>3, <2>4
<1> QED
  BY <1>1, <1>2, <1>3, <1>4, <1>5, <1>6

\* The invariant of the search.
LEMMA SearchInvariance == Spec => []SearchInv
<1>1. Init => SearchInv
  <2> SUFFICES ASSUME Init PROVE SearchInv
    OBVIOUS
  <2>1. TypeOK
    <3>1. {at1, at2, size, vopOffset, func, i, hits, mnt, word, found} \subseteq Nat
      <4>1. \A n \in {at1, at2, size, vopOffset, func, i, hits, mnt, word, found} :
               n = 0 \/ n = 1
        BY DEF Init
      <4> QED
        BY ONLY <4>1
    <3>2. offsets \in [FakeOps -> Offsets]
      BY DEF Init, Offsets
    <3>3. {gVNodeVopOffset, gVfsOperationVectorOffset, gUnmountOffset} \subseteq Offsets
      BY DEF Init, Offsets
    <3>4. {rc, registered} \subseteq BOOLEAN
      BY DEF Init
    <3>5. /\ kernel \in Kernels /\ pc = "register"
          /\ nodes \in {<<>>, <<1>>, <<1, 2>>} /\ vnodeCount \in 0 .. 2
      BY DEF Init
    <3> QED
      BY <3>1, <3>2, <3>3, <3>4, <3>5 DEF TypeOK
  <2> QED
    BY <2>1 DEF Init, SearchInv, VnodesLeft, ReadInv, ReadsMapped, Together
<1>2. SearchInv /\ [Next]_vars => SearchInv'
  <2> SUFFICES ASSUME SearchInv, [Next]_vars PROVE SearchInv'
    OBVIOUS
  <2>1. VnodesLeft' /\ ReadInv'
    BY VnodesLeftNext, ReadInvNext DEF SearchInv
  <2>2. TypeOK' /\ Together'
    <3>1. CASE Next
      BY <3>1, FakeTyped, VnodeTyped, MountTyped DEF Next
    <3>2. CASE UNCHANGED vars
      BY <3>2 DEF vars, fsdVars, ptrVars, slotVars, resultVars, mountVars, SearchInv,
                  TypeOK, Together, Offsets
    <3> QED
      BY <3>1, <3>2
  <2> QED
    BY <2>1, <2>2 DEF SearchInv
<1> QED
  BY <1>1, <1>2, PTL DEF Spec

\* FltFakeFSD.cpp: the offsets that the search leaves are natural numbers or
\* unknown, and no pointer of it goes below zero or below what it walks
\* through, in any kernel.
THEOREM SearchTypes == Spec => []TypeOK
<1>1. SearchInv => TypeOK
  BY DEF SearchInv
<1> QED
  BY <1>1, SearchInvariance, PTL

-----------------------------------------------------------------------------
(* The layout.  What is counted is how many slots lead to a function; the  *)
(* offsets are those of the slots counted.                                 *)

Ending == {"clean1", "clean2", "unregister", "done"}

\* The fake functions met in n slots from p on have offsets in off.
SlotsKnown(k, p, n, off) ==
    \A j \in 0 .. n - 1 : \A op \in FakeOps :
        WordAt(k, p + j * Word) = Impl[op] =>
            off[op] # Unknown /\ WordAt(k, p + off[op]) = Impl[op]

\* The search is within what is marked, has counted what it has met since the
\* candidate, and has found what it says.
LayoutInv ==
    /\ pc = "forward" => size < PageSize
    /\ pc \in {"backward", "scan"} => vopOffset < PageSize
    /\ pc = "scan" =>
         /\ func = Read(at1) + i * Word
         /\ hits = Cardinality(FakeSlots(kernel, Read(at1), i))
         /\ SlotsKnown(kernel, Read(at1), i, offsets)
    /\ pc = "vfs" =>
         /\ func = Read(word) + i * Word
         /\ word < kernel.mounts[mnt] + MountSize
         /\ found = Cardinality(FunctionSlots(kernel, Read(word), i))
    /\ pc \in {"mounts", "mount", "vfs"} \/ (pc \in Ending /\ rc) =>
         (VopMarked(kernel) => VectorRight)
    /\ pc \in Ending /\ rc => (VfsMarked(kernel) => VfsRight)

\* One more slot with a fake function is one more hit.
LEMMA FakeSlotsNext ==
  ASSUME NEW k, NEW p, NEW n \in Nat
  PROVE  /\ FakeSlots(k, p, 0) = {}
         /\ IsFiniteSet(FakeSlots(k, p, n))
         /\ Cardinality(FakeSlots(k, p, n + 1)) =
              Cardinality(FakeSlots(k, p, n)) + Cardinality(OpOf(WordAt(k, p + n * Word)))
<1> DEFINE f == WordAt(k, p + n * Word)
           S == FakeSlots(k, p, n)
           T == FakeSlots(k, p, n + 1)
<1>1. FakeSlots(k, p, 0) = {}
  BY DEF FakeSlots
<1>2. IsFiniteSet(S)
  <2>1. IsFiniteSet(0 .. n - 1) /\ S \in SUBSET (0 .. n - 1)
    BY FS_Interval DEF FakeSlots
  <2> QED
    BY <2>1, FS_Subset
<1>3. n \notin S
  BY DEF FakeSlots
<1>4. CASE OpOf(f) = {}
  <2>1. T = S
    BY <1>4 DEF FakeSlots
  <2>2. Cardinality(OpOf(f)) = 0 /\ Cardinality(S) \in Nat
    BY <1>2, <1>4, FS_EmptySet, FS_CardinalityType
  <2> QED
    BY <1>1, <1>2, <2>1, <2>2
<1>5. CASE OpOf(f) # {}
  <2>1. T = S \cup {n}
    BY <1>5 DEF FakeSlots
  <2>2. Cardinality(S \cup {n}) = Cardinality(S) + 1
    BY <1>2, <1>3, FS_AddElement
  <2>3. Cardinality(OpOf(f)) = 1
    <3>1. PICK op \in OpOf(f) : TRUE
      BY <1>5
    <3>2. OpOf(f) = {op}
      BY <3>1, ImplAssumption DEF OpOf
    <3> QED
      BY <3>2, FS_Singleton
  <2> QED
    BY <1>1, <1>2, <2>1, <2>2, <2>3
<1> QED
  BY <1>4, <1>5

\* One more slot with a function.
LEMMA FunctionSlotsNext ==
  ASSUME NEW k, NEW p, NEW n \in Nat
  PROVE  /\ FunctionSlots(k, p, 0) = {}
         /\ IsFiniteSet(FunctionSlots(k, p, n))
         /\ Cardinality(FunctionSlots(k, p, n + 1)) =
              IF IsFunction(k, WordAt(k, p + n * Word))
              THEN Cardinality(FunctionSlots(k, p, n)) + 1
              ELSE Cardinality(FunctionSlots(k, p, n))
<1> DEFINE f == WordAt(k, p + n * Word)
           S == FunctionSlots(k, p, n)
           T == FunctionSlots(k, p, n + 1)
<1>1. FunctionSlots(k, p, 0) = {}
  BY DEF FunctionSlots
<1>2. IsFiniteSet(S)
  <2>1. IsFiniteSet(0 .. n - 1) /\ S \in SUBSET (0 .. n - 1)
    BY FS_Interval DEF FunctionSlots
  <2> QED
    BY <2>1, FS_Subset
<1>3. n \notin S
  BY DEF FunctionSlots
<1>4. CASE ~IsFunction(k, f)
  <2>1. T = S
    BY <1>4 DEF FunctionSlots
  <2> QED
    BY <1>1, <1>2, <1>4, <2>1
<1>5. CASE IsFunction(k, f)
  <2>1. T = S \cup {n}
    BY <1>5 DEF FunctionSlots
  <2>2. Cardinality(S \cup {n}) = Cardinality(S) + 1
    BY <1>2, <1>3, FS_AddElement
  <2> QED
    BY <1>1, <1>2, <1>5, <2>1, <2>2
<1> QED
  BY <1>4, <1>5

\* As many slots with different fake functions as there are functions have
\* them all.
LEMMA AllFound ==
  ASSUME NEW k, NEW p, NEW n \in Nat,
         Cardinality(FakeSlots(k, p, n)) = Cardinality(FakeOps),
         \A j, l \in FakeSlots(k, p, n) :
            WordAt(k, p + j * Word) = WordAt(k, p + l * Word) => j = l
  PROVE  \A op \in FakeOps : \E j \in 0 .. n - 1 : WordAt(k, p + j * Word) = Impl[op]
<1> DEFINE S == FakeSlots(k, p, n)
           g == [j \in S |-> CHOOSE op \in FakeOps : Impl[op] = WordAt(k, p + j * Word)]
<1>1. ASSUME NEW j \in S PROVE g[j] \in FakeOps /\ Impl[g[j]] = WordAt(k, p + j * Word)
  <2>1. \E op \in FakeOps : Impl[op] = WordAt(k, p + j * Word)
    BY DEF FakeSlots, OpOf
  <2> QED
    BY <2>1
<1>2. g \in [S -> FakeOps]
  BY <1>1
<1>3. ASSUME NEW j \in S, NEW l \in S, g[j] = g[l] PROVE j = l
  BY <1>1, <1>3
<1>4. g \in Injection(S, FakeOps)
  BY <1>2, <1>3 DEF Injection, IsInjective
<1>5. IsFiniteSet(FakeOps)
  BY ImplAssumption
<1>6. g \in Surjection(S, FakeOps)
  <2> HIDE DEF g, S
  <2> QED
    BY <1>4, <1>5, FS_Injection DEF S
<1>7. \A op \in FakeOps : \E j \in S : g[j] = op
  <2> HIDE DEF g, S
  <2> QED
    BY <1>6 DEF Surjection
<1>8. S \subseteq 0 .. n - 1
  BY DEF FakeSlots
<1> HIDE DEF g, S
<1> QED
  BY <1>1, <1>7, <1>8

\* Fewer slots have fewer fake functions.
LEMMA FakeSlotsWithin ==
  ASSUME NEW k, NEW p, NEW n \in Nat, n <= MaxSlots
  PROVE  /\ FakeSlots(k, p, n) \subseteq FakeSlots(k, p, MaxSlots)
         /\ Cardinality(FakeSlots(k, p, n)) <= Cardinality(FakeSlots(k, p, MaxSlots))
         /\ Cardinality(FakeSlots(k, p, MaxSlots)) \in Nat
         /\ Cardinality(FakeSlots(k, p, n)) \in Nat
<1>1. MaxSlots \in Nat
  BY WordAssumption
<1>2. FakeSlots(k, p, n) \subseteq FakeSlots(k, p, MaxSlots)
  BY <1>1 DEF FakeSlots
<1>3. IsFiniteSet(FakeSlots(k, p, MaxSlots)) /\ IsFiniteSet(FakeSlots(k, p, n))
  BY <1>1, FakeSlotsNext
<1> QED
  BY <1>2, <1>3, FS_Subset, FS_CardinalityType

\* Fewer slots have fewer functions.
LEMMA FunctionSlotsWithin ==
  ASSUME NEW k, NEW p, NEW n \in Nat, n <= MaxVfsSlots
  PROVE  /\ Cardinality(FunctionSlots(k, p, n)) <= Cardinality(FunctionSlots(k, p, MaxVfsSlots))
         /\ Cardinality(FunctionSlots(k, p, MaxVfsSlots)) \in Nat
         /\ Cardinality(FunctionSlots(k, p, n)) \in Nat
<1>1. MaxVfsSlots \in Nat
  BY WordAssumption
<1>2. FunctionSlots(k, p, n) \subseteq FunctionSlots(k, p, MaxVfsSlots)
  BY <1>1 DEF FunctionSlots
<1>3. IsFiniteSet(FunctionSlots(k, p, MaxVfsSlots)) /\ IsFiniteSet(FunctionSlots(k, p, n))
  BY <1>1, FunctionSlotsNext
<1> QED
  BY <1>2, <1>3, FS_Subset, FS_CardinalityType

\* Where v_op is marked, a candidate with all functions is v_op.
LEMMA CandidateIsVop ==
  ASSUME NEW k, VopMarked(k), NEW a \in Span(k.node[1], PageSize),
         NEW n \in Nat, n <= MaxSlots,
         Cardinality(FakeSlots(k, WordAt(k, a), n)) = Cardinality(FakeOps),
         NEW off, SlotsKnown(k, WordAt(k, a), n, off)
  PROVE  /\ k.vop = a - k.node[1]
         /\ \A op \in FakeOps : off[op] # Unknown /\ WordAt(k, k.vector + off[op]) = Impl[op]
<1> DEFINE p == WordAt(k, a)
<1>1. Cardinality(FakeSlots(k, p, MaxSlots)) >= Cardinality(FakeOps)
  BY FakeSlotsWithin
<1>2. k.vop = a - k.node[1] /\ p = k.vector
  BY <1>1 DEF VopMarked
<1>3. \A j, l \in FakeSlots(k, p, n) :
         WordAt(k, p + j * Word) = WordAt(k, p + l * Word) => j = l
  <2>1. FakeSlots(k, p, n) \subseteq FakeSlots(k, p, MaxSlots)
    BY FakeSlotsWithin
  <2> QED
    BY <1>2, <2>1 DEF VopMarked
<1> HIDE DEF p
<1>4. \A op \in FakeOps : \E j \in 0 .. n - 1 : WordAt(k, p + j * Word) = Impl[op]
  BY <1>3, AllFound DEF p
<1>5. SlotsKnown(k, p, n, off)
  BY DEF p
<1>6. \A op \in FakeOps : off[op] # Unknown /\ WordAt(k, p + off[op]) = Impl[op]
  BY <1>4, <1>5 DEF SlotsKnown
<1> QED
  BY <1>2, <1>6

\* What has been found stays found.
LEMMA FoundStays ==
  ASSUME UNCHANGED <<kernel, resultVars>>
  PROVE  /\ (VopMarked(kernel) => VectorRight) => (VopMarked(kernel) => VectorRight)'
         /\ (VfsMarked(kernel) => VfsRight) => (VfsMarked(kernel) => VfsRight)'
<1>1. /\ kernel' = kernel /\ offsets' = offsets /\ gVNodeVopOffset' = gVNodeVopOffset
      /\ gVfsOperationVectorOffset' = gVfsOperationVectorOffset
  BY DEF resultVars
<1>2. VectorRight => VectorRight'
  BY <1>1 DEF VectorRight, Read
<1>3. VfsRight => VfsRight'
  BY <1>1 DEF VfsRight, Read
<1> QED
  BY <1>1, <1>2, <1>3

\* The steps before a candidate and after the mounts.
LEMMA QuietLayout ==
  ASSUME SearchInv, LayoutInv,
         \/ FltRegisterFakeFsd \/ FltFakeFsdCreateVnode \/ ForwardEnd \/ BackwardEnd
         \/ ScanEnd \/ NextMount \/ NoMount \/ MountEnd \/ VfsEnd
         \/ Clean1 \/ Clean2 \/ FltUnRegisterFakeFsd
  PROVE  LayoutInv'
<1> USE DEF Ending
<1>1. UNCHANGED <<kernel, resultVars>>
  BY Zenon DEF FltRegisterFakeFsd, FltFakeFsdCreateVnode, ForwardEnd, BackwardEnd, ScanEnd,
         NextMount, NoMount, MountEnd, VfsEnd, Clean1, Clean2, Clean, FltUnRegisterFakeFsd
<1>2. CASE FltRegisterFakeFsd \/ BackwardEnd \/ NoMount
  <2>1. pc' = "create" \/ (pc' = "clean1" /\ rc' = FALSE)
    BY <1>2 DEF FltRegisterFakeFsd, BackwardEnd, NoMount, Fail
  <2> QED
    BY <2>1 DEF LayoutInv
<1>3. CASE FltFakeFsdCreateVnode
  <2>1. /\ pc' \in {"create", "forward"} \/ (pc' = "clean1" /\ rc' = FALSE)
        /\ size' = size /\ pc = "create"
    BY <1>3 DEF FltFakeFsdCreateVnode, Fail, ptrVars
  <2>2. size' < PageSize
    BY <2>1, Sizes DEF SearchInv, Together
  <2> QED
    BY <2>1, <2>2 DEF LayoutInv
<1>4. CASE ForwardEnd
  <2>1. /\ pc' = "backward" \/ (pc' = "clean1" /\ rc' = FALSE)
        /\ vopOffset' = size /\ pc = "forward"
    BY <1>4 DEF ForwardEnd, Fail
  <2> QED
    BY <2>1 DEF LayoutInv
<1>5. CASE ScanEnd
  <2>1. pc = "scan" /\ pc' = "backward" /\ vopOffset' = vopOffset
    BY <1>5 DEF ScanEnd, ptrVars
  <2> QED
    BY <2>1 DEF LayoutInv
<1>6. CASE NextMount \/ MountEnd \/ VfsEnd
  <2>1. pc' \in {"mounts", "mount"} /\ pc \in {"mounts", "mount", "vfs"}
    BY <1>6 DEF NextMount, MountEnd, VfsEnd
  <2> QED
    BY <1>1, <2>1, FoundStays DEF LayoutInv
<1>7. CASE Clean1 \/ Clean2 \/ FltUnRegisterFakeFsd
  <2>1. pc' \in Ending /\ pc \in Ending /\ rc' = rc
    BY <1>7 DEF Clean1, Clean2, Clean, FltUnRegisterFakeFsd
  <2> QED
    BY <1>1, <2>1, FoundStays DEF LayoutInv
<1> QED
  BY <1>2, <1>3, <1>4, <1>5, <1>6, <1>7

\* The steps to v_data and back, to a candidate.
LEMMA WalkLayout ==
  ASSUME SearchInv, SearchInv', LayoutInv, Forward \/ Backward
  PROVE  LayoutInv'
<1> USE DEF Ending
<1>1. CASE Forward
  <2>1. /\ (pc' = "forward" /\ ~(size' >= PageSize)) \/ (pc' = "clean1" /\ rc' = FALSE)
    BY <1>1 DEF Forward, Fail
  <2>2. size' \in Nat
    BY DEF SearchInv, TypeOK
  <2> QED
    BY <2>1, <2>2, Sizes DEF LayoutInv
<1>2. CASE Backward
  <2>1. /\ pc = "backward" /\ pc' \in {"backward", "scan"} /\ kernel' = kernel
        /\ vopOffset' = vopOffset - Word
    BY <1>2 DEF Backward
  <2>2. vopOffset' < PageSize
    <3>1. vopOffset < PageSize /\ vopOffset \in Nat
      BY <2>1 DEF LayoutInv, SearchInv, TypeOK
    <3> QED
      BY <2>1, <3>1, Sizes
  <2>3. CASE pc' = "scan"
    <3>1. func' = WordAt(kernel, at1') /\ i' = 0 /\ hits' = 0
      BY <1>2, <2>1, <2>3 DEF Backward, Read
    <3>2. WordAt(kernel, at1') \in Int
      BY KernelFacts DEF SearchInv, TypeOK, Read
    <3>3. func' = WordAt(kernel', at1') + i' * Word
      BY <2>1, <3>1, <3>2, Sizes
    <3>4. hits' = Cardinality(FakeSlots(kernel', WordAt(kernel', at1'), i'))
      BY <2>1, <3>1, FakeSlotsNext, FS_EmptySet
    <3>5. SlotsKnown(kernel', WordAt(kernel', at1'), i', offsets')
      BY <3>1 DEF SlotsKnown
    <3> QED
      BY <2>2, <2>3, <3>3, <3>4, <3>5 DEF LayoutInv, Read
  <2>4. CASE pc' = "backward"
    BY <2>2, <2>4 DEF LayoutInv
  <2> QED
    BY <2>1, <2>3, <2>4
<1> QED
  BY <1>1, <1>2

\* A slot of a candidate.
LEMMA ScanLayout ==
  ASSUME SearchInv, LayoutInv, ScanSlot
  PROVE  LayoutInv'
<1> DEFINE p == WordAt(kernel, at1)
           f == WordAt(kernel, p + i * Word)
<1> USE DEF Ending
<1>1. /\ pc = "scan" /\ i < MaxSlots /\ kernel' = kernel /\ at1' = at1
      /\ vopOffset' = vopOffset /\ pc' \in {"scan", "mounts"}
  BY DEF ScanSlot, InVector, ptrVars
<1>2. func = p + i * Word /\ i \in Nat /\ vopOffset < PageSize
  BY <1>1 DEF LayoutInv, SearchInv, TypeOK, Read
<1>3. /\ hits = Cardinality(FakeSlots(kernel, p, i)) /\ SlotsKnown(kernel, p, i, offsets)
  BY <1>1 DEF LayoutInv, Read
<1>4. hits' = Cardinality(FakeSlots(kernel, p, i + 1))
  <2>1. hits' = hits + Cardinality(OpOf(f))
    BY <1>2 DEF ScanSlot, Read
  <2> QED
    BY <1>2, <1>3, <2>1, FakeSlotsNext
<1>5. offsets' = [op \in FakeOps |-> IF op \in OpOf(f) THEN i * Word ELSE offsets[op]]
  BY <1>2 DEF ScanSlot, Read, SlotOffset
<1>6. SlotsKnown(kernel, p, i + 1, offsets')
  <2> SUFFICES ASSUME NEW j \in 0 .. (i + 1) - 1, NEW op \in FakeOps,
                      WordAt(kernel, p + j * Word) = Impl[op]
               PROVE  offsets'[op] # Unknown /\ WordAt(kernel, p + offsets'[op]) = Impl[op]
    BY DEF SlotsKnown
  <2>1. CASE op \in OpOf(f)
    <3>1. offsets'[op] = i * Word /\ Impl[op] = f
      BY <1>5, <2>1 DEF OpOf
    <3>2. i * Word \in Nat
      BY SlotOffsetNat DEF SlotOffset, SearchInv
    <3> QED
      BY <3>1, <3>2, WordAssumption
  <2>2. CASE op \notin OpOf(f)
    <3>1. offsets'[op] = offsets[op]
      BY <1>5, <2>2
    <3>2. j # i
      BY <2>2 DEF OpOf
    <3>3. j \in 0 .. i - 1
      BY <1>2, <3>2
    <3> QED
      BY <1>3, <3>1, <3>3 DEF SlotsKnown
  <2> QED
    BY <2>1, <2>2
<1>7. CASE pc' = "scan"
  <2>1. func' = func + Word /\ i' = i + 1
    BY <1>7 DEF ScanSlot
  <2>2. func' = p + i' * Word
    <3>1. p \in Int
      BY KernelFacts DEF SearchInv, TypeOK, Read
    <3>2. (i + 1) * Word = i * Word + Word
      BY <1>2, Sizes
    <3>3. i * Word \in Int
      BY <1>2, Sizes
    <3> QED
      BY <1>2, <2>1, <3>1, <3>2, <3>3, Sizes
  <2>3. Read(at1)' = p
    BY <1>1 DEF Read
  <2> QED
    BY <1>1, <1>2, <1>4, <1>6, <1>7, <2>1, <2>2, <2>3 DEF LayoutInv
<1>8. CASE pc' = "mounts"
  <2>1. Enough(hits') /\ gVNodeVopOffset' = vopOffset
    BY <1>8 DEF ScanSlot
  <2>2. Cardinality(FakeSlots(kernel, p, i + 1)) = Cardinality(FakeOps)
    BY <1>4, <2>1 DEF Enough
  <2>3. /\ at1 = kernel.node[1] + vopOffset /\ vopOffset \in Nat
        /\ kernel.node[1] \in Nat
    BY <1>1, ObjectsNat DEF SearchInv, TypeOK, Together
  <2>4. at1 \in Span(kernel.node[1], PageSize)
    BY <1>2, <2>3, Sizes DEF Span
  <2>5. i + 1 \in Nat /\ i + 1 <= MaxSlots
    BY <1>1, <1>2, WordAssumption
  <2>6. ASSUME VopMarked(kernel)
        PROVE  /\ kernel.vop = at1 - kernel.node[1]
               /\ \A op \in FakeOps : /\ offsets'[op] # Unknown
                                      /\ WordAt(kernel, kernel.vector + offsets'[op]) = Impl[op]
    <3> DEFINE off == offsets'
    <3>1. SlotsKnown(kernel, p, i + 1, off)
      BY <1>6
    <3> HIDE DEF off
    <3>2. /\ kernel.vop = at1 - kernel.node[1]
          /\ \A op \in FakeOps : /\ off[op] # Unknown
                                 /\ WordAt(kernel, kernel.vector + off[op]) = Impl[op]
      BY <2>2, <2>4, <2>5, <2>6, <3>1, CandidateIsVop
    <3> QED
      BY <3>2 DEF off
  <2>7. VopMarked(kernel) => VectorRight'
    <3> SUFFICES ASSUME VopMarked(kernel) PROVE VectorRight'
      OBVIOUS
    <3>1. kernel.vop = vopOffset
      BY <2>3, <2>6
    <3> QED
      BY <1>1, <2>1, <2>6, <3>1 DEF VectorRight, Read
  <2> QED
    BY <1>1, <1>8, <2>7 DEF LayoutInv
<1> QED
  BY <1>1, <1>7, <1>8

\* The steps through a mount.
LEMMA MountLayout ==
  ASSUME SearchInv, LayoutInv, MountWord
  PROVE  LayoutInv'
<1> USE DEF Ending
<1>1. /\ pc = "mount" /\ pc' \in {"mount", "vfs"} /\ UNCHANGED <<kernel, resultVars>>
      /\ kernel' = kernel /\ mnt' = mnt /\ word < kernel.mounts[mnt] + MountSize
  BY DEF MountWord, InMount
<1>2. (VopMarked(kernel) => VectorRight)'
  BY <1>1, FoundStays DEF LayoutInv
<1>3. CASE pc' = "mount"
  BY <1>1, <1>2, <1>3 DEF LayoutInv
<1>4. CASE pc' = "vfs"
  <2>1. func' = WordAt(kernel, word) /\ i' = 0 /\ found' = 0 /\ word' = word
    BY <1>1, <1>4 DEF MountWord, Read
  <2>2. WordAt(kernel, word) \in Int
    BY KernelFacts DEF SearchInv, TypeOK, Read
  <2>3. func' = WordAt(kernel', word') + i' * Word
    BY <1>1, <2>1, <2>2, Sizes
  <2>4. found' = Cardinality(FunctionSlots(kernel', WordAt(kernel', word'), i'))
    BY <1>1, <2>1, FunctionSlotsNext, FS_EmptySet
  <2>5. word' < kernel'.mounts[mnt'] + MountSize
    BY <1>1, <2>1
  <2> QED
    BY <1>2, <1>4, <2>3, <2>4, <2>5 DEF LayoutInv, Read
<1> QED
  BY <1>1, <1>3, <1>4

\* A slot of a table in a mount.
LEMMA VfsLayout ==
  ASSUME SearchInv, LayoutInv, VfsSlot
  PROVE  LayoutInv'
<1> DEFINE p == WordAt(kernel, word)
           f == WordAt(kernel, p + i * Word)
           base == kernel.mounts[mnt]
<1> USE DEF Ending
<1>1. /\ pc = "vfs" /\ i < MaxVfsSlots /\ kernel' = kernel /\ word' = word /\ mnt' = mnt
      /\ pc' \in {"vfs", "clean1"}
      /\ offsets' = offsets /\ gVNodeVopOffset' = gVNodeVopOffset
  BY DEF VfsSlot, InVfsOps
<1>2. /\ func = p + i * Word /\ i \in Nat /\ word < base + MountSize
      /\ found = Cardinality(FunctionSlots(kernel, p, i))
  BY <1>1 DEF LayoutInv, SearchInv, TypeOK, Read
<1>3. found' = Cardinality(FunctionSlots(kernel, p, i + 1))
  <2>1. found' = IF IsFunction(kernel, f) THEN found + 1 ELSE found
    BY <1>2 DEF VfsSlot, Read
  <2> QED
    BY <1>2, <2>1, FunctionSlotsNext
<1>4. (VopMarked(kernel) => VectorRight)'
  <2>1. VopMarked(kernel) => VectorRight
    BY <1>1 DEF LayoutInv
  <2> QED
    BY <1>1, <2>1 DEF VectorRight, Read
<1>5. CASE pc' = "vfs"
  <2>1. func' = func + Word /\ i' = i + 1
    BY <1>5 DEF VfsSlot
  <2>2. func' = p + i' * Word
    <3>1. p \in Int
      BY KernelFacts DEF SearchInv, TypeOK, Read
    <3>2. (i + 1) * Word = i * Word + Word
      BY <1>2, Sizes
    <3>3. i * Word \in Int
      BY <1>2, Sizes
    <3> QED
      BY <1>2, <2>1, <3>1, <3>2, <3>3, Sizes
  <2>3. Read(word)' = p
    BY <1>1 DEF Read
  <2> QED
    BY <1>1, <1>2, <1>3, <1>4, <1>5, <2>1, <2>2, <2>3 DEF LayoutInv
<1>6. CASE pc' = "clean1"
  <2>1. found' >= MinFunctions /\ gVfsOperationVectorOffset' = word - base
    BY <1>6 DEF VfsSlot
  <2>2. mnt \in 1 .. Len(kernel.mounts) /\ mnt \in DOMAIN kernel.mounts
    <3>1. kernel.mounts \in Seq(Nat) /\ mnt \in Nat \ {0} /\ mnt <= Len(kernel.mounts)
      BY <1>1, KernelsAssumption DEF SearchInv, ReadInv
    <3> QED
      BY <3>1
  <2>3. base \in Nat /\ word \in Nat /\ word >= base
    BY <1>1, <2>2, ObjectsNat DEF SearchInv, TypeOK, Together
  <2>4. word \in Span(base, MountSize)
    BY <1>2, <2>3, WordAssumption DEF Span
  <2>5. Cardinality(FunctionSlots(kernel, p, MaxVfsSlots)) >= MinFunctions
    <3>1. i + 1 \in Nat /\ i + 1 <= MaxVfsSlots /\ MinFunctions \in Nat
      BY <1>1, <1>2, WordAssumption
    <3> QED
      BY <1>3, <2>1, <3>1, FunctionSlotsWithin
  <2>6. VfsMarked(kernel) => p = kernel.vfsops
    BY <2>2, <2>4, <2>5 DEF VfsMarked
  <2>7. (VfsMarked(kernel) => VfsRight)'
    <3> SUFFICES ASSUME VfsMarked(kernel) PROVE VfsRight'
      BY <1>1
    <3>1. gVfsOperationVectorOffset' # Unknown
      BY <2>1, <2>3, WordAssumption
    <3>2. base + gVfsOperationVectorOffset' = word
      BY <2>1, <2>3
    <3>3. WordAt(kernel, kernel.mounts[mnt] + gVfsOperationVectorOffset') = kernel.vfsops
      BY <2>6, <3>2
    <3> QED
      BY <1>1, <2>2, <3>1, <3>3 DEF VfsRight, Read
  <2> QED
    BY <1>4, <1>6, <2>7 DEF LayoutInv
<1> QED
  BY <1>1, <1>5, <1>6

\* The invariant of the search with what it has found.
LEMMA LayoutInvariance == Spec => [](SearchInv /\ LayoutInv)
<1>1. Init => LayoutInv
  BY DEF Init, LayoutInv, Ending
<1>2. SearchInv /\ SearchInv' /\ LayoutInv /\ [Next]_vars => LayoutInv'
  <2> SUFFICES ASSUME SearchInv, SearchInv', LayoutInv, [Next]_vars PROVE LayoutInv'
    OBVIOUS
  <2>1. CASE Next
    BY <2>1, QuietLayout, WalkLayout, ScanLayout, MountLayout, VfsLayout DEF Next
  <2>2. CASE UNCHANGED vars
    <3>1. UNCHANGED <<kernel, resultVars>>
      BY <2>2 DEF vars
    <3>2. Read(at1)' = Read(at1) /\ Read(word)' = Read(word)
      BY <2>2 DEF vars, ptrVars, mountVars, Read
    <3> QED
      BY <2>2, <3>1, <3>2, FoundStays
      DEF vars, ptrVars, slotVars, mountVars, resultVars, LayoutInv
  <2> QED
    BY <2>1, <2>2
<1> QED
  BY <1>1, <1>2, SearchInvariance, PTL DEF Spec

\* FltFakeFSD.cpp: when the search succeeds, the offset of v_op, those of the
\* operations in the vector and that of the vfsops are the kernel's, wherever
\* a pointer to the fake functions marks v_op and one to functions the vfsops.
THEOREM LayoutFound == Spec => [](Ended /\ rc => LayoutRight)
<1>1. LayoutInv => (Ended /\ rc => LayoutRight)
  BY DEF LayoutInv, Ended, Ending, LayoutRight
<1> QED
  BY <1>1, LayoutInvariance, PTL

-----------------------------------------------------------------------------
(* Progress.  What is left is a natural number as long as each loop keeps  *)
(* to its limit, which the last turn of it reaches and none exceeds.       *)

Early == {"register", "create", "forward", "backward", "scan"}

LimitsKept ==
    /\ pc \in Early => mnt = 1
    /\ pc = "scan" => i <= MaxSlots
    /\ pc = "vfs" => i <= MaxVfsSlots
    /\ pc = "mounts" => mnt <= Len(kernel.mounts) + 1
    /\ pc = "mount" => word < kernel.mounts[mnt] + MountSize + Word

\* Fewer at the first place where they differ.
LEMMA Fewer ==
  ASSUME NEW a \in Nat, NEW b \in Nat, NEW c \in Nat, NEW d \in Nat,
         NEW w \in Nat, NEW x \in Nat, NEW y \in Nat, NEW z \in Nat,
         \/ w < a
         \/ w = a /\ x < b
         \/ w = a /\ x = b /\ y < c
         \/ w = a /\ x = b /\ y = c /\ z < d
  PROVE  Descends(<<w, x, y, z>>, <<a, b, c, d>>)
<1> DEFINE new == <<w, x, y, z>>
           old == <<a, b, c, d>>
<1>1. /\ new \in Seq(Nat) /\ Len(new) = 4 /\ Len(old) = 4
      /\ new[1] = w /\ new[2] = x /\ new[3] = y /\ new[4] = z
      /\ old[1] = a /\ old[2] = b /\ old[3] = c /\ old[4] = d
  OBVIOUS
<1> SUFFICES Descends(new, old)
  OBVIOUS
<1> HIDE DEF new, old
<1>2. CASE w < a
  <2>1. \A l \in 1 .. 1 - 1 : new[l] = old[l]
    OBVIOUS
  <2> QED
    BY <1>1, <1>2, <2>1 DEF Descends
<1>3. CASE w = a /\ x < b
  <2>1. \A l \in 1 .. 2 - 1 : new[l] = old[l]
    BY <1>1, <1>3
  <2> QED
    BY <1>1, <1>3, <2>1 DEF Descends
<1>4. CASE w = a /\ x = b /\ y < c
  <2>1. \A l \in 1 .. 3 - 1 : new[l] = old[l]
    BY <1>1, <1>4
  <2>2. new[3] < old[3] /\ 3 \in 1 .. Len(old)
    BY <1>1, <1>4
  <2> QED
    BY <1>1, <2>1, <2>2 DEF Descends
<1>5. CASE w = a /\ x = b /\ y = c /\ z < d
  <2>1. \A l \in 1 .. 4 - 1 : new[l] = old[l]
    BY <1>1, <1>5
  <2>2. new[4] < old[4] /\ 4 \in 1 .. Len(old)
    BY <1>1, <1>5
  <2> QED
    BY <1>1, <2>1, <2>2 DEF Descends
<1> QED
  BY <1>2, <1>3, <1>4, <1>5
\* Each loop keeps to its limit.
LEMMA LimitsKeptNext ==
  ASSUME SearchInv, SearchInv', LayoutInv, LimitsKept, [Next]_vars
  PROVE  LimitsKept'
<1>0. /\ kernel \in Kernels /\ Len(kernel.mounts) \in Nat /\ Word \in Nat /\ 0 < Word
      /\ {MaxSlots, MountSize, MaxVfsSlots} \subseteq Nat
      /\ \A m \in 1 .. Len(kernel.mounts) : kernel.mounts[m] \in Nat
      /\ mnt \in Nat \ {0} /\ word \in Nat /\ i \in Nat
  <2>1. kernel \in Kernels /\ mnt \in Nat \ {0} /\ word \in Nat /\ i \in Nat
    BY DEF SearchInv, TypeOK, ReadInv
  <2>2. kernel.mounts \in Seq(Nat)
    BY <2>1, KernelsAssumption
  <2> QED
    BY <2>1, <2>2, Sizes, WordAssumption, SMTT(40)
<1>1. CASE \/ FltRegisterFakeFsd \/ FltFakeFsdCreateVnode \/ Forward \/ ForwardEnd
           \/ BackwardEnd \/ ScanEnd
  <2>1. pc \in Early /\ pc' \in (Early \ {"scan"}) \cup {"clean1"} /\ mnt' = mnt
    BY <1>1 DEF FltRegisterFakeFsd, FltFakeFsdCreateVnode, Forward, ForwardEnd, BackwardEnd,
                ScanEnd, Fail, mountVars, Early
  <2> QED
    BY <2>1 DEF LimitsKept, Early
<1>2. CASE Backward
  <2>1. /\ pc \in Early /\ pc' \in {"backward", "scan"} /\ mnt' = mnt
        /\ pc' = "scan" => i' = 0
    BY <1>2 DEF Backward, mountVars, Early
  <2> QED
    BY <1>0, <2>1 DEF LimitsKept, Early
<1>3. CASE ScanSlot
  <2>1. /\ pc = "scan" /\ pc' \in {"scan", "mounts"} /\ mnt' = mnt /\ kernel' = kernel
        /\ i < MaxSlots /\ (pc' = "scan" => i' = i + 1)
    BY <1>3 DEF ScanSlot, InVector, mountVars
  <2> QED
    BY <1>0, <2>1 DEF LimitsKept, Early
<1>4. CASE NextMount
  <2>1. pc' = "mount" /\ word' = kernel.mounts[mnt] /\ mnt' = mnt /\ kernel' = kernel
    BY <1>4 DEF NextMount
  <2>2. mnt \in 1 .. Len(kernel.mounts)
    BY <1>0, <1>4 DEF NextMount
  <2>3. word' < kernel'.mounts[mnt'] + MountSize + Word
    BY <1>0, <2>1, <2>2
  <2> QED
    BY <2>1, <2>3 DEF LimitsKept, Early
<1>5. CASE MountWord
  <2>1. /\ pc' \in {"mount", "vfs"} /\ mnt' = mnt /\ kernel' = kernel
        /\ word < kernel.mounts[mnt] + MountSize
        /\ pc' = "mount" => word' = word + Word
        /\ pc' = "vfs" => i' = 0
    BY <1>5 DEF MountWord, InMount
  <2>2. kernel.mounts[mnt] \in Nat
    BY <1>0, <1>5 DEF MountWord, SearchInv, ReadInv
  <2>3. pc' = "mount" => word' < kernel'.mounts[mnt'] + MountSize + Word
    BY <1>0, <2>1, <2>2
  <2> QED
    BY <1>0, <2>1, <2>3 DEF LimitsKept, Early
<1>6. CASE MountEnd
  <2>1. pc = "mount" /\ pc' = "mounts" /\ mnt' = mnt + 1 /\ kernel' = kernel
    BY <1>6 DEF MountEnd
  <2>2. mnt <= Len(kernel.mounts)
    BY <2>1 DEF SearchInv, ReadInv
  <2> QED
    BY <1>0, <2>1, <2>2 DEF LimitsKept, Early
<1>7. CASE VfsSlot
  <2>1. /\ pc' \in {"vfs", "clean1"} /\ i < MaxVfsSlots
        /\ pc' = "vfs" => i' = i + 1
    BY <1>7 DEF VfsSlot, InVfsOps
  <2> QED
    BY <1>0, <2>1 DEF LimitsKept, Early
<1>8. CASE VfsEnd
  <2>1. /\ pc = "vfs" /\ pc' = "mount" /\ mnt' = mnt /\ kernel' = kernel
        /\ word' = word + Word
    BY <1>8 DEF VfsEnd
  <2>2. word < kernel.mounts[mnt] + MountSize
    BY <2>1 DEF LayoutInv
  <2>3. kernel.mounts[mnt] \in Nat
    BY <1>0, <2>1 DEF SearchInv, ReadInv
  <2>4. word' < kernel'.mounts[mnt'] + MountSize + Word
    BY <1>0, <2>1, <2>2, <2>3
  <2> QED
    BY <2>1, <2>4 DEF LimitsKept, Early
<1>9. CASE NoMount \/ Clean1 \/ Clean2 \/ FltUnRegisterFakeFsd
  <2>1. pc' \in Ending
    BY <1>9 DEF NoMount, Clean1, Clean2, Clean, FltUnRegisterFakeFsd, Fail, Ending
  <2> QED
    BY <2>1 DEF LimitsKept, Early, Ending
<1>10. CASE UNCHANGED vars
  BY <1>10 DEF vars, slotVars, mountVars, LimitsKept
<1> QED
  BY <1>1, <1>2, <1>3, <1>4, <1>5, <1>6, <1>7, <1>8, <1>9, <1>10 DEF Next

\* An earlier stage leaves more.
LEMMA Later ==
  ASSUME NEW a \in Nat, NEW b \in Nat, NEW c \in Nat, NEW d \in Nat,
         NEW w \in Nat, NEW x \in Nat, NEW y \in Nat, NEW z \in Nat, w < a,
         NEW old, old = <<a, b, c, d>>, NEW new, new = <<w, x, y, z>>
  PROVE  Descends(new, old)
  BY Fewer

\* What is left is a tuple of natural numbers.
LeftIsNat ==
    /\ pc = "create" => 2 - Len(nodes) \in Nat
    /\ pc = "forward" => PageSize - size \in Nat
    /\ pc \in {"backward", "scan"} => vopOffset \in Nat
    /\ pc = "scan" => MaxSlots + 1 - i \in Nat \ {0}
    /\ pc \in {"mounts", "mount", "vfs"} => MountsLeft \in Nat
    /\ pc \in {"mount", "vfs"} => WordsLeft \in 0 .. MountSize + Word
    /\ pc = "vfs" => MaxVfsSlots + 1 - i \in 0 .. MaxVfsSlots + 1
    /\ MountSize + Word + 1 \in Nat /\ MaxVfsSlots + 2 \in Nat

\* It is as long as the limits are kept.
LEMMA LeftNat == SearchInv /\ LayoutInv /\ LimitsKept => LeftIsNat
<1> SUFFICES ASSUME SearchInv, LayoutInv, LimitsKept PROVE LeftIsNat
  OBVIOUS
<1>0. /\ kernel \in Kernels /\ Len(kernel.mounts) \in Nat /\ Word \in Nat /\ 0 < Word
      /\ {MaxSlots, MountSize, MaxVfsSlots, PageSize} \subseteq Nat
      /\ mnt \in Nat \ {0} /\ {word, i, size, vopOffset} \subseteq Nat
  <2>1. kernel \in Kernels /\ mnt \in Nat \ {0} /\ {word, i, size, vopOffset} \subseteq Nat
    BY DEF SearchInv, TypeOK, ReadInv
  <2>2. kernel.mounts \in Seq(Nat)
    BY <2>1, KernelsAssumption
  <2> QED
    BY <2>1, <2>2, Sizes, WordAssumption
<1>1. pc = "create" => 2 - Len(nodes) \in Nat
  BY DEF SearchInv, VnodesLeft
<1>2. pc = "forward" => PageSize - size \in Nat
  BY <1>0 DEF LayoutInv
<1>3. pc = "scan" => MaxSlots + 1 - i \in Nat \ {0}
  BY <1>0 DEF LimitsKept
<1>4. pc \in {"mount", "vfs"} => mnt \in 1 .. Len(kernel.mounts)
  BY <1>0 DEF SearchInv, ReadInv
<1>5. pc \in {"mounts", "mount", "vfs"} => MountsLeft \in Nat
  BY <1>0, <1>4 DEF LimitsKept, MountsLeft
<1>6. pc \in {"mount", "vfs"} => WordsLeft \in 0 .. MountSize + Word
  <2> SUFFICES ASSUME pc \in {"mount", "vfs"} PROVE WordsLeft \in 0 .. MountSize + Word
    OBVIOUS
  <2> DEFINE base == kernel.mounts[mnt]
  <2>1. base \in Nat
    BY <1>0, <1>4, ObjectsNat
  <2>2. word >= base
    BY DEF SearchInv, Together
  <2>3. word < base + MountSize + Word \/ word < base + MountSize
    BY DEF LimitsKept, LayoutInv
  <2>4. word \in Nat /\ MountSize \in Nat /\ Word \in Nat
    BY <1>0
  <2>5. WordsLeft = base + MountSize + Word - word
    BY DEF WordsLeft
  <2> HIDE DEF base
  <2> QED
    BY ONLY <2>1, <2>2, <2>3, <2>4, <2>5
<1>7. pc = "vfs" => MaxVfsSlots + 1 - i \in 0 .. MaxVfsSlots + 1
  BY <1>0 DEF LimitsKept
<1> QED
  BY <1>0, <1>1, <1>2, <1>3, <1>5, <1>6, <1>7, SMTT(40) DEF LeftIsNat

\* The steps of the fake file system leave an earlier stage behind.
LEMMA FakeDescends ==
  ASSUME SearchInv, SearchInv', LeftIsNat, LeftIsNat',
         \/ FltRegisterFakeFsd \/ FltFakeFsdCreateVnode \/ Clean1 \/ Clean2
         \/ FltUnRegisterFakeFsd
  PROVE  Descends(SearchLeft', SearchLeft)
<1>1. CASE FltRegisterFakeFsd
  <2>1. pc = "register" /\ pc' \in {"create", "clean1"}
    BY <1>1 DEF FltRegisterFakeFsd, Fail
  <2>2. SearchLeft = <<8, 0, 0, 0>>
    BY <2>1 DEF SearchLeft
  <2>3. CASE pc' = "create"
    <3>1. PICK n \in Nat : SearchLeft' = <<7, n, 0, 0>>
      BY <2>3 DEF SearchLeft, LeftIsNat
    <3> QED
      BY <2>2, <3>1, Fewer, SMTT(40)
  <2>4. CASE pc' = "clean1"
    <3>1. SearchLeft' = <<3, 0, 0, 0>>
      BY <2>4 DEF SearchLeft
    <3> QED
      BY <2>2, <3>1, Fewer
  <2> QED
    BY <2>1, <2>3, <2>4
<1>2. CASE FltFakeFsdCreateVnode
  <2>1. pc = "create" /\ pc' \in {"create", "forward", "clean1"}
    BY <1>2 DEF FltFakeFsdCreateVnode, Fail
  <2>2. SearchLeft = <<7, 2 - Len(nodes), 0, 0>> /\ 2 - Len(nodes) \in Nat
    BY <2>1 DEF SearchLeft, LeftIsNat
  <2>3. CASE pc' = "create"
    <3>1. SearchLeft' = <<7, 2 - Len(nodes'), 0, 0>> /\ 2 - Len(nodes') \in Nat
      BY <2>3 DEF SearchLeft, LeftIsNat
    <3>2. 2 - Len(nodes') < 2 - Len(nodes)
      <4>1. nodes' = Append(nodes, Len(nodes) + 1)
        BY <1>2, <2>3 DEF FltFakeFsdCreateVnode, Fail
      <4>2. nodes \in Seq(Nat) /\ Len(nodes) \in Nat
        BY DEF SearchInv, VnodesLeft
      <4> QED
        BY <4>1, <4>2
    <3> QED
      BY <2>2, <3>1, <3>2, Fewer
  <2>4. CASE pc' = "forward"
    <3>1. PICK n \in Nat : SearchLeft' = <<6, n, 0, 0>>
      BY <2>4 DEF SearchLeft, LeftIsNat
    <3>2. PICK m \in Nat : SearchLeft = <<7, m, 0, 0>>
      BY <2>2
    <3>3. 0 \in Nat /\ 6 \in Nat /\ 7 \in Nat /\ 6 < 7
      OBVIOUS
    <3> QED
      BY ONLY <3>1, <3>2, <3>3, Later, Zenon
  <2>5. CASE pc' = "clean1"
    <3>1. SearchLeft' = <<3, 0, 0, 0>>
      BY <2>5 DEF SearchLeft
    <3> QED
      BY <2>2, <3>1, Fewer, SMTT(40)
  <2> QED
    BY <2>1, <2>3, <2>4, <2>5
<1>3. CASE Clean1
  <2>1. SearchLeft = <<3, 0, 0, 0>> /\ SearchLeft' = <<2, 0, 0, 0>>
    BY <1>3 DEF Clean1, Clean, SearchLeft
  <2> QED
    BY <2>1, Fewer
<1>4. CASE Clean2
  <2>1. SearchLeft = <<2, 0, 0, 0>> /\ SearchLeft' = <<1, 0, 0, 0>>
    BY <1>4 DEF Clean2, Clean, SearchLeft
  <2> QED
    BY <2>1, Fewer
<1>5. CASE FltUnRegisterFakeFsd
  <2>1. SearchLeft = <<1, 0, 0, 0>> /\ SearchLeft' = <<0, 0, 0, 0>>
    BY <1>5 DEF FltUnRegisterFakeFsd, SearchLeft
  <2> QED
    BY <2>1, Fewer
<1> QED
  BY <1>1, <1>2, <1>3, <1>4, <1>5

\* The walk to v_data and back gets shorter, and so does each vector.
LEMMA VnodeDescends ==
  ASSUME SearchInv, SearchInv', LeftIsNat, LeftIsNat',
         Forward \/ ForwardEnd \/ Backward \/ BackwardEnd \/ ScanSlot \/ ScanEnd
  PROVE  Descends(SearchLeft', SearchLeft)
<1>0. Word \in Nat /\ 0 < Word /\ size \in Nat /\ vopOffset \in Nat /\ i \in Nat
  BY Sizes DEF SearchInv, TypeOK
<1>1. CASE pc' = "clean1"
  <2>1. SearchLeft' = <<3, 0, 0, 0>>
    BY <1>1 DEF SearchLeft
  <2>2. pc \in {"forward", "backward"}
    BY <1>1 DEF Forward, ForwardEnd, Backward, BackwardEnd, ScanSlot, ScanEnd
  <2>3. CASE pc = "forward"
    <3>1. PICK n \in Nat : SearchLeft = <<6, n, 0, 0>>
      BY <2>3 DEF SearchLeft, LeftIsNat
    <3> QED
      BY <2>1, <3>1, Fewer, SMTT(40)
  <2>4. CASE pc = "backward"
    <3>1. SearchLeft = <<5, vopOffset, 0, 0>> /\ vopOffset \in Nat
      BY <2>4 DEF SearchLeft, LeftIsNat
    <3> QED
      BY <2>1, <3>1, Fewer
  <2> QED
    BY <2>2, <2>3, <2>4
<1>2. CASE Forward /\ pc' # "clean1"
  <2>1. pc = "forward" /\ pc' = "forward" /\ size' = size + Word
    BY <1>2 DEF Forward, Fail
  <2>2. /\ SearchLeft = <<6, PageSize - size, 0, 0>> /\ PageSize - size \in Nat
        /\ SearchLeft' = <<6, PageSize - size', 0, 0>> /\ PageSize - size' \in Nat
    BY <2>1 DEF SearchLeft, LeftIsNat
  <2>3. PageSize - size' < PageSize - size
    BY <1>0, <2>1, Sizes
  <2> QED
    BY <2>2, <2>3, Fewer
<1>3. CASE ForwardEnd /\ pc' # "clean1"
  <2>1. pc = "forward" /\ pc' = "backward"
    BY <1>3 DEF ForwardEnd, Fail
  <2>2. PICK n \in Nat : SearchLeft = <<6, n, 0, 0>>
    BY <2>1 DEF SearchLeft, LeftIsNat
  <2>3. SearchLeft' = <<5, vopOffset', 0, 0>> /\ vopOffset' \in Nat
    BY <2>1 DEF SearchLeft, LeftIsNat
  <2>4. 0 \in Nat /\ 5 \in Nat /\ 6 \in Nat /\ 5 < 6
    OBVIOUS
  <2> QED
    BY ONLY <2>2, <2>3, <2>4, Later, Zenon
<1>4. CASE Backward
  <2>1. /\ pc = "backward" /\ pc' \in {"backward", "scan"}
        /\ vopOffset' = vopOffset - Word
    BY <1>4 DEF Backward
  <2>2. /\ SearchLeft = <<5, vopOffset, 0, 0>>
        /\ vopOffset \in Nat /\ vopOffset' \in Nat /\ vopOffset' < vopOffset
    BY <1>0, <2>1 DEF SearchLeft, LeftIsNat
  <2>3. CASE pc' = "backward"
    <3>1. SearchLeft' = <<5, vopOffset', 0, 0>>
      BY <2>3 DEF SearchLeft
    <3> QED
      BY <2>2, <3>1, Fewer
  <2>4. CASE pc' = "scan"
    <3>1. SearchLeft' = <<5, vopOffset', 0, MaxSlots + 1 - i'>> /\ MaxSlots + 1 - i' \in Nat
      BY <2>4 DEF SearchLeft, LeftIsNat
    <3> QED
      BY <2>2, <3>1, Fewer
  <2> QED
    BY <2>1, <2>3, <2>4
<1>5. CASE ScanSlot
  <2>1. /\ pc = "scan" /\ pc' \in {"scan", "mounts"} /\ vopOffset' = vopOffset
    BY <1>5 DEF ScanSlot, ptrVars
  <2>2. /\ SearchLeft = <<5, vopOffset, 0, MaxSlots + 1 - i>>
        /\ vopOffset \in Nat /\ MaxSlots + 1 - i \in Nat
    BY <2>1 DEF SearchLeft, LeftIsNat
  <2>3. CASE pc' = "scan"
    <3>1. SearchLeft' = <<5, vopOffset, 0, MaxSlots + 1 - i'>> /\ MaxSlots + 1 - i' \in Nat
      BY <2>1, <2>3 DEF SearchLeft, LeftIsNat
    <3>2. i' = i + 1
      BY <1>5, <2>3 DEF ScanSlot
    <3>3. MaxSlots + 1 - i' < MaxSlots + 1 - i
      BY <1>0, <3>2, WordAssumption
    <3> QED
      BY <2>2, <3>1, <3>3, Fewer
  <2>4. CASE pc' = "mounts"
    <3>1. PICK m \in Nat, n \in Nat : SearchLeft' = <<4, m, n, 0>>
      BY <2>4 DEF SearchLeft, LeftIsNat
    <3>2. PICK n1 \in Nat : SearchLeft = <<5, vopOffset, 0, n1>>
      BY <2>2
    <3>3. 0 \in Nat /\ 4 \in Nat /\ 5 \in Nat /\ 4 < 5
      OBVIOUS
    <3> QED
      BY ONLY <2>2, <3>1, <3>2, <3>3, Later, Zenon
  <2> QED
    BY <2>1, <2>3, <2>4
<1>6. CASE ScanEnd
  <2>1. pc = "scan" /\ pc' = "backward" /\ vopOffset' = vopOffset
    BY <1>6 DEF ScanEnd, ptrVars
  <2>2. /\ SearchLeft = <<5, vopOffset, 0, MaxSlots + 1 - i>>
        /\ vopOffset \in Nat /\ MaxSlots + 1 - i \in Nat \ {0}
        /\ SearchLeft' = <<5, vopOffset, 0, 0>>
    BY <2>1 DEF SearchLeft, LeftIsNat
  <2>3. 0 < MaxSlots + 1 - i
    BY <2>2
  <2> QED
    BY <2>2, <2>3, Fewer
<1>7. CASE BackwardEnd
  BY <1>1, <1>7 DEF BackwardEnd, Fail
<1> QED
  BY <1>1, <1>2, <1>3, <1>4, <1>5, <1>6, <1>7

\* The mount that is searched is at a natural number.
LEMMA MountNat ==
  ASSUME SearchInv, pc \in {"mount", "vfs"}
  PROVE  kernel.mounts[mnt] \in Nat
<1>1. kernel \in Kernels /\ mnt \in Nat \ {0} /\ mnt <= Len(kernel.mounts)
  BY DEF SearchInv, ReadInv
<1>2. kernel.mounts \in Seq(Nat)
  BY <1>1, KernelsAssumption
<1> QED
  BY <1>1, <1>2

\* The mounts, the words of each and the slots of a table get fewer.
LEMMA MountDescends ==
  ASSUME SearchInv, SearchInv', LeftIsNat, LeftIsNat',
         NextMount \/ NoMount \/ MountWord \/ MountEnd \/ VfsSlot \/ VfsEnd
  PROVE  Descends(SearchLeft', SearchLeft)
<1> DEFINE all == MountSize + Word + 1
           slots == MaxVfsSlots + 2
<1>0. /\ Word \in Nat /\ 0 < Word /\ MountSize \in Nat /\ MaxVfsSlots \in Nat
      /\ all \in Nat /\ slots \in Nat /\ mnt \in Nat /\ word \in Nat /\ i \in Nat
      /\ Len(kernel.mounts) \in Nat
  <2>1. kernel.mounts \in Seq(Nat)
    BY KernelsAssumption DEF SearchInv, TypeOK
  <2>2. MountSize \in Nat /\ MaxVfsSlots \in Nat
    BY WordAssumption
  <2>3. mnt \in Nat /\ word \in Nat /\ i \in Nat
    BY DEF SearchInv, TypeOK
  <2>4. Word \in Nat /\ 0 < Word
    BY Sizes
  <2> QED
    BY <2>1, <2>2, <2>3, <2>4
<1>1. CASE NextMount
  <2>1. pc = "mounts" /\ pc' = "mount" /\ mnt' = mnt /\ kernel' = kernel
    BY <1>1 DEF NextMount
  <2>2. SearchLeft = <<4, MountsLeft, all, 0>> /\ MountsLeft \in Nat
    BY <2>1 DEF SearchLeft, LeftIsNat
  <2>3. /\ SearchLeft' = <<4, MountsLeft', WordsLeft', slots>>
        /\ WordsLeft' \in 0 .. MountSize + Word
    BY <2>1 DEF SearchLeft, LeftIsNat
  <2>4. MountsLeft' = MountsLeft
    BY <2>1 DEF MountsLeft
  <2>5. WordsLeft' < all /\ WordsLeft' \in Nat
    BY <1>0, <2>3
  <2> QED
    BY <1>0, <2>2, <2>3, <2>4, <2>5, Fewer
<1>2. CASE NoMount
  <2>1. pc = "mounts" /\ pc' = "clean1"
    BY <1>2 DEF NoMount, Fail
  <2>2. SearchLeft = <<4, MountsLeft, all, 0>> /\ MountsLeft \in Nat
    BY <2>1 DEF SearchLeft, LeftIsNat
  <2>3. SearchLeft' = <<3, 0, 0, 0>>
    BY <2>1 DEF SearchLeft
  <2> QED
    BY <1>0, <2>2, <2>3, Fewer
<1>3. CASE MountWord
  <2>1. pc = "mount" /\ pc' \in {"mount", "vfs"} /\ mnt' = mnt /\ kernel' = kernel
    BY <1>3 DEF MountWord
  <2>2. /\ SearchLeft = <<4, MountsLeft, WordsLeft, slots>> /\ MountsLeft \in Nat
        /\ WordsLeft \in Nat
    BY <1>0, <2>1 DEF SearchLeft, LeftIsNat
  <2>3. MountsLeft' = MountsLeft
    BY <2>1 DEF MountsLeft
  <2>4. CASE pc' = "mount"
    <3>1. /\ SearchLeft' = <<4, MountsLeft', WordsLeft', slots>> /\ WordsLeft' \in Nat
      BY <1>0, <2>4 DEF SearchLeft, LeftIsNat
    <3>2. WordsLeft' < WordsLeft
      <4>1. word' = word + Word
        BY <1>3, <2>4 DEF MountWord
      <4>2. kernel.mounts[mnt] \in Nat
        BY <2>1, MountNat
      <4> QED
        BY <1>0, <2>1, <4>1, <4>2 DEF WordsLeft
    <3> QED
      BY <1>0, <2>2, <2>3, <3>1, <3>2, Fewer
  <2>5. CASE pc' = "vfs"
    <3>1. /\ SearchLeft' = <<4, MountsLeft', WordsLeft', MaxVfsSlots + 1 - i'>>
          /\ MaxVfsSlots + 1 - i' \in 0 .. MaxVfsSlots + 1
      BY <2>5 DEF SearchLeft, LeftIsNat
    <3>2. WordsLeft' = WordsLeft
      BY <1>3, <2>1, <2>5 DEF MountWord, WordsLeft
    <3>3. MaxVfsSlots + 1 - i' \in Nat /\ MaxVfsSlots + 1 - i' < slots
      BY <1>0, <3>1
    <3> QED
      BY <1>0, <2>2, <2>3, <3>1, <3>2, <3>3, Fewer
  <2> QED
    BY <2>1, <2>4, <2>5
<1>4. CASE MountEnd
  <2>1. pc = "mount" /\ pc' = "mounts" /\ mnt' = mnt + 1 /\ kernel' = kernel
    BY <1>4 DEF MountEnd
  <2>2. /\ SearchLeft = <<4, MountsLeft, WordsLeft, slots>> /\ MountsLeft \in Nat
        /\ WordsLeft \in Nat
    BY <1>0, <2>1 DEF SearchLeft, LeftIsNat
  <2>3. SearchLeft' = <<4, MountsLeft', all, 0>> /\ MountsLeft' \in Nat
    BY <2>1 DEF SearchLeft, LeftIsNat
  <2>4. MountsLeft' < MountsLeft
    <3> DEFINE n == Len(kernel.mounts)
    <3>1. MountsLeft = n + 1 - mnt /\ MountsLeft' = n + 1 - mnt'
      BY <2>1 DEF MountsLeft
    <3> HIDE DEF n
    <3>2. n \in Nat /\ mnt \in Nat /\ mnt' = mnt + 1
      BY <1>0, <2>1 DEF n
    <3> QED
      BY ONLY <3>1, <3>2
  <2> QED
    BY <1>0, <2>2, <2>3, <2>4, Fewer
<1>5. CASE VfsSlot
  <2>1. /\ pc = "vfs" /\ pc' \in {"vfs", "clean1"} /\ mnt' = mnt /\ kernel' = kernel
        /\ word' = word
    BY <1>5 DEF VfsSlot
  <2>2. /\ SearchLeft = <<4, MountsLeft, WordsLeft, MaxVfsSlots + 1 - i>>
        /\ MountsLeft \in Nat /\ WordsLeft \in Nat /\ MaxVfsSlots + 1 - i \in Nat
    BY <1>0, <2>1 DEF SearchLeft, LeftIsNat
  <2>3. CASE pc' = "vfs"
    <3>1. /\ SearchLeft' = <<4, MountsLeft', WordsLeft', MaxVfsSlots + 1 - i'>>
          /\ MaxVfsSlots + 1 - i' \in Nat
      BY <1>0, <2>3 DEF SearchLeft, LeftIsNat
    <3>2. MountsLeft' = MountsLeft /\ WordsLeft' = WordsLeft
      BY <2>1 DEF MountsLeft, WordsLeft
    <3>3. i' = i + 1
      BY <1>5, <2>3 DEF VfsSlot
    <3>4. MaxVfsSlots + 1 - i' < MaxVfsSlots + 1 - i
      BY <1>0, <3>3
    <3> QED
      BY <2>2, <3>1, <3>2, <3>4, Fewer
  <2>4. CASE pc' = "clean1"
    <3>1. SearchLeft' = <<3, 0, 0, 0>>
      BY <2>4 DEF SearchLeft
    <3> QED
      BY <2>2, <3>1, Fewer, SMTT(40)
  <2> QED
    BY <2>1, <2>3, <2>4
<1>6. CASE VfsEnd
  <2>1. /\ pc = "vfs" /\ pc' = "mount" /\ mnt' = mnt /\ kernel' = kernel
        /\ word' = word + Word
    BY <1>6 DEF VfsEnd
  <2>2. /\ SearchLeft = <<4, MountsLeft, WordsLeft, MaxVfsSlots + 1 - i>>
        /\ MountsLeft \in Nat /\ WordsLeft \in Nat /\ MaxVfsSlots + 1 - i \in Nat
    BY <1>0, <2>1 DEF SearchLeft, LeftIsNat
  <2>3. SearchLeft' = <<4, MountsLeft', WordsLeft', slots>> /\ WordsLeft' \in Nat
    BY <1>0, <2>1 DEF SearchLeft, LeftIsNat
  <2>4. MountsLeft' = MountsLeft
    BY <2>1 DEF MountsLeft
  <2>5. WordsLeft' < WordsLeft
    <3>1. kernel.mounts[mnt] \in Nat
      BY <2>1, MountNat
    <3> QED
      BY <1>0, <2>1, <3>1 DEF WordsLeft
  <2> QED
    BY <1>0, <2>2, <2>3, <2>4, <2>5, Fewer
<1> QED
  BY <1>1, <1>2, <1>3, <1>4, <1>5, <1>6

\* FltFakeFSD.cpp, FltGetVnodeLayout and FltGetMountLayout: each turn of each
\* loop leaves less to do, whatever pointers are in memory, so that no search
\* goes on for ever.
THEOREM SearchIsBounded == Spec => SearchAdvances
<1>1. Init => LimitsKept
  BY DEF Init, LimitsKept, Early
<1>2. SearchInv /\ SearchInv' /\ LayoutInv /\ LimitsKept /\ [Next]_vars => LimitsKept'
  BY LimitsKeptNext
<1>3. SearchInv /\ SearchInv' /\ LeftIsNat /\ LeftIsNat' /\ [Next]_vars
        => [Descends(SearchLeft', SearchLeft)]_vars
  <2> SUFFICES ASSUME SearchInv, SearchInv', LeftIsNat, LeftIsNat', Next
               PROVE  Descends(SearchLeft', SearchLeft)
    OBVIOUS
  <2> QED
    BY FakeDescends, VnodeDescends, MountDescends DEF Next
<1> QED
  BY <1>1, <1>2, <1>3, LeftNat, LayoutInvariance, PTL DEF Spec, SearchAdvances
=============================================================================
