----------------------------- MODULE WiredCopy -----------------------------
(***************************************************************************)
(* FltWriteWiredSrcToWiredDst: a copy through physical addresses, which    *)
(* the driver uses to write hooks into read-only operation vectors.  The   *)
(* loop copies a chunk at a time, none of which crosses a page of the      *)
(* source or of the destination.                                           *)
(***************************************************************************)
EXTENDS KernelMemory

CONSTANTS
    Bytes,    \* what a byte may be
    Phys,     \* the physical addresses
    Memories, \* bound: the memory at a call, which is never looked at
    Requests  \* bound: arguments and page tables of the calls

\* A request is [src, dst, len, pmap].  Its pages are backed, and since the
\* caller gives wired memory that is mapped once, no byte is in both ranges
\* or twice in the destination.
At(r, a) == FltVirtToPhys(r.pmap, a)
Legal(r) ==
    /\ r.src \in Nat /\ r.dst \in Nat /\ r.len \in Nat
    /\ r.pmap \in [DOMAIN r.pmap -> Nat]
    /\ \A j \in 0 .. r.len - 1 :
         /\ At(r, r.dst + j) # 0 => At(r, r.dst + j) \in Phys
         /\ At(r, r.src + j) # 0 => At(r, r.src + j) \in Phys
    /\ \A i, j \in 0 .. r.len - 1 : At(r, r.dst + j) # 0 =>
         /\ At(r, r.src + i) # At(r, r.dst + j)
         /\ At(r, r.dst + i) = At(r, r.dst + j) => i = j

ASSUME PhysAssumption == Phys \subseteq Nat /\ Memories \subseteq [Phys -> Bytes]
ASSUME RequestsAssumption == \A r \in Requests : Legal(r)

VARIABLES
    req,     \* the arguments src, dst and len, and the kernel's pmap
    curSrc,  \* cur_virt_src
    curDst,  \* cur_virt_dst
    resid,   \* bytes that are left
    mem,     \* physical memory
    old,     \* history: physical memory at the call
    bytes,   \* the result
    pc       \* "copy" or "done"

vars == <<req, curSrc, curDst, resid, mem, old, bytes, pc>>

Init ==
    /\ req \in Requests
    /\ curSrc = req.src /\ curDst = req.dst /\ resid = req.len
    /\ mem \in Memories /\ old = mem
    /\ bytes = 0 /\ pc = "copy"

Least(m, n) == IF m > n THEN n ELSE m

\* Mutant: the last byte of the page is left out.
LeftButOne(p) == PageSize - 1 - Offset(p)

Left(p) == PageSize - Offset(p)  \* the bytes up to the end of the page

\* Mutant: only the end of the source's page limits a chunk.
CountOfSource == Least(Left(At(req, curSrc)), resid)

\* Mutant: the rest of the pages is copied, whatever was asked for.
CountOfPages == Least(Left(At(req, curSrc)), Left(At(req, curDst)))

\* cnt: as many bytes as possible without crossing a page.
Count == Least(Least(Left(At(req, curSrc)), Left(At(req, curDst))), resid)

\* bcopy_phys
Copied(from, to, n) ==
    [a \in Phys |-> IF a \in to .. to + n - 1 THEN mem[from + (a - to)] ELSE mem[a]]

\* Mutant: the loop ends with the first page.
CanCopyOnce == resid = req.len /\ resid # 0 /\ At(req, curDst) # 0 /\ At(req, curSrc) # 0

\* The condition of the loop, and that neither of its breaks is taken.
CanCopy == resid # 0 /\ At(req, curDst) # 0 /\ At(req, curSrc) # 0

\* One turn of the loop.
CopyChunk ==
    /\ pc = "copy" /\ CanCopy
    /\ mem' = Copied(At(req, curSrc), At(req, curDst), Count)
    /\ curSrc' = curSrc + Count
    /\ curDst' = curDst + Count
    /\ resid'  = resid - Count
    /\ UNCHANGED <<req, old, bytes, pc>>

\* The loop ends, or breaks at a page that is not mapped.
Return ==
    /\ pc = "copy" /\ ~CanCopy
    /\ bytes' = req.len - resid
    /\ pc' = "done"
    /\ UNCHANGED <<req, curSrc, curDst, resid, mem, old>>

Next == CopyChunk \/ Return

Spec == Init /\ [][Next]_vars

-----------------------------------------------------------------------------

TypeOK ==
    /\ req \in Requests
    /\ curSrc \in Nat /\ curDst \in Nat
    /\ resid \in 0 .. req.len /\ bytes \in 0 .. req.len
    /\ {mem, old} \subseteq [Phys -> Bytes]
    /\ pc \in {"copy", "done"}

Done == req.len - resid

\* What has been copied is a prefix of the source, in its place, whatever
\* offsets the two have in their pages and wherever the pages lie; nothing
\* else has been written.
CopiesAPrefix ==
    /\ \A j \in 0 .. Done - 1 :
         /\ At(req, req.src + j) # 0 /\ At(req, req.dst + j) # 0
         /\ mem[At(req, req.dst + j)] = old[At(req, req.src + j)]
    /\ \A a \in Phys :
         (\A j \in 0 .. Done - 1 : a # At(req, req.dst + j)) => mem[a] = old[a]

\* The result is the length of the prefix; it is short only because the next
\* byte of the source or of the destination is not mapped.
ShortOnlyIfUnmapped ==
    pc = "done" =>
        /\ bytes = Done
        /\ bytes # req.len => \/ At(req, req.src + bytes) = 0
                              \/ At(req, req.dst + bytes) = 0

\* Each turn of the loop copies something, and up to the end of a page of the
\* source or of the destination if that is not all: so the loop ends, after
\* no more turns than the two ranges have pages.
ChunksAreLong ==
    [][ pc' = "copy" =>
          /\ resid' < resid
          /\ resid' = 0 \/ Offset(curSrc') = 0 \/ Offset(curDst') = 0 ]_vars

\* A slot of an operation vector, which lies in one page as an aligned
\* pointer does, is written by one bcopy_phys: no function is ever called
\* through half of a pointer.
InOnePage(a) == Offset(a) + req.len <= PageSize
WordAtOnce == InOnePage(req.src) /\ InOnePage(req.dst) => Done \in {0, req.len}
=============================================================================
