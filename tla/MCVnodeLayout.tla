--------------------------- MODULE MCVnodeLayout ---------------------------
(***************************************************************************)
(* Small kernels for the search: pages of four words, two fake operations. *)
(*   pages 1, 2   the first vnode      pages 3, 4   the second vnode       *)
(*   pages 5, 6   the operation vector of the fake file system             *)
(*   pages 8, 9   two mounts           page 10      the vfsops             *)
(*   page 12      code                                                     *)
(* Virtual addresses are physical ones.                                    *)
(***************************************************************************)
EXTENDS VnodeLayout, TLC

\* No addresses: (-1)-2, (-1)-4 and (-1), as in the code.
MCData1 == -3
MCData2 == -5
MCUnknown == -1

MCImpl == [op \in FakeOps |-> IF op = "lookup" THEN 96 ELSE 98]

\* The vector: vn_default_error first, lookup in the slot 1, reclaim in r.
Vector == 44
VectorWords(r) ==
    (Vector :> 100) @@ (Vector + Word :> 96) @@ (Vector + r * Word :> 98)

\* What a field between v_op and v_data may be: NULL, no address, the middle
\* of the vector, what lies before it, an address that is not aligned, the
\* last word of a page, a page without mapping, and the one that misleads the
\* search, so that v_op is not marked: all functions are seen from it.
Strays == {0, -7, Vector + 2 * Word, Vector - 2 * Word, Vector + 1, 2 * PageSize - Word, 56,
           Vector - Word}

\* The fields of a vnode up to v_data, which its last word holds.
Headers(stray) == {
    <<0, Vector, stray, VData1>>, <<Vector, stray, stray, VData1>>,
    <<Vector, VData1>>, <<VData1>>, <<0, stray, 0, 0>>}
OffsetOfVop(h) ==
    IF \E n \in DOMAIN h : h[n] = Vector
    THEN ((CHOOSE n \in DOMAIN h : h[n] = Vector) - 1) * Word ELSE 0

NodeWords(node, h, d) ==
    [a \in {node + (n - 1) * Word : n \in DOMAIN h} |->
        LET w == h[1 + (a - node) \div Word] IN IF w = VData1 THEN d ELSE w]

\* The first mount leads to a table with one function and one that is cut
\* off by the end of its page; the second one has a vfsops.
VfsOps == 10 * PageSize
MountWords(m) ==
    (64 :> 0) @@ (66 :> 86) @@ (68 :> 56) @@ (70 :> 0) @@
    (72 :> 0) @@ (74 :> m) @@ (76 :> VfsOps) @@ (78 :> 0) @@
    (VfsOps :> 96) @@ (VfsOps + Word :> 0) @@ (VfsOps + 2 * Word :> 100) @@
    (86 :> 102)

\* A header whose fields are hidden is searched to the end of the page, or
\* to a page that is not mapped.
MCPmap(gone) == [p \in (1 .. 12) \ ({7, 11} \cup gone) |-> p]

KernelOf(h, r, m, gone) ==
    [pmap |-> MCPmap(gone),
     words |-> NodeWords(12, h, VData1) @@ NodeWords(28, h, VData2)
               @@ VectorWords(r) @@ MountWords(m),
     node |-> <<12, 28>>, mounts |-> <<64, 72>>, code |-> {96, 98, 100, 102},
     vop |-> OffsetOfVop(h), vector |-> Vector, vfsops |-> VfsOps]

\* In some, a field of the second vnode that is the same as its data ends the
\* walk over both vnodes too early.
MCKernels ==
    UNION {{KernelOf(h, r, m, {}) : h \in Headers(s)} :
             s \in Strays, r \in {3, 6}, m \in {0, 102, VfsOps + Word}}
    \cup {KernelOf(h, 3, 0, {}) : h \in Headers(VData2)}
    \cup {KernelOf(<<0, 0>>, 3, 0, {p}) : p \in {2, 4}}
    \cup {KernelOf(<<Vector, VData1>>, 3, VfsOps, {10})}
=============================================================================
