------------------------- MODULE VnodeLayoutClaims -------------------------
(***************************************************************************)
(* What a comment in FltGetVnodeLayout says of the search, and the code    *)
(* does not do.                                                            *)
(***************************************************************************)
EXTENDS MCVnodeLayout

\* FltFakeFSD.cpp:2023: "if the offsets contain the equal values and the
\* value is a valid address then this is a good candidate for a v_op field":
\* what is searched as a vector is a word that both vnodes have.  The code
\* reads both words from the first vnode.
CandidatesAgree == pc = "scan" => Read(at1) = Read(at2)

\* Kernels in which a field between v_op and v_data leads to an object of its
\* own for each vnode.
OwnField(k, f) ==
    LET h == <<0, Vector, f, VData1>> IN
    [k EXCEPT !.words = NodeWords(k.node[2], [h EXCEPT ![3] = f + Word], VData2) @@ k.words]
PrivateKernels ==
    {OwnField(KernelOf(<<0, Vector, f, VData1>>, 3, 0, {}), f) :
        f \in {VfsOps, Vector + 2 * Word}}
=============================================================================
