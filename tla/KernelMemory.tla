---------------------------- MODULE KernelMemory ----------------------------
(***************************************************************************)
(* Kernel virtual memory as VmPmap.cpp sees it: a map pmap from virtual    *)
(* pages to physical ones, in which 0 stands for a page without mapping.   *)
(***************************************************************************)
EXTENDS Integers

CONSTANTS PageSize  \* PAGE_SIZE
ASSUME PageSizeAssumption == PageSize \in Nat \ {0}

Page(a)   == a \div PageSize  \* trunc_page, as a page number
Offset(a) == a % PageSize     \* addr & INTEL_OFFMASK

\* pmap_find_phys
FindPhys(pmap, a) == IF Page(a) \in DOMAIN pmap THEN pmap[Page(a)] ELSE 0

\* The physical address of a, 0 if there is none.
FltVirtToPhys(pmap, a) ==
    IF FindPhys(pmap, a) = 0 THEN 0
    ELSE FindPhys(pmap, a) * PageSize + Offset(a)

IsMapped(pmap, a) == FltVirtToPhys(pmap, a) # 0
=============================================================================
