------------------------------ MODULE MCDriver ------------------------------
(* Two threads and two vectors, on the kernels of MCVnodeLayout.           *)
EXTENDS Driver, MCVnodeLayout
=============================================================================
