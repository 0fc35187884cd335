--------------------------- MODULE MCHeapFreelist ---------------------------
(* A memory of up to five blocks, asked for data of two sizes. *)
EXTENDS HeapFreelist

MCRequests   == {1, 3}
MCAlignments == {1, 2}
=============================================================================
