--------------------------- MODULE MCSocketStream ---------------------------
(* A buffer of two bytes, so that a transfer takes several chunks. *)
EXTENDS SocketStream
=============================================================================
