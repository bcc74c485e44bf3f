------------------------------- MODULE MCChunks -------------------------------
(* Chunks, scaled down: eight bytes to a chunk. *)
EXTENDS Chunks
=============================================================================
