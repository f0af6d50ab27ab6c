--------------------------- MODULE MCSharedQueue ---------------------------
(* A small instance of SharedQueue for TLC. *)
EXTENDS SharedQueue

=============================================================================
