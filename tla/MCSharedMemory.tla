-------------------------- MODULE MCSharedMemory --------------------------
(* A small instance of SharedMemory for TLC. *)
EXTENDS SharedMemory, TLC

Symmetry == Permutations(Thread) \cup Permutations(Key)

=============================================================================
