----------------------------- MODULE MCThreads -----------------------------
(* Small instances of Threads for TLC. *)
EXTENDS Threads, TLC

Symmetry == Permutations(Core) \cup Permutations(Thread)

=============================================================================
