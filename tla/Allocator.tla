----------------------------- MODULE Allocator -----------------------------
(***************************************************************************)
(* What the memory allocator promises: a block that it hands out is a run  *)
(* of pages of the pool, it shares none with a block that is still in use, *)
(* and it stays in use, whole, until it is freed.                          *)
(***************************************************************************)
EXTENDS Naturals

CONSTANT Pages

VARIABLE blocks     \* the sets of pages that are in use

Init == blocks = {}

Alloc ==
    \E first \in 0 .. Pages - 1 : \E last \in first .. Pages - 1 :
        /\ \A b \in blocks : b \cap (first .. last) = {}
        /\ blocks' = blocks \cup {first .. last}

Free(b) == blocks' = blocks \ {b}

Next == Alloc \/ \E b \in blocks : Free(b)

Spec == Init /\ [][Next]_blocks

=============================================================================
