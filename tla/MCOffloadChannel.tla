-------------------------- MODULE MCOffloadChannel --------------------------
(* Small instances of OffloadChannel for TLC. *)
EXTENDS OffloadChannel

\* A file call and a socket call.
FileAndSocket ==
    {[fun |-> "read", arg |-> <<3, Address("user", "x"), 2>>],
     [fun |-> "accept", arg |-> <<3, Address("user", "x"), Address("kernel", "y")>>]}

=============================================================================
