------------------------------ MODULE FifoLock ------------------------------
(***************************************************************************)
(* What the two ticket locks of the kernel promise: spinlock_irqsave_t of  *)
(* kernel/sync.h and MUTEX of kernel/offload/mutex.h.  Clients stand in    *)
(* line; the head of the line is admitted, and leaves.                     *)
(***************************************************************************)
EXTENDS Sequences, Functions

CONSTANT Client

VARIABLES
    line,       \* the clients that asked for the lock, in order
    admitted    \* has the head of the line been let in?

Init == line = <<>> /\ admitted = FALSE

Arrive(p) ==
    /\ p \notin Range(line)
    /\ line' = Append(line, p)
    /\ UNCHANGED admitted

Admit ==
    /\ line # <<>>
    /\ ~ admitted
    /\ admitted' = TRUE
    /\ UNCHANGED line

Leave ==
    /\ admitted
    /\ line' = Tail(line)
    /\ admitted' = FALSE

Next == (\E p \in Client : Arrive(p)) \/ Admit \/ Leave

\* What the line promises at every moment ...
Safety == Init /\ [][Next]_<<line, admitted>>

\* ... and that it moves.
Spec ==
    /\ Safety
    /\ WF_<<line, admitted>>(Admit)
    /\ WF_<<line, admitted>>(Leave)

=============================================================================
