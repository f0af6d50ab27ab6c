---------------------------- MODULE TicketMutex ----------------------------
(***************************************************************************)
(* The ticket mutex of kernel/offload/mutex.c that guards the two queues   *)
(* of a console channel.  Its two counters are 32 bits wide and wrap;      *)
(* they are compared for equality only, so the mutex outlives the wrap as  *)
(* long as fewer threads than counter values contend for it.               *)
(***************************************************************************)
EXTENDS Integers, FiniteSets

CONSTANTS
    Thread,     \* the threads that use the mutex
    Modulus     \* the number of values of a counter, 2^32 in the code

ASSUME ModulusAssumption == Modulus \in Nat \ {0}
ASSUME ContendersAssumption == IsFiniteSet(Thread) /\ Cardinality(Thread) <= Modulus

VARIABLES
    request,    \* lock->u.s.request
    grant,      \* lock->u.s.grant
    t,          \* the local variable t of each thread
    pc          \* where each thread is

vars == <<request, grant, t, pc>>

Counter == 0 .. Modulus - 1

TypeOK ==
    /\ request \in Counter
    /\ grant \in Counter
    /\ t \in [Thread -> Counter]
    /\ pc \in [Thread -> {"out", "spin", "in", "unlock"}]

\* mutex_init
Init ==
    /\ request = 0
    /\ grant = 0
    /\ t = [p \in Thread |-> 0]
    /\ pc = [p \in Thread |-> "out"]

Inc(n) == (n + 1) % Modulus

\* Mutant: mutex_lock returns with its ticket, without the spin loop.
MutexLockNoWait(p) ==
    /\ pc[p] = "out"
    /\ t' = [t EXCEPT ![p] = request]
    /\ request' = Inc(request)
    /\ pc' = [pc EXCEPT ![p] = "in"]
    /\ UNCHANGED grant

\* t = __sync_fetch_and_add(&request, 1), which returns the old value.
MutexLock(p) ==
    /\ pc[p] = "out"
    /\ t' = [t EXCEPT ![p] = request]
    /\ request' = Inc(request)
    /\ pc' = [pc EXCEPT ![p] = "spin"]
    /\ UNCHANGED grant

\* The spin loop ends.
MutexEnter(p) ==
    /\ pc[p] = "spin"
    /\ grant = t[p]
    /\ pc' = [pc EXCEPT ![p] = "in"]
    /\ UNCHANGED <<request, grant, t>>

\* grant++ is a load, t here again holding what was loaded, and a store.
UnlockLoad(p) ==
    /\ pc[p] = "in"
    /\ t' = [t EXCEPT ![p] = grant]
    /\ pc' = [pc EXCEPT ![p] = "unlock"]
    /\ UNCHANGED <<request, grant>>

UnlockStore(p) ==
    /\ pc[p] = "unlock"
    /\ grant' = Inc(t[p])
    /\ pc' = [pc EXCEPT ![p] = "out"]
    /\ UNCHANGED <<request, t>>

Next ==
    \E p \in Thread :
        MutexLock(p) \/ MutexEnter(p) \/ UnlockLoad(p) \/ UnlockStore(p)

Spec == Init /\ [][Next]_vars

\* Threads execute; nobody has to call mutex_lock.
FairSpec ==
    Spec /\ \A p \in Thread :
                WF_vars(MutexEnter(p) \/ UnlockLoad(p) \/ UnlockStore(p))

-----------------------------------------------------------------------------
(* Properties *)

Inside(p) == pc[p] \in {"in", "unlock"}

\* The threads that hold a ticket, and how many tickets each is from its turn.
Waiting == {p \in Thread : pc[p] # "out"}

Distance(p) == (t[p] - grant) % Modulus

\* The tickets in use are those from grant up to request, wrapped, one thread
\* each; who is inside holds the first.
TicketsInOrder ==
    LET n == Cardinality(Waiting) IN
    /\ request = (grant + n) % Modulus
    /\ \A p \in Waiting : Distance(p) < n
    /\ \A p, q \in Waiting : t[p] = t[q] => p = q
    /\ \A i \in 0 .. n - 1 : \E p \in Waiting : Distance(p) = i
    /\ \A p \in Thread : Inside(p) => t[p] = grant

MutexInv == TypeOK /\ TicketsInOrder

\* The threads that hold a ticket, oldest first.
Line == [i \in 1 .. Cardinality(Waiting) |-> CHOOSE p \in Waiting : Distance(p) = i - 1]

Admitted == \E p \in Thread : Inside(p)

Fifo == INSTANCE FifoLock WITH Client <- Thread, line <- Line, admitted <- Admitted

\* The mutex is a FIFO lock: nobody is admitted out of turn, before or after a
\* wrap, and everyone who asks is admitted.
ImplementsFifoLock == Fifo!Spec

=============================================================================
