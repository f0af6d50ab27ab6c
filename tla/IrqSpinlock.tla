---------------------------- MODULE IrqSpinlock ----------------------------
(***************************************************************************)
(* The recursive ticket spinlock of kernel/sync.h, spinlock_irqsave_t,     *)
(* together with the interrupt flag of every core (kernel/irq.h).          *)
(*                                                                         *)
(* A core runs a task and, while its interrupt flag is set, an interrupt   *)
(* handler may be pushed on top of the task.  Both call                    *)
(* spinlock_irqsave_lock and spinlock_irqsave_unlock on one lock.  The     *)
(* lock identifies its owner by core, not by task, so the only thing that  *)
(* keeps a handler out of the critical section of the task it interrupted  *)
(* is that the interrupt flag is clear for as long as the lock is held.    *)
(***************************************************************************)
EXTENDS Integers

CONSTANTS
    Core,       \* the cores of the unikernel
    NoCore,     \* the value -1 of lock->cid
    MaxDepth,   \* bound: how deep a context nests its lock calls
    MaxTicket   \* bound: no lock call begins once queue has reached it

ASSUME CoreAssumption == NoCore \notin Core
ASSUME BoundAssumption == MaxDepth \in Nat \ {0} /\ MaxTicket \in Nat

VARIABLES
    queue,      \* lock->queue: the last ticket drawn
    dequeue,    \* lock->dequeue: the ticket that may enter
    cid,        \* lock->cid: the owning core
    cnt,        \* lock->cnt: nesting of the owner
    flags,      \* lock->flags: the interrupt flag to restore
    irq,        \* the interrupt flag of each core
    handling,   \* is an interrupt handler running on the core?
    pc,         \* where each context is in lock() or unlock()
    ticket,     \* its local variable ticket
    saved,      \* its local variable flags
    depth,      \* lock calls it has not yet undone
    entry       \* history: the interrupt flag at its outermost lock call

lock == <<queue, dequeue, cid, cnt, flags>>
vars == <<queue, dequeue, cid, cnt, flags, irq, handling, pc, ticket, saved,
          depth, entry>>

Context == Core \X {"task", "irq"}

\* The context that executes on core c.
Active(c) == <<c, IF handling[c] THEN "irq" ELSE "task">>

TypeOK ==
    /\ queue \in Nat
    /\ dequeue \in Nat
    /\ cid \in Core \cup {NoCore}
    /\ cnt \in Int
    /\ flags \in BOOLEAN
    /\ irq \in [Core -> BOOLEAN]
    /\ handling \in [Core -> BOOLEAN]
    /\ pc \in [Context -> {"out", "check", "take", "spin", "own", "record",
                           "drop", "pass", "restore"}]
    /\ ticket \in [Context -> Nat]
    /\ saved \in [Context -> BOOLEAN]
    /\ depth \in [Context -> Nat]
    /\ entry \in [Context -> BOOLEAN]

\* spinlock_irqsave_init: the queue is empty and ticket 1 may enter.
Init ==
    /\ queue = 0
    /\ dequeue = 1
    /\ cid = NoCore
    /\ cnt = 0
    /\ flags = FALSE
    /\ irq = [c \in Core |-> TRUE]
    /\ handling = [c \in Core |-> FALSE]
    /\ pc = [x \in Context |-> "out"]
    /\ ticket = [x \in Context |-> 0]
    /\ saved = [x \in Context |-> FALSE]
    /\ depth = [x \in Context |-> 0]
    /\ entry = [x \in Context |-> FALSE]

Goto(x, from, to) == pc[x] = from /\ pc' = [pc EXCEPT ![x] = to]

-----------------------------------------------------------------------------
(* spinlock_irqsave_lock *)

\* The call, up to irq_nested_disable.  The bound on tickets is placed here, so
\* that a call that has begun can always finish.
Disable(c) ==
    LET x == Active(c) IN
    /\ depth[x] < MaxDepth
    /\ queue < MaxTicket
    /\ Goto(x, "out", "check")
    /\ saved' = [saved EXCEPT ![x] = irq[c]]
    /\ entry' = IF depth[x] = 0 THEN [entry EXCEPT ![x] = irq[c]] ELSE entry
    /\ irq' = [irq EXCEPT ![c] = FALSE]
    /\ UNCHANGED <<lock, handling, ticket, depth>>

\* Mutant: a nested call overwrites lock->flags as the outermost one does.
CheckSavesAgain(c) ==
    LET x == Active(c) IN
    \/ /\ cid = c
       /\ Goto(x, "check", "out")
       /\ cnt' = cnt + 1
       /\ flags' = saved[x]
       /\ depth' = [depth EXCEPT ![x] = @ + 1]
       /\ UNCHANGED <<queue, dequeue, cid, irq, handling, ticket, saved, entry>>
    \/ /\ cid # c
       /\ Goto(x, "check", "take")
       /\ UNCHANGED <<lock, irq, handling, ticket, saved, depth, entry>>

\* The recursion test: a core that owns the lock only counts.
Check(c) ==
    LET x == Active(c) IN
    \/ /\ cid = c
       /\ Goto(x, "check", "out")
       /\ cnt' = cnt + 1
       /\ depth' = [depth EXCEPT ![x] = @ + 1]
       /\ UNCHANGED <<queue, dequeue, cid, flags, irq, handling, ticket,
                      saved, entry>>
    \/ /\ cid # c
       /\ Goto(x, "check", "take")
       /\ UNCHANGED <<lock, irq, handling, ticket, saved, depth, entry>>

\* ticket = atomic64_inc(&lock->queue), which returns the new value.
TakeTicket(c) ==
    LET x == Active(c) IN
    /\ Goto(x, "take", "spin")
    /\ queue' = queue + 1
    /\ ticket' = [ticket EXCEPT ![x] = queue + 1]
    /\ UNCHANGED <<dequeue, cid, cnt, flags, irq, handling, saved, depth, entry>>

\* Mutant: a ticket that is not yet due may enter.
EnterAny(c) ==
    LET x == Active(c) IN
    /\ dequeue <= ticket[x]
    /\ Goto(x, "spin", "own")
    /\ UNCHANGED <<lock, irq, handling, ticket, saved, depth, entry>>

\* The spin loop ends.
Enter(c) ==
    LET x == Active(c) IN
    /\ dequeue = ticket[x]
    /\ Goto(x, "spin", "own")
    /\ UNCHANGED <<lock, irq, handling, ticket, saved, depth, entry>>

SetOwner(c) ==
    LET x == Active(c) IN
    /\ Goto(x, "own", "record")
    /\ cid' = c
    /\ UNCHANGED <<queue, dequeue, cnt, flags, irq, handling, ticket, saved,
                   depth, entry>>

Record(c) ==
    LET x == Active(c) IN
    /\ Goto(x, "record", "out")
    /\ flags' = saved[x]
    /\ cnt' = 1
    /\ depth' = [depth EXCEPT ![x] = 1]
    /\ UNCHANGED <<queue, dequeue, cid, irq, handling, ticket, saved, entry>>

-----------------------------------------------------------------------------
(* spinlock_irqsave_unlock, called by a context that has locked *)

\* Mutant: a nested unlock releases the lock.
CountDownOuter(c) ==
    LET x == Active(c) IN
    /\ depth[x] > 0
    /\ Goto(x, "out", "drop")
    /\ cnt' = cnt - 1
    /\ depth' = [depth EXCEPT ![x] = @ - 1]
    /\ UNCHANGED <<queue, dequeue, cid, flags, irq, handling, ticket, saved, entry>>

CountDown(c) ==
    LET x == Active(c) IN
    /\ depth[x] > 0
    /\ Goto(x, "out", IF cnt - 1 = 0 THEN "drop" ELSE "out")
    /\ cnt' = cnt - 1
    /\ depth' = [depth EXCEPT ![x] = @ - 1]
    /\ UNCHANGED <<queue, dequeue, cid, flags, irq, handling, ticket, saved,
                   entry>>

\* Mutant: lock->cid is not reset.
DropKeepsOwner(c) ==
    LET x == Active(c) IN
    /\ Goto(x, "drop", "pass")
    /\ saved' = [saved EXCEPT ![x] = flags]
    /\ flags' = FALSE
    /\ UNCHANGED <<queue, dequeue, cid, cnt, irq, handling, ticket, depth, entry>>

Drop(c) ==
    LET x == Active(c) IN
    /\ Goto(x, "drop", "pass")
    /\ saved' = [saved EXCEPT ![x] = flags]
    /\ cid' = NoCore
    /\ flags' = FALSE
    /\ UNCHANGED <<queue, dequeue, cnt, irq, handling, ticket, depth, entry>>

PassOn(c) ==
    LET x == Active(c) IN
    /\ Goto(x, "pass", "restore")
    /\ dequeue' = dequeue + 1
    /\ UNCHANGED <<queue, cid, cnt, flags, irq, handling, ticket, saved, depth,
                   entry>>

\* irq_nested_enable
Restore(c) ==
    LET x == Active(c) IN
    /\ Goto(x, "restore", "out")
    /\ irq' = IF saved[x] THEN [irq EXCEPT ![c] = TRUE] ELSE irq
    /\ UNCHANGED <<lock, handling, ticket, saved, depth, entry>>

-----------------------------------------------------------------------------
(* The core around the lock *)

\* The gate of an interrupt clears the flag; iretq sets it again.
Interrupt(c) ==
    /\ irq[c]
    /\ ~handling[c]
    /\ handling' = [handling EXCEPT ![c] = TRUE]
    /\ irq' = [irq EXCEPT ![c] = FALSE]
    /\ UNCHANGED <<lock, pc, ticket, saved, depth, entry>>

InterruptReturn(c) ==
    /\ handling[c]
    /\ pc[<<c, "irq">>] = "out"
    /\ depth[<<c, "irq">>] = 0
    /\ handling' = [handling EXCEPT ![c] = FALSE]
    /\ irq' = [irq EXCEPT ![c] = TRUE]
    /\ UNCHANGED <<lock, pc, ticket, saved, depth, entry>>

\* Outside its critical sections a task runs with interrupts on (application
\* code) or off (a system call, which enters the kernel with the flag clear).
ToggleMask(c) ==
    /\ ~handling[c]
    /\ pc[<<c, "task">>] = "out"
    /\ depth[<<c, "task">>] = 0
    /\ irq' = [irq EXCEPT ![c] = ~ @]
    /\ UNCHANGED <<lock, handling, pc, ticket, saved, depth, entry>>

-----------------------------------------------------------------------------
LockStep(c) == Check(c) \/ TakeTicket(c) \/ Enter(c) \/ SetOwner(c) \/ Record(c)

UnlockStep(c) == CountDown(c) \/ Drop(c) \/ PassOn(c) \/ Restore(c)

Next ==
    \E c \in Core :
        \/ Disable(c)
        \/ LockStep(c)
        \/ UnlockStep(c)
        \/ Interrupt(c)
        \/ InterruptReturn(c)
        \/ ToggleMask(c)

Spec == Init /\ [][Next]_vars

\* Cores execute, and handlers return.  Nobody has to call lock(), but a context
\* that holds the lock does not nest calls for ever: every critical section in
\* semaphore.h is a few straight-line statements, so its outermost unlock comes.
Fairness ==
    \A c \in Core :
        /\ WF_vars(LockStep(c))
        /\ WF_vars(UnlockStep(c))
        /\ SF_vars(CountDown(c) /\ cnt = 1)
        /\ WF_vars(InterruptReturn(c))

FairSpec == Spec /\ Fairness

-----------------------------------------------------------------------------
(* Properties *)

\* x is between the end of its spin loop and the increment of dequeue.
Inside(x) == depth[x] > 0 \/ pc[x] \in {"own", "record", "drop", "pass"}

HasTicket(x) == pc[x] = "spin" \/ Inside(x)

\* At most one context is inside the critical section, and neither a second
\* core nor a handler on the owner's core gets past the lock: the recursion
\* test on lock->cid never lets a handler into the section of the task below.
MutualExclusion ==
    \A x, y \in Context : Inside(x) /\ Inside(y) => x = y

\* spinlock_irqsave_lock "disable[s] interrupts": the flag is clear on the
\* owner's core from the call to the outermost unlock, nested calls included.
InterruptsOffInside ==
    \A x \in Context : Inside(x) => ~irq[x[1]]

\* When a context is out of the lock again, its core's interrupt flag is what
\* it was at the outermost lock call, although the value travelled through
\* lock->flags, which every owner overwrites.
InterruptFlagRestored ==
    [][\A c \in Core : Restore(c) => irq'[c] = entry[Active(c)]]_vars

\* The spin loops end in the order of atomic64_inc(&lock->queue): whoever
\* enters has the smallest ticket of all that spin.
FirstComeFirstServed ==
    [][\A c \in Core : Enter(c) =>
          \A y \in Context : pc[y] = "spin" => ticket[Active(c)] <= ticket[y]]_vars

-----------------------------------------------------------------------------
(* The inductive invariant behind the safety properties *)

Busy(x) == depth[x] > 0 \/ pc[x] # "out"

\* Tickets in use are distinct and lie in dequeue..queue; the owner's is dequeue.
TicketsDistinct ==
    /\ dequeue <= queue + 1
    /\ \A x \in Context :
          /\ HasTicket(x) => dequeue <= ticket[x] /\ ticket[x] <= queue
          /\ Inside(x) => ticket[x] = dequeue
    /\ \A x, y \in Context :
          HasTicket(x) /\ HasTicket(y) /\ ticket[x] = ticket[y] => x = y

\* A context that is busy with the lock is the active one of its core, and the
\* core's interrupt flag is clear.
BusyIsMasked ==
    \A c \in Core :
        /\ handling[c] => ~irq[c] /\ ~Busy(<<c, "task">>)
        /\ ~handling[c] => ~Busy(<<c, "irq">>)
        /\ Busy(Active(c)) => ~irq[c]

\* lock->cid and lock->cnt describe the context that is inside.
OwnerRecorded ==
    /\ \A x \in Context :
          /\ depth[x] > 0 => cid = x[1] /\ cnt = depth[x] /\ pc[x] \in {"out", "check"}
          /\ pc[x] \in {"record", "drop"} => cid = x[1]
    /\ cid # NoCore =>
          \E k \in {"task", "irq"} :
              depth[<<cid, k>>] > 0 \/ pc[<<cid, k>>] \in {"record", "drop"}

\* Where the interrupt flag of the outermost call is kept meanwhile; handlers
\* call with the flag clear.
FlagKept ==
    \A x \in Context :
        /\ x[2] = "irq" => ~entry[x]
        /\ depth[x] > 0 \/ pc[x] = "drop" => flags = entry[x]
        /\ depth[x] = 0 /\ pc[x] \notin {"out", "drop"} => saved[x] = entry[x]

IndInv == TypeOK /\ TicketsDistinct /\ BusyIsMasked /\ OwnerRecorded /\ FlagKept

-----------------------------------------------------------------------------
(* Refinement *)

\* The line of an abstract FIFO lock: the owners of tickets dequeue to queue.
Holder(n) == CHOOSE x \in Context : HasTicket(x) /\ ticket[x] = n

Line == [i \in 1 .. (queue - dequeue + 1) |-> Holder(dequeue + i - 1)]

Admitted == \E x \in Context : Inside(x)

\* Every ticket from dequeue to queue is in somebody's hands.
TicketsHeld ==
    \A n \in dequeue .. queue : \E x \in Context : HasTicket(x) /\ ticket[x] = n

Fifo == INSTANCE FifoLock WITH Client <- Context, line <- Line, admitted <- Admitted

\* The lock implements a FIFO lock for the contexts of all cores: drawing a
\* ticket is joining the line, the end of the spin loop is being admitted,
\* incrementing dequeue is leaving; recursion and interrupts are invisible.
ImplementsFifoLock == Fifo!Spec

=============================================================================
