----------------------------- MODULE Semaphore -----------------------------
(***************************************************************************)
(* The counting semaphore of kernel/semaphore.h on top of the scheduler:   *)
(* sys_sem_wait puts the caller's id in a ring and blocks it with          *)
(* schedule(THREAD_INTENTION_BLOCKED), sys_sem_post raises the value and   *)
(* wakes the first in the ring with thread_wake_up.  What the two do under *)
(* the semaphore's lock is one step; between the unlock of a wait and its  *)
(* schedule() a post of another core may come.                             *)
(***************************************************************************)
EXTENDS Scheduler
LOCAL INSTANCE SequencesExt

CONSTANTS
    QueueSize,      \* MAX_SEM_QUEUE_SIZE
    MaxPost         \* bound: calls of sys_sem_post

\* MAX_SEM_QUEUE_SIZE is the number of thread ids.
ASSUME QueueAssumption ==
    /\ QueueSize \in Nat /\ MaxPost \in Nat
    /\ Cardinality(Thread) <= QueueSize

VARIABLES
    value, queue, wpos, rpos,   \* the fields of sem_t; None is MAX_THREAD_ID
    at,             \* where each thread is in az_sem_wait
    due,            \* the threads a post has woken that have not tried again
    posts           \* calls of sys_sem_post so far

sem == <<value, queue, wpos, rpos>>
semVars == <<vars, sem, at, due, posts>>

SemTypeOK ==
    /\ value \in 0 .. MaxPost
    /\ queue \in [0 .. QueueSize - 1 -> Thread \cup {None}]
    /\ wpos \in 0 .. QueueSize - 1
    /\ rpos \in 0 .. QueueSize - 1
    /\ at \in [Thread -> {"user", "queued", "asleep"}]
    /\ due \subseteq Thread
    /\ posts \in 0 .. MaxPost

\* The application has created its threads for cores of its choice, each core
\* has taken its own, and az_sem_init has been called.
SemInit ==
    /\ \E core \in [Thread -> Core] :
          /\ home = [t \in Tcb |-> IF t \in Core THEN t ELSE core[t]]
          /\ allowed = [t \in Tcb |-> IF t \in Core THEN Core ELSE {core[t]}]
          /\ runnable = [c \in Core |-> SetToSeq({t \in Thread : core[t] = c})]
    /\ state = [t \in Tcb |-> IF t \in Core THEN "RUNNING" ELSE "READY"]
    /\ intention = [t \in Tcb |-> {}]
    /\ slice = [t \in Tcb |-> TRUE]
    /\ rcount = [c \in Core |-> Len(runnable[c])]
    /\ blocked = [c \in Core |-> <<>>]
    /\ bcount = [c \in Core |-> 0]
    /\ migrating = <<>> /\ mlock = None
    /\ running = [c \in Core |-> Idle(c)]
    /\ pc = [c \in Core |-> "run"]
    /\ scan = [c \in Core |-> <<>>]
    /\ next = [c \in Core |-> None] /\ prev = [c \in Core |-> None]
    /\ reg = [c \in Core |-> {}]
    /\ threadCnt = Cardinality(Thread) /\ exitSeen = FALSE /\ finished = FALSE
    /\ calls = 0
    /\ value = 0 /\ wpos = 0 /\ rpos = 0
    /\ queue = [i \in 0 .. QueueSize - 1 |-> None]
    /\ at = [t \in Thread |-> "user"]
    /\ due = {}
    /\ posts = 0

Runs(c, t, place) == pc[c] = "run" /\ running[c] = t /\ at[t] = place

\* az_sem_trywait that gets the semaphore; one that fails changes nothing.
SemTryWait(c, t) ==
    /\ Runs(c, t, "user")
    /\ value > 0
    /\ value' = value - 1
    /\ UNCHANGED <<vars, queue, wpos, rpos, at, due, posts>>

\* next_try1 of az_sem_wait, at the call and after every sleep: the semaphore
\* is free and taken ...
SemTake(c, t) ==
    /\ Runs(c, t, "user") \/ Runs(c, t, "asleep")
    /\ value > 0
    /\ value' = value - 1
    /\ at' = [at EXCEPT ![t] = "user"]
    /\ due' = due \ {t}
    /\ UNCHANGED <<vars, queue, wpos, rpos, posts>>

\* ... or it is not, and the thread enters the ring ...
SemQueue(c, t) ==
    /\ Runs(c, t, "user") \/ Runs(c, t, "asleep")
    /\ value = 0
    /\ queue' = [queue EXCEPT ![wpos] = t]
    /\ wpos' = (wpos + 1) % QueueSize
    /\ at' = [at EXCEPT ![t] = "queued"]
    /\ due' = due \ {t}
    /\ UNCHANGED <<vars, value, rpos, posts>>

\* ... and calls schedule(THREAD_INTENTION_BLOCKED).
SemSleep(c, t) ==
    /\ Runs(c, t, "queued")
    /\ \E left \in BOOLEAN : Block(c, left)
    /\ at' = [at EXCEPT ![t] = "asleep"]
    /\ UNCHANGED <<sem, due, posts>>

\* Mutant: the entry of the thread that is woken stays in the ring.
SemPostKeepsEntry(c, t) ==
    LET first == queue[rpos] IN
    /\ Runs(c, t, "user")
    /\ posts < MaxPost
    /\ posts' = posts + 1
    /\ value' = value + 1
    /\ IF first = None
       THEN UNCHANGED <<vars, rpos, due>>
       ELSE /\ WakeUp(c, first)
            /\ rpos' = (rpos + 1) % QueueSize
            /\ due' = due \cup {first}
    /\ UNCHANGED <<queue, wpos, at>>

\* Mutant: the slot for the next waiter is looked at.
SemPostWrongSlot(c, t) ==
    LET first == queue[wpos] IN
    /\ Runs(c, t, "user")
    /\ posts < MaxPost
    /\ posts' = posts + 1
    /\ value' = value + 1
    /\ IF first = None
       THEN UNCHANGED <<vars, queue, rpos, due>>
       ELSE /\ WakeUp(c, first)
            /\ queue' = [queue EXCEPT ![wpos] = None]
            /\ rpos' = (rpos + 1) % QueueSize
            /\ due' = due \cup {first}
    /\ UNCHANGED <<wpos, at>>

\* Mutant: the thread is taken from the ring but not woken.
SemPostSilent(c, t) ==
    LET first == queue[rpos] IN
    /\ Runs(c, t, "user")
    /\ posts < MaxPost
    /\ posts' = posts + 1
    /\ value' = value + 1
    /\ IF first = None
       THEN UNCHANGED <<queue, rpos, due>>
       ELSE /\ queue' = [queue EXCEPT ![rpos] = None]
            /\ rpos' = (rpos + 1) % QueueSize
            /\ due' = due \cup {first}
    /\ UNCHANGED <<vars, wpos, at>>

\* az_sem_post: one more, and the first in the ring is woken.
SemPost(c, t) ==
    LET first == queue[rpos] IN
    /\ Runs(c, t, "user")
    /\ posts < MaxPost
    /\ posts' = posts + 1
    /\ value' = value + 1
    /\ IF first = None
       THEN UNCHANGED <<vars, queue, rpos, due>>
       ELSE /\ WakeUp(c, first)
            /\ queue' = [queue EXCEPT ![rpos] = None]
            /\ rpos' = (rpos + 1) % QueueSize
            /\ due' = due \cup {first}
    /\ UNCHANGED <<wpos, at>>

\* A system call is not preempted: it runs with interrupts off.
SemPreempt(c) ==
    /\ running[c] \in Thread => at[running[c]] = "user"
    /\ Preempt(c)
    /\ UNCHANGED <<sem, at, due, posts>>

SemKernel(c) == Kernel(c) /\ UNCHANGED <<sem, at, due, posts>>

\* The rest of a wait that has begun.
SemResume(c) ==
    \E t \in Thread :
        at[t] # "user" /\ (SemTake(c, t) \/ SemQueue(c, t) \/ SemSleep(c, t))

SemNext ==
    \E c \in Core :
        \/ SemKernel(c)
        \/ SemPreempt(c)
        \/ \E t \in Thread :
              \/ SemTryWait(c, t) \/ SemTake(c, t) \/ SemQueue(c, t)
              \/ SemSleep(c, t) \/ SemPost(c, t)

SemSpec == SemInit /\ [][SemNext]_semVars

SemFairness ==
    \A c \in Core :
        /\ WF_semVars(SemKernel(c))
        /\ WF_semVars(SemPreempt(c))
        /\ WF_semVars(SemResume(c))

SemFairSpec == SemSpec /\ SemFairness

-----------------------------------------------------------------------------
Queued == {t \in Thread : \E i \in DOMAIN queue : queue[i] = t}

\* A waiter is in the ring exactly once until a post wakes it: the ring is
\* never overwritten by a faster writer, and no post wakes a thread twice or a
\* thread that does not wait.
RingHoldsWaiters ==
    \A t \in Thread :
        Cardinality({i \in DOMAIN queue : queue[i] = t})
            = IF at[t] = "user" \/ t \in due THEN 0 ELSE 1

\* No post is missed: as long as threads wait in the ring, every unit of the
\* value has a thread that was woken for it and has still to try.
NoMissedPost == Queued # {} => value <= Cardinality(due)

OneCore == \A t, u \in Thread : home[t] = home[u]

\* A thread that a post woke tries again, if no two cores are involved.
WokenTriesAgainOnOneCore == \A t \in Thread : OneCore /\ t \in due ~> t \notin due

\* A thread that a post woke tries again, wherever the post came from.
WokenTriesAgain == \A t \in Thread : t \in due ~> t \notin due

=============================================================================
