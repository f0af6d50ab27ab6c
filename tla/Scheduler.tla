----------------------------- MODULE Scheduler -----------------------------
(***************************************************************************)
(* The scheduler of kernel/thread.c.  Every core owns a runnable and a     *)
(* blocked list that no other core touches; new threads arrive through the *)
(* global migrating list.  What other cores do touch is a thread's         *)
(* intention word: thread_wake_up and thread_suspend set bits in it        *)
(* atomically, while the scheduler of the owning core updates it with a    *)
(* separate read and write (the atomic_and and atomic_or calls are         *)
(* commented out in the code; tcb_lock is compiled out by NO_TCB_LOCK).    *)
(*                                                                         *)
(* The kernel runs with interrupts off, so a core is a sequential process: *)
(* pc says where in schedule() it is, and one action is one stretch of     *)
(* code between two accesses to shared state.  The idle thread of core c   *)
(* has c as its thread id, as in the code.                                 *)
(***************************************************************************)
EXTENDS Integers, Sequences, FiniteSets, Lists

CONSTANTS
    Core,           \* the cores
    Bsp,            \* the boot processor
    Thread,         \* the TCBs of user threads
    App,            \* the thread that lk_app_exec creates
    None,           \* NULL, and -1 for a core number
    RunnableMax,    \* RUNNABLE_MAX: threads a core accepts
    MaxCalls        \* bound: calls of create_thread and thread_suspend together

ASSUME CoreAssumption == Bsp \in Core /\ App \in Thread /\ Core \cap Thread = {}
ASSUME NoneAssumption == None \notin Core \cup Thread
ASSUME FiniteAssumption == IsFiniteSet(Core) /\ IsFiniteSet(Thread)
ASSUME BoundAssumption == RunnableMax \in Nat \ {0} /\ MaxCalls \in Nat

Tcb == Core \cup Thread
Idle(c) == c

VARIABLES
    state,          \* tcb->state
    intention,      \* tcb->intention, as a set of bits
    slice,          \* is tcb->remaining_time_slice > 0?
    allowed,        \* the cores that tcb->core_mask leaves open
    home,           \* tcb->running_core
    runnable,       \* runnable_list of each core
    rcount,         \* its count field
    blocked,        \* blocked_list of each core
    bcount,         \* its count field
    migrating,      \* g_migrating_list
    mlock,          \* the core that holds its lock
    running,        \* running_thread[]
    pc,             \* where each core is in schedule()
    scan,           \* what its list traversal has still to visit
    next,           \* next, found_tcb
    prev,           \* prev
    reg,            \* the intention word a core is about to store
    threadCnt,      \* g_thread_cnt
    exitSeen,       \* is g_exit_thread_cnt > 0?
    finished,       \* has the idle thread of the boot processor called cs_exit?
    calls           \* calls of create_thread and thread_suspend so far

fields == <<state, intention, slice, allowed, home>>
lists == <<runnable, rcount, blocked, bcount, migrating, mlock>>
locals == <<pc, scan, next, prev, reg>>
counters == <<threadCnt, exitSeen, finished, calls>>
vars == <<fields, lists, running, locals, counters>>

States == {"NOTALLOC", "RUNNING", "READY", "BLOCKED"}
Intentions == SUBSET {"READY", "BLOCKED", "EXITED"}

TypeOK ==
    /\ state \in [Tcb -> States]
    /\ intention \in [Tcb -> Intentions]
    /\ slice \in [Tcb -> BOOLEAN]
    /\ allowed \in [Tcb -> SUBSET Core]
    /\ home \in [Tcb -> Core \cup {None}]
    /\ runnable \in [Core -> Seq(Thread)]
    /\ blocked \in [Core -> Seq(Thread)]
    /\ rcount \in [Core -> Int]
    /\ bcount \in [Core -> Int]
    /\ migrating \in Seq(Thread)
    /\ mlock \in Core \cup {None}
    /\ running \in [Core -> Tcb]
    /\ pc \in [Core -> {"run", "count", "mark", "select", "park", "post", "postset",
                        "pull", "pulling", "seeking", "wake", "wakeset", "own"}]
    /\ scan \in [Core -> Seq(Thread)]
    /\ next \in [Core -> Tcb \cup {None}]
    /\ prev \in [Core -> Tcb \cup {None}]
    /\ reg \in [Core -> Intentions]
    /\ threadCnt \in Int
    /\ exitSeen \in BOOLEAN
    /\ finished \in BOOLEAN
    /\ calls \in 0 .. MaxCalls

\* sched_init and setup_idle_thread have run on every core, and lk_app_exec on
\* the boot processor: every core runs its idle thread and the application's
\* first thread waits in the migrating list for the boot processor.
Init ==
    /\ state = [t \in Tcb |-> IF t \in Core THEN "RUNNING"
                              ELSE IF t = App THEN "READY" ELSE "NOTALLOC"]
    /\ intention = [t \in Tcb |-> {}]
    /\ slice = [t \in Tcb |-> TRUE]
    /\ allowed = [t \in Tcb |-> IF t = App THEN {Bsp} ELSE Core]
    /\ home = [t \in Tcb |-> IF t \in Core THEN t ELSE IF t = App THEN Bsp ELSE None]
    /\ runnable = [c \in Core |-> <<>>]
    /\ blocked = [c \in Core |-> <<>>]
    /\ rcount = [c \in Core |-> 0]
    /\ bcount = [c \in Core |-> 0]
    /\ migrating = <<App>>
    /\ mlock = None
    /\ running = [c \in Core |-> Idle(c)]
    /\ pc = [c \in Core |-> "run"]
    /\ scan = [c \in Core |-> <<>>]
    /\ next = [c \in Core |-> None]
    /\ prev = [c \in Core |-> None]
    /\ reg = [c \in Core |-> {}]
    /\ threadCnt = 1
    /\ exitSeen = FALSE
    /\ finished = FALSE
    /\ calls = 0

\* A local variable that is not read again is reset where its last use is.
Goto(c, from, to) == pc[c] = from /\ pc' = [pc EXCEPT ![c] = to]

\* The rest of schedule() up to context_switch, and back in the thread switched
\* to, whose slice is refilled if need be.  It touches nothing other cores read.
SwitchTo(c, t) ==
    /\ prev' = [prev EXCEPT ![c] = running[c]]
    /\ running' = [running EXCEPT ![c] = t]
    /\ slice' = [slice EXCEPT ![t] = TRUE]
    /\ home' = [home EXCEPT ![t] = c]
    /\ next' = [next EXCEPT ![c] = None]

-----------------------------------------------------------------------------
(* Entering schedule() *)

\* The first half of atomic_set(&curr->intention, intention | atomic_get(...)).
\* The running thread may have used up its slice: left says whether some remains.
Schedule(c, bit, left) ==
    LET curr == running[c] IN
    /\ Goto(c, "run", "mark")
    /\ reg' = [reg EXCEPT ![c] = intention[curr] \cup {bit}]
    /\ slice' = [slice EXCEPT ![curr] = left /\ @]

\* timer_handler: the slice is over, schedule(THREAD_INTENTION_READY).
Preempt(c) ==
    /\ Schedule(c, "READY", FALSE)
    /\ UNCHANGED <<state, intention, allowed, home, lists, running, scan, next, prev, counters>>

\* The thread goes to sleep: schedule(THREAD_INTENTION_BLOCKED) in az_sem_wait.
Block(c, left) ==
    /\ running[c] \in Thread
    /\ Schedule(c, "BLOCKED", left)
    /\ UNCHANGED <<state, intention, allowed, home, lists, running, scan, next, prev, counters>>

\* __thread_exit: the intention is overwritten before schedule() is called.  What
\* is left of the slice is of no use any more.
Exit(c) ==
    LET curr == running[c] IN
    /\ Goto(c, "run", "mark")
    /\ curr \in Thread
    /\ intention' = [intention EXCEPT ![curr] = {"EXITED"}]
    /\ reg' = [reg EXCEPT ![c] = {"EXITED"}]
    /\ UNCHANGED <<state, slice, allowed, home, lists, running, scan, next, prev, counters>>

\* schedule_to: receive_offload_message found a reply for thread t, which sent
\* its request from this core and waits for its turn here.
ScheduleTo(c, t) ==
    LET curr == running[c] IN
    /\ Goto(c, "run", "mark")
    /\ curr \in Thread \ {t}
    /\ t \in Members(runnable[c])
    /\ "EXITED" \notin intention[t]
    /\ reg' = [reg EXCEPT ![c] = intention[curr] \cup {"READY"}]
    /\ next' = [next EXCEPT ![c] = t]
    /\ slice' = [slice EXCEPT ![curr] = FALSE]
    /\ UNCHANGED <<state, intention, allowed, home, lists, running, scan, prev, counters>>

\* The second half: the store.  schedule() then searches the runnable list;
\* schedule_to() has its thread, sets it RUNNING and switches to it.
Mark(c) ==
    /\ next[c] = None
    /\ Goto(c, "mark", "select")
    /\ intention' = [intention EXCEPT ![running[c]] = reg[c]]
    /\ scan' = [scan EXCEPT ![c] = runnable[c]]
    /\ reg' = [reg EXCEPT ![c] = {}]
    /\ UNCHANGED <<state, slice, allowed, home, lists, running, next, prev, counters>>

MarkTo(c) ==
    /\ next[c] # None
    /\ Goto(c, "mark", "post")
    /\ intention' = [intention EXCEPT ![running[c]] = reg[c]]
    /\ reg' = [reg EXCEPT ![c] = {}]
    /\ state' = [state EXCEPT ![next[c]] = "RUNNING"]
    /\ SwitchTo(c, next[c])
    /\ UNCHANGED <<allowed, lists, scan, counters>>

-----------------------------------------------------------------------------
(* select_next_thread *)

\* Mutant: the thread is not counted out of g_thread_cnt.
DestroyUncounted(t) ==
    /\ state' = [state EXCEPT ![t] = "NOTALLOC"]
    /\ intention' = [intention EXCEPT ![t] = @ \ {"EXITED"}]
    /\ home' = [home EXCEPT ![t] = None]
    /\ exitSeen' = TRUE
    /\ UNCHANGED <<threadCnt, finished, calls>>

\* put_tcb drops the last reference: destroy_tcb frees the TCB and counts it.
Destroy(t) ==
    /\ state' = [state EXCEPT ![t] = "NOTALLOC"]
    /\ intention' = [intention EXCEPT ![t] = @ \ {"EXITED"}]
    /\ home' = [home EXCEPT ![t] = None]
    /\ threadCnt' = threadCnt - 1
    /\ exitSeen' = TRUE
    /\ UNCHANGED <<finished, calls>>

Unlink(list, c, t) == [list EXCEPT ![c] = Without(@, t)]
Link(list, c, t) == [list EXCEPT ![c] = Append(@, t)]
Visited(c) == scan' = [scan EXCEPT ![c] = Tail(@)]
Visiting(c, at) == pc[c] = at /\ scan[c] # <<>>

\* available_next
Available(t) == slice[t] /\ state[t] = "READY"

\* The running thread wants to exit: the idle thread is next, at once.
SelectExitCurrent(c) ==
    /\ Visiting(c, "select")
    /\ Head(scan[c]) = running[c]
    /\ "EXITED" \in intention[running[c]]
    /\ pc' = [pc EXCEPT ![c] = "post"]
    /\ scan' = [scan EXCEPT ![c] = <<>>]
    /\ SwitchTo(c, Idle(c))
    /\ UNCHANGED <<state, intention, allowed, lists, reg, counters>>

\* Mutant: the running thread is destroyed like any other.
SelectExitAny(c) ==
    LET t == Head(scan[c]) IN
    /\ Visiting(c, "select")
    /\ "EXITED" \in intention[t]
    /\ Destroy(t)
    /\ runnable' = Unlink(runnable, c, t)
    /\ rcount' = [rcount EXCEPT ![c] = @ - 1]
    /\ Visited(c)
    /\ UNCHANGED <<slice, allowed, blocked, bcount, migrating, mlock,
                   running, pc, next, prev, reg>>

\* Another thread wants to exit: it is destroyed.
SelectExit(c) ==
    LET t == Head(scan[c]) IN
    /\ Visiting(c, "select")
    /\ t # running[c]
    /\ "EXITED" \in intention[t]
    /\ Destroy(t)
    /\ runnable' = Unlink(runnable, c, t)
    /\ rcount' = [rcount EXCEPT ![c] = @ - 1]
    /\ Visited(c)
    /\ UNCHANGED <<slice, allowed, blocked, bcount, migrating, mlock,
                   running, pc, next, prev, reg>>

\* A thread, the running one included, wants to sleep: it leaves the runnable
\* list, and its intention is read ...
SelectBlock(c) ==
    LET t == Head(scan[c]) IN
    /\ Visiting(c, "select")
    /\ "EXITED" \notin intention[t]
    /\ "BLOCKED" \in intention[t]
    /\ runnable' = Unlink(runnable, c, t)
    /\ rcount' = [rcount EXCEPT ![c] = @ - 1]
    /\ state' = [state EXCEPT ![t] = "BLOCKED"]
    /\ reg' = [reg EXCEPT ![c] = intention[t] \ {"BLOCKED"}]
    /\ pc' = [pc EXCEPT ![c] = "park"]
    /\ UNCHANGED <<intention, slice, allowed, home, blocked, bcount, migrating,
                   mlock, running, scan, next, prev, counters>>

\* ... written back, and the thread is in the blocked list.
Park(c) ==
    LET t == Head(scan[c]) IN
    /\ Goto(c, "park", "select")
    /\ intention' = [intention EXCEPT ![t] = reg[c]]
    /\ blocked' = Link(blocked, c, t)
    /\ bcount' = [bcount EXCEPT ![c] = @ + 1]
    /\ Visited(c)
    /\ reg' = [reg EXCEPT ![c] = {}]
    /\ UNCHANGED <<state, slice, allowed, home, runnable, rcount, migrating, mlock,
                   running, next, prev, counters>>

\* Mutant: the search does not look for EXITED threads.
SelectTakeExited(c) ==
    LET t == Head(scan[c]) IN
    /\ Visiting(c, "select")
    /\ "BLOCKED" \notin intention[t]
    /\ Available(t)
    /\ next[c] = None
    /\ state' = [state EXCEPT ![t] = "RUNNING"]
    /\ next' = [next EXCEPT ![c] = t]
    /\ Visited(c)
    /\ UNCHANGED <<intention, slice, allowed, home, lists, running, pc, prev, reg, counters>>

\* The first available thread is next.
SelectTake(c) ==
    LET t == Head(scan[c]) IN
    /\ Visiting(c, "select")
    /\ intention[t] \cap {"EXITED", "BLOCKED"} = {}
    /\ Available(t)
    /\ next[c] = None
    /\ state' = [state EXCEPT ![t] = "RUNNING"]
    /\ next' = [next EXCEPT ![c] = t]
    /\ Visited(c)
    /\ UNCHANGED <<intention, slice, allowed, home, lists, running, pc, prev, reg, counters>>

\* Every other thread is passed over.  One that is not allowed on this core
\* would go back to the migrating list; LinkedOnce says there is none.
SelectSkip(c) ==
    LET t == Head(scan[c]) IN
    /\ Visiting(c, "select")
    /\ intention[t] \cap {"EXITED", "BLOCKED"} = {}
    /\ ~Available(t) \/ next[c] # None
    /\ Visited(c)
    /\ UNCHANGED <<fields, lists, running, pc, next, prev, reg, counters>>

OutOfSlice(c) == {t \in Members(runnable[c]) : state[t] = "READY" /\ ~slice[t]}

\* Nothing found, but some thread only lacks time: refill and retry.
SelectRefill(c) ==
    /\ pc[c] = "select"
    /\ scan[c] = <<>>
    /\ next[c] = None
    /\ OutOfSlice(c) # {}
    /\ slice' = [t \in Tcb |-> slice[t] \/ t \in OutOfSlice(c)]
    /\ scan' = [scan EXCEPT ![c] = runnable[c]]
    /\ UNCHANGED <<state, intention, allowed, home, lists, running, pc, next, prev, reg,
                   counters>>

\* The search is over: the thread found, or the only one, or the idle thread.
SelectDone(c) ==
    /\ Goto(c, "select", "post")
    /\ scan[c] = <<>>
    /\ next[c] # None \/ OutOfSlice(c) = {}
    /\ SwitchTo(c, IF next[c] # None THEN next[c]
                   ELSE IF rcount[c] = 1 THEN Head(runnable[c])
                   ELSE Idle(c))
    /\ UNCHANGED <<state, intention, allowed, lists, scan, reg, counters>>

-----------------------------------------------------------------------------
(* __post_context_switch, for the thread that was running *)

\* It is to be READY: its state changes and its intention is read ...
PostReady(c) ==
    LET p == prev[c] IN
    /\ Goto(c, "post", "postset")
    /\ "READY" \in intention[p]
    /\ state' = [state EXCEPT ![p] = "READY"]
    /\ reg' = [reg EXCEPT ![c] = intention[p] \ {"READY", "BLOCKED"}]
    /\ UNCHANGED <<intention, slice, allowed, home, lists, running, scan, next, prev,
                   counters>>

\* Mutant: the thread is not unlinked from the list it is in.
PostBlockTwice(c) ==
    LET p == prev[c] IN
    /\ Goto(c, "post", "postset")
    /\ intention[p] \cap {"READY", "BLOCKED"} = {"BLOCKED"}
    /\ state' = [state EXCEPT ![p] = "BLOCKED"]
    /\ reg' = [reg EXCEPT ![c] = intention[p] \ {"BLOCKED"}]
    /\ rcount' = [rcount EXCEPT ![c] = @ - 1]
    /\ blocked' = Link(blocked, c, p)
    /\ bcount' = [bcount EXCEPT ![c] = @ + 1]
    /\ UNCHANGED <<intention, slice, allowed, home, runnable, migrating, mlock, running, scan,
                   next, prev, counters>>

\* It is to be BLOCKED and not READY: it moves to the blocked list, whichever
\* list it is linked in.
PostBlock(c) ==
    LET p == prev[c] IN
    /\ Goto(c, "post", "postset")
    /\ intention[p] \cap {"READY", "BLOCKED"} = {"BLOCKED"}
    /\ state' = [state EXCEPT ![p] = "BLOCKED"]
    /\ reg' = [reg EXCEPT ![c] = intention[p] \ {"BLOCKED"}]
    /\ runnable' = Unlink(runnable, c, p)
    /\ rcount' = [rcount EXCEPT ![c] = @ - 1]
    /\ blocked' = Link(Unlink(blocked, c, p), c, p)
    /\ bcount' = [bcount EXCEPT ![c] = @ + 1]
    /\ UNCHANGED <<intention, slice, allowed, home, migrating, mlock, running, scan, next,
                   prev, counters>>

\* ... and written back.
PostSet(c) ==
    /\ Goto(c, "postset", "pull")
    /\ intention' = [intention EXCEPT ![prev[c]] = reg[c]]
    /\ reg' = [reg EXCEPT ![c] = {}]
    /\ UNCHANGED <<state, slice, allowed, home, lists, running, scan, next, prev,
                   counters>>

\* Mutant: the count of the runnable list is not adjusted.
PostExitUncounted(c) ==
    LET p == prev[c] IN
    /\ Goto(c, "post", "pull")
    /\ intention[p] = {"EXITED"}
    /\ p # running[c]
    /\ Destroy(p)
    /\ runnable' = Unlink(runnable, c, p)
    /\ UNCHANGED <<slice, allowed, rcount, blocked, bcount, migrating, mlock, running, scan,
                   next, prev, reg>>

\* It is to exit and no longer runs: it is destroyed.
PostExit(c) ==
    LET p == prev[c] IN
    /\ Goto(c, "post", "pull")
    /\ intention[p] = {"EXITED"}
    /\ p # running[c]
    /\ Destroy(p)
    /\ runnable' = Unlink(runnable, c, p)
    /\ rcount' = [rcount EXCEPT ![c] = @ - 1]
    /\ UNCHANGED <<slice, allowed, blocked, bcount, migrating, mlock, running, scan,
                   next, prev, reg>>

PostNothing(c) ==
    /\ Goto(c, "post", "pull")
    /\ intention[prev[c]] \subseteq IF prev[c] = running[c] THEN {"EXITED"} ELSE {}
    /\ UNCHANGED <<fields, lists, running, scan, next, prev, reg, counters>>

-----------------------------------------------------------------------------
(* post_context_switch: the migrating list *)

HasRoom(c) == rcount[c] + bcount[c] < RunnableMax

PullLock(c) ==
    /\ Goto(c, "pull", "pulling")
    /\ HasRoom(c)
    /\ migrating # <<>>
    /\ mlock = None
    /\ mlock' = c
    /\ scan' = [scan EXCEPT ![c] = migrating]
    /\ UNCHANGED <<fields, runnable, rcount, blocked, bcount, migrating, running, next, prev,
                   reg, counters>>

\* The core is full, the list is empty, or spinlock_trylock fails.
PullSkip(c) ==
    /\ Goto(c, "pull", "wake")
    /\ ~HasRoom(c) \/ migrating = <<>> \/ mlock # None
    /\ scan' = [scan EXCEPT ![c] = blocked[c]]
    /\ UNCHANGED <<fields, lists, running, next, prev, reg, counters>>

\* The next thread of the list is moved to the core's own.
Move(c) ==
    LET t == Head(scan[c]) IN
    /\ migrating' = Without(migrating, t)
    /\ runnable' = Link(runnable, c, t)
    /\ rcount' = [rcount EXCEPT ![c] = @ + 1]
    /\ home' = [home EXCEPT ![t] = c]

Unlock(c, from) ==
    /\ Goto(c, from, "wake")
    /\ mlock' = None
    /\ scan' = [scan EXCEPT ![c] = blocked[c]]

\* The first loop: a thread that was created for this core, while there is room.
PullMine(c) ==
    LET t == Head(scan[c]) IN
    /\ Visiting(c, "pulling")
    /\ home[t] = c
    /\ Move(c)
    /\ IF rcount[c] + 1 + bcount[c] = RunnableMax
       THEN Unlock(c, "pulling")
       ELSE Visited(c) /\ UNCHANGED <<pc, mlock>>
    /\ UNCHANGED <<state, intention, slice, allowed, blocked, bcount, running, next, prev,
                   reg, counters>>

PullPass(c) ==
    /\ Visiting(c, "pulling")
    /\ home[Head(scan[c])] # c
    /\ Visited(c)
    /\ UNCHANGED <<fields, lists, running, pc, next, prev, reg, counters>>

PullMore(c) ==
    /\ Goto(c, "pulling", "seeking")
    /\ scan[c] = <<>>
    /\ scan' = [scan EXCEPT ![c] = migrating]
    /\ UNCHANGED <<fields, lists, running, next, prev, reg, counters>>

\* The second loop: one more thread that is allowed here.  get_cid_of_min_thread
\* always answers with the core that asks.
Seek(c) ==
    /\ Visiting(c, "seeking")
    /\ c \in allowed[Head(scan[c])]
    /\ Move(c)
    /\ Unlock(c, "seeking")
    /\ UNCHANGED <<state, intention, slice, allowed, blocked, bcount, running, next, prev,
                   reg, counters>>

SeekPass(c) ==
    /\ Visiting(c, "seeking")
    /\ c \notin allowed[Head(scan[c])]
    /\ Visited(c)
    /\ UNCHANGED <<fields, lists, running, pc, next, prev, reg, counters>>

SeekNone(c) ==
    /\ scan[c] = <<>>
    /\ Unlock(c, "seeking")
    /\ UNCHANGED <<fields, runnable, rcount, blocked, bcount, migrating, running, next, prev,
                   reg, counters>>

-----------------------------------------------------------------------------
(* post_context_switch: the blocked list, and the end of schedule() *)

WakeExit(c) ==
    LET t == Head(scan[c]) IN
    /\ Visiting(c, "wake")
    /\ "EXITED" \in intention[t]
    /\ t # running[c]
    /\ Destroy(t)
    /\ blocked' = Unlink(blocked, c, t)
    /\ bcount' = [bcount EXCEPT ![c] = @ - 1]
    /\ Visited(c)
    /\ UNCHANGED <<slice, allowed, runnable, rcount, migrating, mlock, running, pc,
                   next, prev, reg>>

\* A sleeper was woken: it leaves the blocked list, its intention is read ...
WakeReady(c) ==
    LET t == Head(scan[c]) IN
    /\ Visiting(c, "wake")
    /\ intention[t] \cap {"READY", "EXITED"} = {"READY"}
    /\ blocked' = Unlink(blocked, c, t)
    /\ bcount' = [bcount EXCEPT ![c] = @ - 1]
    /\ state' = [state EXCEPT ![t] = "READY"]
    /\ reg' = [reg EXCEPT ![c] = intention[t] \ {"READY", "BLOCKED"}]
    /\ pc' = [pc EXCEPT ![c] = "wakeset"]
    /\ UNCHANGED <<intention, slice, allowed, home, runnable, rcount, migrating, mlock,
                   running, scan, next, prev, counters>>

\* ... written back, and the thread is in the runnable list.
WakeSet(c) ==
    LET t == Head(scan[c]) IN
    /\ Goto(c, "wakeset", "wake")
    /\ intention' = [intention EXCEPT ![t] = reg[c]]
    /\ runnable' = Link(runnable, c, t)
    /\ rcount' = [rcount EXCEPT ![c] = @ + 1]
    /\ Visited(c)
    /\ reg' = [reg EXCEPT ![c] = {}]
    /\ UNCHANGED <<state, slice, allowed, home, blocked, bcount, migrating, mlock, running,
                   next, prev, counters>>

WakeSkip(c) ==
    LET t == Head(scan[c]) IN
    /\ Visiting(c, "wake")
    /\ \/ intention[t] \cap {"READY", "EXITED"} = {}
       \/ "EXITED" \in intention[t] /\ t = running[c]
    /\ Visited(c)
    /\ UNCHANGED <<fields, lists, running, pc, next, prev, reg, counters>>

\* After a switch the next thread continues.  If there was none, the thread is
\* RUNNING again and its READY intention is taken back, by a read ...
Finish(c) ==
    LET same == prev[c] = running[c] IN
    /\ Goto(c, "wake", IF same THEN "own" ELSE "run")
    /\ scan[c] = <<>>
    /\ state' = IF same THEN [state EXCEPT ![running[c]] = "RUNNING"] ELSE state
    /\ reg' = IF same THEN [reg EXCEPT ![c] = intention[running[c]] \ {"READY"}] ELSE reg
    /\ prev' = [prev EXCEPT ![c] = None]
    /\ UNCHANGED <<intention, slice, allowed, home, lists, running, scan, next, counters>>

\* ... and a write.
Own(c) ==
    /\ Goto(c, "own", "run")
    /\ intention' = [intention EXCEPT ![running[c]] = reg[c]]
    /\ reg' = [reg EXCEPT ![c] = {}]
    /\ UNCHANGED <<state, slice, allowed, home, lists, running, scan, next, prev,
                   counters>>

-----------------------------------------------------------------------------
(* What running threads do to other threads *)

\* create_thread: m is the core asked for, or None for any.
Create(c, t, m) ==
    /\ Goto(c, "run", "count")
    /\ running[c] \in Thread
    /\ state[t] = "NOTALLOC"
    /\ mlock = None
    /\ calls < MaxCalls
    /\ calls' = calls + 1
    /\ state' = [state EXCEPT ![t] = "READY"]
    /\ intention' = [intention EXCEPT ![t] = {}]
    /\ slice' = [slice EXCEPT ![t] = TRUE]
    /\ allowed' = [allowed EXCEPT ![t] = IF m = None THEN Core ELSE {m}]
    /\ home' = [home EXCEPT ![t] = m]
    /\ migrating' = Append(migrating, t)
    /\ UNCHANGED <<runnable, rcount, blocked, bcount, mlock, running, scan, next, prev, reg,
                   threadCnt, exitSeen, finished>>

\* The new thread is counted once it is in the migrating list.
Count(c) ==
    /\ Goto(c, "count", "run")
    /\ threadCnt' = threadCnt + 1
    /\ UNCHANGED <<fields, lists, running, scan, next, prev, reg, exitSeen, finished,
                   calls>>

\* thread_wake_up and thread_suspend, which set a bit atomically.
WakeUp(c, t) ==
    /\ pc[c] = "run"
    /\ running[c] \in Thread
    /\ state[t] # "NOTALLOC"
    /\ intention' = [intention EXCEPT ![t] = @ \cup {"READY"}]
    /\ UNCHANGED <<state, slice, allowed, home, lists, running, locals, counters>>

Suspend(c, t) ==
    /\ pc[c] = "run"
    /\ running[c] \in Thread
    /\ state[t] # "NOTALLOC"
    /\ calls < MaxCalls
    /\ intention' = [intention EXCEPT ![t] = @ \cup {"BLOCKED"}]
    /\ calls' = calls + 1
    /\ UNCHANGED <<state, slice, allowed, home, lists, running, locals, threadCnt, exitSeen,
                   finished>>

\* start_idle_thread on the boot processor: all threads are gone, cs_exit.
ShutDown ==
    /\ pc[Bsp] = "run"
    /\ running[Bsp] = Idle(Bsp)
    /\ threadCnt = 0 /\ exitSeen
    /\ ~finished
    /\ finished' = TRUE
    /\ UNCHANGED <<fields, lists, running, locals, threadCnt, exitSeen, calls>>

-----------------------------------------------------------------------------
Select(c) ==
    \/ SelectExitCurrent(c) \/ SelectExit(c)
    \/ SelectBlock(c) \/ Park(c)
    \/ SelectTake(c) \/ SelectSkip(c)
    \/ SelectRefill(c) \/ SelectDone(c)

PostContextSwitch(c) ==
    \/ PostReady(c) \/ PostBlock(c) \/ PostSet(c) \/ PostExit(c) \/ PostNothing(c)
    \/ PullLock(c) \/ PullSkip(c) \/ PullMine(c) \/ PullPass(c) \/ PullMore(c)
    \/ Seek(c) \/ SeekPass(c) \/ SeekNone(c)
    \/ WakeExit(c) \/ WakeReady(c) \/ WakeSet(c) \/ WakeSkip(c)
    \/ Finish(c) \/ Own(c)

\* What a core does on its own once it is in the kernel.
Kernel(c) == Mark(c) \/ MarkTo(c) \/ Select(c) \/ PostContextSwitch(c) \/ Count(c)

Next ==
    \/ \E c \in Core :
          \/ Kernel(c)
          \/ Preempt(c) \/ Exit(c)
          \/ \E left \in BOOLEAN : Block(c, left)
          \/ \E t \in Thread :
                \/ ScheduleTo(c, t)
                \/ WakeUp(c, t)
                \/ Suspend(c, t)
                \/ \E m \in Core \cup {None} : Create(c, t, m)
    \/ ShutDown

Spec == Init /\ [][Next]_vars

-----------------------------------------------------------------------------
(* Properties *)

\* The threads a core has unlinked from one list and not yet linked to another.
InHand(c) == IF pc[c] \in {"park", "wakeset"} THEN {Head(scan[c])} ELSE {}

Owned(c) == Members(runnable[c]) \cup Members(blocked[c]) \cup InHand(c)

\* No thread is lost, duplicated or on a wrong core: a live thread is linked in
\* exactly one of the lists, once, or in the hands of one core that moves it, and
\* the lists of a core hold threads that its mask allows there; a free TCB is in
\* no list.
LinkedOnce ==
    /\ NoRepeat(migrating)
    /\ \A c \in Core :
          /\ NoRepeat(runnable[c]) /\ NoRepeat(blocked[c])
          /\ Members(runnable[c]) \cap Members(blocked[c]) = {}
          /\ InHand(c) \cap (Members(runnable[c]) \cup Members(blocked[c])) = {}
          /\ Owned(c) \cap Members(migrating) = {}
          /\ \A d \in Core \ {c} : Owned(c) \cap Owned(d) = {}
          /\ \A t \in Owned(c) : c \in allowed[t] /\ home[t] = c
    /\ \A t \in Thread :
          state[t] # "NOTALLOC" <=> t \in Members(migrating) \/ \E c \in Core : t \in Owned(c)

\* No thread runs on two cores, and a running thread's TCB is not free: its
\* stack would be handed out again under it.
RunsOnce ==
    \A c \in Core :
        /\ \A d \in Core : running[c] = running[d] => c = d
        /\ state[running[c]] # "NOTALLOC"
        /\ running[c] \in Core => running[c] = c

\* A thread that called exit is never switched to again, whatever wakes it.
ExitIsFinal ==
    [][\A c \in Core : running'[c] # running[c] => "EXITED" \notin intention[running'[c]]]_vars

\* The two count fields of a core add up to the threads it has, which is what
\* the test for room in post_context_switch relies on.  Each on its own may be
\* off: a thread suspended between select_next_thread and the switch is counted
\* out of the runnable list twice.
TotalsAgree ==
    \A c \in Core : rcount[c] + bcount[c] = Len(runnable[c]) + Len(blocked[c])

\* g_thread_cnt is the number of live threads but for those that a core has put
\* on the migrating list and not yet counted.  The idle thread of the boot
\* processor takes a count of zero for the end of the application, so it may end
\* it under exactly those threads.
ThreadsCounted ==
    threadCnt = Cardinality({t \in Thread : state[t] # "NOTALLOC"})
                - Cardinality({c \in Core : pc[c] = "count"})

-----------------------------------------------------------------------------
(* The inductive invariant *)

\* What a core has still to visit, and the list that it goes through.
Ahead(c) == Members(scan[c]) \ InHand(c)
Visits(c) ==
    CASE pc[c] \in {"select", "park"}     -> Members(runnable[c])
      [] pc[c] \in {"wake", "wakeset"}    -> Members(blocked[c])
      [] pc[c] \in {"pulling", "seeking"} -> Members(migrating)
      [] OTHER                            -> {}

\* The lists of a core have no thread in common with each other or with the
\* migrating list, and every thread in them is at home on the core.
ListsSound(c) ==
    /\ NoRepeat(runnable[c]) /\ NoRepeat(blocked[c])
    /\ Members(runnable[c]) \cap Members(blocked[c]) = {}
    /\ InHand(c) \cap (Members(runnable[c]) \cup Members(blocked[c])) = {}
    /\ Owned(c) \cap Members(migrating) = {}
    /\ \A t \in Owned(c) : c \in allowed[t] /\ home[t] = c

\* The threads ahead of a core are in the list that it goes through: nobody
\* takes them away.
ScanSound(c) ==
    /\ NoRepeat(scan[c]) /\ Ahead(c) \subseteq Visits(c)
    /\ pc[c] \in {"park", "wakeset"} => scan[c] # <<>>
    /\ mlock = c <=> pc[c] \in {"pulling", "seeking"}

\* A thread runs on the core that it is at home on; in the kernel only the thread
\* that is about to be switched away may have exited.
RunsSound(c) ==
    LET curr == running[c] IN
    /\ curr \in Thread \cup {c}
    /\ curr \in Thread =>
          curr \in IF pc[c] \in {"select", "park"} THEN Owned(c) ELSE Members(runnable[c])
    /\ pc[c] \notin {"mark", "select", "park"} => "EXITED" \notin intention[curr]
    /\ pc[c] = "mark" => reg[c] # {}
    /\ pc[c] = "own" => "EXITED" \notin reg[c]

\* The search: a running thread that wants to sleep or exit is still ahead, or
\* has left the runnable list, and the threads that have been passed have not exited.
SearchSound(c) ==
    LET curr == running[c] IN
    pc[c] \in {"select", "park"} =>
        /\ curr \in Members(runnable[c]) \cup {c} =>
              \/ "READY" \in intention[curr]
              \/ curr \in Ahead(c) /\ intention[curr] \cap {"BLOCKED", "EXITED"} # {}
        /\ "EXITED" \in intention[curr] => curr \in Ahead(c)
        /\ \A t \in Members(runnable[c]) \ Ahead(c) : "EXITED" \notin intention[t]
        /\ pc[c] = "park" => "EXITED" \notin reg[c]

\* The thread found is one of this core's that has not exited.
NextSound(c) ==
    next[c] # None =>
        /\ pc[c] \in {"mark", "select", "park"}
        /\ next[c] \in Members(runnable[c]) \ Ahead(c)
        /\ "EXITED" \notin intention[next[c]]
        /\ pc[c] = "mark" => running[c] # next[c] /\ "READY" \in reg[c] /\ "EXITED" \notin reg[c]

\* The thread that was running is still linked on this core after the switch.
PrevSound(c) ==
    LET p == prev[c] IN
    /\ pc[c] \in {"post", "postset"} =>
          p \in Members(runnable[c]) \cup Members(blocked[c]) \cup {c}
    /\ pc[c] = "post" =>
          /\ p = running[c] => "READY" \in intention[p]
          /\ "EXITED" \in intention[p] => p \in Members(runnable[c])
    /\ pc[c] = "postset" /\ p = running[c] => "EXITED" \notin reg[c]

\* The idle thread neither sleeps nor exits.
IdleSound(c) ==
    /\ intention[c] \subseteq {"READY"}
    /\ pc[c] \in {"mark", "own"} /\ running[c] = c => reg[c] \subseteq {"READY"}
    /\ pc[c] = "postset" /\ prev[c] = c => reg[c] \subseteq {"READY"}

CoreSound(c) ==
    /\ ListsSound(c) /\ ScanSound(c) /\ RunsSound(c) /\ SearchSound(c)
    /\ NextSound(c) /\ PrevSound(c) /\ IdleSound(c)

\* The count of the runnable list is never too high, so that a count of one
\* means that there is a first thread.
CountsSound(c) ==
    /\ rcount[c] + bcount[c] = Len(runnable[c]) + Len(blocked[c])
    /\ rcount[c] <= Len(runnable[c])

MigratingSound ==
    /\ NoRepeat(migrating)
    /\ \A t \in Members(migrating) : home[t] \in allowed[t] \cup {None}

LiveIsLinked ==
    /\ \A t \in Thread :
          state[t] # "NOTALLOC" <=> t \in Members(migrating) \/ \E c \in Core : t \in Owned(c)
    /\ \A c \in Core : state[Idle(c)] # "NOTALLOC"

SchedulerInv ==
    /\ TypeOK /\ MigratingSound /\ LiveIsLinked /\ ThreadsCounted
    /\ \A c \in Core : CoreSound(c) /\ CountsSound(c)

=============================================================================
