------------------------------ MODULE Threads ------------------------------
(***************************************************************************)
(* The pool of thread control blocks of kernel/thread.c with its reference *)
(* counts, and the signals of kernel/signal.c.  Free TCBs are in one global *)
(* list, with a lock, and in a list of each core, without one.  Whoever    *)
(* works on a thread takes a reference with get_tcb and gives it back with *)
(* put_tcb; the scheduler gives back the one of the thread itself when the *)
(* thread has exited, and the last one to go returns the TCB to the pool.  *)
(* A signal is put into a list of the core that the thread runs on and is  *)
(* found there when the thread is next switched to.                        *)
(*                                                                         *)
(* A core runs one operation at a time, with interrupts off; op says which *)
(* one and where in it the core is.  Which thread a core runs is up to the *)
(* scheduler, whose lists are the subject of Scheduler.                    *)
(***************************************************************************)
EXTENDS Integers, Sequences, FiniteSets, Lists

CONSTANTS
    Core,           \* the cores
    Thread,         \* the thread ids, one for each TCB of the pool
    Begun,          \* how many threads the application has begun with
    None,           \* NULL, and -1 for a core number
    LocalFew,       \* 1: free TCBs a core keeps before it looks at the global list
    LocalMany,      \* 4: free TCBs a core keeps at most
    MaxCreate,      \* bound: calls of create_thread
    MaxUse,         \* bound: operations on a thread by its id, sys_kill included
    MaxSignal       \* bound: calls of sys_signal

ASSUME ThreadAssumption ==
    /\ None \notin Core \cup Thread
    /\ IsFiniteSet(Core) /\ IsFiniteSet(Thread) /\ Begun \in 0 .. Cardinality(Thread)
ASSUME LocalAssumption == LocalFew \in Nat /\ LocalMany \in Nat
ASSUME BoundAssumption == MaxCreate \in Nat /\ MaxUse \in Nat /\ MaxSignal \in Nat

VARIABLES
    state,          \* tcb->state; LIVE stands for READY, RUNNING and BLOCKED
    refc,           \* tcb->refc
    gen,            \* tcb->gen
    home,           \* tcb->running_core
    stack,          \* the threads that own a stack from az_alloc
    flag,           \* tcb->signal_flag
    handler,        \* is tcb->signal_handler set?
    started,        \* has the thread run since it was created?
    global,         \* g_global_tcb_list
    glock,          \* the core that holds its lock
    local,          \* local_tcb_list of each core
    signals,        \* local_sig_list of each core, whose order does not matter here
    running,        \* running_thread[]; None is the idle thread
    op,             \* the operation of each core: [at, kind, t, core]
    stray,          \* threads of which a reference was taken when there was none left
    crossed,        \* threads for which a signal came during a delivery or an exit
    calls           \* how often each bounded call was made

tcb == <<state, refc, gen, home, stack, flag, handler, started>>
pool == <<global, glock, local>>
ghosts == <<stray, crossed, calls>>
vars == <<tcb, pool, signals, running, op, ghosts>>

\* The places in the kernel.  In Creating a core has a TCB in its hands that is
\* in use by nobody yet, in Holding it has a reference, and in Ending it has
\* given back the last one.
Creating == {"unlock", "init"}
Holding == {"link", "put", "post", "flag"}
Ending == {"last", "destroy", "freeing", "flush", "keep"}
Place == Creating \cup Holding \cup Ending
             \cup {"user", "halt", "alloc", "get", "got", "switch", "deliver", "clear"}

Kind == {"none", "create", "use", "kill", "exit", "end"}
User == [at |-> "user", kind |-> "none", t |-> None, core |-> None]
SignalTo == [dest : Thread, gen : Nat, reg : BOOLEAN]

ThreadsTypeOK ==
    /\ state \in [Thread -> {"NOTALLOC", "CREATED", "LIVE", "EXITED"}]
    /\ refc \in [Thread -> Int] /\ gen \in [Thread -> Nat]
    /\ home \in [Thread -> Core \cup {None}]
    /\ stack \subseteq Thread /\ started \subseteq Thread
    /\ flag \subseteq Thread /\ handler \subseteq Thread
    /\ global \in Seq(Thread) /\ local \in [Core -> Seq(Thread)]
    /\ glock \in Core \cup {None}
    /\ signals \in [Core -> SUBSET SignalTo]
    /\ running \in [Core -> Thread \cup {None}]
    /\ op \in [Core -> [at : Place, kind : Kind, t : Thread \cup {None},
                        core : Core \cup {None}]]
    /\ stray \subseteq Thread /\ crossed \subseteq Thread

\* thread_init and signal_init, and then the application has created threads,
\* which cores have taken, and some have exited: the free TCBs are in the
\* global list, and at most one with each core.
Init ==
    /\ \E live \in SUBSET Thread :
          /\ Cardinality(live) = Begun
          /\ \E core \in [live -> Core] :
                home = [t \in Thread |-> IF t \in live THEN core[t] ELSE None]
          /\ state = [t \in Thread |-> IF t \in live THEN "LIVE" ELSE "NOTALLOC"]
          /\ refc = [t \in Thread |-> IF t \in live THEN 1 ELSE 0]
          /\ stack = live
          /\ local \in [Core -> {<<>>} \cup {<<t>> : t \in Thread \ live}]
          /\ \A c, d \in Core : c # d => Members(local[c]) \cap Members(local[d]) = {}
          /\ LET rest == (Thread \ live) \ UNION {Members(local[c]) : c \in Core}
             IN  global \in {s \in [1 .. Cardinality(rest) -> rest] :
                                NoRepeat(s) /\ Members(s) = rest}
    /\ gen = [t \in Thread |-> 0]
    /\ started = {}
    /\ flag = {} /\ handler = {}
    /\ glock = None
    /\ signals = [c \in Core |-> {}]
    /\ running = [c \in Core |-> None]
    /\ op = [c \in Core |-> User]
    /\ stray = {} /\ crossed = {}
    /\ calls = [create |-> 0, use |-> 0, signal |-> 0]

At(c, place) == op[c].at = place
Step(c, place) == op' = [op EXCEPT ![c].at = place]
Done(c) == op' = [op EXCEPT ![c] = User]
InUser(c) == At(c, "user") /\ running[c] # None
Called(call) == calls' = [calls EXCEPT ![call] = @ + 1]

-----------------------------------------------------------------------------
(* create_thread *)

Create(c) ==
    /\ InUser(c)
    /\ calls.create < MaxCreate
    /\ Called("create")
    /\ op' = [op EXCEPT ![c] = [at |-> "alloc", kind |-> "create", t |-> None, core |-> None]]
    /\ UNCHANGED <<tcb, pool, signals, running, stray, crossed>>

\* alloc_tcb, the core's own list: a TCB that is still referenced is fatal, as
\* the code says with "refcbug".
AllocLocal(c) ==
    LET t == Head(local[c]) IN
    /\ At(c, "alloc")
    /\ local[c] # <<>>
    /\ local' = [local EXCEPT ![c] = Tail(@)]
    /\ op' = [op EXCEPT ![c].at = IF refc[t] > 0 THEN "halt" ELSE "init", ![c].t = t]
    /\ UNCHANGED <<tcb, global, glock, signals, running, ghosts>>

\* The global list, under its lock; an empty pool is fatal.
AllocGlobal(c) ==
    /\ At(c, "alloc")
    /\ local[c] = <<>>
    /\ glock = None
    /\ glock' = c
    /\ IF global = <<>>
       THEN Step(c, "halt") /\ UNCHANGED global
       ELSE /\ global' = Tail(global)
            /\ op' = [op EXCEPT ![c].at = "unlock", ![c].t = Head(global)]
    /\ UNCHANGED <<tcb, local, signals, running, ghosts>>

AllocUnlock(c) ==
    /\ At(c, "unlock")
    /\ glock' = None
    /\ Step(c, "init")
    /\ UNCHANGED <<tcb, global, local, signals, running, ghosts>>

\* Mutant: create_thread takes no reference for itself.
AllocInitOneRef(c) ==
    LET t == op[c].t IN
    /\ At(c, "init")
    /\ refc' = [refc EXCEPT ![t] = 1]
    /\ home' = [home EXCEPT ![t] = None]
    /\ state' = [state EXCEPT ![t] = "CREATED"]
    /\ started' = started \ {t}
    /\ Step(c, "link")
    /\ UNCHANGED <<gen, stack, flag, handler, pool, signals, running, ghosts>>

\* The fields that alloc_tcb sets; signal_flag and signal_handler are not
\* among them.  create_thread then takes a reference for itself.
AllocInit(c) ==
    LET t == op[c].t IN
    /\ At(c, "init")
    /\ refc' = [refc EXCEPT ![t] = 2]
    /\ home' = [home EXCEPT ![t] = None]
    /\ state' = [state EXCEPT ![t] = "CREATED"]
    /\ started' = started \ {t}
    /\ Step(c, "link")
    /\ UNCHANGED <<gen, stack, flag, handler, pool, signals, running, ghosts>>

\* The stack, the core asked for, if any, and the migrating list.
CreateLink(c) ==
    LET t == op[c].t IN
    /\ At(c, "link")
    /\ \E m \in Core \cup {None} : home' = [home EXCEPT ![t] = m]
    /\ stack' = stack \cup {t}
    /\ state' = [state EXCEPT ![t] = "LIVE"]
    /\ Step(c, "put")
    /\ UNCHANGED <<refc, gen, flag, handler, started, pool, signals, running, ghosts>>

-----------------------------------------------------------------------------
(* get_tcb and put_tcb *)

\* The operations on a thread by its id: thread_suspend, thread_wake_up,
\* lk_thread_set_name, lk_thread_lookup_tid, lk_thread_lookup_state and
\* schedule_to hold a reference while they work.
Use(c, t) ==
    /\ InUser(c)
    /\ calls.use < MaxUse
    /\ Called("use")
    /\ op' = [op EXCEPT ![c] = [at |-> "get", kind |-> "use", t |-> t, core |-> None]]
    /\ UNCHANGED <<tcb, pool, signals, running, stray, crossed>>

\* get_tcb tests the state ...
Get(c) ==
    /\ At(c, "get")
    /\ IF state[op[c].t] = "NOTALLOC" THEN Done(c) ELSE Step(c, "got")
    /\ UNCHANGED <<tcb, pool, signals, running, ghosts>>

\* Mutant: the reference is taken without being counted.
GotUncounted(c) ==
    LET t == op[c].t IN
    /\ At(c, "got")
    /\ stray' = IF refc[t] = 0 THEN stray \cup {t} ELSE stray
    /\ op' = [op EXCEPT ![c].at = IF op[c].kind = "kill" THEN "post" ELSE "put",
                        ![c].core = home[t]]
    /\ UNCHANGED <<tcb, pool, signals, running, crossed, calls>>

\* ... and takes the reference; sys_kill reads running_core next.
Got(c) ==
    LET t == op[c].t IN
    /\ At(c, "got")
    /\ refc' = [refc EXCEPT ![t] = @ + 1]
    /\ stray' = IF refc[t] = 0 THEN stray \cup {t} ELSE stray
    /\ op' = [op EXCEPT ![c].at = IF op[c].kind = "kill" THEN "post" ELSE "put",
                        ![c].core = home[t]]
    /\ UNCHANGED <<state, gen, home, stack, flag, handler, started, pool, signals, running,
                   crossed, calls>>

\* Where the core goes on when put_tcb is done: a thread that exits is switched
\* away from, the rest returns to the caller.
After(c) == IF op[c].kind = "exit" THEN Step(c, "switch") ELSE Done(c)

\* put_tcb gives the reference back, and looks at the state if it was the last.
Put(c) ==
    LET t == op[c].t IN
    /\ At(c, "put")
    /\ refc' = [refc EXCEPT ![t] = @ - 1]
    /\ IF refc[t] = 1 THEN Step(c, "last") ELSE After(c)
    /\ UNCHANGED <<state, gen, home, stack, flag, handler, started, pool, signals, running,
                   ghosts>>

\* An exited thread is destroyed; a live one without references is fatal.
PutLast(c) ==
    LET t == op[c].t IN
    /\ At(c, "last")
    /\ CASE state[t] = "EXITED" -> Step(c, "destroy")
         [] state[t] = "NOTALLOC" -> After(c)
         [] OTHER -> Step(c, "halt")
    /\ UNCHANGED <<tcb, pool, signals, running, ghosts>>

-----------------------------------------------------------------------------
(* destroy_tcb *)

\* init_tcb(THREAD_INIT_DESTROY) and t->gen++.
Free(t) ==
    /\ state' = [state EXCEPT ![t] = "NOTALLOC"]
    /\ home' = [home EXCEPT ![t] = None]
    /\ stack' = stack \ {t}
    /\ gen' = [gen EXCEPT ![t] = @ + 1]
    /\ crossed' = IF t \in flag \/ \E c \in Core : \E s \in signals[c] : s.dest = t
                  THEN crossed \cup {t} ELSE crossed

\* The core has some and the global list is free: the TCB goes there.
DestroyGlobal(c) ==
    LET t == op[c].t IN
    /\ At(c, "destroy")
    /\ Len(local[c]) > LocalFew
    /\ glock = None
    /\ glock' = c
    /\ global' = Append(global, t)
    /\ Step(c, "freeing")
    /\ UNCHANGED <<tcb, local, signals, running, ghosts>>

DestroyUnlock(c) ==
    /\ At(c, "freeing")
    /\ Free(op[c].t)
    /\ glock' = None
    /\ Done(c)
    /\ UNCHANGED <<refc, flag, handler, started, global, local, signals, running, stray, calls>>

\* spinlock_trylock failed and the core has too many: it waits for the lock and
\* appends its list to the global one ...
DestroyWait(c) ==
    /\ At(c, "destroy")
    /\ glock # None
    /\ Len(local[c]) > LocalFew /\ Len(local[c]) > LocalMany
    /\ Step(c, "flush")
    /\ UNCHANGED <<tcb, pool, signals, running, ghosts>>

\* Mutant: the local list keeps the TCBs that were moved.
DestroyFlushKeeps(c) ==
    /\ At(c, "flush")
    /\ glock = None
    /\ global' = global \o local[c]
    /\ Step(c, "keep")
    /\ UNCHANGED <<tcb, glock, local, signals, running, ghosts>>

DestroyFlush(c) ==
    /\ At(c, "flush")
    /\ glock = None
    /\ global' = global \o local[c]
    /\ local' = [local EXCEPT ![c] = <<>>]
    /\ Step(c, "keep")
    /\ UNCHANGED <<tcb, glock, signals, running, ghosts>>

\* ... and keeps the TCB, as a core does that has few.
DestroyLocal(c) ==
    LET t == op[c].t IN
    /\ \/ At(c, "keep")
       \/ At(c, "destroy") /\ \/ Len(local[c]) <= LocalFew
                              \/ glock # None /\ Len(local[c]) <= LocalMany
    /\ Free(t)
    /\ local' = [local EXCEPT ![c] = Append(@, t)]
    /\ Done(c)
    /\ UNCHANGED <<refc, flag, handler, started, global, glock, signals, running, stray, calls>>

-----------------------------------------------------------------------------
(* Running, switching, exiting *)

\* A core takes a thread that no core was asked for.
Take(c, t) ==
    /\ At(c, "user")
    /\ state[t] = "LIVE" /\ home[t] = None
    /\ home' = [home EXCEPT ![t] = c]
    /\ UNCHANGED <<state, refc, gen, stack, flag, handler, started, pool, signals, running, op,
                   ghosts>>

\* schedule() switches to a thread of this core.  One that ran before returns
\* from its own call of schedule() and looks at its signal_flag; a new one
\* begins at its entry point.
SwitchTo(c, t) ==
    /\ At(c, "user")
    /\ state[t] = "LIVE" /\ home[t] = c /\ t # running[c]
    /\ running' = [running EXCEPT ![c] = t]
    /\ started' = started \cup {t}
    /\ op' = [op EXCEPT ![c] = IF t \in started /\ t \in flag
                               THEN [at |-> "deliver", kind |-> "none", t |-> t, core |-> c]
                               ELSE User]
    /\ UNCHANGED <<state, refc, gen, home, stack, flag, handler, pool, signals, ghosts>>

\* __thread_exit works on the own TCB between a get_tcb and a put_tcb ...
Exit(c) ==
    /\ InUser(c)
    /\ op' = [op EXCEPT ![c] = [at |-> "get", kind |-> "exit", t |-> running[c],
                                core |-> None]]
    /\ UNCHANGED <<tcb, pool, signals, running, ghosts>>

\* ... and schedules; the idle thread then does thread_exit and put_tcb for it.
ExitSwitch(c) ==
    /\ At(c, "switch")
    /\ state' = [state EXCEPT ![op[c].t] = "EXITED"]
    /\ running' = [running EXCEPT ![c] = None]
    /\ op' = [op EXCEPT ![c].at = "put", ![c].kind = "end"]
    /\ UNCHANGED <<refc, gen, home, stack, flag, handler, started, pool, signals, ghosts>>

-----------------------------------------------------------------------------
(* Signals *)

\* sys_signal
Signal(c) ==
    /\ InUser(c)
    /\ calls.signal < MaxSignal
    /\ Called("signal")
    /\ handler' = handler \cup {running[c]}
    /\ UNCHANGED <<state, refc, gen, home, stack, flag, started, pool, signals, running, op,
                   stray, crossed>>

\* sys_kill of another thread; of the own one it calls the handler at once and
\* changes nothing.
Kill(c, t) ==
    /\ InUser(c)
    /\ t # running[c]
    /\ calls.use < MaxUse
    /\ Called("use")
    /\ op' = [op EXCEPT ![c] = [at |-> "get", kind |-> "kill", t |-> t, core |-> None]]
    /\ UNCHANGED <<tcb, pool, signals, running, stray, crossed>>

Delivering(t) == \E c \in Core : op[c].t = t /\ op[c].at \in {"deliver", "clear"}

\* The signal is in the list of the core; a thread that no core has taken has
\* the core number 65535, which is no list, and the signal is lost.
Post(c) ==
    LET t == op[c].t
        d == op[c].core IN
    /\ At(c, "post")
    /\ signals' = IF d = None THEN signals
                  ELSE [signals EXCEPT ![d] = @ \cup {[dest |-> t, gen |-> gen[t],
                                                       reg |-> t \in handler]}]
    /\ crossed' = IF Delivering(t) \/ d # home[t] THEN crossed \cup {t} ELSE crossed
    /\ Step(c, "flag")
    /\ UNCHANGED <<tcb, pool, running, stray, calls>>

\* Mutant: the flag is not set.
SetFlagNot(c) ==
    /\ At(c, "flag")
    /\ Step(c, "put")
    /\ UNCHANGED <<tcb, pool, signals, running, ghosts>>

\* signal_flag = 1, after the list has been unlocked.
SetFlag(c) ==
    LET t == op[c].t IN
    /\ At(c, "flag")
    /\ flag' = flag \cup {t}
    /\ crossed' = IF Delivering(t) THEN crossed \cup {t} ELSE crossed
    /\ Step(c, "put")
    /\ UNCHANGED <<state, refc, gen, home, stack, handler, started, pool, signals, running,
                   stray, calls>>

\* do_signal: every signal of the thread is handled and leaves the list ...
DoSignal(c) ==
    /\ At(c, "deliver")
    /\ signals' = [signals EXCEPT ![c] = {s \in @ : s.dest # op[c].t}]
    /\ Step(c, "clear")
    /\ UNCHANGED <<tcb, pool, running, ghosts>>

\* ... and then schedule() resets the flag and the handler.
ClearSignal(c) ==
    LET t == op[c].t IN
    /\ At(c, "clear")
    /\ flag' = flag \ {t}
    /\ handler' = handler \ {t}
    /\ Done(c)
    /\ UNCHANGED <<state, refc, gen, home, stack, started, pool, signals, running, ghosts>>

-----------------------------------------------------------------------------
\* What a core does on its own once it is in the kernel.
Kernel(c) ==
    \/ AllocLocal(c) \/ AllocGlobal(c) \/ AllocUnlock(c) \/ AllocInit(c) \/ CreateLink(c)
    \/ Get(c) \/ Got(c) \/ Put(c) \/ PutLast(c)
    \/ DestroyGlobal(c) \/ DestroyUnlock(c) \/ DestroyWait(c) \/ DestroyFlush(c)
    \/ DestroyLocal(c)
    \/ ExitSwitch(c)
    \/ Post(c) \/ SetFlag(c) \/ DoSignal(c) \/ ClearSignal(c)

Next ==
    \E c \in Core :
        \/ Kernel(c)
        \/ Create(c) \/ Exit(c) \/ Signal(c)
        \/ \E t \in Thread : Use(c, t) \/ Kill(c, t) \/ Take(c, t) \/ SwitchTo(c, t)

Spec == Init /\ [][Next]_vars

-----------------------------------------------------------------------------
(* Properties *)

Doing(t, places) == {c \in Core : op[c].t = t /\ op[c].at \in places}

\* The lists of free TCBs: the global one, and that of each core.
Lists == Core \cup {None}
List(x) == IF x = None THEN global ELSE local[x]

IsFree(t) == state[t] = "NOTALLOC" \/ Doing(t, {"freeing"}) # {}

ListsApart ==
    /\ \A x \in Lists : NoRepeat(List(x))
    /\ \A x, y \in Lists : x # y => Members(List(x)) \cap Members(List(y)) = {}

HandsApart ==
    \A c \in Core : op[c].at \in Creating =>
        /\ \A x \in Lists : op[c].t \notin Members(List(x))
        /\ \A d \in Core : op[d].at \in Creating /\ op[d].t = op[c].t => d = c

FreeIsKept ==
    \A t \in Thread : IsFree(t) <=> \/ \E x \in Lists : t \in Members(List(x))
                                    \/ Doing(t, Creating) # {}

StacksOwned == \A t \in Thread : t \in stack <=> state[t] \in {"LIVE", "EXITED"}

\* No TCB is lost or handed out twice, and no stack is freed twice: a free TCB
\* is in exactly one list, once, or in the hands of the core that allocates it;
\* a TCB in use is in none, and has a stack once its thread can run.  This
\* holds as long as nobody took a reference after the last was given back.
EachTcbOnce == stray = {} => ListsApart /\ HandsApart /\ FreeIsKept /\ StacksOwned

Counted ==
    \A t \in Thread :
        refc[t] = Cardinality(Doing(t, Holding))
                  + IF state[t] \in {"CREATED", "LIVE"} THEN 1 ELSE 0

\* The count is one for the thread until it has exited, and one for each core
\* that works on it, under the same condition.
RefsCounted == stray = {} => Counted

\* A core stops only for lack of TCBs, under the same condition: neither the
\* test of alloc_tcb nor that of put_tcb fails.
StopsOnlyWhenEmpty ==
    stray = {} => \A c \in Core : At(c, "halt") => op[c].t = None

\* A signal on its way ...
Found(c, s) ==
    s.dest \notin crossed =>
        /\ home[s.dest] = c
        /\ s.gen = gen[s.dest]
        /\ s.reg => s.dest \in handler
        /\ s.dest \in flag \/ Doing(s.dest, {"flag"}) # {}

\* ... is in the list of the core of its thread, for the thread it was sent to
\* and not for a successor in its TCB, and the flag that makes the thread look
\* is set or about to be; a handler that was registered when the signal was
\* sent is still there.  The exceptions are a signal that came while the thread
\* handled others or exited, and references that were taken too late.
SignalFindsThread == stray = {} => \A c \in Core : \A s \in signals[c] : Found(c, s)

-----------------------------------------------------------------------------
(* The invariant that the proofs of ThreadsProofs rest on. *)

\* What a core works on, by its place.
OpMatches(c) ==
    /\ At(c, "user") => op[c] = User
    /\ op[c].at \in {"alloc", "halt"} => op[c].t = None
    /\ op[c].at \notin {"user", "alloc", "halt"} => op[c].t \in Thread
    /\ op[c].kind = "exit" => op[c].at \in {"get", "got", "put", "switch"}
    /\ At(c, "switch") => op[c].kind = "exit"
    /\ op[c].kind = "exit" \/ op[c].at \in {"deliver", "clear"} => op[c].t = running[c]

OpsMatch == \A c \in Core : OpMatches(c)

\* A thread that runs is alive and on its core; one that is not yet linked has none.
RunsLive ==
    /\ \A c \in Core : running[c] # None => state[running[c]] = "LIVE" /\ home[running[c]] = c
    /\ \A t \in Thread : state[t] \in {"NOTALLOC", "CREATED"} => home[t] = None

\* A thread that a core has a reference to is not free ...
HeldInUse ==
    \A c \in Core : op[c].at \in Holding =>
        /\ state[op[c].t] # "NOTALLOC"
        /\ At(c, "link") => /\ state[op[c].t] = "CREATED"
                            /\ \A d \in Core : At(d, "link") /\ op[d].t = op[c].t => d = c

\* ... and one core ends a thread, to which nobody has a reference any more.
EndsAlone ==
    \A c \in Core : op[c].at \in Ending =>
        /\ state[op[c].t] = "EXITED" /\ refc[op[c].t] = 0
        /\ \A d \in Core : op[d].at \in Ending /\ op[d].t = op[c].t => d = c

LockHeld ==
    \A c \in Core :
        /\ op[c].at \in {"freeing", "unlock"} => glock = c
        /\ At(c, "freeing") => op[c].t \in Members(global)

Sound ==
    /\ ThreadsTypeOK /\ OpsMatch /\ RunsLive /\ HeldInUse /\ EndsAlone /\ LockHeld
    /\ Counted /\ ListsApart /\ HandsApart /\ FreeIsKept /\ StacksOwned

PoolInv == stray = {} => Sound

\* Once do_signal is through, the list has no more signals for its thread.
Cleared ==
    \A c \in Core : At(c, "clear") =>
        \A s \in signals[c] : s.dest = op[c].t => s.dest \in crossed

SignalInv == stray = {} => Cleared /\ \A c \in Core : \A s \in signals[c] : Found(c, s)

=============================================================================
