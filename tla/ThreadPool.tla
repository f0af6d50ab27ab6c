----------------------------- MODULE ThreadPool -----------------------------
(***************************************************************************)
(* The thread pool of the offload proxy (sideloader/offload_proxy/         *)
(* offload_thread_pool.c) as the proxy uses it: one watch thread creates   *)
(* the pool, adds jobs and destroys the pool.  The functions that the      *)
(* proxy does not call (remove, suspend, resume, wait_to_complete) are     *)
(* left out, and so are the flags that only they set.                      *)
(*                                                                         *)
(* Nobody waits for anything while holding condmutex, so a section under   *)
(* it is one step; add_job_to_pool signals while it holds queuemutex.      *)
(***************************************************************************)
EXTENDS Integers, Sequences, FiniteSets, SequencesExt

CONSTANTS
    Worker,     \* the threads of the pool
    Job,        \* the jobs that can be in the pool at a time
    MaxFail,    \* calls of pthread_create that may fail
    None

ASSUME JobAssumption == None \notin Job
ASSUME FailAssumption == MaxFail \in Nat

VARIABLES
    caller,         \* where the watch thread is
    pc,             \* where each worker is
    created,        \* workers whose creation has been tried
    run,            \* pool->run
    is_initialized,
    num_threads,
    waiting_threads,
    queue,          \* the jobs from FRONT to REAR
    queuemutex,     \* is it held by add_job_to_pool?
    work,           \* the job each worker executes
    added           \* the jobs not yet completed, in the order of their addition

counters == <<is_initialized, num_threads, waiting_threads>>
vars == <<caller, pc, created, run, counters, queue, queuemutex, work, added>>

TypeOK ==
    /\ caller \in {"create", "ready", "signal", "stop", "join", "gone"}
    /\ pc \in [Worker -> {"none", "loop", "look", "idle", "wait", "woken", "busy", "exited"}]
    /\ created \subseteq Worker
    /\ run \in BOOLEAN /\ is_initialized \in BOOLEAN /\ queuemutex \in BOOLEAN
    /\ num_threads \in 0 .. Cardinality(Worker)
    /\ waiting_threads \in 0 .. num_threads
    /\ queue \in Seq(Job) /\ added \in Seq(Job)
    /\ work \in [Worker -> Job \cup {None}]

\* create_pool, up to the creation of the first thread.
Init ==
    /\ caller = "create"
    /\ pc = [w \in Worker |-> "none"]
    /\ created = {}
    /\ run = TRUE
    /\ is_initialized = FALSE
    /\ num_threads = Cardinality(Worker)
    /\ waiting_threads = 0
    /\ queue = <<>> /\ added = <<>>
    /\ queuemutex = FALSE
    /\ work = [w \in Worker |-> None]

-----------------------------------------------------------------------------
(* The watch thread *)

\* add_threads_to_pool creates the threads one by one; creation may fail.
CreateThread(w) ==
    /\ caller = "create" /\ w \notin created
    /\ created' = created \cup {w}
    /\ pc' = [pc EXCEPT ![w] = "loop"]
    /\ UNCHANGED <<caller, run, counters, queue, queuemutex, work, added>>

CreateFails(w) ==
    /\ caller = "create" /\ w \notin created
    /\ Cardinality(Worker) - num_threads < MaxFail
    /\ created' = created \cup {w}
    /\ num_threads' = num_threads - 1
    /\ UNCHANGED <<caller, pc, run, is_initialized, waiting_threads, queue, queuemutex, work, added>>

\* create_pool returns when a thread has set is_initialized.
CreateReturns ==
    /\ caller = "create" /\ created = Worker
    /\ is_initialized
    /\ caller' = "ready"
    /\ UNCHANGED <<pc, created, run, counters, queue, queuemutex, work, added>>

\* add_job_to_pool appends a job under queuemutex, and keeps the mutex to
\* signal if it sees a thread waiting.
AddJob(j) ==
    /\ caller = "ready"
    /\ ~queuemutex
    /\ j \notin ToSet(added)
    /\ queue' = Append(queue, j)
    /\ added' = Append(added, j)
    /\ IF waiting_threads > 0
       THEN caller' = "signal" /\ queuemutex' = TRUE
       ELSE UNCHANGED <<caller, queuemutex>>
    /\ UNCHANGED <<pc, created, run, counters, work>>

\* pthread_cond_signal wakes one of the threads that wait, if there is one.
Signal ==
    LET sleepers == {w \in Worker : pc[w] = "wait"} IN
    /\ caller = "signal"
    /\ \/ sleepers = {} /\ UNCHANGED pc
       \/ \E w \in sleepers : pc' = [pc EXCEPT ![w] = "woken"]
    /\ caller' = "ready"
    /\ queuemutex' = FALSE
    /\ UNCHANGED <<created, run, counters, queue, work, added>>

\* destroy_pool: clear run ...
Stop ==
    /\ caller = "ready"
    /\ caller' = "stop"
    /\ run' = FALSE
    /\ UNCHANGED <<pc, created, counters, queue, queuemutex, work, added>>

\* Mutant: pthread_cond_signal instead of pthread_cond_broadcast.
BroadcastOne ==
    LET sleepers == {w \in Worker : pc[w] = "wait"} IN
    /\ caller = "stop"
    /\ caller' = "join"
    /\ \/ sleepers = {} /\ UNCHANGED pc
       \/ \E w \in sleepers : pc' = [pc EXCEPT ![w] = "woken"]
    /\ UNCHANGED <<created, run, counters, queue, queuemutex, work, added>>

\* ... wake all the threads that wait ...
Broadcast ==
    /\ caller = "stop"
    /\ caller' = "join"
    /\ pc' = [w \in Worker |-> IF pc[w] = "wait" THEN "woken" ELSE pc[w]]
    /\ UNCHANGED <<created, run, counters, queue, queuemutex, work, added>>

\* ... join every thread, and free the jobs that are left.
Join ==
    /\ caller = "join"
    /\ \A w \in Worker : pc[w] \in {"none", "exited"}
    /\ caller' = "gone"
    /\ queue' = <<>>
    /\ UNCHANGED <<pc, created, run, counters, queuemutex, work, added>>

-----------------------------------------------------------------------------
(* A worker: thread_executor *)

\* The loop tests run ...
TestRun(w) ==
    /\ pc[w] = "loop"
    /\ pc' = [pc EXCEPT ![w] = IF run THEN "look" ELSE "exited"]
    /\ UNCHANGED <<caller, created, run, counters, queue, queuemutex, work, added>>

\* Mutant: the last job is taken instead of the first.
TakeJobLast(w) ==
    /\ pc[w] = "look" /\ ~queuemutex
    /\ queue # <<>>
    /\ work' = [work EXCEPT ![w] = Last(queue)]
    /\ queue' = Front(queue)
    /\ pc' = [pc EXCEPT ![w] = "busy"]
    /\ UNCHANGED <<caller, created, run, counters, queuemutex, added>>

\* ... and then, under queuemutex, takes the first job ...
TakeJob(w) ==
    /\ pc[w] = "look" /\ ~queuemutex
    /\ queue # <<>>
    /\ work' = [work EXCEPT ![w] = Head(queue)]
    /\ queue' = Tail(queue)
    /\ pc' = [pc EXCEPT ![w] = "busy"]
    /\ UNCHANGED <<caller, created, run, counters, queuemutex, added>>

\* ... or sees that there is none, and lets go of queuemutex ...
SeeEmpty(w) ==
    /\ pc[w] = "look" /\ ~queuemutex
    /\ queue = <<>>
    /\ pc' = [pc EXCEPT ![w] = "idle"]
    /\ UNCHANGED <<caller, created, run, counters, queue, queuemutex, work, added>>

\* ... to count itself as waiting and wait, under condmutex.
GoToWait(w) ==
    /\ pc[w] = "idle"
    /\ waiting_threads' = waiting_threads + 1
    /\ is_initialized' = (is_initialized \/ waiting_threads + 1 = num_threads)
    /\ pc' = [pc EXCEPT ![w] = "wait"]
    /\ UNCHANGED <<caller, created, run, num_threads, queue, queuemutex, work, added>>

WakeUp(w) ==
    /\ pc[w] = "woken"
    /\ waiting_threads' = IF waiting_threads > 0 THEN waiting_threads - 1 ELSE 0
    /\ pc' = [pc EXCEPT ![w] = "loop"]
    /\ UNCHANGED <<caller, created, run, is_initialized, num_threads, queue, queuemutex, work, added>>

\* The job is executed and freed.
Complete(w) ==
    /\ pc[w] = "busy"
    /\ added' = SelectSeq(added, LAMBDA j : j # work[w])
    /\ work' = [work EXCEPT ![w] = None]
    /\ pc' = [pc EXCEPT ![w] = "loop"]
    /\ UNCHANGED <<caller, created, run, counters, queue, queuemutex>>

-----------------------------------------------------------------------------
Execute(w) ==
    TestRun(w) \/ TakeJob(w) \/ SeeEmpty(w) \/ GoToWait(w) \/ WakeUp(w) \/ Complete(w)

Create == CreateReturns \/ \E w \in Worker : CreateThread(w) \/ CreateFails(w)
Add == \E j \in Job : AddJob(j)
Destroy == Broadcast \/ Join

Next == Create \/ Add \/ Signal \/ Stop \/ Destroy \/ \E w \in Worker : Execute(w)

Spec == Init /\ [][Next]_vars

\* Every thread goes on while it can, queuemutex lets nobody in for ever, and
\* jobs come to an end.  The watch thread need not add jobs or stop.
Fairness ==
    /\ WF_vars(Create) /\ WF_vars(Signal) /\ WF_vars(Destroy)
    /\ \A w \in Worker : WF_vars(Execute(w)) /\ SF_vars(TakeJob(w) \/ SeeEmpty(w))

FairSpec == Spec /\ Fairness

-----------------------------------------------------------------------------
\* What does hold: as long as jobs are added again and again, a signal that was
\* not sent for one job is made up for by a later one.
ExecutedInStream ==
    []<><<Add>>_vars => \A j \in Job : j \in ToSet(queue) ~> j \notin ToSet(queue)

\* destroy_pool joins every thread and returns, if its broadcast finds no thread
\* on the way from its test of run to its wait.
DestroyReturns ==
    (caller = "stop" /\ \A w \in Worker : pc[w] \notin {"look", "idle"}) ~> caller = "gone"

=============================================================================
