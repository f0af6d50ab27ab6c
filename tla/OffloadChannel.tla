--------------------------- MODULE OffloadChannel ---------------------------
(***************************************************************************)
(* Offloaded system calls: the sys_off_ functions of kernel/systemcall,    *)
(* the two queues of one core's channel, and the proxy of                  *)
(* sideloader/offload_proxy, whose watch thread hands every packet to a    *)
(* pool of workers.  Replies come back in the order the workers finish.    *)
(*                                                                         *)
(* The threads of a core share its channel, and the kernel is not          *)
(* preempted: one thread of the core runs at a time, and it gives way      *)
(* where the code calls schedule() or schedule_to().  So the queue's       *)
(* spinlock is never contended and a pass through it is one step.  The     *)
(* scheduler is the module Scheduler; here it picks any thread.            *)
(***************************************************************************)
EXTENDS CircularQueue, OffloadCalls, FiniteSets

CONSTANTS
    Thread,     \* the threads of the core
    Worker,     \* the threads of the proxy's pool for this channel
    Request,    \* the calls that the threads make
    OutSize,    \* elements of the queue to the proxy
    InSize,     \* elements of the queue from the proxy
    None

\* A packet to the proxy, and a reply, which is known by the call that was made.
PacketOf(t, r) == [tid |-> t, type |-> PacketFor(r).type, param |-> PacketFor(r).param]
ReplyTo(p) == [tid |-> p.tid, type |-> p.type, ret |-> Carried(p)]

Packet == {PacketOf(t, r) : t \in Thread, r \in Request}
ReplyPacket == {ReplyTo(p) : p \in Packet}

\* Calls with invalid arguments return -1 at once and are left out, like
\* output to the console.
ASSUME CallAssumption ==
    \A r \in Request : IsOffloaded(r) /\ \E f \in DOMAIN Prototype : r \in CallsOf(f)
ASSUME NoneAssumption == None \notin Request \cup Packet \cup ReplyPacket \cup Worker
ASSUME SizeAssumption == OutSize \in {2, 4, 8} /\ InSize \in {2, 4, 8}

VARIABLES
    ocq, icq,       \* the queues to and from the proxy
    current,        \* the thread that runs on the core
    pc, request,    \* where each thread is, and its call
    result,         \* what its last call returned, until the next
    jobs,           \* the job queue of the pool
    work,           \* the packet each worker serves
    done,           \* the workers that have carried it out and not yet replied
    mutex           \* the worker that holds the channel's mutex

kernel == <<current, pc, request, result>>
proxy == <<jobs, work, done, mutex>>
vars == <<ocq, icq, kernel, proxy>>

TypeOK ==
    /\ ocq \in CqOf(OutSize, Packet \cup {None})
    /\ icq \in CqOf(InSize, ReplyPacket \cup {None})
    /\ current \in Thread
    /\ pc \in [Thread -> {"user", "send", "receive"}]
    /\ request \in [Thread -> Request \cup {None}]
    /\ result \in [Thread -> {Carried(p) : p \in Packet} \cup {None}]
    /\ jobs \in Seq(Packet)
    /\ work \in [Worker -> Packet \cup {None}]
    /\ done \subseteq Worker
    /\ mutex \in Worker \cup {None}

\* The proxy has set up its channels (mmap_channels) and its pools.
Init ==
    /\ ocq = CqInit(OutSize, None) /\ icq = CqInit(InSize, None)
    /\ current \in Thread
    /\ pc = [t \in Thread |-> "user"]
    /\ request = [t \in Thread |-> None]
    /\ result = [t \in Thread |-> None]
    /\ jobs = <<>>
    /\ work = [w \in Worker |-> None]
    /\ done = {}
    /\ mutex = None

-----------------------------------------------------------------------------
(* The kernel *)

Goto(t, from, to) == current = t /\ pc[t] = from /\ pc' = [pc EXCEPT ![t] = to]

\* A system call of a thread.
Call(t) == \E r \in Request :
    /\ Goto(t, "user", "send")
    /\ request' = [request EXCEPT ![t] = r]
    /\ result' = [result EXCEPT ![t] = None]
    /\ UNCHANGED <<ocq, icq, current, proxy>>

\* The timer ends the slice of a thread outside the kernel.
Preempt(t) ==
    /\ current = t /\ pc[t] = "user"
    /\ current' \in Thread \ {t}
    /\ UNCHANGED <<ocq, icq, pc, request, result, proxy>>

\* send_offload_message: the queue has space ...
Send(t) ==
    /\ Goto(t, "send", "receive")
    /\ CqFreeSpace(ocq) # 0
    /\ ocq' = CqAdd(ocq, PacketOf(t, request[t]))
    /\ UNCHANGED <<icq, current, request, result, proxy>>

\* ... or, after a while, it has still none: schedule().
SendYield(t) ==
    /\ current = t /\ pc[t] = "send"
    /\ CqFreeSpace(ocq) = 0
    /\ current' \in Thread \ {t}
    /\ UNCHANGED <<ocq, icq, pc, request, result, proxy>>

\* Mutant: the thread id of a reply is not looked at.
ReceiveAny(t) ==
    LET p == CqFirst(icq) IN
    /\ Goto(t, "receive", "user")
    /\ CqAvailData(icq) # 0
    /\ result' = [result EXCEPT ![t] = p.ret]
    /\ request' = [request EXCEPT ![t] = None]
    /\ icq' = CqRemove(icq)
    /\ UNCHANGED <<ocq, current, proxy>>

\* receive_offload_message: a reply for this thread ends the call ...
Receive(t) ==
    LET p == CqFirst(icq) IN
    /\ Goto(t, "receive", "user")
    /\ CqAvailData(icq) # 0
    /\ p.tid = t
    /\ result' = [result EXCEPT ![t] = p.ret]
    /\ request' = [request EXCEPT ![t] = None]
    /\ icq' = CqRemove(icq)
    /\ UNCHANGED <<ocq, current, proxy>>

\* Mutant: a reply for another thread is polled, not handed over.
ReceiveOtherStays(t) ==
    /\ current = t /\ pc[t] = "receive"
    /\ CqAvailData(icq) # 0
    /\ CqFirst(icq).tid # t
    /\ UNCHANGED vars

\* ... a reply for another thread is left to it, by schedule_to() ...
ReceiveOther(t) ==
    LET p == CqFirst(icq) IN
    /\ current = t /\ pc[t] = "receive"
    /\ CqAvailData(icq) # 0
    /\ p.tid # t
    /\ current' = p.tid
    /\ UNCHANGED <<ocq, icq, pc, request, result, proxy>>

\* ... and without a reply the thread gives way by schedule().
ReceiveYield(t) ==
    /\ current = t /\ pc[t] = "receive"
    /\ CqAvailData(icq) = 0
    /\ current' \in Thread \ {t}
    /\ UNCHANGED <<ocq, icq, pc, request, result, proxy>>

-----------------------------------------------------------------------------
(* The proxy *)

\* offload_watch copies the packet, frees its slot and adds a job.
Watch ==
    /\ CqAvailData(ocq) # 0
    /\ jobs' = Append(jobs, CqFirst(ocq))
    /\ ocq' = CqRemove(ocq)
    /\ UNCHANGED <<icq, kernel, work, done, mutex>>

\* A worker of the pool takes the first job (thread_executor).
TakeJob(w) ==
    /\ work[w] = None
    /\ jobs # <<>>
    /\ work' = [work EXCEPT ![w] = Head(jobs)]
    /\ jobs' = Tail(jobs)
    /\ UNCHANGED <<ocq, icq, kernel, done, mutex>>

\* It carries out the call, which may take as long as it likes ...
Serve(w) ==
    /\ work[w] # None /\ w \notin done
    /\ done' = done \cup {w}
    /\ UNCHANGED <<ocq, icq, kernel, jobs, work, mutex>>

\* ... locks the channel ...
Lock(w) ==
    /\ w \in done
    /\ mutex = None
    /\ mutex' = w
    /\ UNCHANGED <<ocq, icq, kernel, jobs, work, done>>

\* Mutant: the worker replies and keeps its packet.
ReplyAgain(w) ==
    /\ mutex = w
    /\ CqFreeSpace(icq) # 0
    /\ icq' = CqAdd(icq, ReplyTo(work[w]))
    /\ mutex' = None
    /\ UNCHANGED <<ocq, kernel, jobs, work, done>>

\* ... waits for space, replies and unlocks.
Reply(w) ==
    /\ mutex = w
    /\ CqFreeSpace(icq) # 0
    /\ icq' = CqAdd(icq, ReplyTo(work[w]))
    /\ mutex' = None
    /\ work' = [work EXCEPT ![w] = None]
    /\ done' = done \ {w}
    /\ UNCHANGED <<ocq, kernel, jobs>>

-----------------------------------------------------------------------------
CoreStep(t) ==
    \/ Send(t) \/ SendYield(t)
    \/ Receive(t) \/ ReceiveOther(t) \/ ReceiveYield(t)
    \/ Preempt(t)

\* The scheduler picks thread t.
Dispatch(t) ==
    /\ \E u \in Thread : SendYield(u) \/ ReceiveYield(u) \/ Preempt(u)
    /\ current' = t

Next ==
    \/ \E t \in Thread : CoreStep(t) \/ Call(t)
    \/ Watch
    \/ \E w \in Worker : TakeJob(w) \/ Serve(w) \/ Lock(w) \/ Reply(w)

Spec == Init /\ [][Next]_vars

\* The core goes on, and its scheduler lets every thread run again and again
\* (it passes a thread over for ever only when another exits, as described in the
\* README, and the threads here do not).  The proxy's workers go on, and the host's mutex is fair.  That
\* a worker takes a packet, and that the host ever completes a call, is not
\* assumed.
Fairness ==
    /\ WF_vars(\E t \in Thread : CoreStep(t))
    /\ \A t \in Thread : SF_vars(Dispatch(t))
    /\ \A w \in Worker : SF_vars(Lock(w)) /\ WF_vars(Reply(w))

FairSpec == Spec /\ Fairness

-----------------------------------------------------------------------------
\* The places where a call that was sent can be, and the packet or reply there.
Places ==
    ({"out"} \X CqSlots(ocq)) \cup ({"job"} \X DOMAIN jobs)
        \cup ({"work"} \X {w \in Worker : work[w] # None}) \cup ({"in"} \X CqSlots(icq))

Letter(x) ==
    CASE x[1] = "out" -> ocq.data[x[2]]
      [] x[1] = "job" -> jobs[x[2]]
      [] x[1] = "work" -> work[x[2]]
      [] x[1] = "in" -> icq.data[x[2]]

\* What is under way is the call, or the reply to the call, of a thread that
\* waits for it in receive_offload_message ...
LettersAwaited ==
    \A x \in Places :
        LET t == Letter(x).tid
            p == PacketOf(t, request[t])
        IN  /\ t \in Thread /\ pc[t] = "receive"
            /\ Letter(x) = IF x[1] = "in" THEN ReplyTo(p) ELSE p

\* ... and nothing else of that thread is under way.
OneLetterEach ==
    \A x, y \in Places : Letter(x).tid = Letter(y).tid => x = y

\* A thread in the kernel makes a call; a worker that has carried out a call has
\* its packet, and one that holds the mutex has carried out a call.
Engaged ==
    /\ \A t \in Thread : pc[t] # "user" => request[t] \in Request
    /\ \A w \in done : work[w] # None
    /\ mutex # None => mutex \in done

\* The invariant that the proofs of OffloadChannelProofs rest on.
ChannelInv == TypeOK /\ LettersAwaited /\ OneLetterEach /\ Engaged

\* Has the call of thread t been carried out?
Waiting(t) ==
    \/ \E i \in CqSlots(ocq) : ocq.data[i].tid = t
    \/ \E i \in DOMAIN jobs : jobs[i].tid = t
    \/ \E w \in Worker \ done : work[w] # None /\ work[w].tid = t

Stage(t) ==
    IF pc[t] = "user" THEN "none"
    ELSE IF pc[t] = "send" \/ Waiting(t) THEN "called" ELSE "served"

Remote == INSTANCE RemoteCall WITH
              Client <- Thread, Answer <- HostCall,
              stage <- [t \in Thread |-> Stage(t)]

\* Although replies overtake each other and are matched by thread id alone, an
\* offloaded call is carried out once and returns the result of just that call.
ImplementsRemoteCall == Remote!Spec

\* A call that the host has carried out returns, however long the other calls
\* take: the thread that polls hands the core to the thread whose reply is first.
CarriedCallReturns ==
    \A t \in Thread : (\E w \in done : work[w].tid = t) ~> pc[t] = "user"

\* There is always somebody who can consume what fills the queues: the reply at
\* the head of the queue is for a thread that waits for it, so schedule_to()
\* switches to a thread in receive_offload_message.
HeadIsAwaited ==
    CqAvailData(icq) # 0 => pc[CqFirst(icq).tid] = "receive"

\* Whatever call the running thread makes, with whatever arguments, the two
\* halves agree on it: unless the kernel turns it away, the proxy makes the same
\* call with the same numbers and the same objects, provided that counts fit an
\* int, and every number that the host returns is the one that the thread gets.
OffloadedAsCalled == pc[current] = "user" => HalvesAgree

=============================================================================
