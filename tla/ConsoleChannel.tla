--------------------------- MODULE ConsoleChannel ---------------------------
(***************************************************************************)
(* The console: kernel/console of the unikernel and the console proxy of   *)
(* sideloader/offload_console.  cs_printf, cs_puts, cs_write and cs_exit   *)
(* put a packet in the queue to the proxy and wait for a packet with their *)
(* thread id and type in the queue back.  Both queues are guarded on the   *)
(* kernel's side by a ticket mutex, which is a line here (TicketMutex      *)
(* implements FifoLock); SharedQueue justifies that a packet is written    *)
(* and published, or read and released, in one step.  Callers run on       *)
(* different cores: a caller spins with interrupts off.                    *)
(***************************************************************************)
EXTENDS CircularQueue, Sequences, FiniteSets

CONSTANTS
    Caller,     \* the threads that use the console
    Type,       \* the console_function_types in use
    Text,       \* what they print
    Size,       \* CONSOLE_CHANNEL_CQ_ELEMENT_NUM
    None

Request == [type : Type \ {"exit"}, text : Text]
               \cup [type : Type \cap {"exit"}, text : {None}]
Packet == {[tid |-> c, type |-> r.type, text |-> r.text] : c \in Caller, r \in Request}

ASSUME NoneAssumption == None \notin Packet \cup Request \cup Text
ASSUME SizeAssumption == Size \in {2, 4, 8}

VARIABLES
    ocq, icq,       \* the queues to and from the proxy
    oline, iline,   \* the threads that hold or wait for the mutex of each
    pc, request,    \* where each caller is, and its call
    result,         \* what its last call returned, until the next
    running,        \* g_console_proxy_runnable
    job             \* the packet the proxy has taken and not answered

vars == <<ocq, icq, oline, iline, pc, request, result, running, job>>

TypeOK ==
    /\ ocq \in CqOf(Size, Packet \cup {None}) /\ icq \in CqOf(Size, Packet \cup {None})
    /\ oline \in Seq(Caller) /\ iline \in Seq(Caller)
    /\ pc \in [Caller -> {"user", "send", "sent", "receive"}]
    /\ request \in [Caller -> Request \cup {None}]
    /\ result \in [Caller -> Request \cup {None}]
    /\ running \in BOOLEAN
    /\ job \in Packet \cup {None}

\* init_console_channel has found the proxy's magic number.
Init ==
    /\ ocq = CqInit(Size, None) /\ icq = CqInit(Size, None)
    /\ oline = <<>> /\ iline = <<>>
    /\ pc = [c \in Caller |-> "user"]
    /\ request = [c \in Caller |-> None]
    /\ result = [c \in Caller |-> None]
    /\ running = TRUE
    /\ job = None

Goto(c, from, to) == pc[c] = from /\ pc' = [pc EXCEPT ![c] = to]

-----------------------------------------------------------------------------
(* The kernel *)

\* send_console_message takes a ticket of the out queue's mutex ...
Call(c, r) ==
    /\ Goto(c, "user", "send")
    /\ request' = [request EXCEPT ![c] = r]
    /\ result' = [result EXCEPT ![c] = None]
    /\ oline' = Append(oline, c)
    /\ UNCHANGED <<ocq, icq, iline, running, job>>

\* ... and, holding it, waits for space.
Send(c) ==
    /\ Goto(c, "send", "sent")
    /\ Head(oline) = c
    /\ CqFreeSpace(ocq) # 0
    /\ ocq' = CqAdd(ocq, [tid |-> c, type |-> request[c].type, text |-> request[c].text])
    /\ oline' = Tail(oline)
    /\ UNCHANGED <<icq, iline, request, result, running, job>>

\* receive_console_message takes a ticket of the in queue's mutex ...
Wait(c) ==
    /\ Goto(c, "sent", "receive")
    /\ iline' = Append(iline, c)
    /\ UNCHANGED <<ocq, icq, oline, request, result, running, job>>

\* Mutant: the thread id of an answer is not looked at.
IsForType(p, c) == p.type = request[c].type

IsFor(p, c) == p.tid = c /\ p.type = request[c].type

\* ... and, holding it, waits for a packet.  One of its own ends the call ...
Receive(c) ==
    LET p == CqFirst(icq) IN
    /\ Goto(c, "receive", "user")
    /\ Head(iline) = c
    /\ CqAvailData(icq) # 0
    /\ IsFor(p, c)
    /\ result' = [result EXCEPT ![c] = [type |-> p.type, text |-> p.text]]
    /\ request' = [request EXCEPT ![c] = None]
    /\ icq' = CqRemove(icq)
    /\ iline' = Tail(iline)
    /\ UNCHANGED <<ocq, oline, running, job>>

\* Mutant: the mutex is kept while the caller polls for its own answer.
RetryKeepsLock(c) ==
    /\ pc[c] = "receive"
    /\ Head(iline) = c
    /\ CqAvailData(icq) # 0
    /\ ~ IsFor(CqFirst(icq), c)
    /\ UNCHANGED vars

\* ... another thread's makes it start over.
Retry(c) ==
    /\ Goto(c, "receive", "sent")
    /\ Head(iline) = c
    /\ CqAvailData(icq) # 0
    /\ ~ IsFor(CqFirst(icq), c)
    /\ iline' = Tail(iline)
    /\ UNCHANGED <<ocq, icq, oline, request, result, running, job>>

-----------------------------------------------------------------------------
(* The proxy *)

\* console_print and console_off_write copy the packet, free its slot and
\* write to the terminal ...
Execute ==
    /\ running /\ job = None
    /\ CqAvailData(ocq) # 0
    /\ CqFirst(ocq).type # "exit"
    /\ job' = CqFirst(ocq)
    /\ ocq' = CqRemove(ocq)
    /\ UNCHANGED <<icq, oline, iline, pc, request, result, running>>

\* ... and send the answer as soon as there is space for it.
Reply ==
    /\ job # None
    /\ CqFreeSpace(icq) # 0
    /\ icq' = CqAdd(icq, job)
    /\ job' = None
    /\ UNCHANGED <<ocq, oline, iline, pc, request, result, running>>

\* CONSOLE_EXIT stops the proxy.
Stop ==
    /\ running /\ job = None
    /\ CqAvailData(ocq) # 0
    /\ CqFirst(ocq).type = "exit"
    /\ running' = FALSE
    /\ UNCHANGED <<ocq, icq, oline, iline, pc, request, result, job>>

-----------------------------------------------------------------------------
Kernel(c) == Send(c) \/ Wait(c) \/ Receive(c) \/ Retry(c)
Proxy == Execute \/ Reply \/ Stop

Next == Proxy \/ \E c \in Caller : Kernel(c) \/ \E r \in Request : Call(c, r)

Spec == Init /\ [][Next]_vars

FairSpec == Spec /\ WF_vars(Proxy) /\ \A c \in Caller : WF_vars(Kernel(c))

-----------------------------------------------------------------------------
\* A packet of thread c that the proxy has not taken.
InFlight(c) == \E i \in CqSlots(ocq) : ocq.data[i].tid = c

Stage(c) ==
    IF pc[c] = "user" THEN "none"
    ELSE IF pc[c] = "send" \/ InFlight(c) THEN "called" ELSE "served"

\* The answer is known by its request.
Same(r) == r

Remote == INSTANCE RemoteCall WITH
              Client <- Caller, Answer <- Same, stage <- [c \in Caller |-> Stage(c)]

\* Callers that share the two queues do not notice each other: every print or
\* write is carried out once and returns the result of that very call, although
\* answers come back in one queue that all the callers look into.
ImplementsRemoteCall == Remote!Spec

\* Every call returns, unless cs_exit stops the proxy first: then nobody answers
\* the calls that are left, that of cs_exit among them.
ReturnsWhileProxyRuns ==
    \A c \in Caller : pc[c] # "user" ~> pc[c] = "user" \/ ~running

=============================================================================
