---------------------------- MODULE SharedQueue ----------------------------
(***************************************************************************)
(* A circular queue between the unikernel and a proxy, step by step.  The  *)
(* kernel's threads send under the queue's ticket mutex, as in             *)
(* send_console_message; the proxy reads without any lock, and the two     *)
(* sides share nothing but the queue.  Each side tests the queue, copies   *)
(* the packet and moves its own index in separate steps.                   *)
(***************************************************************************)
EXTENDS TicketMutex, CircularQueue

CONSTANTS
    Size,       \* elements of the queue
    Message,    \* what a packet may hold
    Empty       \* what a slot holds before its first use

\* cq_avail_data takes size - 1 as a mask, so the size is a power of two.
ASSUME SizeAssumption == Size \in {2, 4, 8, 16, 32, 64, 128}
ASSUME EmptyAssumption == Empty \notin Message

VARIABLES
    cq,         \* the queue
    step, out,  \* where each sender is inside the mutex, and its message
    rpc, got    \* where the reader is, and the message it has copied

queueVars == <<vars, cq, step, out, rpc, got>>

Slot == 0 .. Size - 1

Queue == [size : {Size}, head : Slot, tail : Slot, data : [Slot -> Message \cup {Empty}]]

QueueTypeOK ==
    /\ TypeOK
    /\ cq \in Queue
    /\ step \in [Thread -> {"idle", "wait", "fill", "publish", "done"}]
    /\ out \in [Thread -> Message \cup {Empty}]
    /\ rpc \in {"wait", "copy", "release"}
    /\ got \in Message \cup {Empty}

QueueInit ==
    /\ Init
    /\ cq = CqInit(Size, Empty)
    /\ step = [p \in Thread |-> "idle"]
    /\ out = [p \in Thread |-> Empty]
    /\ rpc = "wait" /\ got = Empty

-----------------------------------------------------------------------------
(* A sender *)

Goto(p, from, to) == step[p] = from /\ step' = [step EXCEPT ![p] = to]

\* A send takes a ticket ...
Send(p, m) ==
    /\ MutexLock(p)
    /\ out' = [out EXCEPT ![p] = m]
    /\ UNCHANGED <<cq, step, rpc, got>>

\* ... enters when it is its turn ...
EnterSend(p) ==
    /\ MutexEnter(p)
    /\ Goto(p, "idle", "wait")
    /\ UNCHANGED <<cq, out, rpc, got>>

\* Mutant: the sender does not wait for space.
SeeSpaceAlways(p) ==
    /\ Goto(p, "wait", "fill")
    /\ UNCHANGED <<vars, cq, out, rpc, got>>

\* ... waits: while (cq_free_space(cq) == 0); ...
SeeSpace(p) ==
    /\ Goto(p, "wait", "fill")
    /\ CqFreeSpace(cq) # 0
    /\ UNCHANGED <<vars, cq, out, rpc, got>>

\* ... writes the packet ...
Fill(p) ==
    /\ Goto(p, "fill", "publish")
    /\ cq' = [cq EXCEPT !.data[cq.head] = out[p]]
    /\ UNCHANGED <<vars, out, rpc, got>>

\* ... moves head ...
Publish(p) ==
    /\ Goto(p, "publish", "done")
    /\ cq' = [cq EXCEPT !.head = (cq.head + 1) % cq.size]
    /\ out' = [out EXCEPT ![p] = Empty]
    /\ UNCHANGED <<vars, rpc, got>>

\* ... and unlocks.
LeaveSend(p) ==
    \/ /\ UnlockLoad(p)
       /\ Goto(p, "done", "idle")
       /\ UNCHANGED <<cq, out, rpc, got>>
    \/ /\ UnlockStore(p)
       /\ UNCHANGED <<cq, step, out, rpc, got>>

-----------------------------------------------------------------------------
(* The reader *)

\* The proxy's loop finds a packet ...
SeeData ==
    /\ rpc = "wait"
    /\ CqAvailData(cq) # 0
    /\ rpc' = "copy"
    /\ UNCHANGED <<vars, cq, step, out, got>>

\* ... copies what it needs ...
Copy ==
    /\ rpc = "copy"
    /\ got' = CqFirst(cq)
    /\ rpc' = "release"
    /\ UNCHANGED <<vars, cq, step, out>>

\* Mutant: tail stays where it is.
ReleaseNothing ==
    /\ rpc = "release"
    /\ rpc' = "wait"
    /\ UNCHANGED <<vars, cq, step, out, got>>

\* ... and moves tail.
Release ==
    /\ rpc = "release"
    /\ cq' = CqRemove(cq)
    /\ rpc' = "wait"
    /\ UNCHANGED <<vars, step, out, got>>

-----------------------------------------------------------------------------
Sender(p) == EnterSend(p) \/ SeeSpace(p) \/ Fill(p) \/ Publish(p) \/ LeaveSend(p)
Reader == SeeData \/ Copy \/ Release

QueueNext == Reader \/ \E p \in Thread : Sender(p) \/ \E m \in Message : Send(p, m)

QueueSpec == QueueInit /\ [][QueueNext]_queueVars

\* The cores of the senders and the proxy go on; nobody has to send.
QueueFairSpec ==
    QueueSpec /\ WF_queueVars(Reader) /\ \A p \in Thread : WF_queueVars(Sender(p))

-----------------------------------------------------------------------------
\* The packets in the queue, but for one the reader has copied already.
Content ==
    LET first == IF rpc = "release" THEN cq.tail + 1 ELSE cq.tail
        n == (cq.head - first) % cq.size
    IN  [i \in 1 .. n |-> cq.data[(first + i - 1) % cq.size]]

\* Who is past the wait for space has a free slot, which nobody but the holder
\* of the mutex fills; what the reader has found stays until it moves tail.
SlotsApart ==
    /\ \A p \in Thread :
          /\ step[p] # "idle" <=> pc[p] = "in"
          /\ pc[p] = "spin" \/ step[p] \in {"wait", "fill", "publish"} => out[p] \in Message
          /\ step[p] \in {"fill", "publish"} => CqFreeSpace(cq) # 0
          /\ step[p] = "publish" => cq.data[cq.head] = out[p]
    /\ rpc # "wait" => CqAvailData(cq) # 0
    /\ rpc = "release" => got = CqFirst(cq)

QueueInv == QueueTypeOK /\ TicketsInOrder /\ SlotsApart

Channel == INSTANCE BoundedFifo WITH
               Capacity <- Size - 1, channel <- Content, last <- got

\* Senders and reader, who never touch the same slot at once, form a first-in
\* first-out channel of Size - 1 messages: no packet is lost, repeated, torn or
\* overwritten, and every packet that was published is read.
ImplementsBoundedFifo == Channel!Spec

\* A send that has begun ends: the mutex is passed on, and the reader makes room.
EverySendEnds == \A p \in Thread : pc[p] # "out" ~> pc[p] = "out"

=============================================================================
