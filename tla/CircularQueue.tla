--------------------------- MODULE CircularQueue ---------------------------
(***************************************************************************)
(* The circular queue in shared memory that carries messages between a     *)
(* unikernel and its proxies: struct circular_queue of                     *)
(* kernel/offload/offload_channel.h, with the functions that the kernel,   *)
(* the offload proxy and the console proxy each have a copy of.  A queue   *)
(* is a record; head and tail are slots, and one slot stays free.          *)
(***************************************************************************)
EXTENDS Integers

\* Bit i of the two's complement of n.
Bit(n, i) == (n \div 2^i) % 2

\* n & m, for a mask of at most eight bits.
And(n, m) ==
    LET b(i) == 2^i * Bit(n, i) * Bit(m, i)
    IN  b(0) + b(1) + b(2) + b(3) + b(4) + b(5) + b(6) + b(7)

\* The queues of a size, and of what their slots may hold.
CqOf(size, Element) ==
    [size : {size}, head : 0 .. size - 1, tail : 0 .. size - 1,
     data : [0 .. size - 1 -> Element]]

CqInit(size, empty) ==
    [size |-> size, head |-> 0, tail |-> 0, data |-> [i \in 0 .. size - 1 |-> empty]]

CqAvailData(cq) == And(cq.head - cq.tail, cq.size - 1)

CqFreeSpace(cq) == cq.size - 1 - CqAvailData(cq)

\* The slot a reader looks at.
CqFirst(cq) == cq.data[cq.tail]

\* The slots in use.
CqSlots(cq) == {(cq.tail + i) % cq.size : i \in 0 .. CqAvailData(cq) - 1}

\* Fill the slot at head, then publish it.
CqAdd(cq, packet) ==
    [cq EXCEPT !.data[cq.head] = packet, !.head = (cq.head + 1) % cq.size]

CqRemove(cq) == [cq EXCEPT !.tail = (cq.tail + 1) % cq.size]

=============================================================================
