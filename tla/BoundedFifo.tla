---------------------------- MODULE BoundedFifo ----------------------------
(***************************************************************************)
(* What a circular queue promises one writer and one reader: a first-in    *)
(* first-out channel that holds at most Capacity messages.                 *)
(***************************************************************************)
EXTENDS Naturals, Sequences

CONSTANTS Message, Capacity

VARIABLES
    channel,    \* the messages sent and not yet taken
    last        \* the message taken last

Init == channel = <<>> /\ last \notin Message

Put(m) ==
    /\ Len(channel) < Capacity
    /\ channel' = Append(channel, m)
    /\ UNCHANGED last

Take ==
    /\ channel # <<>>
    /\ last' = Head(channel)
    /\ channel' = Tail(channel)

Next == (\E m \in Message : Put(m)) \/ Take

\* What the channel promises at every moment ...
Safety == Init /\ [][Next]_<<channel, last>>

\* ... and that it is read.
Spec == Safety /\ WF_<<channel, last>>(Take)

=============================================================================
