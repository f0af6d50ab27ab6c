----------------------------- MODULE RemoteCall -----------------------------
(***************************************************************************)
(* What the kernel's two I/O channels promise their callers, the threads   *)
(* that make console and file system calls: a call is carried out by the   *)
(* proxy once, and it returns the result of just that call.                *)
(***************************************************************************)
CONSTANTS Client, Request, None,
          Answer(_)     \* what the host answers to a request

VARIABLES
    stage,      \* where each client's call is: none, called or served
    request,    \* what it asked for
    result      \* what its last call returned, until the next

vars == <<stage, request, result>>

Init ==
    /\ stage = [c \in Client |-> "none"]
    /\ request = [c \in Client |-> None]
    /\ result = [c \in Client |-> None]

Call(c, r) ==
    /\ stage[c] = "none"
    /\ stage' = [stage EXCEPT ![c] = "called"]
    /\ request' = [request EXCEPT ![c] = r]
    /\ result' = [result EXCEPT ![c] = None]

Serve(c) ==
    /\ stage[c] = "called"
    /\ stage' = [stage EXCEPT ![c] = "served"]
    /\ UNCHANGED <<request, result>>

Return(c) ==
    /\ stage[c] = "served"
    /\ stage' = [stage EXCEPT ![c] = "none"]
    /\ result' = [result EXCEPT ![c] = Answer(request[c])]
    /\ request' = [request EXCEPT ![c] = None]

Next == \E c \in Client : (\E r \in Request : Call(c, r)) \/ Serve(c) \/ Return(c)

Spec == Init /\ [][Next]_vars

=============================================================================
