---------------------------- MODULE OffloadCalls ----------------------------
(***************************************************************************)
(* The two halves of the offloaded system calls together: the C library    *)
(* call that a program in the unikernel makes, the packet the kernel makes *)
(* of it, and the call that the proxy makes on the host.                   *)
(***************************************************************************)
EXTENDS Words, Sequences

Kernel == INSTANCE KernelCalls
Proxy == INSTANCE ProxyCalls

\* The types of the result and of the parameters of each call.
Prototype ==
    [read |-> <<"long", "int", "pointer", "size">>,
     write |-> <<"long", "int", "pointer", "size">>,
     open |-> <<"int", "pointer", "int", "unsigned">>,
     creat |-> <<"int", "pointer", "unsigned">>,
     close |-> <<"int", "int">>,
     lseek |-> <<"long", "int", "long", "int">>,
     link |-> <<"int", "pointer", "pointer">>,
     unlink |-> <<"int", "pointer">>,
     stat |-> <<"int", "pointer", "pointer">>,
     chdir |-> <<"int", "pointer">>,
     gethostname |-> <<"int", "pointer", "size">>,
     gethostbyname |-> <<"pointer", "pointer">>,
     getsockname |-> <<"int", "int", "pointer", "pointer">>,
     socket |-> <<"int", "int", "int", "int">>,
     bind |-> <<"int", "int", "pointer", "unsigned">>,
     listen |-> <<"int", "int", "int">>,
     connect |-> <<"int", "int", "pointer", "unsigned">>,
     accept |-> <<"int", "int", "pointer", "pointer">>,
     getcwd |-> <<"pointer", "pointer", "size">>,
     system |-> <<"int", "pointer">>,
     opendir |-> <<"stream", "pointer">>,
     closedir |-> <<"int", "stream">>,
     readdir |-> <<"pointer", "stream">>,
     rewinddir |-> <<"void", "stream">>]

Result(f) == Head(Prototype[f])
Parameters(f) == Tail(Prototype[f])

\* The values of a type.  Two objects tell the pointers of a call apart.
Value(type) ==
    CASE type = "int" -> -(2^(IntBits - 1)) .. 2^(IntBits - 1) - 1
      [] type = "unsigned" -> 0 .. 2^IntBits - 1
      [] type = "long" -> -(2^(LongBits - 1)) .. 2^(LongBits - 1) - 1
      [] type = "size" -> 0 .. 2^LongBits - 1
      [] type = "pointer" ->
            {Null} \cup [in : {"shared", "kernel", "user"}, of : {"x", "y"}]
      [] type = "stream" -> {Null} \cup [in : {"proxy"}, of : {"x", "y"}]

CallsOf(f) ==
    LET V(i) == Value(Parameters(f)[i])
        n == Len(Parameters(f))
        Arguments == CASE n = 1 -> {<<a>> : a \in V(1)}
                       [] n = 2 -> V(1) \X V(2)
                       [] n = 3 -> V(1) \X V(2) \X V(3)
    IN  [fun : {f}, arg : Arguments]

-----------------------------------------------------------------------------
IsNumber(c, i) ==
    i <= Len(Parameters(c.fun)) /\ Parameters(c.fun)[i] \in {"int", "unsigned", "long", "size"}

\* The stubs of the library put the arguments into registers.
Registers(c) == [i \in DOMAIN c.arg |-> IF IsNumber(c, i) THEN Qword(c.arg[i]) ELSE c.arg[i]]

PacketFor(c) == Kernel!process_systemcall(c.fun, Registers(c))

IsOffloaded(c) == PacketFor(c) \notin {Kernel!Rejected, Kernel!Console}

\* What the proxy's worker does for a packet.
Carried(packet) == Proxy!offload_local_proxy(packet.type, packet.param)

\* The same object as the proxy sees it.
Seen(a) ==
    CASE a.in = "shared" -> [a EXCEPT !.in = "mapped channels"]
      [] a.in \in {"kernel", "user"} -> [a EXCEPT !.in = "mapped memory"]
      [] OTHER -> a

\* The call that the host should make for c.  The kernel supplies the memory
\* for results that the C library would have supplied itself, and a mode of 0
\* is no mode.
HostCall(c) ==
    LET arg == CASE c.fun = "gethostbyname" -> c.arg \o Kernel!g_hp
                 [] c.fun = "getcwd" /\ c.arg[1] = Null -> <<Kernel!NewPage, c.arg[2]>>
                 [] c.fun = "open" /\ c.arg[3] = 0 -> SubSeq(c.arg, 1, 2)
                 [] OTHER -> c.arg
    IN  [fun |-> c.fun,
         arg |-> [i \in DOMAIN arg |-> IF IsNumber(c, i) THEN arg[i] ELSE Seen(arg[i])]]

\* The counts of read, write and gethostname pass through an int of the proxy.
Fits(c) ==
    \A i \in DOMAIN c.arg :
        c.fun \in {"read", "write", "gethostname"} /\ Parameters(c.fun)[i] = "size"
            => c.arg[i] < 2^(IntBits - 1)

\* For every call and all its arguments the two halves agree.
HalvesAgree ==
    \A f \in DOMAIN Prototype :
        /\ \A c \in CallsOf(f) :
              IsOffloaded(c) /\ Fits(c) => Carried(PacketFor(c)) = HostCall(c)
        /\ Result(f) \in {"int", "long"} =>
              \A r \in Value(Result(f)) : Kernel!Returned(f, Qword(r)) = r

=============================================================================
