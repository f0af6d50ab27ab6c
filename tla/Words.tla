------------------------------- MODULE Words -------------------------------
(***************************************************************************)
(* What an offloaded call is made of: machine words and addresses.         *)
(*                                                                         *)
(* An address is the object it points to and the region through which it   *)
(* is seen.  The kernel sees an object in the memory shared with the host, *)
(* in its own memory or in a user page; a packet carries the physical      *)
(* address, in the channel area or in the memory of the unikernels; the    *)
(* proxy has both areas mapped.                                            *)
(***************************************************************************)
EXTENDS Integers

CONSTANTS
    IntBits,    \* the width of int, 32 in the code
    LongBits    \* the width of QWORD and of long, 64 in the code

ASSUME WordAssumption ==
    IntBits \in Nat /\ LongBits \in Nat /\ 2 < IntBits /\ IntBits < LongBits

Signed(x, bits) ==
    LET low == x % 2^bits
    IN  IF low < 2^(bits - 1) THEN low ELSE low - 2^bits

\* The conversions of C: to QWORD or size_t, int, mode_t or socklen_t, and long.
Qword(x) == x % 2^LongBits
CInt(x) == Signed(x, IntBits)
CUint(x) == x % 2^IntBits
CLong(x) == Signed(x, LongBits)

Address(region, object) == [in |-> region, of |-> object]

Null == Address("nowhere", "nothing")

=============================================================================
