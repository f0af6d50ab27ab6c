------------------------- MODULE IrqSpinlockProofs -------------------------
(* Theorems about IrqSpinlock, for any set of cores and any bounds. *)
EXTENDS IrqSpinlock, SequenceTheorems, TLAPS

\* Contexts are pairs only in the few steps that cite the definition.

\* The active context of a core is one of its two contexts.
LEMMA ActiveContext ==
    ASSUME TypeOK, NEW c \in Core
    PROVE  Active(c) \in Context /\ Active(c)[1] = c
BY DEF TypeOK, Active, Context

\* The initial state satisfies the invariant.
LEMMA InitIndInv == Init => IndInv
<1> SUFFICES ASSUME Init PROVE IndInv
    OBVIOUS
<1>1. TypeOK
    <2>1. /\ flags \in BOOLEAN
          /\ irq \in [Core -> BOOLEAN]
          /\ handling \in [Core -> BOOLEAN]
          /\ saved \in [Context -> BOOLEAN]
          /\ entry \in [Context -> BOOLEAN]
        BY Zenon DEF Init
    <2> QED BY <2>1 DEF Init, TypeOK
<1>2. TicketsDistinct
    BY DEF Init, TicketsDistinct, HasTicket, Inside
<1>3. BusyIsMasked
    <2> SUFFICES ASSUME NEW c \in Core PROVE ~handling[c] /\ ~Busy(Active(c)) /\ ~Busy(<<c, "irq">>)
        BY DEF BusyIsMasked
    <2>1. ~handling[c]
        BY Zenon DEF Init
    <2> QED BY <2>1 DEF Init, Busy, Active, Context
<1>4. OwnerRecorded
    BY DEF Init, OwnerRecorded
<1>5. FlagKept
    BY DEF Init, FlagKept
<1> QED BY <1>1, <1>2, <1>3, <1>4, <1>5 DEF IndInv

\* Every step preserves the types.
LEMMA StepTypeOK == TypeOK /\ [Next]_vars => TypeOK'
<1> SUFFICES ASSUME TypeOK, [Next]_vars PROVE TypeOK'
    OBVIOUS
<1>1. CASE UNCHANGED vars
    BY <1>1 DEF vars, TypeOK
<1>2. ASSUME NEW c \in Core,
             Disable(c) \/ LockStep(c) \/ UnlockStep(c) \/ Interrupt(c)
             \/ InterruptReturn(c) \/ ToggleMask(c)
      PROVE  TypeOK'
    <2> Active(c) \in Context
        BY ActiveContext
    <2>1. CASE Disable(c)
        BY <2>1 DEF Disable, Goto, TypeOK, lock
    <2>2. CASE Check(c)
        BY <2>2 DEF Check, Goto, TypeOK, lock
    <2>3. CASE TakeTicket(c)
        BY <2>3 DEF TakeTicket, Goto, TypeOK, lock
    <2>4. CASE Enter(c)
        BY <2>4 DEF Enter, Goto, TypeOK, lock
    <2>5. CASE SetOwner(c)
        BY <2>5 DEF SetOwner, Goto, TypeOK, lock
    <2>6. CASE Record(c)
        BY <2>6 DEF Record, Goto, TypeOK, lock
    <2>7. CASE CountDown(c)
        BY <2>7 DEF CountDown, Goto, TypeOK, lock
    <2>8. CASE Drop(c)
        BY <2>8 DEF Drop, Goto, TypeOK, lock
    <2>9. CASE PassOn(c)
        BY <2>9 DEF PassOn, Goto, TypeOK, lock
    <2>10. CASE Restore(c)
        BY <2>10 DEF Restore, Goto, TypeOK, lock
    <2>11. CASE Interrupt(c) \/ InterruptReturn(c) \/ ToggleMask(c)
        BY <2>11 DEF Interrupt, InterruptReturn, ToggleMask, TypeOK, lock
    <2> QED BY <1>2, <2>1, <2>2, <2>3, <2>4, <2>5, <2>6, <2>7, <2>8, <2>9,
                <2>10, <2>11 DEF LockStep, UnlockStep
<1> QED BY <1>1, <1>2 DEF Next

\* A context is determined by its core and its kind.
LEMMA ContextPair ==
    /\ \A y \in Context : y[1] \in Core /\ y[2] \in {"task", "irq"} /\ y = <<y[1], y[2]>>
    /\ \A c \in Core : <<c, "task">> \in Context /\ <<c, "irq">> \in Context
BY DEF Context

\* The other context of a core has no business with the lock.
LEMMA OtherContextIdle ==
    ASSUME TypeOK, BusyIsMasked, NEW y \in Context, y # Active(y[1])
    PROVE  ~Busy(y)
<1>1. y[1] \in Core /\ (y = <<y[1], "task">> \/ y = <<y[1], "irq">>)
    BY ContextPair
<1>2. CASE handling[y[1]]
    <2>1. y = <<y[1], "task">>
        BY <1>1, <1>2 DEF Active
    <2> QED BY <1>1, <1>2, <2>1, Zenon DEF BusyIsMasked
<1>3. CASE ~handling[y[1]]
    <2>1. y = <<y[1], "irq">>
        BY <1>1, <1>3 DEF Active
    <2> QED BY <1>1, <1>3, <2>1, Zenon DEF BusyIsMasked
<1> QED BY <1>2, <1>3

\* Two contexts of one core that are both busy are the same.
LEMMA BusyUnique ==
    ASSUME TypeOK, BusyIsMasked, NEW y \in Context, NEW z \in Context,
           y[1] = z[1], Busy(y), Busy(z)
    PROVE  y = z
BY OtherContextIdle

\* A step of lock() or unlock() on core c disturbs only the context that is
\* active there, so BusyIsMasked survives when the flag stays clear.
LEMMA StepBusyIsMasked ==
    ASSUME TypeOK, BusyIsMasked, TypeOK', NEW c \in Core,
           UNCHANGED handling,
           \A y \in Context : y # Active(c) => pc'[y] = pc[y] /\ depth'[y] = depth[y],
           \A d \in Core : d # c => irq'[d] = irq[d],
           ~irq'[c] \/ (pc'[Active(c)] = "out" /\ depth'[Active(c)] = 0),
           handling[c] => ~irq'[c]
    PROVE  BusyIsMasked'
<1> SUFFICES ASSUME NEW d \in Core
             PROVE  /\ handling'[d] => ~irq'[d] /\ ~Busy(<<d, "task">>)'
                    /\ ~handling'[d] => ~Busy(<<d, "irq">>)'
                    /\ Busy(Active(d))' => ~irq'[d]
    BY DEF BusyIsMasked
<1>1. /\ <<d, "task">> \in Context
      /\ <<d, "irq">> \in Context
    BY ContextPair
<1>2. CASE d = c
    BY <1>1, <1>2 DEF BusyIsMasked, Busy, Active
<1>3. CASE d # c
    <2>1. <<d, "task">> # Active(c) /\ <<d, "irq">> # Active(c)
        BY <1>3 DEF Active
    <2> QED BY <1>1, <1>3, <2>1 DEF BusyIsMasked, Busy, Active
<1> QED BY <1>2, <1>3

\* A step of the context x that neither changes the owner nor begins or ends
\* x's ownership keeps the owner recorded.
LEMMA StepOwnerRecorded ==
    ASSUME TypeOK, OwnerRecorded, TypeOK', NEW x \in Context,
           UNCHANGED <<cid, cnt, depth>>,
           \A y \in Context : y # x => pc'[y] = pc[y],
           depth[x] > 0 => pc'[x] \in {"out", "check"},
           pc'[x] \in {"record", "drop"} <=> pc[x] \in {"record", "drop"}
    PROVE  OwnerRecorded'
<1>1. \A y \in Context : pc'[y] \in {"record", "drop"} <=> pc[y] \in {"record", "drop"}
    OBVIOUS
<1>2. \A y \in Context : depth[y] > 0 => pc'[y] \in {"out", "check"}
    BY DEF OwnerRecorded
<1>3. ASSUME cid # NoCore
      PROVE  \E k \in {"task", "irq"} :
                 depth[<<cid, k>>] > 0 \/ pc'[<<cid, k>>] \in {"record", "drop"}
    <2>1. PICK k \in {"task", "irq"} :
              depth[<<cid, k>>] > 0 \/ pc[<<cid, k>>] \in {"record", "drop"}
        BY <1>3 DEF OwnerRecorded
    <2>2. <<cid, k>> \in Context
        BY <1>3, ContextPair DEF TypeOK
    <2> QED BY <2>1, <2>2, <1>1
<1> QED BY <1>1, <1>2, <1>3 DEF OwnerRecorded

\* A step that leaves the context x the only owner of the lock, and on record.
LEMMA SoleOwner ==
    ASSUME NEW x \in Context,
           cid' = x[1],
           depth'[x] > 0 => cnt' = depth'[x] /\ pc'[x] \in {"out", "check"},
           depth'[x] > 0 \/ pc'[x] \in {"record", "drop"},
           \A y \in Context : y # x => ~(depth'[y] > 0) /\ pc'[y] \notin {"record", "drop"}
    PROVE  OwnerRecorded'
<1>1. ASSUME NEW y \in Context
      PROVE  /\ depth'[y] > 0 => cid' = y[1] /\ cnt' = depth'[y] /\ pc'[y] \in {"out", "check"}
             /\ pc'[y] \in {"record", "drop"} => cid' = y[1]
    <2>1. CASE y = x
        BY <2>1
    <2>2. CASE y # x
        BY <2>2
    <2> QED BY <2>1, <2>2
<1>2. \E k \in {"task", "irq"} :
          depth'[<<cid', k>>] > 0 \/ pc'[<<cid', k>>] \in {"record", "drop"}
    <2>1. x[2] \in {"task", "irq"} /\ x = <<cid', x[2]>>
        BY ContextPair
    <2> QED BY <2>1
<1> QED BY <1>1, <1>2, Zenon DEF OwnerRecorded

\* A step that gives out no ticket and lets in only who is next.
LEMMA StepTicketsDistinct ==
    ASSUME TicketsDistinct, UNCHANGED <<queue, dequeue, ticket>>,
           \A y \in Context : HasTicket(y)' => HasTicket(y),
           \A y \in Context : Inside(y)' => Inside(y) \/ ticket[y] = dequeue
    PROVE  TicketsDistinct'
BY DEF TicketsDistinct

\* Distinct tickets make the critical section exclusive.
LEMMA OneInside ==
    ASSUME TypeOK, TicketsDistinct
    PROVE  MutualExclusion
BY DEF TicketsDistinct, MutualExclusion, HasTicket

\* The recursion test is exact: a core that finds its number in lock->cid is in
\* a nested call.
LEMMA RecursionTest ==
    ASSUME IndInv, NEW c \in Core, pc[Active(c)] = "check"
    PROVE  cid = c <=> depth[Active(c)] > 0
<1> DEFINE x == Active(c)
<1>1. x \in Context /\ x[1] = c /\ Busy(x)
    BY ActiveContext DEF IndInv, Busy
<1>2. ASSUME cid = c PROVE depth[x] > 0
    <2>1. PICK k \in {"task", "irq"} :
              depth[<<c, k>>] > 0 \/ pc[<<c, k>>] \in {"record", "drop"}
        BY <1>2, CoreAssumption DEF IndInv, OwnerRecorded
    <2>2. <<c, k>> \in Context /\ <<c, k>>[1] = c /\ Busy(<<c, k>>)
        BY <2>1, ContextPair DEF Busy
    <2>3. <<c, k>> = x
        BY <1>1, <2>2, BusyUnique DEF IndInv
    <2> QED BY <2>1, <2>3
<1>3. ASSUME depth[x] > 0 PROVE cid = c
    BY <1>1, <1>3 DEF IndInv, OwnerRecorded
<1> QED BY <1>2, <1>3

\* The invariant is inductive: one step for each action of a core c.
LEMMA StepOfCore ==
    ASSUME IndInv, TypeOK', NEW c \in Core,
           NEW x \in Context, x = Active(c), x[1] = c,
           Disable(c) \/ LockStep(c) \/ UnlockStep(c) \/ Interrupt(c)
           \/ InterruptReturn(c) \/ ToggleMask(c)
    PROVE  IndInv'
<1> TypeOK /\ TicketsDistinct /\ BusyIsMasked /\ OwnerRecorded /\ FlagKept
    BY DEF IndInv
<1>1. ASSUME Disable(c) PROVE IndInv'
    <2>0. /\ pc[x] = "out" /\ pc'[x] = "check" /\ ~irq'[c]
          /\ UNCHANGED <<cid, cnt, depth, handling>>
          /\ \A y \in Context : y # x => pc'[y] = pc[y]
          /\ \A d \in Core : d # c => irq'[d] = irq[d]
        BY <1>1 DEF Disable, Goto, lock, TypeOK
    <2>1. TicketsDistinct'
        BY <1>1 DEF Disable, Goto, lock, TypeOK, TicketsDistinct, HasTicket, Inside
    <2>2. BusyIsMasked'
        BY <2>0, StepBusyIsMasked
    <2>3. OwnerRecorded'
        BY <2>0, StepOwnerRecorded
    <2>3a. x[2] = "irq" => ~irq[c]
        BY DEF Active, BusyIsMasked
    <2>4. FlagKept'
        <3> SUFFICES ASSUME NEW y \in Context
                     PROVE  /\ y[2] = "irq" => ~entry'[y]
                            /\ depth'[y] > 0 \/ pc'[y] = "drop" => flags' = entry'[y]
                            /\ depth'[y] = 0 /\ pc'[y] \notin {"out", "drop"} => saved'[y] = entry'[y]
            BY DEF FlagKept
        <3>1. CASE y = x
            BY <3>1, <1>1, <2>3a, SMTT(30) DEF Disable, Goto, lock, TypeOK, OwnerRecorded, FlagKept
        <3>2. CASE y # x
            BY <3>2, <1>1 DEF Disable, Goto, lock, TypeOK, FlagKept
        <3> QED BY <3>1, <3>2
    <2> QED BY <2>1, <2>2, <2>3, <2>4 DEF IndInv
<1>2. ASSUME Check(c) PROVE IndInv'
    <2>1. pc[x] = "check" /\ (cid = c <=> depth[x] > 0) /\ ~irq[c]
        BY <1>2, RecursionTest DEF Check, Goto, BusyIsMasked, Busy
    <2>2. /\ UNCHANGED <<queue, dequeue, cid, flags, irq, handling, ticket, saved, entry>>
          /\ \A y \in Context : y # x => pc'[y] = pc[y] /\ depth'[y] = depth[y]
        BY <1>2 DEF Check, Goto, TypeOK, lock
    <2>3. CASE cid = c
        <3>1. pc'[x] = "out" /\ depth'[x] = depth[x] + 1 /\ cnt' = cnt + 1
            BY <1>2, <2>3 DEF Check, Goto, TypeOK
        <3>2. TicketsDistinct'
            BY <2>1, <2>2, <2>3, <3>1, SMTT(30) DEF TypeOK, TicketsDistinct, HasTicket, Inside
        <3>3. BusyIsMasked'
            BY <2>1, <2>2, StepBusyIsMasked DEF BusyIsMasked
        <3>4. OwnerRecorded'
            <4>1. \A y \in Context : depth'[y] > 0 => y = x
                BY <2>1, <2>2, <2>3, OneInside DEF MutualExclusion, Inside
            <4>2. x = <<c, x[2]>> /\ x[2] \in {"task", "irq"}
                BY ContextPair
            <4> QED BY <2>1, <2>2, <2>3, <3>1, <4>1, <4>2 DEF TypeOK, OwnerRecorded
        <3>5. FlagKept'
            BY <2>1, <2>2, <2>3, <3>1 DEF TypeOK, FlagKept
        <3> QED BY <3>2, <3>3, <3>4, <3>5 DEF IndInv
    <2>4. CASE cid # c
        <3>1. pc'[x] = "take" /\ UNCHANGED <<depth, cnt>>
            BY <1>2, <2>4 DEF Check, Goto, TypeOK, lock
        <3>2. TicketsDistinct'
            BY <2>1, <2>2, <2>4, <3>1 DEF TypeOK, TicketsDistinct, HasTicket, Inside
        <3>3. BusyIsMasked'
            BY <2>1, <2>2, StepBusyIsMasked DEF BusyIsMasked
        <3>4. OwnerRecorded'
            BY <2>1, <2>2, <2>4, <3>1, ContextPair DEF TypeOK, OwnerRecorded
        <3>5. FlagKept'
            BY <2>1, <2>2, <2>4, <3>1 DEF TypeOK, FlagKept
        <3> QED BY <3>2, <3>3, <3>4, <3>5 DEF IndInv
    <2> QED BY <2>3, <2>4
<1>3. ASSUME TakeTicket(c) PROVE IndInv'
    <2>a. /\ pc[x] = "take" /\ pc'[x] = "spin" /\ depth[x] = 0 /\ ~(depth[x] > 0)
          /\ UNCHANGED <<cid, cnt, depth, handling>>
          /\ \A y \in Context : y # x => pc'[y] = pc[y]
        BY <1>3 DEF TakeTicket, Goto, lock, TypeOK, OwnerRecorded
    <2>1. TicketsDistinct'
        <3>1. \A y \in Context : y # x => (HasTicket(y)' <=> HasTicket(y)) /\ (Inside(y)' <=> Inside(y)) /\ ticket'[y] = ticket[y]
            BY <1>3 DEF TakeTicket, Goto, lock, TypeOK, HasTicket, Inside
        <3>2. ticket'[x] = queue + 1 /\ ~Inside(x)' /\ queue' = queue + 1 /\ dequeue' = dequeue
            BY <1>3 DEF TakeTicket, Goto, lock, TypeOK, HasTicket, Inside, OwnerRecorded
        <3> QED BY <3>1, <3>2 DEF TypeOK, TicketsDistinct
    <2>2. BusyIsMasked'
        <3>1. ~irq[c] /\ UNCHANGED irq
            BY <2>a, <1>3 DEF TakeTicket, BusyIsMasked, Busy
        <3> QED BY <2>a, <3>1, StepBusyIsMasked
    <2>3. OwnerRecorded'
        BY <2>a, StepOwnerRecorded
    <2>4. FlagKept'
        BY <1>3 DEF TakeTicket, Goto, lock, TypeOK, FlagKept
    <2> QED BY <2>1, <2>2, <2>3, <2>4 DEF IndInv
<1>4. ASSUME Enter(c) PROVE IndInv'
    <2>a. /\ pc[x] = "spin" /\ pc'[x] = "own" /\ depth[x] = 0 /\ ~(depth[x] > 0)
          /\ UNCHANGED <<cid, cnt, depth, handling>>
          /\ \A y \in Context : y # x => pc'[y] = pc[y]
        BY <1>4 DEF Enter, Goto, lock, TypeOK, OwnerRecorded
    <2>1. TicketsDistinct'
        <3>1. \A y \in Context : /\ HasTicket(y)' => HasTicket(y)
                                 /\ Inside(y)' => Inside(y) \/ ticket[y] = dequeue
            BY <1>4, SMTT(30) DEF Enter, Goto, TypeOK, HasTicket, Inside
        <3> QED BY <1>4, <3>1, StepTicketsDistinct DEF Enter, lock
    <2>2. BusyIsMasked'
        <3>1. ~irq[c] /\ UNCHANGED irq
            BY <2>a, <1>4 DEF Enter, BusyIsMasked, Busy
        <3> QED BY <2>a, <3>1, StepBusyIsMasked
    <2>3. OwnerRecorded'
        BY <2>a, StepOwnerRecorded
    <2>4. FlagKept'
        BY <1>4 DEF Enter, Goto, lock, TypeOK, FlagKept
    <2> QED BY <2>1, <2>2, <2>3, <2>4 DEF IndInv
<1>5. ASSUME SetOwner(c) PROVE IndInv'
    <2>1. TicketsDistinct'
        BY <1>5 DEF SetOwner, Goto, lock, TypeOK, TicketsDistinct, HasTicket, Inside
    <2>2. BusyIsMasked'
        BY <1>5, StepBusyIsMasked DEF SetOwner, Goto, TypeOK, BusyIsMasked, Busy
    <2>3. OwnerRecorded'
        BY <1>5, OneInside, ContextPair, CoreAssumption, SMTT(30) DEF SetOwner, Goto, lock, TypeOK, OwnerRecorded, MutualExclusion, Inside
    <2>4. FlagKept'
        BY <1>5 DEF SetOwner, Goto, lock, TypeOK, FlagKept
    <2> QED BY <2>1, <2>2, <2>3, <2>4 DEF IndInv
<1>6. ASSUME Record(c) PROVE IndInv'
    <2>0. /\ pc[x] = "record" /\ pc'[x] = "out" /\ depth'[x] = 1 /\ cnt' = 1 /\ cid' = cid
          /\ \A y \in Context : y # x => pc'[y] = pc[y] /\ depth'[y] = depth[y]
        BY <1>6 DEF Record, Goto, lock, TypeOK
    <2>1. TicketsDistinct'
        <3>1. \A y \in Context : /\ HasTicket(y)' => HasTicket(y)
                                 /\ Inside(y)' => Inside(y) \/ ticket[y] = dequeue
            BY <1>6, SMTT(30) DEF Record, Goto, TypeOK, HasTicket, Inside
        <3> QED BY <1>6, <3>1, StepTicketsDistinct DEF Record
    <2>2. BusyIsMasked'
        BY <1>6, StepBusyIsMasked DEF Record, Goto, TypeOK, BusyIsMasked, Busy
    <2>3. OwnerRecorded'
        <3>1. \A y \in Context : y # x => ~Inside(y)
            BY <2>0, OneInside DEF MutualExclusion, Inside
        <3>2. cid = x[1]
            BY <2>0 DEF OwnerRecorded
        <3>3. \A y \in Context : y # x => ~(depth'[y] > 0) /\ pc'[y] \notin {"record", "drop"}
            BY <2>0, <3>1 DEF Inside
        <3>4. cid' = x[1] /\ depth'[x] > 0 /\ cnt' = depth'[x] /\ pc'[x] = "out"
            BY <2>0, <3>2
        <3> QED BY <3>3, <3>4, SoleOwner
    <2>4. FlagKept'
        <3> SUFFICES ASSUME NEW y \in Context
                     PROVE  /\ y[2] = "irq" => ~entry'[y]
                            /\ depth'[y] > 0 \/ pc'[y] = "drop" => flags' = entry'[y]
                            /\ depth'[y] = 0 /\ pc'[y] \notin {"out", "drop"} => saved'[y] = entry'[y]
            BY DEF FlagKept
        <3>1. CASE y = x
            BY <3>1, <1>6 DEF Record, Goto, lock, TypeOK, OwnerRecorded, FlagKept
        <3>2. CASE y # x
            BY <3>2, <1>6, OneInside DEF Record, Goto, lock, TypeOK, FlagKept, MutualExclusion, Inside
        <3> QED BY <3>1, <3>2
    <2> QED BY <2>1, <2>2, <2>3, <2>4 DEF IndInv
<1>7. ASSUME CountDown(c) PROVE IndInv'
    <2>0. /\ pc[x] = "out" /\ depth[x] > 0 /\ depth'[x] = depth[x] - 1
          /\ cnt' = cnt - 1 /\ pc'[x] = IF cnt' = 0 THEN "drop" ELSE "out"
          /\ UNCHANGED <<cid, irq, handling>>
          /\ \A y \in Context : y # x => pc'[y] = pc[y] /\ depth'[y] = depth[y]
        BY <1>7 DEF CountDown, Goto, lock, TypeOK
    <2>1. TicketsDistinct'
        <3>1. \A y \in Context : /\ HasTicket(y)' => HasTicket(y)
                                 /\ Inside(y)' => Inside(y) \/ ticket[y] = dequeue
            BY <1>7, SMTT(30) DEF CountDown, Goto, TypeOK, HasTicket, Inside
        <3> QED BY <1>7, <3>1, StepTicketsDistinct DEF CountDown
    <2>2. BusyIsMasked'
        <3>1. ~irq[c]
            BY <2>0 DEF BusyIsMasked, Busy
        <3> QED BY <2>0, <3>1, StepBusyIsMasked
    <2>3. OwnerRecorded'
        <3>1. \A y \in Context : y # x => ~(depth'[y] > 0) /\ pc'[y] \notin {"record", "drop"}
            BY <2>0, OneInside DEF MutualExclusion, Inside
        <3>2. cid' = x[1] /\ cnt = depth[x]
            BY <2>0 DEF OwnerRecorded
        <3>3. /\ cnt' = depth'[x]
              /\ depth'[x] > 0 => pc'[x] = "out"
              /\ ~(depth'[x] > 0) => pc'[x] = "drop"
            BY <2>0, <3>2 DEF TypeOK
        <3> QED BY <3>1, <3>2, <3>3, SoleOwner
    <2>4. FlagKept'
        BY <1>7 DEF CountDown, Goto, lock, TypeOK, FlagKept
    <2> QED BY <2>1, <2>2, <2>3, <2>4 DEF IndInv
<1>8. ASSUME Drop(c) PROVE IndInv'
    <2>1. TicketsDistinct'
        <3>1. \A y \in Context : /\ HasTicket(y)' => HasTicket(y)
                                 /\ Inside(y)' => Inside(y) \/ ticket[y] = dequeue
            BY <1>8, SMTT(30) DEF Drop, Goto, TypeOK, HasTicket, Inside
        <3> QED BY <1>8, <3>1, StepTicketsDistinct DEF Drop
    <2>2. BusyIsMasked'
        BY <1>8, StepBusyIsMasked DEF Drop, Goto, TypeOK, BusyIsMasked, Busy
    <2>3. OwnerRecorded'
        <3>1. /\ pc[x] = "drop" /\ pc'[x] = "pass" /\ cid' = NoCore /\ depth' = depth
              /\ \A y \in Context : y # x => pc'[y] = pc[y]
            BY <1>8 DEF Drop, Goto, TypeOK
        <3>2. \A y \in Context : y # x => ~(depth[y] > 0) /\ pc[y] \notin {"record", "drop"}
            BY <3>1, OneInside DEF MutualExclusion, Inside
        <3>3. ~(depth[x] > 0)
            BY <3>1 DEF OwnerRecorded
        <3> QED BY <3>1, <3>2, <3>3 DEF OwnerRecorded
    <2>4. FlagKept'
        <3> SUFFICES ASSUME NEW y \in Context
                     PROVE  /\ y[2] = "irq" => ~entry'[y]
                            /\ depth'[y] > 0 \/ pc'[y] = "drop" => flags' = entry'[y]
                            /\ depth'[y] = 0 /\ pc'[y] \notin {"out", "drop"} => saved'[y] = entry'[y]
            BY DEF FlagKept
        <3>1. CASE y = x
            BY <3>1, <1>8 DEF Drop, Goto, lock, TypeOK, OwnerRecorded, FlagKept
        <3>2. CASE y # x
            BY <3>2, <1>8, OneInside DEF Drop, Goto, lock, TypeOK, FlagKept, MutualExclusion, Inside
        <3> QED BY <3>1, <3>2
    <2> QED BY <2>1, <2>2, <2>3, <2>4 DEF IndInv
<1>9. ASSUME PassOn(c) PROVE IndInv'
    <2>a. /\ pc[x] = "pass" /\ pc'[x] = "restore" /\ depth[x] = 0 /\ ~(depth[x] > 0)
          /\ UNCHANGED <<cid, cnt, depth, handling>>
          /\ \A y \in Context : y # x => pc'[y] = pc[y]
        BY <1>9 DEF PassOn, Goto, lock, TypeOK, OwnerRecorded
    <2>1. TicketsDistinct'
        <3>1. \A y \in Context : y # x => (HasTicket(y)' <=> HasTicket(y)) /\ (Inside(y)' <=> Inside(y)) /\ ticket'[y] = ticket[y]
            BY <1>9 DEF PassOn, Goto, lock, TypeOK, HasTicket, Inside
        <3>2. Inside(x) /\ HasTicket(x) /\ ~HasTicket(x)' /\ ~Inside(x)' /\ queue' = queue /\ dequeue' = dequeue + 1
            BY <1>9 DEF PassOn, Goto, lock, TypeOK, HasTicket, Inside, OwnerRecorded
        <3>3. ticket[x] = dequeue /\ dequeue \in Nat /\ queue \in Nat /\ ticket \in [Context -> Nat]
            BY <3>2 DEF TicketsDistinct, TypeOK
        <3>4. \A y \in Context : y # x /\ HasTicket(y) => dequeue + 1 <= ticket[y]
            BY <3>2, <3>3 DEF TicketsDistinct
        <3>5. \A y \in Context : y # x => ~Inside(y)
            BY <3>2, OneInside DEF MutualExclusion
        <3>6. dequeue' <= queue' + 1
            BY <3>2, <3>3 DEF TicketsDistinct
        <3> QED BY <3>1, <3>2, <3>4, <3>5, <3>6 DEF TicketsDistinct
    <2>2. BusyIsMasked'
        <3>1. ~irq[c] /\ UNCHANGED irq
            BY <2>a, <1>9 DEF PassOn, BusyIsMasked, Busy
        <3> QED BY <2>a, <3>1, StepBusyIsMasked
    <2>3. OwnerRecorded'
        BY <2>a, StepOwnerRecorded
    <2>4. FlagKept'
        BY <1>9 DEF PassOn, Goto, lock, TypeOK, FlagKept
    <2> QED BY <2>1, <2>2, <2>3, <2>4 DEF IndInv
<1>10. ASSUME Restore(c) PROVE IndInv'
    <2>a. /\ pc[x] = "restore" /\ pc'[x] = "out" /\ depth[x] = 0 /\ ~(depth[x] > 0)
          /\ UNCHANGED <<cid, cnt, depth, handling>>
          /\ \A y \in Context : y # x => pc'[y] = pc[y]
        BY <1>10, SMTT(30) DEF Restore, Goto, lock, TypeOK, OwnerRecorded
    <2>0. depth[x] = 0 /\ (handling[c] => ~saved[x])
        BY <1>10, SMTT(30) DEF Restore, Active, Goto, TypeOK, OwnerRecorded, FlagKept
    <2>1. TicketsDistinct'
        <3>1. \A y \in Context : /\ HasTicket(y)' => HasTicket(y)
                                 /\ Inside(y)' => Inside(y) \/ ticket[y] = dequeue
            BY <1>10, SMTT(30) DEF Restore, Goto, TypeOK, HasTicket, Inside
        <3> QED BY <1>10, <3>1, StepTicketsDistinct DEF Restore, lock
    <2>2. BusyIsMasked'
        <3>1. /\ handling[c] => ~irq'[c]
              /\ \A d \in Core : d # c => irq'[d] = irq[d]
            BY <2>a, <2>0, <1>10 DEF Restore, TypeOK, BusyIsMasked
        <3> QED BY <2>a, <3>1, StepBusyIsMasked
    <2>3. OwnerRecorded'
        BY <2>a, StepOwnerRecorded
    <2>4. FlagKept'
        BY <1>10 DEF Restore, Goto, lock, TypeOK, FlagKept
    <2> QED BY <2>1, <2>2, <2>3, <2>4 DEF IndInv
<1>11. ASSUME Interrupt(c) \/ InterruptReturn(c) \/ ToggleMask(c) PROVE IndInv'
    <2>1. UNCHANGED <<lock, pc, ticket, saved, depth, entry>>
        BY <1>11 DEF Interrupt, InterruptReturn, ToggleMask
    <2>2. TicketsDistinct' /\ OwnerRecorded' /\ FlagKept'
        <3>1. TicketsDistinct'
            BY <2>1 DEF lock, TicketsDistinct, HasTicket, Inside
        <3>2. OwnerRecorded'
            BY <2>1 DEF lock, OwnerRecorded
        <3>3. FlagKept'
            BY <2>1 DEF lock, FlagKept
        <3> QED BY <3>1, <3>2, <3>3
    <2>3. BusyIsMasked'
        <3> SUFFICES ASSUME NEW d \in Core
                     PROVE  /\ handling'[d] => ~irq'[d] /\ ~Busy(<<d, "task">>)
                            /\ ~handling'[d] => ~Busy(<<d, "irq">>)
                            /\ Busy(Active(d)') => ~irq'[d]
            BY <2>1 DEF BusyIsMasked, Busy
        <3>1. CASE d # c
            <4>1. irq'[d] = irq[d] /\ handling'[d] = handling[d]
                BY <1>11, <3>1 DEF Interrupt, InterruptReturn, ToggleMask, TypeOK
            <4> QED BY <4>1 DEF BusyIsMasked, Active
        <3>2. CASE d = c /\ Interrupt(c)
            <4>1. /\ ~handling[c] /\ irq[c] /\ handling'[c] /\ ~irq'[c]
                BY <3>2 DEF Interrupt, TypeOK
            <4>2. Active(c) = <<c, "task">> /\ Active(c)' = <<c, "irq">>
                BY <4>1 DEF Active
            <4> QED BY <3>2, <4>1, <4>2, Zenon DEF BusyIsMasked
        <3>3. CASE d = c /\ InterruptReturn(c)
            <4>1. handling[c] /\ ~handling'[c] /\ ~Busy(<<c, "irq">>)
                BY <3>3, SMTT(30) DEF InterruptReturn, TypeOK, Busy
            <4>2. Active(c)' = <<c, "task">> /\ ~Busy(<<c, "task">>)
                BY <4>1 DEF Active, BusyIsMasked
            <4> QED BY <3>3, <4>1, <4>2
        <3>4. CASE d = c /\ ToggleMask(c)
            <4>1. ~handling[c] /\ ~handling'[c] /\ ~Busy(<<c, "task">>)
                BY <3>4, SMTT(30) DEF ToggleMask, TypeOK, Busy
            <4>2. Active(c)' = <<c, "task">> /\ ~Busy(<<c, "irq">>)
                BY <4>1 DEF Active, BusyIsMasked
            <4> QED BY <3>4, <4>1, <4>2
        <3> QED BY <1>11, <3>1, <3>2, <3>3, <3>4
    <2> QED BY <2>2, <2>3 DEF IndInv
<1> QED BY <1>1, <1>2, <1>3, <1>4, <1>5, <1>6, <1>7, <1>8, <1>9, <1>10, <1>11
        DEF LockStep, UnlockStep

\* The invariant holds in every reachable state, whatever the number of cores,
\* the nesting and the number of calls.
THEOREM InvariantHolds == Spec => []IndInv
<1>1. IndInv /\ [Next]_vars => IndInv'
    <2> SUFFICES ASSUME IndInv, [Next]_vars PROVE IndInv'
        OBVIOUS
    <2>1. TypeOK'
        BY StepTypeOK DEF IndInv
    <2>2. CASE UNCHANGED vars
        <3>1. TicketsDistinct' /\ BusyIsMasked'
            BY <2>2 DEF vars, IndInv, TicketsDistinct, BusyIsMasked, HasTicket, Inside, Busy, Active
        <3>2. OwnerRecorded' /\ FlagKept'
            BY <2>2 DEF vars, IndInv, OwnerRecorded, FlagKept
        <3> QED BY <2>1, <3>1, <3>2 DEF IndInv
    <2>3. ASSUME NEW c \in Core,
                 Disable(c) \/ LockStep(c) \/ UnlockStep(c) \/ Interrupt(c)
                 \/ InterruptReturn(c) \/ ToggleMask(c)
          PROVE  IndInv'
        <3>1. Active(c) \in Context /\ Active(c)[1] = c
            BY ActiveContext DEF IndInv
        <3> QED BY <2>1, <2>3, <3>1, StepOfCore
    <2> QED BY <2>2, <2>3 DEF Next
<1> QED BY <1>1, InitIndInv, PTL DEF Spec

\* spinlock_irqsave_lock excludes: no two contexts are inside the lock, be they
\* on two cores or a task and the handler that interrupted it.
THEOREM LockExcludes == Spec => []MutualExclusion
<1>1. IndInv => MutualExclusion
    BY OneInside DEF IndInv
<1> QED BY <1>1, InvariantHolds, PTL

\* The interrupt flag of the owner's core is clear throughout.
THEOREM LockMasks == Spec => []InterruptsOffInside
<1>1. IndInv => InterruptsOffInside
    <2> SUFFICES ASSUME IndInv, NEW x \in Context, Inside(x) PROVE ~irq[x[1]]
        BY DEF InterruptsOffInside
    <2>1. Busy(x) /\ x[1] \in Core
        BY ContextPair DEF Inside, Busy
    <2>2. x = Active(x[1])
        BY <2>1, OtherContextIdle DEF IndInv
    <2> QED BY <2>1, <2>2, Zenon DEF IndInv, BusyIsMasked
<1> QED BY <1>1, InvariantHolds, PTL

\* The outermost unlock puts the interrupt flag back to what it was.
THEOREM UnlockRestores == Spec => InterruptFlagRestored
<1>1. IndInv /\ [Next]_vars =>
          [\A c \in Core : Restore(c) => irq'[c] = entry[Active(c)]]_vars
    <2> SUFFICES ASSUME IndInv, NEW c \in Core, Restore(c)
                 PROVE  irq'[c] = entry[Active(c)]
        OBVIOUS
    <2>1. Active(c) \in Context /\ pc[Active(c)] = "restore" /\ Busy(Active(c))
        BY ActiveContext DEF IndInv, Restore, Goto, Busy
    <2>2. ~irq[c]
        BY <2>1, Zenon DEF IndInv, BusyIsMasked
    <2>3. depth[Active(c)] = 0
        BY <2>1 DEF IndInv, TypeOK, OwnerRecorded
    <2>4. saved[Active(c)] = entry[Active(c)]
        BY <2>1, <2>3 DEF IndInv, FlagKept
    <2> QED BY <2>1, <2>2, <2>4 DEF IndInv, TypeOK, Restore
<1> QED BY <1>1, InvariantHolds, PTL DEF Spec, InterruptFlagRestored

\* Whoever leaves the spin loop holds the smallest ticket of all that spin.
THEOREM LockIsFair == Spec => FirstComeFirstServed
<1>1. IndInv /\ [Next]_vars =>
          [\A c \in Core : Enter(c) =>
              \A y \in Context : pc[y] = "spin" => ticket[Active(c)] <= ticket[y]]_vars
    BY DEF IndInv, TicketsDistinct, HasTicket, Enter
<1> QED BY <1>1, InvariantHolds, PTL DEF Spec, FirstComeFirstServed

-----------------------------------------------------------------------------
(* The refinement of FifoLock *)

\* The line of the refinement mapping: its i-th place is the one holder of
\* ticket dequeue + i - 1.
LineByTicket ==
    /\ Line \in Seq(Context)
    /\ Len(Line) = queue - dequeue + 1
    /\ \A i \in 1 .. Len(Line) :
          /\ Line[i] \in Context
          /\ HasTicket(Line[i])
          /\ ticket[Line[i]] = dequeue + i - 1
    /\ \A x \in Context : HasTicket(x) =>
          /\ ticket[x] - dequeue + 1 \in 1 .. Len(Line)
          /\ Line[ticket[x] - dequeue + 1] = x

\* The invariants make it so ...
LEMMA LineFacts == IndInv /\ TicketsHeld => LineByTicket
<1> SUFFICES ASSUME IndInv, TicketsHeld
             PROVE  LineByTicket
    OBVIOUS
<1> DEFINE n == queue - dequeue + 1
<1>1. queue \in Nat /\ dequeue \in Nat /\ n \in Nat /\ ticket \in [Context -> Nat]
    BY DEF IndInv, TypeOK, TicketsDistinct
<1>2. ASSUME NEW i \in 1 .. n
      PROVE  /\ Holder(dequeue + i - 1) \in Context
             /\ HasTicket(Holder(dequeue + i - 1))
             /\ ticket[Holder(dequeue + i - 1)] = dequeue + i - 1
    <2>1. dequeue + i - 1 \in dequeue .. queue
        BY <1>1
    <2>2. PICK x \in Context : HasTicket(x) /\ ticket[x] = dequeue + i - 1
        BY <2>1 DEF TicketsHeld
    <2> QED BY <2>2 DEF Holder
<1>3. Line = [i \in 1 .. n |-> Holder(dequeue + i - 1)]
    BY DEF Line
<1>4. Line \in Seq(Context) /\ Len(Line) = n
    <2>1. Line \in [1 .. n -> Context]
        BY <1>2, <1>3
    <2> QED BY <1>1, <2>1
<1>5. \A i \in 1 .. n : Line[i] = Holder(dequeue + i - 1)
    BY <1>3
<1>6. ASSUME NEW x \in Context, HasTicket(x)
      PROVE  /\ ticket[x] - dequeue + 1 \in 1 .. n
             /\ Line[ticket[x] - dequeue + 1] = x
    <2> DEFINE j == ticket[x] - dequeue + 1
    <2>1. j \in 1 .. n
        BY <1>1, <1>6 DEF IndInv, TicketsDistinct
    <2>2. dequeue + j - 1 = ticket[x]
        BY <1>1
    <2>3. Line[j] \in Context /\ HasTicket(Line[j]) /\ ticket[Line[j]] = ticket[x]
        BY <2>1, <2>2, <1>2, <1>5
    <2>4. Line[j] = x
        BY <2>3, <1>6 DEF IndInv, TicketsDistinct
    <2> QED BY <2>1, <2>4
<1> QED BY <1>2, <1>4, <1>5, <1>6 DEF LineByTicket

\* ... in the next state as well.
LEMMA LineFactsNext == IndInv' /\ TicketsHeld' => LineByTicket'
BY LineFacts, PTL

\* The steps that FifoLock does not see: tickets and critical sections stay.
LEMMA QuietSteps ==
    ASSUME IndInv, NEW c \in Core,
           \/ Disable(c) \/ Check(c) \/ SetOwner(c) \/ Record(c) \/ CountDown(c)
           \/ Drop(c) \/ Restore(c) \/ Interrupt(c) \/ InterruptReturn(c) \/ ToggleMask(c)
    PROVE  /\ UNCHANGED <<queue, dequeue, ticket>>
           /\ \A y \in Context : (HasTicket(y)' <=> HasTicket(y)) /\ (Inside(y)' <=> Inside(y))
<1> DEFINE x == Active(c)
           Frame(from, to) ==
               /\ pc[x] = from /\ pc'[x] = to
               /\ \A y \in Context : y # x => pc'[y] = pc[y] /\ depth'[y] = depth[y]
           Goal == \A y \in Context :
                       (HasTicket(y)' <=> HasTicket(y)) /\ (Inside(y)' <=> Inside(y))
<1>1. UNCHANGED <<queue, dequeue, ticket>>
    BY DEF Disable, Check, SetOwner, Record, CountDown, Drop, Restore, Interrupt,
           InterruptReturn, ToggleMask, lock
<1>2. /\ x \in Context /\ x[1] = c
      /\ DOMAIN pc = Context
      /\ depth \in [Context -> Nat]
    BY ActiveContext DEF IndInv, TypeOK
<1>3. ASSUME NEW from, NEW to, Frame(from, to),
             (from = "spin") <=> (to = "spin"),
             from \in {"own", "record", "drop", "pass"} \/ depth[x] > 0
                 <=> to \in {"own", "record", "drop", "pass"} \/ depth'[x] > 0
      PROVE  Goal
    BY <1>3 DEF HasTicket, Inside
<1> HIDE DEF x, Goal
<1>4. CASE Disable(c)
    <2>1. Frame("out", "check") /\ depth' = depth
        BY <1>2, <1>4 DEF Disable, Goto, x
    <2> QED BY <1>1, <1>3, <2>1 DEF Goal
<1>5. CASE Check(c) /\ cid = c
    <2>1. Frame("check", "out") /\ depth'[x] = depth[x] + 1
        BY <1>2, <1>5 DEF Check, Goto, x
    <2>2. depth[x] > 0 /\ depth'[x] > 0
        BY <1>2, <1>5, <2>1, RecursionTest DEF x
    <2> QED BY <1>1, <1>3, <2>1, <2>2 DEF Goal
<1>6. CASE Check(c) /\ cid # c
    <2>1. Frame("check", "take") /\ depth' = depth
        BY <1>2, <1>6 DEF Check, Goto, x
    <2> QED BY <1>1, <1>3, <2>1 DEF Goal
<1>7. CASE SetOwner(c)
    <2>1. Frame("own", "record")
        BY <1>2, <1>7 DEF SetOwner, Goto, x
    <2> QED BY <1>1, <1>3, <2>1 DEF Goal
<1>8. CASE Record(c)
    <2>1. Frame("record", "out") /\ depth'[x] > 0
        BY <1>2, <1>8 DEF Record, Goto, x
    <2> QED BY <1>1, <1>3, <2>1 DEF Goal
<1>9. CASE CountDown(c)
    <2>1. /\ Frame("out", IF cnt - 1 = 0 THEN "drop" ELSE "out")
          /\ depth[x] > 0 /\ depth'[x] = depth[x] - 1
        BY <1>2, <1>9 DEF CountDown, Goto, x
    <2>2. cnt = depth[x]
        BY <1>2, <2>1 DEF IndInv, OwnerRecorded
    <2>3. CASE cnt - 1 = 0
        <3>1. Frame("out", "drop")
            BY <2>1, <2>3
        <3> QED BY <1>1, <1>3, <2>1, <3>1 DEF Goal
    <2>4. CASE cnt - 1 # 0
        <3>1. Frame("out", "out") /\ depth'[x] > 0
            BY <1>2, <2>1, <2>2, <2>4
        <3> QED BY <1>1, <1>3, <2>1, <3>1 DEF Goal
    <2> QED BY <2>3, <2>4
<1>10. CASE Drop(c)
    <2>1. Frame("drop", "pass")
        BY <1>2, <1>10 DEF Drop, Goto, x
    <2> QED BY <1>1, <1>3, <2>1 DEF Goal
<1>11. CASE Restore(c)
    <2>1. Frame("restore", "out") /\ depth' = depth
        BY <1>2, <1>11 DEF Restore, Goto, x
    <2> QED BY <1>1, <1>3, <2>1 DEF Goal
<1>12. CASE Interrupt(c) \/ InterruptReturn(c) \/ ToggleMask(c)
    <2>1. UNCHANGED <<pc, depth>>
        BY <1>12 DEF Interrupt, InterruptReturn, ToggleMask
    <2> QED BY <1>1, <2>1 DEF HasTicket, Inside
<1> QED BY <1>4, <1>5, <1>6, <1>7, <1>8, <1>9, <1>10, <1>11, <1>12

\* The steps that FifoLock sees: drawing a ticket, ...
LEMMA TakeTicketStep ==
    ASSUME IndInv, NEW c \in Core, NEW x \in Context, x = Active(c), TakeTicket(c)
    PROVE  /\ queue' = queue + 1 /\ dequeue' = dequeue /\ ticket'[x] = queue + 1
           /\ ~HasTicket(x) /\ HasTicket(x)' /\ ~Inside(x)'
           /\ \A y \in Context : y # x =>
                 /\ ticket'[y] = ticket[y]
                 /\ HasTicket(y)' <=> HasTicket(y)
                 /\ Inside(y)' <=> Inside(y)
<1>1. /\ DOMAIN pc = Context /\ DOMAIN ticket = Context
      /\ pc[x] = "take" /\ ~(depth[x] > 0)
    BY DEF IndInv, TypeOK, OwnerRecorded, TakeTicket, Goto
<1>2. /\ pc'[x] = "spin" /\ depth' = depth /\ ticket'[x] = queue + 1
      /\ \A y \in Context : y # x => pc'[y] = pc[y] /\ ticket'[y] = ticket[y]
    BY <1>1 DEF TakeTicket, Goto
<1>3. queue' = queue + 1 /\ dequeue' = dequeue
    BY DEF TakeTicket
<1> QED BY <1>1, <1>2, <1>3 DEF HasTicket, Inside

\* ... leaving the spin loop, ...
LEMMA EnterStep ==
    ASSUME IndInv, NEW c \in Core, NEW x \in Context, x = Active(c), Enter(c)
    PROVE  /\ UNCHANGED <<queue, dequeue, ticket>>
           /\ HasTicket(x) /\ ticket[x] = dequeue /\ ~Inside(x) /\ Inside(x)'
           /\ \A y \in Context : HasTicket(y)' <=> HasTicket(y)
<1>1. /\ DOMAIN pc = Context
      /\ pc[x] = "spin" /\ ~(depth[x] > 0)
    BY DEF IndInv, TypeOK, OwnerRecorded, Enter, Goto
<1>2. /\ pc'[x] = "own" /\ depth' = depth
      /\ \A y \in Context : y # x => pc'[y] = pc[y]
    BY <1>1 DEF Enter, Goto
<1>3. UNCHANGED <<queue, dequeue, ticket>> /\ ticket[x] = dequeue
    BY DEF Enter, lock
<1> QED BY <1>1, <1>2, <1>3 DEF HasTicket, Inside

\* ... and passing the lock on.
LEMMA PassOnStep ==
    ASSUME IndInv, NEW c \in Core, NEW x \in Context, x = Active(c), PassOn(c)
    PROVE  /\ queue' = queue /\ dequeue' = dequeue + 1 /\ UNCHANGED ticket
           /\ Inside(x) /\ ~HasTicket(x)'
           /\ \A y \in Context : y # x =>
                 /\ HasTicket(y)' <=> HasTicket(y)
                 /\ Inside(y)' <=> Inside(y)
<1>1. /\ DOMAIN pc = Context
      /\ pc[x] = "pass" /\ ~(depth[x] > 0)
    BY DEF IndInv, TypeOK, OwnerRecorded, PassOn, Goto
<1>2. /\ pc'[x] = "restore" /\ depth' = depth
      /\ \A y \in Context : y # x => pc'[y] = pc[y]
    BY <1>1 DEF PassOn, Goto
<1>3. queue' = queue /\ dequeue' = dequeue + 1 /\ UNCHANGED ticket
    BY DEF PassOn
<1> QED BY <1>1, <1>2, <1>3 DEF HasTicket, Inside

\* Every ticket between dequeue and queue stays in somebody's hands.
LEMMA TicketsStayHeld == IndInv /\ TicketsHeld /\ [Next]_vars => TicketsHeld'
<1> SUFFICES ASSUME IndInv, TicketsHeld, [Next]_vars
             PROVE  TicketsHeld'
    OBVIOUS
<1>1. ASSUME UNCHANGED <<queue, dequeue, ticket>>,
             \A y \in Context : HasTicket(y)' <=> HasTicket(y)
      PROVE  TicketsHeld'
    BY <1>1 DEF TicketsHeld
<1>2. CASE UNCHANGED vars
    BY <1>1, <1>2 DEF vars, HasTicket, Inside
<1>3. ASSUME NEW c \in Core, TakeTicket(c)
      PROVE  TicketsHeld'
    <2>1. PICK x \in Context : x = Active(c)
        BY ActiveContext DEF IndInv
    <2>2. /\ queue' = queue + 1 /\ dequeue' = dequeue /\ ticket'[x] = queue + 1
          /\ ~HasTicket(x) /\ HasTicket(x)'
          /\ \A y \in Context : y # x => ticket'[y] = ticket[y] /\ (HasTicket(y)' <=> HasTicket(y))
        BY <1>3, <2>1, TakeTicketStep
    <2> SUFFICES ASSUME NEW n \in dequeue' .. queue'
                 PROVE  \E y \in Context : HasTicket(y)' /\ ticket'[y] = n
        BY DEF TicketsHeld
    <2>3. n = queue + 1 \/ n \in dequeue .. queue
        BY <2>2 DEF IndInv, TypeOK
    <2>4. CASE n \in dequeue .. queue
        <3>1. PICK y \in Context : HasTicket(y) /\ ticket[y] = n
            BY <2>4 DEF TicketsHeld
        <3> QED BY <2>2, <3>1
    <2> QED BY <2>2, <2>3, <2>4
<1>4. ASSUME NEW c \in Core, Enter(c)
      PROVE  TicketsHeld'
    <2>1. PICK x \in Context : x = Active(c)
        BY ActiveContext DEF IndInv
    <2> QED BY <1>1, <1>4, <2>1, EnterStep
<1>5. ASSUME NEW c \in Core, PassOn(c)
      PROVE  TicketsHeld'
    <2>1. PICK x \in Context : x = Active(c)
        BY ActiveContext DEF IndInv
    <2>2. /\ queue' = queue /\ dequeue' = dequeue + 1 /\ UNCHANGED ticket /\ Inside(x)
          /\ \A y \in Context : y # x => (HasTicket(y)' <=> HasTicket(y))
        BY <1>5, <2>1, PassOnStep
    <2>3. ticket[x] = dequeue
        BY <2>2 DEF IndInv, TicketsDistinct
    <2> SUFFICES ASSUME NEW n \in dequeue' .. queue'
                 PROVE  \E y \in Context : HasTicket(y)' /\ ticket'[y] = n
        BY DEF TicketsHeld
    <2>4. n \in dequeue .. queue /\ n # dequeue
        BY <2>2 DEF IndInv, TypeOK
    <2>5. PICK y \in Context : HasTicket(y) /\ ticket[y] = n
        BY <2>4 DEF TicketsHeld
    <2> QED BY <2>2, <2>3, <2>4, <2>5
<1>6. ASSUME NEW c \in Core,
             \/ Disable(c) \/ Check(c) \/ SetOwner(c) \/ Record(c) \/ CountDown(c)
             \/ Drop(c) \/ Restore(c) \/ Interrupt(c) \/ InterruptReturn(c) \/ ToggleMask(c)
      PROVE  TicketsHeld'
    BY <1>1, <1>6, QuietSteps
<1> QED BY <1>2, <1>3, <1>4, <1>5, <1>6 DEF Next, LockStep, UnlockStep

\* A line that keeps its tickets and holders is the same line.
LEMMA LineUnchanged ==
    ASSUME IndInv, TicketsHeld, IndInv', TicketsHeld',
           UNCHANGED <<queue, dequeue, ticket>>,
           \A y \in Context : HasTicket(y)' <=> HasTicket(y)
    PROVE  Line' = Line
<1>1. LineByTicket /\ LineByTicket'
    BY LineFacts, LineFactsNext
<1>2. Line \in Seq(Context) /\ Line' \in Seq(Context) /\ Len(Line') = Len(Line)
    BY <1>1 DEF LineByTicket
<1>3. ASSUME NEW i \in 1 .. Len(Line)
      PROVE  Line'[i] = Line[i]
    <2>1. /\ Line[i] \in Context /\ HasTicket(Line[i]) /\ ticket[Line[i]] = dequeue + i - 1
          /\ Line'[i] \in Context /\ HasTicket(Line'[i]) /\ ticket[Line'[i]] = dequeue + i - 1
        BY <1>1, <1>2 DEF LineByTicket
    <2> QED BY <2>1 DEF IndInv, TicketsDistinct
<1> QED BY <1>2, <1>3, SeqEqual

\* Drawing a ticket is joining the end of the line.
LEMMA LineGrows ==
    ASSUME IndInv, TicketsHeld, IndInv', TicketsHeld',
           NEW c \in Core, NEW x \in Context, x = Active(c), TakeTicket(c)
    PROVE  Fifo!Arrive(x)
<1>1. LineByTicket /\ LineByTicket'
    BY LineFacts, LineFactsNext
<1>2. /\ queue' = queue + 1 /\ dequeue' = dequeue /\ ticket'[x] = queue + 1
      /\ ~HasTicket(x) /\ HasTicket(x)' /\ ~Inside(x)'
      /\ \A y \in Context : y # x =>
            ticket'[y] = ticket[y] /\ (HasTicket(y)' <=> HasTicket(y)) /\ (Inside(y)' <=> Inside(y))
    BY TakeTicketStep
<1>3. queue \in Nat /\ dequeue \in Nat /\ ~Inside(x)
    BY <1>2 DEF IndInv, TypeOK, HasTicket
<1>4. /\ Line \in Seq(Context) /\ Line' \in Seq(Context)
      /\ Len(Line) = queue - dequeue + 1 /\ Len(Line') = Len(Line) + 1
    BY <1>1, <1>2, <1>3 DEF LineByTicket
<1>5. Line'[Len(Line) + 1] = x
    <2>1. ticket'[x] - dequeue' + 1 = Len(Line) + 1
        BY <1>2, <1>3, <1>4
    <2> QED BY <1>1, <1>2, <2>1 DEF LineByTicket
<1>6. ASSUME NEW i \in 1 .. Len(Line)
      PROVE  Line'[i] = Line[i]
    <2>1. PICK y \in Context : y = Line[i] /\ HasTicket(y) /\ ticket[y] = dequeue + i - 1
        BY <1>1 DEF LineByTicket
    <2>2. y # x /\ HasTicket(y)' /\ ticket'[y] = dequeue + i - 1
        BY <1>2, <2>1
    <2>3. ticket'[y] - dequeue' + 1 = i
        BY <1>2, <1>3, <2>2
    <2> QED BY <1>1, <2>1, <2>2, <2>3 DEF LineByTicket
<1>7. Line' = Append(Line, x)
    <2>1. /\ Append(Line, x) \in Seq(Context) /\ Len(Append(Line, x)) = Len(Line) + 1
          /\ \A i \in 1 .. Len(Line) : Append(Line, x)[i] = Line[i]
          /\ Append(Line, x)[Len(Line) + 1] = x
        BY <1>4
    <2>2. \A i \in 1 .. Len(Line') : Line'[i] = Append(Line, x)[i]
        BY <1>4, <1>5, <1>6, <2>1
    <2> QED BY <1>4, <2>1, <2>2, SeqEqual
<1>8. x \notin Fifo!Range(Line)
    <2>1. \A i \in 1 .. Len(Line) : Line[i] # x
        BY <1>1, <1>2 DEF LineByTicket
    <2> QED BY <1>4, <2>1 DEF Fifo!Range
<1>9. UNCHANGED Admitted
    BY <1>2, <1>3 DEF Admitted
<1> QED BY <1>7, <1>8, <1>9 DEF Fifo!Arrive

\* The end of the spin loop admits the head of the line.
LEMMA HeadAdmitted ==
    ASSUME IndInv, TicketsHeld, IndInv', TicketsHeld',
           NEW c \in Core, NEW x \in Context, x = Active(c), Enter(c)
    PROVE  Fifo!Admit
<1>1. /\ UNCHANGED <<queue, dequeue, ticket>>
      /\ HasTicket(x) /\ ticket[x] = dequeue /\ ~Inside(x) /\ Inside(x)'
      /\ \A y \in Context : HasTicket(y)' <=> HasTicket(y)
    BY EnterStep
<1>2. Line' = Line
    BY <1>1, LineUnchanged
<1>3. Line # <<>>
    <2>1. LineByTicket
        BY LineFacts
    <2>2. ticket[x] - dequeue + 1 = 1
        BY <1>1 DEF IndInv, TypeOK
    <2>3. Len(Line) \in Nat /\ 1 \in 1 .. Len(Line)
        BY <1>1, <2>1, <2>2 DEF LineByTicket
    <2> QED BY <2>3
<1>4. ASSUME NEW y \in Context, Inside(y)
      PROVE  FALSE
    <2>1. HasTicket(y) /\ ticket[y] = dequeue
        BY <1>4 DEF IndInv, TicketsDistinct, HasTicket
    <2>2. y = x
        BY <1>1, <2>1 DEF IndInv, TicketsDistinct
    <2> QED BY <1>1, <1>4, <2>2
<1>5. ~Admitted
    BY <1>4 DEF Admitted
<1>6. Admitted' = TRUE
    BY <1>1 DEF Admitted
<1> QED BY <1>2, <1>3, <1>5, <1>6 DEF Fifo!Admit

\* Incrementing dequeue takes the owner, who is its head, off the line.
LEMMA HeadLeaves ==
    ASSUME IndInv, TicketsHeld, IndInv', TicketsHeld',
           NEW c \in Core, NEW x \in Context, x = Active(c), PassOn(c)
    PROVE  Fifo!Leave
<1>1. LineByTicket /\ LineByTicket'
    BY LineFacts, LineFactsNext
<1>2. /\ queue' = queue /\ dequeue' = dequeue + 1 /\ UNCHANGED ticket
      /\ Inside(x) /\ ~HasTicket(x)'
      /\ \A y \in Context : y # x => (HasTicket(y)' <=> HasTicket(y)) /\ (Inside(y)' <=> Inside(y))
    BY PassOnStep
<1>3. queue \in Nat /\ dequeue \in Nat /\ HasTicket(x) /\ ticket[x] = dequeue
    BY <1>2 DEF IndInv, TypeOK, TicketsDistinct, HasTicket
<1>4. /\ Line \in Seq(Context) /\ Line' \in Seq(Context)
      /\ Len(Line) \in Nat /\ Len(Line') = Len(Line) - 1
    BY <1>1, <1>2, <1>3 DEF LineByTicket
<1>5. Line # <<>>
    <2>1. 1 \in 1 .. Len(Line)
        BY <1>1, <1>3 DEF LineByTicket
    <2> QED BY <2>1
<1>6. ASSUME NEW i \in 1 .. Len(Line')
      PROVE  Line'[i] = Line[i + 1]
    <2>1. i + 1 \in 1 .. Len(Line)
        BY <1>4
    <2>2. PICK y \in Context : y = Line[i + 1] /\ HasTicket(y) /\ ticket[y] = dequeue + (i + 1) - 1
        BY <1>1, <2>1 DEF LineByTicket
    <2>3. y # x
        BY <1>3, <2>2
    <2>4. HasTicket(y)' /\ ticket'[y] - dequeue' + 1 = i
        BY <1>2, <1>3, <2>2, <2>3
    <2> QED BY <1>1, <2>2, <2>4 DEF LineByTicket
<1>7. Line' = Tail(Line)
    <2>1. /\ Tail(Line) \in Seq(Context) /\ Len(Tail(Line)) = Len(Line) - 1
          /\ \A i \in 1 .. Len(Tail(Line)) : Tail(Line)[i] = Line[i + 1]
        BY <1>4, <1>5, HeadTailProperties
    <2>2. \A i \in 1 .. Len(Line') : Line'[i] = Tail(Line)[i]
        BY <1>4, <1>6, <2>1
    <2> QED BY <1>4, <2>1, <2>2, SeqEqual
<1>8. Admitted
    BY <1>2 DEF Admitted
<1>9. Admitted' = FALSE
    <2>1. \A y \in Context : y # x => ~Inside(y)
        BY <1>2, OneInside DEF IndInv, MutualExclusion
    <2>2. ~Inside(x)'
        BY <1>2 DEF HasTicket
    <2> QED BY <1>2, <2>1, <2>2 DEF Admitted
<1> QED BY <1>7, <1>8, <1>9 DEF Fifo!Leave

\* The ticket spinlock is a FIFO lock: for the contexts of all cores, nested
\* calls and interrupts included, drawing a ticket joins a line, only its head
\* is admitted, only while nobody else is, and only the head leaves.
THEOREM LockRefinesFifo == Spec => Fifo!Safety
<1>1. Init => TicketsHeld /\ Fifo!Init
    <2> SUFFICES ASSUME Init PROVE TicketsHeld /\ Fifo!Init
        OBVIOUS
    <2>1. TicketsHeld
        BY DEF Init, TicketsHeld
    <2>2. Line = <<>>
        <3>1. queue - dequeue + 1 = 0
            BY DEF Init
        <3>2. LineByTicket
            BY <2>1, InitIndInv, LineFacts
        <3> QED BY <3>1, <3>2 DEF LineByTicket
    <2>3. Admitted = FALSE
        BY DEF Init, Admitted, Inside
    <2> QED BY <2>1, <2>2, <2>3 DEF Fifo!Init
<1>2. /\ IndInv /\ TicketsHeld /\ IndInv' /\ TicketsHeld' /\ [Next]_vars
      => [Fifo!Next]_<<Line, Admitted>>
    <2> SUFFICES ASSUME IndInv, TicketsHeld, IndInv', TicketsHeld', [Next]_vars
                 PROVE  [Fifo!Next]_<<Line, Admitted>>
        OBVIOUS
    <2>1. ASSUME UNCHANGED <<queue, dequeue, ticket>>,
                 \A y \in Context : (HasTicket(y)' <=> HasTicket(y)) /\ (Inside(y)' <=> Inside(y))
          PROVE  UNCHANGED <<Line, Admitted>>
        <3>1. Line' = Line
            BY <2>1, LineUnchanged
        <3>2. Admitted' = Admitted
            BY <2>1 DEF Admitted
        <3> QED BY <3>1, <3>2
    <2>2. CASE UNCHANGED vars
        BY <2>1, <2>2 DEF vars, HasTicket, Inside
    <2>3. ASSUME NEW c \in Core, TakeTicket(c) \/ Enter(c) \/ PassOn(c)
          PROVE  Fifo!Next
        <3>1. PICK x \in Context : x = Active(c)
            BY ActiveContext DEF IndInv
        <3>2. CASE TakeTicket(c)
            BY <3>1, <3>2, LineGrows DEF Fifo!Next
        <3>3. CASE Enter(c)
            BY <3>1, <3>3, HeadAdmitted DEF Fifo!Next
        <3>4. CASE PassOn(c)
            BY <3>1, <3>4, HeadLeaves DEF Fifo!Next
        <3> QED BY <2>3, <3>2, <3>3, <3>4
    <2>4. ASSUME NEW c \in Core,
                 \/ Disable(c) \/ Check(c) \/ SetOwner(c) \/ Record(c) \/ CountDown(c)
                 \/ Drop(c) \/ Restore(c) \/ Interrupt(c) \/ InterruptReturn(c) \/ ToggleMask(c)
          PROVE  UNCHANGED <<Line, Admitted>>
        BY <2>1, <2>4, QuietSteps
    <2> QED BY <2>2, <2>3, <2>4 DEF Next, LockStep, UnlockStep
<1> QED BY <1>1, <1>2, TicketsStayHeld, InvariantHolds, PTL DEF Spec, Fifo!Safety

=============================================================================
