------------------------- MODULE SharedQueueProofs -------------------------
(* Proofs about TicketMutex and SharedQueue. *)
EXTENDS SharedQueue, FiniteSetTheorems, SequenceTheorems, TLAPS

-----------------------------------------------------------------------------
(* Arithmetic of the wrapping counters *)

\* Going up from a counter value by at most the modulus wraps at most once.
LEMMA UpWraps ==
    ASSUME NEW g \in Counter, NEW n \in 0 .. Modulus
    PROVE  (g + n) % Modulus = IF g + n < Modulus THEN g + n ELSE g + n - Modulus
BY ModulusAssumption DEF Counter

\* The distance between two counter values.
LEMMA DownWraps ==
    ASSUME NEW a \in Counter, NEW g \in Counter
    PROVE  (a - g) % Modulus = IF g <= a THEN a - g ELSE a - g + Modulus
BY ModulusAssumption DEF Counter

\* One more.
LEMMA IncWraps ==
    ASSUME NEW g \in Counter
    PROVE  /\ Inc(g) \in Counter
           /\ Inc(g) = IF g + 1 < Modulus THEN g + 1 ELSE 0
<1>1. 1 \in 0 .. Modulus /\ Modulus \in Nat \ {0}
    BY ModulusAssumption
<1>2. (g + 1) % Modulus = IF g + 1 < Modulus THEN g + 1 ELSE g + 1 - Modulus
    BY <1>1, UpWraps
<1> QED BY <1>1, <1>2 DEF Counter, Inc

-----------------------------------------------------------------------------
(* The mutex *)

\* The threads that hold a ticket are finitely many, and fit the counters.
LEMMA WaitingFinite ==
    /\ IsFiniteSet(Waiting)
    /\ Cardinality(Waiting) \in 0 .. Modulus
    /\ \A p \in Thread : p \notin Waiting => Cardinality(Waiting) < Modulus
<1>1. Waiting \subseteq Thread /\ IsFiniteSet(Thread)
    BY ContendersAssumption DEF Waiting
<1>2. /\ IsFiniteSet(Waiting) /\ Cardinality(Waiting) <= Cardinality(Thread)
      /\ Cardinality(Waiting) = Cardinality(Thread) => Waiting = Thread
    BY <1>1, FS_Subset
<1>3. Cardinality(Waiting) \in Nat /\ Cardinality(Thread) \in Nat
    BY <1>1, <1>2, FS_CardinalityType
<1> QED BY <1>2, <1>3, ContendersAssumption, ModulusAssumption

\* The counters and the threads keep their types.
LEMMA MutexTypes ==
    ASSUME TypeOK, [Next]_vars
    PROVE  TypeOK'
<1>1. ASSUME NEW p \in Thread, MutexLock(p) \/ MutexEnter(p) \/ UnlockLoad(p) \/ UnlockStore(p)
      PROVE  TypeOK'
    <2>1. CASE MutexLock(p)
        BY <2>1, IncWraps DEF TypeOK, MutexLock
    <2>2. CASE MutexEnter(p)
        BY <2>2 DEF TypeOK, MutexEnter
    <2>3. CASE UnlockLoad(p)
        BY <2>3 DEF TypeOK, UnlockLoad
    <2>4. CASE UnlockStore(p)
        BY <2>4, IncWraps DEF TypeOK, UnlockStore
    <2> QED BY <1>1, <2>1, <2>2, <2>3, <2>4
<1>2. CASE UNCHANGED vars
    BY <1>2 DEF TypeOK, vars
<1> QED BY <1>1, <1>2 DEF Next

\* mutex_init leaves no ticket in use.
LEMMA MutexInit == Init => MutexInv
<1> SUFFICES ASSUME Init PROVE MutexInv
    OBVIOUS
<1>1. Waiting = {} /\ Cardinality(Waiting) = 0
    <2>1. Waiting = {}
        BY DEF Init, Waiting
    <2> QED BY <2>1, FS_EmptySet
<1>2. TypeOK
    BY ModulusAssumption DEF Init, TypeOK, Counter
<1>3. request = (grant + 0) % Modulus
    BY ModulusAssumption DEF Init
<1>4. \A p \in Thread : ~Inside(p)
    BY DEF Init, Inside
<1> QED BY <1>1, <1>2, <1>3, <1>4 DEF MutexInv, TicketsInOrder

\* The distance of a thread, without the modulus.
LEMMA DistanceIs ==
    ASSUME TypeOK, NEW p \in Thread
    PROVE  Distance(p) = IF grant <= t[p] THEN t[p] - grant ELSE t[p] - grant + Modulus
<1>1. t[p] \in Counter /\ grant \in Counter
    BY DEF TypeOK
<1> QED BY <1>1, DownWraps DEF Distance

\* ... in the next state as well.
LEMMA DistanceIsNext ==
    ASSUME TypeOK', NEW p \in Thread
    PROVE  Distance(p)' = IF grant' <= t'[p] THEN t'[p] - grant' ELSE t'[p] - grant' + Modulus
<1>1. t'[p] \in Counter /\ grant' \in Counter
    BY DEF TypeOK
<1> QED BY <1>1, DownWraps DEF Distance

\* A step that keeps counters and tickets, and lets in only who is next.
LEMMA SameTickets ==
    ASSUME TicketsInOrder, UNCHANGED <<request, grant, t>>, Waiting' = Waiting,
           \A q \in Thread : Inside(q)' => Inside(q) \/ t[q] = grant
    PROVE  TicketsInOrder'
<1>1. \A q \in Thread : Distance(q)' = Distance(q)
    BY DEF Distance
<1>2. Waiting \subseteq Thread
    BY DEF Waiting
<1> QED BY <1>1, <1>2 DEF TicketsInOrder

\* mutex_lock draws the ticket after the last one in use.
LEMMA LockStepTickets ==
    ASSUME MutexInv, TypeOK', NEW p \in Thread, MutexLock(p)
    PROVE  /\ Waiting' = Waiting \cup {p} /\ p \notin Waiting /\ Waiting \subseteq Thread
           /\ Cardinality(Waiting) \in Nat /\ Cardinality(Waiting') = Cardinality(Waiting) + 1
           /\ request' = (grant' + (Cardinality(Waiting) + 1)) % Modulus
           /\ Distance(p)' = Cardinality(Waiting)
           /\ \A q \in Waiting : /\ t'[q] = t[q] /\ t[q] # t'[p]
                                 /\ Distance(q)' = Distance(q)
                                 /\ Distance(q) \in 0 .. Cardinality(Waiting) - 1
           /\ \A q \in Thread : Inside(q)' => Inside(q) /\ q # p
<1> DEFINE n == Cardinality(Waiting)
<1>1. /\ pc[p] = "out" /\ pc'[p] = "spin" /\ t'[p] = request /\ grant' = grant
      /\ request' = Inc(request)
      /\ \A q \in Thread : q # p => pc'[q] = pc[q] /\ t'[q] = t[q]
    BY DEF MutexInv, TypeOK, MutexLock
<1>2. Waiting' = Waiting \cup {p} /\ p \notin Waiting /\ Waiting \subseteq Thread
    BY <1>1 DEF Waiting
<1>3. n \in 0 .. Modulus - 1 /\ Cardinality(Waiting') = n + 1
    <2>1. IsFiniteSet(Waiting) /\ n \in 0 .. Modulus /\ n < Modulus
        BY <1>2, WaitingFinite
    <2>2. Cardinality(Waiting \cup {p}) = n + 1
        BY <1>2, <2>1, FS_AddElement, Zenon
    <2>3. Cardinality(Waiting') = n + 1
        BY <1>2, <2>2
    <2> HIDE DEF n
    <2> QED BY <2>1, <2>3, ModulusAssumption
<1>4. /\ request \in Counter /\ grant \in Counter /\ Modulus \in Nat \ {0}
      /\ request = IF grant + n < Modulus THEN grant + n ELSE grant + n - Modulus
    <2>1. request \in Counter /\ grant \in Counter /\ request = (grant + n) % Modulus
        BY DEF MutexInv, TypeOK, TicketsInOrder
    <2>2. n \in 0 .. Modulus /\ Modulus \in Nat \ {0}
        BY <1>3, ModulusAssumption
    <2> HIDE DEF n
    <2> QED BY <2>1, <2>2, UpWraps, Zenon
<1>5. request' = (grant' + (n + 1)) % Modulus
    <2>1. (grant + (n + 1)) % Modulus =
              IF grant + (n + 1) < Modulus THEN grant + (n + 1) ELSE grant + (n + 1) - Modulus
        <3>1. n + 1 \in 0 .. Modulus
            BY <1>3, <1>4
        <3> HIDE DEF n
        <3> QED BY <1>4, <3>1, UpWraps, Zenon
    <2> QED BY <1>1, <1>3, <1>4, <2>1, IncWraps DEF Counter
<1>6. Distance(p)' = n
    BY <1>1, <1>3, <1>4, DistanceIsNext DEF Counter
<1>7. ASSUME NEW q \in Waiting
      PROVE  Distance(q)' = Distance(q) /\ Distance(q) \in 0 .. n - 1 /\ q # p
    <2>1. q \in Thread /\ t[q] \in Counter /\ q # p /\ Distance(q) < n
        BY <1>2 DEF MutexInv, TypeOK, TicketsInOrder
    <2>2. Distance(q) = IF grant <= t[q] THEN t[q] - grant ELSE t[q] - grant + Modulus
        BY <2>1, DistanceIs DEF MutexInv
    <2>3. Distance(q) \in 0 .. n - 1
        BY <1>3, <1>4, <2>1, <2>2 DEF Counter
    <2>4. Distance(q)' = Distance(q)
        BY <1>1, <2>1 DEF Distance
    <2> QED BY <2>1, <2>3, <2>4
<1>8. \A q \in Waiting : t'[q] = t[q] /\ t[q] # request
    <2> SUFFICES ASSUME NEW q \in Waiting, t[q] = request PROVE FALSE
        BY <1>1, <1>2
    <2>1. Distance(q) = IF grant <= t[q] THEN t[q] - grant ELSE t[q] - grant + Modulus
        BY <1>2, DistanceIs DEF MutexInv
    <2>2. Distance(q) = n
        BY <1>3, <1>4, <2>1 DEF Counter
    <2> QED BY <1>3, <1>7, <2>2
<1>9. \A q \in Thread : Inside(q)' => Inside(q) /\ q # p
    BY <1>1 DEF Inside
<1> QED BY <1>1, <1>2, <1>3, <1>5, <1>6, <1>7, <1>8, <1>9

\* The tickets stay in order ...
LEMMA LockStepInOrder ==
    ASSUME MutexInv, TypeOK', NEW p \in Thread, MutexLock(p)
    PROVE  TicketsInOrder'
<1> DEFINE n == Cardinality(Waiting)
<1>1. /\ Waiting' = Waiting \cup {p} /\ p \notin Waiting
      /\ n \in Nat /\ Cardinality(Waiting') = n + 1
      /\ request' = (grant' + (n + 1)) % Modulus
      /\ Distance(p)' = n
      /\ \A q \in Waiting : /\ t'[q] = t[q] /\ t[q] # t'[p]
                            /\ Distance(q)' = Distance(q) /\ Distance(q) \in 0 .. n - 1
      /\ \A q \in Thread : Inside(q)' => Inside(q) /\ q # p
    BY LockStepTickets
<1> HIDE DEF n
<1>2. \A q \in Waiting' : Distance(q)' < n + 1
    BY <1>1
<1>3. \A q, r \in Waiting' : t'[q] = t'[r] => q = r
    BY <1>1 DEF MutexInv, TicketsInOrder
<1>4. \A i \in 0 .. (n + 1) - 1 : \E q \in Waiting' : Distance(q)' = i
    <2> SUFFICES ASSUME NEW i \in 0 .. (n + 1) - 1
                 PROVE  \E q \in Waiting' : Distance(q)' = i
        OBVIOUS
    <2>1. i = n \/ i \in 0 .. n - 1
        BY <1>1
    <2>2. ASSUME i \in 0 .. n - 1 PROVE \E q \in Waiting' : Distance(q)' = i
        <3>1. PICK q \in Waiting : Distance(q) = i
            BY <2>2 DEF MutexInv, TicketsInOrder, n
        <3> QED BY <1>1, <3>1
    <2> QED BY <1>1, <2>1, <2>2
<1>5. \A q \in Thread : Inside(q)' => t'[q] = grant'
    BY <1>1 DEF Inside, Waiting, MutexInv, TicketsInOrder, MutexLock
<1>6. /\ request' = (grant' + Cardinality(Waiting')) % Modulus
      /\ \A q \in Waiting' : Distance(q)' < Cardinality(Waiting')
      /\ \A i \in 0 .. Cardinality(Waiting') - 1 : \E q \in Waiting' : Distance(q)' = i
    BY <1>1, <1>2, <1>4, Zenon
<1> QED BY <1>3, <1>5, <1>6, Zenon DEF TicketsInOrder

\* mutex_unlock passes the lock to the next ticket.
LEMMA UnlockStepTickets ==
    ASSUME MutexInv, TypeOK', NEW p \in Thread, UnlockStore(p)
    PROVE  /\ Waiting' = Waiting \ {p} /\ p \in Waiting /\ Waiting \subseteq Thread
           /\ Cardinality(Waiting) \in Nat /\ Cardinality(Waiting') = Cardinality(Waiting) - 1
           /\ request' = (grant' + (Cardinality(Waiting) - 1)) % Modulus
           /\ t' = t /\ Inside(p) /\ Distance(p) = 0
           /\ \A q \in Waiting' : /\ Distance(q)' = Distance(q) - 1
                                  /\ Distance(q) \in 1 .. Cardinality(Waiting) - 1
           /\ \A q \in Thread : ~Inside(q)'
<1> DEFINE n == Cardinality(Waiting)
<1>1. /\ pc[p] = "unlock" /\ pc'[p] = "out" /\ UNCHANGED <<request, t>>
      /\ grant' = Inc(t[p])
      /\ \A q \in Thread : q # p => pc'[q] = pc[q]
    BY DEF MutexInv, TypeOK, UnlockStore
<1>2. Waiting' = Waiting \ {p} /\ p \in Waiting /\ Waiting \subseteq Thread
    BY <1>1 DEF Waiting
<1>3. n \in 1 .. Modulus /\ Cardinality(Waiting') = n - 1
    <2>1. Cardinality(Waiting \ {p}) = n - 1 /\ IsFiniteSet(Waiting \ {p})
        BY <1>2, WaitingFinite, FS_RemoveElement
    <2>2. Cardinality(Waiting \ {p}) \in Nat
        BY <2>1, FS_CardinalityType
    <2> QED BY <1>2, <2>1, <2>2, WaitingFinite
<1>4. t[p] = grant /\ grant \in Counter /\ request \in Counter /\ Modulus \in Nat \ {0}
    BY <1>1, ModulusAssumption DEF Inside, MutexInv, TypeOK, TicketsInOrder
<1>5. grant' = IF grant + 1 < Modulus THEN grant + 1 ELSE 0
    BY <1>1, <1>4, IncWraps
<1>6. request = IF grant + n < Modulus THEN grant + n ELSE grant + n - Modulus
    <2>1. request = (grant + n) % Modulus /\ n \in 0 .. Modulus
        BY <1>3, <1>4 DEF MutexInv, TicketsInOrder
    <2> HIDE DEF n
    <2> QED BY <1>4, <2>1, UpWraps, Zenon
<1>7. request' = (grant' + (n - 1)) % Modulus
    <2>1. n - 1 \in 0 .. Modulus /\ grant' \in Counter
        BY <1>3, <1>4 DEF TypeOK
    <2>2. (grant' + (n - 1)) % Modulus =
              IF grant' + (n - 1) < Modulus THEN grant' + (n - 1) ELSE grant' + (n - 1) - Modulus
        <3> HIDE DEF n
        <3> QED BY <2>1, UpWraps, Zenon
    <2> QED BY <1>1, <1>3, <1>4, <1>5, <1>6, <2>2 DEF Counter
<1>8. ASSUME NEW q \in Waiting'
      PROVE  /\ q \in Waiting /\ q # p /\ Distance(q) \in 1 .. n - 1
             /\ Distance(q)' = Distance(q) - 1
    <2>1. q \in Waiting /\ q # p /\ q \in Thread
        BY <1>2
    <2>2. t[q] # grant /\ t[q] \in Counter /\ Distance(q) < n
        BY <1>2, <1>4, <2>1 DEF MutexInv, TypeOK, TicketsInOrder
    <2>3. Distance(q) = IF grant <= t[q] THEN t[q] - grant ELSE t[q] - grant + Modulus
        BY <2>1, DistanceIs DEF MutexInv
    <2>4. Distance(q)' = IF grant' <= t[q] THEN t[q] - grant' ELSE t[q] - grant' + Modulus
        BY <1>1, <2>1, DistanceIsNext
    <2>5. Distance(q) \in 1 .. n - 1
        BY <1>3, <1>4, <2>2, <2>3 DEF Counter
    <2>6. Distance(q)' = Distance(q) - 1
        BY <1>4, <1>5, <2>2, <2>3, <2>4 DEF Counter
    <2> QED BY <2>1, <2>5, <2>6
<1>9. \A q \in Thread : ~Inside(q)'
    <2> SUFFICES ASSUME NEW q \in Thread, Inside(q)' PROVE FALSE
        OBVIOUS
    <2>1. q # p /\ Inside(q) /\ q \in Waiting
        BY <1>1 DEF Inside, Waiting
    <2>2. t[q] = t[p]
        BY <1>4, <2>1 DEF MutexInv, TicketsInOrder
    <2> QED BY <1>2, <2>1, <2>2 DEF MutexInv, TicketsInOrder
<1>10. Inside(p) /\ Distance(p) = 0
    BY <1>1, <1>4, DistanceIs DEF Inside, MutexInv, Counter
<1> QED BY <1>1, <1>2, <1>3, <1>7, <1>8, <1>9, <1>10

\* The tickets stay in order.
LEMMA UnlockStepInOrder ==
    ASSUME MutexInv, TypeOK', NEW p \in Thread, UnlockStore(p)
    PROVE  TicketsInOrder'
<1> DEFINE n == Cardinality(Waiting)
<1>1. /\ Waiting' = Waiting \ {p}
      /\ n \in Nat /\ Cardinality(Waiting') = n - 1
      /\ request' = (grant' + (n - 1)) % Modulus
      /\ t' = t /\ Distance(p) = 0
      /\ \A q \in Waiting' : Distance(q)' = Distance(q) - 1 /\ Distance(q) \in 1 .. n - 1
      /\ \A q \in Thread : ~Inside(q)'
    BY UnlockStepTickets
<1> HIDE DEF n
<1>2. \A q \in Waiting' : Distance(q)' < n - 1
    BY <1>1
<1>3. \A q, r \in Waiting' : t'[q] = t'[r] => q = r
    BY <1>1 DEF MutexInv, TicketsInOrder
<1>4. \A i \in 0 .. (n - 1) - 1 : \E q \in Waiting' : Distance(q)' = i
    <2> SUFFICES ASSUME NEW i \in 0 .. (n - 1) - 1
                 PROVE  \E q \in Waiting' : Distance(q)' = i
        OBVIOUS
    <2>1. i + 1 \in 0 .. n - 1
        BY <1>1
    <2>2. PICK q \in Waiting : Distance(q) = i + 1
        BY <2>1 DEF MutexInv, TicketsInOrder, n
    <2>3. q \in Waiting'
        BY <1>1, <2>2
    <2> QED BY <1>1, <2>2, <2>3
<1>5. /\ request' = (grant' + Cardinality(Waiting')) % Modulus
      /\ \A q \in Waiting' : Distance(q)' < Cardinality(Waiting')
      /\ \A i \in 0 .. Cardinality(Waiting') - 1 : \E q \in Waiting' : Distance(q)' = i
    BY <1>1, <1>2, <1>4, Zenon
<1>6. \A q \in Thread : Inside(q)' => t'[q] = grant'
    BY <1>1
<1> QED BY <1>3, <1>5, <1>6, Zenon DEF TicketsInOrder

\* The order of the tickets is an inductive invariant of the mutex.
LEMMA MutexStep == MutexInv /\ [Next]_vars => MutexInv'
<1> SUFFICES ASSUME MutexInv, [Next]_vars PROVE MutexInv'
    OBVIOUS
<1>1. TypeOK'
    BY MutexTypes DEF MutexInv
<1>2. ASSUME NEW p \in Thread, MutexEnter(p) PROVE TicketsInOrder'
    <2>1. /\ pc[p] = "spin" /\ pc'[p] = "in" /\ t[p] = grant
          /\ UNCHANGED <<request, grant, t>>
          /\ \A q \in Thread : q # p => pc'[q] = pc[q]
        BY <1>2 DEF MutexInv, TypeOK, MutexEnter
    <2>2. Waiting' = Waiting /\ \A q \in Thread : Inside(q)' => Inside(q) \/ t[q] = grant
        BY <2>1 DEF Waiting, Inside
    <2> QED BY <2>1, <2>2, SameTickets DEF MutexInv
<1>3. ASSUME NEW p \in Thread, UnlockLoad(p) PROVE TicketsInOrder'
    <2>1. /\ pc[p] = "in" /\ pc'[p] = "unlock" /\ UNCHANGED <<request, grant>>
          /\ \A q \in Thread : q # p => pc'[q] = pc[q]
        BY <1>3 DEF MutexInv, TypeOK, UnlockLoad
    <2>2. t[p] = grant
        BY <2>1 DEF MutexInv, TicketsInOrder, Inside
    <2>3. t' = t
        BY <1>3, <2>2 DEF MutexInv, TypeOK, UnlockLoad
    <2>4. Waiting' = Waiting /\ \A q \in Thread : Inside(q)' => Inside(q) \/ t[q] = grant
        BY <2>1 DEF Waiting, Inside
    <2> QED BY <2>1, <2>3, <2>4, SameTickets DEF MutexInv
<1>4. CASE UNCHANGED vars
    <2>1. UNCHANGED <<request, grant, t, pc>>
        BY <1>4 DEF vars
    <2>2. Waiting' = Waiting /\ \A q \in Thread : Inside(q)' => Inside(q)
        BY <2>1 DEF Waiting, Inside
    <2> QED BY <1>1, <2>1, <2>2, SameTickets DEF MutexInv
<1> QED BY <1>1, <1>2, <1>3, <1>4, LockStepInOrder, UnlockStepInOrder DEF Next, MutexInv

\* The order of the tickets holds throughout, whatever the number of threads,
\* the modulus and the number of wraps.
THEOREM TicketsStayInOrder == Spec => []MutexInv
BY MutexInit, MutexStep, PTL DEF Spec

\* No two threads are inside.
LEMMA OneInside ==
    ASSUME MutexInv, NEW p \in Thread, NEW q \in Thread, Inside(p), Inside(q)
    PROVE  p = q
<1>1. p \in Waiting /\ q \in Waiting
    BY DEF Inside, Waiting
<1> QED BY <1>1 DEF MutexInv, TicketsInOrder

\* The line of the refinement mapping: its i-th place is the thread that is
\* i - 1 tickets from its turn.
LineByTicket ==
    /\ Line \in Seq(Thread)
    /\ Len(Line) = Cardinality(Waiting)
    /\ \A i \in 1 .. Len(Line) : Line[i] \in Waiting /\ Distance(Line[i]) = i - 1
    /\ \A p \in Waiting : Distance(p) + 1 \in 1 .. Len(Line) /\ Line[Distance(p) + 1] = p

\* The invariant makes it so ...
LEMMA LineFacts == MutexInv => LineByTicket
<1> SUFFICES ASSUME MutexInv PROVE LineByTicket
    OBVIOUS
<1> DEFINE n == Cardinality(Waiting)
<1>1. n \in Nat /\ Waiting \subseteq Thread
    BY WaitingFinite DEF Waiting
<1>2. ASSUME NEW i \in 1 .. n
      PROVE  /\ (CHOOSE p \in Waiting : Distance(p) = i - 1) \in Waiting
             /\ Distance(CHOOSE p \in Waiting : Distance(p) = i - 1) = i - 1
    <2>1. i - 1 \in 0 .. n - 1
        BY <1>1
    <2>2. \E p \in Waiting : Distance(p) = i - 1
        BY <2>1 DEF MutexInv, TicketsInOrder
    <2> QED BY <2>2, Zenon
<1>3. Line = [i \in 1 .. n |-> CHOOSE p \in Waiting : Distance(p) = i - 1]
    BY DEF Line
<1>4. \A i \in 1 .. n : Line[i] \in Waiting /\ Distance(Line[i]) = i - 1
    BY <1>2, <1>3
<1> HIDE DEF n
<1>5. Line \in Seq(Thread) /\ Len(Line) = n
    <2>1. Line \in [1 .. n -> Thread]
        BY <1>1, <1>3, <1>4
    <2> QED BY <1>1, <2>1
<1>6. ASSUME NEW p \in Waiting
      PROVE  Distance(p) + 1 \in 1 .. n /\ Line[Distance(p) + 1] = p
    <2>1. /\ p \in Thread /\ t[p] \in Counter /\ grant \in Counter
          /\ Distance(p) = IF grant <= t[p] THEN t[p] - grant ELSE t[p] - grant + Modulus
        BY <1>1, DistanceIs DEF MutexInv, TypeOK
    <2>2. Distance(p) < n
        BY DEF MutexInv, TicketsInOrder, n
    <2>3. Distance(p) + 1 \in 1 .. n /\ (Distance(p) + 1) - 1 = Distance(p)
        BY <1>1, <2>1, <2>2, ModulusAssumption DEF Counter
    <2>4. PICK q \in Waiting : q = Line[Distance(p) + 1] /\ Distance(q) = Distance(p)
        BY <1>4, <2>3
    <2>5. /\ q \in Thread /\ t[q] \in Counter
          /\ Distance(q) = IF grant <= t[q] THEN t[q] - grant ELSE t[q] - grant + Modulus
        BY <1>1, DistanceIs DEF MutexInv, TypeOK
    <2>6. t[q] = t[p]
        BY <2>1, <2>4, <2>5, ModulusAssumption DEF Counter
    <2>7. q = p
        BY <2>6 DEF MutexInv, TicketsInOrder
    <2> QED BY <2>3, <2>4, <2>7
<1> QED BY <1>4, <1>5, <1>6 DEF LineByTicket, n

\* ... in the next state as well.
LEMMA LineFactsNext == MutexInv' => LineByTicket'
BY LineFacts, PTL

\* A line that keeps its threads and their distances is the same line.
LEMMA LineUnchanged ==
    ASSUME MutexInv, MutexInv', UNCHANGED <<grant, t>>, Waiting' = Waiting
    PROVE  Line' = Line
<1>1. LineByTicket /\ LineByTicket'
    BY LineFacts, LineFactsNext
<1>2. Line \in Seq(Thread) /\ Line' \in Seq(Thread) /\ Len(Line') = Len(Line)
    BY <1>1 DEF LineByTicket
<1>3. ASSUME NEW i \in 1 .. Len(Line)
      PROVE  Line'[i] = Line[i]
    <2>1. PICK p \in Waiting : p = Line[i] /\ Distance(p) = i - 1
        BY <1>1 DEF LineByTicket
    <2>2. Distance(p)' = i - 1 /\ p \in Waiting'
        BY <2>1 DEF Distance
    <2>3. Distance(p)' + 1 = i
        BY <2>2
    <2> QED BY <1>1, <2>1, <2>2, <2>3 DEF LineByTicket
<1> QED BY <1>2, <1>3, SeqEqual

\* mutex_lock joins the end of the line.
LEMMA LineGrows ==
    ASSUME MutexInv, MutexInv', NEW p \in Thread, MutexLock(p)
    PROVE  Fifo!Arrive(p)
<1>1. LineByTicket /\ LineByTicket'
    BY LineFacts, LineFactsNext
<1>2. /\ Waiting' = Waiting \cup {p} /\ p \notin Waiting
      /\ Cardinality(Waiting) \in Nat /\ Cardinality(Waiting') = Cardinality(Waiting) + 1
      /\ Distance(p)' = Cardinality(Waiting)
      /\ \A q \in Waiting : Distance(q)' = Distance(q)
    BY LockStepTickets DEF MutexInv
<1>3. /\ Line \in Seq(Thread) /\ Line' \in Seq(Thread)
      /\ Len(Line) \in Nat /\ Len(Line') = Len(Line) + 1
      /\ Distance(p)' = Len(Line)
    BY <1>1, <1>2 DEF LineByTicket
<1>4. Line'[Len(Line) + 1] = p
    BY <1>1, <1>2, <1>3 DEF LineByTicket
<1>5. ASSUME NEW i \in 1 .. Len(Line)
      PROVE  Line'[i] = Line[i]
    <2>1. PICK q \in Waiting : q = Line[i] /\ Distance(q) = i - 1
        BY <1>1 DEF LineByTicket
    <2>2. q \in Waiting' /\ Distance(q)' + 1 = i
        BY <1>2, <2>1
    <2> QED BY <1>1, <2>1, <2>2 DEF LineByTicket
<1>6. Line' = Append(Line, p)
    <2>1. /\ Append(Line, p) \in Seq(Thread) /\ Len(Append(Line, p)) = Len(Line) + 1
          /\ \A i \in 1 .. Len(Line) : Append(Line, p)[i] = Line[i]
          /\ Append(Line, p)[Len(Line) + 1] = p
        BY <1>3
    <2>2. \A i \in 1 .. Len(Line') : Line'[i] = Append(Line, p)[i]
        BY <1>3, <1>4, <1>5, <2>1
    <2> QED BY <1>3, <2>1, <2>2, SeqEqual
<1>7. p \notin Fifo!Range(Line)
    <2>1. \A i \in 1 .. Len(Line) : Line[i] # p
        BY <1>1, <1>2 DEF LineByTicket
    <2> QED BY <1>3, <2>1 DEF Fifo!Range
<1>8. \A q \in Thread : Inside(q)' <=> Inside(q)
    <2>1. /\ pc[p] = "out" /\ pc'[p] = "spin"
          /\ \A q \in Thread : q # p => pc'[q] = pc[q]
        BY DEF MutexInv, TypeOK, MutexLock
    <2> QED BY <2>1 DEF Inside
<1>9. UNCHANGED Admitted
    BY <1>8 DEF Admitted
<1> QED BY <1>6, <1>7, <1>9 DEF Fifo!Arrive

\* The end of the spin loop admits the head of the line.
LEMMA HeadAdmitted ==
    ASSUME MutexInv, MutexInv', NEW p \in Thread, MutexEnter(p)
    PROVE  Fifo!Admit
<1>1. /\ pc[p] = "spin" /\ pc'[p] = "in" /\ t[p] = grant /\ UNCHANGED <<grant, t>>
      /\ \A q \in Thread : q # p => pc'[q] = pc[q]
    BY DEF MutexInv, TypeOK, MutexEnter
<1>2. Waiting' = Waiting /\ p \in Waiting
    BY <1>1 DEF Waiting
<1>3. Line' = Line
    BY <1>1, <1>2, LineUnchanged
<1>4. Line # <<>>
    <2>1. LineByTicket
        BY LineFacts
    <2>2. 1 <= Len(Line)
        BY <1>2, <2>1 DEF LineByTicket
    <2> QED BY <2>2
<1>5. \A q \in Thread : ~Inside(q)
    <2> SUFFICES ASSUME NEW q \in Thread, Inside(q) PROVE FALSE
        OBVIOUS
    <2>1. q \in Waiting /\ t[q] = grant /\ q # p
        BY <1>1 DEF Inside, Waiting, MutexInv, TicketsInOrder
    <2> QED BY <1>1, <1>2, <2>1 DEF MutexInv, TicketsInOrder
<1>6. ~Admitted /\ Admitted' = TRUE
    BY <1>1, <1>5 DEF Admitted, Inside
<1> QED BY <1>3, <1>4, <1>6 DEF Fifo!Admit

\* The store of grant + 1 takes the owner, who is its head, off the line.
LEMMA HeadLeaves ==
    ASSUME MutexInv, MutexInv', NEW p \in Thread, UnlockStore(p)
    PROVE  Fifo!Leave
<1>1. LineByTicket /\ LineByTicket'
    BY LineFacts, LineFactsNext
<1>2. /\ Waiting' = Waiting \ {p} /\ p \in Waiting
      /\ Cardinality(Waiting) \in Nat /\ Cardinality(Waiting') = Cardinality(Waiting) - 1
      /\ Inside(p) /\ Distance(p) = 0
      /\ \A q \in Waiting' : Distance(q)' = Distance(q) - 1
      /\ \A q \in Thread : ~Inside(q)'
    BY UnlockStepTickets DEF MutexInv
<1>3. /\ Line \in Seq(Thread) /\ Line' \in Seq(Thread)
      /\ Len(Line) \in Nat /\ Len(Line') = Len(Line) - 1 /\ Len(Line') \in Nat
    BY <1>1, <1>2 DEF LineByTicket
<1>4. Line # <<>>
    BY <1>3
<1>5. ASSUME NEW i \in 1 .. Len(Line')
      PROVE  Line'[i] = Line[i + 1]
    <2>1. i + 1 \in 1 .. Len(Line)
        BY <1>3
    <2>2. PICK q \in Waiting : q = Line[i + 1] /\ Distance(q) = (i + 1) - 1
        BY <1>1, <2>1 DEF LineByTicket
    <2>3. q \in Waiting'
        BY <1>2, <2>2
    <2>4. Distance(q)' + 1 = i
        BY <1>2, <2>2, <2>3
    <2> QED BY <1>1, <2>2, <2>3, <2>4 DEF LineByTicket
<1>6. Line' = Tail(Line)
    <2>1. /\ Tail(Line) \in Seq(Thread) /\ Len(Tail(Line)) = Len(Line) - 1
          /\ \A i \in 1 .. Len(Tail(Line)) : Tail(Line)[i] = Line[i + 1]
        BY <1>3, <1>4, HeadTailProperties
    <2>2. \A i \in 1 .. Len(Line') : Line'[i] = Tail(Line)[i]
        BY <1>3, <1>5, <2>1
    <2> QED BY <1>3, <2>1, <2>2, SeqEqual
<1>7. Admitted /\ Admitted' = FALSE
    <2>1. p \in Thread /\ Inside(p)
        BY <1>2
    <2> QED BY <1>2, <2>1 DEF Admitted
<1> QED BY <1>6, <1>7 DEF Fifo!Leave

\* The mutex is a FIFO lock: mutex_lock joins a line, only its head is admitted,
\* only while nobody else is, and only the head leaves; the wraps of the two
\* counters do not show.
THEOREM MutexRefinesFifo == Spec => Fifo!Safety
<1>1. Init => Fifo!Init
    <2> SUFFICES ASSUME Init PROVE Fifo!Init
        OBVIOUS
    <2>1. Waiting = {} /\ ~Admitted
        BY DEF Init, Waiting, Admitted, Inside
    <2>2. Cardinality(Waiting) = 0
        BY <2>1, FS_EmptySet
    <2>3. LineByTicket
        BY MutexInit, LineFacts
    <2>4. Line = <<>>
        BY <2>2, <2>3 DEF LineByTicket
    <2> QED BY <2>1, <2>4 DEF Fifo!Init, Admitted
<1>2. MutexInv /\ MutexInv' /\ [Next]_vars => [Fifo!Next]_<<Line, Admitted>>
    <2> SUFFICES ASSUME MutexInv, MutexInv', [Next]_vars
                 PROVE  [Fifo!Next]_<<Line, Admitted>>
        OBVIOUS
    <2>1. ASSUME NEW p \in Thread, UnlockLoad(p)
          PROVE  UNCHANGED <<Line, Admitted>>
        <3>1. /\ pc[p] = "in" /\ pc'[p] = "unlock" /\ UNCHANGED grant
              /\ \A q \in Thread : q # p => pc'[q] = pc[q]
            BY <2>1 DEF MutexInv, TypeOK, UnlockLoad
        <3>2. t[p] = grant
            BY <3>1 DEF Inside, MutexInv, TicketsInOrder
        <3>3. t' = t
            BY <2>1, <3>2 DEF MutexInv, TypeOK, UnlockLoad
        <3>4. Waiting' = Waiting /\ \A q \in Thread : Inside(q)' <=> Inside(q)
            BY <3>1 DEF Waiting, Inside
        <3>5. Line' = Line
            BY <3>1, <3>3, <3>4, LineUnchanged
        <3> QED BY <3>4, <3>5 DEF Admitted
    <2>2. CASE UNCHANGED vars
        <3>1. UNCHANGED <<grant, t, pc>> /\ Waiting' = Waiting
            BY <2>2 DEF vars, Waiting
        <3>2. Line' = Line
            BY <3>1, LineUnchanged
        <3> QED BY <3>1, <3>2 DEF Admitted, Inside
    <2> QED BY <2>1, <2>2, LineGrows, HeadAdmitted, HeadLeaves DEF Next, Fifo!Next
<1> QED BY <1>1, <1>2, TicketsStayInOrder, PTL DEF Spec, Fifo!Safety

-----------------------------------------------------------------------------
(* The circular queue *)

\* What the assumption on the size gives.
LEMMA SizeIsPositive == Size \in Nat /\ Size >= 2
BY SizeAssumption

\* The quotients by the powers of two, each half of the one before.
LEMMA Halves ==
    ASSUME NEW n \in Int
    PROVE  /\ n \div 1 = n
           /\ n \div 1 = 2 * (n \div 2) + ((n \div 1) % 2)
           /\ n \div 2 = 2 * (n \div 4) + ((n \div 2) % 2)
           /\ n \div 4 = 2 * (n \div 8) + ((n \div 4) % 2)
           /\ n \div 8 = 2 * (n \div 16) + ((n \div 8) % 2)
           /\ n \div 16 = 2 * (n \div 32) + ((n \div 16) % 2)
           /\ n \div 32 = 2 * (n \div 64) + ((n \div 32) % 2)
           /\ n \div 64 = 2 * (n \div 128) + ((n \div 64) % 2)
<1>1. n \div 1 = 2 * (n \div 2) + ((n \div 1) % 2)
    OBVIOUS
<1>2. n \div 2 = 2 * (n \div 4) + ((n \div 2) % 2)
    OBVIOUS
<1>3. n \div 4 = 2 * (n \div 8) + ((n \div 4) % 2)
    OBVIOUS
<1>4. n \div 8 = 2 * (n \div 16) + ((n \div 8) % 2)
    OBVIOUS
<1>5. n \div 16 = 2 * (n \div 32) + ((n \div 16) % 2)
    OBVIOUS
<1>6. n \div 32 = 2 * (n \div 64) + ((n \div 32) % 2)
    OBVIOUS
<1>7. n \div 64 = 2 * (n \div 128) + ((n \div 64) % 2)
    OBVIOUS
<1>8. n \div 1 = n
    OBVIOUS
<1> QED BY <1>1, <1>2, <1>3, <1>4, <1>5, <1>6, <1>7, <1>8

\* The mask Size - 1 takes the remainder modulo Size, of negative numbers too.
LEMMA MaskIsMod ==
    ASSUME NEW n \in Int
    PROVE  And(n, Size - 1) = n % Size
<1>0. /\ n \div 1 = n
      /\ n \div 1 = 2 * (n \div 2) + ((n \div 1) % 2)
      /\ n \div 2 = 2 * (n \div 4) + ((n \div 2) % 2)
      /\ n \div 4 = 2 * (n \div 8) + ((n \div 4) % 2)
      /\ n \div 8 = 2 * (n \div 16) + ((n \div 8) % 2)
      /\ n \div 16 = 2 * (n \div 32) + ((n \div 16) % 2)
      /\ n \div 32 = 2 * (n \div 64) + ((n \div 32) % 2)
      /\ n \div 64 = 2 * (n \div 128) + ((n \div 64) % 2)
    BY Halves
<1>1. And(n, 1) = n % 2
    <2>1. And(n, 1) = 1 * ((n \div 1) % 2)
        BY DEF And, Bit
    <2>2. n = 2 * (n \div 2) + (n % 2)
        OBVIOUS
    <2> QED BY <2>1, <2>2, <1>0
<1>2. And(n, 3) = n % 4
    <2>1. And(n, 3) = 1 * ((n \div 1) % 2) + 2 * ((n \div 2) % 2)
        BY DEF And, Bit
    <2>2. n = 4 * (n \div 4) + (n % 4)
        OBVIOUS
    <2> QED BY <2>1, <2>2, <1>0
<1>3. And(n, 7) = n % 8
    <2>1. And(n, 7) = 1 * ((n \div 1) % 2) + 2 * ((n \div 2) % 2) + 4 * ((n \div 4) % 2)
        BY DEF And, Bit
    <2>2. n = 8 * (n \div 8) + (n % 8)
        OBVIOUS
    <2> QED BY <2>1, <2>2, <1>0
<1>4. And(n, 15) = n % 16
    <2>1. And(n, 15) = 1 * ((n \div 1) % 2) + 2 * ((n \div 2) % 2) + 4 * ((n \div 4) % 2) + 8 * ((n \div 8) % 2)
        BY DEF And, Bit
    <2>2. n = 16 * (n \div 16) + (n % 16)
        OBVIOUS
    <2> QED BY <2>1, <2>2, <1>0
<1>5. And(n, 31) = n % 32
    <2>1. And(n, 31) = 1 * ((n \div 1) % 2) + 2 * ((n \div 2) % 2) + 4 * ((n \div 4) % 2) + 8 * ((n \div 8) % 2) + 16 * ((n \div 16) % 2)
        BY DEF And, Bit
    <2>2. n = 32 * (n \div 32) + (n % 32)
        OBVIOUS
    <2> QED BY <2>1, <2>2, <1>0
<1>6. And(n, 63) = n % 64
    <2>1. And(n, 63) = 1 * ((n \div 1) % 2) + 2 * ((n \div 2) % 2) + 4 * ((n \div 4) % 2) + 8 * ((n \div 8) % 2) + 16 * ((n \div 16) % 2) + 32 * ((n \div 32) % 2)
        BY DEF And, Bit
    <2>2. n = 64 * (n \div 64) + (n % 64)
        OBVIOUS
    <2> QED BY <2>1, <2>2, <1>0
<1>7. And(n, 127) = n % 128
    <2>1. And(n, 127) = 1 * ((n \div 1) % 2) + 2 * ((n \div 2) % 2) + 4 * ((n \div 4) % 2) + 8 * ((n \div 8) % 2) + 16 * ((n \div 16) % 2) + 32 * ((n \div 32) % 2) + 64 * ((n \div 64) % 2)
        BY DEF And, Bit
    <2>2. n = 128 * (n \div 128) + (n % 128)
        OBVIOUS
    <2> QED BY <2>1, <2>2, <1>0
<1>8. \/ Size = 2 /\ Size - 1 = 1
      \/ Size = 4 /\ Size - 1 = 3
      \/ Size = 8 /\ Size - 1 = 7
      \/ Size = 16 /\ Size - 1 = 15
      \/ Size = 32 /\ Size - 1 = 31
      \/ Size = 64 /\ Size - 1 = 63
      \/ Size = 128 /\ Size - 1 = 127
    BY SizeAssumption
<1> QED BY <1>1, <1>2, <1>3, <1>4, <1>5, <1>6, <1>7, <1>8, Zenon

\* A slot that is at most one round further wraps at most once.
LEMMA SlotUp ==
    ASSUME NEW a \in Nat, a < 2 * Size
    PROVE  a % Size = IF a < Size THEN a ELSE a - Size
BY SizeIsPositive

\* Distances around the ring, when either end moves on.
Gap(h, g) == IF g <= h THEN h - g ELSE h - g + Size
Next1(a) == IF a + 1 < Size THEN a + 1 ELSE 0

LEMMA GapMoves ==
    ASSUME NEW h \in 0 .. Size - 1, NEW g \in 0 .. Size - 1
    PROVE  /\ Size - 1 - Gap(h, g) # 0 => Gap(Next1(h), g) = Gap(h, g) + 1
           /\ Gap(h, g) # 0 => Gap(h, Next1(g)) = Gap(h, g) - 1
BY SizeIsPositive DEF Gap, Next1

\* The number of packets in a queue.
LEMMA AvailIs ==
    ASSUME NEW r \in Queue
    PROVE  /\ CqAvailData(r) = Gap(r.head, r.tail)
           /\ CqAvailData(r) \in 0 .. Size - 1
           /\ CqFreeSpace(r) = Size - 1 - CqAvailData(r)
<1>1. r.head \in Slot /\ r.tail \in Slot /\ r.size = Size /\ Size \in Nat /\ Size >= 2
    BY SizeIsPositive DEF Queue
<1>2. r.head \in 0 .. Size - 1 /\ r.tail \in 0 .. Size - 1 /\ r.head - r.tail \in Int
    BY <1>1 DEF Slot
<1>3. CqAvailData(r) = (r.head - r.tail) % Size
    BY <1>1, <1>2, MaskIsMod DEF CqAvailData
<1>4. (r.head - r.tail) % Size = Gap(r.head, r.tail) /\ Gap(r.head, r.tail) \in 0 .. Size - 1
    BY <1>1, <1>2 DEF Gap
<1>5. CqFreeSpace(r) = Size - 1 - CqAvailData(r)
    BY <1>1 DEF CqFreeSpace
<1> QED BY <1>1, <1>2, <1>3, <1>4, <1>5

\* Moving head publishes one packet.
LEMMA HeadMoves ==
    ASSUME NEW r \in Queue, CqFreeSpace(r) # 0,
           NEW u, u = [r EXCEPT !.head = (r.head + 1) % r.size]
    PROVE  /\ u \in Queue
           /\ u.head = Next1(r.head)
           /\ u.tail = r.tail /\ u.data = r.data
           /\ CqAvailData(u) = CqAvailData(r) + 1
<1>1. r.head \in 0 .. Size - 1 /\ r.tail \in 0 .. Size - 1 /\ r.size = Size
    BY DEF Queue, Slot
<1>2. (r.head + 1) % r.size = IF r.head + 1 < Size THEN r.head + 1 ELSE 0
    BY <1>1, SizeIsPositive
<1>3. (r.head + 1) % r.size \in Slot
    BY <1>1, <1>2, SizeIsPositive DEF Slot
<1>4. u.head = Next1(r.head) /\ u.tail = r.tail /\ u.data = r.data
    BY <1>2 DEF Queue, Next1
<1>5. u \in Queue
    BY <1>3 DEF Queue
<1>6. CqAvailData(u) = CqAvailData(r) + 1
    <2>1. CqAvailData(r) = Gap(r.head, r.tail) /\ CqFreeSpace(r) = Size - 1 - CqAvailData(r)
        BY AvailIs, Zenon
    <2>2. CqAvailData(u) = Gap(Next1(r.head), r.tail)
        BY <1>4, <1>5, AvailIs, Zenon
    <2>3. Size - 1 - Gap(r.head, r.tail) # 0 =>
              Gap(Next1(r.head), r.tail) = Gap(r.head, r.tail) + 1
        BY <1>1, GapMoves
    <2> QED BY <2>1, <2>2, <2>3, Zenon
<1> QED BY <1>4, <1>5, <1>6

\* Moving tail gives one slot back.
LEMMA TailMoves ==
    ASSUME NEW r \in Queue, CqAvailData(r) # 0, NEW u, u = CqRemove(r)
    PROVE  /\ u \in Queue
           /\ u.tail = Next1(r.tail)
           /\ u.head = r.head /\ u.data = r.data
           /\ CqAvailData(u) = CqAvailData(r) - 1
<1>1. r.head \in 0 .. Size - 1 /\ r.tail \in 0 .. Size - 1 /\ r.size = Size
    BY DEF Queue, Slot
<1>2. (r.tail + 1) % r.size = IF r.tail + 1 < Size THEN r.tail + 1 ELSE 0
    BY <1>1, SizeIsPositive
<1>3. (r.tail + 1) % r.size \in Slot
    BY <1>1, <1>2, SizeIsPositive DEF Slot
<1>4. u.tail = Next1(r.tail) /\ u.head = r.head /\ u.data = r.data
    BY <1>2 DEF Queue, CqRemove, Next1
<1>5. u \in Queue
    BY <1>3 DEF Queue, CqRemove
<1>6. CqAvailData(u) = CqAvailData(r) - 1
    <2>1. CqAvailData(r) = Gap(r.head, r.tail)
        BY AvailIs, Zenon
    <2>2. CqAvailData(u) = Gap(r.head, Next1(r.tail))
        BY <1>4, <1>5, AvailIs, Zenon
    <2>3. Gap(r.head, r.tail) # 0 => Gap(r.head, Next1(r.tail)) = Gap(r.head, r.tail) - 1
        BY <1>1, GapMoves
    <2> QED BY <2>1, <2>2, <2>3, Zenon
<1> QED BY <1>4, <1>5, <1>6

\* Filling the slot at head changes no count.
LEMMA HeadFills ==
    ASSUME NEW r \in Queue, NEW m \in Message \cup {Empty},
           NEW u, u = [r EXCEPT !.data[r.head] = m]
    PROVE  /\ u \in Queue /\ u.head = r.head /\ u.tail = r.tail
           /\ u.data[r.head] = m
           /\ \A i \in Slot : i # r.head => u.data[i] = r.data[i]
           /\ CqAvailData(u) = CqAvailData(r) /\ CqFreeSpace(u) = CqFreeSpace(r)
<1>1. /\ r.head \in Slot /\ r.data \in [Slot -> Message \cup {Empty}]
      /\ u = [r EXCEPT !.data = [r.data EXCEPT ![r.head] = m]]
    BY DEF Queue
<1>2. u \in Queue /\ u.head = r.head /\ u.tail = r.tail /\ u.size = r.size
      /\ u.data = [r.data EXCEPT ![r.head] = m]
    BY <1>1 DEF Queue
<1>3. CqAvailData(u) = CqAvailData(r) /\ CqFreeSpace(u) = CqFreeSpace(r)
    BY <1>2 DEF CqAvailData, CqFreeSpace
<1> QED BY <1>1, <1>2, <1>3

-----------------------------------------------------------------------------
(* The senders and the reader *)

\* Every step of the queue is a step of the mutex, or leaves the mutex alone.
LEMMA QueueStepOfMutex == [QueueNext]_queueVars => [Next]_vars
<1> SUFFICES ASSUME [QueueNext]_queueVars PROVE [Next]_vars
    OBVIOUS
<1>1. CASE Reader
    BY <1>1 DEF Reader, SeeData, Copy, Release
<1>2. ASSUME NEW p \in Thread, Sender(p)
      PROVE  [Next]_vars
    BY <1>2 DEF Sender, EnterSend, SeeSpace, Fill, Publish, LeaveSend, Next
<1>3. ASSUME NEW p \in Thread, NEW m \in Message, Send(p, m)
      PROVE  [Next]_vars
    BY <1>3 DEF Send, Next
<1>4. CASE UNCHANGED queueVars
    BY <1>4 DEF queueVars
<1> QED BY <1>1, <1>2, <1>3, <1>4 DEF QueueNext

\* Every step keeps the types.
LEMMA QueueTypes ==
    ASSUME QueueInv, [QueueNext]_queueVars
    PROVE  QueueTypeOK'
<1>1. TypeOK'
    BY QueueStepOfMutex, MutexTypes DEF QueueInv, QueueTypeOK
<1> USE DEF QueueInv, QueueTypeOK
<1>2. CASE SeeData
    BY <1>1, <1>2 DEF SeeData
<1>3. CASE Copy
    BY <1>1, <1>3 DEF Copy, CqFirst, Queue
<1>4. CASE Release
    <2>1. CqAvailData(cq) # 0
        BY <1>4 DEF Release, SlotsApart
    <2>2. cq' \in Queue
        BY <1>4, <2>1, TailMoves DEF Release
    <2> QED BY <1>1, <1>4, <2>2 DEF Release
<1>5. ASSUME NEW p \in Thread, NEW m \in Message, Send(p, m) PROVE QueueTypeOK'
    BY <1>1, <1>5 DEF Send
<1>6. ASSUME NEW p \in Thread, EnterSend(p) PROVE QueueTypeOK'
    BY <1>1, <1>6 DEF EnterSend, Goto
<1>7. ASSUME NEW p \in Thread, SeeSpace(p) PROVE QueueTypeOK'
    BY <1>1, <1>7 DEF SeeSpace, Goto
<1>8. ASSUME NEW p \in Thread, Fill(p) PROVE QueueTypeOK'
    <2>1. cq' \in Queue
        BY <1>8, HeadFills DEF Fill
    <2> QED BY <1>1, <1>8, <2>1 DEF Fill, Goto
<1>9. ASSUME NEW p \in Thread, Publish(p) PROVE QueueTypeOK'
    <2>1. CqFreeSpace(cq) # 0
        BY <1>9 DEF Publish, Goto, SlotsApart
    <2>2. cq' \in Queue
        BY <1>9, <2>1, HeadMoves DEF Publish
    <2> QED BY <1>1, <1>9, <2>2 DEF Publish, Goto
<1>10. ASSUME NEW p \in Thread, LeaveSend(p) PROVE QueueTypeOK'
    BY <1>1, <1>10 DEF LeaveSend, Goto
<1>11. CASE UNCHANGED queueVars
    BY <1>1, <1>11 DEF queueVars
<1> QED BY <1>2, <1>3, <1>4, <1>5, <1>6, <1>7, <1>8, <1>9, <1>10, <1>11
        DEF QueueNext, Reader, Sender

\* The empty queue satisfies the invariant.
LEMMA QueueInitially == QueueInit => QueueInv
<1> SUFFICES ASSUME QueueInit PROVE QueueInv
    OBVIOUS
<1>1. MutexInv
    BY MutexInit DEF QueueInit
<1>2. cq \in Queue
    BY SizeIsPositive DEF QueueInit, CqInit, Queue, Slot
<1>3. QueueTypeOK
    BY <1>1, <1>2 DEF QueueInit, QueueTypeOK, MutexInv
<1>4. SlotsApart
    BY DEF QueueInit, Init, SlotsApart
<1> QED BY <1>1, <1>3, <1>4 DEF QueueInv, MutexInv

\* Who is between the wait for space and the unlock is alone there.
LEMMA OneSends ==
    ASSUME QueueInv, NEW p \in Thread, NEW q \in Thread, step[p] # "idle", step[q] # "idle"
    PROVE  p = q
<1>1. Inside(p) /\ Inside(q)
    BY DEF QueueInv, SlotsApart, Inside
<1> QED BY <1>1, OneInside DEF QueueInv, QueueTypeOK, MutexInv

\* A step of a sender: what it does to the places of the senders.
LEMMA SenderMoves ==
    ASSUME QueueInv, NEW p \in Thread
    PROVE  /\ \A m \in Message : Send(p, m) =>
                 /\ pc[p] = "out" /\ pc'[p] = "spin" /\ out'[p] = m /\ step' = step
                 /\ \A q \in Thread : q # p => pc'[q] = pc[q] /\ out'[q] = out[q]
                 /\ UNCHANGED <<cq, rpc, got>>
           /\ EnterSend(p) =>
                 /\ pc[p] = "spin" /\ pc'[p] = "in" /\ step[p] = "idle" /\ step'[p] = "wait"
                 /\ \A q \in Thread : q # p => pc'[q] = pc[q] /\ step'[q] = step[q]
                 /\ UNCHANGED <<cq, out, rpc, got>>
           /\ LeaveSend(p) =>
                 /\ \/ pc[p] = "in" /\ pc'[p] = "unlock" /\ step[p] = "done" /\ step'[p] = "idle"
                    \/ pc[p] = "unlock" /\ pc'[p] = "out" /\ step'[p] = step[p]
                 /\ \A q \in Thread : q # p => pc'[q] = pc[q] /\ step'[q] = step[q]
                 /\ UNCHANGED <<cq, out, rpc, got>>
<1> USE DEF QueueInv, QueueTypeOK, TypeOK
<1>1. ASSUME NEW m \in Message, Send(p, m)
      PROVE  /\ pc[p] = "out" /\ pc'[p] = "spin" /\ out'[p] = m /\ step' = step
             /\ \A q \in Thread : q # p => pc'[q] = pc[q] /\ out'[q] = out[q]
             /\ UNCHANGED <<cq, rpc, got>>
    BY <1>1 DEF Send, MutexLock
<1>2. ASSUME EnterSend(p)
      PROVE  /\ pc[p] = "spin" /\ pc'[p] = "in" /\ step[p] = "idle" /\ step'[p] = "wait"
             /\ \A q \in Thread : q # p => pc'[q] = pc[q] /\ step'[q] = step[q]
             /\ UNCHANGED <<cq, out, rpc, got>>
    BY <1>2 DEF EnterSend, MutexEnter, Goto
<1>3. ASSUME LeaveSend(p)
      PROVE  /\ \/ pc[p] = "in" /\ pc'[p] = "unlock" /\ step[p] = "done" /\ step'[p] = "idle"
                \/ pc[p] = "unlock" /\ pc'[p] = "out" /\ step'[p] = step[p]
             /\ \A q \in Thread : q # p => pc'[q] = pc[q] /\ step'[q] = step[q]
             /\ UNCHANGED <<cq, out, rpc, got>>
    BY <1>3 DEF LeaveSend, UnlockLoad, UnlockStore, Goto
<1> QED BY <1>1, <1>2, <1>3

\* A step inside the mutex.
LEMMA InsideMoves ==
    ASSUME QueueInv, NEW p \in Thread, SeeSpace(p) \/ Fill(p) \/ Publish(p)
    PROVE  /\ step[p] # "idle" /\ UNCHANGED <<vars, rpc, got>>
           /\ \A q \in Thread : q # p => /\ step'[q] = step[q] /\ step[q] = "idle"
                                         /\ out'[q] = out[q]
           /\ SeeSpace(p) => /\ step[p] = "wait" /\ step'[p] = "fill" /\ CqFreeSpace(cq) # 0
                             /\ UNCHANGED <<cq, out>>
           /\ Fill(p) => step[p] = "fill" /\ step'[p] = "publish" /\ UNCHANGED out
           /\ Publish(p) => step[p] = "publish" /\ step'[p] = "done"
<1>1. /\ step[p] # "idle" /\ UNCHANGED <<vars, rpc, got>>
      /\ \A q \in Thread : q # p => step'[q] = step[q] /\ out'[q] = out[q]
    BY DEF SeeSpace, Fill, Publish, Goto, QueueInv, QueueTypeOK
<1>2. \A q \in Thread : q # p => step[q] = "idle"
    BY <1>1, OneSends
<1>3. SeeSpace(p) => /\ step[p] = "wait" /\ step'[p] = "fill" /\ CqFreeSpace(cq) # 0
                     /\ UNCHANGED <<cq, out>>
    BY DEF SeeSpace, Goto, QueueInv, QueueTypeOK
<1>4. Fill(p) => step[p] = "fill" /\ step'[p] = "publish" /\ UNCHANGED out
    BY DEF Fill, Goto, QueueInv, QueueTypeOK
<1>5. Publish(p) => step[p] = "publish" /\ step'[p] = "done"
    BY DEF Publish, Goto, QueueInv, QueueTypeOK
<1> QED BY <1>1, <1>2, <1>3, <1>4, <1>5

\* Sender and reader keep to their slots.
LEMMA SlotsStayApart ==
    ASSUME QueueInv, [QueueNext]_queueVars
    PROVE  SlotsApart'
<1>0. SlotsApart /\ cq \in Queue
    BY DEF QueueInv, QueueTypeOK
<1>1. CASE SeeData
    BY <1>0, <1>1 DEF SeeData, vars, SlotsApart
<1>2. CASE Copy
    BY <1>0, <1>2 DEF Copy, vars, SlotsApart
<1>3. CASE Release
    <2>1. CqAvailData(cq) # 0 /\ UNCHANGED <<pc, step, out, got>> /\ rpc' = "wait"
        BY <1>0, <1>3 DEF Release, vars, SlotsApart
    <2>2. /\ cq' \in Queue /\ cq'.head = cq.head /\ cq'.data = cq.data
          /\ CqAvailData(cq') = CqAvailData(cq) - 1
        BY <1>0, <1>3, <2>1, TailMoves DEF Release
    <2>3. CqFreeSpace(cq') # 0
        <3>1. CqAvailData(cq) \in 0 .. Size - 1 /\ CqFreeSpace(cq') = Size - 1 - CqAvailData(cq')
            BY <1>0, <2>2, AvailIs
        <3> QED BY <2>2, <3>1, SizeIsPositive
    <2> QED BY <1>0, <2>1, <2>2, <2>3 DEF SlotsApart
<1>4. ASSUME NEW p \in Thread, NEW m \in Message, Send(p, m) PROVE SlotsApart'
    BY <1>0, <1>4, SenderMoves DEF SlotsApart
<1>5. ASSUME NEW p \in Thread, EnterSend(p) PROVE SlotsApart'
    BY <1>0, <1>5, SenderMoves DEF SlotsApart
<1>6. ASSUME NEW p \in Thread, LeaveSend(p) PROVE SlotsApart'
    BY <1>0, <1>6, SenderMoves DEF SlotsApart
<1>7. ASSUME NEW p \in Thread, SeeSpace(p) PROVE SlotsApart'
    BY <1>0, <1>7, InsideMoves DEF SlotsApart, vars
<1>8. ASSUME NEW p \in Thread, Fill(p) PROVE SlotsApart'
    <2>1. /\ step[p] = "fill" /\ step'[p] = "publish" /\ UNCHANGED <<pc, rpc, got, out>>
          /\ \A q \in Thread : q # p => step'[q] = step[q] /\ step[q] = "idle"
        BY <1>8, InsideMoves DEF vars
    <2>2. /\ cq'.head = cq.head /\ cq'.tail = cq.tail
          /\ cq'.data[cq.head] = out[p]
          /\ \A i \in Slot : i # cq.head => cq'.data[i] = cq.data[i]
          /\ CqAvailData(cq') = CqAvailData(cq) /\ CqFreeSpace(cq') = CqFreeSpace(cq)
        <3>1. out[p] \in Message \cup {Empty} /\ cq' = [cq EXCEPT !.data[cq.head] = out[p]]
            BY <1>8 DEF Fill, QueueInv, QueueTypeOK
        <3>2. /\ cq'.head = cq.head /\ cq'.tail = cq.tail /\ cq'.size = cq.size
              /\ cq'.data[cq.head] = out[p]
              /\ \A i \in Slot : i # cq.head => cq'.data[i] = cq.data[i]
            BY <1>0, <3>1 DEF Queue
        <3> QED BY <3>2 DEF CqAvailData, CqFreeSpace
    <2>3. rpc' = "release" => got' = CqFirst(cq')
        <3> SUFFICES ASSUME rpc = "release" PROVE got = cq'.data[cq.tail]
            BY <2>1, <2>2 DEF CqFirst
        <3>1. CqAvailData(cq) # 0 /\ got = cq.data[cq.tail]
            BY <1>0 DEF SlotsApart, CqFirst
        <3>2. cq.tail # cq.head /\ cq.tail \in Slot
            BY <1>0, <3>1, AvailIs DEF Gap, Queue, Slot
        <3> QED BY <2>2, <3>1, <3>2
    <2>4. \A q \in Thread :
              /\ step'[q] # "idle" <=> pc'[q] = "in"
              /\ pc'[q] = "spin" \/ step'[q] \in {"wait", "fill", "publish"} => out'[q] \in Message
              /\ step'[q] \in {"fill", "publish"} => CqFreeSpace(cq') # 0
              /\ step'[q] = "publish" => cq'.data[cq'.head] = out'[q]
        BY <1>0, <2>1, <2>2 DEF SlotsApart
    <2> QED BY <1>0, <2>1, <2>2, <2>3, <2>4 DEF SlotsApart
<1>9. ASSUME NEW p \in Thread, Publish(p) PROVE SlotsApart'
    <2>1. /\ step[p] = "publish" /\ step'[p] = "done" /\ UNCHANGED <<pc, rpc, got>>
          /\ \A q \in Thread : q # p => step'[q] = step[q] /\ step[q] = "idle" /\ out'[q] = out[q]
        BY <1>9, InsideMoves DEF vars
    <2>2. /\ cq'.tail = cq.tail /\ cq'.data = cq.data
          /\ CqAvailData(cq') = CqAvailData(cq) + 1 /\ CqAvailData(cq) \in 0 .. Size - 1
        <3>1. CqFreeSpace(cq) # 0
            BY <1>0, <2>1 DEF SlotsApart
        <3> QED BY <1>0, <1>9, <3>1, HeadMoves, AvailIs DEF Publish
    <2>3. CqAvailData(cq') # 0
        BY <2>2, SizeIsPositive
    <2>4. \A q \in Thread :
              /\ step'[q] # "idle" <=> pc'[q] = "in"
              /\ pc'[q] = "spin" \/ step'[q] \in {"wait", "fill", "publish"} => out'[q] \in Message
              /\ step'[q] \notin {"fill", "publish"}
        BY <1>0, <2>1 DEF SlotsApart
    <2> QED BY <1>0, <2>1, <2>2, <2>3, <2>4 DEF SlotsApart, CqFirst
<1>10. CASE UNCHANGED queueVars
    BY <1>0, <1>10 DEF queueVars, vars, SlotsApart
<1> QED BY <1>1, <1>2, <1>3, <1>4, <1>5, <1>6, <1>7, <1>8, <1>9, <1>10
        DEF QueueNext, Reader, Sender

\* The invariant of the queue: senders and reader work on slots of their own,
\* whatever the number of senders, the size and the number of messages.
THEOREM SlotsAreApart == QueueSpec => []QueueInv
<1>1. QueueInv /\ [QueueNext]_queueVars => QueueInv'
    <2> SUFFICES ASSUME QueueInv, [QueueNext]_queueVars PROVE QueueInv'
        OBVIOUS
    <2>1. MutexInv'
        BY QueueStepOfMutex, MutexStep DEF QueueInv, QueueTypeOK, MutexInv
    <2> QED BY <2>1, QueueTypes, SlotsStayApart DEF QueueInv, MutexInv
<1> QED BY <1>1, QueueInitially, PTL DEF QueueSpec

-----------------------------------------------------------------------------
(* The refinement of BoundedFifo *)

\* The packets between two indices of a queue, and where the reader's next one is.
Packet == Message \cup {Empty}
Wrap(a) == IF a < Size THEN a ELSE a - Size
Between(h, g, d) == [i \in 1 .. Gap(h, g) |-> d[Wrap(g + i - 1)]]
First == IF rpc = "release" THEN Next1(cq.tail) ELSE cq.tail

\* Content, without the modulus.
LEMMA ContentIs ==
    ASSUME cq \in Queue
    PROVE  First \in 0 .. Size - 1 /\ Content = Between(cq.head, First, cq.data)
<1>1. /\ cq.head \in 0 .. Size - 1 /\ cq.tail \in 0 .. Size - 1 /\ cq.size = Size
      /\ Size \in Nat /\ Size >= 2
    BY SizeIsPositive DEF Queue, Slot
<1>2. ASSUME NEW h \in 0 .. Size - 1, NEW g \in 0 .. Size - 1
      PROVE  /\ Next1(g) \in 0 .. Size - 1
             /\ (h - g) % Size = Gap(h, g)
             /\ (h - (g + 1)) % Size = Gap(h, Next1(g))
    BY <1>1, <1>2 DEF Gap, Next1
<1>3. ASSUME NEW g \in 0 .. Size - 1, NEW i \in 1 .. Size - 1
      PROVE  /\ (g + i - 1) % Size = Wrap(g + i - 1)
             /\ (g + 1 + i - 1) % Size = Wrap(Next1(g) + i - 1)
    BY <1>1, <1>3 DEF Wrap, Next1
<1>4. ASSUME NEW h \in 0 .. Size - 1, NEW g \in 0 .. Size - 1
      PROVE  Gap(h, g) \in 0 .. Size - 1
    BY <1>1, <1>4 DEF Gap
<1>5. ASSUME NEW h \in 0 .. Size - 1, NEW g \in 0 .. Size - 1, NEW i \in 1 .. Gap(h, g)
      PROVE  i \in 1 .. Size - 1
    BY <1>1, <1>4, <1>5
<1>6. CASE rpc = "release"
    <2>1. First = Next1(cq.tail) /\ First \in 0 .. Size - 1
        BY <1>1, <1>2, <1>6 DEF First
    <2>2. Content = [i \in 1 .. Gap(cq.head, First) |-> cq.data[(cq.tail + 1 + i - 1) % Size]]
        BY <1>1, <1>2, <1>6, <2>1, Zenon DEF Content
    <2> QED BY <1>1, <1>3, <1>5, <2>1, <2>2, Zenon DEF Between
<1>7. CASE rpc # "release"
    <2>1. First = cq.tail
        BY <1>7 DEF First
    <2>2. Content = [i \in 1 .. Gap(cq.head, First) |-> cq.data[(cq.tail + i - 1) % Size]]
        BY <1>1, <1>2, <1>7, <2>1, Zenon DEF Content
    <2> QED BY <1>1, <1>3, <1>5, <2>1, <2>2, Zenon DEF Between
<1> QED BY <1>6, <1>7

LEMMA ContentIsNext == (cq \in Queue)' => (Content = Between(cq.head, First, cq.data))'
BY ContentIs, PTL

\* What the packets between two indices are.
LEMMA BetweenFacts ==
    ASSUME NEW h \in 0 .. Size - 1, NEW g \in 0 .. Size - 1,
           NEW d \in [Slot -> Packet]
    PROVE  /\ Gap(h, g) \in 0 .. Size - 1
           /\ \A i \in 1 .. Gap(h, g) : Wrap(g + i - 1) \in Slot /\ Wrap(g + i - 1) # h
           /\ Between(h, g, d) \in Seq(Packet)
           /\ Len(Between(h, g, d)) = Gap(h, g)
<1>1. Gap(h, g) \in 0 .. Size - 1
    BY SizeIsPositive DEF Gap
<1>2. \A i \in 1 .. Gap(h, g) : Wrap(g + i - 1) \in Slot /\ Wrap(g + i - 1) # h
    BY SizeIsPositive DEF Gap, Wrap, Slot
<1>3. Between(h, g, d) \in [1 .. Gap(h, g) -> Packet]
    BY <1>2 DEF Between
<1> QED BY <1>1, <1>2, <1>3

\* A packet published is the last of them ...
LEMMA BetweenGrows ==
    ASSUME NEW h \in 0 .. Size - 1, NEW g \in 0 .. Size - 1,
           NEW d \in [Slot -> Packet], Gap(h, g) # Size - 1
    PROVE  Between(Next1(h), g, d) = Append(Between(h, g, d), d[h])
<1> DEFINE s == Between(h, g, d)
           u == Between(Next1(h), g, d)
<1>1. Next1(h) \in 0 .. Size - 1 /\ h \in Slot
    BY SizeIsPositive DEF Next1, Slot
<1>2. /\ s \in Seq(Packet) /\ Len(s) = Gap(h, g) /\ Gap(h, g) \in 0 .. Size - 1
      /\ u \in Seq(Packet) /\ Len(u) = Gap(Next1(h), g)
    BY <1>1, BetweenFacts
<1>3. Gap(Next1(h), g) = Gap(h, g) + 1
    BY GapMoves, SizeIsPositive, <1>2
<1>4. Wrap(g + (Gap(h, g) + 1) - 1) = h
    BY SizeIsPositive DEF Wrap, Gap
<1>5. u[Gap(h, g) + 1] = d[h]
    BY <1>2, <1>3, <1>4 DEF Between
<1>6. \A i \in 1 .. Gap(h, g) : u[i] = s[i]
    BY <1>2, <1>3 DEF Between
<1> HIDE DEF s, u
<1> QED BY <1>1, <1>2, <1>3, <1>5, <1>6 DEF s, u

\* ... and the reader takes the first.
LEMMA BetweenShrinks ==
    ASSUME NEW h \in 0 .. Size - 1, NEW g \in 0 .. Size - 1,
           NEW d \in [Slot -> Packet], Gap(h, g) # 0
    PROVE  /\ Between(h, g, d) # <<>>
           /\ Head(Between(h, g, d)) = d[g]
           /\ Tail(Between(h, g, d)) = Between(h, Next1(g), d)
<1> DEFINE s == Between(h, g, d)
           u == Between(h, Next1(g), d)
<1>1. Next1(g) \in 0 .. Size - 1
    BY SizeIsPositive DEF Next1
<1>2. /\ s \in Seq(Packet) /\ Len(s) = Gap(h, g) /\ Gap(h, g) \in 0 .. Size - 1
      /\ u \in Seq(Packet) /\ Len(u) = Gap(h, Next1(g))
    BY <1>1, BetweenFacts
<1>3. Gap(h, Next1(g)) = Gap(h, g) - 1
    BY GapMoves
<1>4. Wrap(g + 1 - 1) = g /\ 1 \in 1 .. Gap(h, g)
    <2>1. Wrap(g + 1 - 1) = g
        BY SizeIsPositive DEF Wrap
    <2>2. 1 \in 1 .. Gap(h, g)
        BY <1>2
    <2> QED BY <2>1, <2>2
<1>5. s[1] = d[g]
    BY <1>4 DEF Between
<1>6. ASSUME NEW i \in 1 .. Gap(h, Next1(g))
      PROVE  u[i] = s[i + 1]
    <2>1. Wrap(Next1(g) + i - 1) = Wrap(g + (i + 1) - 1) /\ i + 1 \in 1 .. Gap(h, g)
        BY <1>2, <1>3, <1>6, SizeIsPositive DEF Wrap, Next1
    <2> QED BY <1>6, <2>1 DEF Between
<1> HIDE DEF s, u
<1>7. s # <<>>
    BY <1>2
<1>8. /\ Head(s) = s[1] /\ Tail(s) \in Seq(Packet) /\ Len(Tail(s)) = Len(s) - 1
      /\ \A i \in 1 .. Len(Tail(s)) : Tail(s)[i] = s[i + 1]
    BY <1>2, <1>7, HeadTailProperties
<1>9. Tail(s) = u
    BY <1>2, <1>3, <1>6, <1>8, SeqEqual
<1> QED BY <1>5, <1>7, <1>8, <1>9 DEF s, u

\* The slot of a packet is copied, then given back: for the channel the packet
\* is gone with the copy.
LEMMA ReaderOnChannel ==
    ASSUME QueueInv, Reader
    PROVE  Channel!Take \/ UNCHANGED <<Content, got>>
<1>0. /\ cq \in Queue /\ cq.head \in 0 .. Size - 1 /\ cq.tail \in 0 .. Size - 1
      /\ cq.data \in [Slot -> Packet]
    BY DEF QueueInv, QueueTypeOK, Queue, Slot, Packet
<1>1. Content = Between(cq.head, First, cq.data)
    BY <1>0, ContentIs
<1>2. cq' \in Queue => Content' = Between(cq'.head, First', cq'.data)
    BY ContentIsNext
<1>3. CASE SeeData
    <2>1. cq' = cq /\ First' = First /\ got' = got
        BY <1>3 DEF SeeData, First
    <2> QED BY <1>0, <1>1, <1>2, <2>1
<1>4. CASE Copy
    <2>1. cq' = cq /\ First = cq.tail /\ First' = Next1(cq.tail) /\ got' = cq.data[cq.tail]
        BY <1>4 DEF Copy, First, CqFirst
    <2>2. Gap(cq.head, cq.tail) # 0
        BY <1>0, <1>4, AvailIs DEF QueueInv, SlotsApart, Copy
    <2>3. Content' = Between(cq.head, Next1(cq.tail), cq.data)
        BY <1>0, <1>2, <2>1
    <2>4. Content # <<>> /\ Head(Content) = got' /\ Tail(Content) = Content'
        <3>1. /\ Between(cq.head, cq.tail, cq.data) # <<>>
              /\ Head(Between(cq.head, cq.tail, cq.data)) = cq.data[cq.tail]
              /\ Tail(Between(cq.head, cq.tail, cq.data)) = Between(cq.head, Next1(cq.tail), cq.data)
            BY <1>0, <2>2, BetweenShrinks, Zenon
        <3> QED BY <1>1, <2>1, <2>3, <3>1, Zenon
    <2> QED BY <2>4 DEF Channel!Take
<1>5. CASE Release
    <2>1. CqAvailData(cq) # 0 /\ cq' = CqRemove(cq) /\ got' = got
        BY <1>5 DEF Release, QueueInv, SlotsApart
    <2>2. cq' \in Queue /\ cq'.head = cq.head /\ cq'.data = cq.data /\ cq'.tail = Next1(cq.tail)
        BY <1>0, <2>1, TailMoves
    <2>3. First' = First
        BY <1>5, <2>2 DEF Release, First
    <2> QED BY <1>1, <1>2, <2>1, <2>2, <2>3
<1> QED BY <1>3, <1>4, <1>5 DEF Reader

\* A sender puts its message with the move of head; what it does before leaves
\* the channel as it is.
LEMMA SenderOnChannel ==
    ASSUME QueueInv, NEW p \in Thread, Fill(p) \/ Publish(p)
    PROVE  (\E m \in Message : Channel!Put(m)) \/ UNCHANGED <<Content, got>>
<1>0. /\ cq \in Queue /\ cq.head \in 0 .. Size - 1 /\ cq.tail \in 0 .. Size - 1
      /\ cq.data \in [Slot -> Packet]
    BY DEF QueueInv, QueueTypeOK, Queue, Slot, Packet
<1>1. Content = Between(cq.head, First, cq.data) /\ First \in 0 .. Size - 1
    BY <1>0, ContentIs
<1>2. cq' \in Queue => Content' = Between(cq'.head, First', cq'.data)
    BY ContentIsNext
<1>3. CqFreeSpace(cq) # 0 /\ out[p] \in Message
    BY InsideMoves DEF QueueInv, SlotsApart
<1>4. CASE Fill(p)
    <2>1. cq' = [cq EXCEPT !.data[cq.head] = out[p]] /\ UNCHANGED <<rpc, got>>
        BY <1>4 DEF Fill
    <2>2. /\ cq' \in Queue /\ cq'.head = cq.head /\ cq'.tail = cq.tail
          /\ \A i \in Slot : i # cq.head => cq'.data[i] = cq.data[i]
        BY <1>0, <1>3, <2>1 DEF Queue
    <2>3. First' = First
        BY <2>1, <2>2 DEF First
    <2>4. Content' = Between(cq.head, First, cq'.data)
        BY <1>2, <2>2, <2>3
    <2>5. Between(cq.head, First, cq'.data) = Between(cq.head, First, cq.data)
        <3>1. \A i \in 1 .. Gap(cq.head, First) :
                  Wrap(First + i - 1) \in Slot /\ Wrap(First + i - 1) # cq.head
            BY <1>0, <1>1, BetweenFacts, Zenon
        <3> QED BY <2>2, <3>1, Zenon DEF Between
    <2> QED BY <1>1, <2>1, <2>4, <2>5
<1>5. CASE Publish(p)
    <2>1. UNCHANGED <<rpc, got>> /\ cq.data[cq.head] = out[p]
        BY <1>5 DEF Publish, Goto, QueueInv, SlotsApart
    <2>2. /\ cq' \in Queue /\ cq'.head = Next1(cq.head) /\ cq'.tail = cq.tail
          /\ cq'.data = cq.data
        BY <1>0, <1>3, <1>5, HeadMoves DEF Publish
    <2>3. First' = First
        BY <2>1, <2>2, Zenon DEF First
    <2>4. Gap(cq.head, First) < Size - 1
        <3>1. CqFreeSpace(cq) = Size - 1 - Gap(cq.head, cq.tail) /\ Gap(cq.head, cq.tail) \in 0 .. Size - 1
            BY <1>0, AvailIs
        <3>2. CASE First = cq.tail
            BY <1>3, <3>1, <3>2, SizeIsPositive
        <3>3. CASE First # cq.tail
            <4>1. First = Next1(cq.tail) /\ rpc = "release"
                BY <3>3 DEF First
            <4>2. Gap(cq.head, cq.tail) # 0
                BY <1>0, <4>1, AvailIs DEF QueueInv, SlotsApart
            <4>3. Gap(cq.head, First) = Gap(cq.head, cq.tail) - 1
                BY <1>0, <4>1, <4>2, GapMoves
            <4> QED BY <3>1, <4>2, <4>3, SizeIsPositive
        <3> QED BY <3>2, <3>3
    <2>5. Content' = Append(Content, out[p])
        <3>1. Content' = Between(Next1(cq.head), First, cq.data)
            BY <1>2, <2>2, <2>3
        <3>2. Gap(cq.head, First) # Size - 1
            BY <2>4, SizeIsPositive
        <3>3. Between(Next1(cq.head), First, cq.data)
                  = Append(Between(cq.head, First, cq.data), cq.data[cq.head])
            BY <1>0, <1>1, <3>2, BetweenGrows, Zenon
        <3> QED BY <1>1, <2>1, <3>1, <3>3, Zenon
    <2>6. Len(Content) < Size - 1
        <3>1. Len(Between(cq.head, First, cq.data)) = Gap(cq.head, First)
            BY <1>0, <1>1, BetweenFacts, Zenon
        <3> QED BY <1>1, <2>4, <3>1, Zenon
    <2>7. Channel!Put(out[p])
        BY <2>1, <2>5, <2>6 DEF Channel!Put
    <2> QED BY <1>3, <2>7
<1> QED BY <1>4, <1>5

\* Every other step of a sender.
LEMMA OtherStepsOnChannel ==
    ASSUME QueueInv, NEW p \in Thread,
           EnterSend(p) \/ LeaveSend(p) \/ SeeSpace(p) \/ \E m \in Message : Send(p, m)
    PROVE  UNCHANGED <<Content, got>>
<1>1. UNCHANGED <<cq, rpc, got>>
    BY DEF EnterSend, LeaveSend, SeeSpace, Send
<1> QED BY <1>1 DEF Content

\* Several senders behind the mutex and one reader without it form a first-in
\* first-out channel of Size - 1 packets, at any size and number of senders: no
\* packet is lost, repeated, torn or overwritten (the safety part of
\* ImplementsBoundedFifo).
THEOREM QueueRefinesFifo == QueueSpec => Channel!Safety
<1>1. QueueInit => Channel!Init
    <2> SUFFICES ASSUME QueueInit PROVE Channel!Init
        OBVIOUS
    <2>1. QueueInv
        BY QueueInitially
    <2>2. cq \in Queue /\ First = 0 /\ cq.head = 0 /\ got = Empty
        BY <2>1 DEF QueueInv, QueueTypeOK, QueueInit, CqInit, First
    <2>3. Content = [i \in 1 .. 0 |-> cq.data[Wrap(0 + i - 1)]]
        BY <2>2, ContentIs DEF Between, Gap
    <2>4. Content = <<>>
        BY <2>3
    <2> QED BY <2>2, <2>4, EmptyAssumption DEF Channel!Init
<1>2. QueueInv /\ [QueueNext]_queueVars => [Channel!Next]_<<Content, got>>
    <2> SUFFICES ASSUME QueueInv, [QueueNext]_queueVars
                 PROVE  [Channel!Next]_<<Content, got>>
        OBVIOUS
    <2>1. CASE Reader
        BY <2>1, ReaderOnChannel DEF Channel!Next
    <2>2. ASSUME NEW p \in Thread, Fill(p) \/ Publish(p)
          PROVE  [Channel!Next]_<<Content, got>>
        BY <2>2, SenderOnChannel DEF Channel!Next
    <2>3. ASSUME NEW p \in Thread,
                 EnterSend(p) \/ LeaveSend(p) \/ SeeSpace(p) \/ \E m \in Message : Send(p, m)
          PROVE  [Channel!Next]_<<Content, got>>
        BY <2>3, OtherStepsOnChannel
    <2>4. CASE UNCHANGED queueVars
        BY <2>4 DEF queueVars, Content
    <2> QED BY <2>1, <2>2, <2>3, <2>4 DEF QueueNext, Sender
<1> QED BY <1>1, <1>2, SlotsAreApart, PTL DEF QueueSpec, Channel!Safety

=============================================================================
