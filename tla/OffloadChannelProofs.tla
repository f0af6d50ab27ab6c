------------------------ MODULE OffloadChannelProofs ------------------------
(* Proofs about OffloadChannel. *)
EXTENDS OffloadChannel, TLAPS

-----------------------------------------------------------------------------
(* The circular queue *)

\* The mask takes the remainder modulo the size, of negative numbers too.
LEMMA MaskIsMod ==
    ASSUME NEW n \in Int, NEW s \in {2, 4, 8}
    PROVE  And(n, s - 1) = n % s
<1>1. n = n \div 1
    OBVIOUS
<1>2. n = 2 * (n \div 2) + ((n \div 1) % 2)
    BY <1>1
<1>3. n \div 2 = 2 * (n \div 4) + ((n \div 2) % 2)
    OBVIOUS
<1>4. n \div 4 = 2 * (n \div 8) + ((n \div 4) % 2)
    OBVIOUS
<1>5. CASE s = 2
    <2>1. And(n, 1) = 1 * ((n \div 1) % 2)
        BY DEF And, Bit
    <2> QED BY <1>5, <2>1, <1>2
<1>6. CASE s = 4
    <2>1. And(n, 3) = 1 * ((n \div 1) % 2) + 2 * ((n \div 2) % 2)
        BY DEF And, Bit
    <2>2. n = 4 * (n \div 4) + (n % 4)
        OBVIOUS
    <2> QED BY <1>6, <2>1, <2>2, <1>2, <1>3
<1>7. CASE s = 8
    <2>1. And(n, 7) = 1 * ((n \div 1) % 2) + 2 * ((n \div 2) % 2) + 4 * ((n \div 4) % 2)
        BY DEF And, Bit
    <2>2. n = 8 * (n \div 8) + (n % 8)
        OBVIOUS
    <2> QED BY <1>7, <2>1, <2>2, <1>2, <1>3, <1>4
<1> QED BY <1>5, <1>6, <1>7

\* Less than one round off, a number wraps at most once.
LEMMA Around ==
    ASSUME NEW s \in {2, 4, 8}, NEW a \in Int, -s < a, a < 2 * s
    PROVE  a % s = IF a < 0 THEN a + s ELSE IF a < s THEN a ELSE a - s
<1>1. CASE s = 2
    BY <1>1
<1>2. CASE s = 4
    BY <1>2
<1>3. CASE s = 8
    BY <1>3
<1> QED BY <1>1, <1>2, <1>3

Sizes == {2, 4, 8}

\* The slots from tail up to head, around the ring.
Used(head, tail, size) ==
    {i \in 0 .. size - 1 : IF tail <= head THEN tail <= i /\ i < head
                                           ELSE i < head \/ tail <= i}

\* The slots in use are those from tail up to head.
LEMMA SlotsAre ==
    ASSUME NEW s \in Sizes, NEW E, NEW r \in CqOf(s, E)
    PROVE  /\ CqSlots(r) = Used(r.head, r.tail, s)
           /\ CqAvailData(r) # 0 <=> r.head # r.tail
           /\ CqFreeSpace(r) # 0 <=> r.head # IF r.tail = 0 THEN s - 1 ELSE r.tail - 1
<1>1. /\ r.size = s /\ s \in Nat /\ s >= 2
      /\ r.head \in 0 .. s - 1 /\ r.tail \in 0 .. s - 1
    BY DEF CqOf, Sizes
<1> DEFINE n == IF r.tail <= r.head THEN r.head - r.tail ELSE r.head - r.tail + s
<1>2. CqAvailData(r) = (r.head - r.tail) % s
    <2>1. r.head - r.tail \in Int
        BY <1>1
    <2>2. And(r.head - r.tail, s - 1) = (r.head - r.tail) % s
        BY <2>1, MaskIsMod, Zenon DEF Sizes
    <2> QED BY <1>1, <2>2, Zenon DEF CqAvailData
<1>3. (r.head - r.tail) % s = n /\ n \in 0 .. s - 1
    BY <1>1, Around DEF Sizes
<1>4. CqFreeSpace(r) = s - 1 - n
    BY <1>1, <1>2, <1>3 DEF CqFreeSpace
<1>5. ASSUME NEW i \in 0 .. n - 1
      PROVE  (r.tail + i) % s = IF r.tail + i < s THEN r.tail + i ELSE r.tail + i - s
    <2>1. r.tail + i \in Int /\ -s < r.tail + i /\ r.tail + i < 2 * s /\ ~ (r.tail + i < 0)
        BY <1>1, <1>3
    <2> DEFINE a == r.tail + i
    <2> HIDE DEF a
    <2>2. a % s = IF a < 0 THEN a + s ELSE IF a < s THEN a ELSE a - s
        BY <2>1, Around DEF a, Sizes
    <2> QED BY <1>1, <2>1, <2>2 DEF a
<1>6. \A i \in 0 .. n - 1 : (r.tail + i) % s \in Used(r.head, r.tail, s)
    <2> SUFFICES ASSUME NEW i \in 0 .. n - 1
                 PROVE  (r.tail + i) % s \in Used(r.head, r.tail, s)
        OBVIOUS
    <2> DEFINE j == IF r.tail + i < s THEN r.tail + i ELSE r.tail + i - s
    <2>1. j \in Used(r.head, r.tail, s)
        BY <1>1, <1>3 DEF Used
    <2> QED BY <2>1, <1>5
<1>7. ASSUME NEW j \in Used(r.head, r.tail, s)
      PROVE  \E i \in 0 .. n - 1 : j = (r.tail + i) % s
    <2> DEFINE i == IF r.tail <= j THEN j - r.tail ELSE j - r.tail + s
    <2>1. i \in 0 .. n - 1 /\ j = IF r.tail + i < s THEN r.tail + i ELSE r.tail + i - s
        BY <1>1, <1>3, <1>7 DEF Used
    <2>2. j = (r.tail + i) % s
        BY <2>1, <1>5
    <2> QED BY <2>1, <2>2
<1>8. CqSlots(r) = {(r.tail + i) % s : i \in 0 .. n - 1}
    BY <1>1, <1>2, <1>3 DEF CqSlots
<1>9. CqSlots(r) = Used(r.head, r.tail, s)
    <2> HIDE DEF n
    <2> QED BY <1>6, <1>7, <1>8
<1>10. (s - 1 - n # 0) <=> (r.head # IF r.tail = 0 THEN s - 1 ELSE r.tail - 1)
    BY <1>1
<1>11. CqAvailData(r) # 0 <=> r.head # r.tail
    BY <1>1, <1>2, <1>3
<1> QED BY <1>4, <1>9, <1>10, <1>11

\* Adding a packet to a queue that is not full uses the slot at head, which was
\* free, and touches no other.
LEMMA Added ==
    ASSUME NEW s \in Sizes, NEW E, NEW r \in CqOf(s, E), CqFreeSpace(r) # 0,
           NEW e \in E, NEW u, u = CqAdd(r, e)
    PROVE  /\ u \in CqOf(s, E)
           /\ r.head \in 0 .. s - 1 /\ r.head \notin CqSlots(r)
           /\ CqSlots(u) = CqSlots(r) \cup {r.head}
           /\ u.data[r.head] = e
           /\ \A i \in CqSlots(r) : u.data[i] = r.data[i]
<1>1. /\ r.size = s /\ s \in Nat /\ s >= 2
      /\ r.head \in 0 .. s - 1 /\ r.tail \in 0 .. s - 1
      /\ r.data \in [0 .. s - 1 -> E]
    BY DEF CqOf, Sizes
<1> DEFINE h == (r.head + 1) % s
           d == [r.data EXCEPT ![r.head] = e]
           v == [r EXCEPT !.data = d]
<1>2. h \in 0 .. s - 1 /\ h = IF r.head + 1 < s THEN r.head + 1 ELSE 0
    BY <1>1, Around DEF Sizes
<1>3. d \in [0 .. s - 1 -> E] /\ d[r.head] = e
      /\ \A i \in 0 .. s - 1 : i # r.head => d[i] = r.data[i]
    BY <1>1
<1>4. u = [v EXCEPT !.head = h]
    BY <1>1 DEF CqAdd, CqOf
<1> HIDE DEF h, d
<1>5. v \in CqOf(s, E) /\ v.data = d /\ v.tail = r.tail
    BY <1>3 DEF CqOf
<1> HIDE DEF v
<1>6. u \in CqOf(s, E) /\ u.head = h /\ u.tail = r.tail /\ u.data = d
    BY <1>2, <1>4, <1>5 DEF CqOf
<1>7. /\ CqSlots(r) = Used(r.head, r.tail, s)
      /\ r.head # IF r.tail = 0 THEN s - 1 ELSE r.tail - 1
    BY SlotsAre
<1>8. CqSlots(u) = Used(h, r.tail, s)
    BY <1>6, SlotsAre
<1>9. r.head \notin Used(r.head, r.tail, s)
    BY <1>1 DEF Used
<1>10. Used(h, r.tail, s) = Used(r.head, r.tail, s) \cup {r.head}
    BY <1>1, <1>2, <1>7 DEF Used
<1>11. \A i \in CqSlots(r) : i \in 0 .. s - 1 /\ i # r.head
    BY <1>7, <1>9 DEF Used
<1> QED BY <1>1, <1>3, <1>6, <1>7, <1>8, <1>9, <1>10, <1>11

\* Removing a packet from a queue that is not empty gives back the slot at tail.
LEMMA Removed ==
    ASSUME NEW s \in Sizes, NEW E, NEW r \in CqOf(s, E), CqAvailData(r) # 0,
           NEW u, u = CqRemove(r)
    PROVE  /\ u \in CqOf(s, E)
           /\ r.tail \in CqSlots(r)
           /\ CqSlots(u) = CqSlots(r) \ {r.tail}
           /\ u.data = r.data
<1>1. /\ r.size = s /\ s \in Nat /\ s >= 2
      /\ r.head \in 0 .. s - 1 /\ r.tail \in 0 .. s - 1
    BY DEF CqOf, Sizes
<1> DEFINE t == (r.tail + 1) % s
<1>2. t \in 0 .. s - 1 /\ t = IF r.tail + 1 < s THEN r.tail + 1 ELSE 0
    BY <1>1, Around DEF Sizes
<1>3. u = [r EXCEPT !.tail = t]
    BY <1>1 DEF CqRemove
<1> HIDE DEF t
<1>4. u \in CqOf(s, E) /\ u.tail = t /\ u.head = r.head /\ u.data = r.data
    BY <1>2, <1>3 DEF CqOf
<1>5. CqSlots(r) = Used(r.head, r.tail, s) /\ r.head # r.tail
    BY SlotsAre
<1>6. CqSlots(u) = Used(r.head, t, s)
    BY <1>4, SlotsAre
<1>7. r.tail \in Used(r.head, r.tail, s)
    BY <1>1, <1>5 DEF Used
<1>8. Used(r.head, t, s) = Used(r.head, r.tail, s) \ {r.tail}
    BY <1>1, <1>2, <1>5 DEF Used
<1> QED BY <1>4, <1>5, <1>6, <1>7, <1>8

-----------------------------------------------------------------------------
(* Where the calls are *)

\* The four kinds of places, and what lies there.
LEMMA PlaceIs ==
    ASSUME NEW x
    PROVE  x \in Places <=>
               \/ \E i \in CqSlots(ocq) : x = <<"out", i>>
               \/ \E i \in DOMAIN jobs : x = <<"job", i>>
               \/ \E w \in Worker : work[w] # None /\ x = <<"work", w>>
               \/ \E i \in CqSlots(icq) : x = <<"in", i>>
BY DEF Places

LEMMA PlaceIsThen ==
    ASSUME NEW x
    PROVE  (x \in Places)' <=>
               \/ \E i \in CqSlots(ocq') : x = <<"out", i>>
               \/ \E i \in DOMAIN jobs' : x = <<"job", i>>
               \/ \E w \in Worker : work'[w] # None /\ x = <<"work", w>>
               \/ \E i \in CqSlots(icq') : x = <<"in", i>>
BY DEF Places

LEMMA LetterIs ==
    ASSUME NEW i
    PROVE  /\ Letter(<<"out", i>>) = ocq.data[i]
           /\ Letter(<<"job", i>>) = jobs[i]
           /\ Letter(<<"work", i>>) = work[i]
           /\ Letter(<<"in", i>>) = icq.data[i]
           /\ Letter(<<"out", i>>)' = ocq'.data[i]
           /\ Letter(<<"job", i>>)' = jobs'[i]
           /\ Letter(<<"work", i>>)' = work'[i]
           /\ Letter(<<"in", i>>)' = icq'.data[i]
BY DEF Letter

\* Calls that only move, each to a place of its own, stay one per thread ...
LEMMA OneEachKept ==
    ASSUME OneLetterEach, NEW g,
           \A x \in Places' : g[x] \in Places /\ (Letter(x).tid)' = Letter(g[x]).tid,
           \A x, y \in Places' : g[x] = g[y] => x = y
    PROVE  OneLetterEach'
<1> SUFFICES ASSUME NEW x \in Places', NEW y \in Places', (Letter(x).tid)' = (Letter(y).tid)'
             PROVE  x = y
    BY DEF OneLetterEach
<1>1. g[x] \in Places /\ g[y] \in Places /\ Letter(g[x]).tid = Letter(g[y]).tid
    OBVIOUS
<1>2. g[x] = g[y]
    BY <1>1 DEF OneLetterEach
<1> QED BY <1>2

\* ... and awaited, if the threads that await them go on doing so.
LEMMA AwaitedKept ==
    ASSUME LettersAwaited, NEW g,
           \A x \in Places' : /\ g[x] \in Places /\ Letter(x)' = Letter(g[x])
                              /\ x[1] = "in" <=> g[x][1] = "in",
           \A x \in Places' : LET t == Letter(g[x]).tid
                              IN  pc'[t] = pc[t] /\ request'[t] = request[t]
    PROVE  LettersAwaited'
<1> SUFFICES ASSUME NEW x \in Places',
                    NEW t, t = (Letter(x).tid)',
                    NEW p, p = PacketOf(t, request'[t])
             PROVE  /\ t \in Thread /\ pc'[t] = "receive"
                    /\ Letter(x)' = IF x[1] = "in" THEN ReplyTo(p) ELSE p
    BY DEF LettersAwaited
<1>1. g[x] \in Places /\ t = Letter(g[x]).tid
    OBVIOUS
<1>2. /\ t \in Thread /\ pc[t] = "receive"
      /\ Letter(g[x]) = IF g[x][1] = "in" THEN ReplyTo(PacketOf(t, request[t]))
                                          ELSE PacketOf(t, request[t])
    BY <1>1 DEF LettersAwaited
<1>3. pc'[t] = pc[t] /\ request'[t] = request[t]
    BY <1>1
<1> QED BY <1>1, <1>2, <1>3

-----------------------------------------------------------------------------
(* The steps *)

\* A step that moves no call, and lets the threads that await one wait on.
LEMMA StillKept ==
    ASSUME ChannelInv, UNCHANGED <<ocq, icq, jobs, work>>,
           \A t \in Thread : pc[t] = "receive" => pc'[t] = pc[t] /\ request'[t] = request[t]
    PROVE  LettersAwaited' /\ OneLetterEach'
<1> DEFINE g == [x \in Places |-> x]
<1>1. Places' = Places
    BY DEF Places
<1>2. \A x : Letter(x)' = Letter(x)
    BY DEF Letter
<1>3. \A x \in Places' : /\ g[x] \in Places /\ Letter(x)' = Letter(g[x])
                         /\ x[1] = "in" <=> g[x][1] = "in"
    BY <1>1, <1>2
<1>4. \A x \in Places' : LET t == Letter(g[x]).tid
                         IN  pc'[t] = pc[t] /\ request'[t] = request[t]
    BY <1>1 DEF ChannelInv, LettersAwaited
<1>5. \A x, y \in Places' : g[x] = g[y] => x = y
    BY <1>1
<1> HIDE DEF g
<1>6. LettersAwaited'
    BY <1>3, <1>4, AwaitedKept, Zenon DEF ChannelInv
<1>7. OneLetterEach'
    BY <1>3, <1>5, OneEachKept, Zenon DEF ChannelInv
<1> QED BY <1>6, <1>7

\* The thread that runs may change, and a thread may start a call.
LEMMA CallKeeps ==
    ASSUME ChannelInv, NEW t \in Thread, Call(t)
    PROVE  ChannelInv'
<1> PICK r \in Request :
        /\ Goto(t, "user", "send")
        /\ request' = [request EXCEPT ![t] = r]
        /\ result' = [result EXCEPT ![t] = None]
        /\ UNCHANGED <<ocq, icq, current, proxy>>
    BY DEF Call
<1>1. TypeOK'
    BY DEF ChannelInv, TypeOK, Goto, proxy
<1>2. LettersAwaited' /\ OneLetterEach'
    <2>1. UNCHANGED <<ocq, icq, jobs, work>>
        BY DEF proxy
    <2>2. \A u \in Thread : pc[u] = "receive" => pc'[u] = pc[u] /\ request'[u] = request[u]
        BY DEF Goto, ChannelInv, TypeOK
    <2> QED BY <2>1, <2>2, StillKept
<1>3. Engaged'
    BY DEF ChannelInv, TypeOK, Engaged, Goto, proxy
<1> QED BY <1>1, <1>2, <1>3 DEF ChannelInv

LEMMA YieldKeeps ==
    ASSUME ChannelInv, current' \in Thread,
           UNCHANGED <<ocq, icq, pc, request, result, proxy>>
    PROVE  ChannelInv'
<1>1. TypeOK'
    BY DEF ChannelInv, TypeOK, proxy
<1>2. LettersAwaited' /\ OneLetterEach'
    BY StillKept DEF proxy
<1>3. Engaged'
    BY DEF ChannelInv, Engaged, proxy
<1> QED BY <1>1, <1>2, <1>3 DEF ChannelInv

\* A worker carries out its call, or locks the channel.
LEMMA WorkerKeeps ==
    ASSUME ChannelInv, NEW w \in Worker, Serve(w) \/ Lock(w)
    PROVE  ChannelInv'
<1>1. TypeOK'
    BY DEF ChannelInv, TypeOK, Serve, Lock, kernel
<1>2. UNCHANGED <<ocq, icq, jobs, work, pc, request>>
    BY DEF Serve, Lock, kernel
<1>3. LettersAwaited' /\ OneLetterEach'
    BY <1>2, StillKept
<1>4. Engaged'
    BY <1>2, NoneAssumption DEF ChannelInv, Engaged, Serve, Lock
<1> QED BY <1>1, <1>3, <1>4 DEF ChannelInv


\* send_offload_message puts the call of a thread that had none under way into
\* the queue.
LEMMA SendKeeps ==
    ASSUME ChannelInv, NEW t \in Thread, Send(t)
    PROVE  ChannelInv'
<1>0. PICK n : n = <<"out", ocq.head>>
    OBVIOUS
<1> DEFINE e == PacketOf(t, request[t])
<1>1. /\ pc[t] = "send" /\ pc' = [pc EXCEPT ![t] = "receive"]
      /\ pc \in [Thread -> {"user", "send", "receive"}]
      /\ CqFreeSpace(ocq) # 0 /\ ocq' = CqAdd(ocq, e)
      /\ UNCHANGED <<icq, current, request, result, jobs, work, done, mutex>>
    BY DEF Send, Goto, proxy, ChannelInv, TypeOK
<1>2. request[t] \in Request /\ e \in Packet /\ e.tid = t
    BY <1>1 DEF ChannelInv, Engaged, Packet, PacketOf
<1>3. /\ ocq' \in CqOf(OutSize, Packet \cup {None})
      /\ ocq.head \notin CqSlots(ocq) /\ CqSlots(ocq') = CqSlots(ocq) \cup {ocq.head}
      /\ ocq'.data[ocq.head] = e
      /\ \A i \in CqSlots(ocq) : ocq'.data[i] = ocq.data[i]
    <2>1. OutSize \in Sizes /\ ocq \in CqOf(OutSize, Packet \cup {None})
          /\ e \in Packet \cup {None}
        BY <1>2, SizeAssumption DEF ChannelInv, TypeOK, Sizes
    <2>2. CqFreeSpace(ocq) # 0 /\ ocq' = CqAdd(ocq, e)
        BY <1>1
    <2> HIDE DEF e
    <2> QED BY <2>1, <2>2, Added
<1> HIDE DEF e
<1>4. TypeOK'
    BY <1>1, <1>3 DEF ChannelInv, TypeOK
<1>5. Places' = Places \cup {n} /\ n \notin Places
    BY <1>0, <1>1, <1>3 DEF Places
<1>6. \A x \in Places : Letter(x)' = Letter(x)
    <2> SUFFICES ASSUME NEW x \in Places PROVE Letter(x)' = Letter(x)
        OBVIOUS
    <2>1. CASE \E i \in CqSlots(ocq) : x = <<"out", i>>
        <3>1. PICK i \in CqSlots(ocq) : x = <<"out", i>>
            BY <2>1
        <3> QED BY <1>3, <3>1, LetterIs, Zenon
    <2>2. CASE \E i : x \in {<<"job", i>>, <<"work", i>>, <<"in", i>>}
        <3>1. jobs' = jobs /\ work' = work /\ icq' = icq
            BY <1>1
        <3> QED BY <2>2, <3>1 DEF Letter
    <2> QED BY <2>1, <2>2, PlaceIs
<1>7. Letter(n)' = e
    BY <1>0, <1>3, LetterIs
<1>8. \A x \in Places : Letter(x).tid \in Thread /\ pc[Letter(x).tid] = "receive"
                        /\ Letter(x).tid # t
    BY <1>1 DEF ChannelInv, LettersAwaited
<1>9. OneLetterEach'
    BY <1>2, <1>5, <1>6, <1>7, <1>8 DEF OneLetterEach, ChannelInv
<1>10. LettersAwaited'
    <2> SUFFICES ASSUME NEW x \in Places', NEW u, u = (Letter(x).tid)',
                        NEW q, q = PacketOf(u, request[u])
                 PROVE  /\ u \in Thread /\ pc'[u] = "receive"
                        /\ Letter(x)' = IF x[1] = "in" THEN ReplyTo(q) ELSE q
        BY <1>1 DEF LettersAwaited
    <2>1. CASE x = n
        BY <1>0, <1>1, <1>2, <1>7, <2>1 DEF e
    <2>2. CASE x \in Places
        BY <1>1, <1>6, <1>8, <2>2 DEF ChannelInv, LettersAwaited
    <2> QED BY <1>5, <2>1, <2>2
<1>11. Engaged'
    BY <1>1, <1>2 DEF ChannelInv, Engaged
<1> QED BY <1>4, <1>9, <1>10, <1>11 DEF ChannelInv

\* receive_offload_message takes the reply to its call, the only thing of the
\* thread that is under way.
LEMMA ReceiveKeeps ==
    ASSUME ChannelInv, NEW t \in Thread, Receive(t)
    PROVE  /\ ChannelInv'
           /\ <<"in", icq.tail>> \in Places
           /\ Letter(<<"in", icq.tail>>).tid = t
           /\ result' = [result EXCEPT ![t] = Letter(<<"in", icq.tail>>).ret]
<1> DEFINE n == <<"in", icq.tail>>
           g == [x \in Places' |-> x]
<1>1. /\ pc[t] = "receive" /\ pc' = [pc EXCEPT ![t] = "user"]
      /\ pc \in [Thread -> {"user", "send", "receive"}]
      /\ request \in [Thread -> Request \cup {None}]
      /\ CqAvailData(icq) # 0 /\ icq' = CqRemove(icq)
      /\ CqFirst(icq).tid = t /\ request' = [request EXCEPT ![t] = None]
      /\ result' = [result EXCEPT ![t] = CqFirst(icq).ret]
      /\ UNCHANGED <<ocq, current, jobs, work, done, mutex>>
    BY DEF Receive, Goto, proxy, ChannelInv, TypeOK
<1>2. /\ icq' \in CqOf(InSize, ReplyPacket \cup {None})
      /\ icq.tail \in CqSlots(icq) /\ CqSlots(icq') = CqSlots(icq) \ {icq.tail}
      /\ icq'.data = icq.data
    <2>1. InSize \in Sizes /\ icq \in CqOf(InSize, ReplyPacket \cup {None})
        BY SizeAssumption DEF ChannelInv, TypeOK, Sizes
    <2>2. CqAvailData(icq) # 0 /\ icq' = CqRemove(icq)
        BY <1>1
    <2> QED BY <2>1, <2>2, Removed
<1>3. Places' = Places \ {n} /\ n \in Places
    BY <1>1, <1>2 DEF Places
<1>4. \A x : Letter(x)' = Letter(x)
    BY <1>1, <1>2 DEF Letter
<1>5. Letter(n) = CqFirst(icq) /\ Letter(n).tid = t
    BY <1>1, LetterIs DEF CqFirst
<1>6. \A x \in Places' : Letter(x).tid \in Thread /\ Letter(x).tid # t
    BY <1>3, <1>5 DEF ChannelInv, OneLetterEach, LettersAwaited
<1>7. LettersAwaited'
    <2>1. \A x \in Places' : /\ g[x] \in Places /\ Letter(x)' = Letter(g[x])
                             /\ x[1] = "in" <=> g[x][1] = "in"
        BY <1>3, <1>4
    <2>2. \A x \in Places' : LET u == Letter(g[x]).tid
                             IN  pc'[u] = pc[u] /\ request'[u] = request[u]
        BY <1>1, <1>6
    <2> HIDE DEF g
    <2> QED BY <2>1, <2>2, AwaitedKept, Zenon DEF ChannelInv
<1>8. OneLetterEach'
    BY <1>3, <1>4 DEF OneLetterEach, ChannelInv
<1>9. TypeOK'
    <2>1. Letter(n).ret \in {Carried(p) : p \in Packet}
        <3>1. /\ pc[t] = "receive" /\ Letter(n) = ReplyTo(PacketOf(t, request[t]))
            BY <1>3, <1>5 DEF ChannelInv, LettersAwaited
        <3>2. PacketOf(t, request[t]) \in Packet
            BY <3>1 DEF ChannelInv, Engaged, Packet
        <3> QED BY <3>1, <3>2 DEF ReplyTo
    <2>2. result' \in [Thread -> {Carried(p) : p \in Packet} \cup {None}]
        BY <1>1, <1>5, <2>1 DEF ChannelInv, TypeOK
    <2> QED BY <1>1, <1>2, <2>2 DEF ChannelInv, TypeOK
<1>10. Engaged'
    BY <1>1 DEF ChannelInv, Engaged
<1> QED BY <1>1, <1>3, <1>5, <1>7, <1>8, <1>9, <1>10 DEF ChannelInv


\* offload_watch makes a job of the first packet.
LEMMA WatchKeeps ==
    ASSUME ChannelInv, Watch
    PROVE  ChannelInv'
<1>0. PICK o, n : o = <<"out", ocq.tail>> /\ n = <<"job", Len(jobs) + 1>>
    OBVIOUS
<1> DEFINE g == [x \in Places' |-> IF x = n THEN o ELSE x]
<1>1. /\ CqAvailData(ocq) # 0 /\ ocq' = CqRemove(ocq)
      /\ jobs' = Append(jobs, CqFirst(ocq)) /\ jobs \in Seq(Packet)
      /\ UNCHANGED <<icq, current, pc, request, result, work, done, mutex>>
    BY DEF Watch, kernel, ChannelInv, TypeOK
<1>2. /\ ocq' \in CqOf(OutSize, Packet \cup {None})
      /\ ocq.tail \in CqSlots(ocq) /\ CqSlots(ocq') = CqSlots(ocq) \ {ocq.tail}
      /\ ocq'.data = ocq.data
    <2>1. OutSize \in Sizes /\ ocq \in CqOf(OutSize, Packet \cup {None})
        BY SizeAssumption DEF ChannelInv, TypeOK, Sizes
    <2>2. CqAvailData(ocq) # 0 /\ ocq' = CqRemove(ocq)
        BY <1>1
    <2> QED BY <2>1, <2>2, Removed
<1>3. o \in Places /\ Letter(o) = CqFirst(ocq)
    BY <1>0, <1>2, PlaceIs, LetterIs DEF CqFirst
<1>4. CqFirst(ocq) \in Packet
    <2>1. /\ Letter(o).tid \in Thread /\ pc[Letter(o).tid] = "receive"
          /\ Letter(o) = PacketOf(Letter(o).tid, request[Letter(o).tid])
        BY <1>0, <1>3 DEF ChannelInv, LettersAwaited
    <2> QED BY <1>3, <2>1 DEF ChannelInv, Engaged, Packet
<1>5. /\ DOMAIN jobs = 1 .. Len(jobs) /\ DOMAIN jobs' = DOMAIN jobs \cup {Len(jobs) + 1}
      /\ Len(jobs) + 1 \notin DOMAIN jobs
      /\ jobs'[Len(jobs) + 1] = CqFirst(ocq) /\ \A i \in DOMAIN jobs : jobs'[i] = jobs[i]
      /\ jobs' \in Seq(Packet)
    BY <1>1, <1>4
<1>6. TypeOK'
    BY <1>1, <1>2, <1>5 DEF ChannelInv, TypeOK
<1>7. Places' = (Places \ {o}) \cup {n} /\ n \notin Places /\ o # n
    BY <1>0, <1>1, <1>2, <1>5 DEF Places
<1>8. Letter(n)' = Letter(o)
    BY <1>0, <1>3, <1>5, LetterIs
<1>9. \A x \in Places : Letter(x)' = Letter(x)
    <2> SUFFICES ASSUME NEW x \in Places PROVE Letter(x)' = Letter(x)
        OBVIOUS
    <2>1. CASE \E i \in DOMAIN jobs : x = <<"job", i>>
        <3>1. PICK i \in DOMAIN jobs : x = <<"job", i>>
            BY <2>1
        <3> QED BY <1>5, <3>1, LetterIs, Zenon
    <2>2. CASE \E i : x \in {<<"out", i>>, <<"work", i>>, <<"in", i>>}
        <3>1. ocq'.data = ocq.data /\ work' = work /\ icq' = icq
            BY <1>1, <1>2
        <3> QED BY <2>2, <3>1 DEF Letter
    <2> QED BY <2>1, <2>2, PlaceIs
<1>10. \A x \in Places' : /\ g[x] \in Places /\ Letter(x)' = Letter(g[x])
                          /\ x[1] = "in" <=> g[x][1] = "in"
    BY <1>0, <1>3, <1>7, <1>8, <1>9
<1>11. \A x, y \in Places' : g[x] = g[y] => x = y
    BY <1>7
<1>12. \A x \in Places' : LET t == Letter(g[x]).tid
                          IN  pc'[t] = pc[t] /\ request'[t] = request[t]
    BY <1>1
<1>13. Engaged'
    BY <1>1 DEF ChannelInv, Engaged
<1> HIDE DEF g
<1>14. LettersAwaited'
    BY <1>10, <1>12, AwaitedKept, Zenon DEF ChannelInv
<1>15. OneLetterEach'
    BY <1>10, <1>11, OneEachKept, Zenon DEF ChannelInv
<1> QED BY <1>6, <1>13, <1>14, <1>15 DEF ChannelInv

\* A worker takes the first job, and the others move up.
LEMMA TakeJobKeeps ==
    ASSUME ChannelInv, NEW w \in Worker, TakeJob(w)
    PROVE  ChannelInv'
<1>0. PICK n : n = <<"work", w>>
    OBVIOUS
<1> DEFINE g == [x \in Places' |-> IF x = n THEN <<"job", 1>>
                                   ELSE IF x[1] = "job" THEN <<"job", x[2] + 1>> ELSE x]
<1>1. /\ work[w] = None /\ work' = [work EXCEPT ![w] = Head(jobs)]
      /\ work \in [Worker -> Packet \cup {None}]
      /\ jobs # <<>> /\ jobs' = Tail(jobs) /\ jobs \in Seq(Packet)
      /\ UNCHANGED <<ocq, icq, current, pc, request, result, done, mutex>>
    BY DEF TakeJob, kernel, ChannelInv, TypeOK
<1>2. /\ Len(jobs) \in Nat /\ Len(jobs) > 0 /\ DOMAIN jobs = 1 .. Len(jobs)
      /\ DOMAIN jobs' = 1 .. Len(jobs) - 1
      /\ \A i \in DOMAIN jobs' : i + 1 \in DOMAIN jobs /\ jobs'[i] = jobs[i + 1]
      /\ Head(jobs) = jobs[1] /\ 1 \in DOMAIN jobs /\ jobs[1] \in Packet
      /\ jobs' \in Seq(Packet)
    BY <1>1
<1>3. /\ work'[w] = jobs[1] /\ jobs[1] # None
      /\ \A v \in Worker : v # w => work'[v] = work[v]
      /\ work' \in [Worker -> Packet \cup {None}]
    BY <1>1, <1>2, NoneAssumption
<1>4. TypeOK'
    BY <1>1, <1>2, <1>3 DEF ChannelInv, TypeOK
<1>5. ASSUME NEW x \in Places'
      PROVE  /\ g[x] \in Places /\ Letter(x)' = Letter(g[x])
             /\ (x[1] = "in") <=> (g[x][1] = "in")
             /\ x = n => g[x] = <<"job", 1>>
             /\ x # n => \/ \E i \in Nat \ {0} : x = <<"job", i>> /\ g[x] = <<"job", i + 1>>
                         \/ x[1] # "job" /\ g[x] = x
    <2>1. CASE \E i \in DOMAIN jobs' : x = <<"job", i>>
        <3> PICK i \in DOMAIN jobs' : x = <<"job", i>>
            BY <2>1
        <3>1. g[x] = <<"job", i + 1>> /\ x # n /\ i \in Nat \ {0}
            BY <1>0, <1>2
        <3> HIDE DEF g
        <3>2. g[x] \in Places /\ Letter(x)' = Letter(g[x])
            <4>1. i + 1 \in DOMAIN jobs /\ jobs'[i] = jobs[i + 1]
                BY <1>2
            <4>2. <<"job", i + 1>> \in Places
                BY <4>1, PlaceIs, Zenon
            <4>3. Letter(<<"job", i>>)' = Letter(<<"job", i + 1>>)
                BY <4>1, LetterIs, Zenon
            <4> QED BY <3>1, <4>2, <4>3, Zenon
        <3> QED BY <3>1, <3>2
    <2>2. CASE x = n
        <3>1. g[x] = <<"job", 1>>
            BY <2>2
        <3> HIDE DEF g
        <3>2. g[x] \in Places /\ Letter(x)' = Letter(g[x])
            <4>1. <<"job", 1>> \in Places /\ Letter(<<"job", 1>>) = jobs[1]
                BY <1>2, LetterIs, PlaceIs, Zenon
            <4>2. Letter(<<"work", w>>)' = work'[w]
                BY LetterIs, Zenon
            <4> QED BY <1>0, <1>3, <2>2, <3>1, <4>1, <4>2
        <3> QED BY <1>0, <2>2, <3>1, <3>2
    <2>3. CASE x # n /\ \E v \in Worker : work'[v] # None /\ x = <<"work", v>>
        <3> PICK v \in Worker : work'[v] # None /\ x = <<"work", v>> /\ v # w
            BY <1>0, <2>3
        <3>1. g[x] = x /\ x[1] = "work"
            BY <2>3
        <3> HIDE DEF g
        <3>2. x \in Places /\ Letter(x)' = Letter(x)
            <4>1. work'[v] = work[v]
                BY <1>3
            <4> QED BY <4>1, LetterIs, PlaceIs, Zenon
        <3> QED BY <2>3, <3>1, <3>2
    <2>4. CASE \/ \E i \in CqSlots(ocq') : x = <<"out", i>>
               \/ \E i \in CqSlots(icq') : x = <<"in", i>>
        <3>1. g[x] = x /\ x[1] # "job" /\ x # n
            BY <1>0, <2>4
        <3> HIDE DEF g
        <3>2. x \in Places
            BY <1>1, <2>4 DEF Places
        <3>3. Letter(x)' = Letter(x)
            BY <1>1, <2>4 DEF Letter
        <3> QED BY <2>4, <3>1, <3>2, <3>3
    <2> QED BY <1>0, <2>1, <2>2, <2>3, <2>4, PlaceIsThen
<1>6. \A x, y \in Places' : g[x] = g[y] => x = y
    <2> SUFFICES ASSUME NEW x \in Places', NEW y \in Places', g[x] = g[y]
                 PROVE  x = y
        OBVIOUS
    <2> HIDE DEF g
    <2>1. \A i \in Nat \ {0} : <<"job", i + 1>> # <<"job", 1>>
        OBVIOUS
    <2> QED BY <1>5, <2>1
<1>7. \A x \in Places' : LET t == Letter(g[x]).tid
                         IN  pc'[t] = pc[t] /\ request'[t] = request[t]
    BY <1>1
<1>8. Engaged'
    BY <1>1, <1>3 DEF ChannelInv, Engaged, TypeOK
<1> HIDE DEF g
<1>9. LettersAwaited'
    BY <1>5, <1>7, AwaitedKept, Zenon DEF ChannelInv
<1>10. OneLetterEach'
    BY <1>5, <1>6, OneEachKept, Zenon DEF ChannelInv
<1> QED BY <1>4, <1>8, <1>9, <1>10 DEF ChannelInv


\* A worker replies to the call it has carried out.
LEMMA ReplyKeeps ==
    ASSUME ChannelInv, NEW w \in Worker, Reply(w)
    PROVE  ChannelInv'
<1>0. PICK o, n : o = <<"work", w>> /\ n = <<"in", icq.head>>
    OBVIOUS
<1> DEFINE g == [x \in Places' |-> IF x = n THEN o ELSE x]
           e == ReplyTo(work[w])
<1>1. /\ mutex = w /\ CqFreeSpace(icq) # 0 /\ icq' = CqAdd(icq, e) /\ mutex' = None
      /\ work' = [work EXCEPT ![w] = None] /\ done' = done \ {w}
      /\ work \in [Worker -> Packet \cup {None}]
      /\ UNCHANGED <<ocq, current, pc, request, result, jobs>>
    BY DEF Reply, kernel, ChannelInv, TypeOK
<1>2. work[w] # None /\ work[w] \in Packet
    BY <1>1, NoneAssumption DEF ChannelInv, Engaged
<1>3. e \in ReplyPacket /\ e.tid = work[w].tid
    BY <1>2 DEF ReplyPacket, ReplyTo
<1>4. /\ icq' \in CqOf(InSize, ReplyPacket \cup {None})
      /\ icq.head \notin CqSlots(icq) /\ CqSlots(icq') = CqSlots(icq) \cup {icq.head}
      /\ icq'.data[icq.head] = e
      /\ \A i \in CqSlots(icq) : icq'.data[i] = icq.data[i]
    <2>1. InSize \in Sizes /\ icq \in CqOf(InSize, ReplyPacket \cup {None})
          /\ e \in ReplyPacket \cup {None}
        BY <1>3, SizeAssumption DEF ChannelInv, TypeOK, Sizes
    <2>2. CqFreeSpace(icq) # 0 /\ icq' = CqAdd(icq, e)
        BY <1>1
    <2> HIDE DEF e
    <2> QED BY <2>1, <2>2, Added
<1> HIDE DEF e
<1>5. TypeOK'
    BY <1>1, <1>4 DEF ChannelInv, TypeOK
<1>6. o \in Places /\ Letter(o) = work[w]
    BY <1>0, <1>2, PlaceIs, LetterIs
<1>7. Places' = (Places \ {o}) \cup {n} /\ n \notin Places /\ o # n
    <2>1. \A v \in Worker : work'[v] # None <=> work[v] # None /\ v # w
        BY <1>1
    <2> QED BY <1>0, <1>1, <1>4, <2>1 DEF Places
<1>8. Letter(n)' = e
    BY <1>0, <1>4, LetterIs
<1>9. \A x \in Places \ {o} : Letter(x)' = Letter(x)
    <2> SUFFICES ASSUME NEW x \in Places \ {o} PROVE Letter(x)' = Letter(x)
        OBVIOUS
    <2>1. CASE \E i \in CqSlots(icq) : x = <<"in", i>>
        <3>1. PICK i \in CqSlots(icq) : x = <<"in", i>>
            BY <2>1
        <3>2. icq'.data[i] = icq.data[i]
            BY <1>4
        <3> QED BY <3>1, <3>2, LetterIs, Zenon
    <2>2. CASE \E i : x \in {<<"out", i>>, <<"job", i>>}
        <3>1. ocq' = ocq /\ jobs' = jobs
            BY <1>1
        <3> QED BY <2>2, <3>1 DEF Letter
    <2>3. CASE \E v \in Worker : x = <<"work", v>>
        <3>1. PICK v \in Worker : x = <<"work", v>> /\ v # w
            BY <1>0, <2>3
        <3>2. work'[v] = work[v]
            BY <1>1, <3>1
        <3> QED BY <3>1, <3>2, LetterIs, Zenon
    <2> QED BY <2>1, <2>2, <2>3, PlaceIs
<1>10. OneLetterEach'
    <2>1. \A x \in Places' : g[x] \in Places /\ (Letter(x).tid)' = Letter(g[x]).tid
        BY <1>3, <1>6, <1>7, <1>8, <1>9
    <2>2. \A x, y \in Places' : g[x] = g[y] => x = y
        BY <1>7
    <2> HIDE DEF g
    <2> QED BY <2>1, <2>2, OneEachKept, Zenon DEF ChannelInv
<1>11. LettersAwaited'
    <2> SUFFICES ASSUME NEW x \in Places', NEW u, u = (Letter(x).tid)',
                        NEW q, q = PacketOf(u, request[u])
                 PROVE  /\ u \in Thread /\ pc[u] = "receive"
                        /\ Letter(x)' = IF x[1] = "in" THEN ReplyTo(q) ELSE q
        BY <1>1 DEF LettersAwaited
    <2>1. CASE x = n
        <3>1. u = work[w].tid
            BY <1>3, <1>8, <2>1
        <3>2. /\ u \in Thread /\ pc[u] = "receive" /\ work[w] = q
            BY <1>0, <1>6, <3>1 DEF ChannelInv, LettersAwaited
        <3> QED BY <1>0, <1>8, <2>1, <3>2 DEF e
    <2>2. CASE x \in Places \ {o}
        BY <1>9, <2>2 DEF ChannelInv, LettersAwaited
    <2> QED BY <1>7, <2>1, <2>2
<1>12. Engaged'
    BY <1>1 DEF ChannelInv, Engaged
<1> QED BY <1>5, <1>10, <1>11, <1>12 DEF ChannelInv

\* The channel starts with nothing under way.
LEMMA ChannelInitially == Init => ChannelInv
<1> SUFFICES ASSUME Init PROVE ChannelInv
    OBVIOUS
<1>1. /\ ocq \in CqOf(OutSize, Packet \cup {None}) /\ ocq.head = 0 /\ ocq.tail = 0
      /\ icq \in CqOf(InSize, ReplyPacket \cup {None}) /\ icq.head = 0 /\ icq.tail = 0
    BY SizeAssumption DEF Init, CqInit, CqOf
<1>2. TypeOK
    BY <1>1 DEF Init, TypeOK
<1>3. CqSlots(ocq) = {} /\ CqSlots(icq) = {}
    <2>1. OutSize \in Sizes /\ InSize \in Sizes
        BY SizeAssumption DEF Sizes
    <2>2. CqSlots(ocq) = Used(0, 0, OutSize) /\ CqSlots(icq) = Used(0, 0, InSize)
        BY <1>1, <2>1, SlotsAre
    <2> QED BY <2>1, <2>2 DEF Used, Sizes
<1>4. Places = {}
    BY <1>3 DEF Init, Places
<1> QED BY <1>2, <1>4 DEF ChannelInv, LettersAwaited, OneLetterEach, Engaged, Init

\* Every step keeps the invariant.
LEMMA ChannelKept == ChannelInv /\ [Next]_vars => ChannelInv'
<1> SUFFICES ASSUME ChannelInv, [Next]_vars PROVE ChannelInv'
    OBVIOUS
<1>1. ASSUME NEW t \in Thread, CoreStep(t) \/ Call(t)
      PROVE  ChannelInv'
    <2>1. CASE Send(t)
        BY <2>1, SendKeeps
    <2>2. CASE Receive(t)
        BY <2>2, ReceiveKeeps
    <2>3. CASE Call(t)
        BY <2>3, CallKeeps
    <2>4. CASE SendYield(t) \/ ReceiveYield(t) \/ Preempt(t)
        BY <2>4, YieldKeeps DEF SendYield, ReceiveYield, Preempt
    <2>5. CASE ReceiveOther(t)
        <3>1. CqFirst(icq).tid \in Thread
            <4>1. InSize \in Sizes /\ icq \in CqOf(InSize, ReplyPacket \cup {None})
                  /\ CqAvailData(icq) # 0
                BY <2>5, SizeAssumption DEF ReceiveOther, ChannelInv, TypeOK, Sizes
            <4>2. icq.tail \in CqSlots(icq)
                BY <4>1, Removed
            <4>3. <<"in", icq.tail>> \in Places /\ Letter(<<"in", icq.tail>>) = CqFirst(icq)
                BY <4>2, PlaceIs, LetterIs DEF CqFirst
            <4> QED BY <4>3 DEF ChannelInv, LettersAwaited
        <3> QED BY <2>5, <3>1, YieldKeeps DEF ReceiveOther
    <2> QED BY <1>1, <2>1, <2>2, <2>3, <2>4, <2>5 DEF CoreStep
<1>2. CASE Watch
    BY <1>2, WatchKeeps
<1>3. ASSUME NEW w \in Worker, TakeJob(w) \/ Serve(w) \/ Lock(w) \/ Reply(w)
      PROVE  ChannelInv'
    BY <1>3, TakeJobKeeps, WorkerKeeps, ReplyKeeps
<1>4. CASE UNCHANGED vars
    BY <1>4, YieldKeeps DEF vars, kernel, ChannelInv, TypeOK
<1> QED BY <1>1, <1>2, <1>3, <1>4 DEF Next

\* What is under way between the core and its proxy is one packet or reply for
\* each thread in receive_offload_message, and it is that of the thread's call.
THEOREM ChannelInvariant == Spec => []ChannelInv
BY ChannelInitially, ChannelKept, PTL DEF Spec

\* The reply at the head of the queue is for a thread that waits for it: the
\* thread that polls always has somebody to hand the core to.
THEOREM RepliesAreAwaited == Spec => []HeadIsAwaited
<1>1. ChannelInv => HeadIsAwaited
    <2> SUFFICES ASSUME ChannelInv, CqAvailData(icq) # 0
                 PROVE  pc[CqFirst(icq).tid] = "receive"
        BY DEF HeadIsAwaited
    <2>1. InSize \in Sizes /\ icq \in CqOf(InSize, ReplyPacket \cup {None})
        BY SizeAssumption DEF ChannelInv, TypeOK, Sizes
    <2>2. icq.tail \in CqSlots(icq)
        BY <2>1, Removed
    <2>3. <<"in", icq.tail>> \in Places /\ Letter(<<"in", icq.tail>>) = CqFirst(icq)
        BY <2>2, PlaceIs, LetterIs DEF CqFirst
    <2> QED BY <2>3 DEF ChannelInv, LettersAwaited
<1> QED BY <1>1, ChannelInvariant, PTL


-----------------------------------------------------------------------------
(* An offloaded call is a remote call *)

\* A thread whose call is not carried out yet has something under way that is
\* not a reply, and not with a worker that is done.
LEMMA WaitingSomewhere ==
    ASSUME NEW t
    PROVE  Waiting(t) => \E x \in Places : /\ Letter(x).tid = t /\ x[1] # "in"
                                           /\ \A w \in done : x # <<"work", w>>
<1>1. ASSUME NEW i \in CqSlots(ocq), ocq.data[i].tid = t
      PROVE  <<"out", i>> \in Places /\ Letter(<<"out", i>>).tid = t
    BY <1>1, PlaceIs, LetterIs
<1>2. ASSUME NEW i \in DOMAIN jobs, jobs[i].tid = t
      PROVE  <<"job", i>> \in Places /\ Letter(<<"job", i>>).tid = t
    BY <1>2, PlaceIs, LetterIs
<1>3. ASSUME NEW w \in Worker \ done, work[w] # None, work[w].tid = t
      PROVE  <<"work", w>> \in Places /\ Letter(<<"work", w>>).tid = t
    BY <1>3, PlaceIs, LetterIs
<1>4. ASSUME NEW i PROVE <<"out", i>>[1] # "in" /\ \A w \in done : <<"out", i>> # <<"work", w>>
    OBVIOUS
<1>5. ASSUME NEW i PROVE <<"job", i>>[1] # "in" /\ \A w \in done : <<"job", i>> # <<"work", w>>
    OBVIOUS
<1>6. ASSUME NEW w \in Worker \ done
      PROVE  <<"work", w>>[1] # "in" /\ \A v \in done : <<"work", w>> # <<"work", v>>
    OBVIOUS
<1> QED BY <1>1, <1>2, <1>3, <1>4, <1>5, <1>6 DEF Waiting

\* The stage of a call depends on where its thread is and on what waits.
LEMMA StageKept ==
    ASSUME NEW t, pc'[t] = pc[t], Waiting(t)' <=> Waiting(t)
    PROVE  Stage(t)' = Stage(t)
BY DEF Stage

\* Moving packets about changes no stage.
LEMMA WaitingKept ==
    ASSUME ChannelInv, NEW t,
           \/ UNCHANGED <<ocq, jobs, work, done>>
           \/ Watch
           \/ \E w \in Worker : TakeJob(w) \/ Reply(w)
    PROVE  Waiting(t)' <=> Waiting(t)
<1>1. CASE UNCHANGED <<ocq, jobs, work, done>>
    BY <1>1 DEF Waiting
<1>2. CASE Watch
    <2>1. /\ ocq.tail \in CqSlots(ocq) /\ CqSlots(ocq') = CqSlots(ocq) \ {ocq.tail}
          /\ ocq'.data = ocq.data
        <3>1. /\ OutSize \in Sizes /\ ocq \in CqOf(OutSize, Packet \cup {None})
              /\ CqAvailData(ocq) # 0 /\ ocq' = CqRemove(ocq)
            BY <1>2, SizeAssumption DEF ChannelInv, TypeOK, Sizes, Watch
        <3> QED BY <3>1, Removed
    <2>2. /\ DOMAIN jobs = 1 .. Len(jobs) /\ DOMAIN jobs' = DOMAIN jobs \cup {Len(jobs) + 1}
          /\ jobs'[Len(jobs) + 1] = ocq.data[ocq.tail]
          /\ \A i \in DOMAIN jobs : jobs'[i] = jobs[i]
        <3>1. jobs \in Seq(Packet) /\ jobs' = Append(jobs, ocq.data[ocq.tail])
            BY <1>2 DEF Watch, CqFirst, ChannelInv, TypeOK
        <3> QED BY <3>1
    <2>3. work' = work /\ done' = done
        BY <1>2 DEF Watch
    <2>4. (\E i \in DOMAIN jobs' : jobs'[i].tid = t)
              <=> (\E i \in DOMAIN jobs : jobs[i].tid = t) \/ ocq.data[ocq.tail].tid = t
        BY <2>2
    <2>5. (\E i \in CqSlots(ocq) : ocq.data[i].tid = t)
              <=> (\E i \in CqSlots(ocq') : ocq'.data[i].tid = t) \/ ocq.data[ocq.tail].tid = t
        BY <2>1
    <2> QED BY <2>3, <2>4, <2>5 DEF Waiting
<1>3. ASSUME NEW w \in Worker, TakeJob(w)
      PROVE  Waiting(t)' <=> Waiting(t)
    <2>1. /\ DOMAIN jobs = 1 .. Len(jobs) /\ DOMAIN jobs' = 1 .. Len(jobs) - 1
          /\ Len(jobs) \in Nat /\ Len(jobs) > 0
          /\ Head(jobs) = jobs[1] /\ jobs[1] \in Packet /\ jobs[1] # None
          /\ \A i \in DOMAIN jobs' : jobs'[i] = jobs[i + 1]
        BY <1>3, NoneAssumption DEF TakeJob, ChannelInv, TypeOK
    <2>2. (\E i \in DOMAIN jobs : jobs[i].tid = t)
              <=> (\E i \in DOMAIN jobs' : jobs'[i].tid = t) \/ jobs[1].tid = t
        <3>1. \A i \in DOMAIN jobs : i = 1 \/ (i - 1 \in DOMAIN jobs' /\ jobs'[i - 1] = jobs[i])
            BY <2>1
        <3>2. 1 \in DOMAIN jobs /\ \A i \in DOMAIN jobs' : i + 1 \in DOMAIN jobs
            BY <2>1
        <3> QED BY <2>1, <3>1, <3>2
    <2>3. /\ work[w] = None /\ w \notin done /\ done' = done /\ ocq' = ocq
          /\ work'[w] = jobs[1] /\ \A v \in Worker : v # w => work'[v] = work[v]
        BY <1>3, <2>1 DEF TakeJob, ChannelInv, TypeOK, Engaged
    <2>4. (\E v \in Worker \ done' : work'[v] # None /\ work'[v].tid = t)
              <=> \/ \E v \in Worker \ done : work[v] # None /\ work[v].tid = t
                  \/ jobs[1].tid = t
        BY <2>1, <2>3
    <2> QED BY <2>2, <2>3, <2>4 DEF Waiting
<1>4. ASSUME NEW w \in Worker, Reply(w)
      PROVE  Waiting(t)' <=> Waiting(t)
    <2>1. /\ w \in done /\ done' = done \ {w} /\ ocq' = ocq /\ jobs' = jobs
          /\ work'[w] = None /\ \A v \in Worker : v # w => work'[v] = work[v]
        BY <1>4, NoneAssumption DEF Reply, kernel, ChannelInv, TypeOK, Engaged
    <2> QED BY <2>1 DEF Waiting
<1> QED BY <1>1, <1>2, <1>3, <1>4


\* A call starts, on one thread ...
LEMMA CallIsCall ==
    ASSUME ChannelInv, NEW t \in Thread, Call(t)
    PROVE  Remote!Next
<1>1. PICK r \in Request :
        /\ pc[t] = "user" /\ pc' = [pc EXCEPT ![t] = "send"]
        /\ request' = [request EXCEPT ![t] = r]
        /\ result' = [result EXCEPT ![t] = None]
        /\ UNCHANGED <<ocq, jobs, work, done>>
    BY DEF Call, Goto, proxy
<1>2. Stage(t) = "none" /\ Stage(t)' = "called"
    <2>1. pc'[t] = "send"
        BY <1>1 DEF ChannelInv, TypeOK
    <2> QED BY <1>1, <2>1 DEF Stage
<1>3. \A u \in Thread \ {t} : Stage(u)' = Stage(u)
    BY <1>1, WaitingKept, StageKept DEF ChannelInv, TypeOK
<1>4. Remote!Call(t, r)
    BY <1>1, <1>2, <1>3 DEF Remote!Call
<1> QED BY <1>4 DEF Remote!Next

\* ... a worker carries it out ...
LEMMA ServeIsServe ==
    ASSUME ChannelInv, NEW w \in Worker, Serve(w)
    PROVE  Remote!Next
<1>1. /\ work[w] # None /\ w \notin done /\ done' = done \cup {w}
      /\ UNCHANGED <<ocq, jobs, work, pc, request, result>>
    BY DEF Serve, kernel
<1>2. PICK t \in Thread : t = work[w].tid /\ pc[t] = "receive"
    <2>1. <<"work", w>> \in Places /\ Letter(<<"work", w>>) = work[w]
        BY <1>1, PlaceIs, LetterIs
    <2> QED BY <2>1 DEF ChannelInv, LettersAwaited
<1>3. Stage(t) = "called"
    BY <1>1, <1>2 DEF Stage, Waiting
<1>4. ~ Waiting(t)'
    <2> SUFFICES ASSUME Waiting(t)' PROVE FALSE
        OBVIOUS
    <2>1. /\ <<"work", w>> \in Places /\ Letter(<<"work", w>>).tid = t
        BY <1>1, <1>2, PlaceIs, LetterIs
    <2>2. \A i \in CqSlots(ocq) : <<"out", i>> \in Places /\ Letter(<<"out", i>>) = ocq.data[i]
        BY PlaceIs, LetterIs
    <2>3. \A i \in DOMAIN jobs : <<"job", i>> \in Places /\ Letter(<<"job", i>>) = jobs[i]
        BY PlaceIs, LetterIs
    <2>4. \A v \in Worker : work[v] # None =>
              <<"work", v>> \in Places /\ Letter(<<"work", v>>) = work[v]
        BY PlaceIs, LetterIs
    <2>5. \A i : <<"out", i>> # <<"work", w>> /\ <<"job", i>> # <<"work", w>>
        OBVIOUS
    <2>6. \A v \in Worker : <<"work", v>> = <<"work", w>> => v = w
        OBVIOUS
    <2>7. ASSUME NEW x \in Places, Letter(x).tid = t
          PROVE  x = <<"work", w>>
        BY <2>1, <2>7, Zenon DEF ChannelInv, OneLetterEach
    <2>8. /\ \A i \in CqSlots(ocq) : ocq.data[i].tid # t
          /\ \A i \in DOMAIN jobs : jobs[i].tid # t
        BY <2>2, <2>3, <2>5, <2>7, Zenon
    <2>9. \A v \in Worker : work[v] # None /\ v # w => work[v].tid # t
        BY <2>4, <2>6, <2>7, Zenon
    <2> QED BY <1>1, <2>8, <2>9 DEF Waiting
<1>5. Stage(t)' = "served"
    BY <1>1, <1>2, <1>4 DEF Stage
<1>6. \A u \in Thread \ {t} : Stage(u)' = Stage(u)
    <2> SUFFICES ASSUME NEW u \in Thread \ {t} PROVE Waiting(u)' <=> Waiting(u)
        BY <1>1, StageKept
    <2> QED BY <1>1, <1>2 DEF Waiting
<1>7. Remote!Serve(t)
    BY <1>1, <1>3, <1>5, <1>6 DEF Remote!Serve
<1> QED BY <1>7 DEF Remote!Next

\* ... and its thread gets the result of just that call, if the two halves agree
\* on what the call is.
LEMMA ReceiveIsReturn ==
    ASSUME ChannelInv, NEW t \in Thread, Receive(t),
           \A r \in Request : Carried(PacketFor(r)) = HostCall(r)
    PROVE  Remote!Next
<1> DEFINE n == <<"in", icq.tail>>
<1>1. /\ n \in Places /\ Letter(n).tid = t
      /\ result' = [result EXCEPT ![t] = Letter(n).ret]
    BY ReceiveKeeps
<1>2. /\ pc[t] = "receive" /\ pc' = [pc EXCEPT ![t] = "user"]
      /\ request' = [request EXCEPT ![t] = None]
      /\ UNCHANGED <<ocq, jobs, work, done>>
    BY DEF Receive, Goto, proxy
<1>3. ~ Waiting(t)
    <2> SUFFICES ASSUME Waiting(t) PROVE FALSE
        OBVIOUS
    <2>1. PICK x \in Places : Letter(x).tid = t /\ x[1] # "in"
        BY WaitingSomewhere
    <2>2. x = n
        BY <1>1, <2>1 DEF ChannelInv, OneLetterEach
    <2> QED BY <2>1, <2>2
<1>4. Stage(t) = "served" /\ Stage(t)' = "none"
    <2>1. pc'[t] = "user"
        BY <1>2 DEF ChannelInv, TypeOK
    <2> QED BY <1>2, <1>3, <2>1 DEF Stage
<1>5. \A u \in Thread \ {t} : Stage(u)' = Stage(u)
    BY <1>2, WaitingKept, StageKept DEF ChannelInv, TypeOK
<1>6. Letter(n).ret = HostCall(request[t])
    <2>1. request[t] \in Request /\ Letter(n) = ReplyTo(PacketOf(t, request[t]))
        BY <1>1, <1>2 DEF ChannelInv, LettersAwaited, Engaged
    <2>2. Letter(n).ret = Carried(PacketOf(t, request[t]))
        BY <2>1 DEF ReplyTo
    <2>3. Carried(PacketOf(t, request[t])) = Carried(PacketFor(request[t]))
        BY DEF Carried, PacketOf
    <2> QED BY <2>1, <2>2, <2>3
<1>7. Remote!Return(t)
    BY <1>1, <1>2, <1>4, <1>5, <1>6 DEF Remote!Return
<1> QED BY <1>7 DEF Remote!Next


\* Every other step leaves the stages, the calls and the results as they are.
LEMMA OthersAreStutters ==
    ASSUME ChannelInv,
           \/ \E t \in Thread : Send(t)
           \/ Watch
           \/ \E w \in Worker : TakeJob(w) \/ Reply(w)
           \/ UNCHANGED <<ocq, pc, request, result, jobs, work, done>>
    PROVE  UNCHANGED Remote!vars
<1>1. request' = request /\ result' = result
    BY DEF Send, Watch, TakeJob, Reply, kernel
<1>2. ASSUME NEW u \in Thread
      PROVE  Stage(u)' = Stage(u)
    <2>1. ASSUME NEW t \in Thread, Send(t)
          PROVE  Stage(u)' = Stage(u)
        <3>1. /\ pc[t] = "send" /\ pc' = [pc EXCEPT ![t] = "receive"]
              /\ pc \in [Thread -> {"user", "send", "receive"}]
              /\ CqFreeSpace(ocq) # 0 /\ ocq' = CqAdd(ocq, PacketOf(t, request[t]))
              /\ UNCHANGED <<jobs, work, done>>
            BY <2>1 DEF Send, Goto, proxy, ChannelInv, TypeOK
        <3>2. /\ CqSlots(ocq') = CqSlots(ocq) \cup {ocq.head}
              /\ ocq'.data[ocq.head] = PacketOf(t, request[t])
              /\ \A i \in CqSlots(ocq) : ocq'.data[i] = ocq.data[i]
            <4>1. /\ OutSize \in Sizes /\ ocq \in CqOf(OutSize, Packet \cup {None})
                  /\ CqFreeSpace(ocq) # 0 /\ ocq' = CqAdd(ocq, PacketOf(t, request[t]))
                BY <3>1, SizeAssumption DEF ChannelInv, TypeOK, Sizes
            <4>2. PICK e \in Packet \cup {None} : e = PacketOf(t, request[t])
                BY <3>1 DEF ChannelInv, Engaged, Packet
            <4>3. ocq' = CqAdd(ocq, e)
                BY <4>1, <4>2
            <4>4. /\ CqSlots(ocq') = CqSlots(ocq) \cup {ocq.head}
                  /\ ocq'.data[ocq.head] = e
                  /\ \A i \in CqSlots(ocq) : ocq'.data[i] = ocq.data[i]
                BY <4>1, <4>3, Added
            <4> QED BY <4>2, <4>4
        <3>3. PacketOf(t, request[t]).tid = t
            BY DEF PacketOf
        <3>4. (\E i \in CqSlots(ocq') : ocq'.data[i].tid = u)
                  <=> (\E i \in CqSlots(ocq) : ocq.data[i].tid = u) \/ u = t
            BY <3>2, <3>3
        <3>5. Waiting(u)' <=> Waiting(u) \/ u = t
            BY <3>1, <3>4 DEF Waiting
        <3>6. CASE u = t
            BY <3>1, <3>5, <3>6 DEF Stage
        <3>7. CASE u # t
            BY <3>1, <3>5, <3>7 DEF Stage
        <3> QED BY <3>6, <3>7
    <2>2. CASE ~ \E t \in Thread : Send(t)
        <3>1. pc' = pc
            BY <2>2 DEF Watch, TakeJob, Reply, kernel
        <3>2. Waiting(u)' <=> Waiting(u)
            BY <2>2, WaitingKept
        <3> QED BY <3>1, <3>2, StageKept
    <2> QED BY <2>1, <2>2
<1> QED BY <1>1, <1>2 DEF Remote!vars

\* Every step of the channel is a step of a remote call or none.
LEMMA ChannelStep ==
    ASSUME ChannelInv, [Next]_vars,
           \A r \in Request : Carried(PacketFor(r)) = HostCall(r)
    PROVE  [Remote!Next]_(Remote!vars)
<1>1. ASSUME NEW t \in Thread, CoreStep(t) \/ Call(t)
      PROVE  [Remote!Next]_(Remote!vars)
    <2>1. CASE Call(t)
        BY <2>1, CallIsCall
    <2>2. CASE Receive(t)
        BY <2>2, ReceiveIsReturn
    <2>3. CASE Send(t)
        BY <2>3, OthersAreStutters
    <2>4. CASE SendYield(t) \/ ReceiveOther(t) \/ ReceiveYield(t) \/ Preempt(t)
        <3>1. UNCHANGED <<ocq, pc, request, result, jobs, work, done>>
            BY <2>4 DEF SendYield, ReceiveOther, ReceiveYield, Preempt, proxy
        <3> QED BY <3>1, OthersAreStutters
    <2> QED BY <1>1, <2>1, <2>2, <2>3, <2>4 DEF CoreStep
<1>2. ASSUME NEW w \in Worker, TakeJob(w) \/ Serve(w) \/ Lock(w) \/ Reply(w)
      PROVE  [Remote!Next]_(Remote!vars)
    <2>1. CASE Serve(w)
        BY <2>1, ServeIsServe
    <2>2. CASE TakeJob(w) \/ Reply(w)
        BY <2>2, OthersAreStutters
    <2>3. CASE Lock(w)
        <3>1. UNCHANGED <<ocq, pc, request, result, jobs, work, done>>
            BY <2>3 DEF Lock, kernel
        <3> QED BY <3>1, OthersAreStutters
    <2> QED BY <1>2, <2>1, <2>2, <2>3
<1>3. CASE Watch
    BY <1>3, OthersAreStutters
<1>4. CASE UNCHANGED vars
    <2>1. UNCHANGED <<ocq, pc, request, result, jobs, work, done>>
        BY <1>4 DEF vars, kernel, proxy
    <2> QED BY <2>1, OthersAreStutters
<1> QED BY <1>1, <1>2, <1>3, <1>4 DEF Next

\* Replies overtake each other and are matched by thread id alone.  Still every
\* call is carried out once and returns the result of just that call: provided
\* that counts fit the int of the proxy and that the two halves agree on the
\* calls they make of each other (OffloadedAsCalled).
THEOREM OffloadIsRemoteCall ==
    ASSUME HalvesAgree, \A r \in Request : Fits(r)
    PROVE  Spec => ImplementsRemoteCall
<1>1. \A r \in Request : Carried(PacketFor(r)) = HostCall(r)
    BY CallAssumption DEF HalvesAgree
<1>2. Init => Remote!Init
    BY DEF Init, Remote!Init, Stage
<1>3. ChannelInv /\ [Next]_vars => [Remote!Next]_(Remote!vars)
    BY <1>1, ChannelStep
<1> QED BY <1>2, <1>3, ChannelInvariant, PTL DEF Spec, ImplementsRemoteCall, Remote!Spec


=============================================================================
