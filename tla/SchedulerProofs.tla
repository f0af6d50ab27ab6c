-------------------------- MODULE SchedulerProofs --------------------------
(***************************************************************************)
(* The invariants of Scheduler, for every number of cores and threads, of  *)
(* calls, and for every RUNNABLE_MAX.                                      *)
(***************************************************************************)
EXTENDS Scheduler, ListsProofs, TLAPS

USE ZenonT(20), SMTT(20)

-----------------------------------------------------------------------------
(* What a step of one core leaves alone. *)

\* Core d does nothing.
Still(d) ==
    /\ pc'[d] = pc[d] /\ scan'[d] = scan[d] /\ next'[d] = next[d] /\ prev'[d] = prev[d]
    /\ reg'[d] = reg[d] /\ running'[d] = running[d]
    /\ runnable'[d] = runnable[d] /\ blocked'[d] = blocked[d]
    /\ rcount'[d] = rcount[d] /\ bcount'[d] = bcount[d]

\* Another core may at most ask a thread to wake up or to sleep.
Grown(t) ==
    /\ intention[t] \subseteq intention'[t]
    /\ "EXITED" \in intention'[t] => "EXITED" \in intention[t]

\* What is core d's is left alone by others.
Spared(d) ==
    /\ intention'[d] = intention[d]
    /\ mlock' = d <=> mlock = d
    /\ mlock = d => migrating' = migrating
    /\ \A t \in Owned(d) :
          /\ Grown(t) /\ home'[t] = home[t] /\ allowed'[t] = allowed[t]
          /\ t \notin Members(migrating')

OnlyCore(c) == \A d \in Core \ {c} : Still(d) /\ Spared(d)

LEMMA OwnedIsThread ==
    ASSUME TypeOK, NEW c \in Core, ScanSound(c)
    PROVE  /\ Members(runnable[c]) \subseteq Thread /\ Members(blocked[c]) \subseteq Thread
           /\ Members(scan[c]) \subseteq Thread /\ Members(migrating) \subseteq Thread
           /\ InHand(c) \subseteq Thread /\ Owned(c) \subseteq Thread
           /\ InHand(c) # {} => Head(scan[c]) \in Members(scan[c])
  <1>1. ASSUME NEW s \in Seq(Thread) PROVE Members(s) \subseteq Thread
    BY SMT DEF Members
  <1>2. /\ runnable[c] \in Seq(Thread) /\ blocked[c] \in Seq(Thread)
        /\ scan[c] \in Seq(Thread) /\ migrating \in Seq(Thread)
    BY DEF TypeOK
  <1>3. InHand(c) # {} => Head(scan[c]) \in Members(scan[c])
    BY <1>2, HeadTaken DEF InHand, ScanSound
  <1>4. InHand(c) \subseteq Thread
    BY <1>1, <1>2, <1>3 DEF InHand
  <1> QED
    BY <1>1, <1>2, <1>3, <1>4 DEF Owned

\* A thread is at home on one core.
LEMMA OwnedApart ==
    ASSUME NEW c \in Core, NEW d \in Core \ {c}, ListsSound(c), ListsSound(d), NEW t \in Owned(c)
    PROVE  t \notin Owned(d)
  BY SMT DEF ListsSound

LEMMA StillKept ==
    ASSUME SchedulerInv, NEW d \in Core, Still(d), Spared(d)
    PROVE  CoreSound(d)' /\ CountsSound(d)'
  <1>1. /\ pc'[d] = pc[d] /\ scan'[d] = scan[d] /\ next'[d] = next[d] /\ prev'[d] = prev[d]
        /\ reg'[d] = reg[d] /\ running'[d] = running[d]
        /\ runnable'[d] = runnable[d] /\ blocked'[d] = blocked[d]
        /\ rcount'[d] = rcount[d] /\ bcount'[d] = bcount[d]
    BY DEF Still
  <1>2. /\ InHand(d)' = InHand(d) /\ Owned(d)' = Owned(d) /\ Ahead(d)' = Ahead(d)
    BY <1>1 DEF InHand, Owned, Ahead
  <1>3. /\ CoreSound(d) /\ CountsSound(d) /\ TypeOK
        /\ intention'[d] = intention[d]
        /\ mlock' = d <=> mlock = d
        /\ mlock = d => migrating' = migrating
        /\ \A t \in Owned(d) :
              /\ Grown(t) /\ home'[t] = home[t] /\ allowed'[t] = allowed[t]
              /\ t \notin Members(migrating')
    BY DEF SchedulerInv, Spared
  <1>4. \A t \in Owned(d) \cup {d} :
            /\ intention[t] \subseteq intention'[t]
            /\ "EXITED" \in intention'[t] => "EXITED" \in intention[t]
    BY <1>3 DEF Grown
  <1>5. Visits(d)' = Visits(d)
    BY <1>1, <1>3 DEF Visits, CoreSound, ScanSound
  <1>6. ListsSound(d)'
    BY <1>1, <1>2, <1>3 DEF CoreSound, ListsSound
  <1>7. ScanSound(d)'
    BY <1>1, <1>2, <1>3, <1>5 DEF CoreSound, ScanSound
  <1>8. /\ running[d] \in Owned(d) \cup {d}
        /\ Members(runnable[d]) \subseteq Owned(d) /\ Members(blocked[d]) \subseteq Owned(d)
    BY <1>3 DEF CoreSound, RunsSound, Owned
  <1>9. RunsSound(d)'
    BY <1>1, <1>2, <1>3, <1>4, <1>8 DEF CoreSound, RunsSound
  <1>10. SearchSound(d)'
    BY <1>1, <1>2, <1>3, <1>4, <1>8 DEF CoreSound, SearchSound
  <1>11. NextSound(d)'
    BY <1>1, <1>2, <1>3, <1>4, <1>8 DEF CoreSound, NextSound
  <1>12. PrevSound(d)'
    BY <1>1, <1>2, <1>3, <1>4, <1>8 DEF CoreSound, PrevSound
  <1>13. IdleSound(d)'
    BY <1>1, <1>3 DEF CoreSound, IdleSound
  <1>14. CountsSound(d)'
    BY <1>1, <1>3 DEF CountsSound
  <1> QED
    BY <1>6, <1>7, <1>9, <1>10, <1>11, <1>12, <1>13, <1>14 DEF CoreSound

LEMMA CoresKept ==
    ASSUME SchedulerInv, NEW c \in Core, OnlyCore(c), TypeOK', MigratingSound', LiveIsLinked',
           ThreadsCounted', CoreSound(c)', CountsSound(c)'
    PROVE  SchedulerInv'
  <1> \A d \in Core : CoreSound(d)' /\ CountsSound(d)'
    BY StillKept DEF OnlyCore
  <1> QED
    BY DEF SchedulerInv

-----------------------------------------------------------------------------
(* The threads in use. *)

SameLife == \A t \in Tcb : state'[t] = "NOTALLOC" <=> state[t] = "NOTALLOC"

LEMMA LinkedSame ==
    ASSUME LiveIsLinked, NEW c \in Core, OnlyCore(c), SameLife, Owned(c)' = Owned(c),
           Members(migrating') = Members(migrating)
    PROVE  LiveIsLinked'
  <1> \A d \in Core : Owned(d)' = Owned(d)
    BY DEF OnlyCore, Still, Owned, InHand
  <1> QED
    BY DEF LiveIsLinked, SameLife, Tcb, Idle

LEMMA CountedSame ==
    ASSUME ThreadsCounted, NEW c \in Core, OnlyCore(c), SameLife, threadCnt' = threadCnt,
           pc[c] = "count" <=> pc'[c] = "count"
    PROVE  ThreadsCounted'
  <1>1. {t \in Thread : state'[t] # "NOTALLOC"} = {t \in Thread : state[t] # "NOTALLOC"}
    BY DEF SameLife, Tcb
  <1>2. {d \in Core : pc'[d] = "count"} = {d \in Core : pc[d] = "count"}
    BY DEF OnlyCore, Still
  <1> QED
    BY <1>1, <1>2 DEF ThreadsCounted

\* A step of c that moves no thread and changes only threads of its own.
OwnStep(c) ==
    /\ \A d \in Core \ {c} : Still(d)
    /\ UNCHANGED <<migrating, allowed, threadCnt>>
    /\ runnable'[c] = runnable[c] /\ blocked'[c] = blocked[c]
    /\ rcount'[c] = rcount[c] /\ bcount'[c] = bcount[c]
    /\ InHand(c) = {} /\ InHand(c)' = {}
    /\ pc[c] # "count" /\ pc'[c] # "count"
    /\ SameLife
    /\ \A t \in Thread : home'[t] = home[t] \/ (t \in Owned(c) /\ home'[t] = c)
    /\ \A t \in Tcb : intention'[t] = intention[t] \/ t \in Owned(c) \cup {c}
    /\ mlock' = mlock \/ (mlock' \in {c, None} /\ mlock \in {c, None})

LEMMA OwnStepKeeps ==
    ASSUME SchedulerInv, NEW c \in Core, OwnStep(c), TypeOK', ScanSound(c)', RunsSound(c)',
           SearchSound(c)', NextSound(c)', PrevSound(c)', IdleSound(c)'
    PROVE  SchedulerInv'
  <1>1. /\ TypeOK /\ MigratingSound /\ LiveIsLinked /\ ThreadsCounted
        /\ \A d \in Core : CoreSound(d) /\ CountsSound(d)
    BY DEF SchedulerInv
  <1>2. \A d \in Core : ListsSound(d) /\ ScanSound(d) /\ Owned(d) \subseteq Thread
    BY <1>1, OwnedIsThread DEF CoreSound
  <1>3. ASSUME NEW d \in Core \ {c} PROVE Spared(d)
    <2>1. \A t \in Owned(d) : t \in Thread /\ t \notin Owned(c) /\ t # c
      BY <1>2, OwnedApart, CoreAssumption
    <2>2. \A t \in Owned(d) \cup {d} : intention'[t] = intention[t]
      BY <2>1, CoreAssumption, <1>2 DEF OwnStep, Tcb
    <2>3. \A t \in Owned(d) : home'[t] = home[t] /\ allowed'[t] = allowed[t]
      BY <2>1 DEF OwnStep
    <2>4. \A t \in Owned(d) : t \notin Members(migrating')
      BY <1>2 DEF OwnStep, ListsSound
    <2>5. (mlock' = d <=> mlock = d) /\ migrating' = migrating
      BY NoneAssumption, SMT DEF OwnStep
    <2> QED
      BY <2>2, <2>3, <2>4, <2>5 DEF Spared, Grown
  <1>4. OnlyCore(c)
    BY <1>3 DEF OnlyCore, OwnStep
  <1>5. Owned(c)' = Owned(c)
    BY DEF OwnStep, Owned
  <1>6. LiveIsLinked' /\ ThreadsCounted'
    BY <1>1, <1>4, <1>5, LinkedSame, CountedSame DEF OwnStep
  <1>7. MigratingSound'
    <2> \A t \in Members(migrating) : t \in Thread /\ home'[t] = home[t]
      BY <1>1, <1>2, OwnedIsThread DEF OwnStep, ListsSound
    <2> QED
      BY <1>1 DEF MigratingSound, OwnStep
  <1>8. ListsSound(c)'
    BY <1>2, <1>5, SMT DEF ListsSound, OwnStep
  <1>9. CountsSound(c)'
    BY <1>1 DEF CountsSound, OwnStep
  <1> QED
    BY <1>4, <1>6, <1>7, <1>8, <1>9, CoresKept DEF CoreSound

-----------------------------------------------------------------------------
(* Entering schedule(). *)

\* thread_wake_up and thread_suspend only add a bit.
LEMMA AskKeeps ==
    ASSUME SchedulerInv, NEW c \in Core, NEW t \in Thread, WakeUp(c, t) \/ Suspend(c, t)
    PROVE  SchedulerInv'
  <1>1. TypeOK /\ MigratingSound /\ LiveIsLinked /\ ThreadsCounted
    BY DEF SchedulerInv
  <1>2. PICK bit \in {"READY", "BLOCKED"} :
            intention' = [intention EXCEPT ![t] = @ \cup {bit}]
    BY DEF WakeUp, Suspend
  <1>3. /\ UNCHANGED <<state, slice, allowed, home, running, threadCnt, exitSeen, finished>>
        /\ UNCHANGED <<runnable, rcount, blocked, bcount, migrating, mlock>>
        /\ UNCHANGED <<pc, scan, next, prev, reg>>
        /\ calls' \in 0 .. MaxCalls
    BY <1>1, BoundAssumption, SMT DEF WakeUp, Suspend, lists, locals, counters, TypeOK
  <1>4. TypeOK'
    <2> intention' \in [Tcb -> Intentions]
      BY <1>1, <1>2 DEF TypeOK, Tcb, Intentions
    <2> QED
      BY <1>1, <1>3 DEF TypeOK
  <1>5. ASSUME NEW d \in Core PROVE Still(d) /\ Spared(d)
    <2>1. \A u \in Tcb : Grown(u) /\ (u \in Core => intention'[u] = intention[u])
      <3>1. /\ intention'[t] = intention[t] \cup {bit}
            /\ \A u \in Tcb \ {t} : intention'[u] = intention[u]
        BY <1>1, <1>2, SMT DEF TypeOK, Tcb
      <3>2. t \notin Core /\ bit # "EXITED"
        BY <1>2, CoreAssumption
      <3> QED
        BY <3>1, <3>2, SMT DEF Grown
    <2>2. Owned(d) \subseteq Thread /\ ListsSound(d)
      BY OwnedIsThread DEF SchedulerInv, CoreSound
    <2> QED
      BY <1>3, <2>1, <2>2 DEF Still, Spared, ListsSound, Tcb
  <1>6. MigratingSound' /\ LiveIsLinked' /\ ThreadsCounted'
    BY <1>1, <1>3 DEF MigratingSound, LiveIsLinked, ThreadsCounted, Owned, InHand
  <1> QED
    BY <1>4, <1>5, <1>6, StillKept DEF SchedulerInv

\* The timer, az_sem_wait, __thread_exit and schedule_to.
Enter(c) ==
    \/ Preempt(c) \/ Exit(c)
    \/ \E left \in BOOLEAN : Block(c, left)
    \/ \E t \in Thread : ScheduleTo(c, t)

LEMMA EnterKeeps ==
    ASSUME SchedulerInv, NEW c \in Core, Enter(c)
    PROVE  SchedulerInv'
  <1>1. TypeOK /\ CoreSound(c)
    BY DEF SchedulerInv
  <1> PICK curr \in Tcb : curr = running[c]
    BY <1>1 DEF TypeOK
  <1>2. /\ pc[c] = "run" /\ pc' = [pc EXCEPT ![c] = "mark"]
        /\ UNCHANGED <<state, allowed, home, running, scan, prev, threadCnt, exitSeen, finished>>
        /\ UNCHANGED <<runnable, rcount, blocked, bcount, migrating, mlock, calls>>
    BY DEF Enter, Preempt, Exit, Block, ScheduleTo, Schedule, Goto, lists, counters
  <1>3. slice' \in [Tcb -> BOOLEAN]
    BY <1>1 DEF Enter, Preempt, Exit, Block, ScheduleTo, Schedule, TypeOK
  <1>4. PICK bits \in Intentions :
            /\ bits # {} /\ reg' = [reg EXCEPT ![c] = bits]
            /\ curr = c => bits = intention[c] \cup {"READY"}
            /\ \/ intention' = intention /\ next' = next
               \/ curr \in Thread /\ intention' = [intention EXCEPT ![curr] = {"EXITED"}]
                     /\ next' = next
               \/ /\ intention' = intention /\ bits = intention[curr] \cup {"READY"}
                  /\ \E t \in Members(runnable[c]) \ {curr} :
                        "EXITED" \notin intention[t] /\ next' = [next EXCEPT ![c] = t]
    <2>1. intention[curr] \in Intentions
      BY <1>1 DEF TypeOK
    <2>2. CASE Preempt(c)
      BY <2>1, <2>2 DEF Preempt, Schedule, Intentions
    <2>3. CASE \E left \in BOOLEAN : Block(c, left)
      BY <2>1, <2>3, CoreAssumption DEF Block, Schedule, Intentions
    <2>4. CASE Exit(c)
      BY <2>4, CoreAssumption DEF Exit, Intentions
    <2>5. CASE \E t \in Thread : ScheduleTo(c, t)
      BY <2>1, <2>5, CoreAssumption DEF ScheduleTo, Intentions
    <2> QED
      BY <2>2, <2>3, <2>4, <2>5 DEF Enter
  <1>5. /\ next[c] = None /\ InHand(c) = {} /\ InHand(c)' = {}
        /\ curr \in Members(runnable[c]) \cup {c} /\ "EXITED" \notin intention[curr]
        /\ Members(runnable[c]) \subseteq Thread /\ Members(runnable[c]) \subseteq Owned(c)
    BY <1>1, <1>2, OwnedIsThread DEF CoreSound, NextSound, RunsSound, InHand, TypeOK, Owned
  <1>6. next' \in [Core -> Tcb \cup {None}]
    BY <1>1, <1>4, <1>5 DEF TypeOK, Tcb
  <1>7. intention' \in [Tcb -> Intentions]
    <2> {"EXITED"} \in Intentions
      BY DEF Intentions
    <2> QED
      BY <1>1, <1>4 DEF TypeOK
  <1>8. TypeOK'
    BY <1>1, <1>2, <1>3, <1>4, <1>6, <1>7 DEF TypeOK
  <1>9. OwnStep(c)
    <2>1. \A d \in Core \ {c} : Still(d)
      BY <1>1, <1>2, <1>4, SMT DEF Still, TypeOK
    <2>2. \A t \in Tcb : intention'[t] = intention[t] \/ t \in Owned(c) \cup {c}
      BY <1>1, <1>4, <1>5 DEF TypeOK
    <2>3. pc'[c] = "mark"
      BY <1>1, <1>2 DEF TypeOK
    <2> QED
      BY <1>2, <1>5, <2>1, <2>2, <2>3 DEF OwnStep, SameLife
  <1>10. pc'[c] = "mark" /\ reg'[c] = bits /\ Ahead(c)' = Ahead(c) /\ Visits(c) = {}
    BY <1>1, <1>2, <1>4, <1>5, SMT DEF TypeOK, Ahead, Visits
  <1>11. ScanSound(c)' /\ RunsSound(c)' /\ SearchSound(c)'
    <2>1. ScanSound(c)'
      BY <1>1, <1>2, <1>4, <1>10, SMT DEF CoreSound, ScanSound
    <2>2. RunsSound(c)'
      BY <1>1, <1>2, <1>4, <1>5, <1>10 DEF CoreSound, RunsSound
    <2>3. SearchSound(c)'
      BY <1>10 DEF SearchSound
    <2> QED
      BY <2>1, <2>2, <2>3
  <1>12. NextSound(c)'
    <2>1. \/ next'[c] = None
          \/ /\ intention' = intention /\ bits = intention[curr] \cup {"READY"}
             /\ next'[c] \in Members(runnable[c]) \ {curr} /\ "EXITED" \notin intention[next'[c]]
      BY <1>1, <1>4, <1>5 DEF TypeOK
    <2>2. Ahead(c)' = {}
      BY <1>1, <1>10 DEF CoreSound, ScanSound
    <2> QED
      BY <1>2, <1>5, <1>10, <2>1, <2>2, SMT DEF NextSound
  <1>13. PrevSound(c)' /\ IdleSound(c)'
    <2> intention'[c] = intention[c]
      BY <1>1, <1>4, CoreAssumption, SMT DEF TypeOK, Tcb
    <2> QED
      BY <1>1, <1>2, <1>4, <1>10 DEF CoreSound, PrevSound, IdleSound
  <1> QED
    BY <1>8, <1>9, <1>11, <1>12, <1>13, OwnStepKeeps

-----------------------------------------------------------------------------
(* The store of the intention, and the search. *)

LEMMA MarkKeeps ==
    ASSUME SchedulerInv, NEW c \in Core, Mark(c)
    PROVE  SchedulerInv'
  <1>1. TypeOK /\ CoreSound(c)
    BY DEF SchedulerInv
  <1> PICK curr \in Tcb : curr = running[c]
    BY <1>1 DEF TypeOK
  <1> PICK bits \in Intentions : bits = reg[c]
    BY <1>1 DEF TypeOK
  <1>2. /\ pc[c] = "mark" /\ next[c] = None /\ pc' = [pc EXCEPT ![c] = "select"]
        /\ intention' = [intention EXCEPT ![curr] = bits]
        /\ scan' = [scan EXCEPT ![c] = runnable[c]] /\ reg' = [reg EXCEPT ![c] = {}]
        /\ UNCHANGED <<state, slice, allowed, home, running, next, prev, threadCnt, exitSeen,
                       finished, calls, runnable, rcount, blocked, bcount, migrating, mlock>>
    BY DEF Mark, Goto, lists, counters
  <1>3. TypeOK'
    <2> {} \in Intentions /\ runnable[c] \in Seq(Thread)
      BY <1>1 DEF Intentions, TypeOK
    <2> QED
      BY <1>1, <1>2 DEF TypeOK
  <1>4. /\ pc'[c] = "select" /\ scan'[c] = runnable[c] /\ reg'[c] = {}
        /\ intention'[curr] = bits /\ InHand(c) = {} /\ InHand(c)' = {}
    BY <1>1, <1>2 DEF TypeOK, InHand
  <1>5. /\ curr \in Members(runnable[c]) \cup {c} /\ curr \in Thread \cup {c} /\ bits # {}
        /\ curr = c => bits \subseteq {"READY"}
        /\ curr # c => intention'[c] = intention[c]
    BY <1>1, <1>2 DEF CoreSound, RunsSound, IdleSound, TypeOK, Tcb
  <1>6. OwnStep(c)
    <2>1. \A d \in Core \ {c} : Still(d)
      BY <1>1, <1>2 DEF Still, TypeOK
    <2>2. \A t \in Tcb : intention'[t] = intention[t] \/ t \in Owned(c) \cup {c}
      BY <1>1, <1>2, <1>5 DEF TypeOK, Owned
    <2> QED
      BY <1>2, <1>4, <2>1, <2>2 DEF OwnStep, SameLife
  <1>7. ScanSound(c)'
    BY <1>1, <1>2, <1>4 DEF CoreSound, ScanSound, ListsSound, Ahead, Visits
  <1>8. RunsSound(c)'
    BY <1>2, <1>4, <1>5, CoreAssumption DEF RunsSound, Owned
  <1>9. SearchSound(c)'
    <2> Ahead(c)' = Members(runnable[c])
      BY <1>4 DEF Ahead
    <2> QED
      BY <1>2, <1>4, <1>5, SMT DEF SearchSound, Intentions
  <1>10. NextSound(c)' /\ PrevSound(c)' /\ IdleSound(c)'
    BY <1>1, <1>2, <1>4, <1>5 DEF NextSound, PrevSound, CoreSound, IdleSound
  <1> QED
    BY <1>3, <1>6, <1>7, <1>8, <1>9, <1>10, OwnStepKeeps

LEMMA MarkToKeeps ==
    ASSUME SchedulerInv, NEW c \in Core, MarkTo(c)
    PROVE  SchedulerInv'
  <1>1. TypeOK /\ CoreSound(c)
    BY DEF SchedulerInv
  <1> PICK curr \in Tcb : curr = running[c]
    BY <1>1 DEF TypeOK
  <1> PICK bits \in Intentions : bits = reg[c]
    BY <1>1 DEF TypeOK
  <1>2. next[c] # None /\ pc[c] = "mark"
    BY DEF MarkTo, Goto
  <1> PICK n \in Thread : n = next[c]
    BY <1>1, <1>2, OwnedIsThread DEF CoreSound, NextSound
  <1>3. /\ pc' = [pc EXCEPT ![c] = "post"]
        /\ intention' = [intention EXCEPT ![curr] = bits] /\ reg' = [reg EXCEPT ![c] = {}]
        /\ state' = [state EXCEPT ![n] = "RUNNING"] /\ running' = [running EXCEPT ![c] = n]
        /\ prev' = [prev EXCEPT ![c] = curr] /\ slice' = [slice EXCEPT ![n] = TRUE]
        /\ home' = [home EXCEPT ![n] = c] /\ next' = [next EXCEPT ![c] = None]
        /\ UNCHANGED <<allowed, scan, threadCnt, exitSeen, finished, calls,
                       runnable, rcount, blocked, bcount, migrating, mlock>>
    BY DEF MarkTo, SwitchTo, Goto, lists, counters
  <1>4. TypeOK'
    <2> {} \in Intentions /\ n \in Tcb /\ "RUNNING" \in States
      BY DEF Intentions, Tcb, States
    <2> QED
      BY <1>1, <1>3 DEF TypeOK
  <1>5. /\ pc'[c] = "post" /\ running'[c] = n /\ prev'[c] = curr /\ next'[c] = None
        /\ intention'[curr] = bits /\ InHand(c) = {} /\ InHand(c)' = {}
    BY <1>1, <1>2, <1>3 DEF TypeOK, InHand
  <1>6. /\ curr \in Members(runnable[c]) \cup {c} /\ n \in Members(runnable[c]) /\ curr # n
        /\ "READY" \in bits /\ "EXITED" \notin bits /\ "EXITED" \notin intention[n]
        /\ curr = c => bits \subseteq {"READY"}
        /\ intention'[n] = intention[n]
    BY <1>1, <1>2, <1>3 DEF CoreSound, RunsSound, NextSound, IdleSound, TypeOK, Tcb
  <1>7. curr # c => intention'[c] = intention[c]
    BY <1>1, <1>3 DEF TypeOK, Tcb
  <1>8. OwnStep(c)
    <2>1. \A d \in Core \ {c} : Still(d)
      BY <1>1, <1>3 DEF Still, TypeOK
    <2>2. \A t \in Tcb : intention'[t] = intention[t] \/ t \in Owned(c) \cup {c}
      BY <1>1, <1>3, <1>6 DEF TypeOK, Owned
    <2>3. \A t \in Thread : home'[t] = home[t] \/ (t \in Owned(c) /\ home'[t] = c)
      BY <1>1, <1>3, <1>6 DEF TypeOK, Owned, Tcb
    <2>4. SameLife
      <3> state[n] # "NOTALLOC"
        BY <1>6 DEF SchedulerInv, LiveIsLinked, Owned
      <3> QED
        BY <1>1, <1>3 DEF TypeOK, SameLife
    <2> QED
      BY <1>2, <1>3, <1>5, <2>1, <2>2, <2>3, <2>4 DEF OwnStep
  <1>9. ScanSound(c)'
    BY <1>1, <1>2, <1>3, <1>5 DEF CoreSound, ScanSound, Ahead, Visits
  <1>10. RunsSound(c)' /\ SearchSound(c)' /\ NextSound(c)'
    BY <1>3, <1>5, <1>6 DEF RunsSound, SearchSound, NextSound
  <1>11. PrevSound(c)' /\ IdleSound(c)'
    BY <1>1, <1>3, <1>5, <1>6, <1>7 DEF PrevSound, CoreSound, IdleSound
  <1> QED
    BY <1>4, <1>8, <1>9, <1>10, <1>11, OwnStepKeeps

\* The end of the search: a switch to thread t.
Leave(c, t) ==
    /\ pc[c] = "select" /\ pc' = [pc EXCEPT ![c] = "post"]
    /\ scan' = [scan EXCEPT ![c] = <<>>]
    /\ SwitchTo(c, t)
    /\ UNCHANGED <<state, intention, allowed, lists, reg, counters>>

LEMMA LeaveKeeps ==
    ASSUME SchedulerInv, NEW c \in Core, NEW t \in Members(runnable[c]) \cup {c}, Leave(c, t),
           "EXITED" \notin intention[t],
           running[c] = t => "READY" \in intention[t],
           "EXITED" \in intention[running[c]] => running[c] \in Members(runnable[c])
    PROVE  SchedulerInv'
  <1>1. TypeOK /\ CoreSound(c)
    BY DEF SchedulerInv
  <1> PICK curr \in Tcb : curr = running[c]
    BY <1>1 DEF TypeOK
  <1>2. /\ pc[c] = "select" /\ pc' = [pc EXCEPT ![c] = "post"]
        /\ scan' = [scan EXCEPT ![c] = <<>>] /\ running' = [running EXCEPT ![c] = t]
        /\ prev' = [prev EXCEPT ![c] = curr] /\ slice' = [slice EXCEPT ![t] = TRUE]
        /\ home' = [home EXCEPT ![t] = c] /\ next' = [next EXCEPT ![c] = None]
        /\ UNCHANGED <<state, intention, allowed, reg, threadCnt, exitSeen, finished, calls,
                       runnable, rcount, blocked, bcount, migrating, mlock>>
    BY DEF Leave, SwitchTo, lists, counters
  <1>3. t \in Thread \cup {c} /\ t \in Tcb
    BY <1>1, OwnedIsThread DEF CoreSound, Tcb
  <1>4. TypeOK'
    <2> <<>> \in Seq(Thread)
      BY SMT
    <2> QED
      BY <1>1, <1>2, <1>3 DEF TypeOK
  <1>5. /\ pc'[c] = "post" /\ scan'[c] = <<>> /\ running'[c] = t /\ prev'[c] = curr
        /\ next'[c] = None /\ InHand(c) = {} /\ InHand(c)' = {}
    BY <1>1, <1>2 DEF TypeOK, InHand
  <1>6. curr \in Members(runnable[c]) \cup Members(blocked[c]) \cup {c}
    BY <1>1, <1>2, <1>5 DEF CoreSound, RunsSound, Owned
  <1>7. OwnStep(c)
    <2>1. \A d \in Core \ {c} : Still(d)
      BY <1>1, <1>2 DEF Still, TypeOK
    <2>2. \A u \in Thread : home'[u] = home[u] \/ (u \in Owned(c) /\ home'[u] = c)
      BY <1>1, <1>2, <1>3, CoreAssumption, SMT DEF TypeOK, Owned, Tcb
    <2> QED
      BY <1>2, <1>5, <2>1, <2>2 DEF OwnStep, SameLife
  <1>8. ScanSound(c)'
    BY <1>1, <1>2, <1>5, SMT DEF CoreSound, ScanSound, Ahead, Visits, Members, NoRepeat
  <1>9. RunsSound(c)' /\ SearchSound(c)' /\ NextSound(c)'
    BY <1>2, <1>3, <1>5, CoreAssumption DEF RunsSound, SearchSound, NextSound
  <1>10. PrevSound(c)' /\ IdleSound(c)'
    BY <1>1, <1>2, <1>5, <1>6 DEF PrevSound, CoreSound, IdleSound
  <1> QED
    BY <1>4, <1>7, <1>8, <1>9, <1>10, OwnStepKeeps

LEMMA SelectExitCurrentKeeps ==
    ASSUME SchedulerInv, NEW c \in Core, SelectExitCurrent(c)
    PROVE  SchedulerInv'
  <1>1. TypeOK /\ CoreSound(c) /\ pc[c] = "select" /\ "EXITED" \in intention[running[c]]
    BY DEF SchedulerInv, SelectExitCurrent, Visiting
  <1>2. running[c] \in Members(runnable[c]) /\ running[c] # c
    BY <1>1, OwnedIsThread, CoreAssumption
    DEF CoreSound, SearchSound, ScanSound, Visits
  <1>3. "EXITED" \notin intention[c]
    BY <1>1 DEF CoreSound, IdleSound
  <1>4. Leave(c, c)
    BY DEF SelectExitCurrent, Leave, Visiting, Idle
  <1> QED
    BY <1>2, <1>3, <1>4, LeaveKeeps

LEMMA SelectDoneIs ==
    ASSUME SchedulerInv, NEW c \in Core, SelectDone(c)
    PROVE  \E t \in Members(runnable[c]) \cup {c} :
               /\ Leave(c, t) /\ "EXITED" \notin intention[t]
               /\ running[c] = t => "READY" \in intention[t]
               /\ "EXITED" \notin intention[running[c]]
  <1>1. /\ TypeOK /\ CoreSound(c) /\ CountsSound(c) /\ pc[c] = "select" /\ scan[c] = <<>>
    BY DEF SchedulerInv, SelectDone, Goto
  <1>2. Ahead(c) = {}
    BY <1>1, SMT DEF Ahead, Members
  <1>3. /\ running[c] \in Members(runnable[c]) \cup {c} => "READY" \in intention[running[c]]
        /\ "EXITED" \notin intention[running[c]]
        /\ \A t \in Members(runnable[c]) \cup {c} : "EXITED" \notin intention[t]
    BY <1>1, <1>2, SMT DEF CoreSound, SearchSound, IdleSound
  <1>4. rcount[c] = 1 => Head(runnable[c]) \in Members(runnable[c])
    <2> runnable[c] \in Seq(Thread) /\ rcount[c] <= Len(runnable[c])
      BY <1>1 DEF TypeOK, CountsSound
    <2> rcount[c] = 1 => runnable[c] # <<>>
      BY SMT
    <2> QED
      BY <1>1, HeadTaken DEF CoreSound, ListsSound
  <1>5. PICK t \in Members(runnable[c]) \cup {c} : SwitchTo(c, t)
    BY <1>1, <1>4 DEF SelectDone, Idle, CoreSound, NextSound
  <1>6. Leave(c, t)
    <2> [scan EXCEPT ![c] = <<>>] = scan
      BY <1>1 DEF TypeOK
    <2> QED
      BY <1>5 DEF SelectDone, Leave, Goto
  <1> QED
    BY <1>3, <1>5, <1>6

LEMMA SelectDoneKeeps ==
    ASSUME SchedulerInv, NEW c \in Core, SelectDone(c)
    PROVE  SchedulerInv'
  BY SelectDoneIs, LeaveKeeps

\* A thread that is passed over or found in the search.
LEMMA SelectPassKeeps ==
    ASSUME SchedulerInv, NEW c \in Core, SelectTake(c) \/ SelectSkip(c)
    PROVE  SchedulerInv'
  <1>1. TypeOK /\ CoreSound(c) /\ pc[c] = "select" /\ scan[c] # <<>>
    BY DEF SchedulerInv, SelectTake, SelectSkip, Visiting
  <1> PICK curr \in Tcb : curr = running[c]
    BY <1>1 DEF TypeOK
  <1>2. InHand(c) = {} /\ Ahead(c) = Members(scan[c]) /\ Ahead(c) \subseteq Members(runnable[c])
    BY <1>1 DEF InHand, Ahead, CoreSound, ScanSound, Visits
  <1>3. /\ Head(scan[c]) \in Thread /\ Tail(scan[c]) \in Seq(Thread)
        /\ NoRepeat(Tail(scan[c])) /\ Head(scan[c]) \in Members(scan[c])
        /\ Members(Tail(scan[c])) = Members(scan[c]) \ {Head(scan[c])}
    BY <1>1, HeadTaken DEF CoreSound, ScanSound, TypeOK
  <1> PICK t \in Thread : t = Head(scan[c])
    BY <1>3
  <1>4. /\ scan' = [scan EXCEPT ![c] = Tail(scan[c])]
        /\ intention[t] \cap {"EXITED", "BLOCKED"} = {}
        /\ \/ state' = state /\ next' = next
           \/ state' = [state EXCEPT ![t] = "RUNNING"] /\ next' = [next EXCEPT ![c] = t]
        /\ UNCHANGED <<intention, slice, allowed, home, running, pc, prev, reg, threadCnt,
                       exitSeen, finished, calls, runnable, rcount, blocked, bcount,
                       migrating, mlock>>
    BY DEF SelectTake, SelectSkip, Visited, fields, lists, counters
  <1>5. TypeOK'
    <2>1. "RUNNING" \in States /\ t \in Tcb
      BY DEF States, Tcb
    <2>2. state' \in [Tcb -> States] /\ next' \in [Core -> Tcb \cup {None}]
      <3>1. [state EXCEPT ![t] = "RUNNING"] \in [Tcb -> States]
        BY <1>1, <2>1 DEF TypeOK
      <3>2. [next EXCEPT ![c] = t] \in [Core -> Tcb \cup {None}]
        BY <1>1, <2>1 DEF TypeOK
      <3> QED
        BY <1>1, <1>4, <3>1, <3>2 DEF TypeOK
    <2> QED
      BY <1>1, <1>3, <1>4, <2>2 DEF TypeOK
  <1>6. /\ pc'[c] = "select" /\ InHand(c)' = {} /\ scan'[c] = Tail(scan[c])
        /\ Ahead(c)' = Ahead(c) \ {t} /\ t \in Ahead(c)
        /\ next'[c] \in {next[c], t}
    BY <1>1, <1>2, <1>3, <1>4 DEF TypeOK, InHand, Ahead
  <1>7. OwnStep(c)
    <2>1. \A d \in Core \ {c} : Still(d)
      BY <1>1, <1>4 DEF Still, TypeOK
    <2>2. SameLife
      <3> state[t] # "NOTALLOC"
        BY <1>2, <1>6 DEF SchedulerInv, LiveIsLinked, Owned
      <3> QED
        BY <1>1, <1>4 DEF TypeOK, SameLife
    <2> QED
      BY <1>1, <1>2, <1>4, <1>6, <2>1, <2>2 DEF OwnStep
  <1>8. ScanSound(c)'
    BY <1>1, <1>2, <1>3, <1>4, <1>6 DEF CoreSound, ScanSound, Visits
  <1>9. RunsSound(c)'
    BY <1>1, <1>2, <1>4, <1>6 DEF CoreSound, RunsSound, Owned
  <1>10. SearchSound(c)'
    BY <1>1, <1>4, <1>6 DEF CoreSound, SearchSound
  <1>11. NextSound(c)'
    BY <1>1, <1>2, <1>4, <1>6 DEF CoreSound, NextSound
  <1>12. PrevSound(c)' /\ IdleSound(c)'
    BY <1>1, <1>4, <1>6 DEF CoreSound, PrevSound, IdleSound
  <1> QED
    BY <1>5, <1>7, <1>8, <1>9, <1>10, <1>11, <1>12, OwnStepKeeps

LEMMA SelectRefillKeeps ==
    ASSUME SchedulerInv, NEW c \in Core, SelectRefill(c)
    PROVE  SchedulerInv'
  <1>1. /\ TypeOK /\ CoreSound(c) /\ pc[c] = "select" /\ scan[c] = <<>> /\ next[c] = None
        /\ slice' = [t \in Tcb |-> slice[t] \/ t \in OutOfSlice(c)]
        /\ scan' = [scan EXCEPT ![c] = runnable[c]]
        /\ UNCHANGED <<state, intention, allowed, home, running, pc, next, prev, reg,
                       threadCnt, exitSeen, finished, calls, runnable, rcount, blocked,
                       bcount, migrating, mlock>>
    BY DEF SchedulerInv, SelectRefill, lists, counters
  <1>2. TypeOK'
    <2> runnable[c] \in Seq(Thread) /\ slice' \in [Tcb -> BOOLEAN]
      BY <1>1 DEF TypeOK
    <2> QED
      BY <1>1 DEF TypeOK
  <1>3. /\ pc'[c] = "select" /\ InHand(c) = {} /\ InHand(c)' = {} /\ scan'[c] = runnable[c]
        /\ Ahead(c) = {} /\ Ahead(c)' = Members(runnable[c])
    BY <1>1, SMT DEF TypeOK, InHand, Ahead, Members
  <1>4. OwnStep(c)
    <2>1. \A d \in Core \ {c} : Still(d)
      BY <1>1 DEF Still, TypeOK
    <2> QED
      BY <1>1, <1>3, <2>1 DEF OwnStep, SameLife
  <1>5. ScanSound(c)'
    BY <1>1, <1>3 DEF CoreSound, ScanSound, ListsSound, Visits
  <1>6. RunsSound(c)' /\ SearchSound(c)' /\ NextSound(c)'
    BY <1>1, <1>3 DEF CoreSound, RunsSound, Owned, SearchSound, NextSound
  <1>7. PrevSound(c)' /\ IdleSound(c)'
    BY <1>1, <1>3 DEF CoreSound, PrevSound, IdleSound
  <1> QED
    BY <1>2, <1>4, <1>5, <1>6, <1>7, OwnStepKeeps

-----------------------------------------------------------------------------
(* After the switch. *)

LEMMA PostReadyKeeps ==
    ASSUME SchedulerInv, NEW c \in Core, PostReady(c)
    PROVE  SchedulerInv'
  <1>1. /\ TypeOK /\ CoreSound(c) /\ LiveIsLinked /\ pc[c] = "post"
        /\ InHand(c) = {} /\ next[c] = None
    BY DEF SchedulerInv, PostReady, Goto, InHand, CoreSound, NextSound
  <1>2. prev[c] \in Members(runnable[c]) \cup Members(blocked[c]) \cup {c}
    BY <1>1 DEF CoreSound, PrevSound
  <1> PICK p \in Tcb : p = prev[c]
    BY <1>1, <1>2, OwnedIsThread DEF CoreSound, Tcb
  <1>3. state[p] # "NOTALLOC"
    BY <1>1, <1>2, OwnedIsThread DEF CoreSound, LiveIsLinked, Owned, Idle
  <1>4. PICK bits \in Intentions : bits = intention[p] \ {"READY", "BLOCKED"}
    BY <1>1 DEF TypeOK, Intentions
  <1>5. /\ pc' = [pc EXCEPT ![c] = "postset"] /\ state' = [state EXCEPT ![p] = "READY"]
        /\ reg' = [reg EXCEPT ![c] = bits]
        /\ UNCHANGED <<intention, slice, allowed, home, running, scan, next, prev, threadCnt,
                       exitSeen, finished, calls, runnable, rcount, blocked, bcount,
                       migrating, mlock>>
    BY <1>4 DEF PostReady, Goto, lists, counters
  <1>6. TypeOK'
    <2> "READY" \in States
      BY DEF States
    <2> QED
      BY <1>1, <1>5 DEF TypeOK
  <1>7. pc'[c] = "postset" /\ reg'[c] = bits /\ InHand(c)' = {} /\ Ahead(c)' = Ahead(c)
    BY <1>1, <1>5 DEF TypeOK, InHand, Ahead
  <1>8. OwnStep(c)
    <2>1. \A d \in Core \ {c} : Still(d)
      BY <1>1, <1>5 DEF Still, TypeOK
    <2>2. SameLife
      BY <1>1, <1>3, <1>5 DEF TypeOK, SameLife
    <2> QED
      BY <1>1, <1>5, <1>7, <2>1, <2>2 DEF OwnStep
  <1>9. ScanSound(c)'
    BY <1>1, <1>5, <1>7 DEF CoreSound, ScanSound, Visits
  <1>10. RunsSound(c)' /\ SearchSound(c)' /\ NextSound(c)'
    BY <1>1, <1>5, <1>7 DEF CoreSound, RunsSound, SearchSound, NextSound
  <1>11. PrevSound(c)'
    BY <1>1, <1>2, <1>4, <1>5, <1>7 DEF CoreSound, PrevSound, RunsSound
  <1>12. IdleSound(c)'
    BY <1>1, <1>4, <1>5, <1>7 DEF CoreSound, IdleSound
  <1> QED
    BY <1>6, <1>8, <1>9, <1>10, <1>11, <1>12, OwnStepKeeps

\* A core writes back the intention of a thread t of its own, and goes on: PostSet
\* for the thread that was running, Own for the one that still is.
Store(c, t, to) ==
    /\ pc' = [pc EXCEPT ![c] = to]
    /\ intention' = [intention EXCEPT ![t] = reg[c]]
    /\ reg' = [reg EXCEPT ![c] = {}]
    /\ UNCHANGED <<state, slice, allowed, home, lists, running, scan, next, prev, counters>>

LEMMA StoreKeeps ==
    ASSUME SchedulerInv, NEW c \in Core,
           NEW t \in Members(runnable[c]) \cup Members(blocked[c]) \cup {c},
           NEW to \in {"pull", "run"}, Store(c, t, to), pc[c] \in {"postset", "own"},
           t = running[c] => "EXITED" \notin reg[c],
           t = c => reg[c] \subseteq {"READY"}
    PROVE  SchedulerInv'
  <1>1. TypeOK /\ CoreSound(c) /\ InHand(c) = {} /\ next[c] = None
    BY DEF SchedulerInv, InHand, CoreSound, NextSound
  <1> PICK bits \in Intentions : bits = reg[c]
    BY <1>1 DEF TypeOK
  <1> PICK curr \in Tcb : curr = running[c]
    BY <1>1 DEF TypeOK
  <1>2. t \in Tcb
    BY <1>1, OwnedIsThread DEF CoreSound, Tcb
  <1>3. /\ pc' = [pc EXCEPT ![c] = to] /\ intention' = [intention EXCEPT ![t] = bits]
        /\ reg' = [reg EXCEPT ![c] = {}]
        /\ UNCHANGED <<state, slice, allowed, home, running, scan, next, prev, threadCnt,
                       exitSeen, finished, calls, runnable, rcount, blocked, bcount,
                       migrating, mlock>>
    BY DEF Store, lists, counters
  <1>4. TypeOK'
    <2> {} \in Intentions /\ \A x \in {"pull", "run"} :
            x \in {"run", "count", "mark", "select", "park", "post", "postset",
                   "pull", "pulling", "seeking", "wake", "wakeset", "own"}
      BY DEF Intentions
    <2> QED
      BY <1>1, <1>2, <1>3 DEF TypeOK
  <1>5. /\ pc'[c] = to /\ reg'[c] = {} /\ InHand(c)' = {} /\ Ahead(c)' = Ahead(c)
        /\ Visits(c) = {} /\ c \in Tcb
    BY <1>1, <1>3 DEF TypeOK, InHand, Ahead, Visits, Tcb
  <1>6. OwnStep(c)
    <2>1. \A d \in Core \ {c} : Still(d)
      BY <1>1, <1>3 DEF Still, TypeOK
    <2>2. \A u \in Tcb : intention'[u] = intention[u] \/ u \in Owned(c) \cup {c}
      BY <1>1, <1>3 DEF TypeOK, Owned
    <2> QED
      BY <1>1, <1>3, <1>5, <2>1, <2>2 DEF OwnStep, SameLife
  <1>7. ScanSound(c)'
    BY <1>1, <1>3, <1>5 DEF CoreSound, ScanSound
  <1>8. /\ "EXITED" \notin intention'[curr]
        /\ intention'[c] \subseteq {"READY"}
    BY <1>1, <1>2, <1>3, <1>5 DEF CoreSound, RunsSound, IdleSound, TypeOK
  <1>9. RunsSound(c)' /\ SearchSound(c)' /\ NextSound(c)'
    BY <1>1, <1>3, <1>5, <1>8 DEF CoreSound, RunsSound, SearchSound, NextSound
  <1>10. PrevSound(c)' /\ IdleSound(c)'
    BY <1>5, <1>8 DEF PrevSound, IdleSound
  <1> QED
    BY <1>4, <1>6, <1>7, <1>9, <1>10, OwnStepKeeps

LEMMA PostSetKeeps ==
    ASSUME SchedulerInv, NEW c \in Core, PostSet(c)
    PROVE  SchedulerInv'
  <1>1. CoreSound(c) /\ pc[c] = "postset" /\ Store(c, prev[c], "pull")
    BY DEF SchedulerInv, PostSet, Goto, Store
  <1> QED
    BY <1>1, StoreKeeps DEF CoreSound, PrevSound, IdleSound

LEMMA OwnKeeps ==
    ASSUME SchedulerInv, NEW c \in Core, Own(c)
    PROVE  SchedulerInv'
  <1>1. CoreSound(c) /\ pc[c] = "own" /\ Store(c, running[c], "run")
    BY DEF SchedulerInv, Own, Goto, Store
  <1> QED
    BY <1>1, StoreKeeps DEF CoreSound, RunsSound, IdleSound

LEMMA FinishKeeps ==
    ASSUME SchedulerInv, NEW c \in Core, Finish(c)
    PROVE  SchedulerInv'
  <1>1. /\ TypeOK /\ CoreSound(c) /\ LiveIsLinked /\ pc[c] = "wake" /\ scan[c] = <<>>
        /\ InHand(c) = {} /\ next[c] = None
    BY DEF SchedulerInv, Finish, Goto, InHand, CoreSound, NextSound
  <1> PICK curr \in Tcb : curr = running[c]
    BY <1>1 DEF TypeOK
  <1>2. /\ curr \in Members(runnable[c]) \cup {c} /\ "EXITED" \notin intention[curr]
        /\ state[curr] # "NOTALLOC"
    BY <1>1, OwnedIsThread DEF CoreSound, RunsSound, LiveIsLinked, Owned, Idle
  <1>3. PICK bits \in Intentions : bits = intention[curr] \ {"READY"}
    BY <1>1 DEF TypeOK, Intentions
  <1>4. PICK to \in {"own", "run"} :
           /\ pc' = [pc EXCEPT ![c] = to] /\ prev' = [prev EXCEPT ![c] = None]
           /\ \/ state' = state
              \/ state' = [state EXCEPT ![curr] = "RUNNING"]
           /\ \/ reg' = reg /\ to = "run"
              \/ reg' = [reg EXCEPT ![c] = bits]
           /\ UNCHANGED <<intention, slice, allowed, home, running, scan, next, threadCnt,
                          exitSeen, finished, calls, runnable, rcount, blocked, bcount,
                          migrating, mlock>>
    BY <1>3 DEF Finish, Goto, lists, counters
  <1>5. TypeOK'
    <2>1. [state EXCEPT ![curr] = "RUNNING"] \in [Tcb -> States]
      BY <1>1 DEF TypeOK, States
    <2>2. [reg EXCEPT ![c] = bits] \in [Core -> Intentions]
      BY <1>1 DEF TypeOK
    <2>3. \A x \in {"own", "run"} :
            x \in {"run", "count", "mark", "select", "park", "post", "postset",
                   "pull", "pulling", "seeking", "wake", "wakeset", "own"}
      OBVIOUS
    <2>4. state' \in [Tcb -> States] /\ reg' \in [Core -> Intentions]
      BY <1>1, <1>4, <2>1, <2>2 DEF TypeOK
    <2> QED
      BY <1>1, <1>4, <2>3, <2>4 DEF TypeOK
  <1>6. /\ pc'[c] = to /\ to = "own" => reg'[c] = bits
        /\ InHand(c)' = {} /\ Ahead(c)' = {}
    BY <1>1, <1>4, SMT DEF TypeOK, InHand, Ahead, Members
  <1>7. OwnStep(c)
    <2>1. \A d \in Core \ {c} : Still(d)
      BY <1>1, <1>4, SMT DEF Still, TypeOK
    <2>2. SameLife
      BY <1>1, <1>2, <1>4 DEF TypeOK, SameLife
    <2> QED
      BY <1>1, <1>4, <1>6, <2>1, <2>2, SMT DEF OwnStep
  <1>8. ScanSound(c)'
    BY <1>1, <1>4, <1>6, SMT DEF CoreSound, ScanSound
  <1>9. RunsSound(c)' /\ SearchSound(c)' /\ NextSound(c)'
    <2>1. RunsSound(c)'
      BY <1>1, <1>2, <1>3, <1>4, <1>6, SMT DEF CoreSound, RunsSound
    <2>2. SearchSound(c)' /\ NextSound(c)'
      BY <1>1, <1>3, <1>4, <1>6, SMT DEF CoreSound, SearchSound, NextSound
    <2> QED
      BY <2>1, <2>2
  <1>10. PrevSound(c)' /\ IdleSound(c)'
    BY <1>1, <1>3, <1>4, <1>6, SMT DEF CoreSound, PrevSound, IdleSound
  <1> QED
    BY <1>5, <1>7, <1>8, <1>9, <1>10, OwnStepKeeps

\* A core begins to go through a list, or leaves an entry of it alone, or goes on
\* without one: nothing but the place of the core changes.
Travel(c, to, list) ==
    /\ pc' = [pc EXCEPT ![c] = to]
    /\ scan' = [scan EXCEPT ![c] = list]
    /\ UNCHANGED <<fields, runnable, rcount, blocked, bcount, migrating, running, next, prev,
                   reg, counters>>

LEMMA TravelKeeps ==
    ASSUME SchedulerInv, NEW c \in Core, NEW to \in {"pull", "pulling", "seeking", "wake"},
           NEW list \in Seq(Thread), Travel(c, to, list), NoRepeat(list),
           pc[c] \in {"post", "pull", "pulling", "seeking", "wake"},
           Members(list) \subseteq IF to \in {"pulling", "seeking"} THEN Members(migrating)
                                   ELSE IF to = "wake" THEN Members(blocked[c]) ELSE {},
           mlock' = IF to \in {"pulling", "seeking"} THEN c
                    ELSE IF mlock = c THEN None ELSE mlock,
           to \in {"pulling", "seeking"} => mlock \in {c, None}
    PROVE  SchedulerInv'
  <1>1. TypeOK /\ CoreSound(c) /\ InHand(c) = {} /\ next[c] = None
    BY DEF SchedulerInv, InHand, CoreSound, NextSound
  <1>2. /\ pc' = [pc EXCEPT ![c] = to] /\ scan' = [scan EXCEPT ![c] = list]
        /\ UNCHANGED <<state, intention, slice, allowed, home, running, next, prev, reg,
                       threadCnt, exitSeen, finished, calls, runnable, rcount, blocked, bcount,
                       migrating>>
    BY DEF Travel, fields, counters
  <1>3. TypeOK'
    <2>1. \A x \in {"pull", "pulling", "seeking", "wake"} :
            x \in {"run", "count", "mark", "select", "park", "post", "postset",
                   "pull", "pulling", "seeking", "wake", "wakeset", "own"}
      OBVIOUS
    <2>2. mlock' \in Core \cup {None}
      BY <1>1 DEF TypeOK
    <2> QED
      BY <1>1, <1>2, <2>1, <2>2 DEF TypeOK
  <1>4. /\ pc'[c] = to /\ scan'[c] = list /\ InHand(c)' = {} /\ Ahead(c)' = Members(list)
        /\ Members(list) \subseteq Visits(c)'
    BY <1>1, <1>2 DEF TypeOK, InHand, Ahead, Visits
  <1>5. OwnStep(c)
    <2>1. \A d \in Core \ {c} : Still(d)
      BY <1>1, <1>2 DEF Still, TypeOK
    <2> QED
      BY <1>1, <1>2, <1>4, <2>1 DEF OwnStep, SameLife
  <1>6. ScanSound(c)'
    BY <1>2, <1>4, NoneAssumption DEF ScanSound
  <1>7. RunsSound(c)' /\ SearchSound(c)' /\ NextSound(c)'
    BY <1>1, <1>2, <1>4 DEF CoreSound, RunsSound, SearchSound, NextSound
  <1>8. PrevSound(c)' /\ IdleSound(c)'
    BY <1>1, <1>2, <1>4 DEF CoreSound, PrevSound, IdleSound
  <1> QED
    BY <1>3, <1>5, <1>6, <1>7, <1>8, OwnStepKeeps

LEMMA TravelsKeep ==
    ASSUME SchedulerInv, NEW c \in Core,
           \/ PostNothing(c) \/ PullLock(c) \/ PullSkip(c) \/ PullPass(c) \/ PullMore(c)
           \/ SeekPass(c) \/ SeekNone(c) \/ WakeSkip(c)
    PROVE  SchedulerInv'
  <1>1. /\ scan[c] \in Seq(Thread) /\ NoRepeat(scan[c])
        /\ blocked[c] \in Seq(Thread) /\ NoRepeat(blocked[c])
        /\ migrating \in Seq(Thread) /\ NoRepeat(migrating)
        /\ scan \in [Core -> Seq(Thread)] /\ pc \in [Core -> {pc[d] : d \in Core}]
    BY SMT DEF SchedulerInv, TypeOK, CoreSound, ScanSound, ListsSound, MigratingSound
  <1>2. /\ mlock = c <=> pc[c] \in {"pulling", "seeking"}
        /\ pc[c] \notin {"park", "wakeset"} => Members(scan[c]) \subseteq Visits(c)
        /\ mlock \in Core \cup {None}
    BY DEF SchedulerInv, TypeOK, CoreSound, ScanSound, Ahead, InHand
  <1>3. scan[c] # <<>> => /\ Tail(scan[c]) \in Seq(Thread) /\ NoRepeat(Tail(scan[c]))
                          /\ Members(Tail(scan[c])) \subseteq Members(scan[c])
    BY <1>1, HeadTaken
  <1>4. CASE PostNothing(c)
    <2>1. pc[c] = "post" /\ Travel(c, "pull", scan[c]) /\ mlock' = mlock
      BY <1>1, <1>4 DEF PostNothing, Goto, Travel, lists
    <2> QED
      BY <1>1, <1>2, <2>1, TravelKeeps DEF Visits
  <1>5. CASE PullLock(c)
    <2>1. /\ pc[c] = "pull" /\ Travel(c, "pulling", migrating) /\ mlock = None /\ mlock' = c
      BY <1>5 DEF PullLock, Goto, Travel
    <2> QED
      BY <1>1, <2>1, TravelKeeps
  <1>6. CASE PullSkip(c)
    <2>1. /\ pc[c] = "pull" /\ Travel(c, "wake", blocked[c]) /\ mlock' = mlock
      BY <1>6 DEF PullSkip, Goto, Travel, lists
    <2> QED
      BY <1>1, <1>2, <2>1, TravelKeeps
  <1>7. CASE PullPass(c) \/ SeekPass(c) \/ WakeSkip(c)
    <2>1. /\ pc[c] \in {"pulling", "seeking", "wake"} /\ scan[c] # <<>>
          /\ Travel(c, pc[c], Tail(scan[c])) /\ mlock' = mlock
      <3> [pc EXCEPT ![c] = pc[c]] = pc
        BY <1>1
      <3> QED
        BY <1>7 DEF PullPass, SeekPass, WakeSkip, Visiting, Visited, Travel, lists
    <2> QED
      BY <1>1, <1>2, <1>3, <2>1, TravelKeeps DEF Visits
  <1>8. CASE PullMore(c)
    <2>1. pc[c] = "pulling" /\ Travel(c, "seeking", migrating) /\ mlock' = mlock
      BY <1>8 DEF PullMore, Goto, Travel, lists
    <2> QED
      BY <1>1, <1>2, <2>1, TravelKeeps
  <1>9. CASE SeekNone(c)
    <2>1. pc[c] = "seeking" /\ Travel(c, "wake", blocked[c]) /\ mlock' = None
      BY <1>9 DEF SeekNone, Unlock, Goto, Travel
    <2> QED
      BY <1>1, <1>2, <2>1, TravelKeeps
  <1> QED
    BY <1>4, <1>5, <1>6, <1>7, <1>8, <1>9

-----------------------------------------------------------------------------
(* The count of threads. *)

LEMMA CountKeeps ==
    ASSUME CountingLaws, SchedulerInv, NEW c \in Core, Count(c)
    PROVE  SchedulerInv'
  <1>1. /\ TypeOK /\ MigratingSound /\ LiveIsLinked /\ ThreadsCounted
        /\ \A d \in Core : CoreSound(d) /\ CountsSound(d)
    BY DEF SchedulerInv
  <1>2. /\ pc[c] = "count" /\ pc' = [pc EXCEPT ![c] = "run"] /\ threadCnt' = threadCnt + 1
        /\ UNCHANGED <<state, intention, slice, allowed, home, running, scan, next, prev, reg,
                       exitSeen, finished, calls, runnable, rcount, blocked, bcount, migrating,
                       mlock>>
    BY DEF Count, Goto, fields, lists
  <1>3. TypeOK'
    <2> threadCnt' \in Int
      BY <1>1, <1>2, SMT DEF TypeOK
    <2> QED
      BY <1>1, <1>2 DEF TypeOK
  <1>4. pc'[c] = "run" /\ \A d \in Core \ {c} : pc'[d] = pc[d]
    BY <1>1, <1>2 DEF TypeOK
  <1>5. \A d \in Core : /\ InHand(d)' = InHand(d) /\ Owned(d)' = Owned(d)
                        /\ Ahead(d)' = Ahead(d) /\ Visits(d)' = Visits(d)
    <2> \A d \in Core : /\ InHand(d)' = InHand(d) /\ Visits(d)' = Visits(d)
      BY <1>2, <1>4 DEF InHand, Visits
    <2> QED
      BY <1>2 DEF Owned, Ahead
  <1>6. OnlyCore(c)
    <2> ASSUME NEW d \in Core \ {c} PROVE Still(d) /\ Spared(d)
      BY <1>1, <1>2, <1>4 DEF Still, Spared, Grown, CoreSound, ListsSound
    <2> QED
      BY DEF OnlyCore
  <1>7. MigratingSound' /\ LiveIsLinked'
    BY <1>1, <1>2, <1>5 DEF MigratingSound, LiveIsLinked
  <1>8. ThreadsCounted'
    <2> DEFINE K == {d \in Core : pc[d] = "count"}
    <2>1. {d \in Core : pc'[d] = "count"} = K \ {c} /\ c \in K
      BY <1>2, <1>4
    <2>2. IsFiniteSet(K)
      BY FiniteAssumption DEF CountingLaws
    <2>3. Cardinality(K \ {c}) = Cardinality(K) - 1 /\ Cardinality(K) \in Nat
      BY <2>1, <2>2 DEF CountingLaws
    <2> DEFINE live == Cardinality({t \in Thread : state[t] # "NOTALLOC"})
    <2>4. live \in Nat
      BY FiniteAssumption DEF CountingLaws
    <2>5. threadCnt = live - Cardinality(K)
      BY <1>1 DEF ThreadsCounted
    <2>6. ThreadsCounted' <=> threadCnt + 1 = live - Cardinality(K \ {c})
      BY <1>2, <2>1 DEF ThreadsCounted
    <2> HIDE DEF K, live
    <2> QED
      BY <2>3, <2>4, <2>5, <2>6, SMT
  <1>9. CountsSound(c)' /\ ListsSound(c)' /\ ScanSound(c)'
    <2>1. CountsSound(c)'
      BY <1>1, <1>2 DEF CountsSound
    <2>2. ListsSound(c)'
      BY <1>1, <1>2, <1>5 DEF CoreSound, ListsSound
    <2>3. ScanSound(c)'
      BY <1>1, <1>2, <1>4, <1>5 DEF CoreSound, ScanSound
    <2> QED
      BY <2>1, <2>2, <2>3
  <1>10. /\ RunsSound(c)' /\ SearchSound(c)' /\ NextSound(c)' /\ PrevSound(c)' /\ IdleSound(c)'
    BY <1>1, <1>2, <1>4
    DEF CoreSound, RunsSound, SearchSound, NextSound, PrevSound, IdleSound
  <1> QED
    BY <1>3, <1>6, <1>7, <1>8, <1>9, <1>10, CoresKept DEF CoreSound

\* cs_exit touches no thread.
LEMMA ShutDownKeeps ==
    ASSUME SchedulerInv, ShutDown \/ UNCHANGED vars
    PROVE  SchedulerInv'
  <1>1. /\ TypeOK /\ MigratingSound /\ LiveIsLinked /\ ThreadsCounted
        /\ \A d \in Core : CoreSound(d) /\ CountsSound(d)
    BY DEF SchedulerInv
  <1>2. /\ UNCHANGED <<state, intention, slice, allowed, home, running, scan, next, prev, reg, pc,
                       runnable, rcount, blocked, bcount, migrating, mlock, threadCnt,
                       exitSeen, calls>>
        /\ finished' \in BOOLEAN
    BY <1>1 DEF ShutDown, vars, fields, lists, locals, counters, TypeOK
  <1>3. TypeOK'
    BY <1>1, <1>2 DEF TypeOK
  <1>4. \A d \in Core : Still(d) /\ Spared(d)
    BY <1>1, <1>2 DEF Still, Spared, Grown, CoreSound, ListsSound
  <1>5. MigratingSound' /\ LiveIsLinked' /\ ThreadsCounted'
    BY <1>1, <1>2 DEF MigratingSound, LiveIsLinked, Owned, InHand, ThreadsCounted
  <1> QED
    BY <1>3, <1>4, <1>5, StillKept DEF SchedulerInv

-----------------------------------------------------------------------------
(* Steps that move a thread of a core between the lists of the core. *)

\* The lists of core c have nothing in common.
Apart(c) ==
    /\ NoRepeat(runnable[c]) /\ NoRepeat(blocked[c])
    /\ Members(runnable[c]) \cap Members(blocked[c]) = {}
    /\ InHand(c) \cap (Members(runnable[c]) \cup Members(blocked[c])) = {}

\* What the move leaves alone, and that it neither takes nor gives a thread.
Relink(c) ==
    /\ \A d \in Core \ {c} : Still(d)
    /\ UNCHANGED <<allowed, home, migrating, mlock, threadCnt>>
    /\ Owned(c)' = Owned(c)
    /\ pc[c] # "count" /\ pc'[c] # "count"
    /\ SameLife
    /\ \A t \in Tcb : intention'[t] = intention[t] \/ t \in Owned(c)

LEMMA RelinkKeeps ==
    ASSUME SchedulerInv, NEW c \in Core, Relink(c), TypeOK', CountsSound(c)', Apart(c)',
           ScanSound(c)', RunsSound(c)', SearchSound(c)', NextSound(c)', PrevSound(c)',
           IdleSound(c)'
    PROVE  SchedulerInv'
  <1>1. /\ TypeOK /\ MigratingSound /\ LiveIsLinked /\ ThreadsCounted
        /\ \A d \in Core : ListsSound(d) /\ ScanSound(d) /\ Owned(d) \subseteq Thread
    BY OwnedIsThread DEF SchedulerInv, CoreSound
  <1>2. UNCHANGED <<allowed, home, migrating, mlock, threadCnt>> /\ Owned(c)' = Owned(c)
    BY DEF Relink
  <1>3. ASSUME NEW d \in Core \ {c} PROVE Spared(d)
    <2>1. \A t \in Owned(d) \cup {d} : intention'[t] = intention[t]
      BY <1>1, OwnedApart, CoreAssumption DEF Relink, Tcb
    <2> QED
      BY <1>1, <1>2, <2>1 DEF Spared, Grown, ListsSound
  <1>4. OnlyCore(c)
    BY <1>3 DEF OnlyCore, Relink
  <1>5. LiveIsLinked' /\ ThreadsCounted'
    BY <1>1, <1>2, <1>4, LinkedSame, CountedSame DEF Relink
  <1>6. MigratingSound'
    BY <1>1, <1>2 DEF MigratingSound
  <1>7. ListsSound(c)'
    BY <1>1, <1>2, SMT DEF ListsSound, Apart
  <1> QED
    BY <1>4, <1>5, <1>6, <1>7, CoresKept DEF CoreSound

\* The thread that a core comes to in a list.
LEMMA HeadOfScan ==
    ASSUME TypeOK, NEW c \in Core, ScanSound(c), scan[c] # <<>>
    PROVE  /\ Head(scan[c]) \in Thread /\ Tail(scan[c]) \in Seq(Thread)
           /\ NoRepeat(Tail(scan[c])) /\ Head(scan[c]) \in Members(scan[c])
           /\ Members(Tail(scan[c])) = Members(scan[c]) \ {Head(scan[c])}
           /\ Head(scan[c]) # c
  <1>1. scan[c] \in Seq(Thread) /\ NoRepeat(scan[c])
    BY DEF ScanSound, TypeOK
  <1> QED
    BY <1>1, HeadTaken, CoreAssumption, SMT

LEMMA CountsStayNumbers ==
    ASSUME TypeOK, NEW c \in Core
    PROVE  /\ rcount[c] + 1 \in Int /\ rcount[c] - 1 \in Int
           /\ bcount[c] + 1 \in Int /\ bcount[c] - 1 \in Int
  <1> PICK r \in Int, b \in Int : r = rcount[c] /\ b = bcount[c]
    BY DEF TypeOK
  <1> r + 1 \in Int /\ r - 1 \in Int /\ b + 1 \in Int /\ b - 1 \in Int
    BY SMT
  <1> QED
    OBVIOUS

\* The counts follow the lists, each by itself or, when post_context_switch puts
\* a thread to sleep, both together, whatever list the thread comes from.
CountsMove(c) ==
    \/ /\ \/ rcount'[c] = rcount[c] + 1 /\ Len(runnable'[c]) = Len(runnable[c]) + 1
          \/ rcount'[c] = rcount[c] - 1 /\ Len(runnable'[c]) = Len(runnable[c]) - 1
       /\ bcount'[c] = bcount[c] /\ blocked'[c] = blocked[c]
    \/ /\ \/ bcount'[c] = bcount[c] + 1 /\ Len(blocked'[c]) = Len(blocked[c]) + 1
          \/ bcount'[c] = bcount[c] - 1 /\ Len(blocked'[c]) = Len(blocked[c]) - 1
       /\ rcount'[c] = rcount[c] /\ runnable'[c] = runnable[c]
    \/ /\ rcount'[c] = rcount[c] - 1 /\ bcount'[c] = bcount[c] + 1
       /\ \/ Len(runnable'[c]) = Len(runnable[c]) - 1 /\ Len(blocked'[c]) = Len(blocked[c]) + 1
          \/ Len(runnable'[c]) = Len(runnable[c]) /\ Len(blocked'[c]) = Len(blocked[c])

LEMMA CountsFollow ==
    ASSUME TypeOK, NEW c \in Core, CountsSound(c), CountsMove(c)
    PROVE  CountsSound(c)'
  <1>1. PICK r \in Int, b \in Int, n \in Nat, k \in Nat :
            /\ r = rcount[c] /\ b = bcount[c] /\ n = Len(runnable[c]) /\ k = Len(blocked[c])
    <2> runnable[c] \in Seq(Thread) /\ blocked[c] \in Seq(Thread)
      BY DEF TypeOK
    <2> QED
      BY SMT DEF TypeOK
  <1>2. r + b = n + k /\ r <= n
    BY <1>1 DEF CountsSound
  <1>3. PICK r1 \in Int, b1 \in Int, n1 \in Int, k1 \in Int :
            /\ r1 = rcount'[c] /\ b1 = bcount'[c]
            /\ n1 = Len(runnable'[c]) /\ k1 = Len(blocked'[c])
            /\ \/ r1 = r + 1 /\ n1 = n + 1 /\ b1 = b /\ k1 = k
               \/ r1 = r - 1 /\ n1 = n - 1 /\ b1 = b /\ k1 = k
               \/ r1 = r /\ n1 = n /\ b1 = b + 1 /\ k1 = k + 1
               \/ r1 = r /\ n1 = n /\ b1 = b - 1 /\ k1 = k - 1
               \/ r1 = r - 1 /\ n1 = n - 1 /\ b1 = b + 1 /\ k1 = k + 1
               \/ r1 = r - 1 /\ n1 = n /\ b1 = b + 1 /\ k1 = k
    <2> /\ r + 1 \in Int /\ r - 1 \in Int /\ b + 1 \in Int /\ b - 1 \in Int
        /\ n \in Int /\ k \in Int
        /\ n + 1 \in Int /\ n - 1 \in Int /\ k + 1 \in Int /\ k - 1 \in Int
      BY SMT
    <2> QED
      BY <1>1 DEF CountsMove
  <1>4. r1 + b1 = n1 + k1 /\ r1 <= n1
    <2> \/ r1 = r + 1 /\ n1 = n + 1 /\ b1 = b /\ k1 = k
        \/ r1 = r - 1 /\ n1 = n - 1 /\ b1 = b /\ k1 = k
        \/ r1 = r /\ n1 = n /\ b1 = b + 1 /\ k1 = k + 1
        \/ r1 = r /\ n1 = n /\ b1 = b - 1 /\ k1 = k - 1
        \/ r1 = r - 1 /\ n1 = n - 1 /\ b1 = b + 1 /\ k1 = k + 1
        \/ r1 = r - 1 /\ n1 = n /\ b1 = b + 1 /\ k1 = k
      BY <1>3
    <2> QED
      BY <1>2, SMT
  <1> QED
    BY <1>3, <1>4 DEF CountsSound

LEMMA SelectBlockKeeps ==
    ASSUME SchedulerInv, NEW c \in Core, SelectBlock(c)
    PROVE  SchedulerInv'
  <1>1. /\ TypeOK /\ CoreSound(c) /\ CountsSound(c) /\ LiveIsLinked
        /\ pc[c] = "select" /\ scan[c] # <<>>
    BY DEF SchedulerInv, SelectBlock, Visiting
  <1> PICK t \in Thread : t = Head(scan[c])
    BY <1>1, HeadOfScan DEF CoreSound
  <1> PICK curr \in Tcb : curr = running[c]
    BY <1>1 DEF TypeOK
  <1> PICK left \in Seq(Thread) : left = Without(runnable[c], t)
    <2> runnable[c] \in Seq(Thread) /\ NoRepeat(runnable[c])
      BY <1>1 DEF TypeOK, CoreSound, ListsSound
    <2> QED
      BY TakenOut, NotTakenOut
  <1>2. /\ InHand(c) = {} /\ Ahead(c) = Members(scan[c])
        /\ t \in Ahead(c) /\ t \in Members(runnable[c]) /\ t # c
    BY <1>1, HeadOfScan DEF InHand, Ahead, CoreSound, ScanSound, Visits
  <1>3. /\ NoRepeat(left) /\ Members(left) = Members(runnable[c]) \ {t}
        /\ Len(left) = Len(runnable[c]) - 1
    BY <1>1, <1>2, TakenOut, SMT DEF TypeOK, CoreSound, ListsSound
  <1> PICK bits \in Intentions : bits = intention[t] \ {"BLOCKED"}
    BY <1>1 DEF TypeOK, Intentions, Tcb
  <1>4. /\ "EXITED" \notin intention[t] /\ "BLOCKED" \in intention[t]
        /\ runnable' = [runnable EXCEPT ![c] = left]
        /\ rcount' = [rcount EXCEPT ![c] = @ - 1]
        /\ state' = [state EXCEPT ![t] = "BLOCKED"]
        /\ reg' = [reg EXCEPT ![c] = bits] /\ pc' = [pc EXCEPT ![c] = "park"]
        /\ UNCHANGED <<intention, slice, allowed, home, blocked, bcount, migrating,
                       mlock, running, scan, next, prev, threadCnt, exitSeen, finished, calls>>
    BY DEF SelectBlock, Unlink, counters
  <1>5. TypeOK'
    <2>1. t \in Tcb /\ "BLOCKED" \in States
      BY DEF Tcb, States
    <2>2. rcount' \in [Core -> Int]
      BY <1>1, <1>4, CountsStayNumbers DEF TypeOK
    <2> QED
      BY <1>1, <1>4, <2>1, <2>2 DEF TypeOK
  <1>6. /\ pc'[c] = "park" /\ runnable'[c] = left /\ rcount'[c] = rcount[c] - 1
        /\ reg'[c] = bits /\ InHand(c)' = {t} /\ Ahead(c)' = Ahead(c) \ {t}
    BY <1>1, <1>2, <1>4 DEF TypeOK, InHand, Ahead
  <1>7. Owned(c)' = Owned(c)
    BY <1>2, <1>3, <1>4, <1>6 DEF Owned
  <1>8. Relink(c)
    <2>1. \A d \in Core \ {c} : Still(d)
      BY <1>1, <1>4 DEF Still, TypeOK
    <2>2. SameLife
      <3> state[t] # "NOTALLOC"
        BY <1>1, <1>2 DEF LiveIsLinked, Owned
      <3> QED
        BY <1>1, <1>4 DEF TypeOK, SameLife
    <2> QED
      BY <1>1, <1>4, <1>6, <1>7, <2>1, <2>2 DEF Relink
  <1>9. CountsSound(c)'
    BY <1>1, <1>3, <1>4, <1>6, CountsFollow DEF CountsMove
  <1>10. Apart(c)'
    BY <1>1, <1>2, <1>3, <1>4, <1>6, SMT DEF CoreSound, ListsSound, Apart
  <1>11. ScanSound(c)'
    BY <1>1, <1>2, <1>3, <1>4, <1>6 DEF CoreSound, ScanSound, Visits
  <1>12. RunsSound(c)'
    BY <1>1, <1>4, <1>6, <1>7 DEF CoreSound, RunsSound
  <1>13. SearchSound(c)'
    BY <1>1, <1>2, <1>3, <1>4, <1>6, SMT DEF CoreSound, SearchSound
  <1>14. NextSound(c)'
    BY <1>1, <1>2, <1>3, <1>4, <1>6 DEF CoreSound, NextSound
  <1>15. PrevSound(c)' /\ IdleSound(c)'
    BY <1>1, <1>4, <1>6 DEF CoreSound, PrevSound, IdleSound
  <1> QED
    BY <1>5, <1>8, <1>9, <1>10, <1>11, <1>12, <1>13, <1>14, <1>15, RelinkKeeps

LEMMA ParkKeeps ==
    ASSUME SchedulerInv, NEW c \in Core, Park(c)
    PROVE  SchedulerInv'
  <1>1. /\ TypeOK /\ CoreSound(c) /\ CountsSound(c) /\ pc[c] = "park" /\ scan[c] # <<>>
    BY DEF SchedulerInv, Park, Goto, CoreSound, ScanSound
  <1> PICK t \in Thread : t = Head(scan[c])
    BY <1>1, HeadOfScan DEF CoreSound
  <1> PICK curr \in Tcb : curr = running[c]
    BY <1>1 DEF TypeOK
  <1> PICK bits \in Intentions : bits = reg[c]
    BY <1>1 DEF TypeOK
  <1>2. /\ InHand(c) = {t} /\ Ahead(c) = Members(scan[c]) \ {t} /\ t # c /\ t \in Owned(c)
        /\ t \notin Members(runnable[c]) /\ t \notin Members(blocked[c])
        /\ "EXITED" \notin bits
    BY <1>1, HeadOfScan DEF InHand, Ahead, CoreSound, ListsSound, SearchSound, Owned
  <1> PICK longer \in Seq(Thread) : longer = Append(blocked[c], t)
    <2> blocked[c] \in Seq(Thread) /\ NoRepeat(blocked[c])
      BY <1>1 DEF TypeOK, CoreSound, ListsSound
    <2> QED
      BY <1>2, Appended
  <1>3. /\ NoRepeat(longer) /\ Members(longer) = Members(blocked[c]) \cup {t}
        /\ Len(longer) = Len(blocked[c]) + 1
    <2> blocked[c] \in Seq(Thread) /\ NoRepeat(blocked[c])
      BY <1>1 DEF TypeOK, CoreSound, ListsSound
    <2> QED
      BY <1>2, Appended, SMT
  <1>4. /\ blocked' = [blocked EXCEPT ![c] = longer]
        /\ bcount' = [bcount EXCEPT ![c] = @ + 1]
        /\ intention' = [intention EXCEPT ![t] = bits]
        /\ reg' = [reg EXCEPT ![c] = {}] /\ pc' = [pc EXCEPT ![c] = "select"]
        /\ scan' = [scan EXCEPT ![c] = Tail(scan[c])]
        /\ UNCHANGED <<state, slice, allowed, home, runnable, rcount, migrating,
                       mlock, running, next, prev, threadCnt, exitSeen, finished, calls>>
    BY DEF Park, Goto, Link, Visited, counters
  <1>5. TypeOK'
    <2>1. t \in Tcb /\ {} \in Intentions /\ Tail(scan[c]) \in Seq(Thread)
      BY <1>1, HeadOfScan DEF Tcb, Intentions, CoreSound
    <2>2. bcount' \in [Core -> Int]
      BY <1>1, <1>4, CountsStayNumbers DEF TypeOK
    <2> QED
      BY <1>1, <1>4, <2>1, <2>2 DEF TypeOK
  <1>6. /\ pc'[c] = "select" /\ blocked'[c] = longer /\ bcount'[c] = bcount[c] + 1
        /\ scan'[c] = Tail(scan[c]) /\ InHand(c)' = {} /\ intention'[t] = bits
        /\ \A u \in Tcb \ {t} : intention'[u] = intention[u]
    BY <1>1, <1>4 DEF TypeOK, InHand, Tcb
  <1>7. Ahead(c)' = Ahead(c) /\ NoRepeat(scan'[c])
    BY <1>1, <1>2, <1>6, HeadOfScan DEF CoreSound, Ahead
  <1>8. Owned(c)' = Owned(c)
    BY <1>2, <1>3, <1>4, <1>6 DEF Owned
  <1>9. Relink(c)
    <2>1. \A d \in Core \ {c} : Still(d)
      BY <1>1, <1>4 DEF Still, TypeOK
    <2> QED
      BY <1>1, <1>2, <1>4, <1>6, <1>8, <2>1 DEF Relink, SameLife
  <1>10. CountsSound(c)'
    BY <1>1, <1>3, <1>4, <1>6, CountsFollow DEF CountsMove
  <1>11. Apart(c)'
    BY <1>1, <1>2, <1>3, <1>4, <1>6 DEF CoreSound, ListsSound, Apart
  <1>12. ScanSound(c)'
    BY <1>1, <1>4, <1>6, <1>7 DEF CoreSound, ScanSound, Visits
  <1>13. RunsSound(c)'
    BY <1>1, <1>4, <1>6, <1>8 DEF CoreSound, RunsSound
  <1>14. Members(runnable[c]) \cup {c} \subseteq Tcb \ {t}
    BY <1>1, <1>2, OwnedIsThread DEF CoreSound, Tcb
  <1>15. SearchSound(c)'
    BY <1>1, <1>2, <1>4, <1>6, <1>7, <1>14 DEF CoreSound, SearchSound
  <1>16. NextSound(c)'
    BY <1>1, <1>2, <1>4, <1>6, <1>7, <1>14 DEF CoreSound, NextSound
  <1>17. PrevSound(c)' /\ IdleSound(c)'
    BY <1>1, <1>4, <1>6, <1>14 DEF CoreSound, PrevSound, IdleSound
  <1> QED
    BY <1>5, <1>9, <1>10, <1>11, <1>12, <1>13, <1>15, <1>16, <1>17, RelinkKeeps

LEMMA WakeReadyKeeps ==
    ASSUME SchedulerInv, NEW c \in Core, WakeReady(c)
    PROVE  SchedulerInv'
  <1>1. /\ TypeOK /\ CoreSound(c) /\ CountsSound(c) /\ LiveIsLinked
        /\ pc[c] = "wake" /\ scan[c] # <<>> /\ next[c] = None
    BY DEF SchedulerInv, WakeReady, Visiting, CoreSound, NextSound
  <1> PICK t \in Thread : t = Head(scan[c])
    BY <1>1, HeadOfScan DEF CoreSound
  <1> PICK left \in Seq(Thread) : left = Without(blocked[c], t)
    <2> blocked[c] \in Seq(Thread) /\ NoRepeat(blocked[c])
      BY <1>1 DEF TypeOK, CoreSound, ListsSound
    <2> QED
      BY TakenOut, NotTakenOut
  <1>2. /\ InHand(c) = {} /\ Ahead(c) = Members(scan[c])
        /\ t \in Ahead(c) /\ t \in Members(blocked[c]) /\ t # c
    BY <1>1, HeadOfScan DEF InHand, Ahead, CoreSound, ScanSound, Visits
  <1>3. /\ NoRepeat(left) /\ Members(left) = Members(blocked[c]) \ {t}
        /\ Len(left) = Len(blocked[c]) - 1
    BY <1>1, <1>2, TakenOut DEF TypeOK, CoreSound, ListsSound
  <1> PICK bits \in Intentions : bits = intention[t] \ {"READY", "BLOCKED"}
    BY <1>1 DEF TypeOK, Intentions, Tcb
  <1>4. /\ blocked' = [blocked EXCEPT ![c] = left]
        /\ bcount' = [bcount EXCEPT ![c] = @ - 1]
        /\ state' = [state EXCEPT ![t] = "READY"]
        /\ reg' = [reg EXCEPT ![c] = bits] /\ pc' = [pc EXCEPT ![c] = "wakeset"]
        /\ UNCHANGED <<intention, slice, allowed, home, runnable, rcount, migrating,
                       mlock, running, scan, next, prev, threadCnt, exitSeen, finished, calls>>
    BY DEF WakeReady, Unlink, counters
  <1>5. TypeOK'
    <2>1. t \in Tcb /\ "READY" \in States
      BY DEF Tcb, States
    <2>2. bcount' \in [Core -> Int]
      BY <1>1, <1>4, CountsStayNumbers DEF TypeOK
    <2> QED
      BY <1>1, <1>4, <2>1, <2>2 DEF TypeOK
  <1>6. /\ pc'[c] = "wakeset" /\ blocked'[c] = left /\ bcount'[c] = bcount[c] - 1
        /\ InHand(c)' = {t} /\ Ahead(c)' = Ahead(c) \ {t}
    BY <1>1, <1>2, <1>4 DEF TypeOK, InHand, Ahead
  <1>7. Owned(c)' = Owned(c)
    BY <1>2, <1>3, <1>4, <1>6 DEF Owned
  <1>8. Relink(c)
    <2>1. \A d \in Core \ {c} : Still(d)
      BY <1>1, <1>4 DEF Still, TypeOK
    <2>2. SameLife
      <3> state[t] # "NOTALLOC"
        BY <1>1, <1>2 DEF LiveIsLinked, Owned
      <3> QED
        BY <1>1, <1>4 DEF TypeOK, SameLife
    <2> QED
      BY <1>1, <1>4, <1>6, <1>7, <2>1, <2>2 DEF Relink
  <1>9. CountsSound(c)'
    BY <1>1, <1>3, <1>4, <1>6, CountsFollow DEF CountsMove
  <1>10. Apart(c)'
    BY <1>1, <1>2, <1>3, <1>4, <1>6, SMT DEF CoreSound, ListsSound, Apart
  <1>11. ScanSound(c)'
    BY <1>1, <1>2, <1>3, <1>4, <1>6 DEF CoreSound, ScanSound, Visits
  <1>12. RunsSound(c)' /\ SearchSound(c)' /\ NextSound(c)'
    BY <1>1, <1>4, <1>6 DEF CoreSound, RunsSound, SearchSound, NextSound
  <1>13. PrevSound(c)' /\ IdleSound(c)'
    BY <1>1, <1>4, <1>6 DEF CoreSound, PrevSound, IdleSound
  <1> QED
    BY <1>5, <1>8, <1>9, <1>10, <1>11, <1>12, <1>13, RelinkKeeps

LEMMA WakeSetKeeps ==
    ASSUME SchedulerInv, NEW c \in Core, WakeSet(c)
    PROVE  SchedulerInv'
  <1>1. /\ TypeOK /\ CoreSound(c) /\ CountsSound(c) /\ pc[c] = "wakeset" /\ scan[c] # <<>>
        /\ next[c] = None
    BY DEF SchedulerInv, WakeSet, Goto, CoreSound, ScanSound, NextSound
  <1> PICK t \in Thread : t = Head(scan[c])
    BY <1>1, HeadOfScan DEF CoreSound
  <1> PICK curr \in Tcb : curr = running[c]
    BY <1>1 DEF TypeOK
  <1> PICK bits \in Intentions : bits = reg[c]
    BY <1>1 DEF TypeOK
  <1>2. /\ InHand(c) = {t} /\ Ahead(c) = Members(scan[c]) \ {t} /\ t # c /\ t \in Owned(c)
        /\ t \notin Members(runnable[c]) /\ t \notin Members(blocked[c])
    BY <1>1, HeadOfScan DEF InHand, Ahead, CoreSound, ListsSound, Owned
  <1> PICK longer \in Seq(Thread) : longer = Append(runnable[c], t)
    <2> runnable[c] \in Seq(Thread) /\ NoRepeat(runnable[c])
      BY <1>1 DEF TypeOK, CoreSound, ListsSound
    <2> QED
      BY <1>2, Appended
  <1>3. /\ NoRepeat(longer) /\ Members(longer) = Members(runnable[c]) \cup {t}
        /\ Len(longer) = Len(runnable[c]) + 1
    <2> runnable[c] \in Seq(Thread) /\ NoRepeat(runnable[c])
      BY <1>1 DEF TypeOK, CoreSound, ListsSound
    <2> QED
      BY <1>2, Appended, SMT
  <1>4. /\ runnable' = [runnable EXCEPT ![c] = longer]
        /\ rcount' = [rcount EXCEPT ![c] = @ + 1]
        /\ intention' = [intention EXCEPT ![t] = bits]
        /\ reg' = [reg EXCEPT ![c] = {}] /\ pc' = [pc EXCEPT ![c] = "wake"]
        /\ scan' = [scan EXCEPT ![c] = Tail(scan[c])]
        /\ UNCHANGED <<state, slice, allowed, home, blocked, bcount, migrating,
                       mlock, running, next, prev, threadCnt, exitSeen, finished, calls>>
    BY DEF WakeSet, Goto, Link, Visited, counters
  <1>5. TypeOK'
    <2>1. t \in Tcb /\ {} \in Intentions /\ Tail(scan[c]) \in Seq(Thread)
      BY <1>1, HeadOfScan DEF Tcb, Intentions, CoreSound
    <2>2. rcount' \in [Core -> Int]
      BY <1>1, <1>4, CountsStayNumbers DEF TypeOK
    <2> QED
      BY <1>1, <1>4, <2>1, <2>2 DEF TypeOK
  <1>6. /\ pc'[c] = "wake" /\ runnable'[c] = longer /\ rcount'[c] = rcount[c] + 1
        /\ scan'[c] = Tail(scan[c]) /\ InHand(c)' = {}
        /\ \A u \in Tcb \ {t} : intention'[u] = intention[u]
    BY <1>1, <1>4 DEF TypeOK, InHand, Tcb
  <1>7. Ahead(c)' = Ahead(c) /\ NoRepeat(scan'[c])
    BY <1>1, <1>2, <1>6, HeadOfScan DEF CoreSound, Ahead
  <1>8. Owned(c)' = Owned(c)
    BY <1>2, <1>3, <1>4, <1>6 DEF Owned
  <1>9. Relink(c)
    <2>1. \A d \in Core \ {c} : Still(d)
      BY <1>1, <1>4 DEF Still, TypeOK
    <2> QED
      BY <1>1, <1>2, <1>4, <1>6, <1>8, <2>1 DEF Relink, SameLife
  <1>10. CountsSound(c)'
    BY <1>1, <1>3, <1>4, <1>6, CountsFollow DEF CountsMove
  <1>11. Apart(c)'
    BY <1>1, <1>2, <1>3, <1>4, <1>6 DEF CoreSound, ListsSound, Apart
  <1>12. ScanSound(c)'
    BY <1>1, <1>4, <1>6, <1>7 DEF CoreSound, ScanSound, Visits
  <1>13. curr \in Tcb \ {t} /\ c \in Tcb \ {t}
    BY <1>1, <1>2 DEF CoreSound, RunsSound, Tcb
  <1>14. RunsSound(c)'
    BY <1>1, <1>3, <1>4, <1>6, <1>13 DEF CoreSound, RunsSound
  <1>15. SearchSound(c)' /\ NextSound(c)' /\ PrevSound(c)' /\ IdleSound(c)'
    BY <1>1, <1>4, <1>6, <1>13
    DEF CoreSound, SearchSound, NextSound, PrevSound, IdleSound
  <1> QED
    BY <1>5, <1>9, <1>10, <1>11, <1>12, <1>14, <1>15, RelinkKeeps

\* A thread is taken from wherever it is and put at the end of the second list.
OneOfTwo(r, b, p) ==
    /\ NoRepeat(r) /\ NoRepeat(b) /\ Members(r) \cap Members(b) = {}
    /\ p \in Members(r) \cup Members(b)

Second(r, b, p, rest, longer) ==
    /\ NoRepeat(rest) /\ NoRepeat(longer)
    /\ Members(rest) = Members(r) \ {p} /\ Members(longer) = Members(b) \cup {p}
    /\ \/ Len(rest) = Len(r) - 1 /\ Len(longer) = Len(b) + 1
       \/ Len(rest) = Len(r) /\ Len(longer) = Len(b)

LEMMA MovedOver ==
    ASSUME NEW r \in Seq(Thread), NEW b \in Seq(Thread), NEW p \in Thread, OneOfTwo(r, b, p)
    PROVE  \E rest \in Seq(Thread), longer \in Seq(Thread) :
               /\ rest = Without(r, p) /\ longer = Append(Without(b, p), p)
               /\ Second(r, b, p, rest, longer)
  <1>1. PICK rest \in Seq(Thread), left \in Seq(Thread) :
            /\ rest = Without(r, p) /\ left = Without(b, p) /\ NoRepeat(rest) /\ NoRepeat(left)
            /\ Members(rest) = Members(r) \ {p} /\ Members(left) = Members(b) \ {p}
            /\ \/ Len(rest) = Len(r) - 1 /\ left = b
               \/ rest = r /\ Len(left) = Len(b) - 1
    <2>1. CASE p \in Members(r)
      <3> p \notin Members(b) /\ Members(b) = Members(b) \ {p}
        BY <2>1 DEF OneOfTwo
      <3> QED
        BY <2>1, TakenOut, NotTakenOut DEF OneOfTwo
    <2>2. CASE p \in Members(b)
      <3> p \notin Members(r) /\ Members(r) = Members(r) \ {p}
        BY <2>2 DEF OneOfTwo
      <3> QED
        BY <2>2, TakenOut, NotTakenOut DEF OneOfTwo
    <2> QED
      BY <2>1, <2>2 DEF OneOfTwo
  <1>2. PICK longer \in Seq(Thread) :
            /\ longer = Append(left, p) /\ NoRepeat(longer)
            /\ Members(longer) = Members(left) \cup {p} /\ Len(longer) = Len(left) + 1
    BY <1>1, Appended
  <1>3. Members(longer) = Members(b) \cup {p}
    BY <1>1, <1>2 DEF OneOfTwo
  <1>4. \/ Len(rest) = Len(r) - 1 /\ Len(longer) = Len(b) + 1
        \/ Len(rest) = Len(r) /\ Len(longer) = Len(b)
    BY <1>1, <1>2, SMT
  <1> QED
    BY <1>1, <1>2, <1>3, <1>4 DEF Second

LEMMA PostBlockKeeps ==
    ASSUME SchedulerInv, NEW c \in Core, PostBlock(c)
    PROVE  SchedulerInv'
  <1>1. /\ TypeOK /\ CoreSound(c) /\ CountsSound(c) /\ LiveIsLinked
        /\ pc[c] = "post" /\ InHand(c) = {} /\ next[c] = None
    BY DEF SchedulerInv, PostBlock, Goto, InHand, CoreSound, NextSound
  <1>2. /\ prev[c] \in Members(runnable[c]) \cup Members(blocked[c])
        /\ prev[c] # c /\ prev[c] # running[c]
    <2> "BLOCKED" \in intention[prev[c]] /\ "READY" \notin intention[prev[c]]
      BY SMT DEF PostBlock
    <2> QED
      BY <1>1 DEF CoreSound, PrevSound, IdleSound
  <1> PICK p \in Thread : p = prev[c]
    BY <1>1, <1>2, OwnedIsThread DEF CoreSound
  <1> PICK r \in Seq(Thread), b \in Seq(Thread) : r = runnable[c] /\ b = blocked[c]
    BY <1>1 DEF TypeOK
  <1>3. PICK rest \in Seq(Thread), longer \in Seq(Thread) :
            /\ rest = Without(r, p) /\ longer = Append(Without(b, p), p)
            /\ Second(r, b, p, rest, longer)
    <2> OneOfTwo(r, b, p)
      BY <1>1, <1>2 DEF CoreSound, ListsSound, OneOfTwo
    <2> QED
      BY MovedOver
  <1> PICK bits \in Intentions : bits = intention[p] \ {"BLOCKED"}
    BY <1>1 DEF TypeOK, Intentions, Tcb
  <1>4. /\ runnable' = [runnable EXCEPT ![c] = rest]
        /\ rcount' = [rcount EXCEPT ![c] = @ - 1]
        /\ blocked' = [blocked EXCEPT ![c] = longer]
        /\ bcount' = [bcount EXCEPT ![c] = @ + 1]
        /\ state' = [state EXCEPT ![p] = "BLOCKED"]
        /\ reg' = [reg EXCEPT ![c] = bits] /\ pc' = [pc EXCEPT ![c] = "postset"]
        /\ UNCHANGED <<intention, slice, allowed, home, migrating, mlock, running, scan, next,
                       prev, threadCnt, exitSeen, finished, calls>>
    <2> [[blocked EXCEPT ![c] = Without(b, p)] EXCEPT ![c] = Append(@, p)]
            = [blocked EXCEPT ![c] = longer]
      BY <1>1, <1>3 DEF TypeOK
    <2> QED
      BY <1>3 DEF PostBlock, Goto, Unlink, Link, counters
  <1>5. TypeOK'
    <2>1. p \in Tcb /\ "BLOCKED" \in States
      BY DEF Tcb, States
    <2>2. rcount' \in [Core -> Int] /\ bcount' \in [Core -> Int]
      BY <1>1, <1>4, CountsStayNumbers DEF TypeOK
    <2> QED
      BY <1>1, <1>4, <2>1, <2>2 DEF TypeOK
  <1>6. /\ pc'[c] = "postset" /\ InHand(c)' = {} /\ Ahead(c)' = Ahead(c)
        /\ runnable'[c] = rest /\ rcount'[c] = rcount[c] - 1
        /\ blocked'[c] = longer /\ bcount'[c] = bcount[c] + 1
    BY <1>1, <1>4 DEF TypeOK, InHand, Ahead
  <1>7. Owned(c)' = Owned(c)
    BY <1>1, <1>2, <1>3, <1>6 DEF Owned, Second
  <1>8. Relink(c)
    <2>1. \A d \in Core \ {c} : Still(d)
      BY <1>1, <1>4 DEF Still, TypeOK
    <2>2. SameLife
      <3> state[p] # "NOTALLOC"
        BY <1>1, <1>2 DEF LiveIsLinked, Owned
      <3> QED
        BY <1>1, <1>4 DEF TypeOK, SameLife
    <2> QED
      BY <1>1, <1>4, <1>6, <1>7, <2>1, <2>2 DEF Relink
  <1>9. CountsSound(c)'
    BY <1>1, <1>3, <1>6, CountsFollow DEF CountsMove, Second
  <1>10. Apart(c)'
    BY <1>1, <1>3, <1>6 DEF CoreSound, ListsSound, Apart, Second
  <1>11. ScanSound(c)'
    BY <1>1, <1>4, <1>6 DEF CoreSound, ScanSound, Visits
  <1>12. RunsSound(c)' /\ SearchSound(c)' /\ NextSound(c)'
    BY <1>1, <1>2, <1>3, <1>4, <1>6 DEF CoreSound, RunsSound, SearchSound, NextSound,
       Second
  <1>13. PrevSound(c)' /\ IdleSound(c)'
    BY <1>1, <1>2, <1>3, <1>4, <1>6 DEF CoreSound, PrevSound, IdleSound, Second
  <1> QED
    BY <1>5, <1>8, <1>9, <1>10, <1>11, <1>12, <1>13, RelinkKeeps

-----------------------------------------------------------------------------
(* Steps that take a thread from a core, or give it one. *)

\* Core c destroys a thread t of its own.
Discard(c, t) ==
    /\ \A d \in Core \ {c} : Still(d)
    /\ Destroy(t)
    /\ UNCHANGED <<slice, allowed, migrating, mlock>>
    /\ t \in Owned(c) /\ Owned(c)' = Owned(c) \ {t}
    /\ pc[c] # "count" /\ pc'[c] # "count"

LEMMA DiscardKeeps ==
    ASSUME CountingLaws, SchedulerInv, NEW c \in Core, NEW t \in Thread, Discard(c, t), TypeOK',
           CountsSound(c)', Apart(c)', ScanSound(c)', RunsSound(c)', SearchSound(c)',
           NextSound(c)', PrevSound(c)', IdleSound(c)'
    PROVE  SchedulerInv'
  <1>1. /\ TypeOK /\ MigratingSound /\ LiveIsLinked /\ ThreadsCounted
        /\ \A d \in Core : ListsSound(d) /\ ScanSound(d) /\ Owned(d) \subseteq Thread
        /\ Members(migrating) \subseteq Thread
    BY OwnedIsThread DEF SchedulerInv, CoreSound
  <1>2. /\ UNCHANGED <<allowed, migrating, mlock>> /\ threadCnt' = threadCnt - 1
        /\ state' = [state EXCEPT ![t] = "NOTALLOC"]
        /\ home' = [home EXCEPT ![t] = None] /\ t \in Owned(c)
    BY DEF Discard, Destroy
  <1>3. \A u \in Tcb \ {t} : /\ home'[u] = home[u] /\ intention'[u] = intention[u]
                             /\ state'[u] = state[u]
    BY <1>1, <1>2 DEF Discard, Destroy, TypeOK
  <1>4. ASSUME NEW d \in Core \ {c} PROVE Spared(d) /\ t \notin Owned(d)
    <2>1. Owned(d) \cup {d} \subseteq Tcb \ {t}
      BY <1>1, <1>2, OwnedApart, CoreAssumption DEF Tcb
    <2> QED
      BY <1>1, <1>2, <1>3, <2>1 DEF Spared, Grown, ListsSound
  <1>5. OnlyCore(c)
    BY <1>4 DEF OnlyCore, Discard
  <1>6. state'[t] = "NOTALLOC" /\ t \notin Members(migrating) /\ state[t] # "NOTALLOC"
    BY <1>1, <1>2 DEF TypeOK, Tcb, ListsSound, LiveIsLinked
  <1>7. LiveIsLinked'
    <2>1. \A d \in Core \ {c} : Owned(d)' = Owned(d)
      BY DEF Discard, Still, Owned, InHand
    <2>2. ASSUME NEW u \in Thread
          PROVE  state'[u] # "NOTALLOC"
                    <=> u \in Members(migrating) \/ \E d \in Core : u \in Owned(d)'
      <3>1. CASE u = t
        BY <1>4, <1>6, <2>1, <3>1 DEF Discard
      <3>2. CASE u # t
        BY <1>1, <1>3, <2>1, <3>2 DEF LiveIsLinked, Discard, Tcb
      <3> QED
        BY <3>1, <3>2
    <2>3. \A d \in Core : state'[Idle(d)] # "NOTALLOC"
      BY <1>1, <1>3, CoreAssumption DEF LiveIsLinked, Idle, Tcb
    <2> QED
      BY <1>2, <2>2, <2>3 DEF LiveIsLinked
  <1>8. ThreadsCounted'
    <2> DEFINE A == {u \in Thread : state[u] # "NOTALLOC"}
               K == Cardinality({d \in Core : pc[d] = "count"})
    <2>1. {u \in Thread : state'[u] # "NOTALLOC"} = A \ {t} /\ t \in A
      BY <1>3, <1>6 DEF Tcb
    <2>2. {d \in Core : pc'[d] = "count"} = {d \in Core : pc[d] = "count"}
      BY DEF Discard, Still
    <2>3. IsFiniteSet(A)
      BY FiniteAssumption DEF CountingLaws
    <2>4. Cardinality(A \ {t}) = Cardinality(A) - 1 /\ Cardinality(A) \in Nat
      BY <2>1, <2>3 DEF CountingLaws
    <2>5. K \in Nat
      BY FiniteAssumption DEF CountingLaws
    <2>6. threadCnt = Cardinality(A) - K
      BY <1>1 DEF ThreadsCounted
    <2>7. ThreadsCounted' <=> threadCnt - 1 = Cardinality(A \ {t}) - K
      BY <1>2, <2>1, <2>2 DEF ThreadsCounted
    <2> HIDE DEF A, K
    <2> QED
      BY <2>4, <2>5, <2>6, <2>7, SMT
  <1>9. MigratingSound'
    BY <1>1, <1>2, <1>3, <1>6 DEF MigratingSound, Tcb
  <1>10. ListsSound(c)'
    <2> \A u \in Owned(c)' : u \in Owned(c) /\ u \in Tcb \ {t}
      BY <1>1 DEF Discard, Tcb
    <2> QED
      BY <1>1, <1>2, <1>3 DEF ListsSound, Apart
  <1> QED
    BY <1>5, <1>7, <1>8, <1>9, <1>10, CoresKept DEF CoreSound

\* What destroy_tcb changes, of a thread that is not the running one.
LEMMA DestroyIs ==
    ASSUME TypeOK, NEW t \in Thread, Destroy(t)
    PROVE  /\ state' \in [Tcb -> States] /\ intention' \in [Tcb -> Intentions]
           /\ home' \in [Tcb -> Core \cup {None}] /\ threadCnt' \in Int
           /\ exitSeen' \in BOOLEAN /\ finished' = finished /\ calls' = calls
           /\ \A u \in Tcb \ {t} : intention'[u] = intention[u]
  <1>1. t \in Tcb /\ "NOTALLOC" \in States /\ intention[t] \ {"EXITED"} \in Intentions
    BY DEF Tcb, States, TypeOK, Intentions
  <1>2. state' \in [Tcb -> States] /\ home' \in [Tcb -> Core \cup {None}]
    BY <1>1 DEF TypeOK, Destroy
  <1>3. intention' = [intention EXCEPT ![t] = intention[t] \ {"EXITED"}]
    BY DEF Destroy
  <1>4. intention' \in [Tcb -> Intentions]
    BY <1>1, <1>3 DEF TypeOK
  <1>5. \A u \in Tcb \ {t} : intention'[u] = intention[u]
    BY <1>3 DEF TypeOK
  <1>6. threadCnt' \in Int /\ exitSeen' \in BOOLEAN /\ finished' = finished /\ calls' = calls
    BY SMT DEF TypeOK, Destroy
  <1> QED
    BY <1>2, <1>4, <1>5, <1>6

LEMMA SelectExitKeeps ==
    ASSUME CountingLaws, SchedulerInv, NEW c \in Core, SelectExit(c)
    PROVE  SchedulerInv'
  <1>1. /\ TypeOK /\ CoreSound(c) /\ CountsSound(c) /\ pc[c] = "select" /\ scan[c] # <<>>
    BY DEF SchedulerInv, SelectExit, Visiting
  <1> PICK t \in Thread : t = Head(scan[c])
    BY <1>1, HeadOfScan DEF CoreSound
  <1> PICK curr \in Tcb : curr = running[c]
    BY <1>1 DEF TypeOK
  <1> PICK left \in Seq(Thread) : left = Without(runnable[c], t)
    <2> runnable[c] \in Seq(Thread) /\ NoRepeat(runnable[c])
      BY <1>1 DEF TypeOK, CoreSound, ListsSound
    <2> QED
      BY TakenOut, NotTakenOut
  <1>2. /\ InHand(c) = {} /\ Ahead(c) = Members(scan[c])
        /\ t \in Ahead(c) /\ t \in Members(runnable[c]) /\ t # c
    BY <1>1, HeadOfScan DEF InHand, Ahead, CoreSound, ScanSound, Visits
  <1>3. /\ NoRepeat(left) /\ Members(left) = Members(runnable[c]) \ {t}
        /\ Len(left) = Len(runnable[c]) - 1
    BY <1>1, <1>2, TakenOut, SMT DEF TypeOK, CoreSound, ListsSound
  <1>4. /\ Destroy(t) /\ t # curr
        /\ runnable' = [runnable EXCEPT ![c] = left]
        /\ rcount' = [rcount EXCEPT ![c] = @ - 1]
        /\ scan' = [scan EXCEPT ![c] = Tail(scan[c])]
        /\ UNCHANGED <<slice, allowed, blocked, bcount, migrating, mlock, running, pc, next,
                       prev, reg>>
    BY DEF SelectExit, Unlink, Visited
  <1>5. TypeOK'
    <2>1. Tail(scan[c]) \in Seq(Thread)
      BY <1>1, HeadOfScan DEF CoreSound
    <2>2. rcount' \in [Core -> Int]
      BY <1>1, <1>4, CountsStayNumbers DEF TypeOK
    <2>3. /\ state' \in [Tcb -> States] /\ intention' \in [Tcb -> Intentions]
          /\ home' \in [Tcb -> Core \cup {None}] /\ threadCnt' \in Int
          /\ exitSeen' \in BOOLEAN /\ finished' = finished /\ calls' = calls
      BY <1>1, <1>4, DestroyIs
    <2> QED
      BY <1>1, <1>4, <2>1, <2>2, <2>3 DEF TypeOK
  <1>6. /\ pc'[c] = "select" /\ runnable'[c] = left /\ rcount'[c] = rcount[c] - 1
        /\ scan'[c] = Tail(scan[c]) /\ InHand(c)' = {}
    BY <1>1, <1>4 DEF TypeOK, InHand
  <1>7. Ahead(c)' = Ahead(c) \ {t} /\ NoRepeat(scan'[c])
    BY <1>1, <1>2, <1>6, HeadOfScan DEF CoreSound, Ahead
  <1>8. \A u \in Tcb \ {t} : intention'[u] = intention[u]
    BY <1>1, <1>4, DestroyIs
  <1>9. Discard(c, t)
    <2>1. \A d \in Core \ {c} : Still(d)
      BY <1>1, <1>4 DEF Still, TypeOK
    <2>2. Owned(c)' = Owned(c) \ {t} /\ t \in Owned(c)
      BY <1>1, <1>2, <1>3, <1>4, <1>6 DEF Owned, CoreSound, ListsSound
    <2> QED
      BY <1>1, <1>4, <1>6, <2>1, <2>2 DEF Discard
  <1>10. CountsSound(c)'
    BY <1>1, <1>3, <1>4, <1>6, CountsFollow DEF CountsMove
  <1>11. Apart(c)'
    BY <1>1, <1>3, <1>4, <1>6 DEF CoreSound, ListsSound, Apart
  <1>12. ScanSound(c)'
    BY <1>1, <1>2, <1>3, <1>4, <1>6, <1>7 DEF CoreSound, ScanSound, Visits
  <1>13. curr \in Tcb \ {t} /\ Members(left) \cup {c} \subseteq Tcb \ {t}
    BY <1>1, <1>2, <1>3, <1>4, OwnedIsThread DEF CoreSound, Tcb
  <1>14. RunsSound(c)'
    <2>1. running'[c] = curr /\ Owned(c)' = Owned(c) \ {t}
      BY <1>4, <1>9 DEF Discard
    <2> QED
      BY <1>1, <1>6, <1>13, <2>1 DEF CoreSound, RunsSound
  <1>15. SearchSound(c)'
    BY <1>1, <1>2, <1>3, <1>4, <1>6, <1>7, <1>8, <1>13 DEF CoreSound, SearchSound
  <1>16. NextSound(c)'
    BY <1>1, <1>2, <1>3, <1>4, <1>6, <1>7, <1>8, <1>13 DEF CoreSound, NextSound
  <1>17. PrevSound(c)' /\ IdleSound(c)'
    BY <1>1, <1>4, <1>6, <1>8, <1>13 DEF CoreSound, PrevSound, IdleSound
  <1> QED
    BY <1>5, <1>9, <1>10, <1>11, <1>12, <1>14, <1>15, <1>16, <1>17, DiscardKeeps

LEMMA PostExitKeeps ==
    ASSUME CountingLaws, SchedulerInv, NEW c \in Core, PostExit(c)
    PROVE  SchedulerInv'
  <1>1. /\ TypeOK /\ CoreSound(c) /\ CountsSound(c) /\ pc[c] = "post" /\ InHand(c) = {}
        /\ next[c] = None
    BY DEF SchedulerInv, PostExit, Goto, InHand, CoreSound, NextSound
  <1>2. prev[c] \in Members(runnable[c]) /\ prev[c] # running[c]
    <2> "EXITED" \in intention[prev[c]] /\ prev[c] # running[c]
      BY DEF PostExit
    <2> QED
      BY <1>1 DEF CoreSound, PrevSound
  <1> PICK p \in Thread : p = prev[c]
    BY <1>1, <1>2, OwnedIsThread DEF CoreSound
  <1> PICK curr \in Tcb : curr = running[c]
    BY <1>1 DEF TypeOK
  <1>3. PICK left \in Seq(Thread) :
            /\ left = Without(runnable[c], p)
            /\ NoRepeat(left) /\ Members(left) = Members(runnable[c]) \ {p}
            /\ Len(left) = Len(runnable[c]) - 1
    <2> runnable[c] \in Seq(Thread) /\ NoRepeat(runnable[c])
      BY <1>1 DEF TypeOK, CoreSound, ListsSound
    <2> QED
      BY <1>2, TakenOut
  <1>4. /\ Destroy(p)
        /\ runnable' = [runnable EXCEPT ![c] = left]
        /\ rcount' = [rcount EXCEPT ![c] = @ - 1]
        /\ pc' = [pc EXCEPT ![c] = "pull"]
        /\ UNCHANGED <<slice, allowed, blocked, bcount, migrating, mlock, running, scan, next,
                       prev, reg>>
    BY <1>3 DEF PostExit, Goto, Unlink
  <1>5. TypeOK'
    <2>1. rcount' \in [Core -> Int]
      BY <1>1, <1>4, CountsStayNumbers DEF TypeOK
    <2>2. /\ state' \in [Tcb -> States] /\ intention' \in [Tcb -> Intentions]
          /\ home' \in [Tcb -> Core \cup {None}] /\ threadCnt' \in Int
          /\ exitSeen' \in BOOLEAN /\ finished' = finished /\ calls' = calls
      BY <1>1, <1>4, DestroyIs
    <2> QED
      BY <1>1, <1>4, <2>1, <2>2 DEF TypeOK
  <1>6. /\ pc'[c] = "pull" /\ runnable'[c] = left /\ rcount'[c] = rcount[c] - 1
        /\ InHand(c)' = {} /\ Ahead(c)' = Ahead(c)
    BY <1>1, <1>4 DEF TypeOK, InHand, Ahead
  <1>7. \A u \in Tcb \ {p} : intention'[u] = intention[u]
    BY <1>1, <1>4, DestroyIs
  <1>8. Discard(c, p)
    <2>1. \A d \in Core \ {c} : Still(d)
      BY <1>1, <1>4 DEF Still, TypeOK
    <2>2. Owned(c)' = Owned(c) \ {p} /\ p \in Owned(c)
      BY <1>1, <1>2, <1>3, <1>4, <1>6 DEF Owned, CoreSound, ListsSound
    <2> QED
      BY <1>1, <1>4, <1>6, <2>1, <2>2 DEF Discard
  <1>9. CountsSound(c)'
    BY <1>1, <1>3, <1>4, <1>6, CountsFollow DEF CountsMove
  <1>10. Apart(c)'
    BY <1>1, <1>3, <1>4, <1>6 DEF CoreSound, ListsSound, Apart
  <1>11. ScanSound(c)'
    BY <1>1, <1>4, <1>6 DEF CoreSound, ScanSound, Visits
  <1>12. curr \in Tcb \ {p} /\ c \in Tcb \ {p}
    BY <1>2, CoreAssumption DEF Tcb
  <1>13. RunsSound(c)'
    BY <1>1, <1>2, <1>3, <1>4, <1>6, <1>7, <1>12 DEF CoreSound, RunsSound
  <1>14. SearchSound(c)' /\ NextSound(c)' /\ PrevSound(c)' /\ IdleSound(c)'
    BY <1>1, <1>4, <1>6, <1>7, <1>12
    DEF CoreSound, SearchSound, NextSound, PrevSound, IdleSound
  <1> QED
    BY <1>5, <1>8, <1>9, <1>10, <1>11, <1>13, <1>14, DiscardKeeps

LEMMA WakeExitKeeps ==
    ASSUME CountingLaws, SchedulerInv, NEW c \in Core, WakeExit(c)
    PROVE  SchedulerInv'
  <1>1. /\ TypeOK /\ CoreSound(c) /\ CountsSound(c) /\ pc[c] = "wake" /\ scan[c] # <<>>
        /\ next[c] = None
    BY DEF SchedulerInv, WakeExit, Visiting, CoreSound, NextSound
  <1> PICK t \in Thread : t = Head(scan[c])
    BY <1>1, HeadOfScan DEF CoreSound
  <1> PICK curr \in Tcb : curr = running[c]
    BY <1>1 DEF TypeOK
  <1>2. /\ InHand(c) = {} /\ Ahead(c) = Members(scan[c])
        /\ t \in Ahead(c) /\ t \in Members(blocked[c]) /\ t # c
    BY <1>1, HeadOfScan DEF InHand, Ahead, CoreSound, ScanSound, Visits
  <1>3. PICK left \in Seq(Thread) :
            /\ left = Without(blocked[c], t)
            /\ NoRepeat(left) /\ Members(left) = Members(blocked[c]) \ {t}
            /\ Len(left) = Len(blocked[c]) - 1
    <2> blocked[c] \in Seq(Thread) /\ NoRepeat(blocked[c])
      BY <1>1 DEF TypeOK, CoreSound, ListsSound
    <2> QED
      BY <1>2, TakenOut
  <1>4. /\ Destroy(t) /\ t # curr
        /\ blocked' = [blocked EXCEPT ![c] = left]
        /\ bcount' = [bcount EXCEPT ![c] = @ - 1]
        /\ scan' = [scan EXCEPT ![c] = Tail(scan[c])]
        /\ UNCHANGED <<slice, allowed, runnable, rcount, migrating, mlock, running, pc, next,
                       prev, reg>>
    BY <1>3 DEF WakeExit, Unlink, Visited
  <1>5. TypeOK'
    <2>1. Tail(scan[c]) \in Seq(Thread)
      BY <1>1, HeadOfScan DEF CoreSound
    <2>2. bcount' \in [Core -> Int]
      BY <1>1, <1>4, CountsStayNumbers DEF TypeOK
    <2>3. /\ state' \in [Tcb -> States] /\ intention' \in [Tcb -> Intentions]
          /\ home' \in [Tcb -> Core \cup {None}] /\ threadCnt' \in Int
          /\ exitSeen' \in BOOLEAN /\ finished' = finished /\ calls' = calls
      BY <1>1, <1>4, DestroyIs
    <2> QED
      BY <1>1, <1>4, <2>1, <2>2, <2>3 DEF TypeOK
  <1>6. /\ pc'[c] = "wake" /\ blocked'[c] = left /\ bcount'[c] = bcount[c] - 1
        /\ scan'[c] = Tail(scan[c]) /\ InHand(c)' = {}
    BY <1>1, <1>4 DEF TypeOK, InHand
  <1>7. Ahead(c)' = Ahead(c) \ {t} /\ NoRepeat(scan'[c])
    BY <1>1, <1>2, <1>6, HeadOfScan DEF CoreSound, Ahead
  <1>8. \A u \in Tcb \ {t} : intention'[u] = intention[u]
    BY <1>1, <1>4, DestroyIs
  <1>9. Discard(c, t)
    <2>1. \A d \in Core \ {c} : Still(d)
      BY <1>1, <1>4 DEF Still, TypeOK
    <2>2. Owned(c)' = Owned(c) \ {t} /\ t \in Owned(c)
      BY <1>1, <1>2, <1>3, <1>4, <1>6 DEF Owned, CoreSound, ListsSound
    <2> QED
      BY <1>1, <1>4, <1>6, <2>1, <2>2 DEF Discard
  <1>10. CountsSound(c)'
    BY <1>1, <1>3, <1>4, <1>6, CountsFollow DEF CountsMove
  <1>11. Apart(c)'
    BY <1>1, <1>3, <1>4, <1>6 DEF CoreSound, ListsSound, Apart
  <1>12. ScanSound(c)'
    BY <1>1, <1>2, <1>3, <1>4, <1>6, <1>7 DEF CoreSound, ScanSound, Visits
  <1>13. curr \in Tcb \ {t} /\ c \in Tcb \ {t}
    BY <1>2, <1>4 DEF Tcb
  <1>14. RunsSound(c)'
    BY <1>1, <1>4, <1>6, <1>8, <1>13 DEF CoreSound, RunsSound
  <1>15. SearchSound(c)' /\ NextSound(c)' /\ PrevSound(c)' /\ IdleSound(c)'
    BY <1>1, <1>4, <1>6, <1>8, <1>13
    DEF CoreSound, SearchSound, NextSound, PrevSound, IdleSound
  <1> QED
    BY <1>5, <1>9, <1>10, <1>11, <1>12, <1>14, <1>15, DiscardKeeps

\* post_context_switch moves a thread from the migrating list to the core.
LEMMA MoveKeeps ==
    ASSUME SchedulerInv, NEW c \in Core, PullMine(c) \/ Seek(c)
    PROVE  SchedulerInv'
  <1>1. /\ TypeOK /\ MigratingSound /\ LiveIsLinked /\ ThreadsCounted
        /\ CoreSound(c) /\ CountsSound(c) /\ pc[c] \in {"pulling", "seeking"}
        /\ scan[c] # <<>> /\ InHand(c) = {} /\ next[c] = None /\ mlock = c
        /\ \A d \in Core : ListsSound(d) /\ ScanSound(d) /\ Owned(d) \subseteq Thread
    BY OwnedIsThread
    DEF SchedulerInv, PullMine, Seek, Visiting, InHand, CoreSound, NextSound, ScanSound
  <1> PICK t \in Thread : t = Head(scan[c])
    BY <1>1, HeadOfScan
  <1>2. /\ t \in Members(migrating) /\ Members(scan[c]) \subseteq Members(migrating)
        /\ Tail(scan[c]) \in Seq(Thread) /\ NoRepeat(Tail(scan[c]))
        /\ Members(Tail(scan[c])) = Members(scan[c]) \ {t}
    BY <1>1, HeadOfScan DEF ScanSound, Ahead, Visits
  <1>3. c \in allowed[t] /\ \A d \in Core : t \notin Owned(d)
    BY <1>1, <1>2, NoneAssumption, SMT DEF PullMine, Seek, MigratingSound, ListsSound
  <1>4. PICK left \in Seq(Thread) :
            /\ left = Without(migrating, t) /\ NoRepeat(left)
            /\ Members(left) = Members(migrating) \ {t}
    <2> migrating \in Seq(Thread) /\ NoRepeat(migrating)
      BY <1>1 DEF TypeOK, MigratingSound
    <2> QED
      BY <1>2, TakenOut
  <1>5. PICK longer \in Seq(Thread) :
            /\ longer = Append(runnable[c], t) /\ NoRepeat(longer)
            /\ Members(longer) = Members(runnable[c]) \cup {t}
            /\ Len(longer) = Len(runnable[c]) + 1
    <2> /\ runnable[c] \in Seq(Thread) /\ NoRepeat(runnable[c]) /\ t \notin Members(runnable[c])
      BY <1>1, <1>3 DEF TypeOK, ListsSound, Owned
    <2> QED
      BY Appended
  <1>6. /\ migrating' = left /\ runnable' = [runnable EXCEPT ![c] = longer]
        /\ rcount' = [rcount EXCEPT ![c] = @ + 1] /\ home' = [home EXCEPT ![t] = c]
        /\ UNCHANGED <<state, intention, slice, allowed, blocked, bcount, running, next, prev,
                       reg, threadCnt, exitSeen, finished, calls>>
    BY <1>4, <1>5 DEF PullMine, Seek, Move, Link, counters
  <1>7. PICK to \in {"pulling", "wake"}, list \in Seq(Thread) :
            /\ pc' = [pc EXCEPT ![c] = to] /\ scan' = [scan EXCEPT ![c] = list]
            /\ NoRepeat(list)
            /\ \/ to = "pulling" /\ mlock' = c /\ list = Tail(scan[c])
               \/ to = "wake" /\ mlock' = None /\ list = blocked[c]
    <2>1. /\ blocked[c] \in Seq(Thread) /\ NoRepeat(blocked[c])
          /\ pc \in [Core -> {pc[d] : d \in Core}]
      BY <1>1, SMT DEF TypeOK, ListsSound
    <2>2. CASE pc' = pc
      <3> pc[c] = "pulling" /\ mlock' = mlock /\ scan' = [scan EXCEPT ![c] = Tail(scan[c])]
        BY <1>1, <2>1, <2>2 DEF PullMine, Seek, Visiting, Visited, Unlock, Goto
      <3> pc' = [pc EXCEPT ![c] = "pulling"]
        BY <2>1, <2>2
      <3> QED
        BY <1>1, <1>2
    <2>3. CASE pc' # pc
      <3> /\ pc' = [pc EXCEPT ![c] = "wake"] /\ mlock' = None
          /\ scan' = [scan EXCEPT ![c] = blocked[c]]
        BY <2>3 DEF PullMine, Seek, Unlock, Goto
      <3> QED
        BY <2>1
    <2> QED
      BY <2>2, <2>3
  <1>8. TypeOK'
    <2>1. rcount' \in [Core -> Int] /\ mlock' \in Core \cup {None} /\ t \in Tcb
      BY <1>1, <1>6, <1>7, CountsStayNumbers DEF TypeOK, Tcb
    <2>2. \A x \in {"pulling", "wake"} :
            x \in {"run", "count", "mark", "select", "park", "post", "postset",
                   "pull", "pulling", "seeking", "wake", "wakeset", "own"}
      OBVIOUS
    <2> QED
      BY <1>1, <1>6, <1>7, <2>1, <2>2 DEF TypeOK
  <1>9. /\ pc'[c] = to /\ scan'[c] = list /\ runnable'[c] = longer
        /\ rcount'[c] = rcount[c] + 1 /\ InHand(c)' = {} /\ Ahead(c)' = Members(list)
        /\ home'[t] = c /\ \A u \in Tcb \ {t} : home'[u] = home[u]
    BY <1>1, <1>6, <1>7 DEF TypeOK, InHand, Ahead, Tcb
  <1>10. \A d \in Core \ {c} : Still(d) /\ Owned(d)' = Owned(d)
    BY <1>1, <1>6, <1>7 DEF Still, TypeOK, Owned, InHand
  <1>11. Owned(c)' = Owned(c) \cup {t}
    BY <1>1, <1>5, <1>6, <1>9 DEF Owned
  <1>12. ASSUME NEW d \in Core \ {c} PROVE Spared(d)
    <2>1. \A u \in Owned(d) : u \in Tcb \ {t} /\ u \notin Members(left)
      BY <1>1, <1>3, <1>4, SMT DEF Tcb, ListsSound
    <2>2. mlock # d /\ mlock' # d
      BY <1>1, <1>7, NoneAssumption, SMT
    <2> QED
      BY <1>6, <1>9, <2>1, <2>2 DEF Spared, Grown
  <1>13. OnlyCore(c)
    BY <1>10, <1>12 DEF OnlyCore
  <1>14. LiveIsLinked'
    <2> \A u \in Thread : u \in Members(migrating) \/ (\E d \in Core : u \in Owned(d))
            <=> u \in Members(left) \/ (\E d \in Core : u \in Owned(d)')
      BY <1>2, <1>4, <1>10, <1>11
    <2> QED
      BY <1>1, <1>6 DEF LiveIsLinked
  <1>15. ThreadsCounted'
    <2> SameLife /\ pc[c] # "count" /\ pc'[c] # "count"
      BY <1>1, <1>6, <1>9 DEF SameLife
    <2> QED
      BY <1>1, <1>6, <1>13, CountedSame
  <1>16. MigratingSound'
    <2>1. \A u \in Members(left) : u \in Tcb \ {t} /\ u \in Members(migrating)
      <3> Members(left) \subseteq Thread
        BY SMT DEF Members
      <3> QED
        BY <1>4 DEF Tcb
    <2> QED
      BY <1>1, <1>4, <1>6, <1>9, <2>1 DEF MigratingSound
  <1>17. ListsSound(c)'
    <2>1. Owned(c)' \cap Members(migrating') = {}
      BY <1>1, <1>4, <1>6, <1>11 DEF ListsSound
    <2>2. \A u \in Owned(c)' : c \in allowed'[u] /\ home'[u] = c
      BY <1>1, <1>3, <1>6, <1>9, <1>11 DEF ListsSound, Tcb
    <2>3. Members(longer) \cap Members(blocked[c]) = {}
      BY <1>1, <1>3, <1>5, SMT DEF ListsSound, Owned
    <2> QED
      BY <1>1, <1>5, <1>6, <1>9, <2>1, <2>2, <2>3 DEF ListsSound
  <1>18. CountsSound(c)'
    BY <1>1, <1>5, <1>6, <1>9, CountsFollow DEF CountsMove
  <1>19. ScanSound(c)'
    <2> Members(list) \subseteq Visits(c)'
      BY <1>2, <1>4, <1>6, <1>7, <1>9 DEF Visits
    <2> QED
      BY <1>7, <1>9, NoneAssumption DEF ScanSound
  <1>20. RunsSound(c)'
    BY <1>1, <1>5, <1>6, <1>7, <1>9 DEF CoreSound, RunsSound
  <1>21. SearchSound(c)' /\ NextSound(c)' /\ PrevSound(c)' /\ IdleSound(c)'
    BY <1>1, <1>6, <1>7, <1>9 DEF CoreSound, SearchSound, NextSound, PrevSound, IdleSound
  <1> QED
    BY <1>8, <1>13, <1>14, <1>15, <1>16, <1>17, <1>18, <1>19, <1>20, <1>21, CoresKept
    DEF CoreSound

LEMMA CreateKeeps ==
    ASSUME CountingLaws, SchedulerInv, NEW c \in Core, NEW t \in Thread, NEW m \in Core \cup {None},
           Create(c, t, m)
    PROVE  SchedulerInv'
  <1>1. /\ TypeOK /\ MigratingSound /\ LiveIsLinked /\ ThreadsCounted
        /\ CoreSound(c) /\ CountsSound(c) /\ InHand(c) = {}
        /\ pc[c] = "run" /\ state[t] = "NOTALLOC" /\ mlock = None
        /\ \A d \in Core : ListsSound(d) /\ ScanSound(d) /\ Owned(d) \subseteq Thread
    BY OwnedIsThread DEF SchedulerInv, Create, Goto, InHand, CoreSound
  <1>2. t \notin Members(migrating) /\ \A d \in Core : t \notin Owned(d)
    BY <1>1 DEF LiveIsLinked
  <1> PICK mask \in SUBSET Core : mask = IF m = None THEN Core ELSE {m}
    OBVIOUS
  <1>3. PICK longer \in Seq(Thread) :
            /\ longer = Append(migrating, t) /\ NoRepeat(longer)
            /\ Members(longer) = Members(migrating) \cup {t}
    <2> migrating \in Seq(Thread) /\ NoRepeat(migrating) /\ t \notin Members(migrating)
      BY <1>1, <1>2 DEF TypeOK, MigratingSound
    <2> /\ Append(migrating, t) \in Seq(Thread) /\ NoRepeat(Append(migrating, t))
        /\ Members(Append(migrating, t)) = Members(migrating) \cup {t}
      BY Appended, SMT
    <2> QED
      OBVIOUS
  <1>4. /\ pc' = [pc EXCEPT ![c] = "count"] /\ state' = [state EXCEPT ![t] = "READY"]
        /\ intention' = [intention EXCEPT ![t] = {}] /\ slice' = [slice EXCEPT ![t] = TRUE]
        /\ allowed' = [allowed EXCEPT ![t] = mask] /\ home' = [home EXCEPT ![t] = m]
        /\ migrating' = longer
        /\ UNCHANGED <<runnable, rcount, blocked, bcount, mlock, running, scan, next, prev, reg,
                       threadCnt, exitSeen, finished>>
    BY <1>3 DEF Create, Goto
  <1>5. TypeOK'
    <2>1. calls' \in 0 .. MaxCalls
      BY <1>1, BoundAssumption, SMT DEF Create, TypeOK
    <2>2. t \in Tcb /\ {} \in Intentions /\ "READY" \in States
      BY DEF Tcb, Intentions, States
    <2> QED
      BY <1>1, <1>4, <2>1, <2>2 DEF TypeOK
  <1>6. /\ pc'[c] = "count" /\ state'[t] = "READY" /\ home'[t] = m /\ allowed'[t] = mask
        /\ \A u \in Tcb \ {t} : /\ state'[u] = state[u] /\ intention'[u] = intention[u]
                                /\ home'[u] = home[u] /\ allowed'[u] = allowed[u]
    BY <1>1, <1>4 DEF TypeOK, Tcb
  <1>7. \A d \in Core \ {c} : Still(d)
    BY <1>1, <1>4 DEF Still, TypeOK
  <1>8. \A d \in Core : /\ InHand(d)' = InHand(d) /\ Owned(d)' = Owned(d)
                        /\ Owned(d) \cup {d} \subseteq Tcb \ {t}
    <2>1. \A d \in Core : InHand(d)' = InHand(d)
      BY <1>1, <1>4, <1>6, <1>7 DEF InHand, Still
    <2> QED
      BY <1>1, <1>2, <1>4, <2>1, CoreAssumption DEF Owned, Tcb
  <1>9. OnlyCore(c)
    <2> ASSUME NEW d \in Core \ {c} PROVE Spared(d)
      BY <1>1, <1>2, <1>3, <1>4, <1>6, <1>8, NoneAssumption DEF Spared, Grown, ListsSound
    <2> QED
      BY <1>7 DEF OnlyCore
  <1>10. LiveIsLinked'
    <2>1. ASSUME NEW u \in Thread
          PROVE  state'[u] # "NOTALLOC"
                    <=> u \in Members(longer) \/ \E d \in Core : u \in Owned(d)
      <3>1. CASE u = t
        BY <1>3, <1>6, <3>1
      <3>2. CASE u # t
        BY <1>1, <1>3, <1>6, <3>2 DEF LiveIsLinked, Tcb
      <3> QED
        BY <3>1, <3>2
    <2>2. \A d \in Core : state'[Idle(d)] # "NOTALLOC"
      BY <1>1, <1>6, <1>8 DEF LiveIsLinked, Idle
    <2> QED
      BY <1>4, <1>8, <2>1, <2>2 DEF LiveIsLinked
  <1>11. ThreadsCounted'
    <2> DEFINE A == {u \in Thread : state[u] # "NOTALLOC"}
               K == {d \in Core : pc[d] = "count"}
    <2>1. {u \in Thread : state'[u] # "NOTALLOC"} = A \cup {t} /\ t \notin A
      BY <1>1, <1>6 DEF Tcb
    <2>2. {d \in Core : pc'[d] = "count"} = K \cup {c} /\ c \notin K
      BY <1>1, <1>6, <1>7 DEF Still
    <2>3. IsFiniteSet(A) /\ IsFiniteSet(K)
      BY FiniteAssumption DEF CountingLaws
    <2>4. /\ Cardinality(A \cup {t}) = Cardinality(A) + 1 /\ Cardinality(A) \in Nat
          /\ Cardinality(K \cup {c}) = Cardinality(K) + 1 /\ Cardinality(K) \in Nat
      BY <2>1, <2>2, <2>3 DEF CountingLaws
    <2>5. threadCnt = Cardinality(A) - Cardinality(K)
      BY <1>1 DEF ThreadsCounted
    <2>6. ThreadsCounted' <=> threadCnt = Cardinality(A \cup {t}) - Cardinality(K \cup {c})
      BY <1>4, <2>1, <2>2 DEF ThreadsCounted
    <2> HIDE DEF A, K
    <2> QED
      BY <2>4, <2>5, <2>6, SMT
  <1>12. MigratingSound'
    <2> ASSUME NEW u \in Members(longer) PROVE home'[u] \in allowed'[u] \cup {None}
      <3>1. CASE u = t
        BY <1>6, <3>1
      <3>2. CASE u # t
        BY <1>1, <1>3, <1>6, <3>2, OwnedIsThread DEF MigratingSound, Tcb
      <3> QED
        BY <3>1, <3>2
    <2> QED
      BY <1>3, <1>4 DEF MigratingSound
  <1>13. ListsSound(c)'
    <2>1. Owned(c) \cap Members(longer) = {}
      BY <1>1, <1>2, <1>3, SMT DEF ListsSound
    <2>2. \A u \in Owned(c) : c \in allowed'[u] /\ home'[u] = c
      BY <1>1, <1>6, <1>8 DEF ListsSound
    <2> QED
      BY <1>1, <1>4, <1>8, <2>1, <2>2 DEF ListsSound
  <1>14. CountsSound(c)'
    BY <1>1, <1>4 DEF CountsSound
  <1>15. ScanSound(c)'
    <2> Ahead(c)' = Ahead(c) /\ Visits(c) = {}
      BY <1>1, <1>4, <1>8 DEF Ahead, Visits
    <2> QED
      BY <1>1, <1>4, <1>6 DEF CoreSound, ScanSound
  <1>16. RunsSound(c)'
    <2> running[c] \in Tcb \ {t}
      BY <1>1, <1>2, <1>8 DEF CoreSound, RunsSound, Owned, Tcb
    <2> QED
      BY <1>1, <1>4, <1>6 DEF CoreSound, RunsSound
  <1>17. SearchSound(c)' /\ NextSound(c)' /\ PrevSound(c)' /\ IdleSound(c)'
    BY <1>1, <1>4, <1>6, <1>8 DEF CoreSound, SearchSound, NextSound, PrevSound, IdleSound
  <1> QED
    BY <1>5, <1>9, <1>10, <1>11, <1>12, <1>13, <1>14, <1>15, <1>16, <1>17, CoresKept
    DEF CoreSound

-----------------------------------------------------------------------------
(* The theorems. *)

LEMMA SoundAtFirst ==
    ASSUME CountingLaws, Init
    PROVE  SchedulerInv
  <1>1. TypeOK
    <2>1. /\ <<>> \in Seq(Thread) /\ <<App>> \in Seq(Thread) /\ {} \in Intentions
          /\ App \in Tcb /\ Core \subseteq Tcb /\ {Bsp} \in SUBSET Core /\ Core \in SUBSET Core
      BY CoreAssumption, SMT DEF Intentions, Tcb
    <2>2. state \in [Tcb -> States] /\ home \in [Tcb -> Core \cup {None}]
      BY CoreAssumption DEF Init, States
    <2>3. allowed \in [Tcb -> SUBSET Core]
      BY <2>1 DEF Init
    <2>4. running \in [Core -> Tcb]
      BY <2>1 DEF Init, Idle
    <2>5. calls \in 0 .. MaxCalls /\ threadCnt \in Int
      BY BoundAssumption, SMT DEF Init
    <2>6. /\ intention \in [Tcb -> Intentions] /\ reg \in [Core -> Intentions]
          /\ slice \in [Tcb -> BOOLEAN] /\ rcount \in [Core -> Int] /\ bcount \in [Core -> Int]
          /\ next \in [Core -> Tcb \cup {None}] /\ prev \in [Core -> Tcb \cup {None}]
      BY <2>1, SMT DEF Init
    <2>7. /\ runnable \in [Core -> Seq(Thread)] /\ blocked \in [Core -> Seq(Thread)]
          /\ scan \in [Core -> Seq(Thread)] /\ migrating \in Seq(Thread)
          /\ mlock \in Core \cup {None} /\ exitSeen \in BOOLEAN /\ finished \in BOOLEAN
      BY <2>1 DEF Init
    <2>8. pc \in [Core -> {"run", "count", "mark", "select", "park", "post", "postset",
                           "pull", "pulling", "seeking", "wake", "wakeset", "own"}]
      BY DEF Init
    <2> QED
      BY <2>2, <2>3, <2>4, <2>5, <2>6, <2>7, <2>8 DEF TypeOK
  <1>2. Members(<<>>) = {} /\ NoRepeat(<<>>) /\ Len(<<>>) = 0
    BY SMT DEF Members, NoRepeat
  <1>3. Members(<<App>>) = {App} /\ NoRepeat(<<App>>)
    BY SMT DEF Members, NoRepeat
  <1>4. MigratingSound
    BY <1>3, CoreAssumption DEF Init, MigratingSound, Tcb
  <1>5. \A c \in Core : InHand(c) = {} /\ Owned(c) = {} /\ Ahead(c) = {}
    BY <1>2 DEF Init, InHand, Owned, Ahead
  <1>6. LiveIsLinked
    BY <1>3, <1>5, CoreAssumption DEF Init, LiveIsLinked, Tcb, Idle
  <1>7. ThreadsCounted
    <2>1. {t \in Thread : state[t] # "NOTALLOC"} = {App}
      BY CoreAssumption DEF Init, Tcb
    <2>2. {c \in Core : pc[c] = "count"} = {}
      BY DEF Init
    <2>3. Cardinality({App}) = 1 /\ Cardinality({}) = 0
      <3>1. IsFiniteSet({})
        BY FiniteAssumption DEF CountingLaws
      <3>2. Cardinality({}) = 0
        BY <3>1 DEF CountingLaws
      <3>3. App \notin {} /\ {} \cup {App} = {App}
        OBVIOUS
      <3>4. Cardinality({} \cup {App}) = Cardinality({}) + 1
        BY <3>1, <3>3 DEF CountingLaws
      <3> QED
        BY <3>2, <3>3, <3>4, SMT
    <2>4. ThreadsCounted <=> 1 = Cardinality({App}) - Cardinality({})
      BY <2>1, <2>2 DEF Init, ThreadsCounted
    <2> QED
      BY <2>3, <2>4, SMT
  <1>8. ASSUME NEW c \in Core PROVE CoreSound(c) /\ CountsSound(c)
    <2>1. ListsSound(c) /\ CountsSound(c)
      BY <1>2, <1>5, SMT DEF Init, ListsSound, CountsSound
    <2>2. ScanSound(c)
      BY <1>2, <1>5, NoneAssumption DEF Init, ScanSound
    <2>3. RunsSound(c) /\ SearchSound(c)
      BY CoreAssumption DEF Init, RunsSound, SearchSound, Idle, Tcb
    <2>4. NextSound(c) /\ PrevSound(c) /\ IdleSound(c)
      BY DEF Init, NextSound, PrevSound, IdleSound, Tcb
    <2> QED
      BY <2>1, <2>2, <2>3, <2>4 DEF CoreSound
  <1> QED
    BY <1>1, <1>4, <1>6, <1>7, <1>8 DEF SchedulerInv

LEMMA SchedulerStep ==
    ASSUME CountingLaws, SchedulerInv, [Next]_vars
    PROVE  SchedulerInv'
  <1>1. CASE ShutDown \/ UNCHANGED vars
    BY <1>1, ShutDownKeeps
  <1>2. ASSUME NEW c \in Core, Kernel(c) PROVE SchedulerInv'
    <2>1. CASE Mark(c) \/ MarkTo(c) \/ Count(c)
      BY <2>1, MarkKeeps, MarkToKeeps, CountKeeps
    <2>2. CASE Select(c)
      BY <2>2, SelectExitCurrentKeeps, SelectExitKeeps, SelectBlockKeeps, ParkKeeps,
         SelectPassKeeps, SelectRefillKeeps, SelectDoneKeeps DEF Select
    <2>3. CASE PostReady(c) \/ PostBlock(c) \/ PostSet(c) \/ PostExit(c) \/ Finish(c) \/ Own(c)
      BY <2>3, PostReadyKeeps, PostBlockKeeps, PostSetKeeps, PostExitKeeps, FinishKeeps, OwnKeeps
    <2>4. CASE \/ PostNothing(c) \/ PullLock(c) \/ PullSkip(c) \/ PullPass(c) \/ PullMore(c)
               \/ SeekPass(c) \/ SeekNone(c) \/ WakeSkip(c)
      BY <2>4, TravelsKeep
    <2>5. CASE PullMine(c) \/ Seek(c) \/ WakeExit(c) \/ WakeReady(c) \/ WakeSet(c)
      BY <2>5, MoveKeeps, WakeExitKeeps, WakeReadyKeeps, WakeSetKeeps
    <2> QED
      BY <1>2, <2>1, <2>2, <2>3, <2>4, <2>5 DEF Kernel, PostContextSwitch
  <1>3. ASSUME NEW c \in Core, Enter(c) PROVE SchedulerInv'
    BY <1>3, EnterKeeps
  <1>4. ASSUME NEW c \in Core, NEW t \in Thread,
               \/ WakeUp(c, t) \/ Suspend(c, t)
               \/ \E m \in Core \cup {None} : Create(c, t, m)
        PROVE  SchedulerInv'
    BY <1>4, AskKeeps, CreateKeeps
  <1> QED
    BY <1>1, <1>2, <1>3, <1>4 DEF Next, Enter

-----------------------------------------------------------------------------
(* The theorems *)

\* CountingLaws follow from the library's theorems.  The instance has finite sets
\* of its own, by the same definitions: those are used as they stand.
USE DEF IsFiniteSet, Cardinality

LOCAL INSTANCE FiniteSetTheorems

LEMMA CountingLawsHold == CountingLaws
  <1>1. \A S : IsFiniteSet(S) => Cardinality(S) \in Nat /\ (Cardinality(S) = 0 <=> S = {})
    BY FS_CardinalityType, FS_EmptySet
  <1>2. \A S, T : IsFiniteSet(S) /\ T \subseteq S => IsFiniteSet(T)
    BY FS_Subset
  <1>3. \A S, x : IsFiniteSet(S) /\ x \notin S
                   => Cardinality(S \cup {x}) = Cardinality(S) + 1
    BY FS_AddElement
  <1>4. \A S, x : IsFiniteSet(S) /\ x \in S
                   => Cardinality(S \ {x}) = Cardinality(S) - 1
    BY FS_RemoveElement
  <1> QED
    BY <1>1, <1>2, <1>3, <1>4 DEF CountingLaws, IsFiniteSet, Cardinality

\* The invariant that all the others follow from: it holds at all times, for
\* every interleaving of the cores' passes through schedule() with the calls of
\* thread_wake_up, thread_suspend and create_thread.
THEOREM SchedulerInvariant == Spec => []SchedulerInv
  <1>1. Init => SchedulerInv
    BY CountingLawsHold, SoundAtFirst
  <1>2. SchedulerInv /\ [Next]_vars => SchedulerInv'
    BY CountingLawsHold, SchedulerStep
  <1> QED
    BY <1>1, <1>2, PTL DEF Spec

\* schedule() and post_context_switch never lose or duplicate a thread: every
\* live thread is in one list, once, or in the hands of the core that moves it.
THEOREM ThreadsAreLinkedOnce == Spec => []LinkedOnce
  <1>1. ASSUME SchedulerInv PROVE LinkedOnce
    <2>1. \A c \in Core : ListsSound(c)
      BY <1>1 DEF SchedulerInv, CoreSound
    <2>2. \A c \in Core : \A d \in Core \ {c} : Owned(c) \cap Owned(d) = {}
      BY <2>1, OwnedApart
    <2> QED
      BY <1>1, <2>1, <2>2 DEF LinkedOnce, SchedulerInv, MigratingSound, LiveIsLinked, ListsSound
  <1> QED
    BY <1>1, SchedulerInvariant, PTL

\* No thread runs on two cores, and no running thread has been freed.
THEOREM ThreadsRunOnce == Spec => []RunsOnce
  <1>1. ASSUME SchedulerInv PROVE RunsOnce
    <2>1. ASSUME NEW c \in Core
          PROVE  /\ ListsSound(c) /\ running[c] \in Owned(c) \cup {c}
                 /\ Owned(c) \subseteq Thread /\ state[running[c]] # "NOTALLOC"
      <3>1. /\ ListsSound(c) /\ running[c] \in Owned(c) \cup {c} /\ Owned(c) \subseteq Thread
        BY <1>1, OwnedIsThread DEF SchedulerInv, CoreSound, RunsSound, Owned
      <3>2. state[running[c]] # "NOTALLOC"
        BY <1>1, <3>1 DEF SchedulerInv, LiveIsLinked, Idle
      <3> QED
        BY <3>1, <3>2
    <2>2. ASSUME NEW c \in Core, NEW d \in Core, running[c] = running[d] PROVE c = d
      <3>1. CASE running[c] \in Core
        BY <2>1, <2>2, <3>1, CoreAssumption
      <3>2. CASE running[c] \notin Core
        BY <2>1, <2>2, <3>2, OwnedApart
      <3> QED
        BY <3>1, <3>2
    <2>3. \A c \in Core : running[c] \in Core => running[c] = c
      BY <2>1, CoreAssumption
    <2> QED
      BY <2>1, <2>2, <2>3 DEF RunsOnce
  <1> QED
    BY <1>1, SchedulerInvariant, PTL

\* The two counts of a core add up to the threads that it has, although each of
\* them may be off by the thread that post_context_switch counts a second time.
THEOREM CountsAddUp == Spec => []TotalsAgree
  <1>1. ASSUME SchedulerInv PROVE TotalsAgree
    BY <1>1 DEF SchedulerInv, CountsSound, TotalsAgree
  <1> QED
    BY <1>1, SchedulerInvariant, PTL

\* g_thread_cnt misses exactly the threads that create_thread has linked and not
\* yet counted.
THEOREM LiveThreadsAreCounted == Spec => []ThreadsCounted
  <1>1. ASSUME SchedulerInv PROVE ThreadsCounted
    BY <1>1 DEF SchedulerInv
  <1> QED
    BY <1>1, SchedulerInvariant, PTL

\* No step of select_next_thread or schedule_to switches to a thread that has
\* called exit.
THEOREM ExitedNeverRuns == Spec => ExitIsFinal
  <1>1. ASSUME SchedulerInv, [Next]_vars
        PROVE  [\A c \in Core :
                    running'[c] # running[c] => "EXITED" \notin intention[running'[c]]]_vars
    <2>1. ASSUME NEW c \in Core, NEW t \in Tcb, running' = [running EXCEPT ![c] = t],
                 "EXITED" \notin intention[t]
          PROVE  \A d \in Core :
                    running'[d] # running[d] => "EXITED" \notin intention[running'[d]]
      BY <1>1, <2>1 DEF SchedulerInv, TypeOK
    <2>2. ASSUME NEW c \in Core, MarkTo(c) \/ SelectExitCurrent(c) \/ SelectDone(c)
          PROVE  \E t \in Tcb : /\ running' = [running EXCEPT ![c] = t]
                                /\ "EXITED" \notin intention[t]
      <3>1. TypeOK /\ CoreSound(c) /\ Members(runnable[c]) \cup {c} \subseteq Tcb
        BY <1>1, OwnedIsThread DEF SchedulerInv, CoreSound, Tcb
      <3>2. CASE MarkTo(c)
        BY <3>1, <3>2 DEF MarkTo, SwitchTo, CoreSound, NextSound
      <3>3. CASE SelectExitCurrent(c)
        BY <3>1, <3>3 DEF SelectExitCurrent, SwitchTo, Idle, CoreSound, IdleSound
      <3>4. CASE SelectDone(c)
        BY <1>1, <3>1, <3>4, SelectDoneIs DEF Leave, SwitchTo
      <3> QED
        BY <2>2, <3>2, <3>3, <3>4
    <2>3. CASE \E c \in Core : MarkTo(c) \/ SelectExitCurrent(c) \/ SelectDone(c)
      BY <2>1, <2>2, <2>3
    <2>4. CASE UNCHANGED running
      BY <2>4
    <2>5. ASSUME NEW c \in Core, Kernel(c)
          PROVE  MarkTo(c) \/ SelectExitCurrent(c) \/ SelectDone(c) \/ UNCHANGED running
      <3>1. CASE Mark(c) \/ MarkTo(c) \/ Count(c)
        BY <3>1 DEF Mark, Count
      <3>2. CASE Select(c)
        BY <3>2 DEF Select, SelectExit, SelectBlock, Park, SelectTake, SelectSkip, SelectRefill
      <3>3. CASE PostContextSwitch(c)
        BY <3>3 DEF PostContextSwitch, PostReady, PostBlock, PostSet, PostExit,
           PostNothing, PullLock, PullSkip, PullMine, PullPass, PullMore, Seek, SeekPass,
           SeekNone, Move, WakeExit, WakeReady, WakeSet, WakeSkip, Finish, Own
      <3> QED
        BY <2>5, <3>1, <3>2, <3>3 DEF Kernel
    <2>6. ASSUME NEW c \in Core, NEW t \in Thread, NEW m \in Core \cup {None},
                 \/ Enter(c) \/ WakeUp(c, t) \/ Suspend(c, t) \/ Create(c, t, m)
          PROVE  UNCHANGED running
      BY <2>6 DEF Enter, Preempt, Exit, Block, ScheduleTo, WakeUp, Suspend, Create
    <2>7. CASE ShutDown \/ UNCHANGED vars
      BY <2>4, <2>7 DEF ShutDown, vars
    <2> QED
      BY <1>1, <2>3, <2>4, <2>5, <2>6, <2>7, CoreAssumption DEF Next, Enter
  <1> QED
    BY <1>1, SchedulerInvariant, PTL DEF Spec, ExitIsFinal

=============================================================================
