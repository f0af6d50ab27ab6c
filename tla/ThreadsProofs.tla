--------------------------- MODULE ThreadsProofs ---------------------------
(***************************************************************************)
(* The invariants of Threads, for every number of cores, of TCBs and of    *)
(* calls, and for every value of the thresholds of the local lists.        *)
(***************************************************************************)
EXTENDS Threads, ListsProofs, TLAPS

USE ZenonT(20), SMTT(20)

-----------------------------------------------------------------------------
(* The cores at a set of places with a thread. *)

Others(c) == \A d \in Core \ {c} : op'[d] = op[d]

\* The core c is at one of the places after the step if and only if it was
\* before, and with the same thread.
SamePlace(c, places) ==
    /\ op[c].at \in places <=> op'[c].at \in places
    /\ op[c].at \in places => op'[c].t = op[c].t

LEMMA DoingFinite ==
    ASSUME CountingLaws, NEW t, NEW places
    PROVE  /\ IsFiniteSet(Doing(t, places)) /\ Cardinality(Doing(t, places)) \in Nat
           /\ Cardinality(Doing(t, places)) = 0 <=> Doing(t, places) = {}
  <1> IsFiniteSet(Doing(t, places))
    BY ThreadAssumption DEF Doing, CountingLaws
  <1> QED
    BY DEF CountingLaws

LEMMA DoingSame ==
    ASSUME NEW c \in Core, Others(c), NEW places, SamePlace(c, places), NEW t
    PROVE  Doing(t, places)' = Doing(t, places)
  <1> \A d \in Core : (op'[d].t = t /\ op'[d].at \in places)
                         <=> (op[d].t = t /\ op[d].at \in places)
    BY DEF Others, SamePlace
  <1> QED
    BY DEF Doing

\* A core that is not at the places with t does not count for t.
LEMMA DoingElse ==
    ASSUME NEW c \in Core, Others(c), NEW places, NEW t,
           op[c].t = t => op[c].at \notin places,
           op'[c].t = t => op'[c].at \notin places
    PROVE  Doing(t, places)' = Doing(t, places)
  <1> \A d \in Core : (op'[d].t = t /\ op'[d].at \in places)
                         <=> (op[d].t = t /\ op[d].at \in places)
    BY DEF Others
  <1> QED
    BY DEF Doing

LEMMA DoingGrows ==
    ASSUME CountingLaws, NEW c \in Core, Others(c), NEW places, NEW t,
           ~ (op[c].t = t /\ op[c].at \in places), op'[c].t = t, op'[c].at \in places
    PROVE  Cardinality(Doing(t, places)') = Cardinality(Doing(t, places)) + 1
  <1> Doing(t, places)' = Doing(t, places) \cup {c} /\ c \notin Doing(t, places)
    BY SMT DEF Doing, Others
  <1> QED
    BY DoingFinite DEF CountingLaws

LEMMA DoingShrinks ==
    ASSUME CountingLaws, NEW c \in Core, Others(c), NEW places, NEW t,
           op[c].t = t, op[c].at \in places, ~ (op'[c].t = t /\ op'[c].at \in places)
    PROVE  Cardinality(Doing(t, places)') = Cardinality(Doing(t, places)) - 1
  <1> Doing(t, places)' = Doing(t, places) \ {c} /\ c \in Doing(t, places)
    BY SMT DEF Doing, Others
  <1> QED
    <2> DEFINE S == Doing(t, places)
    <2> IsFiniteSet(S)
      BY DoingFinite
    <2> HIDE DEF S
    <2> c \in S => Cardinality(S \ {c}) = Cardinality(S) - 1
      BY DEF CountingLaws
    <2> QED
      BY DEF S

\* What a core works on after Step and after Done.
OpType == op \in [Core -> [at : Place, kind : Kind, t : Thread \cup {None},
                           core : Core \cup {None}]]

MovesTo(c, place) ==
    /\ Others(c)
    /\ op'[c].at = place /\ op'[c].kind = op[c].kind
    /\ op'[c].t = op[c].t /\ op'[c].core = op[c].core

LEMMA StepIs ==
    ASSUME OpType, NEW c \in Core, NEW place \in Place, Step(c, place)
    PROVE  MovesTo(c, place) /\ OpType'
  BY DEF OpType, Step, MovesTo, Others

LEMMA UserIs == User.at = "user" /\ User.kind = "none" /\ User.t = None /\ User.core = None
  BY SMT DEF User

LEMMA DoneIs ==
    ASSUME OpType, NEW c \in Core, Done(c)
    PROVE  Others(c) /\ OpType' /\ op'[c] = User /\ op'[c].at = "user"
  <1>1. User \in [at : Place, kind : Kind, t : Thread \cup {None}, core : Core \cup {None}]
    BY DEF User, Place, Kind
  <1>2. Others(c) /\ OpType' /\ op'[c] = User
    BY <1>1 DEF OpType, Done, Others
  <1> QED
    BY <1>2, UserIs

-----------------------------------------------------------------------------
(* When a step leaves the parts of the invariant alone. *)

\* The cores other than c work on what they worked on.
LEMMA OpsKept ==
    ASSUME OpsMatch, NEW c \in Core, Others(c), \A d \in Core \ {c} : running'[d] = running[d],
           OpMatches(c)'
    PROVE  OpsMatch'
  <1> SUFFICES ASSUME NEW d \in Core \ {c}
               PROVE  OpMatches(d)'
    BY DEF OpsMatch
  <1> op'[d] = op[d] /\ running'[d] = running[d]
    BY DEF Others
  <1> QED
    BY UserIs DEF OpsMatch, OpMatches, At

LEMMA HeldKept ==
    ASSUME HeldInUse, NEW c \in Core, Others(c), state' = state,
           SamePlace(c, Holding), SamePlace(c, {"link"})
    PROVE  HeldInUse'
  BY SMT DEF HeldInUse, At, Others, SamePlace

LEMMA HeldSame ==
    ASSUME HeldInUse, NEW c \in Core, Others(c), state' = state,
           op'[c].at \in Holding => op'[c].at # "link" /\ state[op'[c].t] # "NOTALLOC"
    PROVE  HeldInUse'
  <1> SUFFICES ASSUME NEW d \in Core, op'[d].at \in Holding
               PROVE  /\ state[op'[d].t] # "NOTALLOC"
                      /\ op'[d].at = "link" =>
                            /\ state[op'[d].t] = "CREATED"
                            /\ \A e \in Core : op'[e].at = "link" /\ op'[e].t = op'[d].t
                                                  => e = d
    BY DEF HeldInUse, At
  <1>1. \A e \in Core \ {c} : op'[e] = op[e]
    BY DEF Others
  <1>2. op'[c].at # "link"
    BY DEF Holding
  <1>3. CASE d = c
    BY <1>2, <1>3
  <1>4. CASE d # c
    BY <1>1, <1>2, <1>4, SMT DEF HeldInUse, At
  <1> QED
    BY <1>3, <1>4

LEMMA EndsKept ==
    ASSUME EndsAlone, NEW c \in Core, Others(c), state' = state, refc' = refc,
           SamePlace(c, Ending)
    PROVE  EndsAlone'
  BY SMT DEF EndsAlone, Others, SamePlace

LEMMA LockKept ==
    ASSUME LockHeld, NEW c \in Core, Others(c), glock' = glock, global' = global,
           SamePlace(c, {"freeing"}), SamePlace(c, {"unlock"})
    PROVE  LockHeld'
  BY DEF LockHeld, At, Others, SamePlace

LEMMA CountedKept ==
    ASSUME Counted, NEW c \in Core, Others(c), state' = state, refc' = refc,
           SamePlace(c, Holding)
    PROVE  Counted'
  BY DoingSame DEF Counted

LEMMA HandsKept ==
    ASSUME HandsApart, NEW c \in Core, Others(c), global' = global, local' = local,
           SamePlace(c, Creating)
    PROVE  HandsApart'
  <1> \A x : List(x)' = List(x)
    BY DEF List
  <1> QED
    BY SMT DEF HandsApart, Others, SamePlace

LEMMA FreeKept ==
    ASSUME FreeIsKept, NEW c \in Core, Others(c), state' = state, global' = global,
           local' = local, SamePlace(c, Creating), SamePlace(c, {"freeing"})
    PROVE  FreeIsKept'
  <1> \A x : List(x)' = List(x)
    BY DEF List
  <1> \A t : Doing(t, Creating)' = Doing(t, Creating)
             /\ Doing(t, {"freeing"})' = Doing(t, {"freeing"})
    BY DoingSame
  <1> QED
    BY DEF FreeIsKept, IsFree

LEMMA ListsKept ==
    ASSUME ListsApart, global' = global, local' = local
    PROVE  ListsApart'
  BY DEF ListsApart, List

\* A step of c that neither begins nor ends the use of a TCB.
Quiet(c) ==
    /\ Others(c)
    /\ UNCHANGED <<state, refc, stack, global, local>>
    /\ SamePlace(c, Holding) /\ SamePlace(c, {"link"}) /\ SamePlace(c, Ending)
    /\ SamePlace(c, {"freeing"}) /\ SamePlace(c, Creating)

LEMMA QuietKeeps ==
    ASSUME Sound, NEW c \in Core, Quiet(c), ThreadsTypeOK', OpsMatch', RunsLive', LockHeld'
    PROVE  Sound'
  <1> HeldInUse' /\ EndsAlone' /\ Counted'
    BY HeldKept, EndsKept, CountedKept DEF Sound, Quiet
  <1> ListsApart' /\ HandsApart' /\ FreeIsKept'
    BY ListsKept, HandsKept, FreeKept DEF Sound, Quiet
  <1> StacksOwned'
    BY DEF Sound, Quiet, StacksOwned
  <1> QED
    BY DEF Sound

\* A step that changes nothing but the place of c.
LEMMA MovesKeep ==
    ASSUME Sound, NEW c \in Core, Quiet(c), SamePlace(c, {"unlock"}), OpType', OpMatches(c)',
           UNCHANGED <<tcb, pool, signals, running, stray, crossed>>
    PROVE  Sound'
  <1> ThreadsTypeOK'
    BY DEF Sound, ThreadsTypeOK, OpType, tcb, pool
  <1> OpsMatch' /\ LockHeld'
    BY OpsKept, LockKept DEF Sound, Quiet, pool
  <1> RunsLive'
    BY DEF Sound, RunsLive, tcb
  <1> QED
    BY QuietKeeps

\* create_thread, __thread_exit, sys_kill and the other operations on a thread begin.
LEMMA BeginKeeps ==
    ASSUME Sound, NEW c \in Core,
           Create(c) \/ Exit(c) \/ \E t \in Thread : Use(c, t) \/ Kill(c, t)
    PROVE  Sound'
  <1> /\ ThreadsTypeOK /\ OpType /\ OpsMatch /\ RunsLive /\ HeldInUse /\ EndsAlone /\ LockHeld
      /\ Counted /\ ListsApart /\ HandsApart /\ FreeIsKept /\ StacksOwned
    BY DEF Sound, ThreadsTypeOK, OpType
  <1>1. PICK r \in [at : {"alloc", "get"}, kind : {"create", "use", "kill", "exit"},
                    t : Thread \cup {None}, core : {None}] :
            /\ op' = [op EXCEPT ![c] = r]
            /\ r.at = "alloc" => r.t = None /\ r.kind # "exit"
            /\ r.at = "get" => r.t \in Thread
            /\ r.kind = "exit" => r.t = running[c]
    BY SMT DEF Create, Exit, Use, Kill, InUser, ThreadsTypeOK
  <1>2. /\ At(c, "user")
        /\ UNCHANGED <<tcb, pool, signals, running, stray, crossed>>
    BY DEF Create, Exit, Use, Kill, InUser, ghosts
  <1>3. Others(c) /\ OpType' /\ op'[c] = r
    BY <1>1 DEF Others, OpType, Place, Kind
  <1>4. OpMatches(c)'
    BY <1>1, <1>2, <1>3 DEF OpMatches, At
  <1>5. Quiet(c) /\ SamePlace(c, {"unlock"})
    BY <1>1, <1>2, <1>3 DEF Quiet, SamePlace, At, Holding, Ending, Creating, tcb, pool
  <1> QED
    BY <1>2, <1>3, <1>4, <1>5, MovesKeep

LEMMA GetKeeps ==
    ASSUME Sound, NEW c \in Core, Get(c)
    PROVE  Sound'
  <1> /\ ThreadsTypeOK /\ OpType /\ OpsMatch /\ RunsLive /\ HeldInUse /\ EndsAlone /\ LockHeld
      /\ Counted /\ ListsApart /\ HandsApart /\ FreeIsKept /\ StacksOwned
    BY DEF Sound, ThreadsTypeOK, OpType
  <1>1. At(c, "get") /\ (Done(c) \/ Step(c, "got"))
        /\ UNCHANGED <<tcb, pool, signals, running, stray, crossed>>
    BY DEF Get, ghosts
  <1>2. Others(c) /\ OpType' /\ (op'[c] = User \/ MovesTo(c, "got"))
    BY <1>1, StepIs, DoneIs DEF Place, OpType, MovesTo
  <1>3. OpMatches(c)'
    BY <1>1, <1>2, UserIs DEF OpsMatch, OpMatches, At, MovesTo
  <1>4. Quiet(c) /\ SamePlace(c, {"unlock"})
    BY <1>1, <1>2, SMT DEF Quiet, SamePlace, At, Holding, Ending, Creating, tcb, pool,
       User, MovesTo
  <1> QED
    BY <1>1, <1>2, <1>3, <1>4, MovesKeep

\* The thread has exited, as nobody has a reference to it.
LEMMA PutLastKeeps ==
    ASSUME Sound, NEW c \in Core, PutLast(c)
    PROVE  Sound'
  <1> /\ ThreadsTypeOK /\ OpType /\ OpsMatch /\ RunsLive /\ HeldInUse /\ EndsAlone /\ LockHeld
      /\ Counted /\ ListsApart /\ HandsApart /\ FreeIsKept /\ StacksOwned
    BY DEF Sound, ThreadsTypeOK, OpType
  <1>1. At(c, "last") /\ UNCHANGED <<tcb, pool, signals, running, stray, crossed>>
    BY DEF PutLast, ghosts
  <1>2. state[op[c].t] = "EXITED"
    BY <1>1 DEF EndsAlone, Ending, At
  <1>3. Step(c, "destroy")
    BY <1>2 DEF PutLast
  <1>4. MovesTo(c, "destroy") /\ OpType'
    BY <1>3, StepIs DEF Place, Ending, OpType
  <1>5. OpMatches(c)'
    BY <1>1, <1>4 DEF OpsMatch, OpMatches, At, MovesTo
  <1>6. Quiet(c) /\ SamePlace(c, {"unlock"})
    BY <1>1, <1>4 DEF Quiet, SamePlace, At, Holding, Ending, Creating, tcb, pool,
                         MovesTo
  <1> QED
    BY <1>1, <1>4, <1>5, <1>6, MovesKeep

LEMMA DestroyWaitKeeps ==
    ASSUME Sound, NEW c \in Core, DestroyWait(c)
    PROVE  Sound'
  <1> /\ ThreadsTypeOK /\ OpType /\ OpsMatch /\ RunsLive /\ HeldInUse /\ EndsAlone /\ LockHeld
      /\ Counted /\ ListsApart /\ HandsApart /\ FreeIsKept /\ StacksOwned
    BY DEF Sound, ThreadsTypeOK, OpType
  <1>1. At(c, "destroy") /\ Step(c, "flush")
        /\ UNCHANGED <<tcb, pool, signals, running, stray, crossed>>
    BY DEF DestroyWait, ghosts
  <1>2. MovesTo(c, "flush") /\ OpType'
    BY <1>1, StepIs DEF Place, Ending, OpType
  <1>3. OpMatches(c)'
    BY <1>1, <1>2 DEF OpsMatch, OpMatches, At, MovesTo
  <1>4. Quiet(c) /\ SamePlace(c, {"unlock"})
    BY <1>1, <1>2 DEF Quiet, SamePlace, At, Holding, Ending, Creating, tcb, pool,
                         MovesTo
  <1> QED
    BY <1>1, <1>2, <1>3, <1>4, MovesKeep

LEMMA AllocUnlockKeeps ==
    ASSUME Sound, NEW c \in Core, AllocUnlock(c)
    PROVE  Sound'
  <1> /\ ThreadsTypeOK /\ OpType /\ OpsMatch /\ RunsLive /\ HeldInUse /\ EndsAlone /\ LockHeld
      /\ Counted /\ ListsApart /\ HandsApart /\ FreeIsKept /\ StacksOwned
    BY DEF Sound, ThreadsTypeOK, OpType
  <1>1. /\ At(c, "unlock") /\ Step(c, "init") /\ glock' = None
        /\ UNCHANGED <<tcb, global, local, signals, running, stray, crossed>>
    BY DEF AllocUnlock, ghosts
  <1>2. MovesTo(c, "init") /\ OpType'
    BY <1>1, StepIs DEF Place, Creating, OpType
  <1>3. ThreadsTypeOK'
    BY <1>1, <1>2 DEF OpType, tcb, ThreadsTypeOK
  <1>4. OpMatches(c)'
    BY <1>1, <1>2 DEF OpsMatch, OpMatches, At, MovesTo
  <1>5. OpsMatch'
    BY <1>1, <1>2, <1>4, OpsKept DEF MovesTo
  <1>6. LockHeld'
    BY <1>1, <1>2 DEF LockHeld, At, MovesTo, Others
  <1>7. RunsLive'
    BY <1>1 DEF RunsLive, tcb
  <1>8. Quiet(c)
    BY <1>1, <1>2 DEF Quiet, SamePlace, At, Holding, Ending, Creating, tcb, MovesTo
  <1> QED
    BY <1>3, <1>5, <1>6, <1>7, <1>8, QuietKeeps

\* The steps of sys_signal, sys_kill and do_signal on flags, handlers and lists.
LEMMA SignalsKeep ==
    ASSUME Sound, NEW c \in Core,
           Post(c) \/ SetFlag(c) \/ DoSignal(c) \/ ClearSignal(c) \/ Signal(c)
    PROVE  Sound'
  <1> /\ ThreadsTypeOK /\ OpType /\ OpsMatch /\ RunsLive /\ HeldInUse /\ EndsAlone /\ LockHeld
      /\ Counted /\ ListsApart /\ HandsApart /\ FreeIsKept /\ StacksOwned
    BY DEF Sound, ThreadsTypeOK, OpType
  <1>1. UNCHANGED <<state, refc, gen, home, stack, started, pool, running, stray>>
    BY DEF Post, SetFlag, DoSignal, ClearSignal, Signal, tcb, ghosts
  <1>2. /\ Others(c) /\ OpType'
        /\ \/ At(c, "post") /\ MovesTo(c, "flag")
           \/ At(c, "flag") /\ MovesTo(c, "put")
           \/ At(c, "deliver") /\ MovesTo(c, "clear")
           \/ At(c, "clear") /\ op'[c] = User
           \/ op' = op
    <2>1. CASE Post(c)
      BY <2>1, StepIs DEF Post, Place, Holding, OpType, MovesTo
    <2>2. CASE SetFlag(c)
      BY <2>2, StepIs DEF SetFlag, Place, Holding, OpType, MovesTo
    <2>3. CASE DoSignal(c)
      BY <2>3, StepIs DEF DoSignal, Place, OpType, MovesTo
    <2>4. CASE ClearSignal(c)
      BY <2>4, DoneIs DEF ClearSignal, OpType
    <2>5. CASE Signal(c)
      BY <2>5 DEF Signal, OpType, Others
    <2> QED
      BY <2>1, <2>2, <2>3, <2>4, <2>5
  <1>3. /\ signals' \in [Core -> SUBSET SignalTo]
        /\ flag' \subseteq Thread /\ handler' \subseteq Thread /\ crossed' \subseteq Thread
    <2>1. CASE Post(c)
      <3> op[c].t \in Thread /\ op[c].core \in Core \cup {None} /\ gen[op[c].t] \in Nat
        BY <2>1 DEF OpsMatch, OpMatches, Post, At, ThreadsTypeOK
      <3> [dest |-> op[c].t, gen |-> gen[op[c].t], reg |-> op[c].t \in handler] \in SignalTo
        BY SMT DEF SignalTo
      <3> QED
        BY <2>1 DEF Post, tcb, ThreadsTypeOK
    <2>2. CASE SetFlag(c)
      BY <2>2 DEF OpsMatch, OpMatches, SetFlag, At, ThreadsTypeOK
    <2>3. CASE DoSignal(c)
      <3> {s \in signals[c] : s.dest # op[c].t} \in SUBSET SignalTo
        BY DEF ThreadsTypeOK
      <3> QED
        BY <2>3 DEF DoSignal, tcb, ghosts, ThreadsTypeOK
    <2>4. CASE ClearSignal(c)
      BY <2>4 DEF ClearSignal, ghosts, ThreadsTypeOK
    <2>5. CASE Signal(c)
      BY <2>5, SMT DEF Signal, InUser, ThreadsTypeOK
    <2> QED
      BY <2>1, <2>2, <2>3, <2>4, <2>5
  <1>4. ThreadsTypeOK'
    BY <1>1, <1>2, <1>3 DEF OpType, pool, ThreadsTypeOK
  <1>5. OpMatches(c)'
    BY <1>1, <1>2, UserIs DEF OpsMatch, OpMatches, At, MovesTo
  <1>6. OpsMatch'
    BY <1>1, <1>2, <1>5, OpsKept
  <1>7. RunsLive'
    BY <1>1 DEF RunsLive
  <1>8. Quiet(c) /\ SamePlace(c, {"unlock"})
    BY <1>1, <1>2, SMT DEF Quiet, SamePlace, At, Holding, Ending, Creating, pool, MovesTo,
       User
  <1>9. LockHeld'
    BY <1>1, <1>8, LockKept DEF Quiet, pool
  <1> QED
    BY <1>4, <1>6, <1>7, <1>8, <1>9, QuietKeeps

LEMMA TakeKeeps ==
    ASSUME Sound, NEW c \in Core, NEW t \in Thread, Take(c, t)
    PROVE  Sound'
  <1> /\ ThreadsTypeOK /\ OpType /\ OpsMatch /\ RunsLive /\ HeldInUse /\ EndsAlone /\ LockHeld
      /\ Counted /\ ListsApart /\ HandsApart /\ FreeIsKept /\ StacksOwned
    BY DEF Sound, ThreadsTypeOK, OpType
  <1>1. /\ UNCHANGED <<state, refc, gen, stack, flag, handler, started, pool, signals, running,
                       op, stray, crossed>>
        /\ state[t] = "LIVE" /\ home[t] = None /\ home' = [home EXCEPT ![t] = c]
    BY DEF Take, ghosts
  <1>2. ThreadsTypeOK'
    BY <1>1 DEF pool, ThreadsTypeOK
  <1>3. OpsMatch'
    BY <1>1 DEF OpsMatch, OpMatches, At
  <1>4. RunsLive'
    BY <1>1, ThreadAssumption, SMT DEF RunsLive
  <1>5. Quiet(c) /\ SamePlace(c, {"unlock"})
    BY <1>1 DEF Quiet, SamePlace, Others, pool
  <1>6. LockHeld'
    BY <1>1, <1>5, LockKept DEF Quiet, pool
  <1> QED
    BY <1>2, <1>3, <1>4, <1>5, <1>6, QuietKeeps

LEMMA SwitchToKeeps ==
    ASSUME Sound, NEW c \in Core, NEW t \in Thread, SwitchTo(c, t)
    PROVE  Sound'
  <1> /\ ThreadsTypeOK /\ OpType /\ OpsMatch /\ RunsLive /\ HeldInUse /\ EndsAlone /\ LockHeld
      /\ Counted /\ ListsApart /\ HandsApart /\ FreeIsKept /\ StacksOwned
    BY DEF Sound, ThreadsTypeOK, OpType
  <1>1. /\ UNCHANGED <<state, refc, gen, home, stack, flag, handler, pool, signals, stray,
                       crossed>>
        /\ state[t] = "LIVE" /\ home[t] = c /\ At(c, "user")
        /\ running' = [running EXCEPT ![c] = t] /\ started' = started \cup {t}
    BY DEF SwitchTo, ghosts
  <1>2. /\ Others(c) /\ OpType'
        /\ \/ op'[c] = [at |-> "deliver", kind |-> "none", t |-> t, core |-> c]
           \/ op'[c] = User
    <2> DEFINE Looks == [at |-> "deliver", kind |-> "none", t |-> t, core |-> c]
    <2>1. op' = [op EXCEPT ![c] = Looks] \/ op' = [op EXCEPT ![c] = User]
      BY DEF SwitchTo
    <2>2. \A r \in {Looks, User} : r \in [at : Place, kind : Kind, t : Thread \cup {None},
                                        core : Core \cup {None}]
      BY SMT DEF Place, Kind, User
    <2> HIDE DEF Looks
    <2>3. /\ Others(c) /\ OpType'
          /\ op'[c] = Looks \/ op'[c] = User
      BY <2>1, <2>2 DEF Others, OpType
    <2> QED
      BY <2>3 DEF Looks
  <1>3. ThreadsTypeOK'
    BY <1>1, <1>2 DEF pool, OpType, ThreadsTypeOK
  <1>4. OpMatches(c)'
    BY <1>1, <1>2, UserIs, SMT DEF OpMatches, At, ThreadsTypeOK
  <1>5. OpsMatch'
    BY <1>1, <1>2, <1>4, OpsKept, SMT
  <1>6. RunsLive'
    BY <1>1, SMT DEF RunsLive
  <1>7. Quiet(c) /\ SamePlace(c, {"unlock"})
    BY <1>1, <1>2, UserIs, SMT DEF Quiet, SamePlace, At, Holding, Ending, Creating, pool
  <1>8. LockHeld'
    BY <1>1, <1>7, LockKept DEF Quiet, pool
  <1> QED
    BY <1>3, <1>5, <1>6, <1>7, <1>8, QuietKeeps

-----------------------------------------------------------------------------
(* References taken and given back. *)

\* Nobody has a reference to a TCB that is not allocated.
LEMMA FreeUnheld ==
    ASSUME CountingLaws, Sound, NEW t \in Thread, state[t] = "NOTALLOC"
    PROVE  /\ refc[t] = 0 /\ Cardinality(Doing(t, Holding)) = 0
           /\ \A c \in Core : op[c].at \in Holding \cup Ending => op[c].t # t
  <1> \A c \in Core : op[c].at \in Holding \cup Ending => op[c].t # t
    BY DEF Sound, HeldInUse, EndsAlone
  <1> Doing(t, Holding) = {}
    BY DEF Doing
  <1> Cardinality(Doing(t, Holding)) = 0
    BY DoingFinite
  <1> QED
    BY SMT DEF Sound, Counted

\* A TCB in the hands of a core that allocates it is not allocated.
LEMMA HandFree ==
    ASSUME Sound, NEW c \in Core, op[c].at \in Creating
    PROVE  /\ op[c].t \in Thread /\ state[op[c].t] = "NOTALLOC"
           /\ Doing(op[c].t, {"freeing"}) = {}
  <1> /\ ThreadsTypeOK /\ OpType /\ OpsMatch /\ RunsLive /\ HeldInUse /\ EndsAlone /\ LockHeld
      /\ Counted /\ ListsApart /\ HandsApart /\ FreeIsKept /\ StacksOwned
    BY DEF Sound, ThreadsTypeOK, OpType
  <1> PICK t : t = op[c].t
    OBVIOUS
  <1>1. t \in Thread
    BY DEF OpsMatch, OpMatches, Creating
  <1>2. c \in Doing(t, Creating)
    BY DEF Doing
  <1>3. IsFree(t)
    BY <1>1, <1>2 DEF FreeIsKept
  <1>4. t \notin Members(global)
    BY DEF HandsApart, Lists, List
  <1>5. Doing(t, {"freeing"}) = {}
    BY <1>4 DEF LockHeld, Doing, At
  <1> QED
    BY <1>1, <1>3, <1>5 DEF IsFree

\* A core that has a reference is among those counted.
LEMMA HolderCounted ==
    ASSUME CountingLaws, Sound, NEW c \in Core, op[c].at \in Holding
    PROVE  /\ op[c].t \in Thread /\ Cardinality(Doing(op[c].t, Holding)) \in Nat \ {0}
           /\ refc[op[c].t] >= 1
  <1> PICK t : t = op[c].t
    OBVIOUS
  <1>1. t \in Thread
    BY DEF Sound, OpsMatch, OpMatches, Holding
  <1>2. c \in Doing(t, Holding)
    BY DEF Doing
  <1>3. Cardinality(Doing(t, Holding)) \in Nat \ {0}
    BY <1>2, DoingFinite
  <1> QED
    BY <1>1, <1>3, SMT DEF Sound, Counted

\* A step that changes the state and the count of t only, and in which c works
\* on t before and after, if it works at all.
OnlyThread(t) == \A u \in Thread \ {t} : state'[u] = state[u] /\ refc'[u] = refc[u]

OnlyWith(c, t) ==
    /\ Others(c)
    /\ op[c].at \in Holding => op[c].t = t
    /\ op'[c].at \in Holding \cup Ending => op'[c].t = t

LEMMA HeldElse ==
    ASSUME Sound, NEW c \in Core, NEW t \in Thread, OnlyThread(t), OnlyWith(c, t),
           \A d \in Core \ {c} : op[d].at \in Holding /\ op[d].t = t
                                    => state'[t] # "NOTALLOC" /\ op[d].at # "link",
           op'[c].at \in Holding => /\ state'[t] # "NOTALLOC"
                                    /\ op'[c].at = "link" => state'[t] = "CREATED"
    PROVE  HeldInUse'
  <1> SUFFICES ASSUME NEW d \in Core, op'[d].at \in Holding
               PROVE  /\ state'[op'[d].t] # "NOTALLOC"
                      /\ op'[d].at = "link" =>
                            /\ state'[op'[d].t] = "CREATED"
                            /\ \A e \in Core : op'[e].at = "link" /\ op'[e].t = op'[d].t
                                                  => e = d
    BY DEF HeldInUse, At
  <1> /\ ThreadsTypeOK /\ OpType /\ OpsMatch /\ RunsLive /\ HeldInUse /\ EndsAlone /\ LockHeld
      /\ Counted /\ ListsApart /\ HandsApart /\ FreeIsKept /\ StacksOwned
    BY DEF Sound, ThreadsTypeOK, OpType
  <1>1. \A e \in Core \ {c} : op'[e] = op[e]
    BY DEF OnlyWith, Others
  <1>2. CASE d = c
    BY <1>1, <1>2 DEF OnlyWith, Holding
  <1>3. CASE d # c /\ op[d].t = t
    BY <1>1, <1>3
  <1>4. CASE d # c /\ op[d].t # t
    <2>1. op[d].at \in Holding /\ op'[d] = op[d] /\ op[d].t \in Thread
      BY <1>1, <1>4 DEF OpsMatch, OpMatches, Holding
    <2>2. state'[op[d].t] = state[op[d].t]
      BY <1>4, <2>1 DEF OnlyThread
    <2>3. op'[c].at = "link" => op'[c].t # op[d].t
      BY <1>4 DEF OnlyWith, Holding
    <2> QED
      BY <1>1, <2>1, <2>2, <2>3, SMT DEF HeldInUse, At
  <1> QED
    BY <1>2, <1>3, <1>4

LEMMA EndsElse ==
    ASSUME Sound, NEW c \in Core, NEW t \in Thread, OnlyThread(t), OnlyWith(c, t),
           \A d \in Core \ {c} : op[d].at \in Ending => op[d].t # t,
           op'[c].at \in Ending => state'[t] = "EXITED" /\ refc'[t] = 0
    PROVE  EndsAlone'
  <1> SUFFICES ASSUME NEW d \in Core, op'[d].at \in Ending
               PROVE  /\ state'[op'[d].t] = "EXITED" /\ refc'[op'[d].t] = 0
                      /\ \A e \in Core : op'[e].at \in Ending /\ op'[e].t = op'[d].t => e = d
    BY DEF EndsAlone
  <1> /\ ThreadsTypeOK /\ OpType /\ OpsMatch /\ RunsLive /\ HeldInUse /\ EndsAlone /\ LockHeld
      /\ Counted /\ ListsApart /\ HandsApart /\ FreeIsKept /\ StacksOwned
    BY DEF Sound, ThreadsTypeOK, OpType
  <1>1. \A e \in Core \ {c} : op'[e] = op[e]
    BY DEF OnlyWith, Others
  <1>2. CASE d = c
    BY <1>1, <1>2 DEF OnlyWith
  <1>3. CASE d # c
    <2>1. op[d].at \in Ending /\ op'[d] = op[d] /\ op[d].t \in Thread \ {t}
      BY <1>1, <1>3 DEF OpsMatch, OpMatches, Ending
    <2>2. state'[op[d].t] = state[op[d].t] /\ refc'[op[d].t] = refc[op[d].t]
      BY <2>1 DEF OnlyThread
    <2> QED
      BY <1>1, <2>1, <2>2 DEF EndsAlone, OnlyWith
  <1> QED
    BY <1>2, <1>3

LEMMA CountedElse ==
    ASSUME Sound, NEW c \in Core, NEW t \in Thread, OnlyThread(t), OnlyWith(c, t),
           refc'[t] = Cardinality(Doing(t, Holding)')
                      + IF state'[t] \in {"CREATED", "LIVE"} THEN 1 ELSE 0
    PROVE  Counted'
  <1> ASSUME NEW u \in Thread \ {t} PROVE Doing(u, Holding)' = Doing(u, Holding)
    BY DoingElse DEF OnlyWith
  <1> QED
    BY DEF Sound, Counted, OnlyThread

LEMMA AllocInitKeeps ==
    ASSUME CountingLaws, Sound, NEW c \in Core, AllocInit(c)
    PROVE  Sound'
  <1> /\ ThreadsTypeOK /\ OpType /\ OpsMatch /\ RunsLive /\ HeldInUse /\ EndsAlone /\ LockHeld
      /\ Counted /\ ListsApart /\ HandsApart /\ FreeIsKept /\ StacksOwned
    BY DEF Sound, ThreadsTypeOK, OpType
  <1> PICK t : t = op[c].t
    OBVIOUS
  <1>1. /\ At(c, "init") /\ Step(c, "link")
        /\ refc' = [refc EXCEPT ![t] = 2] /\ home' = [home EXCEPT ![t] = None]
        /\ state' = [state EXCEPT ![t] = "CREATED"] /\ started' = started \ {t}
        /\ UNCHANGED <<gen, stack, flag, handler, pool, signals, running, stray, crossed>>
    BY DEF AllocInit, ghosts
  <1>2. MovesTo(c, "link") /\ OpType'
    BY <1>1, StepIs DEF Place, Holding, OpType
  <1>3. /\ t \in Thread /\ state[t] = "NOTALLOC" /\ Doing(t, {"freeing"}) = {}
        /\ refc[t] = 0 /\ Cardinality(Doing(t, Holding)) = 0
        /\ \A d \in Core : op[d].at \in Holding \cup Ending => op[d].t # t
    BY <1>1, HandFree, FreeUnheld DEF At, Creating
  <1>4. ThreadsTypeOK'
    BY <1>1, <1>2, <1>3, SMT DEF OpType, pool, ThreadsTypeOK
  <1>5. OpsMatch'
    <2> OpMatches(c)'
      BY <1>1, <1>2, <1>3 DEF OpsMatch, OpMatches, At, MovesTo
    <2> QED
      BY <1>1, <1>2, OpsKept DEF MovesTo
  <1>6. RunsLive'
    BY <1>1, <1>3, ThreadAssumption, SMT DEF RunsLive
  <1>7. OnlyThread(t) /\ OnlyWith(c, t)
    <2>1. OnlyThread(t)
      BY <1>1 DEF OnlyThread, ThreadsTypeOK
    <2> QED
      BY <1>1, <1>2, <1>3, <2>1 DEF OnlyWith, MovesTo
  <1>8. HeldInUse' /\ EndsAlone'
    BY <1>1, <1>2, <1>3, <1>7, HeldElse, EndsElse DEF MovesTo, Ending, ThreadsTypeOK
  <1>9. SamePlace(c, {"freeing"}) /\ SamePlace(c, {"unlock"})
    BY <1>1, <1>2 DEF SamePlace, At, MovesTo
  <1>10. LockHeld'
    BY <1>1, <1>2, <1>9, LockKept DEF MovesTo, pool
  <1>11. Counted'
    <2>1. Cardinality(Doing(t, Holding)') = 1
      <3> Cardinality(Doing(t, Holding)') = Cardinality(Doing(t, Holding)) + 1
        BY <1>1, <1>2, DoingGrows DEF MovesTo, Holding, At
      <3> QED
        BY <1>3, SMT
    <2> QED
      BY <1>1, <1>3, <1>7, <2>1, CountedElse, SMT DEF ThreadsTypeOK
  <1>12. ListsApart'
    BY <1>1, ListsKept DEF pool
  <1>13. \A x : List(x)' = List(x)
    BY <1>1 DEF List, pool
  <1>14. HandsApart'
    BY <1>1, <1>2, <1>13 DEF HandsApart, MovesTo, Others, Creating
  <1>15. FreeIsKept'
    <2>1. ASSUME NEW u \in Thread PROVE Doing(u, {"freeing"})' = Doing(u, {"freeing"})
      BY <1>2, <1>9, DoingSame DEF MovesTo
    <2>2. ASSUME NEW u \in Thread \ {t} PROVE Doing(u, Creating)' = Doing(u, Creating)
      BY <1>2, DoingElse DEF MovesTo
    <2>3. /\ \A x \in Lists : t \notin Members(List(x))
          /\ \A d \in Core \ {c} : op[d].at \in Creating => op[d].t # t
      BY <1>1 DEF HandsApart, Creating, At
    <2>4. Doing(t, Creating)' = {}
      BY <1>2, <2>3 DEF Doing, MovesTo, Others, Creating
    <2> QED
      BY <1>1, <1>3, <1>13, <2>1, <2>2, <2>3, <2>4 DEF FreeIsKept, IsFree, ThreadsTypeOK
  <1>16. StacksOwned'
    BY <1>1, <1>3, SMT DEF StacksOwned
  <1> QED
    BY <1>4, <1>5, <1>6, <1>7, <1>8, <1>10, <1>11, <1>12, <1>14, <1>15, <1>16 DEF Sound

\* The rest of the invariant, when no TCB is allocated or freed.
LEMMA ListsElse ==
    ASSUME Sound, NEW c \in Core, Others(c), NEW t \in Thread, OnlyThread(t),
           state[t] # "NOTALLOC", state'[t] # "NOTALLOC", UNCHANGED pool,
           op[c].at \notin Creating \cup {"freeing"}, op'[c].at \notin Creating \cup {"freeing"}
    PROVE  LockHeld' /\ ListsApart' /\ HandsApart' /\ FreeIsKept'
  <1> /\ ThreadsTypeOK /\ OpType /\ OpsMatch /\ RunsLive /\ HeldInUse /\ EndsAlone /\ LockHeld
      /\ Counted /\ ListsApart /\ HandsApart /\ FreeIsKept /\ StacksOwned
    BY DEF Sound, ThreadsTypeOK, OpType
  <1> USE DEF pool
  <1>1. /\ SamePlace(c, {"freeing"}) /\ SamePlace(c, {"unlock"}) /\ SamePlace(c, Creating)
    BY DEF SamePlace, Creating
  <1>2. LockHeld' /\ ListsApart' /\ HandsApart'
    BY <1>1, LockKept, ListsKept, HandsKept
  <1>3. \A x : List(x)' = List(x)
    BY DEF List
  <1>4. ASSUME NEW u \in Thread
        PROVE  /\ Doing(u, Creating)' = Doing(u, Creating)
               /\ Doing(u, {"freeing"})' = Doing(u, {"freeing"})
               /\ state'[u] = "NOTALLOC" <=> state[u] = "NOTALLOC"
    BY <1>1, DoingSame DEF OnlyThread
  <1>5. FreeIsKept'
    BY <1>3, <1>4 DEF FreeIsKept, IsFree
  <1> QED
    BY <1>2, <1>5

LEMMA CreateLinkKeeps ==
    ASSUME Sound, NEW c \in Core, CreateLink(c)
    PROVE  Sound'
  <1> /\ ThreadsTypeOK /\ OpType /\ OpsMatch /\ RunsLive /\ HeldInUse /\ EndsAlone /\ LockHeld
      /\ Counted /\ ListsApart /\ HandsApart /\ FreeIsKept /\ StacksOwned
    BY DEF Sound, ThreadsTypeOK, OpType
  <1> PICK t : t = op[c].t
    OBVIOUS
  <1>1. PICK m \in Core \cup {None} :
        /\ At(c, "link") /\ Step(c, "put") /\ home' = [home EXCEPT ![t] = m]
        /\ stack' = stack \cup {t} /\ state' = [state EXCEPT ![t] = "LIVE"]
        /\ UNCHANGED <<refc, gen, flag, handler, started, pool, signals, running, stray, crossed>>
    BY DEF CreateLink, ghosts
  <1>2. MovesTo(c, "put") /\ OpType'
    BY <1>1, StepIs DEF Place, Holding, OpType
  <1>3. /\ t \in Thread /\ state[t] = "CREATED"
        /\ \A d \in Core \ {c} : op[d].t = t => op[d].at # "link" /\ op[d].at \notin Ending
    BY <1>1 DEF OpsMatch, OpMatches, HeldInUse, EndsAlone, At, Holding
  <1>4. ThreadsTypeOK'
    BY <1>1, <1>2, <1>3 DEF OpType, pool, ThreadsTypeOK
  <1>5. OpsMatch'
    <2> OpMatches(c)'
      BY <1>1, <1>2, <1>3 DEF OpsMatch, OpMatches, At, MovesTo
    <2> QED
      BY <1>1, <1>2, OpsKept DEF MovesTo
  <1>6. RunsLive'
    BY <1>1, <1>3, ThreadAssumption, SMT DEF RunsLive, ThreadsTypeOK
  <1>7. OnlyThread(t) /\ OnlyWith(c, t)
    <2>1. OnlyThread(t)
      BY <1>1 DEF OnlyThread, ThreadsTypeOK
    <2> QED
      BY <1>1, <1>2, <1>3, <2>1 DEF OnlyWith, MovesTo
  <1>8. HeldInUse' /\ EndsAlone'
    BY <1>1, <1>2, <1>3, <1>7, HeldElse, EndsElse, SMT DEF MovesTo, Ending
  <1>9. Counted'
    <2> SamePlace(c, Holding)
      BY <1>1, <1>2 DEF SamePlace, MovesTo, At, Holding
    <2> Doing(t, Holding)' = Doing(t, Holding)
      BY <1>2, DoingSame DEF MovesTo
    <2> QED
      BY <1>1, <1>3, <1>7, CountedElse, SMT DEF Counted
  <1>10. LockHeld' /\ ListsApart' /\ HandsApart' /\ FreeIsKept'
    BY <1>1, <1>2, <1>3, <1>7, ListsElse, SMT DEF MovesTo, At, Creating
  <1>11. StacksOwned'
    BY <1>1, <1>3 DEF StacksOwned, ThreadsTypeOK
  <1> QED
    BY <1>4, <1>5, <1>6, <1>8, <1>9, <1>10, <1>11 DEF Sound

\* As the count was not 0, the thread is still in use.
LEMMA GotKeeps ==
    ASSUME CountingLaws, Sound, NEW c \in Core, Got(c), stray' = {}
    PROVE  Sound'
  <1> /\ ThreadsTypeOK /\ OpType /\ OpsMatch /\ RunsLive /\ HeldInUse /\ EndsAlone /\ LockHeld
      /\ Counted /\ ListsApart /\ HandsApart /\ FreeIsKept /\ StacksOwned
    BY DEF Sound, ThreadsTypeOK, OpType
  <1> PICK t : t = op[c].t
    OBVIOUS
  <1>1. /\ At(c, "got") /\ refc' = [refc EXCEPT ![t] = @ + 1] /\ refc[t] # 0
        /\ UNCHANGED <<state, gen, home, stack, flag, handler, started, pool, signals, running,
                       crossed>>
    BY DEF Got
  <1>2. t \in Thread
    BY <1>1 DEF OpsMatch, OpMatches, At
  <1>3. /\ Others(c) /\ OpType'
        /\ op'[c].at \in {"post", "put"} /\ op'[c].kind = op[c].kind /\ op'[c].t = t
        /\ op[c].kind = "exit" => op'[c].at = "put"
    <2>1. PICK p \in {"post", "put"} :
              /\ op' = [op EXCEPT ![c].at = p, ![c].core = home[t]]
              /\ op[c].kind = "exit" => p = "put"
      BY DEF Got
    <2>2. home[t] \in Core \cup {None} /\ p \in Place
      BY <1>2 DEF Place, Holding, ThreadsTypeOK
    <2> QED
      BY <2>1, <2>2 DEF Others, OpType
  <1>4. /\ state[t] # "NOTALLOC"
        /\ \A d \in Core : op[d].at \in Ending => op[d].t # t
    BY <1>1, <1>2, FreeUnheld DEF EndsAlone
  <1>5. ThreadsTypeOK'
    BY <1>1, <1>2, <1>3, SMT DEF OpType, pool, ThreadsTypeOK
  <1>6. OpsMatch'
    <2> OpMatches(c)'
      BY <1>1, <1>2, <1>3 DEF OpsMatch, OpMatches, At
    <2> QED
      BY <1>1, <1>3, OpsKept
  <1>7. RunsLive'
    BY <1>1 DEF RunsLive
  <1>8. OnlyThread(t) /\ OnlyWith(c, t)
    BY <1>1, <1>2, <1>3, SMT DEF OnlyThread, OnlyWith
  <1>9. EndsAlone'
    BY <1>3, <1>2, <1>4, <1>8, EndsElse DEF Ending
  <1>10. HeldInUse'
    BY <1>1, <1>3, <1>4, HeldSame
  <1>11. Counted'
    <2>1. Cardinality(Doing(t, Holding)') = Cardinality(Doing(t, Holding)) + 1
      BY <1>1, <1>3, DoingGrows DEF Holding, At
    <2>2. Cardinality(Doing(t, Holding)) \in Nat
      BY DoingFinite
    <2>3. refc'[t] = Cardinality(Doing(t, Holding)')
                     + IF state'[t] \in {"CREATED", "LIVE"} THEN 1 ELSE 0
      BY <1>1, <1>2, <2>1, <2>2, SMT DEF Counted, ThreadsTypeOK
    <2> QED
      BY <1>2, <1>8, <2>3, CountedElse
  <1>12. LockHeld' /\ ListsApart' /\ HandsApart' /\ FreeIsKept'
    BY <1>1, <1>2, <1>3, <1>4, <1>8, ListsElse DEF At, Creating
  <1>13. StacksOwned'
    BY <1>1 DEF StacksOwned
  <1> QED
    BY <1>5, <1>6, <1>7, <1>9, <1>10, <1>11, <1>12, <1>13 DEF Sound

\* The last reference to a thread is given back after it has exited.
LEMMA PutKeeps ==
    ASSUME CountingLaws, Sound, NEW c \in Core, Put(c)
    PROVE  Sound'
  <1> /\ ThreadsTypeOK /\ OpType /\ OpsMatch /\ RunsLive /\ HeldInUse /\ EndsAlone /\ LockHeld
      /\ Counted /\ ListsApart /\ HandsApart /\ FreeIsKept /\ StacksOwned
    BY DEF Sound, ThreadsTypeOK, OpType
  <1> PICK t : t = op[c].t
    OBVIOUS
  <1>1. /\ At(c, "put") /\ refc' = [refc EXCEPT ![t] = @ - 1]
        /\ IF refc[t] = 1 THEN Step(c, "last")
           ELSE IF op[c].kind = "exit" THEN Step(c, "switch") ELSE Done(c)
        /\ UNCHANGED <<state, gen, home, stack, flag, handler, started, pool, signals, running,
                       stray, crossed>>
    BY DEF Put, After, ghosts
  <1>2. /\ t \in Thread /\ state[t] # "NOTALLOC" /\ refc[t] >= 1
        /\ Cardinality(Doing(t, Holding)) \in Nat \ {0}
    BY <1>1, HolderCounted DEF HeldInUse, At, Holding
  <1>3. /\ Others(c) /\ OpType'
        /\ \/ refc[t] = 1 /\ MovesTo(c, "last")
           \/ refc[t] # 1 /\ op[c].kind = "exit" /\ MovesTo(c, "switch")
           \/ refc[t] # 1 /\ op'[c] = User
    BY <1>1, StepIs, DoneIs DEF Place, Ending, OpType, MovesTo
  <1>4. refc[t] = 1 => state[t] = "EXITED" /\ op[c].kind # "exit"
    <2>1. refc[t] = 1 => state[t] \notin {"CREATED", "LIVE"}
      BY <1>2, SMT DEF Counted
    <2>2. refc[t] = 1 => state[t] = "EXITED"
      BY <1>2, <2>1 DEF ThreadsTypeOK
    <2>3. op[c].kind = "exit" => state[t] = "LIVE"
      BY <1>1, <1>2, ThreadAssumption, SMT DEF OpsMatch, OpMatches, RunsLive
    <2> QED
      BY <2>2, <2>3
  <1>5. ThreadsTypeOK'
    BY <1>1, <1>2, <1>3, SMT DEF OpType, pool, ThreadsTypeOK
  <1>6. OpsMatch'
    <2> OpMatches(c)'
      BY <1>1, <1>2, <1>3, <1>4, UserIs DEF OpsMatch, OpMatches, At, MovesTo
    <2> QED
      BY <1>1, <1>3, OpsKept
  <1>7. RunsLive'
    BY <1>1 DEF RunsLive
  <1>8. OnlyThread(t) /\ OnlyWith(c, t)
    BY <1>1, <1>2, <1>3, UserIs, SMT DEF OnlyThread, OnlyWith, MovesTo, Holding, Ending
  <1>9. EndsAlone'
    <2>1. \A d \in Core \ {c} : op[d].at \in Ending => op[d].t # t
      BY <1>2, SMT DEF EndsAlone
    <2>2. op'[c].at \in Ending => state'[t] = "EXITED" /\ refc'[t] = 0
      BY <1>1, <1>2, <1>3, <1>4, UserIs, SMT DEF MovesTo, Ending, ThreadsTypeOK
    <2> QED
      BY <1>2, <1>8, <2>1, <2>2, EndsElse
  <1>10. HeldInUse'
    <2> op'[c].at \notin Holding
      BY <1>3, UserIs DEF Holding, MovesTo
    <2> QED
      BY <1>1, <1>3, HeldSame
  <1>11. Counted'
    <2>1. Cardinality(Doing(t, Holding)') = Cardinality(Doing(t, Holding)) - 1
      <3> op[c].at \in Holding /\ op'[c].at \notin Holding
        BY <1>1, <1>3, UserIs DEF MovesTo, Holding, At
      <3> QED
        BY <1>3, DoingShrinks
    <2>2. refc'[t] = Cardinality(Doing(t, Holding)')
                     + IF state'[t] \in {"CREATED", "LIVE"} THEN 1 ELSE 0
      BY <1>1, <1>2, <2>1, SMT DEF Counted, ThreadsTypeOK
    <2> QED
      BY <1>2, <1>8, <2>2, CountedElse
  <1>12. LockHeld' /\ ListsApart' /\ HandsApart' /\ FreeIsKept'
    <2> /\ op[c].at \notin Creating \cup {"freeing"}
        /\ op'[c].at \notin Creating \cup {"freeing"}
      BY <1>1, <1>3, UserIs DEF MovesTo, Creating, At
    <2> QED
      BY <1>1, <1>2, <1>3, <1>8, ListsElse
  <1>13. StacksOwned'
    BY <1>1 DEF StacksOwned
  <1> QED
    BY <1>5, <1>6, <1>7, <1>9, <1>10, <1>11, <1>12, <1>13 DEF Sound

\* The reference of the thread itself becomes that of the core which ends it.
LEMMA ExitSwitchKeeps ==
    ASSUME CountingLaws, Sound, NEW c \in Core, ExitSwitch(c)
    PROVE  Sound'
  <1> /\ ThreadsTypeOK /\ OpType /\ OpsMatch /\ RunsLive /\ HeldInUse /\ EndsAlone /\ LockHeld
      /\ Counted /\ ListsApart /\ HandsApart /\ FreeIsKept /\ StacksOwned
    BY DEF Sound, ThreadsTypeOK, OpType
  <1> PICK t : t = op[c].t
    OBVIOUS
  <1>1. /\ At(c, "switch") /\ state' = [state EXCEPT ![t] = "EXITED"]
        /\ running' = [running EXCEPT ![c] = None]
        /\ op' = [op EXCEPT ![c].at = "put", ![c].kind = "end"]
        /\ UNCHANGED <<refc, gen, home, stack, flag, handler, started, pool, signals, stray,
                       crossed>>
    BY DEF ExitSwitch, ghosts
  <1>2. t \in Thread /\ state[t] = "LIVE" /\ home[t] = c
    <2>1. OpMatches(c) /\ op[c].at = "switch"
      BY <1>1 DEF OpsMatch, At
    <2>2. t \in Thread /\ running[c] = t
      BY <2>1 DEF OpMatches, At
    <2> QED
      BY <2>2, ThreadAssumption DEF RunsLive
  <1>3. Others(c) /\ OpType' /\ op'[c].at = "put" /\ op'[c].kind = "end" /\ op'[c].t = t
    <2> "put" \in Place /\ "end" \in Kind
      BY DEF Place, Holding, Kind
    <2> QED
      BY <1>1 DEF Others, OpType
  <1>4. \A d \in Core \ {c} : op[d].t = t => op[d].at # "link" /\ op[d].at \notin Ending
    BY <1>2 DEF HeldInUse, EndsAlone, At, Holding
  <1>5. ThreadsTypeOK'
    BY <1>1, <1>2, <1>3 DEF OpType, pool, ThreadsTypeOK
  <1>6. OpsMatch'
    <2> OpMatches(c)'
      BY <1>2, <1>3 DEF OpMatches, At
    <2> QED
      BY <1>1, <1>3, OpsKept, SMT
  <1>7. RunsLive'
    <2> \A d \in Core \ {c} : running'[d] = running[d] /\ running[d] # t
      BY <1>1, <1>2, ThreadAssumption, SMT DEF RunsLive
    <2> QED
      BY <1>1, <1>2, SMT DEF RunsLive, ThreadsTypeOK
  <1>8. OnlyThread(t) /\ OnlyWith(c, t)
    BY <1>1, <1>2, <1>3, SMT DEF OnlyThread, OnlyWith
  <1>9. HeldInUse' /\ EndsAlone'
    BY <1>1, <1>2, <1>3, <1>4, <1>8, HeldElse, EndsElse DEF Ending, ThreadsTypeOK
  <1>10. Counted'
    <2>1. Cardinality(Doing(t, Holding)') = Cardinality(Doing(t, Holding)) + 1
      BY <1>1, <1>3, DoingGrows DEF Holding, At
    <2>2. Cardinality(Doing(t, Holding)) \in Nat
      BY DoingFinite
    <2>3. refc'[t] = Cardinality(Doing(t, Holding)')
                     + IF state'[t] \in {"CREATED", "LIVE"} THEN 1 ELSE 0
      BY <1>1, <1>2, <2>1, <2>2, SMT DEF Counted, ThreadsTypeOK
    <2> QED
      BY <1>2, <1>8, <2>3, CountedElse
  <1>11. LockHeld' /\ ListsApart' /\ HandsApart' /\ FreeIsKept'
    BY <1>1, <1>2, <1>3, <1>8, ListsElse DEF At, Creating, ThreadsTypeOK
  <1>12. StacksOwned'
    BY <1>1, <1>2, SMT DEF StacksOwned
  <1> QED
    BY <1>5, <1>6, <1>7, <1>9, <1>10, <1>11, <1>12 DEF Sound

-----------------------------------------------------------------------------
(* TCBs taken from a list and put into one. *)

LEMMA ListType ==
    ASSUME Sound, NEW x \in Lists
    PROVE  List(x) \in Seq(Thread) /\ NoRepeat(List(x)) /\ Members(List(x)) \subseteq Thread
  <1> List(x) \in Seq(Thread)
    BY ThreadAssumption DEF Sound, ThreadsTypeOK, Lists, List
  <1> QED
    BY SMT DEF Sound, ListsApart, Members

\* The lists other than x stay as they are.
OnlyList(x) == \A y \in Lists \ {x} : List(y)' = List(y)

\* A free TCB goes from a list into the hands of c.
LEMMA TcbTaken ==
    ASSUME Sound, NEW c \in Core, Others(c), state' = state, NEW x \in Lists, OnlyList(x),
           List(x) # <<>>, List(x)' = Tail(List(x)),
           op[c].at = "alloc", op'[c].at \in Creating, op'[c].t = Head(List(x))
    PROVE  ListsApart' /\ HandsApart' /\ FreeIsKept'
  <1> PICK t : t = op'[c].t
    OBVIOUS
  <1>1. /\ t \in Thread /\ t \in Members(List(x))
        /\ NoRepeat(List(x)') /\ Members(List(x)') = Members(List(x)) \ {t}
    BY HeadTaken, ListType, SMT
  <1>2. /\ \A y \in Lists \ {x} : List(y)' = List(y) /\ t \notin Members(List(y))
        /\ \A y \in Lists : Members(List(y)') = Members(List(y)) \ {t}
    BY <1>1 DEF Sound, ListsApart, OnlyList
  <1>3. \A d \in Core \ {c} : op'[d] = op[d] /\ (op[d].at \in Creating => op[d].t # t)
    BY <1>1 DEF Sound, HandsApart, Others
  <1>4. ListsApart'
    <2>1. \A y \in Lists : NoRepeat(List(y)')
      BY <1>1, <1>2 DEF Sound, ListsApart
    <2>2. ASSUME NEW y \in Lists, NEW z \in Lists, y # z
          PROVE  Members(List(y)') \cap Members(List(z)') = {}
      <3> Members(List(y)) \cap Members(List(z)) = {}
        BY <2>2 DEF Sound, ListsApart
      <3> QED
        BY <1>1, <1>2, <2>2
    <2> QED
      BY <2>1, <2>2 DEF ListsApart, Lists
  <1>5. HandsApart'
    <2> SUFFICES ASSUME NEW d \in Core, op'[d].at \in Creating
                 PROVE  /\ \A y \in Lists : op'[d].t \notin Members(List(y)')
                        /\ \A e \in Core : op'[e].at \in Creating /\ op'[e].t = op'[d].t => e = d
      BY DEF HandsApart, Lists
    <2>1. CASE d = c
      BY <1>2, <1>3, <2>1
    <2>2. CASE d # c
      BY <1>2, <1>3, <2>2 DEF Sound, HandsApart
    <2> QED
      BY <2>1, <2>2
  <1>6. FreeIsKept'
    <2>1. \A u \in Thread : /\ Doing(u, {"freeing"})' = Doing(u, {"freeing"})
                            /\ u # t => Doing(u, Creating)' = Doing(u, Creating)
      <3> op[c].at \notin Creating /\ SamePlace(c, {"freeing"})
        BY DEF Creating, SamePlace
      <3> QED
        BY DoingSame, DoingElse
    <2>2. c \in Doing(t, Creating)'
      BY DEF Doing
    <2>3. IsFree(t)
      BY <1>1 DEF Sound, FreeIsKept
    <2> QED
      BY <1>2, <2>1, <2>2, <2>3 DEF Sound, FreeIsKept, IsFree, Lists
  <1> QED
    BY <1>4, <1>5, <1>6

\* A TCB that is not free goes into a list, and is free then.
LEMMA TcbGiven ==
    ASSUME Sound, NEW c \in Core, Others(c), NEW t \in Thread, OnlyThread(t),
           NEW x \in Lists, OnlyList(x), List(x)' = Append(List(x), t),
           ~ IsFree(t), IsFree(t)', op[c].t = t,
           op[c].at \notin Creating, op'[c].at \notin Creating,
           op[c].at # "freeing", op'[c].at = "freeing" => op'[c].t = t
    PROVE  ListsApart' /\ HandsApart' /\ FreeIsKept'
  <1>1. /\ \A y \in Lists : t \notin Members(List(y))
        /\ \A d \in Core : op[d].at \in Creating => op[d].t # t
    BY DEF Sound, FreeIsKept, Doing
  <1>2. NoRepeat(List(x)') /\ Members(List(x)') = Members(List(x)) \cup {t}
    BY <1>1, Appended, ListType, SMT
  <1>3. \A y \in Lists \ {x} : List(y)' = List(y)
    BY DEF OnlyList
  <1>4. \A d \in Core : op'[d].at \in Creating => op'[d] = op[d]
    BY DEF Others
  <1>5. ListsApart'
    <2>1. \A y \in Lists : NoRepeat(List(y)')
      BY <1>1, <1>2, <1>3 DEF Sound, ListsApart
    <2>2. ASSUME NEW y \in Lists, NEW z \in Lists, y # z
          PROVE  Members(List(y)') \cap Members(List(z)') = {}
      <3> Members(List(y)) \cap Members(List(z)) = {}
        BY <2>2 DEF Sound, ListsApart
      <3> QED
        BY <1>1, <1>2, <1>3, <2>2
    <2> QED
      BY <2>1, <2>2 DEF ListsApart, Lists
  <1>6. HandsApart'
    <2> SUFFICES ASSUME NEW d \in Core, op'[d].at \in Creating
                 PROVE  /\ \A y \in Lists : op'[d].t \notin Members(List(y)')
                        /\ \A e \in Core : op'[e].at \in Creating /\ op'[e].t = op'[d].t => e = d
      BY DEF HandsApart, Lists
    <2>1. op'[d] = op[d] /\ op[d].at \in Creating /\ op[d].t # t
      BY <1>1, <1>4
    <2>2. ASSUME NEW y \in Lists PROVE op'[d].t \notin Members(List(y)')
      BY <1>2, <1>3, <2>1 DEF Sound, HandsApart
    <2>3. ASSUME NEW e \in Core, op'[e].at \in Creating, op'[e].t = op'[d].t PROVE e = d
      BY <1>4, <2>1, <2>3 DEF Sound, HandsApart
    <2> QED
      BY <2>2, <2>3
  <1>7. FreeIsKept'
    <2>1. \A u \in Thread \ {t} : /\ Doing(u, {"freeing"})' = Doing(u, {"freeing"})
                                  /\ Doing(u, Creating)' = Doing(u, Creating)
                                  /\ state'[u] = state[u]
      BY DoingElse DEF OnlyThread
    <2> QED
      BY <1>2, <1>3, <2>1 DEF Sound, FreeIsKept, IsFree, Lists
  <1> QED
    BY <1>5, <1>6, <1>7

\* The list of c is a list of its own.
LEMMA LocalOnly ==
    ASSUME Sound, NEW c \in Core, NEW s, local' = [local EXCEPT ![c] = s], global' = global
    PROVE  c \in Lists /\ List(c) = local[c] /\ List(c)' = s /\ OnlyList(c)
  BY ThreadAssumption DEF Sound, ThreadsTypeOK, Lists, List, OnlyList

LEMMA GlobalOnly ==
    ASSUME local' = local
    PROVE  None \in Lists /\ List(None) = global /\ List(None)' = global' /\ OnlyList(None)
  BY DEF Lists, List, OnlyList

LEMMA AllocLocalKeeps ==
    ASSUME CountingLaws, Sound, NEW c \in Core, AllocLocal(c)
    PROVE  Sound'
  <1> /\ ThreadsTypeOK /\ OpType /\ OpsMatch /\ RunsLive /\ HeldInUse /\ EndsAlone /\ LockHeld
      /\ Counted /\ ListsApart /\ HandsApart /\ FreeIsKept /\ StacksOwned
    BY DEF Sound, ThreadsTypeOK, OpType
  <1> PICK t : t = Head(local[c])
    OBVIOUS
  <1>1. /\ At(c, "alloc") /\ local[c] # <<>> /\ local' = [local EXCEPT ![c] = Tail(@)]
        /\ op' = [op EXCEPT ![c].at = IF refc[t] > 0 THEN "halt" ELSE "init", ![c].t = t]
        /\ UNCHANGED <<tcb, global, glock, signals, running, stray, crossed>>
    BY DEF AllocLocal, ghosts
  <1>2. /\ c \in Lists /\ List(c) = local[c] /\ List(c)' = Tail(local[c]) /\ OnlyList(c)
    BY <1>1, LocalOnly
  <1>3. t \in Thread /\ t \in Members(List(c)) /\ Tail(local[c]) \in Seq(Thread)
    BY <1>1, <1>2, ListType, HeadTaken
  <1>4. refc[t] = 0
    <2>1. state[t] = "NOTALLOC" \/ Doing(t, {"freeing"}) # {}
      BY <1>2, <1>3 DEF FreeIsKept, IsFree
    <2>2. Doing(t, {"freeing"}) # {} => refc[t] = 0
      BY DEF EndsAlone, Ending, Doing
    <2> QED
      BY <1>3, <2>1, <2>2, FreeUnheld
  <1>5. Others(c) /\ OpType' /\ op'[c].at = "init" /\ op'[c].kind = op[c].kind /\ op'[c].t = t
    <2> op' = [op EXCEPT ![c].at = "init", ![c].t = t] /\ "init" \in Place
      BY <1>1, <1>4, SMT DEF Place, Creating
    <2> QED
      BY <1>3 DEF Others, OpType
  <1>6. ThreadsTypeOK'
    BY <1>1, <1>3, <1>5 DEF OpType, tcb, ThreadsTypeOK
  <1>7. OpsMatch'
    <2> OpMatches(c)'
      BY <1>1, <1>3, <1>5 DEF OpsMatch, OpMatches, At
    <2> QED
      BY <1>1, <1>5, OpsKept
  <1>8. /\ SamePlace(c, Holding) /\ SamePlace(c, {"link"}) /\ SamePlace(c, Ending)
        /\ SamePlace(c, {"freeing"}) /\ SamePlace(c, {"unlock"})
    BY <1>1, <1>5 DEF SamePlace, At, Holding, Ending
  <1>9. RunsLive' /\ StacksOwned'
    BY <1>1 DEF RunsLive, StacksOwned, tcb
  <1>10. HeldInUse' /\ EndsAlone' /\ Counted' /\ LockHeld'
    BY <1>1, <1>5, <1>8, HeldKept, EndsKept, CountedKept, LockKept DEF tcb
  <1>11. ListsApart' /\ HandsApart' /\ FreeIsKept'
    BY <1>1, <1>2, <1>5, TcbTaken DEF At, Creating, tcb
  <1> QED
    BY <1>6, <1>7, <1>9, <1>10, <1>11 DEF Sound

LEMMA AllocGlobalKeeps ==
    ASSUME Sound, NEW c \in Core, AllocGlobal(c)
    PROVE  Sound'
  <1> /\ ThreadsTypeOK /\ OpType /\ OpsMatch /\ RunsLive /\ HeldInUse /\ EndsAlone /\ LockHeld
      /\ Counted /\ ListsApart /\ HandsApart /\ FreeIsKept /\ StacksOwned
    BY DEF Sound, ThreadsTypeOK, OpType
  <1>1. /\ At(c, "alloc") /\ glock = None /\ glock' = c
        /\ UNCHANGED <<tcb, local, signals, running, stray, crossed>>
    BY DEF AllocGlobal, ghosts
  <1>2. None \in Lists /\ List(None) = global /\ List(None)' = global' /\ OnlyList(None)
    BY <1>1, GlobalOnly
  <1>3. op[c].t = None
    BY <1>1 DEF OpsMatch, OpMatches, At
  <1>4. /\ Others(c) /\ OpType' /\ op'[c].kind = op[c].kind /\ global' \in Seq(Thread)
        /\ \/ global' = global /\ op'[c].at = "halt" /\ op'[c].t = None
           \/ /\ global # <<>> /\ global' = Tail(global)
              /\ op'[c].at = "unlock" /\ op'[c].t = Head(global) /\ Head(global) \in Thread
    <2>1. CASE global = <<>>
      <3> Step(c, "halt") /\ global' = global
        BY <2>1 DEF AllocGlobal
      <3> QED
        BY <1>3, StepIs DEF MovesTo, Place, OpType, ThreadsTypeOK
    <2>2. CASE global # <<>>
      <3>1. op' = [op EXCEPT ![c].at = "unlock", ![c].t = Head(global)] /\ global' = Tail(global)
        BY <2>2 DEF AllocGlobal
      <3>2. Head(global) \in Thread /\ Tail(global) \in Seq(Thread)
        BY <1>2, <2>2, ListType, HeadTaken
      <3>3. "unlock" \in Place
        BY DEF Place, Creating
      <3> QED
        BY <2>2, <3>1, <3>2, <3>3 DEF Others, OpType
    <2> QED
      BY <2>1, <2>2
  <1>5. ThreadsTypeOK'
    BY <1>1, <1>4 DEF OpType, tcb, ThreadsTypeOK
  <1>6. OpsMatch'
    <2> OpMatches(c)'
      BY <1>1, <1>4 DEF OpsMatch, OpMatches, At
    <2> QED
      BY <1>1, <1>4, OpsKept
  <1>7. /\ SamePlace(c, Holding) /\ SamePlace(c, {"link"}) /\ SamePlace(c, Ending)
        /\ SamePlace(c, {"freeing"})
    BY <1>1, <1>4 DEF SamePlace, At, Holding, Ending
  <1>8. RunsLive' /\ StacksOwned'
    BY <1>1 DEF RunsLive, StacksOwned, tcb
  <1>9. HeldInUse' /\ EndsAlone' /\ Counted'
    BY <1>1, <1>4, <1>7, HeldKept, EndsKept, CountedKept DEF tcb
  <1>10. LockHeld'
    <2> \A d \in Core \ {c} : op'[d] = op[d] /\ op[d].at \notin {"freeing", "unlock"}
      BY <1>1, <1>4, ThreadAssumption DEF LockHeld, Others
    <2> QED
      BY <1>1, <1>4 DEF LockHeld, At
  <1>11. ListsApart' /\ HandsApart' /\ FreeIsKept'
    <2>1. CASE global' = global /\ op'[c].at = "halt"
      <3> SamePlace(c, Creating)
        BY <1>1, <2>1 DEF SamePlace, At, Creating
      <3> QED
        BY <1>1, <1>4, <1>7, <2>1, ListsKept, HandsKept, FreeKept DEF tcb
    <2>2. CASE global # <<>> /\ global' = Tail(global) /\ op'[c].at = "unlock"
               /\ op'[c].t = Head(global)
      BY <1>1, <1>2, <1>4, <2>2, TcbTaken DEF At, Creating, tcb
    <2> QED
      BY <1>4, <2>1, <2>2
  <1> QED
    BY <1>5, <1>6, <1>8, <1>9, <1>10, <1>11 DEF Sound

\* What a core that ends a thread can rely on: no one has a reference to the
\* TCB, and it is in no list until the core puts it there.
LEMMA EndedUnheld ==
    ASSUME CountingLaws, Sound, NEW c \in Core, op[c].at \in Ending
    PROVE  /\ op[c].t \in Thread /\ state[op[c].t] = "EXITED"
           /\ refc[op[c].t] = 0 /\ Cardinality(Doing(op[c].t, Holding)) = 0
           /\ \A d \in Core : op[d].at \in Holding => op[d].t # op[c].t
           /\ \A d \in Core \ {c} : op[d].at \in Ending => op[d].t # op[c].t
           /\ op[c].at # "freeing" => ~ IsFree(op[c].t)
  <1> /\ ThreadsTypeOK /\ OpType /\ OpsMatch /\ RunsLive /\ HeldInUse /\ EndsAlone /\ LockHeld
      /\ Counted /\ ListsApart /\ HandsApart /\ FreeIsKept /\ StacksOwned
    BY DEF Sound, ThreadsTypeOK, OpType
  <1> PICK t : t = op[c].t
    OBVIOUS
  <1>1. t \in Thread
    BY DEF OpsMatch, OpMatches, Ending
  <1>2. state[t] = "EXITED" /\ refc[t] = 0
    BY DEF EndsAlone
  <1>3. \A d \in Core \ {c} : op[d].at \in Ending => op[d].t # t
    BY DEF EndsAlone
  <1>4. Cardinality(Doing(t, Holding)) = 0
    <2> 0 = Cardinality(Doing(t, Holding)) + 0
      BY <1>1, <1>2 DEF Counted
    <2> QED
      BY DoingFinite, SMT
  <1>5. \A d \in Core : op[d].at \in Holding => op[d].t # t
    BY <1>4, DoingFinite DEF Doing
  <1>6. op[c].at # "freeing" => ~ IsFree(t)
    BY <1>2, <1>3 DEF IsFree, Doing, Ending
  <1> QED
    BY <1>1, <1>2, <1>3, <1>4, <1>5, <1>6

LEMMA DestroyGlobalKeeps ==
    ASSUME CountingLaws, Sound, NEW c \in Core, DestroyGlobal(c)
    PROVE  Sound'
  <1> /\ ThreadsTypeOK /\ OpType /\ OpsMatch /\ RunsLive /\ HeldInUse /\ EndsAlone /\ LockHeld
      /\ Counted /\ ListsApart /\ HandsApart /\ FreeIsKept /\ StacksOwned
    BY DEF Sound, ThreadsTypeOK, OpType
  <1> PICK t : t = op[c].t
    OBVIOUS
  <1>1. /\ At(c, "destroy") /\ Step(c, "freeing") /\ glock = None /\ glock' = c
        /\ global' = Append(global, t)
        /\ UNCHANGED <<tcb, local, signals, running, stray, crossed>>
    BY DEF DestroyGlobal, ghosts
  <1>2. MovesTo(c, "freeing") /\ OpType'
    BY <1>1, StepIs DEF Place, Ending, OpType
  <1>3. t \in Thread /\ ~ IsFree(t)
    BY <1>1, EndedUnheld DEF At, Ending
  <1>4. ThreadsTypeOK'
    BY <1>1, <1>2, <1>3, SMT DEF OpType, tcb, ThreadsTypeOK
  <1>5. OpsMatch'
    <2> OpMatches(c)'
      BY <1>1, <1>2, <1>3 DEF OpsMatch, OpMatches, At, MovesTo
    <2> QED
      BY <1>1, <1>2, OpsKept DEF MovesTo
  <1>6. SamePlace(c, Holding) /\ SamePlace(c, {"link"}) /\ SamePlace(c, Ending)
    BY <1>1, <1>2 DEF SamePlace, At, Holding, Ending, MovesTo
  <1>7. RunsLive' /\ StacksOwned'
    BY <1>1 DEF RunsLive, StacksOwned, tcb
  <1>8. HeldInUse' /\ EndsAlone' /\ Counted'
    BY <1>1, <1>2, <1>6, HeldKept, EndsKept, CountedKept DEF tcb, MovesTo
  <1>9. LockHeld'
    <2>1. \A d \in Core \ {c} : op'[d] = op[d] /\ op[d].at \notin {"freeing", "unlock"}
      BY <1>1, <1>2, ThreadAssumption DEF LockHeld, Others, MovesTo
    <2>2. op'[c].t = t /\ t \in Members(global')
      <3> /\ Append(global, t)[Len(global) + 1] = t
          /\ Len(global) + 1 \in DOMAIN Append(global, t)
        BY <1>3, SMT
      <3> QED
        BY <1>1, <1>2 DEF Members, MovesTo
    <2> QED
      BY <1>1, <2>1, <2>2 DEF LockHeld, At
  <1>10. ListsApart' /\ HandsApart' /\ FreeIsKept'
    <2>1. None \in Lists /\ List(None) = global /\ List(None)' = global' /\ OnlyList(None)
      BY <1>1, GlobalOnly
    <2>2. IsFree(t)' /\ OnlyThread(t)
      BY <1>1, <1>2 DEF IsFree, Doing, MovesTo, OnlyThread, tcb
    <2> QED
      BY <1>1, <1>2, <1>3, <2>1, <2>2, TcbGiven DEF At, Creating, MovesTo
  <1> QED
    BY <1>4, <1>5, <1>7, <1>8, <1>9, <1>10 DEF Sound

LEMMA FlushKeeps ==
    ASSUME Sound, NEW c \in Core, DestroyFlush(c)
    PROVE  Sound'
  <1> /\ ThreadsTypeOK /\ OpType /\ OpsMatch /\ RunsLive /\ HeldInUse /\ EndsAlone /\ LockHeld
      /\ Counted /\ ListsApart /\ HandsApart /\ FreeIsKept /\ StacksOwned
    BY DEF Sound, ThreadsTypeOK, OpType
  <1>1. /\ At(c, "flush") /\ Step(c, "keep") /\ glock = None /\ glock' = None
        /\ global' = global \o local[c] /\ local' = [local EXCEPT ![c] = <<>>]
        /\ UNCHANGED <<tcb, signals, running, stray, crossed>>
    BY DEF DestroyFlush, ghosts
  <1>2. MovesTo(c, "keep") /\ OpType'
    BY <1>1, StepIs DEF Place, Ending, OpType
  <1>3. /\ c \in Lists /\ None \in Lists /\ c # None
        /\ List(c) = local[c] /\ List(None) = global
        /\ List(c)' = <<>> /\ List(None)' = global'
        /\ \A y \in Lists \ {c, None} : List(y)' = List(y)
    BY <1>1, ThreadAssumption DEF Lists, List, ThreadsTypeOK
  <1>4. /\ global' \in Seq(Thread) /\ NoRepeat(global')
        /\ Members(global') = Members(global) \cup Members(local[c])
    <2> Members(global) \cap Members(local[c]) = {}
      BY <1>3 DEF ListsApart
    <2> QED
      BY <1>1, <1>3, ListType, ListsJoined, SMT
  <1>5. ThreadsTypeOK'
    <2> local' \in [Core -> Seq(Thread)]
      BY <1>1, SMT DEF ThreadsTypeOK
    <2> QED
      BY <1>1, <1>2, <1>4 DEF OpType, tcb, ThreadsTypeOK
  <1>6. OpsMatch'
    <2> OpMatches(c)'
      BY <1>1, <1>2 DEF OpsMatch, OpMatches, At, MovesTo
    <2> QED
      BY <1>1, <1>2, OpsKept DEF MovesTo
  <1>7. /\ SamePlace(c, Holding) /\ SamePlace(c, {"link"}) /\ SamePlace(c, Ending)
        /\ SamePlace(c, {"freeing"}) /\ SamePlace(c, Creating)
    BY <1>1, <1>2 DEF SamePlace, At, Holding, Ending, Creating, MovesTo
  <1>8. RunsLive' /\ StacksOwned'
    BY <1>1 DEF RunsLive, StacksOwned, tcb
  <1>9. HeldInUse' /\ EndsAlone' /\ Counted'
    BY <1>1, <1>2, <1>7, HeldKept, EndsKept, CountedKept DEF tcb, MovesTo
  <1>10. LockHeld'
    <2> \A d \in Core : op'[d].at \notin {"freeing", "unlock"}
      BY <1>1, <1>2, ThreadAssumption DEF LockHeld, Others, MovesTo
    <2> QED
      BY DEF LockHeld, At
  <1>11. /\ Members(List(c)') = {} /\ NoRepeat(List(c)')
         /\ Members(List(None)') = Members(List(None)) \cup Members(List(c))
    <2> Members(<<>>) = {} /\ NoRepeat(<<>>)
      BY SMT DEF Members, NoRepeat
    <2> QED
      BY <1>3, <1>4
  <1>12. ListsApart'
    <2>1. \A y \in Lists : NoRepeat(List(y)')
      <3> TAKE y \in Lists
      <3>1. CASE y \in Lists \ {c, None}
        BY <1>3, <3>1 DEF ListsApart
      <3>2. CASE y = None
        BY <1>3, <1>4, <3>2
      <3> QED
        BY <1>11, <3>1, <3>2
    <2>2. ASSUME NEW y \in Lists, NEW z \in Lists, y # z
          PROVE  Members(List(y)') \cap Members(List(z)') = {}
      BY <1>3, <1>11, <2>2 DEF ListsApart
    <2> QED
      BY <2>1, <2>2 DEF ListsApart, Lists
  <1>13. ASSUME NEW u
         PROVE  (\E y \in Lists : u \in Members(List(y)'))
                    <=> \E y \in Lists : u \in Members(List(y))
    BY <1>3, <1>11
  <1>14. HandsApart'
    <2> SUFFICES ASSUME NEW d \in Core, op'[d].at \in Creating
                 PROVE  /\ \A y \in Lists : op'[d].t \notin Members(List(y)')
                        /\ \A e \in Core : op'[e].at \in Creating /\ op'[e].t = op'[d].t => e = d
      BY DEF HandsApart, Lists
    <2>1. \A e \in Core : op'[e].at \in Creating => op'[e] = op[e]
      BY <1>2 DEF MovesTo, Others, Creating
    <2> QED
      BY <1>13, <2>1 DEF HandsApart
  <1>15. FreeIsKept'
    <2>1. \A u \in Thread : /\ Doing(u, {"freeing"})' = Doing(u, {"freeing"})
                            /\ Doing(u, Creating)' = Doing(u, Creating)
      BY <1>2, <1>7, DoingSame DEF MovesTo
    <2> QED
      BY <1>1, <1>13, <2>1 DEF FreeIsKept, IsFree, Lists, tcb
  <1> QED
    BY <1>5, <1>6, <1>8, <1>9, <1>10, <1>12, <1>14, <1>15 DEF Sound

\* What Free does to the invariant apart from the lists.
LEMMA FreeKeeps ==
    ASSUME CountingLaws, Sound, NEW c \in Core, op[c].at \in Ending, Free(op[c].t), Done(c),
           UNCHANGED <<refc, flag, handler, started, signals, running, stray>>
    PROVE  /\ Others(c) /\ OpType' /\ op'[c] = User
           /\ OnlyThread(op[c].t) /\ state'[op[c].t] = "NOTALLOC"
           /\ state' \in [Thread -> {"NOTALLOC", "CREATED", "LIVE", "EXITED"}]
           /\ home' \in [Thread -> Core \cup {None}] /\ gen' \in [Thread -> Nat]
           /\ stack' \subseteq Thread /\ crossed' \subseteq Thread
           /\ OpsMatch' /\ RunsLive' /\ HeldInUse' /\ EndsAlone' /\ Counted' /\ StacksOwned'
  <1> /\ ThreadsTypeOK /\ OpType /\ OpsMatch /\ RunsLive /\ HeldInUse /\ EndsAlone /\ LockHeld
      /\ Counted /\ ListsApart /\ HandsApart /\ FreeIsKept /\ StacksOwned
    BY DEF Sound, ThreadsTypeOK, OpType
  <1> PICK t : t = op[c].t
    OBVIOUS
  <1>1. /\ state' = [state EXCEPT ![t] = "NOTALLOC"] /\ home' = [home EXCEPT ![t] = None]
        /\ stack' = stack \ {t} /\ gen' = [gen EXCEPT ![t] = @ + 1]
        /\ crossed' \subseteq crossed \cup {t}
    BY DEF Free
  <1>2. Others(c) /\ OpType' /\ op'[c] = User
    BY DoneIs DEF OpType
  <1>3. /\ t \in Thread /\ state[t] = "EXITED" /\ refc[t] = 0
        /\ Cardinality(Doing(t, Holding)) = 0
        /\ \A d \in Core : op[d].at \in Holding => op[d].t # t
        /\ \A d \in Core \ {c} : op[d].at \in Ending => op[d].t # t
    BY EndedUnheld
  <1>4. /\ state' \in [Thread -> {"NOTALLOC", "CREATED", "LIVE", "EXITED"}]
        /\ home' \in [Thread -> Core \cup {None}] /\ gen' \in [Thread -> Nat]
        /\ stack' \subseteq Thread /\ crossed' \subseteq Thread
        /\ state'[t] = "NOTALLOC"
    BY <1>1, <1>3, SMT DEF ThreadsTypeOK
  <1>5. OpsMatch'
    <2> OpMatches(c)'
      BY <1>2, UserIs DEF OpMatches, At
    <2> QED
      BY <1>2, OpsKept
  <1>6. RunsLive'
    BY <1>1, <1>3, ThreadAssumption, SMT DEF RunsLive, ThreadsTypeOK
  <1>7. OnlyThread(t) /\ OnlyWith(c, t)
    <2>1. OnlyThread(t)
      BY <1>1 DEF OnlyThread, ThreadsTypeOK
    <2>2. op'[c].at \notin Holding \cup Ending
      BY <1>2, UserIs DEF Holding, Ending
    <2> QED
      BY <1>2, <1>3, <2>1, <2>2 DEF OnlyWith
  <1>8. HeldInUse' /\ EndsAlone'
    <2> op'[c].at \notin Holding /\ op'[c].at \notin Ending
      BY <1>2, UserIs DEF Holding, Ending
    <2> QED
      BY <1>3, <1>7, HeldElse, EndsElse
  <1>9. Counted'
    <2> op'[c].at \notin Holding
      BY <1>2, UserIs DEF Holding
    <2> Doing(t, Holding)' = Doing(t, Holding)
      BY <1>2, <1>3, DoingElse
    <2> refc'[t] = Cardinality(Doing(t, Holding)')
                   + IF state'[t] \in {"CREATED", "LIVE"} THEN 1 ELSE 0
      BY <1>3, <1>4, SMT
    <2> QED
      BY <1>3, <1>7, CountedElse
  <1>10. StacksOwned'
    BY <1>1, <1>3 DEF StacksOwned, ThreadsTypeOK
  <1> QED
    BY <1>2, <1>4, <1>5, <1>6, <1>7, <1>8, <1>9, <1>10

LEMMA DestroyUnlockKeeps ==
    ASSUME CountingLaws, Sound, NEW c \in Core, DestroyUnlock(c)
    PROVE  Sound'
  <1> /\ ThreadsTypeOK /\ OpType /\ OpsMatch /\ RunsLive /\ HeldInUse /\ EndsAlone /\ LockHeld
      /\ Counted /\ ListsApart /\ HandsApart /\ FreeIsKept /\ StacksOwned
    BY DEF Sound, ThreadsTypeOK, OpType
  <1> PICK t : t = op[c].t
    OBVIOUS
  <1>1. /\ At(c, "freeing") /\ glock = c /\ glock' = None
        /\ UNCHANGED <<refc, flag, handler, started, global, local, signals, running, stray>>
    BY DEF DestroyUnlock, LockHeld, At
  <1>2. /\ Others(c) /\ OpType' /\ op'[c] = User
        /\ OnlyThread(t) /\ state'[t] = "NOTALLOC"
        /\ state' \in [Thread -> {"NOTALLOC", "CREATED", "LIVE", "EXITED"}]
        /\ home' \in [Thread -> Core \cup {None}] /\ gen' \in [Thread -> Nat]
        /\ stack' \subseteq Thread /\ crossed' \subseteq Thread
        /\ OpsMatch' /\ RunsLive' /\ HeldInUse' /\ EndsAlone' /\ Counted' /\ StacksOwned'
    BY <1>1, FreeKeeps DEF DestroyUnlock, At, Ending
  <1>3. ThreadsTypeOK'
    BY <1>1, <1>2 DEF OpType, ThreadsTypeOK
  <1>4. LockHeld'
    <2> \A d \in Core : op'[d].at \notin {"freeing", "unlock"}
      BY <1>1, <1>2, UserIs DEF LockHeld, Others
    <2> QED
      BY DEF LockHeld, At
  <1>5. SamePlace(c, Creating)
    <2>1. op[c].at \notin Creating /\ op'[c].at \notin Creating
      BY <1>1, <1>2, UserIs DEF At, Creating
    <2> QED
      BY <2>1 DEF SamePlace
  <1>6. ListsApart' /\ HandsApart'
    BY <1>1, <1>2, <1>5, ListsKept, HandsKept
  <1>7. FreeIsKept'
    <2>1. \A x : List(x)' = List(x)
      BY <1>1 DEF List
    <2>2. \A u \in Thread : Doing(u, Creating)' = Doing(u, Creating)
      BY <1>2, <1>5, DoingSame
    <2>3. ASSUME NEW u \in Thread \ {t}
          PROVE  Doing(u, {"freeing"})' = Doing(u, {"freeing"}) /\ state'[u] = state[u]
      <3>1. op[c].t # u /\ op'[c].at \notin {"freeing"}
        BY <1>2, UserIs
      <3>2. Doing(u, {"freeing"})' = Doing(u, {"freeing"})
        BY <1>2, <3>1, DoingElse
      <3> QED
        BY <1>2, <3>2 DEF OnlyThread
    <2>4. IsFree(t) /\ IsFree(t)'
      BY <1>1, <1>2 DEF IsFree, Doing, At
    <2> QED
      BY <2>1, <2>2, <2>3, <2>4 DEF FreeIsKept, IsFree
  <1> QED
    BY <1>2, <1>3, <1>4, <1>6, <1>7 DEF Sound

LEMMA DestroyLocalKeeps ==
    ASSUME CountingLaws, Sound, NEW c \in Core, DestroyLocal(c)
    PROVE  Sound'
  <1> /\ ThreadsTypeOK /\ OpType /\ OpsMatch /\ RunsLive /\ HeldInUse /\ EndsAlone /\ LockHeld
      /\ Counted /\ ListsApart /\ HandsApart /\ FreeIsKept /\ StacksOwned
    BY DEF Sound, ThreadsTypeOK, OpType
  <1> PICK t : t = op[c].t
    OBVIOUS
  <1>1. /\ op[c].at \in {"keep", "destroy"} /\ local' = [local EXCEPT ![c] = Append(@, t)]
        /\ UNCHANGED <<refc, flag, handler, started, global, glock, signals, running, stray>>
    BY DEF DestroyLocal, At
  <1>2. /\ Others(c) /\ OpType' /\ op'[c] = User
        /\ OnlyThread(t) /\ state'[t] = "NOTALLOC"
        /\ state' \in [Thread -> {"NOTALLOC", "CREATED", "LIVE", "EXITED"}]
        /\ home' \in [Thread -> Core \cup {None}] /\ gen' \in [Thread -> Nat]
        /\ stack' \subseteq Thread /\ crossed' \subseteq Thread
        /\ OpsMatch' /\ RunsLive' /\ HeldInUse' /\ EndsAlone' /\ Counted' /\ StacksOwned'
    BY <1>1, FreeKeeps DEF DestroyLocal, Ending
  <1>3. t \in Thread /\ ~ IsFree(t)
    BY <1>1, EndedUnheld DEF Ending
  <1>4. ThreadsTypeOK'
    <2> local' \in [Core -> Seq(Thread)]
      BY <1>1, <1>3, SMT DEF ThreadsTypeOK
    <2> QED
      BY <1>1, <1>2 DEF OpType, ThreadsTypeOK
  <1>5. LockHeld'
    <2>1. op[c].at \notin {"freeing", "unlock"} /\ op'[c].at \notin {"freeing", "unlock"}
      BY <1>1, <1>2, UserIs
    <2>2. SamePlace(c, {"freeing"}) /\ SamePlace(c, {"unlock"})
      BY <2>1 DEF SamePlace
    <2> QED
      BY <1>1, <1>2, <2>2, LockKept
  <1>6. ListsApart' /\ HandsApart' /\ FreeIsKept'
    <2>1. c \in Lists /\ List(c) = local[c] /\ List(c)' = Append(local[c], t) /\ OnlyList(c)
      BY <1>1, LocalOnly
    <2>2. IsFree(t)'
      BY <1>2 DEF IsFree
    <2>3. /\ op[c].at \notin Creating /\ op'[c].at \notin Creating
          /\ op[c].at # "freeing" /\ op'[c].at # "freeing"
      BY <1>1, <1>2, UserIs DEF Creating
    <2> QED
      BY <1>2, <1>3, <2>1, <2>2, <2>3, TcbGiven
  <1> QED
    BY <1>2, <1>4, <1>5, <1>6 DEF Sound

-----------------------------------------------------------------------------
(* The invariant *)

LEMMA ListOf ==
    ASSUME NEW S, NEW n \in Nat, NEW s \in [1 .. n -> S]
    PROVE  s \in Seq(S)
  BY SMT

LEMMA SoundInitially ==
    ASSUME CountingLaws, Init
    PROVE  Sound
  <1> /\ gen = [t \in Thread |-> 0] /\ started = {} /\ flag = {} /\ handler = {}
      /\ glock = None /\ signals = [c \in Core |-> {}] /\ running = [c \in Core |-> None]
      /\ op = [c \in Core |-> User] /\ stray = {} /\ crossed = {}
    BY DEF Init
  <1>1. PICK live \in SUBSET Thread :
            /\ \E core \in [live -> Core] :
                  home = [t \in Thread |-> IF t \in live THEN core[t] ELSE None]
            /\ state = [t \in Thread |-> IF t \in live THEN "LIVE" ELSE "NOTALLOC"]
            /\ refc = [t \in Thread |-> IF t \in live THEN 1 ELSE 0]
            /\ stack = live
            /\ local \in [Core -> {<<>>} \cup {<<t>> : t \in Thread \ live}]
            /\ \A c, d \in Core : c # d => Members(local[c]) \cap Members(local[d]) = {}
            /\ LET rest == (Thread \ live) \ UNION {Members(local[c]) : c \in Core}
               IN  global \in {s \in [1 .. Cardinality(rest) -> rest] :
                                  NoRepeat(s) /\ Members(s) = rest}
    BY DEF Init
  <1>2. PICK rest : rest = (Thread \ live) \ UNION {Members(local[c]) : c \in Core}
    OBVIOUS
  <1>3. /\ global \in [1 .. Cardinality(rest) -> rest]
        /\ NoRepeat(global) /\ Members(global) = rest
    BY <1>1, <1>2
  <1>4. rest \subseteq Thread \ live /\ Cardinality(rest) \in Nat
    BY <1>2, ThreadAssumption, SMT DEF CountingLaws
  <1>5. global \in Seq(Thread)
    <2>1. global \in [1 .. Cardinality(rest) -> Thread]
      BY <1>3, <1>4
    <2> QED
      BY <1>4, <2>1, ListOf
  <1>6. \A c \in Core : /\ local[c] \in Seq(Thread) /\ NoRepeat(local[c])
                        /\ Members(local[c]) \subseteq Thread \ live
    <2> SUFFICES ASSUME NEW c \in Core
                 PROVE  /\ local[c] \in Seq(Thread) /\ NoRepeat(local[c])
                        /\ Members(local[c]) \subseteq Thread \ live
      OBVIOUS
    <2>1. CASE local[c] = <<>>
      BY <2>1, SMT DEF NoRepeat, Members
    <2>2. CASE \E t \in Thread \ live : local[c] = <<t>>
      <3> PICK t \in Thread \ live : local[c] = <<t>>
        BY <2>2
      <3> DOMAIN <<t>> = {1} /\ <<t>>[1] = t /\ <<t>> \in Seq(Thread)
        BY SMT
      <3> QED
        BY SMT DEF NoRepeat, Members
    <2> QED
      BY <1>1, <2>1, <2>2, SMT
  <1>7. /\ op \in [Core -> {User}] /\ \A c \in Core : op[c] = User
        /\ User.at = "user" /\ User.kind = "none"
    BY DEF User
  <1>8. ThreadsTypeOK
    <2>1. User \in [at : Place, kind : Kind, t : Thread \cup {None}, core : Core \cup {None}]
      BY DEF User, Place, Kind
    <2>2. OpType
      BY <2>1 DEF OpType
    <2>3. /\ state \in [Thread -> {"NOTALLOC", "CREATED", "LIVE", "EXITED"}]
          /\ refc \in [Thread -> Int] /\ home \in [Thread -> Core \cup {None}]
      BY <1>1, SMT
    <2>4. local \in [Core -> Seq(Thread)]
      BY <1>1, <1>6
    <2> QED
      BY <1>1, <1>5, <2>2, <2>3, <2>4 DEF ThreadsTypeOK, OpType
  <1>9. OpsMatch
    BY <1>7 DEF OpsMatch, OpMatches, At
  <1>10. RunsLive
    BY <1>1 DEF RunsLive
  <1>11. HeldInUse /\ EndsAlone /\ LockHeld
    BY <1>7 DEF HeldInUse, EndsAlone, LockHeld, Holding, Ending, At
  <1>12. \A t, places : "user" \notin places => Doing(t, places) = {}
    BY <1>7, SMT DEF Doing
  <1>13. Counted
    <2> \A t \in Thread : Cardinality(Doing(t, Holding)) = 0
      BY <1>12, DoingFinite DEF Holding
    <2> QED
      BY <1>1, SMT DEF Counted
  <1>14. ListsApart
    <2>1. \A x \in Lists : NoRepeat(List(x))
      BY <1>3, <1>6 DEF Lists, List
    <2>2. \A c \in Core : Members(local[c]) \cap Members(global) = {}
      BY <1>2, <1>3, SMT
    <2> QED
      BY <1>1, <2>1, <2>2 DEF ListsApart, Lists, List
  <1>15. HandsApart
    BY <1>7 DEF HandsApart, Creating
  <1>16. FreeIsKept
    <2>1. \A t \in Thread : IsFree(t) <=> t \notin live
      BY <1>1, <1>12 DEF IsFree
    <2>2. \A t \in Thread : t \notin live <=> \E x \in Lists : t \in Members(List(x))
      BY <1>2, <1>3, <1>4, <1>6, ThreadAssumption, SMT DEF Lists, List
    <2> QED
      BY <1>12, <2>1, <2>2 DEF FreeIsKept, Creating
  <1>17. StacksOwned
    BY <1>1 DEF StacksOwned
  <1> QED
    BY <1>8, <1>9, <1>10, <1>11, <1>13, <1>14, <1>15, <1>16, <1>17 DEF Sound

\* A reference that was taken too late is remembered.
LEMMA StrayStays ==
    ASSUME [Next]_vars, stray' = {}
    PROVE  stray = {}
  <1>1. CASE UNCHANGED vars
    BY <1>1 DEF vars, ghosts
  <1>2. ASSUME NEW c \in Core, \/ AllocLocal(c) \/ AllocGlobal(c) \/ AllocUnlock(c)
                                \/ AllocInit(c) \/ CreateLink(c)
        PROVE  stray = {}
    BY <1>2 DEF AllocLocal, AllocGlobal, AllocUnlock, AllocInit, CreateLink, ghosts
  <1>3. ASSUME NEW c \in Core, Get(c) \/ Got(c) \/ Put(c) \/ PutLast(c) \/ ExitSwitch(c)
        PROVE  stray = {}
    BY <1>3 DEF Get, Got, Put, PutLast, ExitSwitch, ghosts
  <1>4. ASSUME NEW c \in Core, \/ DestroyGlobal(c) \/ DestroyUnlock(c) \/ DestroyWait(c)
                                \/ DestroyFlush(c) \/ DestroyLocal(c)
        PROVE  stray = {}
    BY <1>4 DEF DestroyGlobal, DestroyUnlock, DestroyWait, DestroyFlush, DestroyLocal, ghosts
  <1>5. ASSUME NEW c \in Core, Post(c) \/ SetFlag(c) \/ DoSignal(c) \/ ClearSignal(c)
        PROVE  stray = {}
    BY <1>5 DEF Post, SetFlag, DoSignal, ClearSignal, ghosts
  <1>6. ASSUME NEW c \in Core, \/ Create(c) \/ Exit(c) \/ Signal(c)
                                \/ \E t \in Thread : \/ Use(c, t) \/ Kill(c, t)
                                                      \/ Take(c, t) \/ SwitchTo(c, t)
        PROVE  stray = {}
    BY <1>6 DEF Create, Exit, Signal, Use, Kill, Take, SwitchTo, ghosts
  <1> QED
    BY <1>1, <1>2, <1>3, <1>4, <1>5, <1>6 DEF Next, Kernel

\* Every step keeps the invariant as long as no reference is taken too late.
LEMMA SoundKept ==
    ASSUME CountingLaws, Sound, [Next]_vars, stray' = {}
    PROVE  Sound'
  <1>1. CASE UNCHANGED vars
    <2> /\ UNCHANGED <<state, refc, gen, home, stack, flag, handler, started>>
        /\ UNCHANGED <<global, local, glock, signals, running, op, stray, crossed>>
      BY <1>1 DEF vars, tcb, pool, ghosts
    <2>1. ThreadsTypeOK' /\ RunsLive' /\ StacksOwned'
      BY DEF Sound, ThreadsTypeOK, RunsLive, StacksOwned
    <2>2. OpsMatch' /\ HeldInUse' /\ EndsAlone' /\ LockHeld'
      BY DEF Sound, OpsMatch, OpMatches, HeldInUse, EndsAlone, LockHeld, At
    <2>3. /\ \A t, places : Doing(t, places)' = Doing(t, places)
          /\ \A x : List(x)' = List(x)
      BY DEF Doing, List
    <2>4. Counted' /\ FreeIsKept'
      BY <2>3 DEF Sound, Counted, FreeIsKept, IsFree
    <2>5. HandsApart' /\ ListsApart'
      BY <2>3 DEF Sound, HandsApart, ListsApart
    <2> QED
      BY <2>1, <2>2, <2>4, <2>5 DEF Sound
  <1>2. ASSUME NEW c \in Core, Kernel(c)
        PROVE  Sound'
    BY <1>2, AllocLocalKeeps, AllocGlobalKeeps, AllocUnlockKeeps, AllocInitKeeps,
       CreateLinkKeeps, GetKeeps, GotKeeps, PutKeeps, PutLastKeeps, DestroyGlobalKeeps,
       DestroyUnlockKeeps, DestroyWaitKeeps, FlushKeeps, DestroyLocalKeeps, ExitSwitchKeeps,
       SignalsKeep DEF Kernel
  <1>3. ASSUME NEW c \in Core, Create(c) \/ Exit(c) \/ Signal(c)
        PROVE  Sound'
    BY <1>3, BeginKeeps, SignalsKeep
  <1>4. ASSUME NEW c \in Core, NEW t \in Thread,
               Use(c, t) \/ Kill(c, t) \/ Take(c, t) \/ SwitchTo(c, t)
        PROVE  Sound'
    BY <1>4, BeginKeeps, TakeKeeps, SwitchToKeeps
  <1> QED
    BY <1>1, <1>2, <1>3, <1>4 DEF Next

-----------------------------------------------------------------------------
(* Signals *)

AllFound == \A c \in Core : \A s \in signals[c] : Found(c, s)

\* Nothing happens to the signals on their way: threads get a core only if they
\* had none, and no core begins or ends a delivery.
Undisturbed(c) ==
    /\ Others(c)
    /\ op[c].at \notin {"flag", "clear"} /\ op'[c].at \notin {"flag", "clear"}
    /\ UNCHANGED <<signals, flag, handler, gen, crossed>>
    /\ \A u \in Thread : home'[u] = home[u] \/ home[u] = None

LEMMA UndisturbedFind ==
    ASSUME Sound, Cleared, AllFound, NEW c \in Core, Undisturbed(c)
    PROVE  Cleared' /\ AllFound'
  <1>1. Cleared'
    BY DEF Cleared, At, Undisturbed, Others
  <1>2. ASSUME NEW d \in Core, NEW s \in signals[d]
        PROVE  Found(d, s)'
    <2>1. s.dest \in Thread
      BY SMT DEF Sound, ThreadsTypeOK, SignalTo
    <2>2. Doing(s.dest, {"flag"})' = Doing(s.dest, {"flag"})
      BY DoingElse DEF Undisturbed
    <2>3. Found(d, s)
      BY DEF AllFound
    <2> QED
      BY <2>1, <2>2, <2>3, ThreadAssumption DEF Found, Undisturbed
  <1>3. AllFound'
    BY <1>2 DEF AllFound, Undisturbed
  <1> QED
    BY <1>1, <1>3

\* The steps that do not touch signals.
LEMMA StepsUndisturbed ==
    ASSUME Sound, NEW c \in Core,
           \/ AllocLocal(c) \/ AllocGlobal(c) \/ AllocUnlock(c) \/ AllocInit(c) \/ CreateLink(c)
           \/ Get(c) \/ Got(c) \/ Put(c) \/ PutLast(c) \/ ExitSwitch(c)
           \/ DestroyGlobal(c) \/ DestroyWait(c) \/ DestroyFlush(c)
           \/ Create(c) \/ Exit(c)
           \/ \E t \in Thread : Use(c, t) \/ Kill(c, t) \/ Take(c, t) \/ SwitchTo(c, t)
    PROVE  Undisturbed(c)
  <1> /\ ThreadsTypeOK /\ OpType /\ OpsMatch /\ RunsLive /\ HeldInUse /\ EndsAlone /\ LockHeld
      /\ Counted /\ ListsApart /\ HandsApart /\ FreeIsKept /\ StacksOwned
    BY DEF Sound, ThreadsTypeOK, OpType
  <1>1. \A place \in Place : Step(c, place) => Others(c) /\ op'[c].at = place
    BY StepIs DEF MovesTo, OpType
  <1>2. Done(c) => Others(c) /\ op'[c].at = "user"
    BY DoneIs
  <1>3. {"halt", "init", "link", "put", "got", "switch", "last", "destroy", "freeing", "flush",
         "keep"} \subseteq Place
    BY DEF Place, Creating, Holding, Ending
  <1>4. CASE AllocLocal(c) \/ AllocGlobal(c) \/ AllocUnlock(c)
    <2>1. UNCHANGED <<signals, flag, handler, gen, crossed, home>>
      BY <1>4 DEF AllocLocal, AllocGlobal, AllocUnlock, tcb, ghosts
    <2>2. CASE AllocLocal(c)
      BY <2>1, <2>2 DEF AllocLocal, Undisturbed, Others, At, ThreadsTypeOK
    <2>3. CASE AllocGlobal(c)
      BY <1>1, <1>3, <2>1, <2>3, SMT DEF AllocGlobal, Undisturbed, Others, At,
         ThreadsTypeOK
    <2>4. CASE AllocUnlock(c)
      BY <1>1, <1>3, <2>1, <2>4 DEF AllocUnlock, Undisturbed, At
    <2> QED
      BY <1>4, <2>2, <2>3, <2>4
  <1>5. CASE AllocInit(c)
    <2> home[op[c].t] = None
      BY <1>5, HandFree DEF AllocInit, At, Creating, RunsLive
    <2> QED
      <3>1. /\ UNCHANGED <<signals, flag, handler, gen, crossed>>
            /\ Step(c, "link") /\ At(c, "init") /\ home' = [home EXCEPT ![op[c].t] = None]
        BY <1>5 DEF AllocInit, ghosts
      <3>2. \A u \in Thread : home'[u] = home[u] \/ home[u] = None
        BY <3>1 DEF ThreadsTypeOK
      <3> QED
        BY <1>1, <1>3, <3>1, <3>2 DEF Undisturbed, At
  <1>6. CASE CreateLink(c)
    <2> home[op[c].t] = None
      BY <1>6 DEF CreateLink, At, Holding, HeldInUse, OpsMatch, OpMatches, RunsLive
    <2> QED
      <3>1. /\ UNCHANGED <<signals, flag, handler, gen, crossed>>
            /\ Step(c, "put") /\ At(c, "link")
            /\ \E m \in Core \cup {None} : home' = [home EXCEPT ![op[c].t] = m]
        BY <1>6 DEF CreateLink, ghosts
      <3>2. \A u \in Thread : home'[u] = home[u] \/ home[u] = None
        BY <3>1 DEF ThreadsTypeOK
      <3> QED
        BY <1>1, <1>3, <3>1, <3>2 DEF Undisturbed, At
  <1>7. CASE Get(c) \/ Put(c) \/ PutLast(c)
    <2>1. UNCHANGED <<signals, flag, handler, gen, crossed, home>>
      BY <1>7 DEF Get, Put, PutLast, tcb, ghosts
    <2>2. CASE Get(c)
      BY <1>1, <1>2, <1>3, <2>1, <2>2 DEF Get, Undisturbed, At
    <2>3. CASE Put(c)
      BY <1>1, <1>2, <1>3, <2>1, <2>3 DEF Put, After, Undisturbed, At
    <2>4. CASE PutLast(c)
      <3> state[op[c].t] = "EXITED"
        BY <2>4 DEF PutLast, EndsAlone, Ending, At
      <3> Step(c, "destroy") /\ At(c, "last")
        BY <2>4 DEF PutLast
      <3> QED
        BY <1>1, <1>3, <2>1 DEF Undisturbed, At
    <2> QED
      BY <1>7, <2>2, <2>3, <2>4
  <1>8. CASE Got(c)
    BY <1>8 DEF Got, Undisturbed, Others, At, ThreadsTypeOK
  <1>9. CASE ExitSwitch(c)
    BY <1>9 DEF ExitSwitch, Undisturbed, Others, At, ghosts, ThreadsTypeOK
  <1>10. CASE DestroyGlobal(c) \/ DestroyWait(c) \/ DestroyFlush(c)
    <2>1. UNCHANGED <<signals, flag, handler, gen, crossed, home>>
      BY <1>10 DEF DestroyGlobal, DestroyWait, DestroyFlush, tcb, ghosts
    <2> QED
      BY <1>1, <1>3, <1>10, <2>1 DEF DestroyGlobal, DestroyWait, DestroyFlush, Undisturbed, At
  <1>11. CASE Create(c) \/ Exit(c) \/ \E t \in Thread : Use(c, t) \/ Kill(c, t)
    <2>1. UNCHANGED <<signals, flag, handler, gen, crossed, home>>
      BY <1>11 DEF Create, Exit, Use, Kill, tcb, ghosts
    <2>2. PICK r \in [at : {"alloc", "get"}, kind : {"create", "use", "kill", "exit"},
                      t : Thread \cup {None}, core : {None}] :
              op' = [op EXCEPT ![c] = r]
      BY <1>11 DEF Create, Exit, Use, Kill, InUser, ThreadsTypeOK
    <2>3. At(c, "user")
      BY <1>11 DEF Create, Exit, Use, Kill, InUser
    <2> QED
      BY <2>1, <2>2, <2>3 DEF Undisturbed, Others, At, OpType
  <1>12. CASE \E t \in Thread : Take(c, t)
    BY <1>12 DEF Take, Undisturbed, Others, At, ghosts, ThreadsTypeOK
  <1>13. CASE \E t \in Thread : SwitchTo(c, t)
    <2> PICK t \in Thread : SwitchTo(c, t)
      BY <1>13
    <2> DEFINE Looks == [at |-> "deliver", kind |-> "none", t |-> t, core |-> c]
    <2>1. /\ UNCHANGED <<signals, flag, handler, gen, crossed, home>> /\ At(c, "user")
          /\ op' = [op EXCEPT ![c] = Looks] \/ op' = [op EXCEPT ![c] = User]
      BY DEF SwitchTo, ghosts
    <2>2. Looks.at = "deliver"
      BY SMT
    <2> HIDE DEF Looks
    <2> QED
      BY <2>1, <2>2, UserIs DEF Undisturbed, Others, At, OpType
  <1> QED
    BY <1>4, <1>5, <1>6, <1>7, <1>8, <1>9, <1>10, <1>11, <1>12, <1>13

\* A TCB is freed with signals on their way: they are taken note of.
LEMMA FreeFinds ==
    ASSUME Sound, Cleared, AllFound, NEW c \in Core, DestroyUnlock(c) \/ DestroyLocal(c)
    PROVE  Cleared' /\ AllFound'
  <1> /\ ThreadsTypeOK /\ OpType /\ OpsMatch /\ RunsLive /\ HeldInUse /\ EndsAlone /\ LockHeld
      /\ Counted /\ ListsApart /\ HandsApart /\ FreeIsKept /\ StacksOwned
    BY DEF Sound, ThreadsTypeOK, OpType
  <1> PICK t : t = op[c].t
    OBVIOUS
  <1>1. /\ op[c].at \in {"freeing", "keep", "destroy"}
        /\ Free(t) /\ Done(c) /\ UNCHANGED <<flag, handler, signals>>
    BY DEF DestroyUnlock, DestroyLocal, At
  <1>2. Others(c) /\ op'[c].at = "user"
    BY <1>1, DoneIs, UserIs DEF OpType
  <1>3. crossed \subseteq crossed'
    BY <1>1 DEF Free
  <1>4. Cleared'
    BY <1>1, <1>2, <1>3 DEF Cleared, At, Others
  <1>5. ASSUME NEW d \in Core, NEW s \in signals[d]
        PROVE  Found(d, s)'
    <2>1. s.dest \in Thread
      BY SMT DEF SignalTo, ThreadsTypeOK
    <2>2. CASE s.dest = t
      BY <1>1, <2>2 DEF Free, Found
    <2>3. CASE s.dest # t
      <3>1. home'[s.dest] = home[s.dest] /\ gen'[s.dest] = gen[s.dest]
        BY <1>1, <2>1, <2>3, SMT DEF Free
      <3>2. Doing(s.dest, {"flag"})' = Doing(s.dest, {"flag"})
        BY <1>1, <1>2, DoingElse
      <3>3. Found(d, s)
        BY DEF AllFound
      <3> QED
        BY <1>1, <1>3, <3>1, <3>2, <3>3 DEF Found
    <2> QED
      BY <2>2, <2>3
  <1> QED
    BY <1>1, <1>4, <1>5 DEF AllFound

LEMMA PostFinds ==
    ASSUME Sound, Cleared, AllFound, NEW c \in Core, Post(c)
    PROVE  Cleared' /\ AllFound'
  <1> /\ ThreadsTypeOK /\ OpType /\ OpsMatch /\ RunsLive /\ HeldInUse /\ EndsAlone /\ LockHeld
      /\ Counted /\ ListsApart /\ HandsApart /\ FreeIsKept /\ StacksOwned
    BY DEF Sound, ThreadsTypeOK, OpType
  <1> PICK t : t = op[c].t
    OBVIOUS
  <1>1. PICK e : e = op[c].core
    OBVIOUS
  <1>2. PICK n : n = [dest |-> t, gen |-> gen[t], reg |-> t \in handler]
    OBVIOUS
  <1>3. /\ At(c, "post") /\ Step(c, "flag") /\ t \in Thread
        /\ signals' = IF e = None THEN signals ELSE [signals EXCEPT ![e] = @ \cup {n}]
        /\ crossed' = IF Delivering(t) \/ e # home[t] THEN crossed \cup {t} ELSE crossed
        /\ UNCHANGED <<flag, handler, gen, home>>
    BY <1>1, <1>2 DEF Post, tcb, OpsMatch, OpMatches, At
  <1>4. MovesTo(c, "flag")
    BY <1>3, StepIs DEF OpType, Place, Holding
  <1>5. c \in Doing(t, {"flag"})' /\ \A u : Doing(u, {"flag"}) \subseteq Doing(u, {"flag"})'
    BY <1>3, <1>4 DEF Doing, MovesTo, Others, At
  <1>6. ASSUME NEW d \in Core, NEW s \in signals'[d]
        PROVE  s \in signals[d] \/ (s = n /\ d = e)
    BY <1>3, <1>6, SMT
  <1>7. Cleared'
    <2> SUFFICES ASSUME NEW d \in Core, op'[d].at = "clear", NEW s \in signals'[d],
                        s.dest = op'[d].t
                 PROVE  s.dest \in crossed'
      BY DEF Cleared, At
    <2>1. op'[d] = op[d]
      BY <1>4 DEF MovesTo, Others
    <2>2. CASE s \in signals[d]
      BY <1>3, <2>1, <2>2 DEF Cleared, At
    <2>3. CASE s = n
      <3> op[d].t = t /\ s.dest = t
        BY <1>2, <2>1, <2>3
      <3> Delivering(t)
        BY <2>1 DEF Delivering
      <3> QED
        BY <1>3
    <2> QED
      BY <1>6, <2>2, <2>3
  <1>8. ASSUME NEW d \in Core, NEW s \in signals'[d]
        PROVE  Found(d, s)'
    <2>1. CASE s \in signals[d]
      <3> Found(d, s)
        BY <2>1 DEF AllFound
      <3> QED
        BY <1>3, <1>5 DEF Found
    <2>2. CASE s = n /\ d = e
      <3> s.dest = t /\ s.gen = gen[t] /\ (s.reg => t \in handler)
        BY <1>2, <2>2
      <3> QED
        BY <1>3, <1>5, <2>2 DEF Found
    <2> QED
      BY <1>6, <2>1, <2>2
  <1> QED
    BY <1>7, <1>8 DEF AllFound

LEMMA SetFlagFinds ==
    ASSUME Sound, Cleared, AllFound, NEW c \in Core, SetFlag(c)
    PROVE  Cleared' /\ AllFound'
  <1> /\ ThreadsTypeOK /\ OpType /\ OpsMatch /\ RunsLive /\ HeldInUse /\ EndsAlone /\ LockHeld
      /\ Counted /\ ListsApart /\ HandsApart /\ FreeIsKept /\ StacksOwned
    BY DEF Sound, ThreadsTypeOK, OpType
  <1> PICK t : t = op[c].t
    OBVIOUS
  <1>1. /\ At(c, "flag") /\ Step(c, "put") /\ flag' = flag \cup {t} /\ crossed \subseteq crossed'
        /\ UNCHANGED <<signals, handler, gen, home>>
    BY DEF SetFlag
  <1>2. MovesTo(c, "put")
    BY <1>1, StepIs DEF OpType, Place, Holding
  <1>3. Cleared'
    BY <1>1, <1>2 DEF Cleared, At, MovesTo, Others
  <1>4. ASSUME NEW d \in Core, NEW s \in signals[d]
        PROVE  Found(d, s)'
    <2>1. Found(d, s)
      BY DEF AllFound
    <2>2. s.dest # t => Doing(s.dest, {"flag"})' = Doing(s.dest, {"flag"})
      BY <1>2, DoingElse DEF MovesTo
    <2> QED
      BY <1>1, <2>1, <2>2 DEF Found
  <1> QED
    BY <1>1, <1>3, <1>4 DEF AllFound

LEMMA DoSignalFinds ==
    ASSUME Sound, Cleared, AllFound, NEW c \in Core, DoSignal(c)
    PROVE  Cleared' /\ AllFound'
  <1> /\ ThreadsTypeOK /\ OpType /\ OpsMatch /\ RunsLive /\ HeldInUse /\ EndsAlone /\ LockHeld
      /\ Counted /\ ListsApart /\ HandsApart /\ FreeIsKept /\ StacksOwned
    BY DEF Sound, ThreadsTypeOK, OpType
  <1>1. /\ At(c, "deliver") /\ Step(c, "clear")
        /\ signals' = [signals EXCEPT ![c] = {s \in @ : s.dest # op[c].t}]
        /\ UNCHANGED <<flag, handler, gen, home, crossed>>
    BY DEF DoSignal, tcb, ghosts
  <1>2. MovesTo(c, "clear")
    BY <1>1, StepIs DEF OpType, Place
  <1>3. /\ \A d \in Core : signals'[d] \subseteq signals[d]
        /\ \A s \in signals'[c] : s.dest # op[c].t
    BY <1>1 DEF ThreadsTypeOK
  <1>4. Cleared'
    BY <1>1, <1>2, <1>3 DEF Cleared, At, MovesTo, Others
  <1>5. ASSUME NEW d \in Core, NEW s \in signals'[d]
        PROVE  Found(d, s)'
    <2>1. Found(d, s)
      BY <1>3 DEF AllFound
    <2>2. Doing(s.dest, {"flag"})' = Doing(s.dest, {"flag"})
      BY <1>1, <1>2, DoingElse DEF MovesTo, At
    <2> QED
      BY <1>1, <2>1, <2>2 DEF Found
  <1> QED
    BY <1>4, <1>5 DEF AllFound

\* The signals for the thread have left the list of its core, and there are
\* none for it in other lists.
LEMMA ClearFinds ==
    ASSUME Sound, Cleared, AllFound, NEW c \in Core, ClearSignal(c)
    PROVE  Cleared' /\ AllFound'
  <1> /\ ThreadsTypeOK /\ OpType /\ OpsMatch /\ RunsLive /\ HeldInUse /\ EndsAlone /\ LockHeld
      /\ Counted /\ ListsApart /\ HandsApart /\ FreeIsKept /\ StacksOwned
    BY DEF Sound, ThreadsTypeOK, OpType
  <1> PICK t : t = op[c].t
    OBVIOUS
  <1>1. /\ At(c, "clear") /\ Done(c) /\ flag' = flag \ {t} /\ handler' = handler \ {t}
        /\ UNCHANGED <<signals, gen, home, crossed>>
    BY DEF ClearSignal, ghosts
  <1>2. Others(c) /\ op'[c].at = "user"
    BY <1>1, DoneIs, UserIs DEF OpType
  <1>3. home[t] = c
    <2>1. OpMatches(c) /\ op[c].at = "clear"
      BY <1>1 DEF OpsMatch, At
    <2>2. t \in Thread /\ running[c] = t
      BY <2>1 DEF OpMatches, At
    <2> QED
      BY <2>2, ThreadAssumption DEF RunsLive
  <1>4. Cleared'
    BY <1>1, <1>2 DEF Cleared, At, Others
  <1>5. ASSUME NEW d \in Core, NEW s \in signals[d]
        PROVE  Found(d, s)'
    <2>1. Found(d, s)
      BY DEF AllFound
    <2>2. s.dest = t => s.dest \in crossed
      BY <1>1, <1>3, <2>1 DEF Cleared, Found
    <2>3. Doing(s.dest, {"flag"})' = Doing(s.dest, {"flag"})
      BY <1>1, <1>2, DoingElse DEF At
    <2> QED
      BY <1>1, <2>1, <2>2, <2>3 DEF Found
  <1> QED
    BY <1>1, <1>4, <1>5 DEF AllFound

LEMMA SignalFinds ==
    ASSUME Sound, Cleared, AllFound, NEW c \in Core, Signal(c)
    PROVE  Cleared' /\ AllFound'
  <1>1. UNCHANGED <<signals, flag, gen, home, crossed, op>> /\ handler \subseteq handler'
    BY DEF Signal
  <1>2. \A u : Doing(u, {"flag"})' = Doing(u, {"flag"})
    BY <1>1 DEF Doing
  <1>3. Cleared'
    BY <1>1 DEF Cleared, At
  <1>4. AllFound'
    BY <1>1, <1>2 DEF AllFound, Found
  <1> QED
    BY <1>3, <1>4

\* With the invariant above, every step keeps the signals on their way.
LEMMA SignalsKept ==
    ASSUME Sound, Cleared, AllFound, [Next]_vars
    PROVE  Cleared' /\ AllFound'
  <1>1. CASE UNCHANGED vars
    <2> UNCHANGED <<signals, flag, handler, gen, home, crossed, op>>
      BY <1>1 DEF vars, tcb, ghosts
    <2> QED
      BY SMT DEF Cleared, At, AllFound, Found, Doing
  <1>2. ASSUME NEW c \in Core, Kernel(c)
        PROVE  Cleared' /\ AllFound'
    BY <1>2, StepsUndisturbed, UndisturbedFind, FreeFinds, PostFinds, SetFlagFinds,
       DoSignalFinds, ClearFinds DEF Kernel
  <1>3. ASSUME NEW c \in Core,
               \/ Create(c) \/ Exit(c) \/ Signal(c)
               \/ \E t \in Thread : Use(c, t) \/ Kill(c, t) \/ Take(c, t) \/ SwitchTo(c, t)
        PROVE  Cleared' /\ AllFound'
    BY <1>3, StepsUndisturbed, UndisturbedFind, SignalFinds
  <1> QED
    BY <1>1, <1>2, <1>3 DEF Next

-----------------------------------------------------------------------------
(* The theorems *)

\* CountingLaws follow from the library's theorems.  The instance has finite sets
\* of its own, by the same definitions: those are used as they stand.
USE DEF IsFiniteSet, Cardinality

LOCAL INSTANCE FiniteSetTheorems

LEMMA CountingLawsHold == CountingLaws
  <1>1. \A S : IsFiniteSet(S) => Cardinality(S) \in Nat /\ (Cardinality(S) = 0 <=> S = {})
    BY FS_CardinalityType, FS_EmptySet
  <1>2. \A S, T : IsFiniteSet(S) /\ T \subseteq S => IsFiniteSet(T)
    BY FS_Subset
  <1>3. \A S, x : IsFiniteSet(S) /\ x \notin S
                   => Cardinality(S \cup {x}) = Cardinality(S) + 1
    BY FS_AddElement
  <1>4. \A S, x : IsFiniteSet(S) /\ x \in S
                   => Cardinality(S \ {x}) = Cardinality(S) - 1
    BY FS_RemoveElement
  <1> QED
    BY <1>1, <1>2, <1>3, <1>4 DEF CountingLaws, IsFiniteSet, Cardinality

\* The reference counts and the lists of alloc_tcb, get_tcb, put_tcb and
\* destroy_tcb stay consistent, as long as get_tcb takes no reference to a
\* thread whose last one was given back.
THEOREM PoolInvariant == Spec => []PoolInv
  <1>1. Init => PoolInv
    BY CountingLawsHold, SoundInitially DEF PoolInv
  <1>2. PoolInv /\ [Next]_vars => PoolInv'
    BY CountingLawsHold, SoundKept, StrayStays DEF PoolInv
  <1> QED
    BY <1>1, <1>2, PTL DEF Spec

\* No TCB is in two lists, twice in one, in a list and in use, or lost; no stack
\* is freed twice.
THEOREM TcbsAreApart == Spec => []EachTcbOnce
  BY PoolInvariant, PTL DEF PoolInv, Sound, EachTcbOnce

\* The refc of a thread is the number of cores that work on it, and one more
\* until it has exited.
THEOREM ReferencesAreCounted == Spec => []RefsCounted
  BY PoolInvariant, PTL DEF PoolInv, Sound, RefsCounted

\* The tests for "refcbug" in alloc_tcb and put_tcb never stop a core: it stops
\* only when there is no TCB left.
THEOREM NoFalseAlarm == Spec => []StopsOnlyWhenEmpty
  <1> PoolInv => StopsOnlyWhenEmpty
    BY DEF PoolInv, Sound, OpsMatch, OpMatches, StopsOnlyWhenEmpty, At
  <1> QED
    BY PoolInvariant, PTL

\* A signal of sys_kill is where its thread will look for it, and do_signal
\* leaves none behind, ...
THEOREM SignalInvariant == Spec => []SignalInv
  <1>1. Init => SignalInv
    BY DEF Init, SignalInv, Cleared, At, User
  <1>2. PoolInv /\ SignalInv /\ [Next]_vars => SignalInv'
    BY SignalsKept, StrayStays DEF PoolInv, SignalInv, AllFound
  <1> QED
    BY <1>1, <1>2, PoolInvariant, PTL DEF Spec

\* ... so that none is left without a flag, or reaches a later thread with the
\* same TCB.
THEOREM SignalsFindThreads == Spec => []SignalFindsThread
  BY SignalInvariant, PTL DEF SignalInv, SignalFindsThread

=============================================================================
