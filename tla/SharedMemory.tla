---------------------------- MODULE SharedMemory ----------------------------
(***************************************************************************)
(* System V shared memory, kernel/shm.  The table of regions and the pool  *)
(* of pages lie in memory that all unikernels share.  shmget works under   *)
(* the lock of the table, si_lock; shmat, shmdt and shmctl look at a       *)
(* region first and then take its own lock, sr_lock; shm_destroy frees the *)
(* pages and clears the entry, its lock included, word by word.            *)
(*                                                                         *)
(* An action is a stretch of code between two accesses to what others may  *)
(* change.  A call that fails without a change is not a step.  The first   *)
(* shmget sets up the table and the pool before anyone looks at them: that *)
(* is the initial state.                                                   *)
(***************************************************************************)
EXTENDS BuddyAllocator

CONSTANTS
    Thread,         \* threads, of any unikernel
    Key,            \* keys other than IPC_PRIVATE, which shmget refuses
    Regions,        \* CONFIG_ARCH_SHM_MAXREGIONS
    PAGE_MIN_SIZE,  \* in units of a segment's size
    Size            \* the sizes asked for

ASSUME ShmAssumption ==
    /\ Regions \in Nat \ {0} /\ PAGE_MIN_SIZE \in Nat \ {0} /\ Size \subseteq Nat \ {0}
    /\ None \notin Thread \cup Key

Shmid == 0 .. Regions - 1

VARIABLES
    si_lock,        \* the holder of the table's lock
    region,         \* si_region: sr_key, sr_flags, sr_lock, sr_data, shm_segsz, shm_nattch
    pc,             \* where in a call a thread is
    shmid,          \* the region a call is about
    arg,            \* the size and IPC_CREAT of a shmget in progress
    attached,       \* the address that a thread has attached
    undisturbed     \* whether no call has met a region in its making or unmaking

poolVars == <<bitmap, bitmap_count, block_index, used_size>>
shmVars == <<si_lock, region, pc, shmid, arg, attached, undisturbed, poolVars>>

NoArg == [size |-> 0, create |-> FALSE]
Empty == [sr_key |-> None, sr_flags |-> {}, sr_lock |-> FALSE, sr_data |-> None,
          shm_segsz |-> 0, shm_nattch |-> 0]

\* The pool of shm_mm.c is managed like the memory of a unikernel.
shm_free_mem_init == Init

\* shm_initialize
ShmInit ==
    /\ shm_free_mem_init
    /\ si_lock = None
    /\ region = [r \in Shmid |-> Empty]
    /\ pc = [t \in Thread |-> "out"]
    /\ shmid = [t \in Thread |-> None]
    /\ arg = [t \in Thread |-> NoArg]
    /\ attached = [t \in Thread |-> None]
    /\ undisturbed = TRUE

At(t, place) == pc[t] = place

\* Bound: once a call has been disturbed no other begins; those in progress are
\* followed to their ends.
MayCall(t) == At(t, "out") /\ undisturbed
Go(t, place) == pc' = [pc EXCEPT ![t] = place]
Enter(t, place, r) == Go(t, place) /\ shmid' = [shmid EXCEPT ![t] = r]

\* The thread returns from its call, and gives back the lock of the table if it
\* has it.
Return(t) ==
    /\ Enter(t, "out", None)
    /\ arg' = [arg EXCEPT ![t] = NoArg]
    /\ si_lock' = IF si_lock = t THEN None ELSE si_lock

-----------------------------------------------------------------------------
(* shmget *)

\* Mutant: a region that waits for its last detach is not found.
FindLinked(key) ==
    {r \in Shmid : region[r].sr_key = key /\ "UNLINKED" \notin region[r].sr_flags}

\* shm_find
Find(key) == {r \in Shmid : region[r].sr_key = key}

Available == {r \in Shmid : region[r].sr_flags = {}}

\* shmget up to its choice.  A key that is not there is given to the first
\* entry that is available, by shm_reserve up to its spinlock_init.
shmget(t, key, size, create) ==
    /\ MayCall(t)
    /\ si_lock = None
    /\ si_lock' = t
    /\ arg' = [arg EXCEPT ![t] = [size |-> size, create |-> create]]
    /\ \/ /\ Find(key) # {}
          /\ Enter(t, "found", Min(Find(key)))
          /\ UNCHANGED region
       \/ /\ Find(key) = {} /\ create /\ Available # {}
          /\ Enter(t, "reserve", Min(Available))
          /\ region' = [region EXCEPT ![Min(Available)].sr_key = key,
                                      ![Min(Available)].sr_flags = {"INUSE"}]
    /\ UNCHANGED <<attached, poolVars>>

shm_reserve(t) ==
    /\ At(t, "reserve")
    /\ Go(t, "create")
    /\ region' = [region EXCEPT ![shmid[t]].sr_lock = FALSE]
    /\ UNCHANGED <<si_lock, shmid, arg, attached, poolVars>>

InPages(size) == (size + PAGE_MIN_SIZE - 1) \div PAGE_MIN_SIZE

\* The helpers of shm_mm.c work on bitmaps like those of memory.c.
shm_alloc_buddy_block(pages) == Alloc(pages)
shm_free_buddy_block(p) == Free(p)

\* The address that shm_alloc returns.
shm_alloc(size, data) ==
    \/ shm_alloc_buddy_block(InPages(size)) /\ data = AllocatedPage(InPages(size))
    \/ ~CanAlloc(InPages(size)) /\ data = None /\ UNCHANGED poolVars

\* Without memory the entry is given up.
shm_create(t) ==
    /\ At(t, "create")
    /\ \E data \in Page \cup {None} :
          /\ shm_alloc(arg[t].size, data)
          /\ region' = [region EXCEPT ![shmid[t]].sr_data = data]
          /\ Go(t, IF data = None THEN "destroy" ELSE "size")
    /\ UNCHANGED <<si_lock, shmid, arg, attached>>

SetSize(t) ==
    /\ At(t, "size")
    /\ region' = [region EXCEPT ![shmid[t]].shm_segsz = arg[t].size]
    /\ Return(t)
    /\ UNCHANGED <<attached, poolVars>>

\* The size of the block behind a segment, as shm_extend computes it.
shm_get_buddy_block_size(size) ==
    Min({PAGE_MIN_SIZE * 2^i : i \in {j \in 0 .. size : PAGE_MIN_SIZE * 2^j > size}})

\* A region that is there: "Is the region big enough for the request?"
shm_extend(t) ==
    LET segsz == region[shmid[t]].shm_segsz
    IN  /\ At(t, "found")
        /\ \/ /\ arg[t].size <= segsz
              /\ Go(t, "revive")
              /\ UNCHANGED <<region, si_lock, shmid, arg>>
           \/ /\ segsz < arg[t].size /\ arg[t].create
              /\ arg[t].size <= shm_get_buddy_block_size(segsz)
              /\ region' = [region EXCEPT ![shmid[t]].shm_segsz = arg[t].size]
              /\ Go(t, "revive")
              /\ UNCHANGED <<si_lock, shmid, arg>>
           \/ /\ segsz < arg[t].size
              /\ arg[t].create => shm_get_buddy_block_size(segsz) < arg[t].size
              /\ Return(t)
              /\ UNCHANGED region
        /\ UNCHANGED <<attached, poolVars>>

\* "If the region was previously deleted ... then it is no longer deleted."
Revive(t) ==
    /\ At(t, "revive")
    /\ region' = [region EXCEPT ![shmid[t]].sr_flags = {"INUSE"}]
    /\ Return(t)
    /\ UNCHANGED <<attached, poolVars>>

-----------------------------------------------------------------------------
(* shmat, shmdt and shmctl *)

InUseFlag(r) == "INUSE" \in region[r].sr_flags

\* shmat and shmctl(IPC_RMID) up to the lock.
Look(t, r, place) ==
    /\ MayCall(t)
    /\ InUseFlag(r)
    /\ Enter(t, place, r)
    /\ UNCHANGED <<si_lock, region, arg, attached, poolVars>>

shmat(t, r) ==
    /\ attached[t] = None
    /\ Look(t, r, "at")

shmctl(t, r) == Look(t, r, "ctl")

\* The reverse lookup of shmdt.
shmdt(t) ==
    LET Holds == {r \in Shmid : region[r].sr_data = attached[t]}
    IN  /\ MayCall(t)
        /\ attached[t] # None
        /\ attached' = [attached EXCEPT ![t] = None]
        /\ \/ Holds # {} /\ Enter(t, "lookup", Min(Holds))
           \/ Holds = {} /\ UNCHANGED <<pc, shmid>>
        /\ UNCHANGED <<si_lock, region, arg, poolVars>>

Looked(t) ==
    /\ At(t, "lookup")
    /\ \/ InUseFlag(shmid[t]) /\ Go(t, "dt") /\ UNCHANGED <<shmid, arg, si_lock>>
       \/ ~InUseFlag(shmid[t]) /\ Return(t)
    /\ UNCHANGED <<region, attached, poolVars>>

\* spinlock_lock(&region->sr_lock)
Lock(t) ==
    /\ pc[t] \in {"at", "dt", "ctl"}
    /\ ~region[shmid[t]].sr_lock
    /\ region' = [region EXCEPT ![shmid[t]].sr_lock = TRUE]
    /\ Go(t, CASE At(t, "at") -> "attach" [] At(t, "dt") -> "detach" [] At(t, "ctl") -> "remove")
    /\ UNCHANGED <<si_lock, shmid, arg, attached, poolVars>>

\* The thread changes its region, opens the lock and returns.
Finish(t, new) ==
    /\ region' = [region EXCEPT ![shmid[t]] = [new EXCEPT !.sr_lock = FALSE]]
    /\ Return(t)

\* Mutant: an attach that is not the first is not counted.
AttachUncounted(t) ==
    LET old == region[shmid[t]]
    IN  /\ At(t, "attach")
        /\ \/ /\ old.sr_data # None
              /\ Finish(t, [old EXCEPT !.shm_nattch = 1])
              /\ attached' = [attached EXCEPT ![t] = old.sr_data]
           \/ /\ old.sr_data = None
              /\ Finish(t, old)
              /\ UNCHANGED attached
        /\ UNCHANGED poolVars

Attach(t) ==
    LET old == region[shmid[t]]
    IN  /\ At(t, "attach")
        /\ \/ /\ old.sr_data # None
              /\ Finish(t, [old EXCEPT !.shm_nattch = @ + 1])
              /\ attached' = [attached EXCEPT ![t] = old.sr_data]
           \/ /\ old.sr_data = None
              /\ Finish(t, old)
              /\ UNCHANGED attached
        /\ UNCHANGED poolVars

\* Mutant: the last detach does not look whether the region has been deleted.
DetachForgets(t) ==
    LET old == region[shmid[t]]
    IN  /\ At(t, "detach")
        /\ \/ /\ old.shm_nattch = 0
              /\ Finish(t, old)
           \/ /\ old.shm_nattch > 0
              /\ Finish(t, [old EXCEPT !.shm_nattch = @ - 1])
        /\ UNCHANGED <<attached, poolVars>>

\* Mutant: a region that has been deleted is destroyed at any detach.
DetachAll(t) ==
    LET old == region[shmid[t]]
    IN  /\ At(t, "detach")
        /\ \/ /\ old.shm_nattch = 0
              /\ Finish(t, old)
           \/ /\ old.shm_nattch > 0 /\ "UNLINKED" \in old.sr_flags
              /\ region' = [region EXCEPT ![shmid[t]].shm_nattch = 0]
              /\ Go(t, "destroy")
              /\ UNCHANGED <<si_lock, shmid, arg>>
           \/ /\ old.shm_nattch > 0 /\ "UNLINKED" \notin old.sr_flags
              /\ Finish(t, [old EXCEPT !.shm_nattch = @ - 1])
        /\ UNCHANGED <<attached, poolVars>>

Detach(t) ==
    LET old == region[shmid[t]]
    IN  /\ At(t, "detach")
        /\ \/ /\ old.shm_nattch = 0
              /\ Finish(t, old)
           \/ /\ old.shm_nattch = 1 /\ "UNLINKED" \in old.sr_flags
              /\ region' = [region EXCEPT ![shmid[t]].shm_nattch = 0]
              /\ Go(t, "destroy")
              /\ UNCHANGED <<si_lock, shmid, arg>>
           \/ /\ old.shm_nattch > 0
              /\ old.shm_nattch = 1 => "UNLINKED" \notin old.sr_flags
              /\ Finish(t, [old EXCEPT !.shm_nattch = @ - 1])
        /\ UNCHANGED <<attached, poolVars>>

Remove(t) ==
    LET old == region[shmid[t]]
    IN  /\ At(t, "remove")
        /\ \/ /\ old.shm_nattch > 0
              /\ Finish(t, [old EXCEPT !.sr_flags = @ \cup {"UNLINKED"}])
           \/ /\ old.shm_nattch = 0
              /\ Go(t, "destroy")
              /\ UNCHANGED <<si_lock, region, shmid, arg>>
        /\ UNCHANGED <<attached, poolVars>>

-----------------------------------------------------------------------------
(* shm_destroy *)

\* An address at which no block begins is refused.
shm_free(data) ==
    \/ shm_free_buddy_block(data)
    \/ block_index[data] = None /\ UNCHANGED poolVars

shm_destroy(t) ==
    LET data == region[shmid[t]].sr_data
    IN  /\ At(t, "destroy")
        /\ Go(t, "clear ds")
        /\ IF data # None THEN shm_free(data) ELSE UNCHANGED poolVars
        /\ UNCHANGED <<si_lock, region, shmid, arg, attached>>

\* lk_memset clears the entry from its beginning, eight bytes at a time.
Clear(t) ==
    LET r == shmid[t]
    IN  /\ \/ /\ At(t, "clear ds") /\ Go(t, "clear flags")
              /\ region' = [region EXCEPT ![r].shm_segsz = 0, ![r].shm_nattch = 0]
           \/ /\ At(t, "clear flags") /\ Go(t, "clear key")
              /\ region' = [region EXCEPT ![r].sr_flags = {}]
           \/ /\ At(t, "clear key") /\ Go(t, "clear lock")
              /\ region' = [region EXCEPT ![r].sr_key = None]
           \/ /\ At(t, "clear lock") /\ Go(t, "clear data")
              /\ region' = [region EXCEPT ![r].sr_lock = FALSE]
        /\ UNCHANGED <<si_lock, shmid, arg, attached, poolVars>>

ClearLast(t) ==
    /\ At(t, "clear data")
    /\ region' = [region EXCEPT ![shmid[t]].sr_data = None]
    /\ Return(t)
    /\ UNCHANGED <<attached, poolVars>>

-----------------------------------------------------------------------------
Step(t) ==
    \/ \E key \in Key, size \in Size, create \in BOOLEAN : shmget(t, key, size, create)
    \/ \E r \in Shmid : shmat(t, r) \/ shmctl(t, r)
    \/ shmdt(t)
    \/ shm_reserve(t) \/ shm_create(t) \/ SetSize(t) \/ shm_extend(t) \/ Revive(t)
    \/ Looked(t) \/ Lock(t) \/ Attach(t) \/ Detach(t) \/ Remove(t)
    \/ shm_destroy(t) \/ Clear(t) \/ ClearLast(t)

Making == {"reserve", "create", "size"}
Unmaking == {"destroy", "clear ds", "clear flags", "clear key", "clear lock", "clear data"}

\* A call is about a region that another thread is making or unmaking.
Disturbed ==
    \E t, u \in Thread :
        /\ t # u /\ shmid[t] # None /\ shmid[t] = shmid[u]
        /\ pc[t] \in Making \cup Unmaking

ShmNext ==
    /\ \E t \in Thread : Step(t)
    /\ undisturbed' = (undisturbed /\ ~Disturbed')

ShmSpec == ShmInit /\ [][ShmNext]_shmVars

-----------------------------------------------------------------------------
(* Properties *)

ShmTypeOK ==
    /\ si_lock \in Thread \cup {None}
    /\ region \in [Shmid -> [sr_key : Key \cup {None}, sr_flags : SUBSET {"INUSE", "UNLINKED"},
                             sr_lock : BOOLEAN, sr_data : Page \cup {None},
                             shm_segsz : {0} \cup Size, shm_nattch : Nat]]
    /\ shmid \in [Thread -> Shmid \cup {None}]
    /\ attached \in [Thread -> Page \cup {None}]

\* No two regions have one key, so that all who ask for a key get the same
\* memory: shmget looks and reserves under the table's lock, and this holds even
\* while shm_destroy, which does not take it, clears entries.
KeysUnique ==
    \A r, q \in Shmid : r # q /\ region[r].sr_key # None => region[r].sr_key # region[q].sr_key

\* A region that is in use and stays so.
BeingUnmade(r) == \E t \in Thread : shmid[t] = r /\ pc[t] \in Unmaking
Live(r) == InUseFlag(r) /\ ~BeingUnmade(r)

\* As long as no call meets a region in its making or unmaking: the memory that
\* a thread has attached is allocated and belongs to a region in use, whoever
\* deletes the region, asks for it again or detaches in between.
AttachedIsKept ==
    undisturbed =>
        \A t \in Thread : attached[t] # None =>
            /\ block_index[attached[t]] # None
            /\ \E r \in Shmid : Live(r) /\ region[r].sr_data = attached[t]

\* Under the same condition shm_nattch, on which the deletion of a region
\* depends, is the number of threads that have the region attached or are about
\* to be counted out by shmdt, which knows the region only by its address.
AttachesCounted ==
    undisturbed =>
        \A r \in Shmid : Live(r) =>
            region[r].shm_nattch =
                Cardinality({t \in Thread :
                    \/ attached[t] # None /\ attached[t] = region[r].sr_data
                    \/ pc[t] \in {"lookup", "dt", "detach"} /\ shmid[t] = r})

\* Under the same condition no memory is lost: every block in use belongs to a
\* region in use, and a deleted region goes with its last detach.
NothingLeaks ==
    undisturbed =>
        /\ \A p \in Page : block_index[p] # None =>
               \E r \in Shmid : InUseFlag(r) /\ region[r].sr_data = p
        /\ \A r \in Shmid : "UNLINKED" \in region[r].sr_flags =>
               region[r].shm_nattch > 0 \/ BeingUnmade(r)

=============================================================================
