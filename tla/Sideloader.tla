----------------------------- MODULE Sideloader -----------------------------
(***************************************************************************)
(* How Linux starts unikernels.  The script start.sh calls lkload, which   *)
(* goes through three ioctls of the driver lk (sideloader/lk/lkernel.c)    *)
(* and copies the kernel and the application into the unikernel's memory,  *)
(* and then wakes the unikernel's cores one by one.  The driver keeps what *)
(* AZ_PARAM tells it in global variables, without a lock, and all          *)
(* unikernels boot from the same page below 1 MB: its code, page table and *)
(* parameters are those that were loaded last.                             *)
(*                                                                         *)
(* A unikernel is named by its index, which is also its memory.  A step is *)
(* an ioctl or a part of it, or one copy of lkload.                        *)
(***************************************************************************)
EXTENDS Integers, FiniteSets, FiniteSetsExt

CONSTANTS
    Nodes,          \* the number of unikernels that are started
    CoreCount,      \* CoreCount[i]: the cores of unikernel i
    MAX_UNIKERNEL,
    None

ASSUME SideloaderAssumption ==
    /\ Nodes \in Nat \ {0} /\ MAX_UNIKERNEL \in Nat \ {0}
    /\ CoreCount \in [0 .. Nodes - 1 -> Nat \ {0}]
    /\ None \notin Int

Index == 0 .. Nodes - 1

\* BEGIN[] of start.sh: the cores that belong to a unikernel, in the order in
\* which they are woken.
CpuOf(i) == {<<i, k>> : k \in 1 .. CoreCount[i]}
Cpu == UNION {CpuOf(i) : i \in Index}

VARIABLES
    g_ukid,     \* the ids in use; free_ukid is never called
    drv,        \* the driver's ukid, start_index and core_start
    boot,       \* the boot page: the page table's memory, and the parameters
    stat,       \* the unikernels that the stat memory lists
    image,      \* image[m]: whose kernel and whose application is in memory m
    script,     \* script[i]: where start.sh for unikernel i is
    target,     \* memory_start_addr in lkload
    woken       \* the cores that have been sent INIT and STARTUP

sideVars == <<g_ukid, drv, boot, stat, image, script, target, woken>>

Place == {"param", "table", "clear", "meta", "addr", "kernel", "app", "wake", "done"}

SideloaderTypeOK ==
    /\ g_ukid \subseteq 0 .. MAX_UNIKERNEL - 1
    /\ drv \in [ukid : -1 .. MAX_UNIKERNEL - 1, index : Index \cup {None}, cores : Nat]
    /\ boot \in [table : Index \cup {None}, ukid : -1 .. MAX_UNIKERNEL - 1,
                 cores : Nat, mem : Index \cup {None}]
    /\ stat \subseteq -1 .. MAX_UNIKERNEL - 1
    /\ image \in [Index -> [kernel : Index \cup {None}, app : Index \cup {None}]]
    /\ script \in [Index -> Place]
    /\ target \in [Index -> Index \cup {None}]
    /\ woken \subseteq Cpu

\* lk_init; some ids may have gone to unikernels that were started before.
SideloaderInit ==
    /\ g_ukid \in {0 .. n - 1 : n \in 0 .. MAX_UNIKERNEL - 1}
    /\ drv = [ukid |-> -1, index |-> None, cores |-> 0]
    /\ boot = [table |-> None, ukid |-> -1, cores |-> 0, mem |-> None]
    /\ stat = g_ukid
    /\ image = [m \in Index |-> [kernel |-> None, app |-> None]]
    /\ script = [i \in Index |-> "param"]
    /\ target = [i \in Index |-> None]
    /\ woken = {}

At(i, place) == script[i] = place
Go(i, place) == script' = [script EXCEPT ![i] = place]

FreeIds == (0 .. MAX_UNIKERNEL - 1) \ g_ukid

\* Mutant: alloc_ukid does not mark the id as used.
AZ_PARAM_unmarked(i) ==
    /\ At(i, "param") /\ Go(i, "table")
    /\ drv' = IF FreeIds # {} THEN [ukid |-> Min(FreeIds), index |-> i, cores |-> CoreCount[i]]
              ELSE [drv EXCEPT !.ukid = -1]
    /\ UNCHANGED <<g_ukid, boot, stat, image, target, woken>>

\* alloc_ukid and init_unikernel_resources.  Without an id the parameters stay
\* those of the unikernel before; AZ_PARAM does not look at the result.
AZ_PARAM(i) ==
    /\ At(i, "param") /\ Go(i, "table")
    /\ IF FreeIds # {}
       THEN /\ g_ukid' = g_ukid \cup {Min(FreeIds)}
            /\ drv' = [ukid |-> Min(FreeIds), index |-> i, cores |-> CoreCount[i]]
       ELSE /\ drv' = [drv EXCEPT !.ukid = -1]
            /\ UNCHANGED g_ukid
    /\ UNCHANGED <<boot, stat, image, target, woken>>

\* The boot page's tables map the kernel's addresses to the memory of unikernel m.
init_page_table(m) == boot' = [boot EXCEPT !.table = m]

\* AZ_LOADING, 1
LoadTable(i) ==
    /\ At(i, "table") /\ Go(i, "clear")
    /\ init_page_table(drv.index)
    /\ UNCHANGED <<g_ukid, drv, stat, image, target, woken>>

\* AZ_LOADING, 2: the stat memory of all unikernels is cleared, like the shell
\* storage, the log and the unikernel's screen.
LoadClear(i) ==
    /\ At(i, "clear") /\ Go(i, "meta")
    /\ stat' = {}
    /\ UNCHANGED <<g_ukid, drv, boot, image, target, woken>>

\* AZ_LOADING, 3: the parameters follow the boot loader.
LoadMeta(i) ==
    /\ At(i, "meta") /\ Go(i, "addr")
    /\ boot' = [boot EXCEPT !.ukid = drv.ukid, !.cores = drv.cores, !.mem = drv.index]
    /\ stat' = stat \cup {drv.ukid}
    /\ UNCHANGED <<g_ukid, drv, image, target, woken>>

AZ_GET_MEM_ADDR(i) ==
    /\ At(i, "addr") /\ Go(i, "kernel")
    /\ target' = [target EXCEPT ![i] = drv.index]
    /\ UNCHANGED <<g_ukid, drv, boot, stat, image, woken>>

CopyKernel(i) ==
    /\ At(i, "kernel") /\ Go(i, "app")
    /\ image' = [image EXCEPT ![target[i]].kernel = i]
    /\ UNCHANGED <<g_ukid, drv, boot, stat, target, woken>>

CopyApp(i) ==
    /\ At(i, "app") /\ Go(i, "wake")
    /\ image' = [image EXCEPT ![target[i]].app = i]
    /\ UNCHANGED <<g_ukid, drv, boot, stat, target, woken>>

\* INIT and STARTUP; that they arrive is taken for granted, as CPU_ON does.
wakeup_secondary_cpu_via_init(c) == woken' = woken \cup {c}

\* The next core.  The second that the script sleeps after the first one is
\* long, but nothing waits for the core.
CPU_ON(i) ==
    /\ At(i, "wake")
    /\ LET k == Cardinality(woken \cap CpuOf(i)) + 1
       IN  /\ wakeup_secondary_cpu_via_init(<<i, k>>)
           /\ Go(i, IF k = CoreCount[i] THEN "done" ELSE "wake")
    /\ UNCHANGED <<g_ukid, drv, boot, stat, image, target>>

=============================================================================
