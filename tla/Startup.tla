------------------------------- MODULE Startup -------------------------------
(***************************************************************************)
(* How a unikernel comes up once its cores are woken: every core finds its *)
(* memory through the boot page table, takes a number and a stack, and     *)
(* reads the parameters from the boot page; the first one initialises the  *)
(* kernel, lets the others go, connects to the proxies and starts the      *)
(* application (kernel/entrypoint.S, main.c, multiprocessor.c, the end of  *)
(* thread.c, and the two init_..._channel functions).                      *)
(*                                                                         *)
(* Nothing keeps a second unikernel from being loaded while the first one  *)
(* still boots, so that the boot page changes under its cores.  What such  *)
(* cores execute is not followed: "disturbed" are the unikernels to which  *)
(* it has happened.                                                        *)
(***************************************************************************)
EXTENDS Sideloader

CONSTANT Channels   \* the channels of the offload proxy

ASSUME StartupAssumption == Channels \in Nat /\ Channels >= Nodes

VARIABLES
    pc,             \* pc[c]: where core c is
    apic_id,        \* list_apic_id
    stack,          \* the number that set_apic_id returned, which places the stack
    bsp,            \* the cores that call Main(1)
    home,           \* home[c]: the memory that the kernel's page table maps for c
    kern,           \* kern[m]: the variables of the kernel in memory m
    console,        \* console[i]: no magic, a magic left behind, or a proxy that runs
    offload_magic,  \* OFFLOAD_MAGIC is set
    disturbed       \* the unikernels that are no longer followed

coreVars == <<pc, apic_id, stack, bsp, home>>
proxyVars == <<console, offload_magic>>
vars == <<sideVars, coreVars, kern, proxyVars, disturbed>>

Step == {"off", "return", "count", "inc", "main", "ready", "table", "init", "ap",
         "low", "console", "magic", "puts", "offload", "cores", "running"}

\* The kernel's data as lkload copies it.
Fresh == [curr_cpu |-> 0, ap_count |-> 0, ap_ready |-> FALSE, done |-> {},
          ukid |-> None, size |-> None, mem |-> None,
          console |-> None, node |-> None, app |-> FALSE]

Memory == Index \cup {None}
Kernel == [curr_cpu : Nat, ap_count : Nat, ap_ready : BOOLEAN,
           done : SUBSET {"table", "subsystems", "low"},
           ukid : Int \cup {None}, size : Nat \cup {None}, mem : Memory,
           console : Memory, node : Memory, app : BOOLEAN]

StartupTypeOK ==
    /\ pc \in [Cpu -> Step]
    /\ apic_id \in [Cpu -> Nat \cup {None}] /\ stack \in [Cpu -> Nat \cup {None}]
    /\ bsp \subseteq Cpu
    /\ home \in [Cpu -> Index \cup {None}]
    /\ kern \in [Index -> Kernel]
    /\ console \in [Index -> {"none", "stale", "proxy"}] /\ offload_magic \in BOOLEAN
    /\ disturbed \subseteq Index

StartupInit ==
    /\ SideloaderInit
    /\ pc = [c \in Cpu |-> "off"]
    /\ apic_id = [c \in Cpu |-> None] /\ stack = [c \in Cpu |-> None]
    /\ bsp = {} /\ home = [c \in Cpu |-> None]
    /\ kern = [m \in Index |-> Fresh]
    \* A proxy that has ended leaves its magic behind.
    /\ console \in [Index -> {"none", "stale"}] /\ offload_magic \in BOOLEAN
    /\ disturbed = {}

-----------------------------------------------------------------------------
\* The loader

\* The boot page is no longer needed by unikernel i.
OnKernelTable(c) == pc[c] \in {"init", "ap", "low", "console", "magic", "puts", "offload", "cores", "running"}
Settled(i) ==
    /\ script[i] = "done"
    /\ \A c \in CpuOf(i) : pc[c] \in {"cores", "running"}
Busy(i) == script[i] # "param" /\ ~ Settled(i)

\* A load that begins while another unikernel is loaded or boots, or that gets
\* no id and so is done with the parameters of the one before.
Disturbs(i) ==
    LET busy == {j \in Index : Busy(j)}
    IN  (IF busy # {} THEN busy \cup {i} ELSE {})
          \cup (IF FreeIds = {} THEN {i, drv.index} \cap Index ELSE {})

Param(i) ==
    /\ AZ_PARAM(i)
    /\ disturbed' = disturbed \cup Disturbs(i)
    /\ UNCHANGED <<coreVars, kern, proxyVars>>

Load(i) ==
    /\ LoadTable(i) \/ LoadClear(i) \/ LoadMeta(i) \/ AZ_GET_MEM_ADDR(i) \/ CopyApp(i) \/ CPU_ON(i)
    /\ UNCHANGED <<coreVars, kern, proxyVars, disturbed>>

LoadKernel(i) ==
    /\ CopyKernel(i)
    /\ kern' = [kern EXCEPT ![target[i]] = Fresh]
    /\ UNCHANGED <<coreVars, proxyVars, disturbed>>

Script(i) == i \notin disturbed /\ (Param(i) \/ Load(i) \/ LoadKernel(i))

-----------------------------------------------------------------------------
\* The cores

\* The memory in which core c executes.
Mem(c) == IF OnKernelTable(c) THEN home[c] ELSE boot.table

Move(c, from, to) == pc[c] = from /\ pc' = [pc EXCEPT ![c] = to]
Set(c, field, value) == kern' = [kern EXCEPT ![Mem(c)][field] = value]
Keep == UNCHANGED <<sideVars, proxyVars>>

\* The core leaves reset through the boot page, and set_apic_id gives it the
\* next number, under apic_lock.  A core that comes between another one and
\* its return makes that one return a number too large.
set_apic_id(c) ==
    /\ c \in woken /\ Move(c, "off", "return")
    /\ apic_id' = [apic_id EXCEPT ![c] = kern[Mem(c)].curr_cpu]
    /\ Set(c, "curr_cpu", kern[Mem(c)].curr_cpu + 1)
    /\ disturbed' = disturbed \cup {d[1] : d \in {e \in Cpu : pc[e] = "return" /\ Mem(e) = Mem(c)}}
    /\ Keep /\ UNCHANGED <<stack, bsp, home>>

\* The return value is read after the unlock.
ReturnId(c) ==
    /\ Move(c, "return", "count")
    /\ stack' = [stack EXCEPT ![c] = kern[Mem(c)].curr_cpu]
    /\ Keep /\ UNCHANGED <<apic_id, bsp, home, kern, disturbed>>

\* Mutant: the count is tested and not set in the same instruction.
CountUnlocked(c) ==
    /\ pc[c] = "count"
    /\ IF kern[Mem(c)].ap_count = 0
       THEN Move(c, "count", "inc") /\ bsp' = bsp \cup {c}
       ELSE Move(c, "count", "inc") /\ UNCHANGED bsp
    /\ Keep /\ UNCHANGED <<apic_id, stack, home, kern, disturbed>>

\* lock cmpxchg: the core that finds 0 is the BSP.
Count(c) ==
    /\ pc[c] = "count"
    /\ IF kern[Mem(c)].ap_count = 0
       THEN /\ Move(c, "count", "main")
            /\ Set(c, "ap_count", 1)
            /\ bsp' = bsp \cup {c}
       ELSE Move(c, "count", "inc") /\ UNCHANGED <<bsp, kern>>
    /\ Keep /\ UNCHANGED <<apic_id, stack, home, disturbed>>

Increment(c) ==
    /\ Move(c, "inc", "main")
    /\ Set(c, "ap_count", kern[Mem(c)].ap_count + 1)
    /\ Keep /\ UNCHANGED <<apic_id, stack, bsp, home, disturbed>>

\* Main: every core writes the kernel's parameters anew, from the boot page.
Main(c) ==
    /\ Move(c, "main", IF c \in bsp THEN "table" ELSE "ready")
    /\ kern' = [kern EXCEPT ![Mem(c)].ukid = boot.ukid, ![Mem(c)].size = boot.cores,
                            ![Mem(c)].mem = boot.mem]
    /\ Keep /\ UNCHANGED <<apic_id, stack, bsp, home, disturbed>>

\* kernel_pagetables_init: the tables are filled and entered.
kernel_pagetables_init(c) ==
    /\ Move(c, "table", "init")
    /\ home' = [home EXCEPT ![c] = kern[Mem(c)].mem]
    /\ Set(c, "done", kern[Mem(c)].done \cup {"table"})
    /\ Keep /\ UNCHANGED <<apic_id, stack, bsp, disturbed>>

\* stat_init to timer_init.
Subsystems(c) ==
    /\ Move(c, "init", "ap")
    /\ Set(c, "done", kern[Mem(c)].done \cup {"subsystems"})
    /\ Keep /\ UNCHANGED <<apic_id, stack, bsp, home, disturbed>>

start_ap(c) ==
    /\ Move(c, "ap", "low")
    /\ Set(c, "ap_ready", TRUE)
    /\ Keep /\ UNCHANGED <<apic_id, stack, bsp, home, disturbed>>

\* signal_init and remove_low_identical_mapping.
RemoveLow(c) ==
    /\ Move(c, "low", "console")
    /\ Set(c, "done", kern[Mem(c)].done \cup {"low"})
    /\ Keep /\ UNCHANGED <<apic_id, stack, bsp, home, disturbed>>

\* get_console_id and get_offload_id read the boot page once more.
init_console_channel(c) ==
    /\ Move(c, "console", "magic")
    /\ Set(c, "console", boot.mem)
    /\ Keep /\ UNCHANGED <<apic_id, stack, bsp, home, disturbed>>

WaitMagic(c) ==
    /\ Move(c, "magic", "puts") /\ console[kern[Mem(c)].console] # "none"
    /\ Keep /\ UNCHANGED <<apic_id, stack, bsp, home, kern, disturbed>>

\* cs_boot_msg_print and cs_puts return when a proxy has answered.
cs_puts(c) ==
    /\ Move(c, "puts", "offload") /\ console[kern[Mem(c)].console] = "proxy"
    /\ Keep /\ UNCHANGED <<apic_id, stack, bsp, home, kern, disturbed>>

\* Without the proxy's magic there is no offloading, and the kernel goes on.
init_offload_channel(c) ==
    /\ Move(c, "offload", "cores")
    /\ IF offload_magic THEN Set(c, "node", boot.mem) ELSE UNCHANGED kern
    /\ Keep /\ UNCHANGED <<apic_id, stack, bsp, home, disturbed>>

\* An AP in Main: main_for_ap and setup_idle_thread, which enters the kernel's
\* page table.
main_for_ap(c) ==
    /\ Move(c, "ready", "running") /\ kern[Mem(c)].ap_ready
    /\ home' = [home EXCEPT ![c] = kern[Mem(c)].mem]
    /\ Keep /\ UNCHANGED <<apic_id, stack, bsp, kern, disturbed>>

\* Mutant: the BSP waits for as many APs as there are cores.
WaitForAll(c) ==
    /\ Move(c, "cores", "running") /\ kern[Mem(c)].ap_count - 1 = kern[Mem(c)].size
    /\ Set(c, "app", TRUE)
    /\ Keep /\ UNCHANGED <<apic_id, stack, bsp, home, disturbed>>

\* start_idle_thread on the BSP: the application runs when all cores have
\* counted themselves.
start_idle_thread(c) ==
    /\ Move(c, "cores", "running") /\ kern[Mem(c)].ap_count = kern[Mem(c)].size
    /\ Set(c, "app", TRUE)
    /\ Keep /\ UNCHANGED <<apic_id, stack, bsp, home, disturbed>>

Execute(c) ==
    /\ c[1] \notin disturbed
    /\ \/ set_apic_id(c) \/ ReturnId(c) \/ Count(c) \/ Increment(c) \/ Main(c)
       \/ kernel_pagetables_init(c) \/ Subsystems(c) \/ start_ap(c) \/ RemoveLow(c)
       \/ init_console_channel(c) \/ WaitMagic(c) \/ cs_puts(c) \/ init_offload_channel(c)
       \/ main_for_ap(c) \/ start_idle_thread(c)

-----------------------------------------------------------------------------
\* The proxies, in Linux

mmap_console_channel(i) ==
    /\ console[i] # "proxy"
    /\ console' = [console EXCEPT ![i] = "proxy"]
    /\ UNCHANGED <<sideVars, coreVars, kern, offload_magic, disturbed>>

\* mmap_channels takes the magic away, lays the channels out and sets it.
mmap_channels ==
    /\ offload_magic' = ~ offload_magic
    /\ UNCHANGED <<sideVars, coreVars, kern, console, disturbed>>

StartupNext ==
    \/ \E i \in Index : Script(i) \/ mmap_console_channel(i)
    \/ \E c \in Cpu : Execute(c)
    \/ mmap_channels

\* Nobody need start a unikernel; a load that has begun is finished, a core
\* executes, and every console gets its proxy.
StartupFairness ==
    /\ \A i \in Index : /\ WF_vars(i \notin disturbed /\ (Load(i) \/ LoadKernel(i)))
                        /\ WF_vars(mmap_console_channel(i))
    /\ \A c \in Cpu : WF_vars(Execute(c))

StartupSpec == StartupInit /\ [][StartupNext]_vars /\ StartupFairness

-----------------------------------------------------------------------------
\* Correctness

Followed == Index \ disturbed

\* A unikernel boots in its own memory with the images, the core count and the
\* channels that were meant for it, and shares its id with no other: the boot
\* page and the driver's variables serve one unikernel after the other.
BootsAsLoaded ==
    \A i \in Followed : \A c \in CpuOf(i) : pc[c] # "off" =>
        /\ Mem(c) = i /\ image[i] = [kernel |-> i, app |-> i]
        /\ kern[i].ukid # None =>
              /\ kern[i].mem = i /\ kern[i].size = CoreCount[i] /\ kern[i].ukid \in g_ukid
              /\ \A j \in Followed \ {i} : kern[j].ukid # kern[i].ukid
        /\ {kern[i].console, kern[i].node} \subseteq {i, None}

\* The cores of a unikernel have numbers of their own, below its core count,
\* and stacks of their own, though set_apic_id reads the number it returns
\* after it has given the lock back; one of them is the BSP, and the application
\* starts when every core has its number and its stack.
CoresApart ==
    \A i \in Followed :
        /\ \A c, d \in CpuOf(i) :
              /\ apic_id[c] # None => apic_id[c] < CoreCount[i]
              /\ c # d /\ apic_id[c] # None => apic_id[c] # apic_id[d]
              /\ c # d /\ stack[c] # None => stack[c] # stack[d]
        /\ Cardinality(bsp \cap CpuOf(i)) <= 1
        /\ kern[i].app => \A c \in CpuOf(i) : None \notin {apic_id[c], stack[c]}

\* get_offload_channel; the count of channels is divided in init_offload_channel.
ChannelSize == Channels \div Nodes
\* Mutant: the unikernel's share of the channels is forgotten.
ChannelOfCore(c) == apic_id[c]

get_offload_channel(c) == kern[Mem(c)].node * ChannelSize + apic_id[c]

\* No two cores send their calls through one channel, where the unikernels have
\* no more cores than their share of the channels.
OwnChannel ==
    \A i, j \in Followed : \A c \in CpuOf(i), d \in CpuOf(j) :
        /\ c # d /\ {CoreCount[i], CoreCount[j]} \subseteq 0 .. ChannelSize
        /\ {pc[c], pc[d]} \subseteq {"cores", "running"}
        /\ None \notin {kern[i].node, kern[j].node}
        => get_offload_channel(c) # get_offload_channel(d)

-----------------------------------------------------------------------------
\* The invariant behind the three

\* The driver and the boot page serve one unikernel at a time: no other load is
\* under way beside that of a unikernel that is followed.
Serves(i) ==
    /\ drv.index = i /\ drv.cores = CoreCount[i] /\ drv.ukid \in g_ukid
    /\ \A j \in Index \ {i} : ~ Busy(j)
    /\ \A j \in Followed \ {i} : kern[j].ukid # drv.ukid
    /\ script[i] # "table" => boot.table = i
    /\ script[i] \notin {"table", "clear", "meta"} =>
          boot.ukid = drv.ukid /\ boot.cores = CoreCount[i] /\ boot.mem = i

\* What has been loaded stays.
InMemory(i) ==
    /\ script[i] \in {"kernel", "app", "wake", "done"} => target[i] = i
    /\ script[i] \in {"app", "wake", "done"} => image[i].kernel = i
    /\ script[i] \in {"wake", "done"} => image[i].app = i
    /\ script[i] = "wake" => Cardinality(woken \cap CpuOf(i)) < CoreCount[i]

Loaded == \A i \in Followed : (Busy(i) => Serves(i)) /\ InMemory(i)

Begun(i) == {c \in CpuOf(i) : pc[c] # "off"}
Counted(i) == {c \in CpuOf(i) : pc[c] \notin {"off", "return", "count", "inc"}}

\* A core runs when it has been woken, in its unikernel's memory, and finds the
\* kernel's parameters once it has been through Main.
Placed(i, c) ==
    /\ pc[c] # "off" \/ c \in woken => script[i] \in {"wake", "done"}
    /\ OnKernelTable(c) => home[c] = i
    /\ pc[c] \notin {"off", "return", "count", "inc", "main"} => kern[i].ukid # None

\* It has its number and its stack from where it is, and they agree.
HasNumber(i, c) ==
    /\ apic_id[c] = None <=> pc[c] = "off"
    /\ stack[c] = None <=> pc[c] \in {"off", "return"}
    /\ apic_id[c] # None => apic_id[c] < kern[i].curr_cpu
    /\ pc[c] = "return" => apic_id[c] = kern[i].curr_cpu - 1
    /\ stack[c] # None => stack[c] = apic_id[c] + 1

\* No other core has its number, and the BSP is the only one.
Single(i, c) ==
    /\ c \in bsp => kern[i].ap_count > 0
    /\ \A d \in CpuOf(i) \ {c} : /\ apic_id[c] # None => apic_id[c] # apic_id[d]
                                 /\ c \notin bsp \/ d \notin bsp

Numbered(i) == \A c \in CpuOf(i) : Placed(i, c) /\ HasNumber(i, c) /\ Single(i, c)

\* The kernel's variables count its cores and hold what the driver was told.
KernelKnows(i) ==
    /\ kern[i].curr_cpu = Cardinality(Begun(i))
    /\ kern[i].ap_count = Cardinality(Counted(i))
    /\ kern[i].ukid # None =>
          kern[i].mem = i /\ kern[i].size = CoreCount[i] /\ kern[i].ukid \in g_ukid
    /\ {kern[i].console, kern[i].node} \subseteq {i, None}
    /\ kern[i].app => kern[i].ap_count = CoreCount[i]

IdsApart ==
    \A i, j \in Followed : i # j /\ kern[i].ukid # None => kern[i].ukid # kern[j].ukid

StartupInv ==
    /\ SideloaderTypeOK /\ StartupTypeOK
    /\ Loaded /\ IdsApart
    /\ \A i \in Followed : Numbered(i) /\ KernelKnows(i)

\* A unikernel whose load has begun starts its application, unless another load
\* or the race of set_apic_id disturbs it: the BSP waits for exactly as many
\* cores as the script wakes.
AppStarts == \A i \in Index : script[i] # "param" ~> (kern[i].app \/ i \in disturbed)

=============================================================================
