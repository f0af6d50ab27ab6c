-------------------------- MODULE StartupCoreProofs ----------------------------
(***************************************************************************)
(* What the cores of a unikernel do, from reset to the application, keeps  *)
(* StartupInv, the invariant of Startup (lemma CoresKeep).  StartupProofs  *)
(* adds the loader and draws the conclusions.                              *)
(***************************************************************************)
EXTENDS Startup, TLAPS

-----------------------------------------------------------------------------
(* Cores *)

LEMMA CpuIs ==
    /\ \A i \in Index : CpuOf(i) \subseteq Cpu
    /\ \A i, c : c \in CpuOf(i) => c[1] = i
    /\ \A c \in Cpu : c[1] \in Index /\ c \in CpuOf(c[1])
BY DEF Cpu, CpuOf

\* What the steps below need of counting; StartupProofs shows that it is so.
Counting(i) ==
    \A S \in SUBSET CpuOf(i) :
        /\ \A c \in CpuOf(i) \ S : Cardinality(S \cup {c}) = Cardinality(S) + 1
        /\ Cardinality(S) = CoreCount[i] => S = CpuOf(i)

-----------------------------------------------------------------------------
(* A step of a core *)

\* A core that executes is in its unikernel's memory, and until it waits for the
\* others the boot page is its unikernel's.
LEMMA InOwnMemory ==
    ASSUME StartupInv, NEW i \in Followed, NEW c \in CpuOf(i),
           pc[c] # "off" \/ c \in woken
    PROVE  /\ Mem(c) = i /\ i \in Index /\ c \in Cpu
           /\ script[i] \in {"wake", "done"}
           /\ pc[c] \notin {"cores", "running"} =>
                 /\ Busy(i) /\ boot.table = i
                 /\ drv.ukid \in g_ukid /\ boot.ukid = drv.ukid
                 /\ boot.cores = CoreCount[i] /\ boot.mem = i
                 /\ \A j \in Followed \ {i} : kern[j].ukid # drv.ukid
<1>1. i \in Index /\ c \in Cpu
    BY CpuIs DEF Followed
<1>2. script[i] \in {"wake", "done"} /\ (OnKernelTable(c) => home[c] = i)
    BY DEF StartupInv, Numbered, Placed
<1>3. pc[c] \notin {"cores", "running"} => Busy(i)
    BY <1>2 DEF Busy, Settled
<1>4. Busy(i) => /\ boot.table = i
                 /\ drv.ukid \in g_ukid /\ boot.ukid = drv.ukid
                 /\ boot.cores = CoreCount[i] /\ boot.mem = i
                 /\ \A j \in Followed \ {i} : kern[j].ukid # drv.ukid
    BY <1>2 DEF StartupInv, Loaded, Serves
<1> QED BY <1>1, <1>2, <1>3, <1>4 DEF Mem, OnKernelTable

\* What a step of core c of unikernel i leaves alone.
CoreStep(c, i) ==
    /\ pc[c] # "off" \/ c \in woken
    /\ UNCHANGED sideVars
    /\ disturbed \subseteq disturbed'
    /\ \A d \in Cpu \ {c} :
          /\ pc'[d] = pc[d] /\ apic_id'[d] = apic_id[d] /\ stack'[d] = stack[d]
          /\ home'[d] = home[d] /\ (d \in bsp' <=> d \in bsp)
    /\ \A j \in Index \ {i} : kern'[j] = kern[j]
    /\ pc[c] \in {"cores", "running"} => pc'[c] = "running"
    /\ kern'[i].ukid # kern[i].ukid =>
          kern'[i].ukid = boot.ukid /\ pc[c] \notin {"cores", "running"}

\* A step behind Main leaves the numbers and the parameters alone.
QuietStep(c, i) ==
    /\ {pc[c], pc'[c]} \cap {"off", "return", "count", "inc", "main"} = {}
    /\ UNCHANGED <<apic_id, stack, bsp, disturbed>>
    /\ OnKernelTable(c)' => home'[c] = i
    /\ kern'[i].curr_cpu = kern[i].curr_cpu /\ kern'[i].ap_count = kern[i].ap_count
    /\ kern'[i].ukid = kern[i].ukid /\ kern'[i].size = kern[i].size
    /\ kern'[i].mem = kern[i].mem
    /\ {kern'[i].console, kern'[i].node} \subseteq {i, None}
    /\ kern'[i].app => kern[i].app \/ kern[i].ap_count = kern[i].size

\* A flag of the kernel can be set.
LEMMA FlagsSet ==
    ASSUME NEW k \in [Index -> Kernel], NEW i \in Index
    PROVE  /\ [k EXCEPT ![i]["app"] = TRUE] \in [Index -> Kernel]
           /\ [k EXCEPT ![i]["ap_ready"] = TRUE] \in [Index -> Kernel]
<1>1. [k EXCEPT ![i]["app"] = TRUE] \in [Index -> Kernel]
    BY Zenon DEF Kernel
<1>2. [k EXCEPT ![i]["ap_ready"] = TRUE] \in [Index -> Kernel]
    BY Zenon DEF Kernel
<1> QED BY <1>1, <1>2

LEMMA QuietSteps ==
    ASSUME StartupInv, NEW i \in Followed, NEW c \in CpuOf(i),
           \/ kernel_pagetables_init(c) \/ Subsystems(c) \/ start_ap(c) \/ RemoveLow(c)
           \/ init_console_channel(c) \/ WaitMagic(c) \/ cs_puts(c)
           \/ init_offload_channel(c) \/ main_for_ap(c) \/ start_idle_thread(c)
    PROVE  CoreStep(c, i) /\ StartupTypeOK' /\ QuietStep(c, i)
<1>1. i \in Index /\ c \in Cpu
    BY CpuIs DEF Followed
<1>2. pc[c] \in {"table", "init", "ap", "low", "console", "magic", "puts", "offload", "cores", "ready"}
    BY DEF kernel_pagetables_init, Subsystems, start_ap, RemoveLow, init_console_channel,
           WaitMagic, cs_puts, init_offload_channel, main_for_ap, start_idle_thread, Move
<1>3. Mem(c) = i /\ (pc[c] # "cores" => boot.mem = i)
    BY <1>1, <1>2, InOwnMemory
<1>4. /\ pc \in [Cpu -> Step] /\ home \in [Cpu -> Memory] /\ kern \in [Index -> Kernel]
      /\ kern[i].mem = i /\ {kern[i].console, kern[i].node} \subseteq {i, None}
      /\ (OnKernelTable(c) => home[c] = i)
    <2>1. kern[i].ukid # None /\ (OnKernelTable(c) => home[c] = i)
        BY <1>1, <1>2 DEF StartupInv, Numbered, Placed
    <2> QED BY <1>1, <2>1 DEF StartupInv, StartupTypeOK, KernelKnows, Memory
<1> DEFINE Rest == /\ UNCHANGED <<sideVars, apic_id, stack, bsp, disturbed, proxyVars>>
                   /\ kern' \in [Index -> Kernel]
                   /\ \A j \in Index \ {i} : kern'[j] = kern[j]
                   /\ kern'[i].curr_cpu = kern[i].curr_cpu /\ kern'[i].ap_count = kern[i].ap_count
                   /\ kern'[i].ukid = kern[i].ukid /\ kern'[i].size = kern[i].size
                   /\ kern'[i].mem = kern[i].mem
                   /\ {kern'[i].console, kern'[i].node} \subseteq {i, None}
                   /\ kern'[i].app => kern[i].app \/ kern[i].ap_count = kern[i].size
           Moves == /\ pc' = [pc EXCEPT ![c] = pc'[c]] /\ home' = [home EXCEPT ![c] = home'[c]]
                    /\ pc'[c] \in Step \ {"off", "return", "count", "inc", "main"}
                    /\ home'[c] \in Memory
                    /\ pc[c] = "cores" => pc'[c] = "running"
                    /\ OnKernelTable(c)' => home'[c] = i
<1>5. ASSUME kernel_pagetables_init(c) PROVE Rest /\ Moves
    <2>1. Rest
        BY <1>1, <1>3, <1>4, <1>5 DEF kernel_pagetables_init, Move, Set, Keep, Kernel, Memory
    <2>2. Moves
        BY <1>1, <1>3, <1>4, <1>5 DEF kernel_pagetables_init, Move, Step, OnKernelTable, Memory, Kernel
    <2> QED BY <2>1, <2>2
<1>6. ASSUME Subsystems(c) PROVE Rest /\ Moves
    <2>1. Rest
        BY <1>1, <1>3, <1>4, <1>6 DEF Subsystems, Move, Set, Keep, Kernel, Memory
    <2>2. Moves
        BY <1>1, <1>3, <1>4, <1>6 DEF Subsystems, Move, Step, OnKernelTable, Memory, Kernel
    <2> QED BY <2>1, <2>2
<1>7. ASSUME start_ap(c) PROVE Rest /\ Moves
    <2>1. kern' = [kern EXCEPT ![i]["ap_ready"] = TRUE]
        BY <1>3, <1>7 DEF start_ap, Set
    <2>2. kern' \in [Index -> Kernel]
        BY <1>1, <1>4, <2>1, FlagsSet, Zenon
    <2>3. Rest
        BY <1>1, <1>3, <1>4, <1>7, <2>1, <2>2 DEF start_ap, Keep, Kernel
    <2>4. Moves
        BY <1>1, <1>3, <1>4, <1>7 DEF start_ap, Move, Step, OnKernelTable, Memory, Kernel
    <2> QED BY <2>3, <2>4
<1>8. ASSUME RemoveLow(c) PROVE Rest /\ Moves
    <2>1. Rest
        BY <1>1, <1>3, <1>4, <1>8 DEF RemoveLow, Move, Set, Keep, Kernel, Memory
    <2>2. Moves
        BY <1>1, <1>3, <1>4, <1>8 DEF RemoveLow, Move, Step, OnKernelTable, Memory, Kernel
    <2> QED BY <2>1, <2>2
<1>9. ASSUME init_console_channel(c) PROVE Rest /\ Moves
    <2>1. Rest
        BY <1>1, <1>3, <1>4, <1>9 DEF init_console_channel, Move, Set, Keep, Kernel, Memory
    <2>2. Moves
        BY <1>1, <1>3, <1>4, <1>9 DEF init_console_channel, Move, Step, OnKernelTable, Memory, Kernel
    <2> QED BY <2>1, <2>2
<1>10. ASSUME WaitMagic(c) PROVE Rest /\ Moves
    <2>1. Rest
        BY <1>1, <1>3, <1>4, <1>10 DEF WaitMagic, Move, Set, Keep, Kernel, Memory
    <2>2. Moves
        BY <1>1, <1>3, <1>4, <1>10 DEF WaitMagic, Move, Step, OnKernelTable, Memory, Kernel
    <2> QED BY <2>1, <2>2
<1>11. ASSUME cs_puts(c) PROVE Rest /\ Moves
    <2>1. Rest
        BY <1>1, <1>3, <1>4, <1>11 DEF cs_puts, Move, Set, Keep, Kernel, Memory
    <2>2. Moves
        BY <1>1, <1>3, <1>4, <1>11 DEF cs_puts, Move, Step, OnKernelTable, Memory, Kernel
    <2> QED BY <2>1, <2>2
<1>12. ASSUME init_offload_channel(c) PROVE Rest /\ Moves
    <2>1. Rest
        BY <1>1, <1>3, <1>4, <1>12 DEF init_offload_channel, Move, Set, Keep, Kernel, Memory
    <2>2. Moves
        BY <1>1, <1>3, <1>4, <1>12 DEF init_offload_channel, Move, Step, OnKernelTable, Memory, Kernel
    <2> QED BY <2>1, <2>2
<1>13. ASSUME main_for_ap(c) PROVE Rest /\ Moves
    <2>1. Rest
        BY <1>1, <1>3, <1>4, <1>13 DEF main_for_ap, Move, Set, Keep, Kernel, Memory
    <2>2. Moves
        BY <1>1, <1>3, <1>4, <1>13 DEF main_for_ap, Move, Step, OnKernelTable, Memory, Kernel
    <2> QED BY <2>1, <2>2
<1>14. ASSUME start_idle_thread(c) PROVE Rest /\ Moves
    <2>1. kern' = [kern EXCEPT ![i]["app"] = TRUE]
        BY <1>3, <1>14 DEF start_idle_thread, Set
    <2>2. kern' \in [Index -> Kernel]
        BY <1>1, <1>4, <2>1, FlagsSet, Zenon
    <2>3. Rest
        BY <1>1, <1>3, <1>4, <1>14, <2>1, <2>2 DEF start_idle_thread, Keep, Kernel
    <2>4. Moves
        BY <1>1, <1>3, <1>4, <1>14 DEF start_idle_thread, Move, Step, OnKernelTable, Memory, Kernel
    <2> QED BY <2>3, <2>4
<1>15. Rest /\ Moves
    BY <1>5, <1>6, <1>7, <1>8, <1>9, <1>10, <1>11, <1>12, <1>13, <1>14, Zenon
<1> HIDE DEF Rest, Moves
<1>16. StartupTypeOK'
    BY <1>15 DEF Rest, Moves, StartupInv, StartupTypeOK, Memory, proxyVars
<1>17. CoreStep(c, i)
    BY <1>2, <1>4, <1>15 DEF Rest, Moves, CoreStep
<1>18. QuietStep(c, i)
    BY <1>2, <1>15 DEF Rest, Moves, QuietStep
<1> QED BY <1>16, <1>17, <1>18

\* A step of a core leaves what has been loaded as it is, and the other
\* unikernels altogether.
LEMMA OthersKept ==
    ASSUME StartupInv, NEW i \in Followed, NEW c \in CpuOf(i), CoreStep(c, i)
    PROVE  /\ SideloaderTypeOK' /\ Loaded' /\ IdsApart'
           /\ \A j \in Followed' \ {i} : Numbered(j)' /\ KernelKnows(j)'
<1>0. i \in Index /\ c \in Cpu /\ Followed' \subseteq Followed /\ Followed \subseteq Index
    BY CpuIs DEF Followed, CoreStep
<1>1. SideloaderTypeOK'
    BY DEF StartupInv, SideloaderTypeOK, CoreStep, sideVars
<1>2. ASSUME NEW j \in Index, Busy(j)'
      PROVE  Busy(j)
    <2>1. script' = script
        BY DEF CoreStep, sideVars
    <2>2. \A d \in CpuOf(j) : pc[d] \in {"cores", "running"} => pc'[d] \in {"cores", "running"}
        BY <1>0, CpuIs DEF CoreStep
    <2> QED BY <1>2, <2>1, <2>2 DEF Busy, Settled
<1>3. pc[c] \notin {"cores", "running"} =>
          /\ Busy(i) /\ boot.ukid = drv.ukid /\ drv.ukid \in g_ukid
          /\ \A j \in Followed \ {i} : kern[j].ukid # drv.ukid
    BY InOwnMemory DEF CoreStep
<1>4. \/ kern'[i].ukid = kern[i].ukid
      \/ /\ Busy(i) /\ kern'[i].ukid = drv.ukid
         /\ \A j \in Followed \ {i} : kern[j].ukid # drv.ukid
    BY <1>3 DEF CoreStep
<1>5. \A j \in Index \ {i} : kern'[j] = kern[j]
    BY DEF CoreStep
<1>6. /\ drv' = drv /\ boot' = boot /\ script' = script /\ target' = target /\ image' = image
      /\ woken' = woken /\ g_ukid' = g_ukid
    BY DEF CoreStep, sideVars
<1>7. Loaded'
    <2> SUFFICES ASSUME NEW k \in Followed'
                 PROVE  (Busy(k)' => Serves(k)') /\ InMemory(k)'
        BY DEF Loaded
    <2>1. k \in Followed /\ k \in Index /\ (Busy(k) => Serves(k)) /\ InMemory(k)
        BY <1>0 DEF StartupInv, Loaded
    <2>2. ASSUME Busy(k)' PROVE Serves(k)'
        <3>1. Busy(k) /\ Serves(k)
            BY <1>2, <2>1, <2>2
        <3>2. \A j \in Index \ {k} : ~ Busy(j)'
            BY <1>2, <3>1 DEF Serves
        <3>3. \A j \in Followed' \ {k} : kern'[j].ukid # drv.ukid
            <4> SUFFICES ASSUME NEW j \in Followed' \ {k} PROVE kern'[j].ukid # drv.ukid
                OBVIOUS
            <4>1. ~ Busy(j) /\ kern[j].ukid # drv.ukid
                BY <1>0, <3>1 DEF Serves
            <4> QED BY <1>0, <1>4, <1>5, <4>1
        <3> QED BY <1>6, <3>1, <3>2, <3>3 DEF Serves
    <2>3. InMemory(k)'
        BY <1>6, <2>1 DEF InMemory, CpuOf
    <2> QED BY <2>2, <2>3
<1>8. IdsApart'
    <2> SUFFICES ASSUME NEW k \in Followed', NEW j \in Followed', k # j, kern'[k].ukid # None
                 PROVE  kern'[k].ukid # kern'[j].ukid
        BY DEF IdsApart
    <2>1. k \in Followed /\ j \in Followed
        BY <1>0
    <2>2. kern[k].ukid # None => kern[k].ukid # kern[j].ukid
        BY <2>1 DEF StartupInv, IdsApart
    <2>3. kern[j].ukid # None => kern[k].ukid # kern[j].ukid
        BY <2>1 DEF StartupInv, IdsApart
    <2> QED BY <1>0, <1>4, <1>5, <2>1, <2>2, <2>3
<1>9. ASSUME NEW j \in Followed' \ {i} PROVE Numbered(j)' /\ KernelKnows(j)'
    <2>1. j \in Followed /\ kern'[j] = kern[j]
        BY <1>0, <1>5
    <2>2. \A d \in CpuOf(j) : d # c /\ d \in Cpu
        BY <1>0, CpuIs
    <2>3. \A d \in CpuOf(j) :
              /\ pc'[d] = pc[d] /\ apic_id'[d] = apic_id[d] /\ stack'[d] = stack[d]
              /\ home'[d] = home[d] /\ (d \in bsp' <=> d \in bsp)
        BY <2>2 DEF CoreStep
    <2>4. Begun(j)' = Begun(j) /\ Counted(j)' = Counted(j)
        BY <2>3 DEF Begun, Counted, CpuOf
    <2>5. Numbered(j) /\ KernelKnows(j)
        BY <2>1 DEF StartupInv
    <2>6. Numbered(j)'
        <3> SUFFICES ASSUME NEW d \in CpuOf(j)
                     PROVE  Placed(j, d)' /\ HasNumber(j, d)' /\ Single(j, d)'
            BY DEF Numbered, CpuOf
        <3>1. Placed(j, d) /\ HasNumber(j, d) /\ Single(j, d)
            BY <2>5 DEF Numbered
        <3>2. Placed(j, d)'
            BY <1>6, <2>1, <2>3, <3>1 DEF Placed, OnKernelTable
        <3>3. HasNumber(j, d)'
            BY <2>1, <2>3, <3>1 DEF HasNumber
        <3>4. Single(j, d)'
            BY <2>1, <2>3, <3>1 DEF Single, CpuOf
        <3> QED BY <3>2, <3>3, <3>4
    <2>7. KernelKnows(j)'
        BY <1>6, <2>1, <2>4, <2>5 DEF KernelKnows
    <2> QED BY <2>6, <2>7
<1> QED BY <1>1, <1>7, <1>8, <1>9

LEMMA QuietKept ==
    ASSUME StartupInv, NEW i \in Followed, NEW c \in CpuOf(i), CoreStep(c, i), QuietStep(c, i)
    PROVE  Numbered(i)' /\ KernelKnows(i)'
<1>0. i \in Index /\ c \in Cpu /\ CpuOf(i) \subseteq Cpu
    BY CpuIs DEF Followed
<1>1. /\ \A d \in CpuOf(i) \ {c} : pc'[d] = pc[d] /\ home'[d] = home[d]
      /\ woken' = woken /\ script' = script /\ g_ukid' = g_ukid
    BY <1>0 DEF CoreStep, sideVars
<1>2. /\ {pc[c], pc'[c]} \cap {"off", "return", "count", "inc", "main"} = {}
      /\ apic_id' = apic_id /\ stack' = stack /\ bsp' = bsp
      /\ OnKernelTable(c)' => home'[c] = i
      /\ kern'[i].curr_cpu = kern[i].curr_cpu /\ kern'[i].ap_count = kern[i].ap_count
      /\ kern'[i].ukid = kern[i].ukid /\ kern'[i].size = kern[i].size
      /\ kern'[i].mem = kern[i].mem
      /\ {kern'[i].console, kern'[i].node} \subseteq {i, None}
      /\ kern'[i].app => kern[i].app \/ kern[i].ap_count = kern[i].size
    BY DEF QuietStep
<1>3. Begun(i)' = Begun(i) /\ Counted(i)' = Counted(i)
    BY <1>1, <1>2 DEF Begun, Counted, CpuOf
<1>4. Numbered(i) /\ KernelKnows(i)
    BY DEF StartupInv
<1>5. Numbered(i)'
    <2> SUFFICES ASSUME NEW d \in CpuOf(i)
                 PROVE  Placed(i, d)' /\ HasNumber(i, d)' /\ Single(i, d)'
        BY DEF Numbered, CpuOf
    <2>1. Placed(i, d) /\ HasNumber(i, d) /\ Single(i, d)
        BY <1>4 DEF Numbered
    <2>2. Placed(i, d)'
        BY <1>1, <1>2, <2>1 DEF Placed, OnKernelTable
    <2>3. HasNumber(i, d)'
        BY <1>1, <1>2, <2>1 DEF HasNumber
    <2>4. Single(i, d)'
        BY <1>2, <2>1 DEF Single, CpuOf
    <2> QED BY <2>2, <2>3, <2>4
<1>6. KernelKnows(i)'
    <2>1. kern[i].ukid # None /\ kern[i].size = CoreCount[i]
        BY <1>2, <1>4 DEF Numbered, Placed, KernelKnows
    <2> QED BY <1>1, <1>2, <1>3, <1>4, <2>1 DEF KernelKnows
<1> QED BY <1>5, <1>6

\* A core takes its number; whoever is on its way back with one is disturbed.
LEMMA NumberTaken ==
    ASSUME StartupInv, NEW i \in Followed, NEW c \in CpuOf(i), set_apic_id(c), Counting(i)
    PROVE  /\ CoreStep(c, i) /\ StartupTypeOK'
           /\ i \in Followed' => Numbered(i)' /\ KernelKnows(i)'
<1>0. i \in Index /\ c \in Cpu /\ CpuOf(i) \subseteq Cpu
    BY CpuIs DEF Followed
<1>1. pc[c] = "off" /\ c \in woken /\ pc' = [pc EXCEPT ![c] = "return"]
    BY DEF set_apic_id, Move
<1>2. Mem(c) = i /\ boot.table = i /\ StartupTypeOK /\ Numbered(i) /\ KernelKnows(i)
    BY <1>1, InOwnMemory DEF StartupInv
<1> DEFINE k == kern[i].curr_cpu
<1>3. /\ kern' = [kern EXCEPT ![i]["curr_cpu"] = k + 1] /\ apic_id' = [apic_id EXCEPT ![c] = k]
      /\ UNCHANGED <<sideVars, proxyVars, stack, bsp, home>>
      /\ disturbed' = disturbed \cup {d[1] : d \in {e \in Cpu : pc[e] = "return" /\ Mem(e) = i}}
    BY <1>2 DEF set_apic_id, Set, Keep
<1>4. k \in Nat /\ kern' \in [Index -> Kernel]
    <2>1. kern \in [Index -> Kernel]
        BY <1>2 DEF StartupTypeOK
    <2>2. k \in Nat
        BY <1>0, <2>1 DEF Kernel
    <2> QED BY <1>0, <1>3, <2>1, <2>2 DEF Kernel
<1>5. /\ \A j \in Index \ {i} : kern'[j] = kern[j]
      /\ kern'[i].curr_cpu = k + 1
      /\ kern'[i].ap_count = kern[i].ap_count /\ kern'[i].ukid = kern[i].ukid
      /\ kern'[i].size = kern[i].size /\ kern'[i].mem = kern[i].mem
      /\ kern'[i].console = kern[i].console /\ kern'[i].node = kern[i].node
      /\ kern'[i].app = kern[i].app
    BY <1>0, <1>2, <1>3 DEF StartupTypeOK, Kernel
<1>6. /\ pc'[c] = "return" /\ apic_id'[c] = k /\ pc' \in [Cpu -> Step] /\ apic_id' \in [Cpu -> Nat \cup {None}]
      /\ \A d \in Cpu \ {c} : pc'[d] = pc[d] /\ apic_id'[d] = apic_id[d]
    BY <1>0, <1>1, <1>2, <1>3, <1>4 DEF StartupTypeOK, Step
<1> HIDE DEF k
<1>7. disturbed \subseteq disturbed' /\ disturbed' \subseteq Index
    BY <1>2, <1>3, CpuIs DEF StartupTypeOK
<1>8. StartupTypeOK'
    BY <1>2, <1>3, <1>4, <1>6, <1>7 DEF StartupTypeOK, proxyVars
<1>9. CoreStep(c, i)
    BY <1>1, <1>3, <1>5, <1>6, <1>7 DEF CoreStep
<1>10. ASSUME i \in Followed' PROVE Numbered(i)' /\ KernelKnows(i)'
    <2>1. \A d \in CpuOf(i) : pc[d] # "return"
        <3> SUFFICES ASSUME NEW d \in CpuOf(i), pc[d] = "return" PROVE FALSE
            OBVIOUS
        <3>1. Mem(d) = i /\ d \in Cpu /\ d[1] = i
            BY <1>0, <1>2, CpuIs DEF Mem, OnKernelTable
        <3>2. i \in disturbed'
            BY <1>3, <3>1
        <3> QED BY <1>10, <3>2 DEF Followed
    <2>2. c \notin Begun(i) /\ Begun(i)' = Begun(i) \cup {c} /\ Counted(i)' = Counted(i)
        BY <1>0, <1>1, <1>6 DEF Begun, Counted, CpuOf
    <2>3. Cardinality(Begun(i)') = k + 1
        <3>1. Cardinality(Begun(i)) = k /\ Begun(i) \in SUBSET CpuOf(i)
            BY <1>2 DEF KernelKnows, Begun, k
        <3> QED BY <2>2, <3>1 DEF Counting
    <2>4. /\ woken' = woken /\ script' = script /\ g_ukid' = g_ukid /\ stack' = stack
          /\ bsp' = bsp /\ home' = home
        BY <1>3 DEF sideVars
    <2>5. KernelKnows(i)'
        BY <1>2, <1>5, <2>2, <2>3, <2>4 DEF KernelKnows
    <2>6. ASSUME NEW d \in CpuOf(i)
          PROVE  Placed(i, d)' /\ HasNumber(i, d)' /\ Single(i, d)'
        <3>1. None \notin Nat
            BY SideloaderAssumption
        <3>2. \A d1 \in CpuOf(i) : apic_id[d1] # None => apic_id[d1] \in Nat /\ apic_id[d1] < k
            BY <1>0, <1>2 DEF Numbered, HasNumber, StartupTypeOK, k
        <3>3. Placed(i, d) /\ HasNumber(i, d) /\ Single(i, d)
            BY <1>2, <2>6 DEF Numbered
        <3>4. Placed(i, d)'
            BY <1>0, <1>1, <1>5, <1>6, <2>4, <2>6, <3>3 DEF Placed, OnKernelTable
        <3>5. HasNumber(i, d)'
            <4>1. CASE d = c
                BY <1>1, <1>4, <1>5, <1>6, <2>4, <3>1, <3>3, <4>1 DEF HasNumber
            <4>2. CASE d # c
                <5>1. pc'[d] = pc[d] /\ apic_id'[d] = apic_id[d] /\ pc[d] # "return"
                    BY <1>0, <1>6, <2>1, <2>6, <4>2
                <5>2. apic_id[d] # None => apic_id[d] < k + 1
                    BY <1>4, <2>6, <3>2
                <5> QED BY <1>5, <2>4, <3>3, <5>1, <5>2 DEF HasNumber
            <4> QED BY <4>1, <4>2
        <3>6. Single(i, d)'
            <4>1. d \in bsp' => kern'[i].ap_count > 0
                BY <1>5, <2>4, <3>3 DEF Single
            <4>2. ASSUME NEW e \in CpuOf(i) \ {d}
                  PROVE  /\ apic_id'[d] # None => apic_id'[d] # apic_id'[e]
                         /\ d \notin bsp' \/ e \notin bsp'
                <5>1. /\ apic_id[d] # None => apic_id[d] # apic_id[e]
                      /\ d \notin bsp \/ e \notin bsp
                    BY <3>3, <4>2 DEF Single
                <5>2. CASE d = c
                    BY <1>0, <1>4, <1>6, <2>4, <3>1, <3>2, <4>2, <5>1, <5>2
                <5>3. CASE e = c
                    BY <1>0, <1>4, <1>6, <2>4, <2>6, <3>1, <3>2, <4>2, <5>1, <5>3
                <5>4. CASE d # c /\ e # c
                    BY <1>0, <1>6, <2>4, <2>6, <4>2, <5>1, <5>4
                <5> QED BY <5>2, <5>3, <5>4
            <4> QED BY <4>1, <4>2 DEF Single, CpuOf
        <3> QED BY <3>4, <3>5, <3>6
    <2>7. Numbered(i)'
        BY <2>6 DEF Numbered, CpuOf
    <2> QED BY <2>5, <2>7
<1> QED BY <1>8, <1>9, <1>10

\* A step that gives no number: the other cores stay as they are.
LEMMA SameNumbers ==
    ASSUME StartupInv, NEW i \in Followed, NEW c \in CpuOf(i), CoreStep(c, i),
           apic_id' = apic_id, kern'[i].curr_cpu = kern[i].curr_cpu,
           kern[i].ap_count > 0 => kern'[i].ap_count > 0,
           kern[i].ukid # None => kern'[i].ukid # None,
           Placed(i, c)', HasNumber(i, c)',
           c \in bsp' => kern'[i].ap_count > 0,
           c \in bsp' => c \in bsp \/ \A d \in CpuOf(i) : d \notin bsp
    PROVE  Numbered(i)'
<1>0. i \in Index /\ c \in Cpu /\ CpuOf(i) \subseteq Cpu
    BY CpuIs DEF Followed
<1>1. /\ \A d \in CpuOf(i) \ {c} : /\ pc'[d] = pc[d] /\ home'[d] = home[d] /\ stack'[d] = stack[d]
                                   /\ (d \in bsp' <=> d \in bsp)
      /\ woken' = woken /\ script' = script
    BY <1>0 DEF CoreStep, sideVars
<1>2. \A d \in CpuOf(i) : Placed(i, d) /\ HasNumber(i, d) /\ Single(i, d)
    BY DEF StartupInv, Numbered
<1>3. ASSUME NEW d \in CpuOf(i) PROVE Placed(i, d)' /\ HasNumber(i, d)' /\ Single(i, d)'
    <2>1. CASE d = c
        <3>1. \A e \in CpuOf(i) \ {c} : /\ apic_id[c] # None => apic_id[c] # apic_id[e]
                                        /\ c \notin bsp \/ e \notin bsp
            BY <1>2 DEF Single
        <3>2. Single(i, c)'
            BY <1>1, <3>1 DEF Single, CpuOf
        <3> QED BY <2>1, <3>2
    <2>2. CASE d # c
        <3>0. d \in CpuOf(i) \ {c}
            BY <1>3, <2>2
        <3>1. Placed(i, d)'
            BY <1>1, <1>2, <3>0 DEF Placed, OnKernelTable
        <3>2. HasNumber(i, d)'
            BY <1>1, <1>2, <3>0 DEF HasNumber
        <3>3. Single(i, d)'
            <4>1. d \in bsp' => kern'[i].ap_count > 0
                BY <1>1, <1>2, <3>0 DEF Single
            <4>2. ASSUME NEW e \in CpuOf(i) \ {d}
                  PROVE  /\ apic_id'[d] # None => apic_id'[d] # apic_id'[e]
                         /\ d \notin bsp' \/ e \notin bsp'
                <5>1. /\ apic_id[d] # None => apic_id[d] # apic_id[e]
                      /\ d \notin bsp \/ e \notin bsp
                    BY <1>2, <3>0, <4>2 DEF Single
                <5> QED BY <1>1, <3>0, <4>2, <5>1
            <4> QED BY <4>1, <4>2 DEF Single, CpuOf
        <3> QED BY <3>1, <3>2, <3>3
    <2> QED BY <2>1, <2>2
<1> QED BY <1>3 DEF Numbered, CpuOf

\* The stack's number is the core's number and one, nobody having come between.
LEMMA NumberReturned ==
    ASSUME StartupInv, NEW i \in Followed, NEW c \in CpuOf(i), ReturnId(c)
    PROVE  /\ CoreStep(c, i) /\ StartupTypeOK'
           /\ Numbered(i)' /\ KernelKnows(i)'
<1>0. i \in Index /\ c \in Cpu /\ CpuOf(i) \subseteq Cpu
    BY CpuIs DEF Followed
<1>1. pc[c] = "return" /\ pc' = [pc EXCEPT ![c] = "count"]
    BY DEF ReturnId, Move
<1>2. /\ Mem(c) = i /\ StartupTypeOK /\ KernelKnows(i)
      /\ Placed(i, c) /\ HasNumber(i, c) /\ Single(i, c)
    BY <1>1, InOwnMemory DEF StartupInv, Numbered
<1>3. /\ stack' = [stack EXCEPT ![c] = kern[i].curr_cpu]
      /\ UNCHANGED <<sideVars, proxyVars, apic_id, bsp, home, kern, disturbed>>
    BY <1>2 DEF ReturnId, Keep
<1>4. kern[i].curr_cpu \in Nat
    BY <1>0, <1>2 DEF StartupTypeOK, Kernel
<1>5. /\ pc'[c] = "count" /\ stack'[c] = kern[i].curr_cpu
      /\ pc' \in [Cpu -> Step] /\ stack' \in [Cpu -> Nat \cup {None}]
      /\ \A d \in Cpu \ {c} : pc'[d] = pc[d] /\ stack'[d] = stack[d]
    BY <1>0, <1>1, <1>2, <1>3, <1>4 DEF StartupTypeOK, Step
<1>6. StartupTypeOK'
    BY <1>2, <1>3, <1>5 DEF StartupTypeOK, proxyVars
<1>7. CoreStep(c, i)
    BY <1>1, <1>3, <1>5 DEF CoreStep
<1>8. Placed(i, c)'
    BY <1>1, <1>2, <1>3, <1>5 DEF Placed, OnKernelTable, sideVars
<1>9. HasNumber(i, c)'
    <2>1. apic_id[c] # None /\ apic_id[c] = kern[i].curr_cpu - 1 /\ None \notin Nat
        BY <1>1, <1>2, SideloaderAssumption DEF HasNumber
    <2>2. apic_id[c] < kern[i].curr_cpu /\ kern[i].curr_cpu = apic_id[c] + 1
        BY <1>4, <2>1
    <2> QED BY <1>3, <1>4, <1>5, <2>1, <2>2 DEF HasNumber
<1>10. Numbered(i)'
    BY <1>2, <1>3, <1>7, <1>8, <1>9, SameNumbers DEF Single
<1>11. Begun(i)' = Begun(i) /\ Counted(i)' = Counted(i)
    BY <1>0, <1>1, <1>5 DEF Begun, Counted, CpuOf
<1>12. KernelKnows(i)'
    BY <1>2, <1>3, <1>11 DEF KernelKnows, sideVars
<1> QED BY <1>6, <1>7, <1>10, <1>12

\* A core counts itself; the one that finds nobody counted is the BSP.
LEMMA CoreCounted ==
    ASSUME StartupInv, NEW i \in Followed, NEW c \in CpuOf(i), Count(c) \/ Increment(c),
           Counting(i)
    PROVE  /\ CoreStep(c, i) /\ StartupTypeOK'
           /\ Numbered(i)' /\ KernelKnows(i)'
<1>0. i \in Index /\ c \in Cpu /\ CpuOf(i) \subseteq Cpu
    BY CpuIs DEF Followed
<1>1. pc[c] \in {"count", "inc"}
    BY DEF Count, Increment, Move
<1>2. /\ Mem(c) = i /\ StartupTypeOK /\ KernelKnows(i)
      /\ Placed(i, c) /\ HasNumber(i, c) /\ Single(i, c)
      /\ \A d \in CpuOf(i) : d \in bsp => kern[i].ap_count > 0
    BY <1>1, InOwnMemory DEF StartupInv, Numbered, Single
<1> DEFINE n == kern[i].ap_count
<1>3. n \in Nat /\ Cardinality(Counted(i)) = n /\ kern \in [Index -> Kernel]
    BY <1>0, <1>2 DEF StartupTypeOK, Kernel, KernelKnows
<1> DEFINE Same == /\ \A j \in Index \ {i} : kern'[j] = kern[j]
                   /\ kern'[i].curr_cpu = kern[i].curr_cpu
                   /\ kern'[i].ukid = kern[i].ukid /\ kern'[i].size = kern[i].size
                   /\ kern'[i].mem = kern[i].mem /\ kern'[i].console = kern[i].console
                   /\ kern'[i].node = kern[i].node /\ kern'[i].app = kern[i].app
           Rest == UNCHANGED <<sideVars, proxyVars, apic_id, stack, home, disturbed>>
<1>4. CASE pc[c] = "count" /\ n # 0
    <2>1. pc' = [pc EXCEPT ![c] = "inc"] /\ UNCHANGED <<bsp, kern>> /\ Rest
        BY <1>2, <1>4 DEF Count, Increment, Move, Keep
    <2>2. /\ pc'[c] = "inc" /\ pc' \in [Cpu -> Step]
          /\ \A d \in Cpu \ {c} : pc'[d] = pc[d]
        BY <1>0, <1>2, <2>1 DEF StartupTypeOK, Step
    <2>3. StartupTypeOK'
        BY <1>2, <2>1, <2>2 DEF StartupTypeOK, proxyVars
    <2>4. CoreStep(c, i)
        BY <1>4, <2>1, <2>2 DEF CoreStep
    <2>5. Placed(i, c)'
        BY <1>1, <1>2, <2>1, <2>2 DEF Placed, OnKernelTable, sideVars
    <2>6. HasNumber(i, c)'
        BY <1>4, <1>2, <2>1, <2>2 DEF HasNumber
    <2>7. Numbered(i)'
        BY <1>2, <2>1, <2>4, <2>5, <2>6, SameNumbers DEF Single
    <2>8. Begun(i)' = Begun(i) /\ Counted(i)' = Counted(i)
        BY <1>0, <1>4, <2>2 DEF Begun, Counted, CpuOf
    <2>9. KernelKnows(i)'
        BY <1>2, <2>1, <2>8 DEF KernelKnows, sideVars
    <2> QED BY <2>3, <2>4, <2>7, <2>9
<1>5. CASE pc[c] = "inc" \/ n = 0
    <2>1. /\ pc' = [pc EXCEPT ![c] = "main"] /\ kern' = [kern EXCEPT ![i]["ap_count"] = n + 1]
          /\ Rest /\ bsp' \subseteq bsp \cup {c} /\ bsp \subseteq bsp'
          /\ c \in bsp' => c \in bsp \/ n = 0
        BY <1>1, <1>2, <1>5, <1>3 DEF Count, Increment, Move, Set, Keep
    <2>2. /\ pc'[c] = "main" /\ pc' \in [Cpu -> Step]
          /\ \A d \in Cpu \ {c} : pc'[d] = pc[d]
        BY <1>0, <1>2, <2>1 DEF StartupTypeOK, Step
    <2>3. kern' \in [Index -> Kernel]
        BY <1>0, <1>3, <2>1 DEF Kernel
    <2>4. Same /\ kern'[i].ap_count = n + 1
        BY <1>0, <1>3, <2>1 DEF Kernel
    <2> HIDE DEF n
    <2>5. StartupTypeOK'
        BY <1>0, <1>2, <2>1, <2>2, <2>3 DEF StartupTypeOK, proxyVars
    <2>6. CoreStep(c, i)
        BY <1>1, <2>1, <2>2, <2>4 DEF CoreStep
    <2>7. Placed(i, c)'
        BY <1>1, <1>2, <2>1, <2>2, <2>4 DEF Placed, OnKernelTable, sideVars
    <2>8. HasNumber(i, c)'
        BY <1>1, <1>2, <2>1, <2>2, <2>4 DEF HasNumber
    <2>9. kern'[i].ap_count > 0
        BY <1>3, <2>4
    <2>10. c \in bsp' => c \in bsp \/ \A d \in CpuOf(i) : d \notin bsp
        BY <1>2, <2>1 DEF n
    <2>11. Numbered(i)'
        BY <2>1, <2>4, <2>6, <2>7, <2>8, <2>9, <2>10, SameNumbers
    <2>12. Begun(i)' = Begun(i) /\ Counted(i)' = Counted(i) \cup {c} /\ c \notin Counted(i)
        BY <1>0, <1>1, <2>2 DEF Begun, Counted, CpuOf
    <2>c. Counted(i) \in SUBSET CpuOf(i)
        BY DEF Counted
    <2>13. Cardinality(Counted(i)') = n + 1
        BY <1>3, <2>12, <2>c DEF Counting
    <2>14. ~ kern[i].app
        <3>1. kern[i].app => Cardinality(Counted(i)) = CoreCount[i]
            BY <1>2 DEF KernelKnows
        <3> QED BY <2>12, <2>c, <3>1 DEF Counting
    <2>15. KernelKnows(i)'
        BY <1>2, <2>1, <2>4, <2>12, <2>13, <2>14 DEF KernelKnows, sideVars
    <2> QED BY <2>5, <2>6, <2>11, <2>15
<1> QED BY <1>1, <1>4, <1>5

\* Main takes the parameters from the boot page.
LEMMA ParametersRead ==
    ASSUME StartupInv, NEW i \in Followed, NEW c \in CpuOf(i), Main(c)
    PROVE  /\ CoreStep(c, i) /\ StartupTypeOK'
           /\ Numbered(i)' /\ KernelKnows(i)'
<1>0. i \in Index /\ c \in Cpu /\ CpuOf(i) \subseteq Cpu
    BY CpuIs DEF Followed
<1>1. pc[c] = "main" /\ pc' = [pc EXCEPT ![c] = IF c \in bsp THEN "table" ELSE "ready"]
    BY DEF Main, Move
<1>2. /\ Mem(c) = i /\ StartupTypeOK /\ KernelKnows(i)
      /\ Placed(i, c) /\ HasNumber(i, c) /\ Single(i, c)
      /\ drv.ukid \in g_ukid /\ boot.ukid = drv.ukid /\ boot.cores = CoreCount[i] /\ boot.mem = i
    BY <1>1, InOwnMemory DEF StartupInv, Numbered
<1>3. boot.ukid \in Int /\ boot.ukid # None /\ CoreCount[i] \in Nat
    BY <1>0, <1>2, SideloaderAssumption DEF StartupInv, SideloaderTypeOK, Index
<1>4. /\ kern' = [kern EXCEPT ![i].ukid = boot.ukid, ![i].size = CoreCount[i], ![i].mem = i]
      /\ UNCHANGED <<sideVars, proxyVars, apic_id, stack, bsp, home, disturbed>>
    BY <1>2 DEF Main, Keep
<1>5. /\ kern' \in [Index -> Kernel]
      /\ \A j \in Index \ {i} : kern'[j] = kern[j]
      /\ kern'[i].curr_cpu = kern[i].curr_cpu /\ kern'[i].ap_count = kern[i].ap_count
      /\ kern'[i].ukid = boot.ukid /\ kern'[i].size = CoreCount[i] /\ kern'[i].mem = i
      /\ kern'[i].console = kern[i].console
      /\ kern'[i].node = kern[i].node /\ kern'[i].app = kern[i].app
    <2> DEFINE K1 == [kern EXCEPT ![i].ukid = boot.ukid]
               K2 == [K1 EXCEPT ![i].size = CoreCount[i]]
               K3 == [K2 EXCEPT ![i].mem = i]
    <2>1. kern \in [Index -> Kernel]
        BY <1>2 DEF StartupTypeOK
    <2>2. K1 \in [Index -> Kernel] /\ K1[i] = [kern[i] EXCEPT !.ukid = boot.ukid]
        BY <1>0, <1>3, <2>1 DEF Kernel
    <2>3. \A j \in Index \ {i} : K1[j] = kern[j]
        BY <2>1
    <2> HIDE DEF K1
    <2>4. K2 \in [Index -> Kernel] /\ K2[i] = [K1[i] EXCEPT !.size = CoreCount[i]]
        BY <1>0, <1>3, <2>2, Zenon DEF Kernel
    <2>5. \A j \in Index \ {i} : K2[j] = K1[j]
        BY <2>2
    <2> HIDE DEF K2
    <2>i. i \in Memory
        BY <1>0 DEF Memory
    <2>6. K3 \in [Index -> Kernel] /\ K3[i] = [K2[i] EXCEPT !.mem = i]
        BY <1>0, <2>4, <2>i DEF Kernel
    <2>7. \A j \in Index \ {i} : K3[j] = K2[j]
        BY <2>4
    <2> HIDE DEF K3
    <2>8. kern' = K3
        BY <1>4 DEF K1, K2, K3
    <2>9. kern[i] \in Kernel /\ K1[i] \in Kernel /\ K2[i] \in Kernel
        BY <1>0, <2>1, <2>2, <2>4
    <2>10. kern' \in [Index -> Kernel] /\ \A j \in Index \ {i} : kern'[j] = kern[j]
        BY <2>3, <2>5, <2>6, <2>7, <2>8
    <2>11. /\ K2[i].curr_cpu = kern[i].curr_cpu /\ K2[i].ap_count = kern[i].ap_count
           /\ K2[i].ukid = boot.ukid /\ K2[i].size = CoreCount[i]
           /\ K2[i].console = kern[i].console
           /\ K2[i].node = kern[i].node /\ K2[i].app = kern[i].app
        BY <2>2, <2>4, <2>9 DEF Kernel
    <2>12. /\ K3[i].curr_cpu = K2[i].curr_cpu /\ K3[i].ap_count = K2[i].ap_count
           /\ K3[i].ukid = K2[i].ukid /\ K3[i].size = K2[i].size /\ K3[i].mem = i
           /\ K3[i].console = K2[i].console
           /\ K3[i].node = K2[i].node /\ K3[i].app = K2[i].app
        BY <2>6, <2>9 DEF Kernel
    <2> QED BY <2>8, <2>10, <2>11, <2>12
<1>6. /\ pc'[c] \in {"table", "ready"} /\ pc' \in [Cpu -> Step]
      /\ \A d \in Cpu \ {c} : pc'[d] = pc[d]
    BY <1>0, <1>1, <1>2 DEF StartupTypeOK, Step
<1>7. StartupTypeOK'
    BY <1>2, <1>4, <1>5, <1>6 DEF StartupTypeOK, proxyVars
<1>8. CoreStep(c, i)
    BY <1>1, <1>4, <1>5, <1>6 DEF CoreStep
<1>9. Placed(i, c)'
    BY <1>1, <1>2, <1>3, <1>4, <1>5, <1>6 DEF Placed, OnKernelTable, sideVars
<1>10. HasNumber(i, c)'
    BY <1>1, <1>2, <1>4, <1>5, <1>6 DEF HasNumber
<1>11. Numbered(i)'
    BY <1>2, <1>3, <1>4, <1>5, <1>8, <1>9, <1>10, SameNumbers DEF Single
<1>12. Begun(i)' = Begun(i) /\ Counted(i)' = Counted(i)
    BY <1>0, <1>1, <1>6 DEF Begun, Counted, CpuOf
<1>13. KernelKnows(i)'
    BY <1>2, <1>4, <1>5, <1>12 DEF KernelKnows, sideVars
<1> QED BY <1>7, <1>8, <1>11, <1>13

\* Whatever a core does keeps the invariant.
LEMMA CoresKeep ==
    ASSUME StartupInv, NEW c \in Cpu, Execute(c), \A i \in Index : Counting(i)
    PROVE  StartupInv'
<1>1. PICK i \in Followed : c \in CpuOf(i) /\ Counting(i)
    BY CpuIs DEF Execute, Followed
<1>2. /\ CoreStep(c, i) /\ StartupTypeOK'
      /\ i \in Followed' => Numbered(i)' /\ KernelKnows(i)'
    <2>1. CASE set_apic_id(c)
        BY <1>1, <2>1, NumberTaken
    <2>2. CASE ReturnId(c)
        BY <1>1, <2>2, NumberReturned
    <2>3. CASE Count(c) \/ Increment(c)
        BY <1>1, <2>3, CoreCounted
    <2>4. CASE Main(c)
        BY <1>1, <2>4, ParametersRead
    <2>5. CASE \/ kernel_pagetables_init(c) \/ Subsystems(c) \/ start_ap(c) \/ RemoveLow(c)
               \/ init_console_channel(c) \/ WaitMagic(c) \/ cs_puts(c)
               \/ init_offload_channel(c) \/ main_for_ap(c) \/ start_idle_thread(c)
        BY <1>1, <2>5, QuietSteps, QuietKept
    <2> QED BY <2>1, <2>2, <2>3, <2>4, <2>5 DEF Execute
<1>3. /\ SideloaderTypeOK' /\ Loaded' /\ IdsApart'
      /\ \A j \in Followed' \ {i} : Numbered(j)' /\ KernelKnows(j)'
    BY <1>1, <1>2, OthersKept
<1> QED BY <1>2, <1>3 DEF StartupInv

=============================================================================
