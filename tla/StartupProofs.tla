---------------------------- MODULE StartupProofs ----------------------------
(***************************************************************************)
(* Proofs about Startup, for any number of unikernels and of cores: a      *)
(* unikernel whose boot is not disturbed comes up in its own memory, with  *)
(* its own images and parameters, and its cores have numbers, stacks and   *)
(* channels of their own.  The steps of the cores are StartupCoreProofs'.  *)
(***************************************************************************)
EXTENDS StartupCoreProofs, FiniteSetTheorems

-----------------------------------------------------------------------------
(* Cores and ids *)

\* A unikernel has CoreCount cores.
LEMMA CpuCount ==
    ASSUME NEW i \in Index
    PROVE  IsFiniteSet(CpuOf(i)) /\ Cardinality(CpuOf(i)) = CoreCount[i] /\ CoreCount[i] \in Nat \ {0}
<1>1. CoreCount[i] \in Nat \ {0}
    BY SideloaderAssumption DEF Index
<1> DEFINE n == CoreCount[i]
           f == [k \in 1 .. n |-> <<i, k>>]
<1>2. IsFiniteSet(1 .. n) /\ Cardinality(1 .. n) = n
    <2>1. n \in Int /\ 1 \in Int /\ ~ (1 > n) /\ n - 1 + 1 = n
        BY <1>1
    <2> QED BY <2>1, FS_Interval
<1>3. f \in Bijection(1 .. n, CpuOf(i))
    <2>1. f \in [1 .. n -> CpuOf(i)]
        BY DEF CpuOf
    <2>2. \A a, b \in 1 .. n : f[a] = f[b] => a = b
        OBVIOUS
    <2>3. \A c \in CpuOf(i) : \E k \in 1 .. n : f[k] = c
        BY DEF CpuOf
    <2> QED BY <2>1, <2>2, <2>3 DEF Bijection, Injection, Surjection, IsInjective
<1>4. ExistsBijection(1 .. n, CpuOf(i))
    BY <1>3 DEF ExistsBijection
<1> QED BY <1>1, <1>2, <1>4, FS_Bijection

\* alloc_ukid takes the smallest id that is free.
LEMMA SmallestId ==
    ASSUME NEW S, S \subseteq 0 .. MAX_UNIKERNEL - 1, S # {}
    PROVE  Min(S) \in S
<1>1. S \subseteq Nat
    BY SideloaderAssumption
<1>2. PICK x \in S : \A y \in S : ~ (<<y, x>> \in OpToRel(<, Nat))
    BY <1>1, NatLessThanWellFounded, WFMin
<1>3. ASSUME NEW y \in S PROVE x <= y
    <2>1. x \in Nat /\ y \in Nat /\ <<y, x>> \in Nat \X Nat
        BY <1>1
    <2>2. ~ (y < x)
        BY <1>2, <2>1, Zenon DEF OpToRel
    <2> QED BY <2>1, <2>2
<1> QED BY <1>3, Zenon DEF Min

\* The counts of cores are within the cores there are.
LEMMA CountsFinite ==
    ASSUME NEW i \in Index
    PROVE  /\ IsFiniteSet(Begun(i)) /\ Cardinality(Begun(i)) \in 0 .. CoreCount[i]
           /\ IsFiniteSet(Counted(i)) /\ Cardinality(Counted(i)) \in 0 .. CoreCount[i]
           /\ Cardinality(Counted(i)) = CoreCount[i] => Counted(i) = CpuOf(i)
           /\ CoreCount[i] \in Nat
<1>1. ASSUME NEW S, S \subseteq CpuOf(i)
      PROVE  /\ IsFiniteSet(S) /\ Cardinality(S) \in 0 .. CoreCount[i]
             /\ Cardinality(S) = CoreCount[i] => S = CpuOf(i)
    <2>1. IsFiniteSet(CpuOf(i)) /\ Cardinality(CpuOf(i)) = CoreCount[i] /\ CoreCount[i] \in Nat
        BY CpuCount
    <2>2. /\ IsFiniteSet(S) /\ Cardinality(S) <= CoreCount[i]
          /\ Cardinality(S) = CoreCount[i] => S = CpuOf(i)
        BY <1>1, <2>1, FS_Subset, Zenon
    <2>3. Cardinality(S) \in Nat
        BY <2>2, FS_CardinalityType
    <2> QED BY <2>1, <2>2, <2>3
<1>2. Begun(i) \subseteq CpuOf(i) /\ Counted(i) \subseteq CpuOf(i)
    BY DEF Begun, Counted
<1>3. CoreCount[i] \in Nat
    BY CpuCount
<1> QED BY <1>1, <1>2, <1>3

LEMMA CoresCount ==
    ASSUME NEW i \in Index
    PROVE  Counting(i)
<1> SUFFICES ASSUME NEW S \in SUBSET CpuOf(i)
             PROVE  /\ \A c \in CpuOf(i) \ S : Cardinality(S \cup {c}) = Cardinality(S) + 1
                    /\ Cardinality(S) = CoreCount[i] => S = CpuOf(i)
    BY DEF Counting
<1>1. IsFiniteSet(CpuOf(i)) /\ Cardinality(CpuOf(i)) = CoreCount[i]
    BY CpuCount
<1>2. IsFiniteSet(S) /\ (Cardinality(S) = CoreCount[i] => S = CpuOf(i))
    BY <1>1, FS_Subset, Zenon
<1>3. \A c \in CpuOf(i) \ S : Cardinality(S \cup {c}) = Cardinality(S) + 1
    BY <1>2, FS_AddElement, Zenon
<1> QED BY <1>2, <1>3

-----------------------------------------------------------------------------
(* The loader *)

\* What a step of the script for unikernel i leaves alone.
LoaderStep(i) ==
    /\ UNCHANGED <<coreVars, proxyVars>>
    /\ g_ukid \subseteq g_ukid' /\ disturbed \subseteq disturbed'
    /\ \A j \in Index \ {i} :
          /\ script'[j] = script[j] /\ image'[j] = image[j] /\ target'[j] = target[j]
          /\ kern'[j] = kern[j]
          /\ woken' \cap CpuOf(j) = woken \cap CpuOf(j)

\* The cores of a unikernel stand still, and its kernel is not written.
LEMMA CoresStandStill ==
    ASSUME StartupInv, NEW j \in Followed,
           UNCHANGED coreVars, g_ukid \subseteq g_ukid', kern'[j] = kern[j],
           script[j] \in {"wake", "done"} => script'[j] \in {"wake", "done"},
           \A c \in CpuOf(j) : c \in woken' => c \in woken \/ script'[j] \in {"wake", "done"}
    PROVE  Numbered(j)' /\ KernelKnows(j)'
<1>1. Numbered(j) /\ KernelKnows(j)
    BY DEF StartupInv
<1>2. Begun(j)' = Begun(j) /\ Counted(j)' = Counted(j)
    BY DEF Begun, Counted, CpuOf, coreVars
<1>3. KernelKnows(j)'
    BY <1>1, <1>2 DEF KernelKnows
<1>4. ASSUME NEW c \in CpuOf(j)
      PROVE  Placed(j, c)' /\ HasNumber(j, c)' /\ Single(j, c)'
    <2>1. Placed(j, c) /\ HasNumber(j, c) /\ Single(j, c)
        BY <1>1 DEF Numbered
    <2>2. Placed(j, c)'
        BY <2>1 DEF Placed, OnKernelTable, coreVars
    <2>3. HasNumber(j, c)'
        BY <2>1 DEF HasNumber, coreVars
    <2>4. Single(j, c)'
        BY <2>1 DEF Single, CpuOf, coreVars
    <2> QED BY <2>2, <2>3, <2>4
<1> QED BY <1>3, <1>4 DEF Numbered, CpuOf

\* A step of the script for i does nothing to a unikernel that has booted.
LEMMA OthersStandStill ==
    ASSUME StartupInv, NEW i \in Index, LoaderStep(i), NEW j \in Followed' \ {i}, ~ Busy(j)
    PROVE  ~ Busy(j)' /\ InMemory(j)' /\ Numbered(j)' /\ KernelKnows(j)'
<1>1. j \in Followed /\ j \in Index \ {i}
    BY DEF Followed, LoaderStep
<1>2. ~ Busy(j)'
    BY <1>1 DEF LoaderStep, Busy, Settled, CpuOf, coreVars
<1>3. InMemory(j)'
    <2>1. InMemory(j)
        BY <1>1 DEF StartupInv, Loaded
    <2> QED BY <1>1, <2>1, Zenon DEF LoaderStep, InMemory, CpuOf
<1>4. Numbered(j)' /\ KernelKnows(j)'
    BY <1>1, CoresStandStill DEF LoaderStep
<1> QED BY <1>2, <1>3, <1>4

\* What remains to be shown of a step of the script.
LEMMA ScriptKeeps ==
    ASSUME StartupInv, NEW i \in Followed, LoaderStep(i),
           SideloaderTypeOK', StartupTypeOK',
           \A j \in Followed' \ {i} : ~ Busy(j),
           kern'[i].ukid \in {kern[i].ukid, None},
           i \in Followed' => /\ (Busy(i) => Serves(i))' /\ InMemory(i)'
                              /\ Numbered(i)' /\ KernelKnows(i)'
    PROVE  StartupInv'
<1>1. i \in Index /\ Followed' \subseteq Followed /\ Followed \subseteq Index
    BY DEF Followed, LoaderStep
<1>2. \A j \in Followed' \ {i} : ~ Busy(j)' /\ InMemory(j)' /\ Numbered(j)' /\ KernelKnows(j)'
    BY <1>1, OthersStandStill
<1>3. Loaded'
    BY <1>2 DEF Loaded
<1>4. IdsApart'
    BY <1>1 DEF IdsApart, LoaderStep, StartupInv
<1> QED BY <1>2, <1>3, <1>4 DEF StartupInv

\* AZ_PARAM
LEMMA ParamKeeps ==
    ASSUME StartupInv, NEW i \in Followed, Param(i)
    PROVE  StartupInv'
<1>0. i \in Index /\ Followed \subseteq Index
    BY DEF Followed
<1>1. /\ script[i] = "param" /\ script' = [script EXCEPT ![i] = "table"]
      /\ disturbed' = disturbed \cup Disturbs(i)
      /\ UNCHANGED <<boot, stat, image, target, woken, coreVars, kern, proxyVars>>
    BY DEF Param, AZ_PARAM, At, Go
<1>2. SideloaderTypeOK /\ StartupTypeOK
    BY DEF StartupInv
<1>3. /\ script' \in [Index -> Place] /\ script'[i] = "table"
      /\ \A j \in Index \ {i} : script'[j] = script[j]
    BY <1>0, <1>1, <1>2 DEF SideloaderTypeOK, Place
<1>4. FreeIds \subseteq Nat /\ FreeIds \subseteq 0 .. MAX_UNIKERNEL - 1
    BY DEF FreeIds
<1>5. FreeIds # {} => /\ Min(FreeIds) \in 0 .. MAX_UNIKERNEL - 1 /\ Min(FreeIds) \notin g_ukid
                      /\ g_ukid' = g_ukid \cup {Min(FreeIds)}
                      /\ drv' = [ukid |-> Min(FreeIds), index |-> i, cores |-> CoreCount[i]]
    <2>1. FreeIds # {} => Min(FreeIds) \in FreeIds
        BY <1>4, SmallestId, Zenon
    <2> QED BY <2>1 DEF FreeIds, Param, AZ_PARAM
<1>6. FreeIds = {} => g_ukid' = g_ukid /\ drv' = [drv EXCEPT !.ukid = -1]
    BY DEF Param, AZ_PARAM
<1>7. SideloaderTypeOK'
    <2>1. g_ukid' \subseteq 0 .. MAX_UNIKERNEL - 1
        BY <1>2, <1>5, <1>6 DEF SideloaderTypeOK
    <2>2. drv' \in [ukid : -1 .. MAX_UNIKERNEL - 1, index : Index \cup {None}, cores : Nat]
        BY <1>0, <1>2, <1>5, <1>6, CpuCount, SideloaderAssumption DEF SideloaderTypeOK
    <2> QED BY <1>1, <1>2, <1>3, <2>1, <2>2 DEF SideloaderTypeOK
<1>8. StartupTypeOK'
    BY <1>1, <1>2, <1>0 DEF StartupTypeOK, coreVars, proxyVars, Disturbs
<1>9. LoaderStep(i)
    BY <1>1, <1>3, <1>5, <1>6 DEF LoaderStep
<1>10. \A j \in Followed' \ {i} : ~ Busy(j)
    BY <1>1 DEF Followed, Disturbs
<1>11. ASSUME i \in Followed'
       PROVE  Serves(i)' /\ InMemory(i)' /\ Numbered(i)' /\ KernelKnows(i)'
    <2>1. FreeIds # {} /\ \A j \in Index : ~ Busy(j)
        BY <1>0, <1>1, <1>11 DEF Followed, Disturbs
    <2>2. \A j \in Index \ {i} : ~ Busy(j)'
        BY <1>1, <1>3, <2>1 DEF Busy, Settled, CpuOf, coreVars
    <2>3. drv'.index = i /\ drv'.cores = CoreCount[i] /\ drv'.ukid = Min(FreeIds)
        BY <1>5, <2>1
    <2>4. \A j \in Followed' \ {i} : kern'[j].ukid # drv'.ukid
        <3> SUFFICES ASSUME NEW j \in Followed' \ {i} PROVE kern[j].ukid # Min(FreeIds)
            BY <1>1, <2>3
        <3>1. KernelKnows(j)
            BY <1>1 DEF Followed, StartupInv
        <3>2. Min(FreeIds) \in Int
            BY <1>5, <2>1
        <3> QED BY <1>5, <2>1, <3>1, <3>2, SideloaderAssumption DEF KernelKnows
    <2>5. Serves(i)'
        BY <1>3, <1>5, <2>1, <2>2, <2>3, <2>4 DEF Serves
    <2>6. InMemory(i)'
        BY <1>3 DEF InMemory
    <2>7. Numbered(i)' /\ KernelKnows(i)'
        BY <1>1, <1>9, CoresStandStill DEF LoaderStep
    <2> QED BY <2>5, <2>6, <2>7
<1> QED BY <1>1, <1>7, <1>8, <1>9, <1>10, <1>11, ScriptKeeps

\* A unikernel whose load has begun and is not finished has the driver for itself.
LEMMA LoadsAlone ==
    ASSUME StartupInv, NEW i \in Followed, script[i] \notin {"param", "done"}
    PROVE  /\ i \in Index /\ SideloaderTypeOK /\ StartupTypeOK
           /\ Serves(i) /\ InMemory(i) /\ Numbered(i) /\ KernelKnows(i)
           /\ drv.index = i /\ \A j \in Index \ {i} : ~ Busy(j)
BY DEF StartupInv, Loaded, Busy, Settled, Followed, Serves

\* The steps of AZ_LOADING and AZ_GET_MEM_ADDR, which copy the driver's variables.
LEMMA DriverKeeps ==
    ASSUME StartupInv, NEW i \in Followed, UNCHANGED <<coreVars, kern, proxyVars, disturbed>>,
           LoadTable(i) \/ LoadClear(i) \/ LoadMeta(i) \/ AZ_GET_MEM_ADDR(i)
    PROVE  StartupInv'
<1>1. /\ script[i] \in {"table", "clear", "meta", "addr"}
      /\ script' = [script EXCEPT ![i] = CASE script[i] = "table" -> "clear"
                                           [] script[i] = "clear" -> "meta"
                                           [] script[i] = "meta" -> "addr"
                                           [] script[i] = "addr" -> "kernel"]
      /\ UNCHANGED <<g_ukid, drv, image, woken>>
    BY DEF LoadTable, LoadClear, LoadMeta, AZ_GET_MEM_ADDR, At, Go
<1>2. /\ i \in Index /\ SideloaderTypeOK /\ StartupTypeOK
      /\ Serves(i) /\ InMemory(i) /\ Numbered(i) /\ KernelKnows(i)
      /\ drv.index = i /\ \A j \in Index \ {i} : ~ Busy(j)
    BY <1>1, LoadsAlone
<1>3. /\ script' \in [Index -> Place] /\ script'[i] \in {"clear", "meta", "addr", "kernel"}
      /\ script[i] = "addr" => script'[i] = "kernel"
      /\ script[i] = "meta" => script'[i] = "addr"
      /\ script[i] = "clear" => script'[i] = "meta"
      /\ script[i] = "table" => script'[i] = "clear"
      /\ \A j \in Index \ {i} : script'[j] = script[j]
    BY <1>1, <1>2 DEF SideloaderTypeOK, Place
<1>4. /\ boot' = CASE script[i] = "table" -> [boot EXCEPT !.table = i]
                   [] script[i] = "meta" -> [boot EXCEPT !.ukid = drv.ukid, !.cores = drv.cores,
                                                         !.mem = i]
                   [] OTHER -> boot
      /\ target' = IF script[i] = "addr" THEN [target EXCEPT ![i] = i] ELSE target
    BY <1>1, <1>2 DEF LoadTable, LoadClear, LoadMeta, AZ_GET_MEM_ADDR, At, init_page_table
<1>5. /\ drv.ukid \in -1 .. MAX_UNIKERNEL - 1 /\ drv.cores \in Nat /\ drv.cores = CoreCount[i]
      /\ boot \in [table : Index \cup {None}, ukid : -1 .. MAX_UNIKERNEL - 1,
                   cores : Nat, mem : Index \cup {None}]
    BY <1>2 DEF SideloaderTypeOK, Serves
<1>6. /\ boot' \in [table : Index \cup {None}, ukid : -1 .. MAX_UNIKERNEL - 1,
                    cores : Nat, mem : Index \cup {None}]
      /\ script[i] = "table" => boot'.table = i
      /\ script[i] # "table" => boot'.table = boot.table
      /\ script[i] = "meta" => boot'.ukid = drv.ukid /\ boot'.cores = CoreCount[i] /\ boot'.mem = i
      /\ script[i] = "addr" => boot' = boot
    BY <1>1, <1>2, <1>4, <1>5
<1>7. /\ target' \in [Index -> Index \cup {None}]
      /\ script[i] = "addr" => target'[i] = i
      /\ \A j \in Index \ {i} : target'[j] = target[j]
    BY <1>2, <1>4 DEF SideloaderTypeOK
<1>8. stat' \subseteq -1 .. MAX_UNIKERNEL - 1
    BY <1>2, <1>5 DEF LoadTable, LoadClear, LoadMeta, AZ_GET_MEM_ADDR, SideloaderTypeOK
<1>9. SideloaderTypeOK'
    BY <1>1, <1>2, <1>3, <1>6, <1>7, <1>8 DEF SideloaderTypeOK
<1>10. StartupTypeOK'
    BY <1>2 DEF StartupTypeOK, coreVars, proxyVars
<1>11. LoaderStep(i)
    BY <1>1, <1>3, <1>7 DEF LoaderStep
<1>12. \A j \in Index \ {i} : ~ Busy(j)'
    BY <1>2, <1>3 DEF Busy, Settled, CpuOf, coreVars
<1>13. Serves(i)'
    <2>1. \A j \in Followed' \ {i} : kern'[j].ukid # drv'.ukid
        BY <1>1, <1>2 DEF Serves, Followed
    <2> QED BY <1>1, <1>2, <1>3, <1>6, <1>12, <2>1 DEF Serves
<1>14. InMemory(i)'
    BY <1>1, <1>3, <1>7 DEF InMemory
<1>15. Numbered(i)' /\ KernelKnows(i)'
    BY <1>1, <1>3, CoresStandStill
<1>16. \A j \in Followed' \ {i} : ~ Busy(j)
    BY <1>2 DEF Followed
<1> QED BY <1>9, <1>10, <1>11, <1>13, <1>14, <1>15, <1>16, ScriptKeeps

\* No core of a unikernel is woken before its images are in its memory.
LEMMA NotYetWoken ==
    ASSUME StartupInv, NEW i \in Followed, script[i] \in {"kernel", "app"}
    PROVE  \A c \in CpuOf(i) :
              pc[c] = "off" /\ c \notin woken /\ apic_id[c] = None /\ stack[c] = None
<1>1. Numbered(i)
    BY DEF StartupInv
<1> QED BY <1>1 DEF Numbered, Placed, HasNumber

\* lkload copies the kernel.
LEMMA LoadKernelKeeps ==
    ASSUME StartupInv, NEW i \in Followed, LoadKernel(i)
    PROVE  StartupInv'
<1>1. /\ script[i] = "kernel" /\ script' = [script EXCEPT ![i] = "app"]
      /\ image' = [image EXCEPT ![target[i]].kernel = i]
      /\ kern' = [kern EXCEPT ![target[i]] = Fresh]
      /\ UNCHANGED <<g_ukid, drv, boot, stat, target, woken, coreVars, proxyVars, disturbed>>
    BY DEF LoadKernel, CopyKernel, At, Go
<1>2. /\ i \in Index /\ SideloaderTypeOK /\ StartupTypeOK
      /\ Serves(i) /\ InMemory(i) /\ Numbered(i) /\ KernelKnows(i)
      /\ drv.index = i /\ \A j \in Index \ {i} : ~ Busy(j)
    BY <1>1, LoadsAlone
<1>3. target[i] = i
    BY <1>1, <1>2 DEF InMemory
<1>4. /\ script' \in [Index -> Place] /\ script'[i] = "app"
      /\ \A j \in Index \ {i} : script'[j] = script[j]
    BY <1>1, <1>2 DEF SideloaderTypeOK, Place
<1>5. /\ image' \in [Index -> [kernel : Index \cup {None}, app : Index \cup {None}]]
      /\ image'[i].kernel = i /\ \A j \in Index \ {i} : image'[j] = image[j]
    BY <1>1, <1>2, <1>3 DEF SideloaderTypeOK
<1>6. SideloaderTypeOK'
    BY <1>1, <1>2, <1>4, <1>5 DEF SideloaderTypeOK
<1>7. Fresh \in Kernel /\ Fresh.ukid = None /\ Fresh.curr_cpu = 0 /\ Fresh.ap_count = 0
      /\ Fresh.console = None /\ Fresh.node = None /\ Fresh.app = FALSE
    BY DEF Fresh, Kernel, Memory
<1>8. kern' \in [Index -> Kernel] /\ kern'[i] = Fresh /\ \A j \in Index \ {i} : kern'[j] = kern[j]
    BY <1>1, <1>2, <1>3, <1>7 DEF StartupTypeOK
<1>9. StartupTypeOK'
    BY <1>1, <1>2, <1>8 DEF StartupTypeOK, coreVars, proxyVars
<1>10. LoaderStep(i)
    BY <1>1, <1>4, <1>5, <1>8 DEF LoaderStep
<1>11. \A j \in Index \ {i} : ~ Busy(j)'
    BY <1>1, <1>2, <1>4 DEF Busy, Settled, CpuOf, coreVars
<1>12. Serves(i)'
    <2>1. \A j \in Followed' \ {i} : kern'[j].ukid # drv'.ukid
        BY <1>1, <1>2, <1>8 DEF Serves, Followed
    <2> QED BY <1>1, <1>2, <1>4, <1>11, <2>1 DEF Serves
<1>13. InMemory(i)'
    BY <1>1, <1>3, <1>4, <1>5 DEF InMemory
<1>14. \A c \in CpuOf(i) :
          pc[c] = "off" /\ c \notin woken /\ apic_id[c] = None /\ stack[c] = None
    BY <1>1, NotYetWoken
<1>15. Begun(i) = {} /\ Counted(i) = {} /\ Begun(i)' = {} /\ Counted(i)' = {}
    BY <1>1, <1>14 DEF Begun, Counted, CpuOf, coreVars
<1>16. kern[i].ap_count = 0
    BY <1>2, <1>15, FS_EmptySet DEF KernelKnows
<1>17. KernelKnows(i)'
    BY <1>7, <1>8, <1>15, FS_EmptySet DEF KernelKnows
<1>18. ASSUME NEW c \in CpuOf(i)
       PROVE  Placed(i, c)' /\ HasNumber(i, c)' /\ Single(i, c)'
    <2>1. c \notin bsp
        BY <1>2, <1>16 DEF Numbered, Single
    <2>2. pc'[c] = "off" /\ c \notin woken' /\ apic_id'[c] = None /\ stack'[c] = None /\ c \notin bsp'
        BY <1>1, <1>14, <2>1 DEF coreVars
    <2>3. Placed(i, c)'
        BY <2>2 DEF Placed, OnKernelTable
    <2>4. HasNumber(i, c)'
        BY <2>2 DEF HasNumber
    <2>5. Single(i, c)'
        BY <2>2 DEF Single
    <2> QED BY <2>3, <2>4, <2>5
<1>19. Numbered(i)'
    BY <1>18 DEF Numbered, CpuOf
<1>20. \A j \in Followed' \ {i} : ~ Busy(j)
    BY <1>2 DEF Followed
<1> QED BY <1>6, <1>7, <1>8, <1>9, <1>10, <1>12, <1>13, <1>17, <1>19, <1>20, ScriptKeeps

\* lkload copies the application.
LEMMA CopyAppKeeps ==
    ASSUME StartupInv, NEW i \in Followed, UNCHANGED <<coreVars, kern, proxyVars, disturbed>>,
           CopyApp(i)
    PROVE  StartupInv'
<1>1. /\ script[i] = "app" /\ script' = [script EXCEPT ![i] = "wake"]
      /\ image' = [image EXCEPT ![target[i]].app = i]
      /\ UNCHANGED <<g_ukid, drv, boot, stat, target, woken>>
    BY DEF CopyApp, At, Go
<1>2. /\ i \in Index /\ SideloaderTypeOK /\ StartupTypeOK
      /\ Serves(i) /\ InMemory(i) /\ Numbered(i) /\ KernelKnows(i)
      /\ drv.index = i /\ \A j \in Index \ {i} : ~ Busy(j)
    BY <1>1, LoadsAlone
<1>3. target[i] = i /\ image[i].kernel = i
    BY <1>1, <1>2 DEF InMemory
<1>4. /\ script' \in [Index -> Place] /\ script'[i] = "wake"
      /\ \A j \in Index \ {i} : script'[j] = script[j]
    BY <1>1, <1>2 DEF SideloaderTypeOK, Place
<1>5. /\ image' \in [Index -> [kernel : Index \cup {None}, app : Index \cup {None}]]
      /\ image'[i].app = i /\ image'[i].kernel = i /\ \A j \in Index \ {i} : image'[j] = image[j]
    BY <1>1, <1>2, <1>3 DEF SideloaderTypeOK
<1>6. SideloaderTypeOK'
    BY <1>1, <1>2, <1>4, <1>5 DEF SideloaderTypeOK
<1>7. StartupTypeOK'
    BY <1>2 DEF StartupTypeOK, coreVars, proxyVars
<1>8. LoaderStep(i)
    BY <1>1, <1>4, <1>5 DEF LoaderStep
<1>9. \A j \in Index \ {i} : ~ Busy(j)'
    BY <1>2, <1>4 DEF Busy, Settled, CpuOf, coreVars
<1>10. Serves(i)'
    <2>1. \A j \in Followed' \ {i} : kern'[j].ukid # drv'.ukid
        BY <1>1, <1>2 DEF Serves, Followed
    <2> QED BY <1>1, <1>2, <1>4, <1>9, <2>1 DEF Serves
<1>11. InMemory(i)'
    <2>1. woken' \cap CpuOf(i) = {}
        BY <1>1, NotYetWoken
    <2>2. Cardinality(woken' \cap CpuOf(i)) = 0 /\ CoreCount[i] \in Nat \ {0}
        BY <1>2, <2>1, FS_EmptySet, CpuCount, Zenon
    <2> QED BY <1>1, <1>3, <1>4, <1>5, <2>2 DEF InMemory, CpuOf
<1>12. Numbered(i)' /\ KernelKnows(i)'
    BY <1>1, <1>4, CoresStandStill
<1>13. \A j \in Followed' \ {i} : ~ Busy(j)
    BY <1>2 DEF Followed
<1> QED BY <1>6, <1>7, <1>8, <1>10, <1>11, <1>12, <1>13, ScriptKeeps

\* The next core is woken.
LEMMA CPU_ONKeeps ==
    ASSUME StartupInv, NEW i \in Followed, UNCHANGED <<coreVars, kern, proxyVars, disturbed>>,
           CPU_ON(i)
    PROVE  StartupInv'
<1> DEFINE n == Cardinality(woken \cap CpuOf(i))
           c == <<i, n + 1>>
<1>1. /\ script[i] = "wake" /\ woken' = woken \cup {c}
      /\ script' = [script EXCEPT ![i] = IF n + 1 = CoreCount[i] THEN "done" ELSE "wake"]
      /\ UNCHANGED <<g_ukid, drv, boot, stat, image, target>>
    BY DEF CPU_ON, At, Go, wakeup_secondary_cpu_via_init
<1>2. /\ i \in Index /\ SideloaderTypeOK /\ StartupTypeOK
      /\ Serves(i) /\ InMemory(i) /\ Numbered(i) /\ KernelKnows(i)
      /\ drv.index = i /\ \A j \in Index \ {i} : ~ Busy(j)
    BY <1>1, LoadsAlone
<1>3. /\ target[i] = i /\ image[i].kernel = i /\ image[i].app = i /\ n < CoreCount[i]
    BY <1>1, <1>2 DEF InMemory
<1>4. IsFiniteSet(woken \cap CpuOf(i)) /\ n \in Nat /\ CoreCount[i] \in Nat
    BY <1>2, CpuCount, FS_Subset, FS_CardinalityType, Zenon
<1>5. c \in CpuOf(i) /\ c \in Cpu
    <2>1. n + 1 \in 1 .. CoreCount[i]
        BY <1>3, <1>4
    <2> QED BY <1>2, <2>1, CpuIs DEF CpuOf
<1>6. IsFiniteSet(woken' \cap CpuOf(i)) /\ Cardinality(woken' \cap CpuOf(i)) <= n + 1
    <2>1. woken' \cap CpuOf(i) = (woken \cap CpuOf(i)) \cup {c}
        BY <1>1, <1>5
    <2>2. /\ IsFiniteSet((woken \cap CpuOf(i)) \cup {c})
          /\ Cardinality((woken \cap CpuOf(i)) \cup {c}) = IF c \in woken \cap CpuOf(i) THEN n ELSE n + 1
        BY <1>4, FS_AddElement, Zenon
    <2>3. /\ IsFiniteSet(woken' \cap CpuOf(i))
          /\ Cardinality(woken' \cap CpuOf(i)) = IF c \in woken \cap CpuOf(i) THEN n ELSE n + 1
        BY <2>1, <2>2, Zenon
    <2> HIDE DEF n, c
    <2>4. n <= n + 1 /\ n + 1 <= n + 1
        BY <1>4
    <2> QED BY <2>3, <2>4, Zenon
<1>7. \A j \in Index \ {i} : c \notin CpuOf(j)
    BY CpuIs
<1>8. /\ script' \in [Index -> Place] /\ script'[i] \in {"wake", "done"}
      /\ script'[i] = "wake" => n + 1 # CoreCount[i]
      /\ \A j \in Index \ {i} : script'[j] = script[j]
    BY <1>1, <1>2 DEF SideloaderTypeOK, Place
<1> HIDE DEF n, c
<1>9. SideloaderTypeOK'
    BY <1>1, <1>2, <1>5, <1>8 DEF SideloaderTypeOK
<1>10. StartupTypeOK'
    BY <1>2 DEF StartupTypeOK, coreVars, proxyVars
<1>11. LoaderStep(i)
    BY <1>1, <1>7, <1>8 DEF LoaderStep
<1>12. \A j \in Index \ {i} : ~ Busy(j)'
    BY <1>2, <1>8 DEF Busy, Settled, CpuOf, coreVars
<1>13. Serves(i)'
    <2>1. \A j \in Followed' \ {i} : kern'[j].ukid # drv'.ukid
        BY <1>1, <1>2 DEF Serves, Followed
    <2> QED BY <1>1, <1>2, <1>8, <1>12, <2>1 DEF Serves
<1>14. InMemory(i)'
    <2>1. Cardinality(woken' \cap CpuOf(i)) \in Nat
        BY <1>6, FS_CardinalityType
    <2>2. script'[i] = "wake" => Cardinality(woken' \cap CpuOf(i)) < CoreCount[i]
        BY <1>3, <1>4, <1>6, <1>8, <2>1
    <2> QED BY <1>1, <1>3, <1>8, <2>2 DEF InMemory, CpuOf
<1>15. Numbered(i)' /\ KernelKnows(i)'
    BY <1>1, <1>8, CoresStandStill
<1>16. \A j \in Followed' \ {i} : ~ Busy(j)
    BY <1>2 DEF Followed
<1> QED BY <1>9, <1>10, <1>11, <1>13, <1>14, <1>15, <1>16, ScriptKeeps

-----------------------------------------------------------------------------
\* The theorems

LEMMA StartupInitially == StartupInit => StartupInv
<1> SUFFICES ASSUME StartupInit PROVE StartupInv
    OBVIOUS
<1>1. SideloaderInit
    BY DEF StartupInit
<1>2. SideloaderTypeOK
    <2>1. g_ukid \subseteq 0 .. MAX_UNIKERNEL - 1
        BY <1>1, SideloaderAssumption DEF SideloaderInit
    <2> QED BY <1>1, <2>1, SideloaderAssumption DEF SideloaderInit, SideloaderTypeOK, Place
<1>3. /\ Fresh \in Kernel /\ Fresh.ukid = None /\ Fresh.curr_cpu = 0 /\ Fresh.ap_count = 0
      /\ Fresh.console = None /\ Fresh.node = None /\ Fresh.app = FALSE
    BY DEF Fresh, Kernel, Memory
<1>4. /\ \A c \in Cpu : pc[c] = "off" /\ apic_id[c] = None /\ stack[c] = None
      /\ bsp = {} /\ disturbed = {} /\ woken = {}
      /\ \A i \in Index : kern[i] = Fresh /\ script[i] = "param"
    BY <1>1 DEF StartupInit, SideloaderInit
<1>5. StartupTypeOK
    BY <1>3 DEF StartupInit, StartupTypeOK, Step
<1>6. Followed \subseteq Index
    BY DEF Followed
<1>7. Loaded
    BY <1>4, <1>6 DEF Loaded, Busy, InMemory
<1>8. IdsApart
    BY <1>3, <1>4, <1>6 DEF IdsApart
<1>9. ASSUME NEW i \in Followed
      PROVE  Numbered(i) /\ KernelKnows(i)
    <2>1. i \in Index /\ CpuOf(i) \subseteq Cpu
        BY <1>6, CpuIs
    <2>2. Begun(i) = {} /\ Counted(i) = {}
        BY <1>4, <2>1 DEF Begun, Counted
    <2>3. KernelKnows(i)
        BY <1>3, <1>4, <2>1, <2>2, FS_EmptySet DEF KernelKnows
    <2>4. Numbered(i)
        BY <1>4, <2>1 DEF Numbered, Placed, HasNumber, Single, OnKernelTable
    <2> QED BY <2>3, <2>4
<1> QED BY <1>2, <1>5, <1>7, <1>8, <1>9 DEF StartupInv

LEMMA ScriptStep ==
    ASSUME StartupInv, NEW i \in Index, Script(i)
    PROVE  StartupInv'
<1>1. i \in Followed
    BY DEF Script, Followed
<1>2. CASE Param(i)
    BY <1>1, <1>2, ParamKeeps
<1>3. CASE LoadKernel(i)
    BY <1>1, <1>3, LoadKernelKeeps
<1>4. CASE Load(i)
    BY <1>1, <1>4, DriverKeeps, CopyAppKeeps, CPU_ONKeeps DEF Load
<1> QED BY <1>2, <1>3, <1>4 DEF Script

\* The proxies, and a step in which nothing changes, leave all but the magics.
LEMMA ProxiesKeep ==
    ASSUME StartupInv, UNCHANGED <<sideVars, coreVars, kern, disturbed>>,
           console' \in [Index -> {"none", "stale", "proxy"}], offload_magic' \in BOOLEAN
    PROVE  StartupInv'
<1>1. SideloaderTypeOK' /\ StartupTypeOK'
    BY DEF StartupInv, SideloaderTypeOK, StartupTypeOK, sideVars, coreVars
<1>2. Followed' = Followed
    BY DEF Followed
<1>3. IdsApart'
    BY <1>2 DEF StartupInv, IdsApart
<1>4. ASSUME NEW i \in Followed
      PROVE  (Busy(i) => Serves(i))' /\ InMemory(i)' /\ Numbered(i)' /\ KernelKnows(i)'
    <2>1. Numbered(i)' /\ KernelKnows(i)'
        BY CoresStandStill DEF sideVars
    <2>2. \A j : Busy(j)' = Busy(j)
        BY DEF Busy, Settled, CpuOf, sideVars, coreVars
    <2>3. (Busy(i) => Serves(i)) /\ InMemory(i)
        BY DEF StartupInv, Loaded
    <2>4. Serves(i) => Serves(i)'
        BY <1>2, <2>2 DEF Serves, sideVars
    <2>5. InMemory(i)'
        BY <2>3 DEF InMemory, CpuOf, sideVars
    <2> QED BY <2>1, <2>2, <2>3, <2>4, <2>5
<1> QED BY <1>1, <1>2, <1>3, <1>4 DEF StartupInv, Loaded

LEMMA StartupKept == StartupInv /\ [StartupNext]_vars => StartupInv'
<1> SUFFICES ASSUME StartupInv, [StartupNext]_vars PROVE StartupInv'
    OBVIOUS
<1>1. ASSUME NEW i \in Index, Script(i) PROVE StartupInv'
    BY <1>1, ScriptStep
<1>2. ASSUME NEW c \in Cpu, Execute(c) PROVE StartupInv'
    BY <1>2, CoresCount, CoresKeep
<1>3. console \in [Index -> {"none", "stale", "proxy"}] /\ offload_magic \in BOOLEAN
    BY DEF StartupInv, StartupTypeOK
<1>4. ASSUME NEW i \in Index, mmap_console_channel(i) PROVE StartupInv'
    BY <1>3, <1>4, ProxiesKeep DEF mmap_console_channel
<1>5. CASE mmap_channels
    BY <1>3, <1>5, ProxiesKeep DEF mmap_channels
<1>6. CASE UNCHANGED vars
    BY <1>3, <1>6, ProxiesKeep DEF vars, proxyVars
<1> QED BY <1>1, <1>2, <1>4, <1>5, <1>6 DEF StartupNext

\* The driver, the boot page and the kernels' variables agree in every state,
\* for every unikernel whose boot no other load and no race has disturbed: the
\* load under way has the driver for itself, what has been copied stays, and
\* the counters of a kernel count its cores (lkernel.c, entrypoint.S, main.c).
THEOREM StartupInvariant == StartupSpec => []StartupInv
<1> QED BY StartupInitially, StartupKept, PTL DEF StartupSpec

\* A unikernel boots in its own memory, with its own images, core count,
\* channels and id, though all unikernels boot from one page and the driver
\* keeps what it is told in global variables.
THEOREM EachBootsAsLoaded == StartupSpec => []BootsAsLoaded
<1>1. StartupInv => BootsAsLoaded
    <2> SUFFICES ASSUME StartupInv, NEW i \in Followed, NEW c \in CpuOf(i), pc[c] # "off"
                 PROVE  /\ Mem(c) = i /\ image[i] = [kernel |-> i, app |-> i]
                        /\ kern[i].ukid # None =>
                              /\ kern[i].mem = i /\ kern[i].size = CoreCount[i]
                              /\ kern[i].ukid \in g_ukid
                              /\ \A j \in Followed \ {i} : kern[j].ukid # kern[i].ukid
                        /\ {kern[i].console, kern[i].node} \subseteq {i, None}
        BY DEF BootsAsLoaded
    <2>1. Mem(c) = i
        BY InOwnMemory
    <2>2. i \in Index /\ KernelKnows(i) /\ Placed(i, c) /\ InMemory(i) /\ IdsApart /\ SideloaderTypeOK
        BY DEF StartupInv, Numbered, Loaded, Followed
    <2>3. image[i] = [kernel |-> i, app |-> i]
        BY <2>2 DEF Placed, InMemory, SideloaderTypeOK
    <2> QED BY <2>1, <2>2, <2>3 DEF KernelKnows, IdsApart
<1> QED BY <1>1, StartupInvariant, PTL

\* At most one core of a unikernel is the BSP.
LEMMA OneBsp ==
    ASSUME StartupInv, NEW i \in Followed
    PROVE  Cardinality(bsp \cap CpuOf(i)) <= 1
<1>1. \A c, d \in bsp \cap CpuOf(i) : c = d
    BY DEF StartupInv, Numbered, Single
<1>2. CASE bsp \cap CpuOf(i) = {}
    BY <1>2, FS_EmptySet
<1>3. CASE bsp \cap CpuOf(i) # {}
    <2>1. PICK c : bsp \cap CpuOf(i) = {c}
        BY <1>1, <1>3
    <2> QED BY <2>1, FS_Singleton
<1> QED BY <1>2, <1>3

LEMMA NumbersApart == StartupInv => CoresApart
<1> SUFFICES ASSUME StartupInv, NEW i \in Followed
             PROVE  /\ \A c, d \in CpuOf(i) :
                          /\ apic_id[c] # None => apic_id[c] < CoreCount[i]
                          /\ c # d /\ apic_id[c] # None => apic_id[c] # apic_id[d]
                          /\ c # d /\ stack[c] # None => stack[c] # stack[d]
                    /\ Cardinality(bsp \cap CpuOf(i)) <= 1
                    /\ kern[i].app => \A c \in CpuOf(i) : None \notin {apic_id[c], stack[c]}
    BY DEF CoresApart
<1>1. i \in Index /\ CpuOf(i) \subseteq Cpu /\ Numbered(i) /\ KernelKnows(i) /\ StartupTypeOK
    BY CpuIs DEF StartupInv, Followed
<1>2. /\ kern[i].curr_cpu \in Nat /\ kern[i].curr_cpu <= CoreCount[i] /\ CoreCount[i] \in Nat
      /\ kern[i].app => Counted(i) = CpuOf(i)
    BY <1>1, CountsFinite, CpuCount DEF KernelKnows
<1>3. \A c \in CpuOf(i) : apic_id[c] \in Nat \cup {None} /\ stack[c] \in Nat \cup {None}
    BY <1>1 DEF StartupTypeOK
<1>4. ASSUME NEW c \in CpuOf(i), NEW d \in CpuOf(i)
      PROVE  /\ apic_id[c] # None => apic_id[c] < CoreCount[i]
             /\ c # d /\ apic_id[c] # None => apic_id[c] # apic_id[d]
             /\ c # d /\ stack[c] # None => stack[c] # stack[d]
    <2>1. HasNumber(i, c) /\ HasNumber(i, d) /\ Single(i, c)
        BY <1>1 DEF Numbered
    <2>2. apic_id[c] # None => apic_id[c] < CoreCount[i]
        BY <1>2, <1>3, <2>1 DEF HasNumber
    <2>3. c # d /\ apic_id[c] # None => apic_id[c] # apic_id[d]
        BY <2>1 DEF Single
    <2>4. stack[c] # None => apic_id[c] \in Nat /\ stack[c] = apic_id[c] + 1
        BY <1>3, <2>1 DEF HasNumber
    <2>5. stack[d] # None => apic_id[d] \in Nat /\ stack[d] = apic_id[d] + 1
        BY <1>3, <2>1 DEF HasNumber
    <2> QED BY <2>2, <2>3, <2>4, <2>5, SideloaderAssumption
<1>5. kern[i].app => \A c \in CpuOf(i) : None \notin {apic_id[c], stack[c]}
    BY <1>1, <1>2 DEF Counted, Numbered, HasNumber
<1> QED BY <1>4, <1>5, OneBsp

\* The cores of a unikernel have numbers and stacks of their own, one of them is
\* the BSP, and the application waits for all of them (set_apic_id, the
\* cmpxchg of entrypoint.S, start_idle_thread).
THEOREM CoresStayApart == StartupSpec => []CoresApart
<1> QED BY NumbersApart, StartupInvariant, PTL

\* Shares of equal size do not overlap.
LEMMA SharesApart ==
    ASSUME NEW i \in Nat, NEW j \in Nat, NEW S \in Nat, NEW a \in 0 .. S - 1, NEW b \in 0 .. S - 1,
           i < j
    PROVE  i * S + a # j * S + b
<1>1. (i + 1) * S <= j * S
    <2>1. PICK k \in Nat : j = i + 1 + k
        <3>1. j - i - 1 \in Nat /\ j = i + 1 + (j - i - 1)
            OBVIOUS
        <3> QED BY <3>1
    <2>2. j * S = (i + 1) * S + k * S
        BY <2>1
    <2>3. k * S \in Nat /\ (i + 1) * S \in Nat
        BY <2>1
    <2> QED BY <2>2, <2>3
<1>2. (i + 1) * S = i * S + S /\ i * S \in Nat /\ j * S \in Nat
    OBVIOUS
<1> QED BY <1>1, <1>2

\* No two cores of any unikernels send their calls through one channel, where
\* every unikernel has no more cores than its share (get_offload_channel).
THEOREM ChannelsStayApart == StartupSpec => []OwnChannel
<1>1. StartupInv => OwnChannel
    <2> SUFFICES ASSUME StartupInv, NEW i \in Followed, NEW j \in Followed,
                        NEW c \in CpuOf(i), NEW d \in CpuOf(j),
                        c # d, {CoreCount[i], CoreCount[j]} \subseteq 0 .. ChannelSize,
                        {pc[c], pc[d]} \subseteq {"cores", "running"},
                        None \notin {kern[i].node, kern[j].node}
                 PROVE  get_offload_channel(c) # get_offload_channel(d)
        BY DEF OwnChannel
    <2>1. i \in Index /\ j \in Index /\ KernelKnows(i) /\ KernelKnows(j)
        BY DEF StartupInv, Followed
    <2>2. Mem(c) = i /\ Mem(d) = j
        BY InOwnMemory
    <2>3. kern[i].node = i /\ kern[j].node = j
        BY <2>1 DEF KernelKnows
    <2>4. /\ apic_id[c] # None /\ apic_id[c] < CoreCount[i]
          /\ apic_id[d] # None /\ apic_id[d] < CoreCount[j]
          /\ i = j => apic_id[c] # apic_id[d]
        <3>1. HasNumber(i, c) /\ HasNumber(j, d)
            BY DEF StartupInv, Numbered
        <3>2. apic_id[c] # None /\ apic_id[d] # None
            BY <3>1 DEF HasNumber
        <3> QED BY <3>2, NumbersApart DEF CoresApart
    <2>a. apic_id[c] \in Nat /\ apic_id[d] \in Nat
        BY <2>1, <2>4, CpuIs DEF StartupInv, StartupTypeOK
    <2>5. ChannelSize \in Nat /\ CoreCount[i] \in Nat /\ CoreCount[j] \in Nat
        BY <2>1, CpuCount, StartupAssumption, SideloaderAssumption DEF ChannelSize
    <2>6. apic_id[c] \in 0 .. ChannelSize - 1 /\ apic_id[d] \in 0 .. ChannelSize - 1
        BY <2>4, <2>a, <2>5
    <2>7. i \in Nat /\ j \in Nat
        BY <2>1 DEF Index
    <2>8. i * ChannelSize + apic_id[c] # j * ChannelSize + apic_id[d]
        <3>1. CASE i = j
            BY <2>4, <2>5, <2>6, <2>7, <3>1
        <3>2. CASE i < j
            BY <2>5, <2>6, <2>7, <3>2, SharesApart
        <3>3. CASE j < i
            BY <2>5, <2>6, <2>7, <3>3, SharesApart
        <3> QED BY <2>7, <3>1, <3>2, <3>3
    <2> QED BY <2>2, <2>3, <2>8 DEF get_offload_channel
<1> QED BY <1>1, StartupInvariant, PTL

=============================================================================
