------------------------------- MODULE Paging -------------------------------
(***************************************************************************)
(* Virtual memory on demand: a page fault maps a fresh page of the buddy   *)
(* allocator (kernel/interrupthandler.c, kernel/map.c), and get_pa looks   *)
(* up the page of a buffer that is offloaded to the proxy, or makes it     *)
(* (kernel/offload/offload_page.c).  There is one page table.  An entry of *)
(* level k, 1 for the PML4 to 4 for the page table, covers Entries^(4-k)   *)
(* pages; it points to the table of the next level or, at level 4, to the  *)
(* page.  Nothing is ever unmapped: lk_unmap has no caller.                *)
(*                                                                         *)
(* The other users of az_alloc and az_free hold blocks of their own.  What *)
(* the processor does with the table, its TLB included, is external.  A    *)
(* step is one access to what the other cores may change; az_alloc is one, *)
(* see BuddyAllocator.  Faults and system calls run with interrupts off,   *)
(* so that a core is in one of them at a time.                             *)
(***************************************************************************)
EXTENDS BuddyAllocator, Functions, SequencesExt

CONSTANTS
    Core,           \* the cores of a unikernel
    VPages,         \* bound: the pages of the program's address space
    Entries,        \* PAGE_MAX_ENTRY_COUNT
    PageSize,       \* PAGE_SIZE_4K
    KernelSize      \* the sizes, in pages, that others ask az_alloc for

ASSUME PagingAssumption ==
    /\ VPages \in Nat \ {0} /\ Entries \in Nat \ {0, 1} /\ VPages <= Entries^4
    /\ PageSize \in Nat \ {0} /\ KernelSize \subseteq 0 .. MaxSize
    /\ None \notin Core

VPage == 0 .. VPages - 1
Depth == 1 .. 4

\* The entry of level k on the way to page v.
Slot(k, v) == <<k, v \div Entries^(4 - k)>>
Slots == {Slot(k, v) : k \in Depth, v \in VPage}

VARIABLES
    entry,      \* the entries of the tables: a page of the pool, or None for 0
    map_lock,   \* its holder
    job,        \* what a core is doing: the handler of a fault, get_pa, or nothing
    tlb,        \* the translations a core has cached
    content,    \* what is in a page: "junk", zeros, or what was stored there
    others,     \* the blocks of the other users, by their first page
    stored,     \* the pages of the program that have been stored to
    overlap,    \* the pages that two cores were handling at the same time
    failed      \* whether lk_map has failed in a fault

allocVars == <<bitmap, bitmap_count, block_index, used_size>>
tableVars == <<entry, map_lock, job, tlb, content, others, stored, overlap, failed>>
pagingVars == <<allocVars, tableVars>>

Idle == [kind |-> "none", at |-> "out", v |-> None, frame |-> None]
\* Bound: once two cores have been on the same page nothing new begins; what is
\* in progress is followed to its end.
Begin(c, kind, at, v) ==
    /\ overlap = {}
    /\ job' = [job EXCEPT ![c] = [kind |-> kind, at |-> at, v |-> v, frame |-> None]]
    /\ overlap' = IF \E d \in Core \ {c} : job[d].v = v THEN overlap \cup {v} ELSE overlap
At(c, place) == job[c].at = place
Go(c, place) == job' = [job EXCEPT ![c].at = place]
Done(c) == job' = [job EXCEPT ![c] = Idle]

\* map_init, with the low half of the PML4 empty, as
\* remove_low_identical_mapping leaves it.
PagingInit ==
    /\ Init
    /\ entry = [s \in Slots |-> None]
    /\ map_lock = None
    /\ job = [c \in Core |-> Idle]
    /\ tlb = [c \in Core |-> [v \in VPage |-> None]]
    /\ content = [p \in Page |-> "junk"]
    /\ others = {}
    /\ stored = {}
    /\ overlap = {}
    /\ failed = FALSE

PagingTypeOK ==
    /\ TypeOK
    /\ entry \in [Slots -> Page \cup {None}]
    /\ map_lock \in Core \cup {None}
    /\ job \in [Core -> [kind : {"none", "fault", "pa"}, v : VPage \cup {None},
                         at : {"out", "alloc", "lock", "walk", "ret", "host", "halt"},
                         frame : Page \cup {None}]]
    /\ tlb \in [Core -> [VPage -> Page \cup {None}]]
    /\ content \in [Page -> {"junk", "zero", "data"}]
    /\ others \subseteq Page /\ stored \subseteq VPage /\ overlap \subseteq VPage
    /\ failed \in BOOLEAN

-----------------------------------------------------------------------------
(* The processor *)

\* Where the tables lead to.
Walk(v) == entry[Slot(4, v)]
Translation(c, v) == IF tlb[c][v] # None THEN tlb[c][v] ELSE Walk(v)

\* The program loads from or stores to a page that is mapped.
Access(c, v, store) ==
    LET p == Translation(c, v)
    IN  /\ At(c, "out") /\ p # None
        /\ tlb' = [tlb EXCEPT ![c][v] = p]
        /\ content' = IF store THEN [content EXCEPT ![p] = "data"] ELSE content
        /\ stored' = IF store THEN stored \cup {v} ELSE stored
        /\ UNCHANGED <<allocVars, entry, map_lock, job, others, overlap, failed>>

\* A page that is not: isr_page_fault calls pagefault_handler, and when that
\* returns the access is tried again.
Fault(c, v) ==
    /\ At(c, "out") /\ Translation(c, v) = None
    /\ Begin(c, "fault", "alloc", v)
    /\ UNCHANGED <<allocVars, entry, map_lock, tlb, content, others, stored, failed>>

-----------------------------------------------------------------------------
(* Memory *)

\* The pages of the block that az_alloc gives.
NewBlock(size) ==
    AllocatedPage(size) .. AllocatedPage(size) + 2^Min(LargeEnough(size)) - 1

Fill(block, what) ==
    LET b == block IN content' = [p \in Page |-> IF p \in b THEN what ELSE content[p]]

\* Mutant: az_alloc leaves the block as its last user left it.
az_alloc_dirty(size) ==
    /\ Alloc(size)
    /\ content' = content

\* A block comes zeroed.
az_alloc(size) ==
    /\ Alloc(size)
    /\ Fill(NewBlock(size), "zero")

\* pagefault_handler takes the page before it looks at the tables; without one
\* it is over: debug_halt.
FaultAlloc(c) ==
    /\ At(c, "alloc")
    /\ \/ /\ az_alloc(1)
          /\ job' = [job EXCEPT ![c].at = "lock", ![c].frame = AllocatedPage(1)]
       \/ /\ ~CanAlloc(1) /\ Go(c, "halt")
          /\ UNCHANGED <<allocVars, content>>
    /\ UNCHANGED <<entry, map_lock, tlb, others, stored, overlap, failed>>

\* A system call asks for the physical address of a buffer.
get_pa(c, v) ==
    /\ At(c, "out")
    /\ Begin(c, "pa", "lock", v)
    /\ UNCHANGED <<allocVars, entry, map_lock, tlb, content, others, stored, failed>>

Lock(c) ==
    /\ At(c, "lock") /\ map_lock = None
    /\ map_lock' = c
    /\ Go(c, "walk")
    /\ UNCHANGED <<allocVars, entry, tlb, content, others, stored, overlap, failed>>

\* No memory for a table, or in get_pa for the page: FALSE.  pagefault_handler
\* expects -1 of lk_map and takes FALSE for success; it forgets the page.
GiveUp(c) ==
    /\ Done(c) /\ map_lock' = None
    /\ failed' = (failed \/ job[c].kind = "fault")
    /\ UNCHANGED <<allocVars, entry, tlb, content, others, stored, overlap>>

Missing(v) == {k \in 1 .. 3 : entry[Slot(k, v)] = None}

\* lk_map and get_pa alike: the first table on the way that is missing is made.
MakeTable(c) ==
    /\ At(c, "walk") /\ Missing(job[c].v) # {}
    /\ \/ /\ az_alloc(1)
          /\ entry' = [entry EXCEPT ![Slot(Min(Missing(job[c].v)), job[c].v)] = AllocatedPage(1)]
          /\ UNCHANGED <<job, map_lock, tlb, others, stored, overlap, failed>>
       \/ ~CanAlloc(1) /\ GiveUp(c)

Reached(c) == At(c, "walk") /\ Missing(job[c].v) = {}

\* The last entry in lk_map: whatever was there goes.
MapPage(c) ==
    /\ Reached(c) /\ job[c].kind = "fault"
    /\ entry' = [entry EXCEPT ![Slot(4, job[c].v)] = job[c].frame]
    /\ map_lock' = None /\ Done(c)
    /\ UNCHANGED <<allocVars, tlb, content, others, stored, overlap, failed>>

\* Mutant: a page that is there is replaced.
FindPageAnew(c) ==
    /\ Reached(c) /\ job[c].kind = "pa"
    /\ \/ /\ az_alloc(1)
          /\ entry' = [entry EXCEPT ![Slot(4, job[c].v)] = AllocatedPage(1)]
          /\ map_lock' = None /\ Go(c, "ret")
          /\ UNCHANGED <<tlb, others, stored, overlap, failed>>
       \/ ~CanAlloc(1) /\ GiveUp(c)

\* The last entry in get_pa: a page is made only if there is none.
FindPage(c) ==
    /\ Reached(c) /\ job[c].kind = "pa"
    /\ \/ /\ Walk(job[c].v) # None
          /\ map_lock' = None /\ Go(c, "ret")
          /\ UNCHANGED <<allocVars, entry, tlb, content, others, stored, overlap, failed>>
       \/ /\ Walk(job[c].v) = None /\ az_alloc(1)
          /\ entry' = [entry EXCEPT ![Slot(4, job[c].v)] = AllocatedPage(1)]
          /\ map_lock' = None /\ Go(c, "ret")
          /\ UNCHANGED <<tlb, others, stored, overlap, failed>>
       \/ Walk(job[c].v) = None /\ ~CanAlloc(1) /\ GiveUp(c)

\* The entry is read once more, after the unlock, for the address to return.
ReadPa(c) ==
    /\ At(c, "ret")
    /\ job' = [job EXCEPT ![c].at = "host", ![c].frame = Walk(job[c].v)]
    /\ UNCHANGED <<allocVars, entry, map_lock, tlb, content, others, stored, overlap, failed>>

\* The proxy has the call done on the physical address: it may fill the buffer.
HostStore(c) ==
    /\ At(c, "host") /\ Done(c)
    /\ content' = [content EXCEPT ![job[c].frame] = "data"]
    /\ stored' = stored \cup {job[c].v}
    /\ UNCHANGED <<allocVars, entry, map_lock, tlb, others, overlap, failed>>

\* Other users of the allocator, who write to what they get.
KernelAlloc(size) ==
    /\ overlap = {} /\ others = {}     \* bound: one block at a time
    /\ Alloc(size)
    /\ others' = others \cup {AllocatedPage(size)}
    /\ Fill(NewBlock(size), "junk")
    /\ UNCHANGED <<entry, map_lock, job, tlb, stored, overlap, failed>>

KernelFree(p) ==
    /\ p \in others /\ Free(p)
    /\ others' = others \ {p}
    /\ UNCHANGED <<entry, map_lock, job, tlb, content, stored, overlap, failed>>

-----------------------------------------------------------------------------
(* get_iovec *)

\* The physical address of an address whose page is mapped.
Physical(a) == Walk(a \div PageSize) * PageSize + (a % PageSize)

\* Mutant: the offset of the buffer in its first page is forgotten.
NrPagesAligned(buf, count) ==
    IF count % PageSize = 0 THEN count \div PageSize ELSE count \div PageSize + 1

\* The number of pages of a buffer.
NrPages(buf, count) ==
    LET bytes == count + (buf % PageSize)
    IN  IF bytes % PageSize = 0 THEN bytes \div PageSize ELSE bytes \div PageSize + 1

\* One turn of the scan: a page that does not follow the one before in physical
\* memory begins a region.
ScanPage(s, i) ==
    LET offset == s.scan % PageSize
        page_addr == Physical(s.scan) - offset
        page_len == Min({PageSize - offset, s.left})
        split == page_addr # s.prev + PageSize
    IN  [scan |-> s.scan + page_len, left |-> s.left - page_len, prev |-> page_addr,
         base |-> IF split THEN Physical(s.scan) ELSE s.base,
         len |-> IF split THEN page_len ELSE s.len + page_len,
         iov |-> IF split THEN Append(s.iov, [base |-> s.base, len |-> s.len]) ELSE s.iov]

\* The regions of a buffer whose pages have been touched, hence are mapped.
get_iovec(buf, count) ==
    LET start == [scan |-> buf, left |-> count, prev |-> Physical(buf) - (buf % PageSize) - PageSize,
                  base |-> Physical(buf), len |-> 0, iov |-> <<>>]
        end == FoldLeft(ScanPage, start, [i \in 1 .. NrPages(buf, count) |-> i])
    IN  Append(end.iov, [base |-> end.base, len |-> end.len])

(* The proxy: do_console_off_write_v for cs_write.  The loops for read and write in *)
(* offload_fio.c are alike, and compiled in only with IOVEC_RW.                  *)

\* write() of one region moves n of its bytes.  The host takes room bytes more,
\* and then ends short or, if it fails, with -1.
Transfer(s, r) ==
    LET n == Min({r.len, s.room})
    IN  IF s.over THEN s
        ELSE IF s.fails /\ s.room = 0 THEN [s EXCEPT !.over = TRUE, !.ret = -1]
        ELSE [s EXCEPT !.room = @ - n, !.over = n < r.len, !.ret = @ + n,
                       !.moved = @ \o [i \in 1 .. n |-> r.base + i - 1]]

Untouched(room, fails) ==
    [room |-> room, fails |-> fails, over |-> FALSE, ret |-> 0, moved |-> <<>>]

do_console_off_write_v(iov, room, fails) == FoldLeft(Transfer, Untouched(room, fails), iov)

-----------------------------------------------------------------------------

\* What a core does in the handler or in the call.
Proceed(c) ==
    Lock(c) \/ FaultAlloc(c) \/ MakeTable(c) \/ MapPage(c) \/ FindPage(c) \/ ReadPa(c) \/ HostStore(c)

PagingNext ==
    \/ \E c \in Core :
           \/ Proceed(c)
           \/ \E v \in VPage : get_pa(c, v) \/ Fault(c, v) \/ \E w \in BOOLEAN : Access(c, v, w)
    \/ \E size \in KernelSize : KernelAlloc(size)
    \/ \E p \in others : KernelFree(p)

PagingSpec == PagingInit /\ [][PagingNext]_pagingVars

-----------------------------------------------------------------------------
(* Properties *)

\* A page reads, on every core, as what was last stored to it by the program or
\* by the proxy, and as zeros before, never as what another user left: az_alloc
\* zeroes, get_pa finds the page that faults made and the TLBs hold no stale
\* entry.  Two cores that fault on a page at the same time are the exception:
\* the second replaces the page of the first, which may have been stored to.
LoadsLastStore ==
    \A c \in Core : \A v \in VPage \ overlap :
        Translation(c, v) # None =>
            content[Translation(c, v)] = IF v \in stored THEN "data" ELSE "zero"

\* The pages that a handler holds and has not mapped.
InHand == [c \in {d \in Core : job[d].kind = "fault" /\ job[d].frame # None} |-> job[c].frame]

\* No page serves two purposes, as tables, as pages of the program, in the hands
\* of a handler or of another user; and none is lost, unless lk_map failed or
\* two cores handled the same page at the same time.
EachFrameOnce ==
    LET mapped == [s \in {t \in Slots : entry[t] # None} |-> entry[s]]
        first == {p \in Page : block_index[p] # None}
    IN  /\ IsInjective(mapped) /\ IsInjective(InHand)
        /\ Range(mapped) \cap Range(InHand) = {}
        /\ (Range(mapped) \cup Range(InHand)) \cap others = {}
        /\ Range(mapped) \cup Range(InHand) \cup others \subseteq first
        /\ overlap = {} /\ ~failed => first = Range(mapped) \cup Range(InHand) \cup others

\* The proxy that goes through the regions of get_iovec meets the bytes of the
\* buffer in order, every byte once, and returns how many it has moved, wherever
\* the host stops; when the host fails at the beginning of a region it returns -1,
\* whatever it has moved before.  Two regions that follow one another do not
\* adjoin.
IovecCoversBuffer ==
    \A buf \in 0 .. VPages * PageSize - 1 : \A count \in 1 .. VPages * PageSize - buf :
        (\A v \in buf \div PageSize .. (buf + count - 1) \div PageSize : Walk(v) # None) =>
            LET iov == get_iovec(buf, count)
                phys == [i \in 1 .. count |-> Physical(buf + i - 1)]
                fails == do_console_off_write_v(iov, count - 1, TRUE)
            IN  /\ \A n \in 0 .. count :
                       LET io == do_console_off_write_v(iov, n, FALSE)
                       IN  io.ret = n /\ io.moved = SubSeq(phys, 1, n)
                /\ fails.ret = IF iov[Len(iov)].len = 1 THEN -1 ELSE count - 1
                /\ fails.moved = SubSeq(phys, 1, count - 1)
                /\ \A i \in 1 .. Len(iov) - 1 : iov[i + 1].base # iov[i].base + iov[i].len

=============================================================================
