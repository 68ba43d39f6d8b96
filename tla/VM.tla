--------------------------------- MODULE VM ---------------------------------
(***************************************************************************)
(* Demand paging of vm/vm.c, vm/anon.c and vm/file.c: the per-process     *)
(* supplemental page table (SPT), the global FIFO frame table, the swap   *)
(* table of anonymous pages, the hardware page tables (pml4) with their    *)
(* dirty bits, and the page-fault handler that ties them together.         *)
(*                                                                         *)
(* A page is named by its process and its virtual page number.  Page      *)
(* contents are abstracted to a small set Values; fdata, sdata and         *)
(* fileData hold what is in a frame, a swap slot and the backing file      *)
(* block of a page.  A step of a process is one handler run to its end;    *)
(* frame-table operations are not locked in the code, and the processes    *)
(* interleave between handlers.                                            *)
(***************************************************************************)
EXTENDS Naturals, Sequences, SequencesExt, FiniteSets

CONSTANTS
    Procs,      \* user processes (one thread each)
    Unborn,     \* processes that start life as the child of a fork
    NVA,        \* user pages are 1..NVA
    StackLo,    \* pages StackLo..NVA lie in the 1 MiB stack window below USER_STACK
    Kvas,       \* physical pages of the user pool (palloc PAL_USER)
    NSlots,     \* swap slots 1..NSlots; slot s has slot_index s-1
    Values,     \* page contents; 0 is the zero-filled page
    MaxAllocs,  \* bound on page-creating calls per run (lazy segments, mmaps)
    NULL,       \* the null pointer / slot_index (disk_sector_t)-1
    FREED       \* a pointer to a struct page that has been freed

VAs == 1..NVA
StackVAs == StackLo..NVA
Slots == 1..NSlots
PageIds == Procs \X VAs

ASSUME Unborn \subseteq Procs /\ Procs \ Unborn # {}
ASSUME StackLo \in 1..(NVA + 1) /\ NSlots \in Nat /\ MaxAllocs \in Nat /\ 0 \in Values

(* Files start with non-zero contents, so that a page that should hold    *)
(* file data is told apart from a zero-filled one.                         *)
FileInit == CHOOSE v \in Values : v # 0

(* struct page: operations->type (type), VM_TYPE(uninit.type) (target),   *)
(* uninit.type & VM_MARKER_0 (stack), uninit.init # NULL (init), writable, *)
(* frame, anon.slot_index (slot), and the struct file the page reads       *)
(* (aux->file of an uninit page, file_page.file of a file page): "open",   *)
(* "closed" (freed by file_close) or "none" (NULL).                        *)
PageRec == [type : {"uninit", "anon", "file"}, target : {"anon", "file"},
            stack : BOOLEAN, init : BOOLEAN, writable : BOOLEAN,
            frame : Kvas \cup {NULL}, slot : Slots \cup {NULL},
            file : {"open", "closed", "none"}]

VARIABLES
    spt,       \* spt[p][va]: the struct page at va, or NULL
    ftable,    \* frame_table: sequence of struct frame [kva, page]
    freeKvas,  \* pages palloc_get_page(PAL_USER) can still return
    fdata,     \* contents of each physical page
    swapTable, \* swap_table: disk_sector.page of each slot
    sdata,     \* contents of each swap slot
    pml4,      \* hardware mapping va -> kva of each process
    dirty,     \* hardware dirty bit of each mapping
    fileData,  \* contents of the file block behind each page
    status,    \* "unborn", "fork" (copying its parent's SPT), "run", "dying"
               \* (fault failed, exit(-1) pending) or "exited"
    grow,      \* next page vm_stack_growth will handle, 0 if none
    retry,     \* <<va, write, nearRsp>> of the faulting access a process
               \* re-executes after vm_try_handle_fault returned true, else NULL
    forkSrc,   \* the parent whose SPT a child is copying, else NULL
    toCopy,    \* pages of the parent's SPT the copy has not reached yet
    copyVa,    \* page whose frame the copy is about to memcpy, 0 if none
    allocs,    \* pages created so far (bounded by MaxAllocs)
    crash,     \* "none", or why the kernel faulted or panicked
    lastStore  \* history: the page the last step stored into, else NULL

forkVars == <<forkSrc, toCopy, copyVa>>

kernelVars == <<spt, ftable, freeKvas, fdata, swapTable, sdata, pml4, dirty,
                fileData, status, grow, allocs, crash, retry, forkVars>>

vars == <<kernelVars, lastStore>>

FrameRec == [kva : Kvas \cup {NULL}, page : PageIds \cup {NULL, FREED}]

TypeOK ==
    /\ spt \in [Procs -> [VAs -> PageRec \cup {NULL}]]
    /\ ftable \in Seq(FrameRec)
    /\ freeKvas \subseteq Kvas
    /\ fdata \in [Kvas -> Values]
    /\ swapTable \in [Slots -> PageIds \cup {NULL, FREED}]
    /\ sdata \in [Slots -> Values]
    /\ pml4 \in [Procs -> [VAs -> Kvas \cup {NULL}]]
    /\ dirty \in [Procs -> [VAs -> BOOLEAN]]
    /\ fileData \in [PageIds -> Values]
    /\ status \in [Procs -> {"unborn", "fork", "run", "dying", "exited"}]
    /\ grow \in [Procs -> VAs \cup {0}]
    /\ retry \in [Procs -> (VAs \X BOOLEAN \X BOOLEAN) \cup {NULL}]
    /\ forkSrc \in [Procs -> Procs \cup {NULL}]
    /\ toCopy \in [Procs -> SUBSET VAs]
    /\ copyVa \in [Procs -> VAs \cup {0}]
    /\ allocs \in 0..MaxAllocs
    /\ crash \in {"none", "scan_null", "wb_null", "assert", "uaf", "bad_file", "fork_null", "fork_uaf", "evict_fault"}
    /\ lastStore \in PageIds \cup {NULL}

Init ==
    /\ spt = [p \in Procs |-> [va \in VAs |-> NULL]]
    /\ ftable = <<>>
    /\ freeKvas = Kvas
    /\ fdata = [k \in Kvas |-> 0]
    /\ swapTable = [s \in Slots |-> NULL]
    /\ sdata = [s \in Slots |-> 0]
    /\ pml4 = [p \in Procs |-> [va \in VAs |-> NULL]]
    /\ dirty = [p \in Procs |-> [va \in VAs |-> FALSE]]
    /\ fileData = [pg \in PageIds |-> FileInit]
    /\ status = [p \in Procs |-> IF p \in Unborn THEN "unborn" ELSE "run"]
    /\ grow = [p \in Procs |-> 0]
    /\ retry = [p \in Procs |-> NULL]
    /\ forkSrc = [p \in Procs |-> NULL]
    /\ toCopy = [p \in Procs |-> {}]
    /\ copyVa = [p \in Procs |-> 0]
    /\ allocs = 0
    /\ crash = "none"
    /\ lastStore = NULL

Page(pg) == spt[pg[1]][pg[2]]

(* A parent sleeps in fork until its child has copied the SPT. *)
Blocked(p) == \E c \in Procs : forkSrc[c] = p

(* p runs user code: not in the kernel growing its stack, not about to    *)
(* re-execute a faulting instruction, not asleep in fork.                 *)
Running(p) ==
    status[p] = "run" /\ grow[p] = 0 /\ retry[p] = NULL /\ ~Blocked(p) /\ crash = "none"

(* uninit_new as vm_alloc_page_with_initializer calls it: a page with an  *)
(* initializer (lazy segment, mmap) carries an aux naming an open file;    *)
(* one without (stack growth, fork's copy of a loaded page) has no aux.    *)
NewPage(kind, isStack, hasInit, w) ==
    [type |-> "uninit", target |-> kind, stack |-> isStack, init |-> hasInit,
     writable |-> w, frame |-> NULL, slot |-> NULL,
     file |-> IF hasInit THEN "open" ELSE "none"]

(* file_page.file is NULL: file_backed_swap_in, _swap_out and _destroy     *)
(* return at once.                                                          *)
NoFile(pg) == pg.type = "file" /\ pg.file = "none"

-----------------------------------------------------------------------------
(***************************************************************************)
(* vm_get_victim: FIFO scan of frame_table that skips frames whose page   *)
(* carries VM_MARKER_0.  It reads frame->page->uninit.type, so a frame     *)
(* whose page is NULL faults the kernel; a freed page reads as 0xcc bytes  *)
(* (malloc's free poison), whose VM_MARKER_0 bit is set, so it is skipped. *)
(***************************************************************************)
Skipped(e) == e.page = FREED \/ (e.page # NULL /\ Page(e.page).stack)
VictimAt == SelectInSeq(ftable, LAMBDA e : ~Skipped(e))

FirstFreeSlot == SelectInSeq([s \in Slots |-> swapTable[s]], LAMBDA x : x = NULL)

(***************************************************************************)
(* vm_do_claim_page(page) run by process p for its page at va, after      *)
(* vm_get_frame handed it kva k.  The inputs are the state vm_get_frame    *)
(* left behind.  If page->frame is already set the frame stays in the      *)
(* table with no page and the claim fails; otherwise the two are linked,   *)
(* pml4_set_page maps va, and swap_in fills the frame through the page's   *)
(* operations (uninit -> anon/file initializer, anon from its slot, file   *)
(* from its block).  A zero-filled frame is only guaranteed by palloc: a   *)
(* recycled frame keeps its old contents.                                  *)
(***************************************************************************)
(* Mutant: anon_swap_in returns before reading its slot. *)
LoadedSkipSwap(p, va, pg, k, sd, frameData) ==
    IF (pg.type = "uninit" /\ ~pg.init) \/ pg.type = "anon" \/ NoFile(pg) THEN frameData[k]
    ELSE fileData[<<p, va>>]

(* What swap_in leaves in frame k for page pg of p at va: an uninit page   *)
(* without init (stack, fork copy) nothing, an anonymous page its swap    *)
(* slot if it has one (anon_swap_in returns early on slot_index -1), a    *)
(* file page with no file nothing (file_backed_swap_in fails), a lazy     *)
(* segment or a file page its block (lazy_load_segment, file_backed_init, *)
(* file_backed_swap_in).                                                  *)
Loaded(p, va, pg, k, sd, frameData) ==
    CASE pg.type = "uninit" /\ ~pg.init -> frameData[k]
      [] NoFile(pg) -> frameData[k]
      [] pg.type = "anon" /\ pg.slot # NULL -> sd[pg.slot]
      [] pg.type = "anon" -> frameData[k]
      [] OTHER -> fileData[<<p, va>>]

(* Mutant: anon_swap_in leaves the slot marked in swap_table. *)
ReleaseSlotKept(swapT, pg) == swapT

(* anon_swap_in clears sector->page of the slot it read. *)
ReleaseSlot(swapT, pg) ==
    IF pg.type = "anon" /\ pg.slot # NULL THEN [swapT EXCEPT ![pg.slot] = NULL] ELSE swapT

(* Mutant: vm_do_claim_page links the page without testing page->frame. *)
AlreadyLinkedUnchecked(pg) == FALSE

(* vm_do_claim_page returns false when page->frame is already set. *)
AlreadyLinked(pg) == pg.frame # NULL

ClaimInto(p, va, k, table, pages, swapT, sd, pt, frameData) ==
    LET pg == pages[p][va]
        linked == [pg EXCEPT !.frame = k]
        loaded ==
          CASE pg.type = "uninit" ->     \* file_backed_initializer sets file NULL
                 [linked EXCEPT !.type = pg.target, !.slot = NULL,
                                !.file = IF pg.init THEN pg.file ELSE "none"]
            [] pg.type = "anon" -> [linked EXCEPT !.slot = NULL]
            [] OTHER -> linked
    IN
    IF AlreadyLinked(pg)
    THEN /\ ftable' = Append(table, [kva |-> k, page |-> NULL])
         /\ spt' = pages /\ swapTable' = swapT /\ sdata' = sd /\ pml4' = pt
         /\ fdata' = frameData
         /\ UNCHANGED <<dirty, crash>>
    ELSE IF pg.type = "uninit" /\ pg.target = "file" /\ pg.init /\ pg.file = "closed"
    THEN \* file_backed_init reads through a closed struct file
         /\ crash' = "uaf"
         /\ UNCHANGED <<spt, ftable, fdata, swapTable, sdata, pml4, dirty>>
    ELSE /\ ftable' = Append(table, [kva |-> k, page |-> <<p, va>>])
         /\ spt' = [pages EXCEPT ![p][va] = loaded]
         /\ pml4' = [pt EXCEPT ![p][va] = k]
         /\ dirty' = [dirty EXCEPT ![p][va] = FALSE]
         /\ fdata' = [frameData EXCEPT ![k] = Loaded(p, va, pg, k, sd, frameData)]
         /\ swapTable' = ReleaseSlot(swapT, pg)
         /\ sdata' = sd
         /\ UNCHANGED crash

(* The claim fails when page->frame is still set once vm_get_frame has   *)
(* returned (its eviction may have unlinked this very page), so va stays  *)
(* unmapped, or when swap_in fails: a file page with no file.             *)
ClaimFails(p, va) == pml4'[p][va] = NULL \/ NoFile(spt[p][va])

KernelFault(why) ==
    /\ crash' = why
    /\ UNCHANGED <<spt, ftable, freeKvas, fdata, swapTable, sdata, pml4, dirty>>

(***************************************************************************)
(* vm_get_frame followed by the claim.  Either palloc hands out a zeroed  *)
(* page, or vm_evict_frame takes the FIFO victim: it unlinks the victim   *)
(* page, removes its frame from the table and calls swap_out, whose       *)
(* result it ignores.  anon_swap_out takes the first free slot and writes *)
(* the page from the user address page->va; file_backed_swap_out writes   *)
(* a dirty writable page back through page->frame.  Both read the dirty    *)
(* bit and clear the mapping in the pml4 of the current thread, which is  *)
(* the faulting process p, not necessarily the victim's owner.            *)
(***************************************************************************)
(* Mutant: vm_evict_frame forgets to clear page->frame. *)
UnlinkSkipped(pages, vp, vva) == pages

(* vm_evict_frame: page->frame = NULL (frame->page is dropped with the    *)
(* table entry).                                                          *)
Unlink(pages, vp, vva) == [pages EXCEPT ![vp][vva].frame = NULL]

(* Mutant: swap_out leaves the victim's mapping in place. *)
ClearMappingSkipped(pt, p, va) == pt

(* pml4_clear_page(thread_current()->pml4, page->va) in swap_out. *)
ClearMapping(pt, p, va) == [pt EXCEPT ![p][va] = NULL]

(* anon_swap_out reads the page from its user address page->va through   *)
(* the pml4 of the current thread p.  Where p maps nothing there the read *)
(* faults inside the kernel, and vm_try_handle_fault runs for p (user     *)
(* false, so rsp is p's user_rsp, 0 in a fork child that never made a     *)
(* syscall).  With no page of p at va the fault fails and the kernel      *)
(* faults.  With one, vm_do_claim_page calls vm_get_frame, which has no   *)
(* free page and scans the table the victim has already left: no victim   *)
(* trips ASSERT (frame != NULL), a frame with no page faults the scan.   *)
(* A nested eviction that finds a victim, and a nested stack growth, are  *)
(* not followed: those behaviours are left out.                           *)
NestedFault(p, vva, rest, pages) ==
    LET j == SelectInSeq(rest, LAMBDA e : ~Skipped(e)) IN
    \/ /\ pages[p][vva] = NULL
       /\ vva \notin StackVAs \/ status[p] = "fork"
       /\ KernelFault("evict_fault")
    \/ /\ pages[p][vva] # NULL /\ j = 0
       /\ KernelFault("assert")
    \/ /\ pages[p][vva] # NULL /\ j # 0 /\ rest[j].page = NULL
       /\ KernelFault("scan_null")

DoClaim(p, va, pages) ==
    \/ \E k \in freeKvas :
         /\ freeKvas' = freeKvas \ {k}
         /\ ClaimInto(p, va, k, ftable, pages, swapTable, sdata, pml4,
                      [fdata EXCEPT ![k] = 0])
    \/ /\ freeKvas = {}
       /\ UNCHANGED freeKvas
       /\ LET i == VictimAt IN
          IF i = 0 THEN KernelFault("assert")             \* ASSERT (frame != NULL)
          ELSE IF ftable[i].page = NULL THEN KernelFault("scan_null")
          ELSE
          LET vp == ftable[i].page[1]
              vva == ftable[i].page[2]
              k == ftable[i].kva
              victim == pages[vp][vva]
              rest == RemoveAt(ftable, i)
              unlinked == Unlink(pages, vp, vva)
              s == FirstFreeSlot
              cleared == ClearMapping(pml4, p, vva)
          IN
          CASE NoFile(victim) ->  \* file_backed_swap_out returns false: mapping kept
                 ClaimInto(p, va, k, rest, unlinked, swapTable, sdata, pml4, fdata)
            [] victim.type = "file" /\ victim.writable /\ dirty[p][vva] ->
                 KernelFault("wb_null")   \* page->frame->kva with page->frame = NULL
            [] victim.type = "anon" /\ s = 0 ->  \* swap table full: nothing saved or cleared
                 ClaimInto(p, va, k, rest, unlinked, swapTable, sdata, pml4, fdata)
            [] victim.type = "anon" /\ pml4[p][vva] = NULL ->
                 NestedFault(p, vva, rest, unlinked)
            [] victim.type = "anon" ->
                 ClaimInto(p, va, k, rest, [unlinked EXCEPT ![vp][vva].slot = s],
                           [swapTable EXCEPT ![s] = <<vp, vva>>],
                           [sdata EXCEPT ![s] = fdata[pml4[p][vva]]],
                           cleared, fdata)
            [] OTHER ->
                 ClaimInto(p, va, k, rest, unlinked, swapTable, sdata, cleared, fdata)

-----------------------------------------------------------------------------
(***************************************************************************)
(* Page creation.  vm_alloc_page_with_initializer inserts an uninit page  *)
(* if va is free.  Its callers are load_segment (lazy anonymous pages,    *)
(* filled from the executable), do_mmap (file pages) and vm_stack_growth. *)
(***************************************************************************)
AllocLazyAnon(p, va, w) ==
    /\ Running(p)
    /\ allocs < MaxAllocs
    /\ spt[p][va] = NULL
    /\ va \notin StackVAs
    /\ spt' = [spt EXCEPT ![p][va] = NewPage("anon", FALSE, TRUE, w)]
    /\ allocs' = allocs + 1
    /\ UNCHANGED <<ftable, freeKvas, fdata, swapTable, sdata, pml4, dirty,
                   fileData, status, grow, crash, retry, forkVars>>

(* do_mmap of n pages at va: one VM_FILE uninit page per page.  The loop  *)
(* stops at the first page already in the SPT, closes the reopened file  *)
(* and returns NULL, leaving the pages it already inserted in place.      *)
Mmap(p, va, n, w) ==
    /\ Running(p)
    /\ allocs < MaxAllocs
    /\ va + n - 1 \in VAs \ StackVAs
    /\ LET range == va..(va + n - 1)
           taken == {x \in range : spt[p][x] # NULL}
           inserted == IF taken = {} THEN range
                       ELSE va..(CHOOSE x \in taken : \A y \in taken : x <= y) - 1
       IN spt' = [spt EXCEPT ![p] = [x \in VAs |->
                    IF x \in inserted
                    THEN [NewPage("file", FALSE, TRUE, w)
                          EXCEPT !.file = IF taken = {} THEN "open" ELSE "closed"]
                    ELSE spt[p][x]]]
    /\ allocs' = allocs + 1
    /\ UNCHANGED <<ftable, freeKvas, fdata, swapTable, sdata, pml4, dirty,
                   fileData, status, grow, crash, retry, forkVars>>

-----------------------------------------------------------------------------
(* A user store to a mapped writable page writes the frame the pml4 maps  *)
(* and sets the hardware dirty bit.                                       *)
Store(p, va, v) ==
    /\ Running(p)
    /\ pml4[p][va] # NULL
    /\ spt[p][va] # NULL /\ spt[p][va].writable
    /\ fdata' = [fdata EXCEPT ![pml4[p][va]] = v]
    /\ dirty' = [dirty EXCEPT ![p][va] = TRUE]
    /\ UNCHANGED <<spt, ftable, freeKvas, swapTable, sdata, pml4, fileData,
                   status, grow, allocs, crash, retry, forkVars>>

Kill(p) ==
    /\ status' = [status EXCEPT ![p] = "dying"]
    /\ retry' = [retry EXCEPT ![p] = NULL]
    /\ UNCHANGED <<spt, ftable, freeKvas, fdata, swapTable, sdata, pml4, dirty,
                   fileData, grow, allocs, crash, forkVars>>

(***************************************************************************)
(* vm_try_handle_fault for an access of p to va.  A present fault is a    *)
(* write to a read-only page and fails.  A not-present fault inside the   *)
(* stack window that passes the rsp heuristic (nearRsp) runs              *)
(* vm_stack_growth and returns true whatever the loop did; otherwise the  *)
(* SPT page is claimed.  A failed fault kills the process; on true the    *)
(* process re-executes the access (retry).  A growth counts against        *)
(* MaxAllocs when the access is new (fresh); re-executing it is the same   *)
(* call, and finds every page up to USER_STACK already created.            *)
(***************************************************************************)
Fault(p, va, write, nearRsp, fresh) ==
    \/ /\ pml4[p][va] # NULL                    \* present: write to read-only page
       /\ write /\ ~spt[p][va].writable
       /\ Kill(p)
    \/ /\ pml4[p][va] = NULL
       /\ IF nearRsp /\ va \in StackVAs
          THEN /\ grow' = [grow EXCEPT ![p] = va]
               /\ retry' = [retry EXCEPT ![p] = <<va, write, nearRsp>>]
               /\ fresh => allocs < MaxAllocs
               /\ allocs' = IF fresh THEN allocs + 1 ELSE allocs
               /\ UNCHANGED <<spt, ftable, freeKvas, fdata, swapTable, sdata, pml4,
                              dirty, fileData, status, crash, forkVars>>
          ELSE IF spt[p][va] = NULL \/ (write /\ ~spt[p][va].writable)
          THEN Kill(p)
          ELSE /\ DoClaim(p, va, spt)
               /\ IF ClaimFails(p, va)
                  THEN /\ status' = [status EXCEPT ![p] = "dying"]
                       /\ retry' = [retry EXCEPT ![p] = NULL]
                  ELSE /\ retry' = [retry EXCEPT ![p] = <<va, write, nearRsp>>]
                       /\ UNCHANGED status
               /\ UNCHANGED <<fileData, grow, allocs, forkVars>>

(* A user access of a running process that traps. *)
Access(p, va, write, nearRsp) == Running(p) /\ Fault(p, va, write, nearRsp, TRUE)

(* The access is carried out by the hardware without a fault. *)
Completes(p, va, write) == pml4[p][va] # NULL /\ (write => spt[p][va].writable)

(* After the fault returned true the process re-executes the same access, *)
(* with the same rsp: it completes, or faults again.                      *)
Retry(p) ==
    /\ status[p] = "run" /\ grow[p] = 0 /\ crash = "none" /\ retry[p] # NULL
    /\ LET r == retry[p] IN
       IF Completes(p, r[1], r[2])
       THEN /\ retry' = [retry EXCEPT ![p] = NULL]
            /\ UNCHANGED <<spt, ftable, freeKvas, fdata, swapTable, sdata, pml4,
                           dirty, fileData, status, grow, allocs, crash, forkVars>>
       ELSE Fault(p, r[1], r[2], r[3], FALSE)

(* One iteration of the vm_stack_growth loop: a missing page becomes an   *)
(* anonymous VM_MARKER_0 page and is claimed at once (the result of       *)
(* vm_claim_page is ignored); the loop ends at USER_STACK.                 *)
(* Mutant: the loop runs while p <= USER_STACK. *)
NextStackPagePastTop(va) == IF va <= NVA THEN va + 1 ELSE 0

(* The loop variable of vm_stack_growth after page va; 0 once it reaches *)
(* USER_STACK.                                                            *)
NextStackPage(va) == IF va < NVA THEN va + 1 ELSE 0

(* Mutant: the new stack page is inserted but never claimed. *)
StackGrowthStepNoClaim(p) ==
    /\ status[p] = "run" /\ crash = "none"
    /\ grow[p] # 0
    /\ LET va == grow[p] IN
       /\ grow' = [grow EXCEPT ![p] = NextStackPage(va)]
       /\ spt' = IF spt[p][va] # NULL THEN spt
                 ELSE [spt EXCEPT ![p][va] = NewPage("anon", TRUE, FALSE, TRUE)]
    /\ UNCHANGED <<ftable, freeKvas, fdata, swapTable, sdata, pml4, dirty, crash,
                   fileData, status, allocs, retry, forkVars>>

StackGrowthStep(p) ==
    /\ status[p] = "run" /\ crash = "none"
    /\ grow[p] # 0
    /\ LET va == grow[p] IN
       /\ grow' = [grow EXCEPT ![p] = NextStackPage(va)]
       /\ IF spt[p][va] # NULL
          THEN UNCHANGED <<spt, ftable, freeKvas, fdata, swapTable, sdata, pml4, dirty, crash>>
          ELSE DoClaim(p, va, [spt EXCEPT ![p][va] = NewPage("anon", TRUE, FALSE, TRUE)])
    /\ UNCHANGED <<fileData, status, allocs, retry, forkVars>>

(***************************************************************************)
(* Destroying a page (spt_remove_page / supplemental_page_table_kill ->    *)
(* destroy).  file_backed_destroy writes a dirty writable page back,       *)
(* clears the mapping and frees the frame's kva but leaves frame->page     *)
(* pointing at the freed page; anon_destroy sets frame->page = NULL and    *)
(* frees the kva but keeps its swap slot.  Neither removes the frame from *)
(* frame_table.  file_backed_destroy of a page with no file returns at     *)
(* once: its kva is never freed.                                           *)
(***************************************************************************)
Destroyed(p, gone, e) ==
    IF e.page \in {p} \X gone /\ e.kva # NULL
    THEN IF NoFile(spt[p][e.page[2]]) THEN [e EXCEPT !.page = FREED]
         ELSE [kva |-> NULL,
               page |-> IF spt[p][e.page[2]].type = "file" THEN FREED ELSE NULL]
    ELSE e

(* write_back_if_dirty of a writable file page whose pml4 entry is dirty *)
(* reads page->frame->kva; another process's eviction leaves the owner's  *)
(* dirty bit set and page->frame NULL.                                     *)
StaleWriteBack(p, gone) ==
    \E x \in gone : /\ spt[p][x].type = "file" /\ ~NoFile(spt[p][x])
                    /\ spt[p][x].writable /\ dirty[p][x] /\ spt[p][x].frame = NULL

DestroyPages(p, gone) ==
    LET resident == {x \in gone : spt[p][x].frame # NULL /\ ~NoFile(spt[p][x])}
        written == {x \in resident : spt[p][x].type = "file" /\ spt[p][x].writable
                                     /\ dirty[p][x]}
    IN
    IF StaleWriteBack(p, gone) THEN KernelFault("wb_null") /\ UNCHANGED fileData ELSE
    /\ crash' = crash
    /\ spt' = [spt EXCEPT ![p] = [x \in VAs |-> IF x \in gone THEN NULL ELSE spt[p][x]]]
    /\ ftable' = [j \in 1..Len(ftable) |-> Destroyed(p, gone, ftable[j])]
    /\ freeKvas' = freeKvas \cup {spt[p][x].frame : x \in resident}
    /\ fileData' = [pg \in PageIds |->
                      IF pg[1] = p /\ pg[2] \in written
                      THEN fdata[spt[p][pg[2]].frame] ELSE fileData[pg]]
    /\ swapTable' = [s \in Slots |-> IF swapTable[s] \in {p} \X gone
                                     THEN FREED ELSE swapTable[s]]
    /\ pml4' = [pml4 EXCEPT ![p] = [x \in VAs |-> IF x \in gone THEN NULL ELSE pml4[p][x]]]
    /\ dirty' = [dirty EXCEPT ![p] = [x \in VAs |-> IF x \in gone THEN FALSE ELSE dirty[p][x]]]

(* do_munmap stops at a page whose file_page.file reads NULL.  For pages  *)
(* that are not file pages this word is the start of the other union      *)
(* member: uninit.init (NULL for pages created without an initializer:    *)
(* stack pages and fork's copies of loaded pages) or, for an anonymous    *)
(* page, init's upper half next to slot_index (NULL only for such a page  *)
(* in slot index 0).                                                       *)
FileWordNull(pg) ==
    CASE pg.type = "file" -> pg.file = "none"
      [] pg.type = "uninit" -> ~pg.init
      [] OTHER -> ~pg.init /\ pg.slot = 1

(* munmap(va): do_munmap walks the SPT from va, writing back and removing *)
(* every page until a missing page or a NULL file word.  The write-back   *)
(* of a dirty writable page that is not a file page dereferences its      *)
(* file word as a struct file.                                            *)
Munmap(p, va) ==
    /\ Running(p)
    /\ spt[p][va] # NULL
    /\ LET run == {x \in va..NVA : \A y \in va..x : spt[p][y] # NULL
                                                   /\ ~FileWordNull(spt[p][y])}
       IN IF \E x \in run : spt[p][x].type = "anon" /\ spt[p][x].writable /\ dirty[p][x]
          THEN KernelFault("bad_file") /\ UNCHANGED fileData
          ELSE /\ DestroyPages(p, run)
               /\ UNCHANGED <<sdata, fdata>>
    /\ UNCHANGED <<status, grow, allocs, retry, forkVars>>

(* exit, or the kill after a failed fault: process_exit runs              *)
(* supplemental_page_table_kill, destroying every page, and the pml4 goes. *)
Exit(p) ==
    /\ status[p] \in {"run", "dying"} /\ grow[p] = 0 /\ retry[p] = NULL
    /\ ~Blocked(p) /\ crash = "none"
    /\ DestroyPages(p, {x \in VAs : spt[p][x] # NULL})
    /\ status' = IF crash' = "none" THEN [status EXCEPT ![p] = "exited"] ELSE status
    /\ UNCHANGED <<sdata, fdata, grow, allocs, retry, forkVars>>

-----------------------------------------------------------------------------
(***************************************************************************)
(* fork.  The parent sleeps while the child thread copies the parent's    *)
(* SPT with supplemental_page_table_copy, one hash entry per step in hash *)
(* order (any order); other processes run in between.  An uninit page is  *)
(* copied as an uninit page, its aux deep-copied with file_reopen.  A     *)
(* loaded page is created again without initializer or aux, claimed in    *)
(* the child (vm_get_frame may evict any frame, the parent's included),   *)
(* and then filled by memcpy from src_page->frame->kva.                   *)
(***************************************************************************)
ForkStart(p, c) ==
    /\ Running(p)
    /\ status[c] = "unborn"
    /\ status' = [status EXCEPT ![c] = "fork"]
    /\ forkSrc' = [forkSrc EXCEPT ![c] = p]
    /\ toCopy' = [toCopy EXCEPT ![c] = {va \in VAs : spt[p][va] # NULL}]
    /\ UNCHANGED <<spt, ftable, freeKvas, fdata, swapTable, sdata, pml4, dirty,
                   fileData, grow, allocs, crash, retry, copyVa>>

Copying(c) == status[c] = "fork" /\ copyVa[c] = 0 /\ crash = "none"

(* An uninit page: file_reopen of a freed struct file reads freed memory. *)
CopyUninit(c, va) ==
    /\ Copying(c) /\ va \in toCopy[c]
    /\ LET par == forkSrc[c]
           src == spt[par][va]
       IN /\ src.type = "uninit"
          /\ toCopy' = [toCopy EXCEPT ![c] = @ \ {va}]
          /\ IF src.init /\ src.file = "closed"
             THEN KernelFault("fork_uaf") /\ UNCHANGED fileData
             ELSE /\ spt' = [spt EXCEPT ![c][va] =
                               NewPage(src.target, src.stack, src.init, src.writable)]
                  /\ fileData' = IF src.init
                                 THEN [fileData EXCEPT ![<<c, va>>] = fileData[<<par, va>>]]
                                 ELSE fileData
                  /\ UNCHANGED <<ftable, freeKvas, fdata, swapTable, sdata, pml4,
                                 dirty, crash>>
    /\ UNCHANGED <<status, grow, allocs, retry, forkSrc, copyVa>>

(* A loaded page: vm_alloc_page_with_initializer(type, va, writable, NULL, *)
(* NULL) then vm_claim_page(va); the type drops VM_MARKER_0.               *)
CopyClaim(c, va) ==
    /\ Copying(c) /\ va \in toCopy[c]
    /\ LET src == spt[forkSrc[c]][va] IN
       /\ src.type # "uninit"
       /\ toCopy' = [toCopy EXCEPT ![c] = @ \ {va}]
       /\ copyVa' = [copyVa EXCEPT ![c] = va]
       /\ DoClaim(c, va, [spt EXCEPT ![c][va] = NewPage(src.type, FALSE, FALSE, src.writable)])
    /\ UNCHANGED <<fileData, status, grow, allocs, retry, forkSrc>>

(* Mutant: the copy of a loaded page leaves out the memcpy. *)
CopyDataSkipped(c) ==
    /\ status[c] = "fork" /\ copyVa[c] # 0 /\ crash = "none"
    /\ copyVa' = [copyVa EXCEPT ![c] = 0]
    /\ UNCHANGED <<spt, ftable, freeKvas, fdata, swapTable, sdata, pml4, dirty,
                   fileData, status, grow, allocs, crash, retry, forkSrc, toCopy>>

(* memcpy(dst_page->frame->kva, src_page->frame->kva, PGSIZE), with the   *)
(* frames read now: either page may have lost its frame to eviction.       *)
CopyData(c) ==
    /\ status[c] = "fork" /\ copyVa[c] # 0 /\ crash = "none"
    /\ LET va == copyVa[c]
           src == spt[forkSrc[c]][va]
           dst == spt[c][va]
       IN IF src.frame = NULL \/ dst.frame = NULL
          THEN KernelFault("fork_null") /\ UNCHANGED copyVa
          ELSE /\ fdata' = [fdata EXCEPT ![dst.frame] = fdata[src.frame]]
               /\ copyVa' = [copyVa EXCEPT ![c] = 0]
               /\ UNCHANGED <<spt, ftable, freeKvas, swapTable, sdata, pml4, dirty, crash>>
    /\ UNCHANGED <<fileData, status, grow, allocs, retry, forkSrc, toCopy>>

(* The copy returns true: the child starts running and the parent wakes. *)
CopyDone(c) ==
    /\ Copying(c) /\ toCopy[c] = {}
    /\ status' = [status EXCEPT ![c] = "run"]
    /\ forkSrc' = [forkSrc EXCEPT ![c] = NULL]
    /\ UNCHANGED <<spt, ftable, freeKvas, fdata, swapTable, sdata, pml4, dirty,
                   fileData, grow, allocs, crash, retry, toCopy, copyVa>>

(* The machine has stopped: every process exited or was never forked, or  *)
(* the kernel faulted.                                                      *)
Halted ==
    /\ crash # "none" \/ \A p \in Procs : status[p] \in {"exited", "unborn"}
    /\ UNCHANGED kernelVars

MmapPages == 1..2

Next ==
    \/ \E p \in Procs, va \in VAs, v \in Values :
         Store(p, va, v) /\ lastStore' = <<p, va>>
    \/ /\ \/ \E p \in Procs :
              \/ \E va \in VAs, w \in BOOLEAN : AllocLazyAnon(p, va, w)
              \/ \E va \in VAs, n \in MmapPages, w \in BOOLEAN : Mmap(p, va, n, w)
              \/ \E va \in VAs, write, nearRsp \in BOOLEAN : Access(p, va, write, nearRsp)
              \/ Retry(p)
              \/ StackGrowthStep(p)
              \/ \E va \in VAs : Munmap(p, va)
              \/ Exit(p)
              \/ \E c \in Procs : ForkStart(p, c)
              \/ \E va \in VAs : CopyUninit(p, va) \/ CopyClaim(p, va)
              \/ CopyData(p)
              \/ CopyDone(p)
          \/ Halted
       /\ lastStore' = NULL

Spec == Init /\ [][Next]_vars

(* A process that is not asleep is scheduled again (the ready queue of the *)
(* preemptive round-robin scheduler): the re-executed access and the       *)
(* kernel's own stack-growth loop, both run by the process itself, are     *)
(* weakly fair.  User code (stores, syscalls, new accesses) is not.        *)
Fairness ==
    \A p \in Procs : /\ WF_vars(Retry(p) /\ lastStore' = NULL)
                    /\ WF_vars(StackGrowthStep(p) /\ lastStore' = NULL)

FairSpec == Spec /\ Fairness

-----------------------------------------------------------------------------
(* What a process sees at va: the frame its pml4 maps, or else what a     *)
(* fault would load: the frame the page is linked to, its swap slot, zero *)
(* for a fresh stack page or an anonymous page with nothing saved, and    *)
(* otherwise its file block (an mmap'd file or the executable).           *)
Content(p, va) ==
    LET pg == spt[p][va] IN
    CASE pml4[p][va] # NULL -> fdata[pml4[p][va]]
      [] pg.frame # NULL -> fdata[pg.frame]
      [] pg.type = "anon" /\ pg.slot # NULL -> sdata[pg.slot]
      [] pg.type = "anon" \/ ~pg.init -> 0
      [] OTHER -> fileData[<<p, va>>]

(* A child's address space is its own once fork has returned in it.  A   *)
(* mem of NULL at a page is Unmapped.                                       *)
UserView == [p \in Procs |-> [va \in VAs |->
                IF spt[p][va] = NULL \/ status[p] \in {"unborn", "fork"} THEN NULL
                ELSE Content(p, va)]]

UM == INSTANCE UserMemory WITH mem <- UserView, lastStore <- lastStore, Unmapped <- NULL,
                              born <- {p \in Procs : status[p] \notin {"unborn", "fork"}}

(* Data integrity.  Everything a process observes in its address space    *)
(* changes only by its own stores or by pages appearing and disappearing: *)
(* eviction, swap-out, swap-in, write-back and lazy loading (vm_evict_frame,*)
(* anon_swap_out/in, file_backed_swap_out/in, vm_stack_growth) are          *)
(* invisible.                                                               *)
DataPreserved == UM!Spec

(* Isolation.  Every hardware mapping of a process points at the frame    *)
(* its own page at that address is linked to: after eviction no pml4 can  *)
(* still reach a frame that was handed to another page (vm_evict_frame,   *)
(* anon_swap_out and file_backed_swap_out clearing the mapping).           *)
MappingCoherent ==
    \A p \in Procs, va \in VAs :
        pml4[p][va] # NULL => spt[p][va] # NULL /\ spt[p][va].frame = pml4[p][va]

(* page->frame and frame->page agree: a page linked to kva k is the page  *)
(* of the one frame_table entry holding k, and a table entry naming a live *)
(* page is the frame that page is linked to (vm_do_claim_page linking,      *)
(* vm_evict_frame unlinking).                                               *)
FrameLinks ==
    /\ \A p \in Procs, va \in VAs :
         spt[p][va] # NULL /\ spt[p][va].frame # NULL =>
            \E j \in 1..Len(ftable) :
               /\ ftable[j] = [kva |-> spt[p][va].frame, page |-> <<p, va>>]
               /\ \A j2 \in 1..Len(ftable) : ftable[j2].kva = ftable[j].kva => j2 = j
    /\ \A j \in 1..Len(ftable) :
         ftable[j].page \in PageIds => Page(ftable[j].page).frame = ftable[j].kva

(* Swap slot ownership: a live anonymous page that records slot s is the  *)
(* one page the swap table marks in s, and a slot marked with a live page *)
(* is that page's slot (anon_swap_out taking a slot, anon_swap_in freeing  *)
(* it).                                                                     *)
SwapOwnership ==
    /\ \A p \in Procs, va \in VAs :
         spt[p][va] # NULL /\ spt[p][va].slot # NULL =>
            swapTable[spt[p][va].slot] = <<p, va>>
    /\ \A s \in Slots :
         swapTable[s] \in PageIds =>
            Page(swapTable[s]) # NULL /\ Page(swapTable[s]).slot = s

(* The kernel never faults or panics while handling user memory: no NULL  *)
(* frame->page in vm_get_victim, no ASSERT in vm_get_frame, no write-back *)
(* through a cleared page->frame, no read through a closed file.           *)
NoKernelFault == crash = "none"

(* A stack page reads as zero until the process writes it: vm_stack_growth *)
(* claims each new page into whatever frame vm_get_frame returns, and       *)
(* anon_initializer writes nothing, so the frame must already be zero.      *)
(* Stack frames are never evicted, so the dirty bit is set exactly when the *)
(* process has stored into the page since it was claimed.                   *)
FreshStackZeroed ==
    \A p \in Procs, va \in VAs :
        /\ spt[p][va] # NULL /\ spt[p][va].stack
        /\ pml4[p][va] # NULL /\ ~dirty[p][va]
        => fdata[pml4[p][va]] = 0

(* Every frame in frame_table belongs to a live page: the victim scan of  *)
(* vm_get_victim reads frame->page->uninit.type of every frame it passes,  *)
(* so destroy and failed claims must not leave ownerless frames behind.    *)
FramesOwned ==
    \A j \in 1..Len(ftable) :
        ftable[j].page \in PageIds /\ Page(ftable[j].page) # NULL

(* Eviction never faults the kernel: vm_get_frame always gets a frame back *)
(* from vm_evict_frame, and neither the FIFO scan of vm_get_victim nor the  *)
(* swap_out of the victim dereferences a NULL pointer.                      *)
EvictionSafe == crash \notin {"scan_null", "wb_null", "assert"}

(* A swap slot is released when the page holding it goes away: no slot    *)
(* stays marked with a freed page (anon_destroy, supplemental_page_table_kill). *)
SwapSlotsReclaimed == \A s \in Slots : swapTable[s] # FREED

(* munmap removes only mmap'd pages: an anonymous page (lazy segment or   *)
(* stack) disappears only when its process exits (do_munmap's loop).      *)
MunmapOnlyFilePages ==
    [][\A p \in Procs, va \in VAs :
         spt[p][va] # NULL /\ spt[p][va].target = "anon" /\ spt'[p][va] = NULL
            => status'[p] = "exited"]_vars
(* A faulting access completes: once vm_try_handle_fault has returned     *)
(* true, re-executing the access eventually succeeds, unless the kernel   *)
(* stops.  The handler must not report success without mapping the page: *)
(* vm_stack_growth skips a page that exists, and vm_try_handle_fault      *)
(* returns true after it (vm.c:252-254) even when that page is not in     *)
(* memory.                                                                 *)
FaultsComplete ==
    \A p \in Procs : retry[p] # NULL ~> (retry[p] = NULL \/ crash # "none")

(* fork copies every page of the parent without a kernel fault: the copy  *)
(* of a loaded page reads src_page->frame->kva after claiming the child's *)
(* page and must never find either page without a frame, and the copy of  *)
(* an uninit page must never reopen a struct file that is already closed.  *)
ForkCopySafe == crash \notin {"fork_null", "fork_uaf"}
=============================================================================
