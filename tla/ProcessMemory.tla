---------------------------- MODULE ProcessMemory ---------------------------
(***************************************************************************)
(* The memory of one guest process from load to unload: the bootstrap and  *)
(* teardown of process.c, the memory SVCs of svc_memory.c and the TLS      *)
(* pages of tls.c, over the page allocator (PageAllocator.tla, every call  *)
(* an action of that module) and the VMM, which is the flat map of         *)
(* GuestPages.tla here because VMM.tla implements it.  Addresses are page  *)
(* numbers.                                                                *)
(*                                                                         *)
(* A handler that calls the allocator once is one action.  The handlers    *)
(* that call it repeatedly are a sequence of actions, one per call: `call` *)
(* says which handler is inside and how far it got, and nothing else runs  *)
(* meanwhile, for the core has one thread.                                 *)
(***************************************************************************)
EXTENDS GuestPages, FiniteSets, Sequences

CONSTANTS
  PageCount, MaxFreeRuns,   \* of the page allocator
  L2Entries, TableCapacity, \* guest pages per L2 table, and tables in the pool
  Modules,                  \* the NSOs in load order: pages of text, rodata, data
  CodeBase,                 \* where the first module goes
  Heap, Stack, TlsIo,       \* the regions, [base, size]
  GuardPages,               \* PROCESS_STACK_GUARD_PAGES
  MainStackSize,            \* main_thread_stack_size of the npdm
  Granule,                  \* PROCESS_HEAP_SIZE_GRANULE
  MaxLoans,                 \* PROCESS_MAX_HEAP_BORROWS
  BlocksPerPage,            \* TLS_BLOCKS_PER_PAGE
  MaxTlsPages,              \* TLS_MAX_PAGES
  PageArgs,                 \* the guest pages passed as arguments to SVCs
  TrackedFrames             \* the frames whose contents are followed

VARIABLES
  used, free_run_count, free_runs, held, result,   \* the page allocator
  page,          \* the guest page map
  module_count, main_thread_stack,  \* what process_teardown will unmap
  heap_size,
  heap_borrows,  \* sequence of [dst_base, src_base, size], at most MaxLoans
  tls,           \* used_mask of each TLS page mapped so far
  call,          \* the handler in progress
  reply,         \* what the last call returned
  lost,          \* history: backing pages whose only owner dropped them
  stain          \* one tracked frame that may hold an earlier owner's bytes, or NoPage

framesVars  == <<used, free_run_count, free_runs, held, result>>
processVars == <<module_count, main_thread_stack, heap_size, heap_borrows, tls>>
vars == <<framesVars, page, processVars, call, reply, lost, stain>>

ASSUME SizesAssumption ==
  /\ {PageTotal, MaxFreeRuns, CodeBase, GuardPages, MainStackSize, MaxLoans} \subseteq Nat
  /\ {PageCount, Granule, BlocksPerPage, MaxTlsPages} \subseteq Nat \ {0}
  /\ Modules \in Seq([text : Nat, rodata : Nat, data : Nat]) /\ Modules # <<>>
  /\ {Heap, Stack, TlsIo} \subseteq [base : Nat, size : Nat \ {0}]
  /\ PageArgs \subseteq Nat

Frames == INSTANCE PageAllocator

RW == {"R", "W"}
NoPage == -1
NoRegion == [base |-> 0, size |-> 0]

At(where) == call.at = where
Inside(where) == [at |-> where]

RegionPages(r) == FlatRange(r.base, r.size)
(* address_region_contains *)
Contains(r, v, n) == v >= r.base /\ v - r.base <= r.size /\ n <= r.size - (v - r.base)

-----------------------------------------------------------------------------
(* The VMM and the allocator as the handlers see them. *)

TablesFor(vs) == {v \div L2Entries : v \in vs}
MappedPages(m) == {v \in Pages : m[v] # Unmapped}

(* vmm_map accepts: the range is free and the missing tables are there. *)
MapOk(m, v, n) ==
  /\ InSpace(v, n) /\ AllHoles(m, v, n)
  /\ Cardinality(TablesFor(MappedPages(m) \cup FlatRange(v, n))) <= TableCapacity

(* vmm_guest_to_host with VMM_PERM_R: readable, and contiguous behind. *)
ReadableRun(v, n) ==
  \A w \in FlatRange(v, n) :
    "R" \in page[w].perms /\ page[w].pa = page[v].pa + (w - v)

AllocOk(n) == Frames!AllocateFromFreelist(n) \/ Frames!AllocateFromCursor(n)
AllocFails(n) == Frames!AllocateExhausted(n) \/ Frames!AllocateCommitFails(n)
NewFrames == held' \ held
FirstNew == CHOOSE pa \in NewFrames : \A other \in NewFrames : pa <= other

FreeOk(pa, n) ==
  Frames!FreeAtCursor(pa, n) \/ Frames!FreeCoalesced(pa, n) \/ Frames!FreePushed(pa, n)
FreeFails(pa, n) == Frames!FreeListFull(pa, n) \/ Frames!FreeRejected(pa, n)

(* The old bytes of a recycled page survive when a fresh range is not zeroed. *)
Unzeroed(pa, n) == stain                                           \* mutant
(* memset over a fresh range, through the RW mapping. *)
Zeroed(pa, n) == IF stain \in FlatRange(pa, n) THEN NoPage ELSE stain
(* The same, and then the segments of an image. *)
Filled(pa, n) ==
  {Zeroed(pa, n)} \cup
  (IF Zeroed(pa, n) = NoPage THEN FlatRange(pa, n) \cap TrackedFrames ELSE {})

-----------------------------------------------------------------------------
Cleared ==   \* memset(process, 0, sizeof *process)
  /\ module_count' = 0 /\ main_thread_stack' = NoRegion
  /\ heap_size' = 0 /\ heap_borrows' = <<>> /\ tls' = <<>>

Init ==
  /\ Frames!Init
  /\ page = Nothing
  /\ module_count = 0 /\ main_thread_stack = NoRegion
  /\ heap_size = 0 /\ heap_borrows = <<>> /\ tls = <<>>
  /\ call = Inside("unloaded")
  /\ reply = "OK"
  /\ lost = {} /\ stain = NoPage

(* A failed SWITCH_ASSERT_ALWAYS: the emulator stops here. *)
Abort == call' = Inside("aborted") /\ UNCHANGED <<reply, lost, stain>>

-----------------------------------------------------------------------------
(* process_bootstrap.  `ranges` is its Mapping_List. *)

LoadProgram ==
  /\ At("unloaded")
  /\ call' = [at |-> "booting", ranges |-> {}]
  /\ UNCHANGED <<framesVars, page, processVars, reply, lost, stain>>

ImageSize(m) == Modules[m].text + Modules[m].rodata + Modules[m].data
ImagesBefore[m \in 1 .. Len(Modules)] ==
  IF m = 1 THEN CodeBase ELSE ImagesBefore[m - 1] + ImageSize(m - 1)
CodeEnd == ImagesBefore[Len(Modules)] + ImageSize(Len(Modules))

(* How address_space_init places the regions: AddressSpace.tla shows that  *)
(* each begins where the one before ends or later, all inside the space,   *)
(* and that the code region holds the sum of the images.                   *)
ASSUME RegionsInOrder ==
  /\ CodeEnd <= Heap.base
  /\ Heap.base + Heap.size <= Stack.base
  /\ Stack.base + Stack.size <= TlsIo.base
  /\ TlsIo.base + TlsIo.size <= PageTotal

Recorded(range) == [call EXCEPT !.ranges = @ \cup {range}]

(* load_module_image: the image is filled, then loses the rights to write  *)
(* its text and rodata.                                                    *)
ModuleImage(m, base, pa) ==
  LET filled == Mapped(page, base, ImageSize(m), pa, RW)
      coded  == Reprotected(filled, base, Modules[m].text, {"R", "X"})
  IN Reprotected(coded, base + Modules[m].text, Modules[m].rodata, {"R"})

BootModule ==
  /\ At("booting") /\ module_count < Len(Modules)
  /\ LET m == module_count + 1
         base == ImagesBefore[m]
     IN /\ AllocOk(ImageSize(m))
        /\ MapOk(page, base, ImageSize(m))
        /\ page' = ModuleImage(m, base, FirstNew)
        /\ stain' \in Filled(FirstNew, ImageSize(m))
        /\ call' = Recorded(<<base, ImageSize(m)>>)
  /\ module_count' = module_count + 1
  /\ UNCHANGED <<main_thread_stack, heap_size, heap_borrows, tls, reply, lost>>

(* nso_read_segment refuses a segment: the image is mapped and recorded. *)
BootModuleCorrupt ==
  /\ At("booting") /\ module_count < Len(Modules)
  /\ LET m == module_count + 1
         base == ImagesBefore[m]
     IN /\ AllocOk(ImageSize(m))
        /\ MapOk(page, base, ImageSize(m))
        /\ page' = Mapped(page, base, ImageSize(m), FirstNew, RW)
        /\ stain' \in Filled(FirstNew, ImageSize(m))
        /\ call' = [Recorded(<<base, ImageSize(m)>>) EXCEPT !.at = "unwinding"]
  /\ UNCHANGED <<processVars, reply, lost>>

(* Checked before anything is allocated: the size is the npdm's. *)
StackFits == Contains(Stack, Stack.base + GuardPages, MainStackSize)

BootStack ==
  /\ At("booting") /\ module_count = Len(Modules) /\ main_thread_stack = NoRegion
  /\ StackFits
  /\ LET base == Stack.base + GuardPages
     IN /\ AllocOk(MainStackSize)
        /\ MapOk(page, base, MainStackSize)
        /\ page' = Mapped(page, base, MainStackSize, FirstNew, RW)
        /\ stain' = Zeroed(FirstNew, MainStackSize)
        /\ main_thread_stack' = [base |-> base, size |-> MainStackSize]
        /\ call' = Recorded(<<base, MainStackSize>>)
  /\ UNCHANGED <<module_count, heap_size, heap_borrows, tls, reply, lost>>

(* The main thread takes the first TLS block, which is zeroed, the rest of *)
(* its page is not, and the program runs.                                  *)
BootTls ==
  /\ At("booting") /\ main_thread_stack # NoRegion
  /\ AllocOk(1)
  /\ MapOk(page, TlsIo.base, 1)
  /\ page' = Mapped(page, TlsIo.base, 1, FirstNew, RW)
  /\ tls' = <<{0}>>
  /\ call' = Inside("running")
  /\ reply' = "OK"
  /\ UNCHANGED <<module_count, main_thread_stack, heap_size, heap_borrows, lost, stain>>

(* The range the next boot step allocates and maps. *)
NextBoot ==
  IF module_count < Len(Modules)
  THEN <<ImagesBefore[module_count + 1], ImageSize(module_count + 1)>>
  ELSE IF main_thread_stack = NoRegion
       THEN <<Stack.base + GuardPages, MainStackSize>> ELSE <<TlsIo.base, 1>>

BootFails ==
  /\ At("booting")
  /\ IF module_count < Len(Modules) \/ main_thread_stack # NoRegion \/ StackFits
     THEN \/ AllocFails(NextBoot[2])
          \/ AllocOk(NextBoot[2]) /\ ~MapOk(page, NextBoot[1], NextBoot[2])
     ELSE UNCHANGED framesVars
  /\ call' = [call EXCEPT !.at = "unwinding"]
  /\ UNCHANGED <<page, processVars, reply, lost, stain>>

(* Ranges unmapped one by one, each whole or not at all. *)
Dropped(m, ranges) ==
  [v \in Pages |->
     IF \E r \in ranges : v \in FlatRange(r[1], r[2]) /\ AllMapped(m, r[1], r[2])
     THEN Unmapped ELSE m[v]]

TlsRanges == {<<TlsIo.base + p - 1, 1>> : p \in DOMAIN tls}

(* The fail: label, and emulator_load_program's reset of the allocator,    *)
(* which forgets who owns a frame and leaves what is in it.                *)
BootUnwinds ==
  /\ At("unwinding")
  /\ page' = Dropped(page, TlsRanges \cup call.ranges)
  /\ Frames!Reset
  /\ Cleared
  /\ call' = Inside("unloaded")
  /\ reply' = "LOAD_FAILED"
  /\ lost' = {} /\ UNCHANGED stain

-----------------------------------------------------------------------------
(* svcSetHeapSize *)

HeapEnd == Heap.base + heap_size

SetHeapSizeRefused(requested) ==
  /\ At("running")
  /\ \/ requested % Granule # 0 /\ reply' = "INVALID_SIZE"
     \/ requested % Granule = 0 /\ requested > Heap.size /\ reply' = "INVALID_MEMORY_RANGE"
  /\ UNCHANGED <<framesVars, page, processVars, call, lost, stain>>

SizeAccepted(requested) == requested % Granule = 0 /\ requested <= Heap.size

SetHeapSizeSame(requested) ==
  /\ At("running") /\ SizeAccepted(requested)
  /\ requested = heap_size
  /\ reply' = "OK"
  /\ UNCHANGED <<framesVars, page, processVars, call, lost, stain>>

GrowNoMemory(requested) ==
  /\ At("running") /\ SizeAccepted(requested)
  /\ requested > heap_size
  /\ AllocFails(requested - heap_size)
  /\ reply' = "OUT_OF_MEMORY"
  /\ UNCHANGED <<page, processVars, call, lost, stain>>

GrowAllocates(requested) ==
  /\ At("running") /\ SizeAccepted(requested)
  /\ requested > heap_size
  /\ AllocOk(requested - heap_size)
  /\ call' = [at |-> "growing", requested |-> requested, pa |-> FirstNew]
  /\ UNCHANGED <<page, processVars, reply, lost, stain>>

GrowMaps ==
  /\ At("growing")
  /\ LET n == call.requested - heap_size
     IN /\ MapOk(page, HeapEnd, n)
        /\ page' = Mapped(page, HeapEnd, n, call.pa, RW)
        /\ stain' = Zeroed(call.pa, n)
  /\ heap_size' = call.requested
  /\ call' = Inside("running")
  /\ reply' = "OK"
  /\ UNCHANGED <<framesVars, module_count, main_thread_stack, heap_borrows, tls, lost>>

GrowKeepsPages ==                                                  \* mutant
  /\ At("growing")
  /\ ~MapOk(page, HeapEnd, call.requested - heap_size)
  /\ call' = Inside("running")
  /\ reply' = "OUT_OF_MEMORY"
  /\ UNCHANGED <<framesVars, page, processVars, lost, stain>>

(* vmm_map refused: the pages go back. *)
GrowRollsBack ==
  /\ At("growing")
  /\ LET n == call.requested - heap_size
     IN /\ ~MapOk(page, HeapEnd, n)
        /\ FreeOk(call.pa, n)
  /\ call' = Inside("running")
  /\ reply' = "OUT_OF_MEMORY"
  /\ UNCHANGED <<page, processVars, lost, stain>>

LentAt(v, n) ==   \* borrow_overlaps_src
  \E i \in DOMAIN heap_borrows :
    FlatRange(v, n) \cap FlatRange(heap_borrows[i].src_base, heap_borrows[i].size) # {}

Shrinks(requested) ==
  At("running") /\ SizeAccepted(requested) /\ requested < heap_size

ShrinkOverLoan(requested) ==
  /\ Shrinks(requested)
  /\ LentAt(Heap.base + requested, heap_size - requested)
  /\ reply' = "INVALID_MEMORY_STATE"
  /\ UNCHANGED <<framesVars, page, processVars, call, lost, stain>>

ShrinkChecksFirstPage(requested) ==                                \* mutant
  Shrinks(requested) /\ ~LentAt(Heap.base + requested, 1)

ShrinkMayGo(requested) ==
  Shrinks(requested) /\ ~LentAt(Heap.base + requested, heap_size - requested)

(* vmm_unmap of the released tail. *)
HeapCutTo(requested) ==
  /\ page' = Holed(page, Heap.base + requested, heap_size - requested)
  /\ heap_size' = requested
  /\ call' = Inside("running")
  /\ reply' = "OK"
  /\ UNCHANGED <<module_count, main_thread_stack, heap_borrows, tls, lost, stain>>

(* The tail is one physical run: it is freed in one call. *)
ShrinkWhole(requested) ==
  /\ ShrinkMayGo(requested)
  /\ LET v == Heap.base + requested
         n == heap_size - requested
     IN ReadableRun(v, n) /\ FreeOk(page[v].pa, n)
  /\ HeapCutTo(requested)

(* It is not: it is freed page by page, and stays mapped until the end.    *)
(* `runs` remembers the length of the freelist.                            *)
ShrinkByPage(requested) ==
  /\ ShrinkMayGo(requested)
  /\ ~ReadableRun(Heap.base + requested, heap_size - requested)
  /\ call' = [at |-> "shrinking", requested |-> requested,
              next |-> Heap.base + requested, runs |-> free_run_count]
  /\ UNCHANGED <<framesVars, page, processVars, reply, lost, stain>>

ShrinkPage ==
  /\ At("shrinking") /\ call.next < HeapEnd
  /\ ReadableRun(call.next, 1)
  /\ FreeOk(page[call.next].pa, 1)
  /\ call' = [call EXCEPT !.next = @ + 1]
  /\ UNCHANGED <<page, processVars, reply, lost, stain>>

ShrinkEnds ==
  /\ At("shrinking") /\ call.next = HeapEnd
  /\ HeapCutTo(call.requested)
  /\ UNCHANGED framesVars

(* free_and_unmap_heap_range and the roll-back assert that frees succeed. *)
HeapFreeAborts ==
  /\ \/ /\ At("growing")
        /\ ~MapOk(page, HeapEnd, call.requested - heap_size)
        /\ FreeFails(call.pa, call.requested - heap_size)
     \/ \E requested \in 0 .. Heap.size :
          /\ ShrinkMayGo(requested)
          /\ ReadableRun(Heap.base + requested, heap_size - requested)
          /\ FreeFails(page[Heap.base + requested].pa, heap_size - requested)
     \/ /\ At("shrinking") /\ call.next < HeapEnd
        /\ IF ReadableRun(call.next, 1)
           THEN FreeFails(page[call.next].pa, 1) ELSE UNCHANGED framesVars
  /\ Abort
  /\ UNCHANGED <<page, processVars>>

-----------------------------------------------------------------------------
(* svcMapMemory and svcUnmapMemory *)

MapMemoryError(dst, src, n) ==
  CASE n = 0 -> "INVALID_SIZE"
    [] n # 0 /\ ~(Contains(Stack, dst, n) /\ Contains(Heap, src, n)) -> "INVALID_MEMORY_RANGE"
    [] OTHER -> IF Len(heap_borrows) >= MaxLoans THEN "OUT_OF_MEMORY"
                ELSE IF AllHoles(page, dst, n) /\ ReadableRun(src, n) THEN "OK"
                     ELSE "INVALID_MEMORY_STATE"

MapMemoryRefused(dst, src, n) ==
  /\ At("running")
  /\ MapMemoryError(dst, src, n) # "OK"
  /\ reply' = MapMemoryError(dst, src, n)
  /\ UNCHANGED <<framesVars, page, processVars, call, lost, stain>>

Loan(dst, src, n) == [dst_base |-> dst, src_base |-> src, size |-> n]

StillReadable(src, n) == Reprotected(page, src, n, {"R"})          \* mutant
(* The source loses every right before the alias is mapped. *)
Hidden(src, n) == Reprotected(page, src, n, {})

MapMemory(dst, src, n) ==
  /\ At("running")
  /\ MapMemoryError(dst, src, n) = "OK"
  /\ LET hidden == Hidden(src, n)
     IN /\ MapOk(hidden, dst, n)
        /\ page' = Mapped(hidden, dst, n, page[src].pa, RW)
  /\ heap_borrows' = Append(heap_borrows, Loan(dst, src, n))
  /\ reply' = "OK"
  /\ UNCHANGED <<framesVars, module_count, main_thread_stack, heap_size, tls, call, lost, stain>>

SourceStaysHidden(dst, src, n) ==                                  \* mutant
  /\ At("running")
  /\ MapMemoryError(dst, src, n) = "OK"
  /\ ~MapOk(Hidden(src, n), dst, n)
  /\ page' = Hidden(src, n)
  /\ reply' = "OUT_OF_MEMORY"
  /\ UNCHANGED <<framesVars, processVars, call, lost, stain>>

(* The alias finds no table: the source becomes readable and writable again. *)
MapMemoryRollsBack(dst, src, n) ==
  /\ At("running")
  /\ MapMemoryError(dst, src, n) = "OK"
  /\ LET hidden == Hidden(src, n)
     IN /\ ~MapOk(hidden, dst, n)
        /\ page' = Reprotected(hidden, src, n, RW)
  /\ reply' = "OUT_OF_MEMORY"
  /\ UNCHANGED <<framesVars, processVars, call, lost, stain>>

Matching(dst, src, n) == {i \in DOMAIN heap_borrows : heap_borrows[i] = Loan(dst, src, n)}

UnmapMemoryRefused(dst, src, n) ==
  /\ At("running")
  /\ Matching(dst, src, n) = {}
  /\ reply' = "INVALID_MEMORY_STATE"
  /\ UNCHANGED <<framesVars, page, processVars, call, lost, stain>>

LastEntryLost(i) ==                                                \* mutant
  [j \in 1 .. (Len(heap_borrows) - 1) |-> heap_borrows[j]]

(* The last entry takes the place of entry i. *)
SwapRemoved(i) ==
  [j \in 1 .. (Len(heap_borrows) - 1) |->
     IF j = i THEN heap_borrows[Len(heap_borrows)] ELSE heap_borrows[j]]

(* Its two VMM calls are asserted to succeed; LoanTableExact says they do. *)
UnmapMemory(dst, src, n) ==
  /\ At("running")
  /\ \E i \in Matching(dst, src, n) :
       /\ \A j \in Matching(dst, src, n) : i <= j
       /\ heap_borrows' = SwapRemoved(i)
  /\ page' = Reprotected(Holed(page, dst, n), src, n, RW)
  /\ reply' = "OK"
  /\ UNCHANGED <<framesVars, module_count, main_thread_stack, heap_size, tls, call, lost, stain>>

-----------------------------------------------------------------------------
(* svcQueryMemory, and the guest's own stores *)

TypeByLoanStart(v) ==                                              \* mutant
  IF page[v] = Unmapped THEN "UNMAPPED"
  ELSE IF v \in RegionPages(Heap)
       THEN IF LentAt(v, 1) THEN "WEIRD_MAPPED_MEM" ELSE "HEAP"
       ELSE IF \E i \in DOMAIN heap_borrows : v = heap_borrows[i].dst_base
            THEN "MAPPED_MEMORY" ELSE "NORMAL"

(* classify_type *)
TypeOf(v) ==
  CASE page[v] = Unmapped -> "UNMAPPED"
    [] page[v] # Unmapped /\ v >= CodeBase /\ v < CodeEnd -> "CODE_STATIC"
    [] page[v] # Unmapped /\ v \in RegionPages(Heap) ->
         IF LentAt(v, 1) THEN "WEIRD_MAPPED_MEM" ELSE "HEAP"
    [] page[v] # Unmapped /\ v \in RegionPages(Stack) ->
         IF \E i \in DOMAIN heap_borrows :
              v \in FlatRange(heap_borrows[i].dst_base, heap_borrows[i].size)
         THEN "MAPPED_MEMORY" ELSE "NORMAL"
    [] page[v] # Unmapped /\ v \in RegionPages(TlsIo) -> "THREAD_LOCAL"

(* A store to page v lands in its backing page. *)
Written(v) ==
  IF stain = NoPage THEN {NoPage} \cup ({page[v].pa} \cap TrackedFrames) ELSE {stain}

GuestStores(v) ==
  /\ At("running")
  /\ "W" \in page[v].perms
  /\ stain' \in Written(v) \ {stain}
  /\ UNCHANGED <<framesVars, page, processVars, call, reply, lost>>

(* The MemoryInfo is stored in the guest's memory like any other bytes.    *)
QueryMemory(out, v) ==
  /\ At("running")
  /\ IF v \notin Pages   \* beyond the address space
     THEN reply' = "INVALID_MEMORY_RANGE" /\ UNCHANGED stain
     ELSE IF out \notin Pages \/ "W" \notin page[out].perms
          THEN reply' = "INVALID_POINTER" /\ UNCHANGED stain
          ELSE reply' = "OK" /\ stain' \in Written(out)
  /\ UNCHANGED <<framesVars, page, processVars, call, lost>>

-----------------------------------------------------------------------------
(* thread_create and thread_destroy, as far as they touch guest memory *)

RoomOn(p) == (0 .. (BlocksPerPage - 1)) \ tls[p]
LowestFree(p, b) ==
  /\ b \in RoomOn(p) /\ \A c \in RoomOn(p) : b <= c
  /\ \A q \in 1 .. (p - 1) : RoomOn(q) = {}
TlsFull == \A p \in DOMAIN tls : RoomOn(p) = {}
MayAddTlsPage == Len(tls) < MaxTlsPages /\ Len(tls) < TlsIo.size

ThreadOnMappedPage ==
  /\ At("running")
  /\ \E p \in DOMAIN tls : \E b \in RoomOn(p) :
       LowestFree(p, b) /\ tls' = [tls EXCEPT ![p] = @ \cup {b}]
  /\ reply' = "OK"
  /\ UNCHANGED <<framesVars, page, module_count, main_thread_stack, heap_size, heap_borrows,
                 call, lost, stain>>

(* map_new_page, then block 0; or the CPU backend refuses the new thread   *)
(* and the block is given back, but the page stays.                        *)
ThreadOnNewPage ==
  /\ At("running") /\ TlsFull /\ MayAddTlsPage
  /\ AllocOk(1)
  /\ LET v == TlsIo.base + Len(tls)
     IN MapOk(page, v, 1) /\ page' = Mapped(page, v, 1, FirstNew, RW)
  /\ \/ tls' = Append(tls, {0}) /\ reply' = "OK"
     \/ tls' = Append(tls, {}) /\ reply' = "OUT_OF_MEMORY"
  /\ UNCHANGED <<module_count, main_thread_stack, heap_size, heap_borrows, call, lost, stain>>

(* map_new_page returns when vmm_map refuses, without the page it took. *)
ThreadLosesPage ==
  /\ At("running") /\ TlsFull /\ MayAddTlsPage
  /\ AllocOk(1)
  /\ ~MapOk(page, TlsIo.base + Len(tls), 1)
  /\ lost' = lost \cup NewFrames
  /\ reply' = "OUT_OF_MEMORY"
  /\ UNCHANGED <<page, processVars, call, stain>>

ThreadRefused ==
  /\ At("running") /\ TlsFull
  /\ IF MayAddTlsPage THEN AllocFails(1) ELSE UNCHANGED framesVars
  /\ reply' = "OUT_OF_MEMORY"
  /\ UNCHANGED <<page, processVars, call, lost, stain>>

(* The main thread, whose block is the first, is never destroyed. *)
ThreadDestroy(p, b) ==
  /\ At("running")
  /\ p \in DOMAIN tls /\ b \in tls[p] /\ <<p, b>> # <<1, 0>>
  /\ tls' = [tls EXCEPT ![p] = @ \ {b}]
  /\ reply' = "OK"
  /\ UNCHANGED <<framesVars, page, module_count, main_thread_stack, heap_size, heap_borrows,
                 call, lost, stain>>

-----------------------------------------------------------------------------
(* emulator_unload_program: process_teardown, then the allocator's reset *)

AliasesForgotten == {}                                             \* mutant
DstRanges == {<<heap_borrows[i].dst_base, heap_borrows[i].size>> : i \in DOMAIN heap_borrows}
SrcRanges == {<<heap_borrows[i].src_base, heap_borrows[i].size>> : i \in DOMAIN heap_borrows}
ImageRanges == {<<ImagesBefore[m], ImageSize(m)>> : m \in 1 .. module_count}
StackRanges == IF main_thread_stack.size > 0
               THEN {<<main_thread_stack.base, main_thread_stack.size>>} ELSE {}

(* unwind_heap_borrows gives the sources their rights back. *)
GivenBack(m, ranges) ==
  [v \in Pages |->
     IF \E r \in ranges : v \in FlatRange(r[1], r[2]) /\ AllMapped(m, r[1], r[2])
     THEN [m[v] EXCEPT !.perms = RW] ELSE m[v]]

Unload ==
  /\ At("running")
  /\ page' = GivenBack(Dropped(page, ImageRanges \cup StackRanges \cup DstRanges), SrcRanges)
  /\ call' = [at |-> "leaving", next |-> Heap.base]
  /\ UNCHANGED <<framesVars, processVars, reply, lost, stain>>

(* free_teardown_heap, which logs the frees that fail and goes on. *)
LeaveFreesWhole ==
  /\ At("leaving") /\ call.next = Heap.base /\ heap_size > 0
  /\ ReadableRun(Heap.base, heap_size)
  /\ Frames!Free(page[Heap.base].pa, heap_size)
  /\ call' = [call EXCEPT !.next = HeapEnd]
  /\ UNCHANGED <<page, processVars, reply, lost, stain>>

LeaveFreesPage ==
  /\ At("leaving") /\ call.next < HeapEnd
  /\ ~ReadableRun(Heap.base, heap_size)
  /\ IF ReadableRun(call.next, 1)
     THEN Frames!Free(page[call.next].pa, 1) ELSE UNCHANGED framesVars
  /\ call' = [call EXCEPT !.next = @ + 1]
  /\ UNCHANGED <<page, processVars, reply, lost, stain>>

LeaveEnds ==
  /\ At("leaving") /\ call.next = HeapEnd
  /\ page' = Dropped(page, TlsRanges \cup (IF heap_size > 0 THEN {<<Heap.base, heap_size>>} ELSE {}))
  /\ Frames!Reset
  /\ Cleared
  /\ call' = Inside("unloaded")
  /\ reply' = "OK"
  /\ lost' = {} /\ UNCHANGED stain

-----------------------------------------------------------------------------
Sizes == 0 .. (Heap.size + 1)

Next ==
  \/ LoadProgram \/ BootModule \/ BootModuleCorrupt \/ BootStack \/ BootTls
  \/ BootFails \/ BootUnwinds
  \/ \E requested \in Sizes :
       \/ SetHeapSizeRefused(requested) \/ SetHeapSizeSame(requested)
       \/ GrowNoMemory(requested) \/ GrowAllocates(requested)
       \/ ShrinkOverLoan(requested) \/ ShrinkWhole(requested) \/ ShrinkByPage(requested)
  \/ GrowMaps \/ GrowRollsBack \/ ShrinkPage \/ ShrinkEnds \/ HeapFreeAborts
  \/ \E dst, src \in PageArgs : \E n \in 0 .. Heap.size :
       \/ MapMemoryRefused(dst, src, n) \/ MapMemory(dst, src, n)
       \/ MapMemoryRollsBack(dst, src, n)
       \/ UnmapMemoryRefused(dst, src, n) \/ UnmapMemory(dst, src, n)
  \/ \E v \in Pages : GuestStores(v)
  \/ \E out, v \in PageArgs : QueryMemory(out, v)
  \/ ThreadOnMappedPage \/ ThreadOnNewPage \/ ThreadLosesPage \/ ThreadRefused
  \/ \E p \in 1 .. MaxTlsPages : \E b \in 0 .. (BlocksPerPage - 1) : ThreadDestroy(p, b)
  \/ Unload \/ LeaveFreesWhole \/ LeaveFreesPage \/ LeaveEnds

Spec == Init /\ [][Next]_vars

-----------------------------------------------------------------------------
Results ==
  {"OK", "LOAD_FAILED", "INVALID_SIZE", "INVALID_MEMORY_RANGE", "INVALID_MEMORY_STATE",
   "OUT_OF_MEMORY", "INVALID_POINTER"}
Pte == {Unmapped} \cup [pa : 0 .. (PageCount - 1), perms : SUBSET {"R", "W", "X"}]

(* Type invariant. *)
TypeOK ==
  /\ Frames!TypeOK
  /\ page \in [Pages -> Pte]
  /\ module_count \in 0 .. Len(Modules)
  /\ main_thread_stack \in [base : Pages \cup {0}, size : 0 .. Stack.size]
  /\ heap_size \in 0 .. Heap.size
  /\ heap_borrows \in Seq([dst_base : Pages, src_base : Pages, size : 1 .. Heap.size])
  /\ Len(heap_borrows) <= MaxLoans
  /\ tls \in Seq(SUBSET (0 .. (BlocksPerPage - 1))) /\ Len(tls) <= MaxTlsPages
  /\ call.at \in {"unloaded", "booting", "unwinding", "running", "growing", "shrinking",
                  "leaving", "aborted"}
  /\ reply \in Results
  /\ lost \subseteq 0 .. (PageCount - 1)
  /\ stain \in -1 .. (PageCount - 1)

Backing == {page[v].pa : v \in MappedPages(page)}

(* The guest reaches every backing page through at most one address: two   *)
(* pages share a frame only as the two halves of a loan, and then the heap *)
(* half is inaccessible.  Holds inside the handlers too.                   *)
OneAccessibleView ==
  \A v, w \in MappedPages(page) :
    v # w /\ page[v].pa = page[w].pa => {page[v].perms, page[w].perms} = {{}, RW}

(* Between calls, the pages the allocator counts as handed out are exactly *)
(* those some address maps, plus the ones the TLS allocator dropped: no    *)
(* mapping refers to a page the allocator may hand out again, and no       *)
(* roll-back of a memory SVC loses one.                                    *)
FramesAccounted ==
  /\ TypeOK
  /\ At("running") => held = Backing \cup lost /\ lost \cap Backing = {}

(* The loan table and the page map tell the same story: each recorded loan *)
(* is an inaccessible source in the committed heap and a RW alias in the   *)
(* stack region with the same frames, in order; loans do not overlap; and  *)
(* an inaccessible heap page belongs to a loan.                            *)
LoanTableExact ==
  At("running") =>
    /\ \A i \in DOMAIN heap_borrows :
         LET b == heap_borrows[i]
         IN /\ Contains([base |-> Heap.base, size |-> heap_size], b.src_base, b.size)
            /\ Contains(Stack, b.dst_base, b.size)
            /\ \A k \in 0 .. (b.size - 1) :
                 /\ page[b.src_base + k].perms = {}
                 /\ page[b.dst_base + k] = [pa |-> page[b.src_base + k].pa, perms |-> RW]
            /\ ~\E j \in DOMAIN heap_borrows \ {i} :
                 \/ FlatRange(b.src_base, b.size)
                      \cap FlatRange(heap_borrows[j].src_base, heap_borrows[j].size) # {}
                 \/ FlatRange(b.dst_base, b.size)
                      \cap FlatRange(heap_borrows[j].dst_base, heap_borrows[j].size) # {}
    /\ \A v \in RegionPages(Heap) :
         page[v] # Unmapped /\ page[v].perms = {} => LentAt(v, 1)

(* Heap the guest gains reads as zero, also when its frames were written   *)
(* through an earlier heap, an alias, an image or a query's answer and     *)
(* recycled, by this program or by one before it: the reset that ends a    *)
(* program or a failed load leaves the bytes where they are.               *)
FreshHeapIsZero ==
  [][\A v \in RegionPages(Heap) :
       page[v] = Unmapped /\ page'[v] # Unmapped => page'[v].pa # stain']_vars

(* After a failed load or an unload nothing is mapped and every page is    *)
(* free, whatever the teardown's best-effort steps ran into.               *)
UnloadedIsClean == At("unloaded") => page = Nothing /\ held = {} /\ tls = <<>>

(* What the handlers have checked before they free makes every page of the *)
(* tail readable and every free legal, whatever the guest lent, mapped and *)
(* shrank before: the one assert of free_and_unmap_heap_range and of the   *)
(* roll-back that can fire is that on a freelist with no entry left.       *)
AssertsOnlyOnFullFreelist == At("aborted") => free_run_count = MaxFreeRuns

(* The type QueryMemory reports for an address of the two regions, which   *)
(* it takes from the loan table, agrees with the page map: heap the guest  *)
(* can use, heap lent away, stack of its own, or an alias of heap.         *)
QueryTypeMatchesMap ==
  At("running") =>
    \A v \in RegionPages(Heap) \cup RegionPages(Stack) :
      TypeOf(v) = IF page[v] = Unmapped THEN "UNMAPPED"
                  ELSE IF v \in RegionPages(Heap)
                       THEN IF page[v].perms = RW THEN "HEAP" ELSE "WEIRD_MAPPED_MEM"
                       ELSE IF \E w \in RegionPages(Heap) : page[w].pa = page[v].pa
                            THEN "MAPPED_MEMORY" ELSE "NORMAL"

(* The guest sees its heap, its loans and its stack change only as         *)
(* GuestMemory allows: a refused call, a roll-back and every step inside a *)
(* handler are invisible to it.                                            *)
Promise == INSTANCE GuestMemory WITH
  MainStack <- [base |-> Stack.base + GuardPages, size |-> MainStackSize],
  committed <- heap_size,
  loans     <- IF At("leaving") THEN {} ELSE {heap_borrows[i] : i \in DOMAIN heap_borrows},
  running   <- main_thread_stack # NoRegion /\ ~At("leaving"),
  access    <- [v \in RegionPages(Heap) \cup RegionPages(Stack) |-> page[v].perms]
ImplementsGuestMemory == Promise!PromisedSpec

(* page_allocator.h says a SetHeapSize shrink frees at most one run.       *)
ShrinkPushesOneRun ==
  At("shrinking") /\ call.next = HeapEnd => free_run_count <= call.runs + 1
=============================================================================
