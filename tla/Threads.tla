------------------------------- MODULE Threads -------------------------------
(***************************************************************************)
(* Guest threads and their TLS blocks: thread_create and thread_destroy    *)
(* (core/hle/kernel/thread.c) over tls_allocate and tls_free               *)
(* (core/hle/kernel/tls.c), the main thread's block, which the bootstrap   *)
(* takes from the same allocator, and the end of the process.  A block is  *)
(* a TLS page and an index on it; a guest thread writes where its register *)
(* tpidrro_el0 points.  Other users of frames and tables, which make a     *)
(* mapping fail, are in ProcessMemory.                                     *)
(***************************************************************************)
EXTENDS Integers, FiniteSets, Sequences

CONSTANTS
  Slots,        \* the Guest_Thread structs of the process
  Frames,       \* physical pages
  BlocksPerPage,
  MaxPages,     \* TLS_MAX_PAGES
  RegionPages   \* pages of the tls_io region

VARIABLES
  mapped,   \* the TLS pages in ascending order: frame and used blocks
  inUse,    \* blocks_in_use
  main,     \* the main thread, or None without a process
  threads,  \* each Guest_Thread, or None
  taken,    \* frames the page allocator has handed out
  dirty     \* blocks that do not read as zero, by frame and index

Blocks == 0 .. BlocksPerPage - 1
None   == [tls_gva |-> <<0, 0>>, tpidrro |-> <<0, 0>>]
Armed(gva) == [tls_gva |-> gva, tpidrro |-> gva]
Live(slot) == threads[slot] # None

Least(S) == CHOOSE x \in S : \A y \in S : x <= y

-----------------------------------------------------------------------------
(* tls_allocate: the lowest free block of the lowest page with one, else   *)
(* the first of a page that is mapped on a free frame.                     *)

OpenPages == {p \in DOMAIN mapped : mapped[p].used # Blocks}
PickBlock ==
  IF OpenPages = {} THEN <<Len(mapped) + 1, 0>>
  ELSE <<Least(OpenPages), Least(Blocks \ mapped[Least(OpenPages)].used)>>

MayAddPage == OpenPages = {} /\ Len(mapped) < MaxPages /\ Len(mapped) < RegionPages

\* The pages before the block is claimed, a new one on f.
PagesWith(f) == IF OpenPages = {} THEN Append(mapped, [frame |-> f, used |-> {}]) ELSE mapped
TakesFrame(f) ==
  IF OpenPages = {} THEN MayAddPage /\ f \in Frames \ taken /\ taken' = taken \cup {f}
                    ELSE UNCHANGED taken

BytesOf(pages, gva) == <<pages[gva[1]].frame, gva[2]>>

\* Mutant of Zeroed: the block of a page just mapped is taken for zero.
ZeroedUnlessNew(pages, gva) ==
  IF OpenPages = {} THEN dirty ELSE dirty \ {BytesOf(pages, gva)}

Zeroed(pages, gva) == dirty \ {BytesOf(pages, gva)}
Claimed(pages, gva) == [pages EXCEPT ![gva[1]].used = @ \cup {gva[2]}]

Allocates(f) ==
  /\ TakesFrame(f)
  /\ mapped' = Claimed(PagesWith(f), PickBlock)
  /\ dirty' = Zeroed(PagesWith(f), PickBlock)
  /\ inUse' = inUse + 1

\* Mutant of Released: the lowest block of the page in use is given back.
ReleasedLowest(gva) == [mapped EXCEPT ![gva[1]].used = @ \ {Least(@)}]

\* tls_free, which leaves the bytes.
Released(gva) == [mapped EXCEPT ![gva[1]].used = @ \ {gva[2]}]

-----------------------------------------------------------------------------
(* The process.  The page allocator is reset after its teardown.           *)

Boot ==
  /\ main = None
  /\ \E f \in Frames : Allocates(f)
  /\ main' = Armed(PickBlock)
  /\ UNCHANGED threads

\* After the last thread is gone: an obligation of the caller (thread.h 56-57,
\* what a thread borrows outlives it) that no code checks.
Teardown ==
  /\ main # None /\ \A slot \in Slots : ~Live(slot)
  /\ mapped' = <<>> /\ inUse' = 0 /\ taken' = {} /\ main' = None
  /\ UNCHANGED <<threads, dirty>>

-----------------------------------------------------------------------------
(* thread_create into a struct that is not in use.  Parameters out of      *)
(* range are refused before anything is touched.                           *)

MayCreate(slot) == main # None /\ ~Live(slot)

Create(slot) ==
  /\ MayCreate(slot)
  /\ \E f \in Frames : Allocates(f)
  /\ threads' = [threads EXCEPT ![slot] = Armed(PickBlock)]
  /\ UNCHANGED main

\* vmm_map of the new page fails: the frame is not given back.
CreateLosesFrame(slot) ==
  /\ MayCreate(slot) /\ MayAddPage
  /\ \E f \in Frames \ taken : taken' = taken \cup {f}
  /\ UNCHANGED <<mapped, inUse, main, threads, dirty>>

\* Mutant of KeptPages: the block of a thread that got no state stays claimed.
KeptPagesClaimed(f) == Claimed(PagesWith(f), PickBlock)

\* A new page is kept for the next thread.
KeptPages(f) == PagesWith(f)

\* The backend has no state to give: the block, zeroed by now, is freed.
CreateWithoutState(slot) ==
  /\ MayCreate(slot)
  /\ \E f \in Frames :
       /\ TakesFrame(f)
       /\ mapped' = KeptPages(f)
       /\ dirty' = Zeroed(PagesWith(f), PickBlock)
  /\ UNCHANGED <<inUse, main, threads>>

Destroy(slot) ==
  /\ Live(slot)
  /\ mapped' = Released(threads[slot].tls_gva)
  /\ inUse' = inUse - 1
  /\ threads' = [threads EXCEPT ![slot] = None]
  /\ UNCHANGED <<main, taken, dirty>>

\* A thread fills its block.
GuestWrites(thread) ==
  /\ thread # None
  /\ dirty' = dirty \cup {BytesOf(mapped, thread.tpidrro)}
  /\ UNCHANGED <<mapped, inUse, main, threads, taken>>

-----------------------------------------------------------------------------
Init ==
  /\ mapped = <<>> /\ inUse = 0 /\ main = None
  /\ threads = [slot \in Slots |-> None]
  /\ taken = {} /\ dirty = {}

ThreadStep(slot) ==
  \/ Create(slot) \/ CreateLosesFrame(slot) \/ CreateWithoutState(slot)
  \/ Destroy(slot) \/ GuestWrites(threads[slot])

-----------------------------------------------------------------------------
Owners == {slot \in Slots : Live(slot)}
UsedBlocks == UNION {{p} \X mapped[p].used : p \in DOMAIN mapped}

\* However threads come, fail to come and go, no two of them, nor the main
\* thread, share a block or a frame under two pages; each one's tpidrro_el0
\* leads to its own, and exactly the owned blocks are marked and counted.
EachThreadItsOwnBlock ==
  LET owned == {threads[slot].tls_gva : slot \in Owners} IN
  /\ \A slot \in Owners : threads[slot].tpidrro = threads[slot].tls_gva
  /\ main.tpidrro = main.tls_gva
  /\ \A one, other \in Owners : threads[one].tls_gva = threads[other].tls_gva => one = other
  /\ main.tls_gva \notin owned
  /\ UsedBlocks = IF main = None THEN {} ELSE owned \cup {main.tls_gva}
  /\ inUse = Cardinality(UsedBlocks)
  /\ \A p, q \in DOMAIN mapped : mapped[p].frame = mapped[q].frame => p = q
  /\ \A p \in DOMAIN mapped : mapped[p].frame \in taken

\* A thread that was just made finds its block zero, whoever wrote to those
\* bytes before: an earlier thread, or one of a process that is gone.
NewBlocksAreZero ==
  /\ \A slot \in Slots : threads[slot] = None /\ threads'[slot] # None =>
       BytesOf(mapped', threads'[slot].tls_gva) \notin dirty'
  /\ main = None /\ main' # None => BytesOf(mapped', main'.tls_gva) \notin dirty'
==============================================================================
