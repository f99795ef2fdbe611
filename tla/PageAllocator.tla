--------------------------- MODULE PageAllocator ----------------------------
(***************************************************************************)
(* The guest physical page allocator, core/hle/kernel/page_allocator.c: a  *)
(* bump cursor over guest RAM plus a fixed array of free runs.  Addresses  *)
(* and sizes are counted in pages from base_pa (the code shifts by         *)
(* VMM_PAGE_BITS at every use), so `used` is used_bytes in pages.          *)
(*                                                                         *)
(* free_runs[1 .. free_run_count] is the live prefix of the C array.  Its  *)
(* order matters: allocation is first-fit, removal moves the last entry    *)
(* into the hole.                                                          *)
(*                                                                         *)
(* The allocator does not record who holds what ("callers are trusted"),   *)
(* so `held` is a history variable: the pages handed out and not returned. *)
(* Callers return only pages they hold, in any pieces and any order; they  *)
(* may also pass ranges the allocator must refuse.                         *)
(***************************************************************************)
EXTENDS Integers, FiniteSets

CONSTANTS
  PageCount,      \* size_bytes of the allocator, in pages
  MaxFreeRuns     \* PAGE_ALLOCATOR_MAX_FREE_RUNS

ASSUME PageCountAssumption   == PageCount \in Nat \ {0}
ASSUME MaxFreeRunsAssumption == MaxFreeRuns \in Nat

VARIABLES
  used,             \* used_bytes: pages below the bump cursor
  free_run_count,
  free_runs,
  held,             \* history: pages callers hold
  result            \* the Error code the last call returned

allocatorVars == <<used, free_run_count, free_runs>>
vars == <<used, free_run_count, free_runs, held, result>>

Results == {"OK", "OUT_OF_MEMORY", "INVALID_ARGUMENT"}

PageRun == [pa : 0 .. PageCount, page_count : 1 .. PageCount]

RunPages(pa, n) == pa .. (pa + n - 1)
RunEnd(run)     == run.pa + run.page_count
RunIndices      == 1 .. free_run_count

(* The pages the allocator's own state says are handed out. *)
FreeRunPages ==
  UNION {RunPages(free_runs[i].pa, free_runs[i].page_count) : i \in RunIndices}
HandedOut == RunPages(0, used) \ FreeRunPages

-----------------------------------------------------------------------------
Init ==
  /\ used = 0
  /\ free_run_count = 0
  /\ free_runs = [i \in 1 .. 0 |-> [pa |-> 0, page_count |-> 0]]
  /\ held = {}
  /\ result = "OK"

(* Entry i leaves the array; the last entry takes its place. *)
RemoveRun(i) ==
  /\ free_run_count' = free_run_count - 1
  /\ free_runs' = [j \in 1 .. (free_run_count - 1) |->
                     IF j = i THEN free_runs[free_run_count] ELSE free_runs[j]]

(* The smallest index of a set of entries: the one the loops stop at. *)
IsFirst(i, S) == i \in S /\ \A j \in S : i <= j

-----------------------------------------------------------------------------
(* page_allocator_allocate(n) *)

AllocateRejected(n) ==
  /\ n = 0
  /\ result' = "INVALID_ARGUMENT"
  /\ UNCHANGED <<used, free_run_count, free_runs, held>>

FitsAllButOne(n) == {i \in RunIndices : free_runs[i].page_count >= n - 1}  \* mutant
Fits(n) == {i \in RunIndices : free_runs[i].page_count >= n}

(* A freelist run long enough: its front is handed out and the rest stays. *)
AllocateFromFreelist(n) ==
  /\ n > 0
  /\ \E i \in RunIndices :
       /\ IsFirst(i, Fits(n))
       /\ IF free_runs[i].page_count = n
          THEN RemoveRun(i)
          ELSE /\ free_runs' = [free_runs EXCEPT
                    ![i] = [pa |-> @.pa + n, page_count |-> @.page_count - n]]
               /\ UNCHANGED free_run_count
       /\ held' = held \cup RunPages(free_runs[i].pa, n)
  /\ result' = "OK"
  /\ UNCHANGED used

(* No run fits: the cursor advances. *)
AllocateFromCursor(n) ==
  /\ n > 0
  /\ Fits(n) = {}
  /\ n <= PageCount - used
  /\ used' = used + n
  /\ held' = held \cup RunPages(used, n)
  /\ result' = "OK"
  /\ UNCHANGED <<free_run_count, free_runs>>

(* No run fits and too few pages are ahead of the cursor. *)
AllocateExhausted(n) ==
  /\ n > 0
  /\ Fits(n) = {}
  /\ n > PageCount - used
  /\ result' = "OUT_OF_MEMORY"
  /\ UNCHANGED <<used, free_run_count, free_runs, held>>

CommitFailsAfterAdvance(n) ==                                      \* mutant
  /\ n > 0 /\ Fits(n) = {} /\ n <= PageCount - used
  /\ used' = used + n
  /\ result' = "OUT_OF_MEMORY"
  /\ UNCHANGED <<free_run_count, free_runs, held>>

(* layout_guest_ram_commit refuses the run that was found. *)
AllocateCommitFails(n) ==
  /\ n > 0
  /\ Fits(n) # {} \/ n <= PageCount - used
  /\ result' = "OUT_OF_MEMORY"
  /\ UNCHANGED <<used, free_run_count, free_runs, held>>

-----------------------------------------------------------------------------
(* page_allocator_free(pa, n) *)

WasHandedOut(pa, n) == n > 0 /\ pa < used /\ n <= used - pa

FreeRejected(pa, n) ==
  /\ ~WasHandedOut(pa, n)
  /\ result' = "INVALID_ARGUMENT"
  /\ UNCHANGED <<used, free_run_count, free_runs, held>>

(* What a caller may return: pages it holds. *)
CallerReturns(pa, n) ==
  /\ RunPages(pa, n) \subseteq held
  /\ WasHandedOut(pa, n)

AbsorbedRunKept(pa, n) ==                                          \* mutant
  /\ CallerReturns(pa, n)
  /\ pa + n = used
  /\ \E i \in RunIndices :
       /\ RunEnd(free_runs[i]) = pa
       /\ used' = free_runs[i].pa
  /\ held' = held \ RunPages(pa, n)
  /\ result' = "OK"
  /\ UNCHANGED <<free_run_count, free_runs>>

(* The run ends at the cursor: the cursor retracts over it, and over one   *)
(* freelist run that then ends at the cursor.                              *)
FreeAtCursor(pa, n) ==
  /\ CallerReturns(pa, n)
  /\ pa + n = used
  /\ LET Ending == {i \in RunIndices : RunEnd(free_runs[i]) = used - n}
     IN \/ /\ Ending = {}
           /\ used' = used - n
           /\ UNCHANGED <<free_run_count, free_runs>>
        \/ \E i \in RunIndices :
             /\ IsFirst(i, Ending)
             /\ used' = used - n - free_runs[i].page_count
             /\ RemoveRun(i)
  /\ held' = held \ RunPages(pa, n)
  /\ result' = "OK"

(* The entries directly after or directly before [pa, pa + n). *)
Adjacent(pa, n) ==
  {i \in RunIndices : free_runs[i].pa = pa + n \/ RunEnd(free_runs[i]) = pa}

CoalescedUpwardsOnly(pa, n) ==                                     \* mutant
  /\ CallerReturns(pa, n)
  /\ pa + n # used
  /\ \E i \in RunIndices :
       /\ IsFirst(i, Adjacent(pa, n))
       /\ free_runs' = [free_runs EXCEPT ![i].page_count = @ + n]
  /\ held' = held \ RunPages(pa, n)
  /\ result' = "OK"
  /\ UNCHANGED <<used, free_run_count>>

(* The first adjacent entry grows downwards or upwards over the run. *)
FreeCoalesced(pa, n) ==
  /\ CallerReturns(pa, n)
  /\ pa + n # used
  /\ \E i \in RunIndices :
       /\ IsFirst(i, Adjacent(pa, n))
       /\ free_runs' = [free_runs EXCEPT
            ![i] = [pa |-> IF @.pa = pa + n THEN pa ELSE @.pa,
                    page_count |-> @.page_count + n]]
  /\ held' = held \ RunPages(pa, n)
  /\ result' = "OK"
  /\ UNCHANGED <<used, free_run_count>>

FreePushed(pa, n) ==
  /\ CallerReturns(pa, n)
  /\ pa + n # used
  /\ Adjacent(pa, n) = {}
  /\ free_run_count < MaxFreeRuns
  /\ free_run_count' = free_run_count + 1
  /\ free_runs' = [j \in 1 .. (free_run_count + 1) |->
                     IF j = free_run_count + 1
                     THEN [pa |-> pa, page_count |-> n]
                     ELSE free_runs[j]]
  /\ held' = held \ RunPages(pa, n)
  /\ result' = "OK"
  /\ UNCHANGED used

(* The freelist is full: the caller keeps the pages. *)
FreeListFull(pa, n) ==
  /\ CallerReturns(pa, n)
  /\ pa + n # used
  /\ Adjacent(pa, n) = {}
  /\ free_run_count >= MaxFreeRuns
  /\ result' = "OUT_OF_MEMORY"
  /\ UNCHANGED <<used, free_run_count, free_runs, held>>

-----------------------------------------------------------------------------
(* page_allocator_reset, which returns no code: the process is gone, nobody holds a page. *)
Reset ==
  /\ used' = 0
  /\ free_run_count' = 0
  /\ free_runs' = [i \in 1 .. 0 |-> [pa |-> 0, page_count |-> 0]]
  /\ held' = {}
  /\ result' = "OK"

Allocate(n) ==
  \/ AllocateRejected(n)
  \/ AllocateFromFreelist(n)
  \/ AllocateFromCursor(n)
  \/ AllocateExhausted(n)
  \/ AllocateCommitFails(n)

Free(pa, n) ==
  \/ FreeRejected(pa, n)
  \/ FreeAtCursor(pa, n)
  \/ FreeCoalesced(pa, n)
  \/ FreePushed(pa, n)
  \/ FreeListFull(pa, n)

Next ==
  \/ \E n \in 0 .. (PageCount + 1) : Allocate(n)
  \/ \E pa \in 0 .. PageCount : \E n \in 0 .. (PageCount + 1) : Free(pa, n)
  \/ Reset

Spec == Init /\ [][Next]_vars

-----------------------------------------------------------------------------
(* Type invariant: the cursor stays in guest RAM and the freelist within   *)
(* its array.                                                              *)
TypeOK ==
  /\ used \in 0 .. PageCount
  /\ free_run_count \in 0 .. MaxFreeRuns
  /\ free_runs \in [1 .. free_run_count -> PageRun]
  /\ held \subseteq 0 .. (PageCount - 1)
  /\ result \in Results

(* Every free run lies below the cursor: the cursor never hands out a page *)
(* the freelist also holds.                                                *)
RunsBelowCursor == \A i \in RunIndices : RunEnd(free_runs[i]) <= used

(* No page is in two free runs, so no page is handed out twice by them.    *)
RunsDisjoint ==
  \A i, j \in RunIndices :
    i # j => \/ RunEnd(free_runs[i]) <= free_runs[j].pa
             \/ RunEnd(free_runs[j]) <= free_runs[i].pa

FreelistSound == RunsBelowCursor /\ RunsDisjoint

(* The pages callers hold are exactly the pages the allocator has handed   *)
(* out: it neither hands a held page to someone else nor loses a returned  *)
(* one, through every split, merge, retraction and absorption.             *)
Conservation == held = HandedOut

(* A call that returns an error has touched nothing: callers roll back on  *)
(* the strength of it (SetHeapSize, the TLS allocator).                    *)
FailedCallChangesNothing ==
  [][result' # "OK" => UNCHANGED <<used, free_run_count, free_runs, held>>]_vars

(* The allocator implements the abstract pool of pages: the pages it hands *)
(* out are contiguous and unheld, and it takes back exactly what is freed. *)
Pool == INSTANCE PagePool WITH owned <- HandedOut
ImplementsPool == Pool!PoolSpec
=============================================================================
