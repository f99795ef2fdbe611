------------------------------ MODULE PagePool ------------------------------
(***************************************************************************)
(* What the guest physical page allocator owes its callers, with no cursor *)
(* and no freelist: a page belongs to at most one caller, an allocation    *)
(* hands out a contiguous run of pages nobody holds, and a free returns    *)
(* exactly the pages it names.  PageAllocator.tla is shown to implement    *)
(* this specification.                                                     *)
(***************************************************************************)
EXTENDS Integers

CONSTANT PageCount      \* pages of guest RAM the allocator manages

VARIABLE owned          \* the pages some caller holds

PoolRun(pa, n) == pa .. (pa + n - 1)

PoolInit == owned = {}

(* A caller obtains n contiguous pages that nobody held. *)
PoolAllocate ==
  \E n \in 1 .. PageCount : \E pa \in 0 .. (PageCount - n) :
    /\ PoolRun(pa, n) \cap owned = {}
    /\ owned' = owned \cup PoolRun(pa, n)

(* A caller returns n contiguous pages, all of them held. *)
PoolFree ==
  \E n \in 1 .. PageCount : \E pa \in 0 .. (PageCount - n) :
    /\ PoolRun(pa, n) \subseteq owned
    /\ owned' = owned \ PoolRun(pa, n)

(* The process died: every page returns at once. *)
PoolReset == owned' = {}

PoolNext == PoolAllocate \/ PoolFree \/ PoolReset

PoolSpec == PoolInit /\ [][PoolNext]_owned
=============================================================================
