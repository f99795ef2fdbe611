------------------------------- MODULE PageMap ------------------------------
(***************************************************************************)
(* What the guest virtual memory manager promises: one flat map from guest *)
(* page numbers to backing pages with permissions, changed a whole range   *)
(* at a time or not at all.  VMM.tla, with its two levels of tables and    *)
(* its table pool, is shown to implement this specification.               *)
(***************************************************************************)
EXTENDS GuestPages

CONSTANTS
  RamPages,     \* pages of guest RAM
  Rights        \* the permission bits, VMM_PERM_ALL

VARIABLES
  page,         \* page[v]: Unmapped, or the backing page and its permissions
  outcome       \* the Error code of the last mapping call

FlatInit ==
  /\ page = Nothing
  /\ outcome = "OK"

(* Map: every page of the range was a hole and is now backed in order. *)
FlatMap(v, n, pa, perms) ==
  /\ InSpace(v, n) /\ AllHoles(page, v, n)
  /\ pa + n <= RamPages
  /\ page' = Mapped(page, v, n, pa, perms)
  /\ outcome' = "OK"

FlatUnmap(v, n) ==
  /\ InSpace(v, n) /\ AllMapped(page, v, n)
  /\ page' = Holed(page, v, n)
  /\ outcome' = "OK"

FlatReprotect(v, n, perms) ==
  /\ InSpace(v, n) /\ AllMapped(page, v, n)
  /\ page' = Reprotected(page, v, n, perms)
  /\ outcome' = "OK"

(* A refused call changes no page.  Running out of tables is allowed only  *)
(* to a call that was otherwise good, so that no caller mistakes a range   *)
(* that is taken for memory pressure.                                      *)
FlatRefuse ==
  /\ outcome' = "INVALID_ARGUMENT"
  /\ UNCHANGED page

FlatExhausted ==
  /\ \E n \in 1 .. PageTotal : \E v \in 0 .. (PageTotal - n) : AllHoles(page, v, n)
  /\ outcome' = "OUT_OF_MEMORY"
  /\ UNCHANGED page

(* The address space comes up or goes down with nothing mapped. *)
FlatClear ==
  /\ page' = Nothing
  /\ outcome' = "OK"

FlatChange ==
  \E n \in 1 .. PageTotal : \E v \in 0 .. (PageTotal - n) :
    \/ FlatUnmap(v, n)
    \/ \E perms \in SUBSET Rights :
         \/ FlatReprotect(v, n, perms)
         \/ \E pa \in 0 .. (RamPages - 1) : FlatMap(v, n, pa, perms)

FlatNext ==
  \/ FlatRefuse
  \/ FlatExhausted
  \/ FlatClear
  \/ outcome' = "OK" /\ FlatChange

FlatSpec == FlatInit /\ [][FlatNext]_<<page, outcome>>
=============================================================================
