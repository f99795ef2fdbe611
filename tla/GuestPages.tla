----------------------------- MODULE GuestPages -----------------------------
(***************************************************************************)
(* Guest memory as a function from guest pages to backing pages: what the  *)
(* three mapping calls of the VMM make of such a function.  PageMap turns  *)
(* these operators into a state machine that VMM.tla implements, and       *)
(* ProcessMemory.tla calls them the way the HLE handlers call the VMM.     *)
(***************************************************************************)
EXTENDS Integers

CONSTANT PageTotal    \* pages in the guest address space

Unmapped == [pa |-> -1, perms |-> {}]
Pages    == 0 .. (PageTotal - 1)

FlatRange(v, n) == v .. (v + n - 1)
InSpace(v, n)   == n > 0 /\ v + n <= PageTotal
AllMapped(m, v, n) == \A w \in FlatRange(v, n) : m[w] # Unmapped
AllHoles(m, v, n)  == \A w \in FlatRange(v, n) : m[w] = Unmapped

Nothing == [v \in Pages |-> Unmapped]

(* vmm_map: the range is backed by n pages from pa on, in order. *)
Mapped(m, v, n, pa, perms) ==
  [w \in Pages |-> IF w \in FlatRange(v, n)
                   THEN [pa |-> pa + (w - v), perms |-> perms] ELSE m[w]]

(* vmm_unmap *)
Holed(m, v, n) == [w \in Pages |-> IF w \in FlatRange(v, n) THEN Unmapped ELSE m[w]]

(* vmm_reprotect: the backing stays. *)
Reprotected(m, v, n, perms) ==
  [w \in Pages |-> IF w \in FlatRange(v, n) THEN [m[w] EXCEPT !.perms = perms] ELSE m[w]]
=============================================================================
