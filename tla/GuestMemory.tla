----------------------------- MODULE GuestMemory ----------------------------
(***************************************************************************)
(* What the memory SVCs promise a guest about its heap and stack regions:  *)
(* the heap is a readable and writable prefix of its region whose length   *)
(* the guest sets, part of it may be lent to addresses in the stack        *)
(* region, and each byte is accessible at one of the two, never at both.   *)
(* A refused call changes nothing.                                         *)
(***************************************************************************)
EXTENDS Integers, FiniteSets

CONSTANTS Heap, Stack, MainStack, Granule, MaxLoans

VARIABLES
  committed,   \* pages of heap the guest has
  loans,       \* set of [dst_base, src_base, size]
  running,
  access       \* the rights the guest has at each address of the two regions

Covers(base, n) == base .. (base + n - 1)
HeapWindow   == Covers(Heap.base, Heap.size)
StackWindow  == Covers(Stack.base, Stack.size)
Committed(c) == Covers(Heap.base, c)
LentOut(L)   == UNION {Covers(l.src_base, l.size) : l \in L}
LentTo(L)    == UNION {Covers(l.dst_base, l.size) : l \in L}

AccessGiven(c, L, r) ==
  [v \in HeapWindow \cup StackWindow |->
     IF \/ v \in Committed(c) \ LentOut(L)
        \/ v \in LentTo(L)
        \/ r /\ v \in Covers(MainStack.base, MainStack.size)
     THEN {"R", "W"} ELSE {}]

PromisedInit ==
  /\ committed = 0 /\ loans = {} /\ running = FALSE
  /\ access = AccessGiven(0, {}, FALSE)

Start == ~running /\ running' = TRUE /\ UNCHANGED <<committed, loans>>

(* SetHeapSize never cuts into a loan. *)
Resize(c) ==
  /\ running
  /\ c % Granule = 0 /\ LentOut(loans) \subseteq Committed(c)
  /\ committed' = c
  /\ UNCHANGED <<loans, running>>

(* The lent pages were the guest's to use, the alias's addresses were not. *)
Lend(l) ==
  /\ running /\ Cardinality(loans) < MaxLoans
  /\ Covers(l.src_base, l.size) \subseteq Committed(committed) \ LentOut(loans)
  /\ Covers(l.dst_base, l.size)
       \subseteq StackWindow \ (LentTo(loans) \cup Covers(MainStack.base, MainStack.size))
  /\ loans' = loans \cup {l}
  /\ UNCHANGED <<committed, running>>

Return(l) ==
  /\ running
  /\ l \in loans /\ loans' = loans \ {l}
  /\ UNCHANGED <<committed, running>>

(* The process goes: first the loans and the stack, then the heap. *)
Quit  == running' = FALSE /\ loans' = {} /\ UNCHANGED committed
Clear == ~running /\ committed' = 0 /\ UNCHANGED <<loans, running>>

PromisedNext ==
  /\ \/ Start \/ Quit \/ Clear
     \/ \E c \in 0 .. Heap.size : Resize(c)
     \/ \E n \in 1 .. Heap.size : \E src \in HeapWindow, dst \in StackWindow :
          Lend([dst_base |-> dst, src_base |-> src, size |-> n])
     \/ \E l \in loans : Return(l)
  /\ access' = AccessGiven(committed', loans', running')

PromisedSpec == PromisedInit /\ [][PromisedNext]_<<committed, loans, running, access>>
=============================================================================
