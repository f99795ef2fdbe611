-------------------------- MODULE MCProcessMemory ---------------------------
(***************************************************************************)
(* One three-page module, a heap of three one-page granules, a stack       *)
(* region of a guard page, the main stack and two free pages, and a TLS    *)
(* region of two pages; a hole keeps the TLS pages in tables of their own. *)
(* Six of the seven tables exist, so each kind of mapping can find the     *)
(* pool empty.  Frames for everything but one page.                        *)
(*                                                                         *)
(* ProcessRecycle.cfg follows the contents of the frames the heap gets     *)
(* first and has a freelist of one entry, so frees fail.                   *)
(* ProcessFragments.cfg has a third TLS page to split the heap's frames.   *)
(***************************************************************************)
EXTENDS ProcessMemory

MCModules == <<[text |-> 1, rodata |-> 1, data |-> 1]>>
MCHeap    == [base |-> 3, size |-> 3]
MCStack   == [base |-> 6, size |-> 4]
MCTlsIo   == [base |-> 11, size |-> 2]
FragTlsIo == [base |-> 11, size |-> 3]
MCPageArgs == (3 .. 6) \cup (8 .. 9) \cup {PageTotal}

(* No action reads the code the last call returned. *)
MCView == <<used, free_runs, held, page, processVars, call, lost, stain>>
=============================================================================
