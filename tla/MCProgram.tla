------------------------------- MODULE MCProgram ------------------------------
(***************************************************************************)
(* Program with one emulator, three threads, two TLS pages of two blocks   *)
(* and three frames, one of which a failed mapping can lose.               *)
(***************************************************************************)
EXTENDS Program, TLC

CONSTANTS native, global, t1, t2, t3, f1, f2, f3

MCEmulators == {native}
MCSlots     == {t1, t2, t3}
MCFrames    == {f1, f2, f3}
MCValues    == 0 .. 1
MCSymmetry  == Permutations(MCSlots) \cup Permutations(MCFrames)
==============================================================================
