------------------------------ MODULE MCEmulator ------------------------------
(***************************************************************************)
(* Instances of Emulator: a native program with one or two emulators, and  *)
(* the web worker's one global.                                            *)
(***************************************************************************)
EXTENDS Emulator

CONSTANTS native, second, global

One      == {native}
Two      == {native, second}
TwoWords == 0 .. 1
==============================================================================
