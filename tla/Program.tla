-------------------------------- MODULE Program -------------------------------
(***************************************************************************)
(* The emulator and the threads of the program it runs.  Loading binds the *)
(* process's TLS allocator and takes the main thread's block, unloading    *)
(* and destroying tear it down (core/emulator.c, core/hle/kernel/process.c)*)
(* in between the two move on their own.  A behaviour is of one build: a   *)
(* native program, or the web worker, which exports no call that loads.    *)
(***************************************************************************)
EXTENDS Emulator, Sequences

CONSTANTS Slots, Frames, BlocksPerPage, MaxPages, RegionPages

\* TLS_BLOCKS_PER_PAGE: a page has a block.
ASSUME ProgramAssumption == BlocksPerPage \in Nat \ {0}

VARIABLES build, mapped, inUse, main, threads, taken, dirty

T == INSTANCE Threads

threadVars == <<mapped, inUse, main, threads, taken, dirty>>
allVars    == <<vars, build, threadVars>>

-----------------------------------------------------------------------------
\* emulator_unload_program, which emulator_destroy calls first.
ThreadsEnd(e) == IF emulators[e].loaded THEN T!Teardown ELSE UNCHANGED threadVars

Host(e) ==
  \/ Load(e) /\ T!Boot
  \/ Unload(e) /\ T!Teardown
  \/ Destroy(e) /\ ThreadsEnd(e)
  \/ /\ Create(e) \/ LoadFails(e) \/ GuestRuns(e) \/ Run(e)
     /\ UNCHANGED threadVars

Guest ==
  /\ \/ T!GuestWrites(main)
     \/ \E slot \in Slots : T!ThreadStep(slot)
  /\ UNCHANGED vars

ProgramInit == Init /\ T!Init /\ build \in {"native", "web"}

ProgramNext ==
  /\ \/ build = "native" /\ (Guest \/ \E e \in Emulators : Host(e))
     \/ build = "web" /\ Web /\ UNCHANGED threadVars
  /\ UNCHANGED build

ProgramSpec == ProgramInit /\ [][ProgramNext]_allVars

-----------------------------------------------------------------------------
\* However threads and programs come, fail to come and go, no two threads share
\* a block or a frame under two pages, each one's tpidrro_el0 leads to its own,
\* and exactly the owned blocks are marked and counted.
EachThreadItsOwnBlock == T!EachThreadItsOwnBlock

\* A thread that was just made finds its block zero, whoever wrote to those
\* bytes before: an earlier thread, or one of a program that is gone.
FreshBlockIsZero == [][T!NewBlocksAreZero]_allVars
==============================================================================
