------------------------------- MODULE Emulator ------------------------------
(***************************************************************************)
(* The life of an emulator: emulator_create with its failure paths and     *)
(* emulator_destroy (core/emulator.c), the two process-wide singletons     *)
(* they build on, the linear memory layout (core/common/layout.c) and the  *)
(* softmmu context (core/common/vmm.c), the no-op CPU backend, loading and *)
(* unloading a program, and the calls exported to the web worker, which    *)
(* act on one global emulator (core/stubs/wasm_entry.c).                   *)
(*                                                                         *)
(* Layouts and second-level arenas are numbered as they are reserved, so   *)
(* that a pointer into one that is gone can be told.  What the loaded      *)
(* process does with its memory is in ProcessMemory.                       *)
(***************************************************************************)
EXTENDS Integers, FiniteSets

CONSTANTS
  Emulators,     \* the structs a native program passes to emulator_create
  Global,        \* g_emulator of the web build
  Values,        \* values of a register and cycle budgets; 0 among them
  MaxReserved    \* bound on the blocks reserved in one behaviour

ASSUME EmulatorAssumption == Global \notin Emulators /\ MaxReserved \in Nat

VARIABLES
  layout,       \* the live layout's number, 0 if none
  reserved,     \* layouts and arenas reserved so far
  vmm,          \* g_vmm: the layout its L1 table is in, its arena; or NoVmm
  l1,           \* what the entries of the live layout's L1 region point into
  emulators,    \* the structs
  states,       \* CPU states on the heap: the structs that asked for them
  initialised,  \* g_initialised
  answer        \* what the last exported call returned

vars == <<layout, reserved, vmm, l1, emulators, states, initialised, answer>>

NoVmm  == [layout |-> 0, arena |-> 0]
Noise  == 0            \* malloc'd memory nobody wrote; arenas count from 1
Zeroed == [live |-> FALSE, loaded |-> FALSE, x |-> 0, pc |-> 0, tls |-> 0, cycles |-> 0,
           pages |-> 0, sessions |-> 0]
Entry  == 1            \* a program's entry point, and its main thread's block
CyclesElapsed == 0     \* exit reason of the no-op backend
NotThere == 0 - 1

-----------------------------------------------------------------------------
(* The two singletons.  layout_create returns the live layout if there is  *)
(* one; its L1 region is not cleared.                                      *)

LayoutReady == IF layout # 0 THEN layout ELSE reserved + 1
ReservedWith(l) == IF l > reserved THEN l ELSE reserved
LayoutGone == layout' = 0 /\ l1' = {}
VmmLive == vmm # NoVmm

\* Mutant of ClearedL1: vmm_create trusts the layout's memory.
UnclearedL1 == IF layout # 0 THEN l1 ELSE {Noise}

\* The L1 table as vmm_create leaves it.
ClearedL1 == {}

-----------------------------------------------------------------------------
(* emulator_create clears the struct first.                                *)

StateFor(e) == states \cup {e}
Cleared(e) == emulators' = [emulators EXCEPT ![e] = Zeroed]

Created(e) ==
  LET arena == ReservedWith(LayoutReady) + 1 IN
  /\ ~VmmLive
  /\ layout' = LayoutReady /\ reserved' = arena
  /\ vmm' = [layout |-> LayoutReady, arena |-> arena]
  /\ l1' = ClearedL1
  /\ emulators' = [emulators EXCEPT ![e] = [Zeroed EXCEPT !.live = TRUE]]
  /\ states' = StateFor(e)

\* layout_create gives back what it had reserved.
LayoutFails(e) ==
  /\ layout = 0
  /\ Cleared(e)
  /\ UNCHANGED <<layout, reserved, vmm, l1, states>>

\* A context is live already, or its arena cannot be had.
VmmFails(e) ==
  /\ Cleared(e)
  /\ LayoutGone /\ reserved' = ReservedWith(LayoutReady)
  /\ UNCHANGED <<vmm, states>>

\* Mutant of CpuFails: the context stays.
CpuFailsKeepingVmm(e) ==
  /\ ~VmmLive
  /\ Cleared(e)
  /\ reserved' = ReservedWith(LayoutReady) + 1
  /\ vmm' = [layout |-> LayoutReady, arena |-> reserved']
  /\ LayoutGone /\ UNCHANGED states

\* The backend has no state to give: context, then layout, are destroyed.
CpuFails(e) ==
  /\ ~VmmLive
  /\ Cleared(e)
  /\ reserved' = ReservedWith(LayoutReady) + 1
  /\ vmm' = NoVmm /\ LayoutGone /\ UNCHANGED states

CreateFails(e) == LayoutFails(e) \/ VmmFails(e) \/ CpuFails(e)
MayReserve == reserved + 2 <= MaxReserved

\* emulator_destroy, also of a struct whose creation failed.
Destroyed(e) ==
  /\ Cleared(e)
  /\ states' = states \ {e}
  /\ vmm' = IF emulators[e].live THEN NoVmm ELSE vmm
  /\ LayoutGone /\ UNCHANGED reserved

-----------------------------------------------------------------------------
(* A native program: it creates an emulator only in a struct not in use.   *)

Create(e) ==
  /\ MayReserve /\ ~ emulators[e].live
  /\ Created(e) \/ CreateFails(e)
  /\ UNCHANGED <<initialised, answer>>

Destroy(e) == Destroyed(e) /\ UNCHANGED <<initialised, answer>>

Singletons == <<layout, reserved, vmm, states, initialised>>

\* Mutant of EntryState: the general registers are not cleared.
EntryStateDirty(m) == [m EXCEPT !.pc = Entry, !.tls = Entry]

\* process_enter_main_thread.
EntryState(m) == [m EXCEPT !.x = 0, !.pc = Entry, !.tls = Entry]

\* What a successful load makes of the struct.
Loaded(m) == [EntryState(m) EXCEPT !.loaded = TRUE, !.pages = m.pages + 1]

\* emulator_load_program.
Load(e) ==
  /\ emulators[e].live /\ ~ emulators[e].loaded
  /\ emulators' = [emulators EXCEPT ![e] = Loaded(@)]
  /\ l1' = l1 \cup {vmm.arena}
  /\ UNCHANGED <<Singletons, answer>>

\* A bootstrap that fails unmaps what it mapped, which releases the second-level
\* tables, and its pages go back with all the others.
LoadFails(e) ==
  /\ emulators[e].live /\ ~ emulators[e].loaded
  /\ emulators' = [emulators EXCEPT ![e].pages = 0]
  /\ UNCHANGED <<Singletons, l1, answer>>

\* The program asks for pages or for a session, and computes.
GuestRuns(e) ==
  /\ emulators[e].loaded
  /\ \E x, pc \in Values, n \in 1 .. 2, s \in 0 .. 1 :
       emulators' = [emulators EXCEPT ![e].x = x, ![e].pc = pc, ![e].pages = n,
                                      ![e].sessions = s]
  /\ UNCHANGED <<Singletons, l1, answer>>

\* Mutant of Unloaded: the sessions are left to the next program.
UnloadedKeepingSessions(m) == [m EXCEPT !.loaded = FALSE, !.pages = 0]

\* process_teardown, page_allocator_reset and hle_reset_process_state; the
\* registers stay.
Unloaded(m) == [m EXCEPT !.loaded = FALSE, !.pages = 0, !.sessions = 0]

Unload(e) ==
  /\ emulators[e].live /\ emulators[e].loaded
  /\ emulators' = [emulators EXCEPT ![e] = Unloaded(@)]
  /\ l1' = l1 \ {vmm.arena}
  /\ UNCHANGED <<Singletons, answer>>

\* emulator_run, and with a budget of one emulator_step, on the no-op backend.
Run(e) ==
  /\ emulators[e].live
  /\ \E budget \in Values : emulators' = [emulators EXCEPT ![e].cycles = budget]
  /\ UNCHANGED <<Singletons, l1, answer>>

-----------------------------------------------------------------------------
(* The exported calls.                                                     *)

Quiet == UNCHANGED <<Singletons, l1>>

\* Mutant of MayCreate: a second call creates again.
MayCreateAgain == TRUE

MayCreate == ~initialised

CreateFfi ==
  \/ /\ ~MayCreate
     /\ answer' = 1
     /\ Quiet /\ UNCHANGED emulators
  \/ /\ MayCreate /\ MayReserve
     /\ Created(Global) /\ initialised' = TRUE /\ answer' = 1
  \/ /\ MayCreate /\ MayReserve
     /\ CreateFails(Global) /\ answer' = 0 /\ UNCHANGED initialised

DestroyFfi ==
  /\ IF initialised THEN Destroyed(Global) /\ initialised' = FALSE
                    ELSE Quiet /\ UNCHANGED emulators
  /\ UNCHANGED answer

\* emulator_run_ffi; emulator_step_ffi is a budget of one.
RunFfi(budget) ==
  /\ IF initialised
     THEN /\ answer' = CyclesElapsed
          /\ emulators' = [emulators EXCEPT ![Global].cycles = budget]
     ELSE answer' = NotThere /\ UNCHANGED emulators
  /\ Quiet

SetRegFfi(value) ==
  /\ emulators' = IF initialised THEN [emulators EXCEPT ![Global].x = value] ELSE emulators
  /\ Quiet /\ UNCHANGED answer

GetRegFfi ==
  /\ answer' = IF initialised THEN emulators[Global].x ELSE 0
  /\ Quiet /\ UNCHANGED emulators

GetPcFfi ==
  /\ answer' = IF initialised THEN emulators[Global].pc ELSE 0
  /\ Quiet /\ UNCHANGED emulators

LayoutGetFfi ==
  /\ answer' = layout
  /\ Quiet /\ UNCHANGED emulators

-----------------------------------------------------------------------------
Init ==
  /\ layout = 0 /\ reserved = 0 /\ vmm = NoVmm /\ l1 = {}
  /\ emulators = [e \in Emulators \cup {Global} |-> Zeroed]
  /\ states = {} /\ initialised = FALSE /\ answer = 0

Native ==
  \E e \in Emulators :
    \/ Create(e) \/ Destroy(e) \/ Load(e) \/ LoadFails(e)
    \/ GuestRuns(e) \/ Unload(e) \/ Run(e)

Web ==
  \/ CreateFfi \/ DestroyFfi \/ GetRegFfi \/ GetPcFfi \/ LayoutGetFfi
  \/ \E value \in Values : RunFfi(value) \/ SetRegFfi(value)

NativeSpec == Init /\ [][Native]_vars

-----------------------------------------------------------------------------
\* Whatever step of a creation fails, and after every destruction, layout,
\* context and backend states are gone when no emulator is there to own them;
\* and the worker's flag says whether its emulator is there, so that no
\* exported call reaches a cleared struct.
NothingLeftBehind ==
  /\ (\A e \in DOMAIN emulators : ~ emulators[e].live) =>
        layout = 0 /\ vmm = NoVmm /\ states = {}
  /\ initialised <=> emulators[Global].live

\* The live context walks the live layout's L1 region, and all it finds there
\* leads into its own arena: neither noise of a fresh layout nor tables of a
\* context that is gone ("a second context would alias it", vmm.h).
WalksItsOwnTables ==
  VmmLive => vmm.layout = layout /\ l1 \subseteq {vmm.arena}

\* A program starts with the registers, sessions and pages of a first program,
\* whatever ran and whatever load failed before it in the same emulator.
FreshProgramStartsClean ==
  [][\A e \in DOMAIN emulators :
       emulators'[e].loaded /\ ~ emulators[e].loaded =>
         emulators'[e] = [EntryState(Zeroed) EXCEPT !.live = TRUE, !.loaded = TRUE,
                                                    !.pages = 1, !.cycles = emulators[e].cycles]]_vars
==============================================================================
