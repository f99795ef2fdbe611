----------------------------- MODULE ProgramProofs ----------------------------
(***************************************************************************)
(* Whatever creation fails and whatever is destroyed, nothing is left      *)
(* behind; the page tables are the live layout's own; every program starts *)
(* like the first (for one emulator struct of a native program, or the     *)
(* worker's).  Every thread has a TLS block of its own, zero when it       *)
(* starts (for any number of structs, threads, frames and blocks).         *)
(***************************************************************************)
EXTENDS Program, FiniteSetTheorems, LoopLemmas, TLAPS

Structs == Emulators \cup {Global}
Struct ==
  [live : BOOLEAN, loaded : BOOLEAN, x : Values \cup {0}, pc : Values \cup {0, Entry},
   tls : {0, Entry}, cycles : Values \cup {0}, pages : Nat, sessions : Nat]

ProgramTypeOK ==
  /\ layout \in Nat /\ reserved \in Nat
  /\ vmm \in [layout : Nat, arena : Nat]
  /\ emulators \in [Structs -> Struct]
  /\ initialised \in BOOLEAN /\ build \in {"native", "web"}

\* A struct nobody loaded a program into has nothing of one.
CleanUnloaded == \A e \in Structs :
  /\ emulators[e].loaded => emulators[e].live
  /\ ~ emulators[e].loaded => emulators[e].pages = 0 /\ emulators[e].sessions = 0

\* Who may be live: the worker's emulator in the web build, another else.
WhoLives ==
  /\ build = "native" => ~ emulators[Global].live
  /\ build = "web" => \A e \in Emulators : ~ emulators[e].live
  /\ initialised <=> emulators[Global].live

LiveOnes == {e \in Structs : emulators[e].live}

\* Context, layout, tables and backend states exist with their emulator only.
OwnedTogether ==
  /\ states = LiveOnes
  /\ LiveOnes = {} <=> vmm = NoVmm
  /\ vmm = NoVmm => layout = 0 /\ l1 = {}
  /\ vmm # NoVmm => vmm.layout = layout /\ l1 \subseteq {vmm.arena}

IInv == ProgramTypeOK /\ CleanUnloaded /\ WhoLives /\ OwnedTogether

OneStruct == \A a, b \in Emulators : a = b

-----------------------------------------------------------------------------
LEMMA ZeroedStruct == Zeroed \in Struct /\ [Zeroed EXCEPT !.live = TRUE] \in Struct
BY DEF Zeroed, Struct, Entry

\* At most one struct is live.
LEMMA AtMostOneLives ==
  ASSUME IInv, OneStruct, NEW e \in Structs, NEW f \in Structs,
         emulators[e].live, emulators[f].live
  PROVE  e = f
BY DEF IInv, ProgramTypeOK, WhoLives, OneStruct, Structs

\* A step within the life of one struct (load, run, unload, a register set).
LEMMA LifeGoesOn ==
  ASSUME IInv, NEW e \in Structs, NEW r \in Struct,
         emulators' = [emulators EXCEPT ![e] = r],
         r.live = emulators[e].live,
         r.loaded => r.live,
         ~ r.loaded => r.pages = 0 /\ r.sessions = 0,
         UNCHANGED <<Singletons, build>>,
         l1' = l1 \/ (vmm # NoVmm /\ l1' \subseteq {vmm.arena})
  PROVE  IInv'
<1>1. /\ emulators' \in [Structs -> Struct]
      /\ emulators'[e] = r
      /\ \A f \in Structs : f # e => emulators'[f] = emulators[f]
  BY DEF IInv, ProgramTypeOK
<1>2. \A f \in Structs : emulators'[f].live = emulators[f].live
  BY <1>1
<1>3. ProgramTypeOK'
  BY <1>1 DEF IInv, ProgramTypeOK, Singletons
<1>4. CleanUnloaded'
  BY <1>1 DEF IInv, CleanUnloaded
<1>5. WhoLives'
  BY <1>2 DEF IInv, WhoLives, Singletons, Structs
<1>6. OwnedTogether'
  BY <1>2 DEF IInv, OwnedTogether, Singletons, LiveOnes
<1> QED BY <1>3, <1>4, <1>5, <1>6 DEF IInv

\* emulator_create, through to the end.
LEMMA CreatedOwns ==
  ASSUME IInv, NEW e \in Structs, LiveOnes = {}, Created(e),
         UNCHANGED build,
         (build = "native" /\ e \in Emulators /\ UNCHANGED initialised)
           \/ (build = "web" /\ e = Global /\ initialised' = TRUE)
  PROVE  IInv'
<1> DEFINE r == [Zeroed EXCEPT !.live = TRUE]
<1>1. r \in Struct /\ r.live /\ ~ r.loaded /\ r.pages = 0 /\ r.sessions = 0
  BY ZeroedStruct DEF Zeroed
<1>2. vmm = NoVmm /\ layout = 0 /\ states = {}
  BY DEF IInv, OwnedTogether
<1>3. /\ layout' = reserved + 1 /\ reserved' = reserved + 2
      /\ vmm' = [layout |-> reserved + 1, arena |-> reserved + 2]
      /\ l1' = {}
      /\ emulators' = [emulators EXCEPT ![e] = r]
      /\ states' = {e}
  <2>1. reserved \in Nat
    BY DEF IInv, ProgramTypeOK
  <2>2. LayoutReady = reserved + 1
    BY <1>2 DEF LayoutReady
  <2>3. ReservedWith(LayoutReady) = reserved + 1
    BY <2>1, <2>2 DEF ReservedWith
  <2> QED BY <1>2, <2>1, <2>2, <2>3 DEF Created, ClearedL1, StateFor
<1> HIDE DEF r
<1>4. /\ emulators' \in [Structs -> Struct]
      /\ emulators'[e] = r
      /\ \A f \in Structs : f # e => emulators'[f] = emulators[f]
  BY <1>1, <1>3 DEF IInv, ProgramTypeOK
<1>5. LiveOnes' = {e}
  BY <1>1, <1>4 DEF LiveOnes
<1>6. ProgramTypeOK'
  <2>1. initialised' \in BOOLEAN /\ build' \in {"native", "web"}
    BY DEF IInv, ProgramTypeOK
  <2>2. reserved + 1 \in Nat /\ reserved + 2 \in Nat
    BY DEF IInv, ProgramTypeOK
  <2>3. vmm' \in [layout : Nat, arena : Nat]
    BY <1>3, <2>2
  <2> QED BY <1>3, <1>4, <2>1, <2>2, <2>3 DEF ProgramTypeOK
<1>7. CleanUnloaded'
  BY <1>1, <1>4 DEF IInv, CleanUnloaded
<1>8. WhoLives'
  BY <1>1, <1>4, EmulatorAssumption DEF IInv, ProgramTypeOK, WhoLives, Structs
<1>9. OwnedTogether'
  <2>1. vmm' # NoVmm
    BY <1>3 DEF IInv, ProgramTypeOK, NoVmm
  <2> QED BY <1>3, <1>5, <2>1 DEF OwnedTogether
<1> QED BY <1>6, <1>7, <1>8, <1>9 DEF IInv

\* The end of a struct, or a creation that failed while none was live.
LEMMA NoneOwns ==
  ASSUME IInv, NEW e \in Structs, Cleared(e),
         \A f \in Structs : emulators[f].live => f = e,
         reserved' \in Nat, vmm' = NoVmm, layout' = 0, l1' = {}, states' = {},
         UNCHANGED build, initialised' = FALSE
  PROVE  IInv'
<1>1. /\ emulators' \in [Structs -> Struct]
      /\ emulators'[e] = Zeroed
      /\ \A f \in Structs : f # e => emulators'[f] = emulators[f]
  BY ZeroedStruct DEF IInv, ProgramTypeOK, Cleared
<1>2. \A f \in Structs : ~ emulators'[f].live
  BY <1>1 DEF Zeroed
<1>3. ProgramTypeOK'
  BY <1>1 DEF IInv, ProgramTypeOK, NoVmm
<1>4. CleanUnloaded'
  BY <1>1 DEF IInv, CleanUnloaded, Zeroed
<1>5. WhoLives'
  BY <1>2 DEF WhoLives, IInv, ProgramTypeOK, Structs
<1>6. OwnedTogether'
  BY <1>2 DEF OwnedTogether, LiveOnes
<1> QED BY <1>3, <1>4, <1>5, <1>6 DEF IInv

LEMMA CreateFailsOwns ==
  ASSUME IInv, NEW e \in Structs, LiveOnes = {}, CreateFails(e),
         UNCHANGED build, initialised' = FALSE
  PROVE  IInv'
<1>1. vmm = NoVmm /\ layout = 0 /\ l1 = {} /\ states = {}
  BY DEF IInv, OwnedTogether
<1>2. Cleared(e)
  BY DEF CreateFails, LayoutFails, VmmFails, CpuFails
<1>3. reserved' \in Nat
  <2>1. reserved \in Nat /\ ReservedWith(LayoutReady) \in Nat
    BY <1>1 DEF IInv, ProgramTypeOK, ReservedWith, LayoutReady
  <2> QED BY <2>1 DEF CreateFails, LayoutFails, VmmFails, CpuFails
<1>4. vmm' = NoVmm /\ layout' = 0 /\ l1' = {} /\ states' = {}
  BY <1>1 DEF CreateFails, LayoutFails, VmmFails, CpuFails, LayoutGone
<1>5. \A f \in Structs : emulators[f].live => f = e
  BY DEF LiveOnes
<1> QED BY <1>2, <1>3, <1>4, <1>5, NoneOwns

LEMMA DestroyedOwns ==
  ASSUME IInv, OneStruct, NEW e \in Structs, Destroyed(e),
         (build = "native" /\ e \in Emulators) \/ (build = "web" /\ e = Global),
         UNCHANGED build, initialised' = FALSE
  PROVE  IInv'
<1>1. \A f \in Structs : emulators[f].live => f = e
  BY DEF IInv, WhoLives, OneStruct, Structs
<1>2. LiveOnes \subseteq {e} /\ (emulators[e].live <=> vmm # NoVmm)
  BY <1>1 DEF LiveOnes, IInv, OwnedTogether
<1>3. vmm' = NoVmm /\ states' = {}
  BY <1>2 DEF Destroyed, IInv, OwnedTogether
<1>4. Cleared(e) /\ layout' = 0 /\ l1' = {} /\ reserved' \in Nat
  BY DEF Destroyed, LayoutGone, IInv, ProgramTypeOK
<1> QED BY <1>1, <1>3, <1>4, NoneOwns

-----------------------------------------------------------------------------
(* The host program.                                                       *)

LEMMA LoadKeeps ==
  ASSUME IInv, NEW e \in Emulators, UNCHANGED build, Load(e)
  PROVE  IInv'
<1> DEFINE r == Loaded(emulators[e])
<1>1. emulators[e] \in Struct /\ emulators[e].live
  BY DEF IInv, ProgramTypeOK, Structs, Load
<1>2. r \in Struct /\ r.live /\ r.loaded
  <2>1. EntryState(emulators[e]) \in Struct /\ EntryState(emulators[e]).live
    BY <1>1 DEF Struct, EntryState, Entry
  <2>2. emulators[e].pages + 1 \in Nat
    BY <1>1 DEF Struct
  <2> HIDE DEF r
  <2> QED BY <2>1, <2>2 DEF Struct, Loaded, r
<1>3. emulators' = [emulators EXCEPT ![e] = r]
  BY DEF Load
<1>4. vmm # NoVmm /\ l1' \subseteq {vmm.arena}
  BY <1>1 DEF IInv, OwnedTogether, LiveOnes, Structs, Load
<1>5. UNCHANGED Singletons /\ e \in Structs
  BY DEF Load, Structs
<1> HIDE DEF r
<1> QED BY <1>1, <1>2, <1>3, <1>4, <1>5, LifeGoesOn

LEMMA UnloadKeeps ==
  ASSUME IInv, NEW e \in Emulators, UNCHANGED build, Unload(e)
  PROVE  IInv'
<1> DEFINE r == Unloaded(emulators[e])
<1>1. emulators[e] \in Struct /\ emulators[e].live
  BY DEF IInv, ProgramTypeOK, Structs, Unload
<1>2. r \in Struct /\ r.live /\ ~ r.loaded /\ r.pages = 0 /\ r.sessions = 0
  BY <1>1 DEF Struct, Unloaded
<1>3. emulators' = [emulators EXCEPT ![e] = r]
  BY DEF Unload
<1>4. vmm # NoVmm /\ l1' \subseteq {vmm.arena}
  BY <1>1 DEF IInv, OwnedTogether, LiveOnes, Structs, Unload
<1>5. UNCHANGED Singletons /\ e \in Structs
  BY DEF Unload, Structs
<1> HIDE DEF r
<1> QED BY <1>1, <1>2, <1>3, <1>4, <1>5, LifeGoesOn

LEMMA LoadFailsKeeps ==
  ASSUME IInv, NEW e \in Emulators, UNCHANGED build, LoadFails(e)
  PROVE  IInv'
<1> DEFINE r == [emulators[e] EXCEPT !.pages = 0]
<1>1. emulators[e] \in Struct /\ e \in Structs
  BY DEF IInv, ProgramTypeOK, Structs
<1>2. ~ emulators[e].loaded /\ emulators[e].sessions = 0
  BY <1>1 DEF LoadFails, IInv, CleanUnloaded
<1>3. /\ r \in Struct /\ r.live = emulators[e].live
      /\ ~ r.loaded /\ r.pages = 0 /\ r.sessions = 0
  BY <1>1, <1>2 DEF Struct
<1>4. emulators' = [emulators EXCEPT ![e] = r] /\ UNCHANGED <<Singletons, l1>>
  BY DEF LoadFails
<1> HIDE DEF r
<1> QED BY <1>1, <1>3, <1>4, LifeGoesOn

LEMMA GuestRunsKeeps ==
  ASSUME IInv, NEW e \in Emulators, UNCHANGED build, GuestRuns(e)
  PROVE  IInv'
<1>1. PICK x \in Values, pc \in Values, n \in 1 .. 2, s \in 0 .. 1 :
        emulators' = [emulators EXCEPT ![e].x = x, ![e].pc = pc, ![e].pages = n,
                                       ![e].sessions = s]
  BY DEF GuestRuns
<1> DEFINE r == [emulators[e] EXCEPT !.x = x, !.pc = pc, !.pages = n, !.sessions = s]
<1>2. emulators[e] \in Struct /\ e \in Structs
  BY DEF IInv, ProgramTypeOK, Structs
<1>3. emulators[e].loaded /\ emulators[e].live
  BY <1>2 DEF GuestRuns, IInv, CleanUnloaded
<1>4. r \in Struct /\ r.live /\ r.loaded
  <2>1. x \in Values \cup {0} /\ pc \in Values \cup {0, Entry} /\ n \in Nat /\ s \in Nat
    OBVIOUS
  <2> QED BY <1>2, <1>3, <2>1 DEF Struct
<1>5. emulators' = [emulators EXCEPT ![e] = r] /\ UNCHANGED <<Singletons, l1>>
  BY <1>1, <1>2 DEF GuestRuns, IInv, ProgramTypeOK
<1> HIDE DEF r
<1> QED BY <1>2, <1>3, <1>4, <1>5, LifeGoesOn

\* A budget left, or a register set, in a struct.
LEMMA RegistersKeep ==
  ASSUME IInv, NEW e \in Structs, NEW v \in Values, UNCHANGED <<Singletons, l1, build>>,
         emulators' = [emulators EXCEPT ![e].cycles = v]
           \/ emulators' = [emulators EXCEPT ![e].x = v]
  PROVE  IInv'
<1>1. emulators[e] \in Struct
  BY DEF IInv, ProgramTypeOK
<1>2. ASSUME NEW r \in {[emulators[e] EXCEPT !.cycles = v], [emulators[e] EXCEPT !.x = v]},
             emulators' = [emulators EXCEPT ![e] = r]
      PROVE  IInv'
  <2>1. /\ r \in Struct /\ r.live = emulators[e].live /\ r.loaded = emulators[e].loaded
        /\ r.pages = emulators[e].pages /\ r.sessions = emulators[e].sessions
    BY <1>1, <1>2 DEF Struct
  <2>2. (r.loaded => r.live) /\ (~ r.loaded => r.pages = 0 /\ r.sessions = 0)
    BY <2>1 DEF IInv, CleanUnloaded
  <2> QED BY <1>2, <2>1, <2>2, LifeGoesOn
<1> QED BY <1>2

\* A step that leaves all of the emulator's state but the answer alone.
LEMMA QuietKeeps ==
  ASSUME IInv, Quiet, UNCHANGED <<emulators, build>>
  PROVE  IInv'
<1>1. ProgramTypeOK' /\ CleanUnloaded' /\ WhoLives' /\ OwnedTogether'
  BY DEF IInv, ProgramTypeOK, CleanUnloaded, WhoLives, OwnedTogether, LiveOnes,
         Quiet, Singletons
<1> QED BY <1>1 DEF IInv

LEMMA HostKeeps ==
  ASSUME IInv, OneStruct, build = "native", NEW e \in Emulators, Host(e), UNCHANGED build
  PROVE  IInv'
<1>1. e \in Structs /\ initialised = FALSE
  BY DEF IInv, ProgramTypeOK, WhoLives, Structs
<1>2. CASE Load(e)      BY <1>2, LoadKeeps
<1>3. CASE Unload(e)    BY <1>3, UnloadKeeps
<1>4. CASE LoadFails(e) BY <1>4, LoadFailsKeeps
<1>5. CASE GuestRuns(e) BY <1>5, GuestRunsKeeps
<1>6. CASE Destroy(e)
  <2>1. Destroyed(e) /\ initialised' = FALSE
    BY <1>1, <1>6 DEF Destroy
  <2>2. (build = "native" /\ e \in Emulators) \/ (build = "web" /\ e = Global)
    OBVIOUS
  <2> QED BY <1>1, <2>1, <2>2, DestroyedOwns, ZenonT(30)
<1>7. CASE Create(e)
  <2>1. LiveOnes = {}
    BY <1>7 DEF Create, LiveOnes, IInv, WhoLives, OneStruct, Structs
  <2>2. (Created(e) \/ CreateFails(e)) /\ initialised' = FALSE
    BY <1>1, <1>7 DEF Create
  <2>3. CASE Created(e)     BY <1>1, <2>1, <2>2, <2>3, CreatedOwns
  <2>4. CASE CreateFails(e) BY <1>1, <2>1, <2>2, <2>4, CreateFailsOwns
  <2> QED BY <2>2, <2>3, <2>4
<1>8. CASE Run(e)
  <2>1. PICK v \in Values : emulators' = [emulators EXCEPT ![e].cycles = v]
    BY <1>8 DEF Run
  <2>2. UNCHANGED <<Singletons, l1>>
    BY <1>8 DEF Run
  <2> QED BY <1>1, <2>1, <2>2, RegistersKeep
<1> QED BY <1>2, <1>3, <1>4, <1>5, <1>6, <1>7, <1>8 DEF Host

-----------------------------------------------------------------------------
(* The web worker.                                                         *)

LEMMA WebKeeps ==
  ASSUME IInv, OneStruct, build = "web", Web, UNCHANGED build
  PROVE  IInv'
<1>1. Global \in Structs
  BY DEF Structs
<1>2. CASE CreateFfi
  <2>1. CASE MayCreate
    <3>1. LiveOnes = {} /\ initialised = FALSE
      BY <2>1 DEF MayCreate, LiveOnes, IInv, ProgramTypeOK, WhoLives, Structs
    <3>2. CASE Created(Global) /\ initialised' = TRUE
      BY <1>1, <3>1, <3>2, CreatedOwns
    <3>3. CASE CreateFails(Global) /\ UNCHANGED initialised
      BY <1>1, <3>1, <3>3, CreateFailsOwns
    <3> QED BY <1>2, <2>1, <3>2, <3>3 DEF CreateFfi
  <2>2. CASE ~ MayCreate
    BY <1>2, <2>2, QuietKeeps DEF CreateFfi
  <2> QED BY <2>1, <2>2
<1>3. CASE DestroyFfi
  <2>1. CASE initialised
    BY <1>1, <1>3, <2>1, DestroyedOwns DEF DestroyFfi
  <2>2. CASE ~ initialised
    BY <1>3, <2>2, QuietKeeps DEF DestroyFfi
  <2> QED BY <2>1, <2>2
<1>4. CASE GetRegFfi \/ GetPcFfi \/ LayoutGetFfi
  BY <1>4, QuietKeeps DEF GetRegFfi, GetPcFfi, LayoutGetFfi
<1>5. ASSUME NEW value \in Values, RunFfi(value) \/ SetRegFfi(value)
      PROVE  IInv'
  <2>1. Quiet
    BY <1>5 DEF RunFfi, SetRegFfi
  <2>2. CASE initialised
    BY <1>1, <1>5, <2>1, <2>2, RegistersKeep DEF RunFfi, SetRegFfi, Quiet
  <2>3. CASE ~ initialised
    BY <1>5, <2>1, <2>3, QuietKeeps DEF RunFfi, SetRegFfi
  <2> QED BY <2>2, <2>3
<1> QED BY <1>2, <1>3, <1>4, <1>5 DEF Web

-----------------------------------------------------------------------------
LEMMA InitOwns ==
  ASSUME ProgramInit
  PROVE  IInv
<1>1. /\ layout = 0 /\ reserved = 0 /\ vmm = NoVmm /\ l1 = {} /\ states = {}
      /\ emulators = [e \in Structs |-> Zeroed]
      /\ initialised = FALSE /\ build \in {"native", "web"}
  BY DEF ProgramInit, Init, Structs
<1>2. emulators \in [Structs -> Struct] /\ \A e \in Structs : emulators[e] = Zeroed
  BY <1>1, ZeroedStruct
<1>3. ProgramTypeOK
  BY <1>1, <1>2 DEF ProgramTypeOK, NoVmm
<1>4. CleanUnloaded
  BY <1>2 DEF CleanUnloaded, Zeroed
<1>5. WhoLives
  BY <1>1, <1>2 DEF WhoLives, Zeroed, Structs
<1>6. OwnedTogether
  BY <1>1, <1>2 DEF OwnedTogether, LiveOnes, Zeroed
<1> QED BY <1>3, <1>4, <1>5, <1>6 DEF IInv

LEMMA StepOwns ==
  ASSUME IInv, OneStruct, [ProgramNext]_allVars
  PROVE  IInv'
<1>1. CASE UNCHANGED allVars
  BY <1>1, QuietKeeps DEF allVars, vars, Quiet, Singletons
<1>2. CASE ProgramNext
  <2>1. UNCHANGED build
    BY <1>2 DEF ProgramNext
  <2>2. CASE Guest
    BY <2>1, <2>2, QuietKeeps DEF Guest, vars, Quiet, Singletons
  <2>3. ASSUME build = "native", NEW e \in Emulators, Host(e)
        PROVE  IInv'
    BY <2>1, <2>3, HostKeeps
  <2>4. CASE build = "web" /\ Web
    BY <2>1, <2>4, WebKeeps
  <2> QED BY <1>2, <2>2, <2>3, <2>4 DEF ProgramNext
<1> QED BY <1>1, <1>2

\* Only emulator_load_program brings a program in, and from an unloaded struct
\* that is clean it makes the state of a first program.
LEMMA StepStartsClean ==
  ASSUME IInv, OneStruct, [ProgramNext]_allVars, NEW f \in Structs,
         emulators'[f].loaded, ~ emulators[f].loaded
  PROVE  emulators'[f] = [EntryState(Zeroed) EXCEPT !.live = TRUE, !.loaded = TRUE,
                                             !.pages = 1, !.cycles = emulators[f].cycles]
<1>1. emulators \in [Structs -> Struct] /\ emulators[f] \in Struct
  BY DEF IInv, ProgramTypeOK
<1>2. ASSUME NEW e \in Structs, NEW r, emulators' = [emulators EXCEPT ![e] = r],
             ~ r.loaded \/ emulators[e].loaded
      PROVE  FALSE
  BY <1>1, <1>2
<1>3. ASSUME NEW e \in Structs, Cleared(e)
      PROVE  FALSE
  BY <1>2, <1>3 DEF Cleared, Zeroed
<1>4. emulators' # emulators
  OBVIOUS
<1>5. ASSUME NEW e \in Structs, Created(e) \/ CreateFails(e) \/ Destroyed(e)
      PROVE  FALSE
  BY <1>2, <1>3, <1>5 DEF Created, CreateFails, LayoutFails, VmmFails, CpuFails,
                          Destroyed, Zeroed
<1>6. ASSUME NEW e \in Structs, NEW v,
             emulators' = [emulators EXCEPT ![e].cycles = v]
               \/ emulators' = [emulators EXCEPT ![e].x = v]
      PROVE  FALSE
  BY <1>1, <1>6 DEF Struct
<1>7. PICK e \in Emulators : Load(e)
  <2>1. ~ UNCHANGED emulators /\ ProgramNext
    BY <1>4 DEF allVars, vars
  <2>2. ~ Guest
    BY <1>4 DEF Guest, vars
  <2>3. ~ Web
    <3>1. Global \in Structs
      BY DEF Structs
    <3> QED BY <1>4, <1>5, <1>6, <3>1 DEF Web, CreateFfi, DestroyFfi, RunFfi, SetRegFfi,
                                      GetRegFfi, GetPcFfi, LayoutGetFfi
  <2>4. PICK e \in Emulators : Host(e)
    BY <2>1, <2>2, <2>3 DEF ProgramNext
  <2>5. e \in Structs
    BY DEF Structs
  <2>6. ~ Create(e) /\ ~ Destroy(e)
    BY <1>5, <2>5 DEF Create, Destroy
  <2>7. ~ Run(e)
    BY <1>6, <2>5 DEF Run
  <2>8. ~ Unload(e)
    BY <1>2, <2>5 DEF Unload
  <2>9. ~ LoadFails(e)
    BY <1>1, <2>5 DEF LoadFails, Struct
  <2>10. ~ GuestRuns(e)
    BY <1>1, <2>5 DEF GuestRuns, Struct
  <2> QED BY <2>4, <2>6, <2>7, <2>8, <2>9, <2>10 DEF Host
<1>8. emulators' = [emulators EXCEPT ![e] = Loaded(emulators[e])] /\ e \in Structs
  BY <1>7 DEF Load, Structs
<1>9. f = e
  BY <1>1, <1>8
<1>10. emulators'[f] = Loaded(emulators[f]) /\ emulators[f].live
  BY <1>1, <1>7, <1>8, <1>9 DEF Load
<1>11. emulators[f].pages = 0 /\ emulators[f].sessions = 0
  BY DEF IInv, CleanUnloaded
<1> DEFINE m == emulators[f]
           Loads(w) == [w EXCEPT !.loaded = TRUE, !.pages = 1]
<1>12. m \in Struct /\ m.live /\ m.pages = 0 /\ m.sessions = 0
  BY <1>1, <1>10, <1>11
<1>13. Loaded(m) = Loads(EntryState(m))
  BY <1>12 DEF Loaded
<1>14. EntryState(m) = [EntryState(Zeroed) EXCEPT !.live = TRUE, !.cycles = m.cycles]
  <2>1. ASSUME NEW z \in Struct, z.sessions = 0, z.pages = 0, ~ z.loaded, ~ m.loaded
        PROVE  EntryState(m) = [EntryState(z) EXCEPT !.live = TRUE, !.cycles = m.cycles]
    <3> HIDE DEF m
    <3> QED BY <1>12, <2>1 DEF EntryState, Struct
  <2>2. Zeroed \in Struct /\ Zeroed.sessions = 0 /\ Zeroed.pages = 0 /\ ~ Zeroed.loaded
    BY ZeroedStruct DEF Zeroed
  <2> QED BY <2>1, <2>2
<1>15. EntryState(Zeroed) \in Struct
  BY ZeroedStruct DEF EntryState, Struct
<1>16. Loads([EntryState(Zeroed) EXCEPT !.live = TRUE, !.cycles = m.cycles])
         = [EntryState(Zeroed) EXCEPT !.live = TRUE, !.loaded = TRUE, !.pages = 1,
                                      !.cycles = m.cycles]
  <2> HIDE DEF m
  <2> QED BY <1>12, <1>15 DEF Struct
<1> QED BY <1>10, <1>13, <1>14, <1>16

-----------------------------------------------------------------------------
(* The theorems.                                                           *)

\* The invariant is inductive.
THEOREM Owned == ASSUME OneStruct PROVE ProgramSpec => []IInv
<1>1. ProgramInit => IInv
  BY InitOwns
<1>2. IInv /\ [ProgramNext]_allVars => IInv'
  BY StepOwns
<1> QED BY <1>1, <1>2, PTL DEF ProgramSpec

\* Whatever step of emulator_create fails, and after every emulator_destroy, no
\* layout, context or backend state is left without an emulator, and the
\* worker's flag tells whether its emulator is there.
THEOREM NothingIsLeft == ASSUME OneStruct PROVE ProgramSpec => []NothingLeftBehind
<1>1. IInv => NothingLeftBehind
  <2> SUFFICES ASSUME IInv PROVE NothingLeftBehind
    OBVIOUS
  <2>1. DOMAIN emulators = Structs
    BY DEF IInv, ProgramTypeOK
  <2> QED BY <2>1 DEF NothingLeftBehind, IInv, WhoLives, OwnedTogether, LiveOnes
<1> QED BY <1>1, Owned, PTL

\* The live softmmu context walks the live layout's L1 region and finds nothing
\* of an earlier context there.
THEOREM WalksOwn == ASSUME OneStruct PROVE ProgramSpec => []WalksItsOwnTables
<1>1. IInv => WalksItsOwnTables
  BY DEF IInv, OwnedTogether, WalksItsOwnTables, VmmLive
<1> QED BY <1>1, Owned, PTL

\* Every program starts with the registers, sessions and pages of a first one,
\* after any history of runs, unloads and loads that failed.
THEOREM StartsClean == ASSUME OneStruct PROVE ProgramSpec => FreshProgramStartsClean
<1> DEFINE Clean ==
      \A e \in DOMAIN emulators :
       emulators'[e].loaded /\ ~ emulators[e].loaded =>
         emulators'[e] = [EntryState(Zeroed) EXCEPT !.live = TRUE, !.loaded = TRUE,
                                                    !.pages = 1, !.cycles = emulators[e].cycles]
<1>1. IInv /\ [ProgramNext]_allVars => [Clean]_vars
  <2> SUFFICES ASSUME IInv, [ProgramNext]_allVars PROVE Clean
    OBVIOUS
  <2>1. DOMAIN emulators = Structs
    BY DEF IInv, ProgramTypeOK
  <2> QED BY <2>1, StepStartsClean
<1>2. FreshProgramStartsClean <=> [][Clean]_vars
  BY DEF FreshProgramStartsClean
<1> HIDE DEF Clean
<1> QED BY <1>1, <1>2, Owned, PTL DEF ProgramSpec

-----------------------------------------------------------------------------
(* The threads.  T!EachThreadItsOwnBlock is inductive once main is known   *)
(* to outlive the threads and the blocks in use are known to be finite.    *)

Gva == Nat \X Nat
Thread == [tls_gva : Gva, tpidrro : Gva]
Page == [frame : Frames, used : SUBSET T!Blocks]

UsedIn(pages) == UNION {{p} \X pages[p].used : p \in DOMAIN pages}
DistinctFrames(pages) == \A p, q \in DOMAIN pages : pages[p].frame = pages[q].frame => p = q

ThreadsTypeOK ==
  /\ mapped \in Seq(Page)
  /\ threads \in [Slots -> Thread]
  /\ main \in Thread

TInv ==
  /\ ThreadsTypeOK
  /\ T!EachThreadItsOwnBlock
  /\ IsFiniteSet(T!UsedBlocks)
  /\ main = T!None => T!Owners = {}

LEMMA OneCardinality == \A S : T!Cardinality(S) = Cardinality(S)
BY DEF T!Cardinality, Cardinality

LEMMA FunctionIsSeq ==
  ASSUME NEW S, NEW n \in Nat, NEW s \in [1 .. n -> S]
  PROVE  s \in Seq(S)
OBVIOUS

LEMMA LeastIsLeast ==
  ASSUME NEW S \in SUBSET Nat, S # {}
  PROVE  T!Least(S) \in S
<1>1. PICK x \in S : \A y \in S : x <= y
  BY LeastMember
<1> QED BY <1>1 DEF T!Least

LEMMA InUseIn ==
  ASSUME NEW pages
  PROVE  /\ \A p, b : <<p, b>> \in UsedIn(pages) <=> p \in DOMAIN pages /\ b \in pages[p].used
         /\ \A x \in UsedIn(pages) : x = <<x[1], x[2]>>
BY DEF UsedIn

\* The pages tls_allocate claims a block of, and the block.
LEMMA PagesToClaimFrom ==
  ASSUME TInv, NEW f \in Frames, T!TakesFrame(f)
  PROVE  LET P == T!PagesWith(f)
             g == T!PickBlock IN
         /\ P \in Seq(Page) /\ DistinctFrames(P)
         /\ \A p \in DOMAIN P : P[p].frame \in taken'
         /\ UsedIn(P) = T!UsedBlocks
         /\ g \in Gva /\ g[1] >= 1
         /\ g[1] \in DOMAIN P /\ g[2] \in T!Blocks /\ g[2] \notin P[g[1]].used
<1> DEFINE P == T!PagesWith(f)
           g == T!PickBlock
<1> USE ProgramAssumption
<1>1. mapped \in Seq(Page) /\ DistinctFrames(mapped)
      /\ \A p \in DOMAIN mapped : mapped[p].frame \in taken
  BY DEF TInv, ThreadsTypeOK, T!EachThreadItsOwnBlock, DistinctFrames
<1>2. CASE T!OpenPages = {}
  <2>1. P = Append(mapped, [frame |-> f, used |-> {}]) /\ g = <<Len(mapped) + 1, 0>>
    BY <1>2 DEF T!PagesWith, T!PickBlock
  <2>2. f \notin taken /\ taken' = taken \cup {f}
    BY <1>2 DEF T!TakesFrame
  <2>3. [frame |-> f, used |-> {}] \in Page
    BY DEF Page
  <2>4. /\ P \in Seq(Page) /\ Len(P) = Len(mapped) + 1
        /\ DOMAIN mapped = 1 .. Len(mapped) /\ DOMAIN P = 1 .. Len(mapped) + 1
        /\ \A p \in DOMAIN mapped : P[p] = mapped[p]
        /\ P[Len(mapped) + 1] = [frame |-> f, used |-> {}]
        /\ Len(mapped) \in Nat
    BY <1>1, <2>1, <2>3
  <2> HIDE DEF P, g
  <2>5. DistinctFrames(P) /\ \A p \in DOMAIN P : P[p].frame \in taken'
    BY <1>1, <2>2, <2>4 DEF DistinctFrames
  <2>6. UsedIn(P) = UsedIn(mapped)
    <3>1. \A p, b : p \in DOMAIN P /\ b \in P[p].used <=> p \in DOMAIN mapped /\ b \in mapped[p].used
      BY <2>4
    <3>2. ASSUME NEW x PROVE x \in UsedIn(P) <=> x \in UsedIn(mapped)
      BY <3>1, InUseIn
    <3> QED BY <3>2
  <2>7. g \in Gva /\ g[1] >= 1 /\ g[1] \in DOMAIN P /\ g[2] \in T!Blocks /\ g[2] \notin P[g[1]].used
    BY <2>1, <2>4 DEF Gva, T!Blocks
  <2> QED BY <2>4, <2>5, <2>6, <2>7 DEF P, g, T!UsedBlocks, UsedIn
<1>3. CASE T!OpenPages # {}
  <2>1. P = mapped /\ g = <<T!Least(T!OpenPages), T!Least(T!Blocks \ mapped[T!Least(T!OpenPages)].used)>>
    BY <1>3 DEF T!PagesWith, T!PickBlock
  <2>2. taken' = taken
    BY <1>3 DEF T!TakesFrame
  <2>3. T!Least(T!OpenPages) \in T!OpenPages
    <3>1. DOMAIN mapped \subseteq Nat
      BY <1>1
    <3>2. T!OpenPages \in SUBSET Nat
      BY <3>1 DEF T!OpenPages
    <3> QED BY <1>3, <3>2, LeastIsLeast
  <2> DEFINE p == T!Least(T!OpenPages)
             B == T!Blocks \ mapped[p].used
  <2>4. p \in DOMAIN mapped /\ mapped[p].used # T!Blocks
    BY <2>3 DEF T!OpenPages
  <2>5. mapped[p] \in Page /\ p \in Nat /\ p >= 1
    BY <1>1, <2>4
  <2> HIDE DEF p
  <2>6. B \in SUBSET Nat /\ B # {}
    <3>1. mapped[p].used \in SUBSET T!Blocks
      BY <2>5 DEF Page
    <3>2. T!Blocks \subseteq Nat
      BY DEF T!Blocks
    <3> QED BY <2>4, <3>1, <3>2
  <2>7. T!Least(B) \in B
    BY <2>6, LeastIsLeast
  <2>8. g = <<p, T!Least(B)>>
    BY <2>1 DEF p
  <2> HIDE DEF g, P
  <2>9. g \in Gva /\ g[1] = p /\ g[2] = T!Least(B)
    BY <2>5, <2>6, <2>7, <2>8 DEF Gva
  <2> QED BY <1>1, <2>1, <2>2, <2>4, <2>5, <2>7, <2>9 DEF P, g, T!UsedBlocks, UsedIn
<1> QED BY <1>2, <1>3

\* One block more, the picked one, is in use; its bytes read as zero.
LEMMA OneBlockMore ==
  ASSUME TInv, NEW f \in Frames, T!Allocates(f)
  PROVE  LET g == T!PickBlock IN
         /\ g \in Gva /\ g # <<0, 0>> /\ g \notin T!UsedBlocks
         /\ mapped' \in Seq(Page) /\ DistinctFrames(mapped')
         /\ \A p \in DOMAIN mapped' : mapped'[p].frame \in taken'
         /\ T!UsedBlocks' = T!UsedBlocks \cup {g}
         /\ IsFiniteSet(T!UsedBlocks)' /\ inUse' = Cardinality(T!UsedBlocks')
         /\ T!BytesOf(mapped', g) \notin dirty'
<1> DEFINE P == T!PagesWith(f)
           g == T!PickBlock
<1>1. /\ P \in Seq(Page) /\ DistinctFrames(P)
      /\ \A p \in DOMAIN P : P[p].frame \in taken'
      /\ UsedIn(P) = T!UsedBlocks
      /\ g \in Gva /\ g[1] >= 1
      /\ g[1] \in DOMAIN P /\ g[2] \in T!Blocks /\ g[2] \notin P[g[1]].used
  BY PagesToClaimFrom DEF T!Allocates
<1>2. mapped' = [P EXCEPT ![g[1]].used = @ \cup {g[2]}] /\ dirty' = dirty \ {T!BytesOf(P, g)}
      /\ inUse' = inUse + 1
  BY DEF T!Allocates, T!Claimed, T!Zeroed
<1> HIDE DEF P, g
<1>3. g = <<g[1], g[2]>> /\ g # <<0, 0>>
  BY <1>1 DEF Gva
<1>4. /\ DOMAIN mapped' = DOMAIN P
      /\ \A p \in DOMAIN P : p # g[1] => mapped'[p] = P[p]
      /\ mapped'[g[1]] = [P[g[1]] EXCEPT !.used = @ \cup {g[2]}]
  BY <1>1, <1>2
<1>5. \A p \in DOMAIN P : P[p] \in Page
  BY <1>1
<1>6. /\ mapped'[g[1]].frame = P[g[1]].frame
      /\ mapped'[g[1]].used = P[g[1]].used \cup {g[2]}
      /\ mapped'[g[1]] \in Page
  BY <1>1, <1>4, <1>5 DEF Page
<1>7. mapped' \in Seq(Page)
  <2>1. \A p \in DOMAIN P : mapped'[p] \in Page
    BY <1>4, <1>5, <1>6
  <2>2. DOMAIN P = 1 .. Len(P) /\ Len(P) \in Nat
    BY <1>1
  <2>3. mapped' = [p \in DOMAIN P |-> mapped'[p]]
    BY <1>2
  <2>4. mapped' \in [1 .. Len(P) -> Page]
    BY <2>1, <2>2, <2>3
  <2> QED BY <2>2, <2>4, FunctionIsSeq
<1>8. DistinctFrames(mapped') /\ \A p \in DOMAIN mapped' : mapped'[p].frame \in taken'
  <2>1. \A p \in DOMAIN P : mapped'[p].frame = P[p].frame
    BY <1>4, <1>6
  <2> QED BY <1>1, <1>4, <2>1 DEF DistinctFrames
<1>9. g \notin UsedIn(P)
  BY <1>1, <1>3, InUseIn
<1>10. UsedIn(mapped') = UsedIn(P) \cup {g}
  <2>1. ASSUME NEW x PROVE x \in UsedIn(mapped') <=> x \in UsedIn(P) \cup {g}
    <3>1. ASSUME x \in UsedIn(mapped') PROVE x \in UsedIn(P) \cup {g}
      <4>1. x = <<x[1], x[2]>> /\ x[1] \in DOMAIN P /\ x[2] \in mapped'[x[1]].used
        BY <3>1, <1>4, InUseIn
      <4>2. CASE x[1] = g[1]
        BY <4>1, <4>2, <1>1, <1>3, <1>6, InUseIn
      <4>3. CASE x[1] # g[1]
        BY <4>1, <4>3, <1>4, InUseIn
      <4> QED BY <4>2, <4>3
    <3>2. ASSUME x \in UsedIn(P) PROVE x \in UsedIn(mapped')
      <4>1. x = <<x[1], x[2]>> /\ x[1] \in DOMAIN P /\ x[2] \in P[x[1]].used
        BY <3>2, InUseIn
      <4>2. x[2] \in mapped'[x[1]].used
        BY <4>1, <1>4, <1>6
      <4> QED BY <4>1, <4>2, <1>4, InUseIn
    <3>3. g \in UsedIn(mapped')
      <4>1. <<g[1], g[2]>> \in UsedIn(mapped')
        BY <1>1, <1>4, <1>6, InUseIn
      <4> QED BY <4>1, <1>3
    <3> QED BY <3>1, <3>2, <3>3
  <2> QED BY <2>1
<1>11. T!UsedBlocks' = T!UsedBlocks \cup {g}
  BY <1>1, <1>10 DEF T!UsedBlocks, UsedIn
<1>12. IsFiniteSet(T!UsedBlocks) /\ inUse = Cardinality(T!UsedBlocks)
  BY OneCardinality DEF TInv, T!EachThreadItsOwnBlock
<1>13. IsFiniteSet(T!UsedBlocks \cup {g}) /\ Cardinality(T!UsedBlocks \cup {g}) = inUse + 1
  BY <1>1, <1>9, <1>12, FS_AddElement
<1>14. T!BytesOf(mapped', g) = T!BytesOf(P, g)
  BY <1>6 DEF T!BytesOf
<1> QED BY <1>1, <1>2, <1>3, <1>7, <1>8, <1>9, <1>11, <1>13, <1>14 DEF g

\* What the invariant says of a state.
LEMMA Unfolded ==
  ASSUME TInv
  PROVE  /\ mapped \in Seq(Page) /\ threads \in [Slots -> Thread] /\ main \in Thread
         /\ T!Owners = {slot \in Slots : threads[slot] # T!None}
         /\ \A slot \in T!Owners : threads[slot].tpidrro = threads[slot].tls_gva
         /\ main.tpidrro = main.tls_gva
         /\ \A one, other \in T!Owners : threads[one].tls_gva = threads[other].tls_gva => one = other
         /\ \A slot \in T!Owners : threads[slot].tls_gva # main.tls_gva
         /\ \A slot \in T!Owners : threads[slot].tls_gva \in T!UsedBlocks
         /\ main # T!None => main.tls_gva \in T!UsedBlocks
         /\ \A x \in T!UsedBlocks :
              main # T!None /\ (x = main.tls_gva \/ \E slot \in T!Owners : x = threads[slot].tls_gva)
         /\ IsFiniteSet(T!UsedBlocks) /\ inUse = Cardinality(T!UsedBlocks)
         /\ DistinctFrames(mapped)
         /\ \A p \in DOMAIN mapped : mapped[p].frame \in taken
         /\ main = T!None => T!Owners = {}
<1>1. T!UsedBlocks = IF main = T!None THEN {}
        ELSE {threads[slot].tls_gva : slot \in T!Owners} \cup {main.tls_gva}
  BY DEF TInv, T!EachThreadItsOwnBlock
<1>2. main = T!None => T!Owners = {}
  BY DEF TInv
<1>3. main.tls_gva \notin {threads[slot].tls_gva : slot \in T!Owners}
  BY DEF TInv, T!EachThreadItsOwnBlock
<1>4. T!Owners = {slot \in Slots : threads[slot] # T!None}
  BY DEF T!Owners, T!Live
<1>5. /\ \A slot \in T!Owners : threads[slot].tls_gva # main.tls_gva
      /\ \A slot \in T!Owners : threads[slot].tls_gva \in T!UsedBlocks
      /\ main # T!None => main.tls_gva \in T!UsedBlocks
      /\ \A x \in T!UsedBlocks :
              main # T!None /\ (x = main.tls_gva \/ \E slot \in T!Owners : x = threads[slot].tls_gva)
  BY <1>1, <1>2, <1>3
<1>6. inUse = Cardinality(T!UsedBlocks)
  BY OneCardinality DEF TInv, T!EachThreadItsOwnBlock
<1>7. DistinctFrames(mapped) /\ \A p \in DOMAIN mapped : mapped[p].frame \in taken
  BY DEF TInv, T!EachThreadItsOwnBlock, DistinctFrames
<1>8. mapped \in Seq(Page) /\ threads \in [Slots -> Thread] /\ main \in Thread
  BY DEF TInv, ThreadsTypeOK
<1>9. /\ \A slot \in T!Owners : threads[slot].tpidrro = threads[slot].tls_gva
      /\ main.tpidrro = main.tls_gva
      /\ \A one, other \in T!Owners : threads[one].tls_gva = threads[other].tls_gva => one = other
  BY DEF TInv, T!EachThreadItsOwnBlock
<1> QED BY <1>2, <1>4, <1>5, <1>6, <1>7, <1>8, <1>9 DEF TInv

\* The same read the other way, for the next state.
LEMMA Folded ==
  ASSUME mapped' \in Seq(Page), threads' \in [Slots -> Thread], main' \in Thread,
         NEW O, O = {slot \in Slots : threads'[slot] # T!None},
         \A slot \in O : threads'[slot].tpidrro = threads'[slot].tls_gva,
         main'.tpidrro = main'.tls_gva,
         \A one, other \in O : threads'[one].tls_gva = threads'[other].tls_gva => one = other,
         \A slot \in O : threads'[slot].tls_gva # main'.tls_gva,
         \A slot \in O : threads'[slot].tls_gva \in T!UsedBlocks',
         main' # T!None => main'.tls_gva \in T!UsedBlocks',
         \A x \in T!UsedBlocks' :
           main' # T!None /\ (x = main'.tls_gva \/ \E slot \in O : x = threads'[slot].tls_gva),
         IsFiniteSet(T!UsedBlocks'), inUse' = Cardinality(T!UsedBlocks'),
         DistinctFrames(mapped'),
         \A p \in DOMAIN mapped' : mapped'[p].frame \in taken',
         main' = T!None => O = {}
  PROVE  TInv'
<1>1. T!Owners' = O
  BY DEF T!Owners, T!Live
<1>2. T!UsedBlocks' = IF main' = T!None THEN {}
        ELSE {threads'[slot].tls_gva : slot \in O} \cup {main'.tls_gva}
  <2>1. CASE main' = T!None
    BY <2>1
  <2>2. CASE main' # T!None
    BY <2>2
  <2> QED BY <2>1, <2>2
<1>3. main'.tls_gva \notin {threads'[slot].tls_gva : slot \in O}
  OBVIOUS
<1>4. inUse' = T!Cardinality(T!UsedBlocks')
  BY OneCardinality
<1>5. T!EachThreadItsOwnBlock'
  BY <1>1, <1>2, <1>3, <1>4 DEF T!EachThreadItsOwnBlock, DistinctFrames
<1> QED BY <1>1, <1>5 DEF TInv, ThreadsTypeOK

LEMMA ArmedIsThread ==
  ASSUME NEW g \in Gva, g # <<0, 0>>
  PROVE  T!Armed(g) \in Thread /\ T!Armed(g) # T!None
         /\ T!Armed(g).tls_gva = g /\ T!Armed(g).tpidrro = g
BY DEF T!Armed, T!None, Thread

LEMMA NoneIsThread == T!None \in Thread /\ T!None.tpidrro = T!None.tls_gva
BY DEF T!None, Thread, Gva

LEMMA BootKeeps ==
  ASSUME TInv, T!Boot
  PROVE  TInv' /\ T!NewBlocksAreZero
<1>1. PICK f \in Frames : T!Allocates(f)
  BY DEF T!Boot
<1>2. main = T!None /\ main' = T!Armed(T!PickBlock) /\ threads' = threads
  BY DEF T!Boot
<1> DEFINE g == T!PickBlock
<1>3. /\ g \in Gva /\ g # <<0, 0>> /\ g \notin T!UsedBlocks
      /\ mapped' \in Seq(Page) /\ DistinctFrames(mapped')
      /\ \A p \in DOMAIN mapped' : mapped'[p].frame \in taken'
      /\ T!UsedBlocks' = T!UsedBlocks \cup {g}
      /\ IsFiniteSet(T!UsedBlocks') /\ inUse' = Cardinality(T!UsedBlocks')
      /\ T!BytesOf(mapped', g) \notin dirty'
  BY <1>1, OneBlockMore
<1>4. T!Armed(g) \in Thread /\ T!Armed(g) # T!None
      /\ T!Armed(g).tls_gva = g /\ T!Armed(g).tpidrro = g
  BY <1>3, ArmedIsThread
<1>5. main' = T!Armed(g)
  BY <1>2
<1> HIDE DEF g
<1>6. T!Owners = {} /\ threads' \in [Slots -> Thread] /\ T!UsedBlocks = {}
      /\ {slot \in Slots : threads'[slot] # T!None} = {}
  BY <1>2, Unfolded
<1>7. TInv'
  BY <1>3, <1>4, <1>5, <1>6, Folded
<1>8. T!NewBlocksAreZero
  BY <1>2, <1>3, <1>4, <1>5 DEF T!NewBlocksAreZero
<1> QED BY <1>7, <1>8

LEMMA TeardownKeeps ==
  ASSUME TInv, T!Teardown
  PROVE  TInv' /\ T!NewBlocksAreZero
<1>1. /\ mapped' = <<>> /\ inUse' = 0 /\ taken' = {} /\ main' = T!None
      /\ threads' = threads /\ \A slot \in Slots : threads[slot] = T!None
  BY DEF T!Teardown, T!Live
<1>2. T!UsedBlocks' = {}
  BY <1>1 DEF T!UsedBlocks
<1>3. IsFiniteSet({}) /\ Cardinality({}) = 0
  BY FS_EmptySet
<1>4. mapped' \in Seq(Page) /\ DOMAIN mapped' = {}
  BY <1>1
<1>5. DistinctFrames(mapped')
  BY <1>4 DEF DistinctFrames
<1>6. {slot \in Slots : threads'[slot] # T!None} = {} /\ threads' \in [Slots -> Thread]
  BY <1>1, Unfolded
<1>7. TInv'
  BY <1>1, <1>2, <1>3, <1>4, <1>5, <1>6, NoneIsThread, Folded
<1>8. T!NewBlocksAreZero
  BY <1>1 DEF T!NewBlocksAreZero
<1> QED BY <1>7, <1>8

LEMMA CreateKeeps ==
  ASSUME TInv, NEW slot \in Slots, T!Create(slot)
  PROVE  TInv' /\ T!NewBlocksAreZero
<1>1. PICK f \in Frames : T!Allocates(f)
  BY DEF T!Create
<1> DEFINE g == T!PickBlock
<1>2. main # T!None /\ threads[slot] = T!None /\ main' = main
      /\ threads' = [threads EXCEPT ![slot] = T!Armed(g)]
  BY DEF T!Create, T!MayCreate, T!Live
<1>3. /\ g \in Gva /\ g # <<0, 0>> /\ g \notin T!UsedBlocks
      /\ mapped' \in Seq(Page) /\ DistinctFrames(mapped')
      /\ \A p \in DOMAIN mapped' : mapped'[p].frame \in taken'
      /\ T!UsedBlocks' = T!UsedBlocks \cup {g}
      /\ IsFiniteSet(T!UsedBlocks') /\ inUse' = Cardinality(T!UsedBlocks')
      /\ T!BytesOf(mapped', g) \notin dirty'
  BY <1>1, OneBlockMore
<1>4. T!Armed(g) \in Thread /\ T!Armed(g) # T!None
      /\ T!Armed(g).tls_gva = g /\ T!Armed(g).tpidrro = g
  BY <1>3, ArmedIsThread
<1> HIDE DEF g
<1> DEFINE O == T!Owners \cup {slot}
<1>5. /\ threads' \in [Slots -> Thread] /\ threads'[slot] = T!Armed(g)
      /\ \A s \in Slots : s # slot => threads'[s] = threads[s]
      /\ slot \notin T!Owners /\ T!Owners \subseteq Slots
  BY <1>2, <1>4, Unfolded
<1>6. O = {s \in Slots : threads'[s] # T!None}
  BY <1>4, <1>5, Unfolded
<1>7. \A s \in T!Owners : threads'[s] = threads[s] /\ threads[s].tls_gva # g
  BY <1>3, <1>5, Unfolded
<1>8. main.tls_gva # g /\ main.tls_gva \in T!UsedBlocks
  BY <1>2, <1>3, Unfolded
<1>9. \A s \in O : threads'[s].tpidrro = threads'[s].tls_gva
  BY <1>4, <1>5, <1>7, Unfolded
<1>10. \A one, other \in O : threads'[one].tls_gva = threads'[other].tls_gva => one = other
  BY <1>4, <1>5, <1>7, Unfolded
<1>11. \A s \in O : threads'[s].tls_gva # main'.tls_gva /\ threads'[s].tls_gva \in T!UsedBlocks'
  BY <1>2, <1>3, <1>4, <1>5, <1>7, <1>8, Unfolded
<1>12. \A x \in T!UsedBlocks' :
         main' # T!None /\ (x = main'.tls_gva \/ \E s \in O : x = threads'[s].tls_gva)
  BY <1>2, <1>3, <1>4, <1>5, <1>7, Unfolded
<1>13. main' \in Thread /\ main'.tpidrro = main'.tls_gva /\ main' # T!None
       /\ main'.tls_gva \in T!UsedBlocks'
  BY <1>2, <1>3, <1>8, Unfolded
<1> HIDE DEF O
<1>14. TInv'
  BY <1>3, <1>5, <1>6, <1>9, <1>10, <1>11, <1>12, <1>13, Folded
<1>15. T!NewBlocksAreZero
  BY <1>2, <1>3, <1>4, <1>5 DEF T!NewBlocksAreZero
<1> QED BY <1>14, <1>15

\* A step that leaves the threads and the blocks in use as they are.
LEMMA SameBlocks ==
  ASSUME TInv, UNCHANGED <<threads, main, inUse>>,
         mapped' \in Seq(Page), DistinctFrames(mapped'),
         \A p \in DOMAIN mapped' : mapped'[p].frame \in taken',
         T!UsedBlocks' = T!UsedBlocks
  PROVE  TInv' /\ T!NewBlocksAreZero
<1>1. T!Owners = {slot \in Slots : threads'[slot] # T!None}
  BY Unfolded
<1>2. TInv'
  BY <1>1, Unfolded, Folded
<1>3. T!NewBlocksAreZero
  BY DEF T!NewBlocksAreZero
<1> QED BY <1>2, <1>3

LEMMA LosesFrameKeeps ==
  ASSUME TInv, NEW slot \in Slots, T!CreateLosesFrame(slot)
  PROVE  TInv' /\ T!NewBlocksAreZero
<1>1. UNCHANGED <<mapped, inUse, main, threads>> /\ taken \subseteq taken'
  BY DEF T!CreateLosesFrame
<1>2. T!UsedBlocks' = T!UsedBlocks
  BY <1>1 DEF T!UsedBlocks
<1>3. mapped' \in Seq(Page) /\ DistinctFrames(mapped')
      /\ \A p \in DOMAIN mapped' : mapped'[p].frame \in taken'
  BY <1>1, Unfolded
<1> QED BY <1>1, <1>2, <1>3, SameBlocks

LEMMA WithoutStateKeeps ==
  ASSUME TInv, NEW slot \in Slots, T!CreateWithoutState(slot)
  PROVE  TInv' /\ T!NewBlocksAreZero
<1>1. PICK f \in Frames : T!TakesFrame(f) /\ mapped' = T!PagesWith(f)
  BY DEF T!CreateWithoutState, T!KeptPages
<1>2. UNCHANGED <<inUse, main, threads>>
  BY DEF T!CreateWithoutState
<1>3. /\ mapped' \in Seq(Page) /\ DistinctFrames(mapped')
      /\ \A p \in DOMAIN mapped' : mapped'[p].frame \in taken'
      /\ UsedIn(mapped') = T!UsedBlocks
  BY <1>1, PagesToClaimFrom
<1>4. T!UsedBlocks' = T!UsedBlocks
  BY <1>3 DEF T!UsedBlocks, UsedIn
<1> QED BY <1>2, <1>3, <1>4, SameBlocks

LEMMA GuestWritesKeeps ==
  ASSUME TInv, NEW STATE thread, T!GuestWrites(thread)
  PROVE  TInv' /\ T!NewBlocksAreZero
<1>1. UNCHANGED <<mapped, inUse, main, threads, taken>>
  BY DEF T!GuestWrites
<1>2. T!UsedBlocks' = T!UsedBlocks
  BY <1>1 DEF T!UsedBlocks
<1> QED BY <1>1, <1>2, Unfolded, SameBlocks

\* One block less is in use.
LEMMA OneBlockLess ==
  ASSUME TInv, NEW g \in T!UsedBlocks, mapped' = T!Released(g), inUse' = inUse - 1,
         UNCHANGED taken
  PROVE  /\ mapped' \in Seq(Page) /\ DistinctFrames(mapped')
         /\ \A p \in DOMAIN mapped' : mapped'[p].frame \in taken'
         /\ T!UsedBlocks' = T!UsedBlocks \ {g}
         /\ IsFiniteSet(T!UsedBlocks') /\ inUse' = Cardinality(T!UsedBlocks')
<1>1. T!UsedBlocks = UsedIn(mapped) /\ T!UsedBlocks' = UsedIn(mapped')
  BY DEF T!UsedBlocks, UsedIn
<1>2. g = <<g[1], g[2]>> /\ g[1] \in DOMAIN mapped /\ g[2] \in mapped[g[1]].used
  BY <1>1, InUseIn
<1>3. /\ mapped \in Seq(Page) /\ DistinctFrames(mapped)
      /\ \A p \in DOMAIN mapped : mapped[p].frame \in taken
      /\ IsFiniteSet(T!UsedBlocks) /\ inUse = Cardinality(T!UsedBlocks)
  BY Unfolded
<1>4. mapped' = [mapped EXCEPT ![g[1]].used = @ \ {g[2]}]
  BY DEF T!Released
<1>5. /\ DOMAIN mapped' = DOMAIN mapped
      /\ \A p \in DOMAIN mapped : p # g[1] => mapped'[p] = mapped[p]
      /\ mapped'[g[1]] = [mapped[g[1]] EXCEPT !.used = @ \ {g[2]}]
  BY <1>2, <1>4
<1>6. \A p \in DOMAIN mapped : mapped[p] \in Page
  BY <1>3
<1>7. /\ mapped'[g[1]].frame = mapped[g[1]].frame
      /\ mapped'[g[1]].used = mapped[g[1]].used \ {g[2]}
      /\ mapped'[g[1]] \in Page
  BY <1>2, <1>5, <1>6 DEF Page
<1>8. mapped' \in Seq(Page)
  <2>1. \A p \in DOMAIN mapped : mapped'[p] \in Page
    BY <1>5, <1>6, <1>7
  <2>2. DOMAIN mapped = 1 .. Len(mapped) /\ Len(mapped) \in Nat
    BY <1>3
  <2>3. mapped' = [p \in DOMAIN mapped |-> mapped'[p]]
    BY <1>4
  <2>4. mapped' \in [1 .. Len(mapped) -> Page]
    BY <2>1, <2>2, <2>3
  <2> QED BY <2>2, <2>4, FunctionIsSeq
<1>9. DistinctFrames(mapped') /\ \A p \in DOMAIN mapped' : mapped'[p].frame \in taken'
  <2>1. \A p \in DOMAIN mapped : mapped'[p].frame = mapped[p].frame
    BY <1>5, <1>7
  <2> QED BY <1>3, <1>5, <2>1 DEF DistinctFrames
<1>10. UsedIn(mapped') = UsedIn(mapped) \ {g}
  <2>1. ASSUME NEW x PROVE x \in UsedIn(mapped') <=> x \in UsedIn(mapped) \ {g}
    <3>1. ASSUME x \in UsedIn(mapped') PROVE x \in UsedIn(mapped) \ {g}
      <4>1. x = <<x[1], x[2]>> /\ x[1] \in DOMAIN mapped /\ x[2] \in mapped'[x[1]].used
        BY <3>1, <1>5, InUseIn
      <4>2. CASE x[1] = g[1]
        BY <4>1, <4>2, <1>2, <1>7, InUseIn
      <4>3. CASE x[1] # g[1]
        BY <4>1, <4>3, <1>5, InUseIn
      <4> QED BY <4>2, <4>3
    <3>2. ASSUME x \in UsedIn(mapped), x # g PROVE x \in UsedIn(mapped')
      <4>1. x = <<x[1], x[2]>> /\ x[1] \in DOMAIN mapped /\ x[2] \in mapped[x[1]].used
        BY <3>2, InUseIn
      <4>2. x[2] \in mapped'[x[1]].used
        BY <4>1, <3>2, <1>2, <1>5, <1>7
      <4> QED BY <4>1, <4>2, <1>5, InUseIn
    <3> QED BY <3>1, <3>2
  <2> QED BY <2>1
<1>11. IsFiniteSet(T!UsedBlocks \ {g}) /\ Cardinality(T!UsedBlocks \ {g}) = inUse - 1
  BY <1>3, FS_RemoveElement
<1> QED BY <1>1, <1>8, <1>9, <1>10, <1>11

LEMMA DestroyKeeps ==
  ASSUME TInv, NEW slot \in Slots, T!Destroy(slot)
  PROVE  TInv' /\ T!NewBlocksAreZero
<1> DEFINE g == threads[slot].tls_gva
           O == T!Owners \ {slot}
<1>1. /\ threads[slot] # T!None /\ mapped' = T!Released(g) /\ inUse' = inUse - 1
      /\ threads' = [threads EXCEPT ![slot] = T!None]
      /\ UNCHANGED <<main, taken, dirty>>
  BY DEF T!Destroy, T!Live
<1>2. slot \in T!Owners /\ g \in T!UsedBlocks /\ T!Owners \subseteq Slots
  BY <1>1, Unfolded
<1>3. /\ mapped' \in Seq(Page) /\ DistinctFrames(mapped')
      /\ \A p \in DOMAIN mapped' : mapped'[p].frame \in taken'
      /\ T!UsedBlocks' = T!UsedBlocks \ {g}
      /\ IsFiniteSet(T!UsedBlocks') /\ inUse' = Cardinality(T!UsedBlocks')
  BY <1>1, <1>2, OneBlockLess
<1>4. /\ threads' \in [Slots -> Thread] /\ threads'[slot] = T!None
      /\ \A s \in Slots : s # slot => threads'[s] = threads[s]
  BY <1>1, NoneIsThread, Unfolded
<1>5. O = {s \in Slots : threads'[s] # T!None}
  BY <1>4, Unfolded
<1>6. \A s \in O : threads'[s] = threads[s] /\ threads[s].tls_gva # g
  BY <1>2, <1>4, Unfolded
<1>7. main.tls_gva # g /\ main # T!None /\ main.tls_gva \in T!UsedBlocks
  BY <1>2, Unfolded
<1> HIDE DEF g
<1>8. \A s \in O : threads'[s].tpidrro = threads'[s].tls_gva
  BY <1>6, Unfolded
<1>9. \A one, other \in O : threads'[one].tls_gva = threads'[other].tls_gva => one = other
  BY <1>6, Unfolded
<1>10. \A s \in O : threads'[s].tls_gva # main'.tls_gva /\ threads'[s].tls_gva \in T!UsedBlocks'
  BY <1>1, <1>3, <1>6, Unfolded
<1>11. \A x \in T!UsedBlocks' :
         main' # T!None /\ (x = main'.tls_gva \/ \E s \in O : x = threads'[s].tls_gva)
  <2> SUFFICES ASSUME NEW x \in T!UsedBlocks'
               PROVE  x = main.tls_gva \/ \E s \in O : x = threads'[s].tls_gva
    BY <1>1, <1>7
  <2>1. x \in T!UsedBlocks /\ x # g
    BY <1>3
  <2>2. x = main.tls_gva \/ \E s \in T!Owners : x = threads[s].tls_gva
    BY <2>1, Unfolded
  <2>3. ASSUME NEW s \in T!Owners, x = threads[s].tls_gva PROVE s \in O /\ threads'[s] = threads[s]
    BY <2>1, <2>3, <1>2, <1>4 DEF g
  <2> QED BY <2>2, <2>3
<1>12. main' \in Thread /\ main'.tpidrro = main'.tls_gva /\ main' # T!None
       /\ main'.tls_gva \in T!UsedBlocks'
  BY <1>1, <1>3, <1>7, Unfolded
<1> HIDE DEF O
<1>13. TInv'
  BY <1>3, <1>4, <1>5, <1>8, <1>9, <1>10, <1>11, <1>12, Folded
<1>14. T!NewBlocksAreZero
  BY <1>1, <1>4 DEF T!NewBlocksAreZero
<1> QED BY <1>13, <1>14

LEMMA ThreadsInit == ProgramInit => TInv
<1> SUFFICES ASSUME T!Init PROVE TInv
  BY DEF ProgramInit
<1>1. /\ mapped = <<>> /\ inUse = 0 /\ main = T!None
      /\ threads = [slot \in Slots |-> T!None] /\ taken = {}
  BY DEF T!Init
<1>2. T!UsedBlocks = {} /\ T!Owners = {}
  BY <1>1 DEF T!UsedBlocks, T!Owners, T!Live
<1>3. IsFiniteSet(T!UsedBlocks) /\ T!Cardinality(T!UsedBlocks) = 0
  BY <1>2, FS_EmptySet, OneCardinality
<1>4. ThreadsTypeOK
  BY <1>1, NoneIsThread DEF ThreadsTypeOK
<1>5. T!EachThreadItsOwnBlock
  BY <1>1, <1>2, <1>3, NoneIsThread DEF T!EachThreadItsOwnBlock
<1> QED BY <1>2, <1>3, <1>4, <1>5 DEF TInv

\* Every step of the emulator or of a thread.
LEMMA ThreadsStep ==
  ASSUME TInv, [ProgramNext]_allVars
  PROVE  TInv' /\ T!NewBlocksAreZero
<1>1. CASE UNCHANGED threadVars
  <2>1. T!UsedBlocks' = T!UsedBlocks
    BY <1>1 DEF T!UsedBlocks, threadVars
  <2> QED BY <1>1, <2>1, Unfolded, SameBlocks DEF threadVars
<1>2. CASE T!Boot
  BY <1>2, BootKeeps
<1>3. CASE T!Teardown
  BY <1>3, TeardownKeeps
<1>4. CASE T!GuestWrites(main)
  BY <1>4, GuestWritesKeeps
<1>5. ASSUME NEW slot \in Slots, T!ThreadStep(slot)
      PROVE  TInv' /\ T!NewBlocksAreZero
  BY <1>5, CreateKeeps, LosesFrameKeeps, WithoutStateKeeps, DestroyKeeps, GuestWritesKeeps
     DEF T!ThreadStep
<1>6. UNCHANGED threadVars \/ T!Boot \/ T!Teardown \/ T!GuestWrites(main)
        \/ \E slot \in Slots : T!ThreadStep(slot)
  BY DEF ProgramNext, allVars, Guest, Host, ThreadsEnd
<1> QED BY <1>1, <1>2, <1>3, <1>4, <1>5, <1>6

\* However threads and programs come, fail to come and go, no two threads share
\* a block, each one's tpidrro_el0 leads to its own, and exactly the owned
\* blocks are marked and counted.
THEOREM BlocksAreOwned == ProgramSpec => []EachThreadItsOwnBlock
<1>1. TInv => EachThreadItsOwnBlock
  BY DEF TInv, EachThreadItsOwnBlock
<1>2. TInv /\ [ProgramNext]_allVars => TInv'
  BY ThreadsStep
<1> QED BY <1>1, <1>2, ThreadsInit, PTL DEF ProgramSpec

\* A thread that was just made finds its block zero, whoever wrote there before.
THEOREM BlocksStartZero == ProgramSpec => FreshBlockIsZero
<1>1. TInv /\ [ProgramNext]_allVars => TInv'
  BY ThreadsStep
<1>2. TInv /\ [ProgramNext]_allVars => [T!NewBlocksAreZero]_allVars
  BY ThreadsStep
<1>3. FreshBlockIsZero <=> [][T!NewBlocksAreZero]_allVars
  BY DEF FreshBlockIsZero
<1> QED BY <1>1, <1>2, <1>3, ThreadsInit, PTL DEF ProgramSpec
=============================================================================
