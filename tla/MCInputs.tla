------------------------------- MODULE MCInputs -------------------------------
(***************************************************************************)
(* What comes from outside: a title's package down to its segments         *)
(* (Loader), its process descriptor (NPDM), its file system (RomFS), the   *)
(* sizes that place its address space (AddressSpace), and the messages it  *)
(* sends (IpcMessage).  These are readers and calculations that share no   *)
(* state, so a behaviour is of one of them, which "part" names; the others *)
(* stay in a state in which nothing has been given to them.                *)
(***************************************************************************)
EXTENDS AddressSpace, Loader, NPDM, RomFS, IpcMessage,
        MCLoader, MCNPDM, MCRomFS, MCIpcMessage

VARIABLE part    \* the part this behaviour is of

SpaceTypes == {"39 bits", "36 bits"}

Given(name, condition, unused) == IF part = name THEN condition ELSE unused

InputsInit ==
  /\ part \in {"space", "loader", "npdm", "romfs", "ipc"}
  /\ Init
  /\ Given("loader", package \in Packages, package = "none") /\ LoaderStart
  /\ Given("npdm", file \in DescriptorFiles, file = "none") /\ NpdmStart
  /\ Given("romfs", AnImage, image = <<>> /\ intact = TRUE) /\ RomStart
  /\ Given("ipc", table \in Tables, table = <<>>) /\ MessageStart

\* Bound: one call that succeeds; what it is given does not depend on the last.
SpaceStep == part = "space" /\ out = NoSpace /\ Next
               /\ UNCHANGED <<part, loaderVars, npdmVars, romVars, messageVars>>
LoaderStep == part = "loader" /\ LoaderNext
                /\ UNCHANGED <<part, vars, npdmVars, romVars, messageVars>>
NpdmStep == part = "npdm" /\ NpdmNext
              /\ UNCHANGED <<part, vars, loaderVars, romVars, messageVars>>
RomStep == part = "romfs" /\ RomNext
             /\ UNCHANGED <<part, vars, loaderVars, npdmVars, messageVars>>
MessageStep == part = "ipc" /\ MessageNext
                 /\ UNCHANGED <<part, vars, loaderVars, npdmVars, romVars>>

InputsNext == SpaceStep \/ LoaderStep \/ NpdmStep \/ RomStep \/ MessageStep

inputsVars == <<part, vars, loaderVars, npdmVars, romVars, messageVars>>

\* The loop over a bucket's chain goes on once it has begun.
Walks == ChainStep /\ UNCHANGED <<part, vars, loaderVars, npdmVars, messageVars>>

InputsSpec == InputsInit /\ [][InputsNext]_inputsVars /\ WF_inputsVars(Walks)
==============================================================================
