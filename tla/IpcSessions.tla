----------------------------- MODULE IpcSessions -----------------------------
(***************************************************************************)
(* The IPC system calls of one emulated program and the sessions behind    *)
(* its handles: ConnectToNamedPort, SendSyncRequest and CloseHandle        *)
(* (core/hle/kernel/svc_ipc.c), the session table and the dispatch to      *)
(* service objects (core/hle/kernel/ipc.c), and the registry of "sm:"      *)
(* (core/hle/services/sm/sm.c).                                            *)
(*                                                                         *)
(* A system call runs to its end before the guest continues, so each of    *)
(* its outcomes is one action.  A message is abstracted to what            *)
(* ipc_request_parse makes of it.  held is the guest's own record: the     *)
(* handles the results told it of, and what it asked for to get each.      *)
(***************************************************************************)
EXTENDS Naturals, FiniteSets

CONSTANTS
  Names,             \* service names a guest may ask for
  Services,          \* what the emulator's service modules register
  MaxSessions,       \* IPC_MAX_SESSIONS
  MaxRegistrations   \* SM_MAX_REGISTRATIONS

SmObject == "sm:"

ASSUME IpcAssumption ==
  /\ MaxSessions \in Nat \ {0}
  /\ MaxRegistrations \in Nat
  /\ {SmObject, "nobody"} \cap Services = {}

VARIABLES
  loaded,     \* Emulator::program_loaded
  registry,   \* SM_Context::registrations: a name's service
  sessions,   \* IPC_Session_Table by handle: Closed, or the session
  tls,        \* access of the page with the caller's command buffer
  reply,      \* what the last system call answered
  held        \* the guest's record of its handles

vars == <<loaded, registry, sessions, tls, reply, held>>

Handles == 1 .. MaxSessions
Objects == {SmObject} \cup Services
Session == [object : Objects, server_closed : BOOLEAN]
Nobody  == "nobody"
Closed  == [object |-> Nobody, server_closed |-> FALSE]   \* in_use is false

Answer(h, result) == [result |-> result, on |-> h, served |-> Nobody]
Served(h) == [result |-> "SUCCESS", on |-> h, served |-> sessions[h].object]
NoReply == Answer(0, "none")

Fresh(object) == [object |-> object, server_closed |-> FALSE]
ServerGone(session) == [object |-> session.object, server_closed |-> TRUE]

NoSessions == [h \in Handles |-> Closed]
NoHandles  == [h \in {} |-> NoReply]

-----------------------------------------------------------------------------
(* The session table.                                                      *)

FreeSlots == {h \in Handles : sessions[h] = Closed}

\* MUTANT of FirstFree: the search does not skip the slots in use.
FirstSlot == CHOOSE h \in Handles : \A other \in Handles : h <= other

\* ipc_session_table_open: the lowest free slot; its index + 1 is the handle.
FirstFree == CHOOSE h \in FreeSlots : \A other \in FreeSlots : h <= other

Opened(object) == [sessions EXCEPT ![FirstFree] = Fresh(object)]

IsOpen(h) == h \in Handles /\ sessions[h] # Closed

\* MUTANT of Released: the slot keeps its in_use mark.
StillInUse(h) == [sessions EXCEPT ![h] = ServerGone(@)]

Released(h) == [sessions EXCEPT ![h] = Closed]

\* The guest learns of handle h.
Learns(h, object) ==
  held' = [g \in DOMAIN held \cup {h} |-> IF g = h THEN Fresh(object) ELSE held[g]]

-----------------------------------------------------------------------------
(* The host side.                                                          *)

Init ==
  /\ loaded = FALSE
  /\ registry = [n \in {} |-> Nobody]
  /\ sessions = NoSessions
  /\ tls = "rw"
  /\ reply = NoReply
  /\ held = NoHandles

\* sm_register_service; its errors change nothing.
RegisterService ==
  \E n \in Names \ DOMAIN registry, service \in Services :
    /\ Cardinality(DOMAIN registry) < MaxRegistrations
    /\ registry' = [m \in DOMAIN registry \cup {n} |-> IF m = n THEN service ELSE registry[m]]
    /\ reply' = NoReply
    /\ UNCHANGED <<loaded, sessions, tls, held>>

\* A program starts, with a fresh TLS page.
LoadProgram ==
  /\ ~loaded
  /\ loaded' = TRUE
  /\ tls' = "rw"
  /\ reply' = NoReply
  /\ UNCHANGED <<registry, sessions, held>>

\* MUTANT of UnloadProgram: the session table survives the program.
UnloadKeepsSessions ==
  /\ loaded
  /\ loaded' = FALSE
  /\ held' = NoHandles
  /\ reply' = NoReply
  /\ UNCHANGED <<registry, sessions, tls>>

\* The program's handles go with it: hle_reset_process_state.
UnloadProgram ==
  /\ loaded
  /\ loaded' = FALSE
  /\ sessions' = NoSessions
  /\ held' = NoHandles
  /\ reply' = NoReply
  /\ UNCHANGED <<registry, tls>>

\* vmm_reprotect of the page that holds the command buffer.
TlsReprotected ==
  /\ loaded
  /\ tls' \in {"rw", "r", "none"} \ {tls}
  /\ reply' = NoReply
  /\ UNCHANGED <<loaded, registry, sessions, held>>

-----------------------------------------------------------------------------
(* ConnectToNamedPort.                                                     *)

\* A call that ends early changes nothing but the result register.
Fails(h, result) ==
  /\ reply' = Answer(h, result)
  /\ UNCHANGED <<loaded, registry, sessions, tls, held>>

\* The name faults, has no end within its limit, or is not "sm:".
ConnectRefused ==
  /\ loaded
  /\ \E result \in {"INVALID_POINTER", "OUT_OF_RANGE", "NOT_FOUND"} : Fails(0, result)

ConnectOutOfSessions ==
  /\ loaded
  /\ FreeSlots = {}
  /\ Fails(0, "OUT_OF_SESSIONS")

Connect ==
  /\ loaded
  /\ FreeSlots # {}
  /\ sessions' = Opened(SmObject)
  /\ reply' = Answer(0, "SUCCESS")
  /\ Learns(FirstFree, SmObject)
  /\ UNCHANGED <<loaded, registry, tls>>

-----------------------------------------------------------------------------
(* SendSyncRequest.                                                        *)

\* MUTANT of Reachable: server_closed is not looked at.
OpenIsEnough(h) == loaded /\ IsOpen(h)

\* The handle names an open session whose server end still exists.
Reachable(h) == loaded /\ IsOpen(h) /\ ~sessions[h].server_closed

\* 0 and the first number past the table stand for all that are no handle.
SendRefused ==
  /\ loaded
  /\ \E h \in 0 .. MaxSessions + 1 :
        \/ ~IsOpen(h) /\ Fails(h, "INVALID_HANDLE")
        \/ IsOpen(h) /\ sessions[h].server_closed /\ Fails(h, "CONNECTION_CLOSED")

\* The command buffer cannot be read, or ipc_request_parse rejects it.
SendUnparsed ==
  \E h \in Handles :
    /\ Reachable(h)
    /\ \/ tls = "none" /\ Fails(h, "INVALID_POINTER")
       \/ tls # "none" /\ \E result \in {"INVALID_POINTER", "NOT_IMPLEMENTED"} : Fails(h, result)

\* A Close message is not answered: the session's server end is gone.
SendClose ==
  \E h \in Handles :
    /\ Reachable(h)
    /\ tls # "none"
    /\ sessions' = [sessions EXCEPT ![h] = ServerGone(@)]
    /\ held' = [held EXCEPT ![h] = ServerGone(@)]
    /\ reply' = Answer(h, "SUCCESS")
    /\ UNCHANGED <<loaded, registry, tls>>

\* A request for object, parsed from a readable buffer.
Request(h) == Reachable(h) /\ tls # "none"

\* A command that hands no object out: RegisterClient, an unknown command, a
\* service that is not registered, any such command of a service.
RequestAnswered ==
  \E h \in Handles :
    /\ Request(h)
    /\ tls = "rw"
    /\ reply' = Served(h)
    /\ UNCHANGED <<loaded, registry, sessions, tls, held>>

RequestUndelivered ==
  \E h \in Handles : Request(h) /\ tls = "r" /\ Fails(h, "INVALID_POINTER")

\* What sm_cmd_get_service finds for name n on a session of "sm:".
Finds(h, n) == Request(h) /\ sessions[h].object = SmObject /\ n \in DOMAIN registry

GetServiceOutOfSessions ==
  \E h \in Handles, n \in Names :
    Finds(h, n) /\ FreeSlots = {} /\ Fails(h, "OUT_OF_SESSIONS")

\* MUTANT of GetServiceUndelivered: the session stays open.
UndeliveredStaysOpen ==
  \E h \in Handles, n \in Names :
    /\ Finds(h, n)
    /\ FreeSlots # {}
    /\ tls = "r"
    /\ sessions' = Opened(registry[n])
    /\ reply' = Answer(h, "INVALID_POINTER")
    /\ UNCHANGED <<loaded, registry, tls, held>>

\* The session is opened, the write back faults, and close_handles closes it.
GetServiceUndelivered ==
  \E h \in Handles, n \in Names :
    /\ Finds(h, n)
    /\ FreeSlots # {}
    /\ tls = "r"
    /\ sessions' = [Opened(registry[n]) EXCEPT ![FirstFree] = Closed]
    /\ reply' = Answer(h, "INVALID_POINTER")
    /\ UNCHANGED <<loaded, registry, tls, held>>

\* The guest reads the handle of the service it asked for in the response.
GetService ==
  \E h \in Handles, n \in Names :
    /\ Finds(h, n)
    /\ FreeSlots # {}
    /\ tls = "rw"
    /\ sessions' = Opened(registry[n])
    /\ reply' = Served(h)
    /\ Learns(FirstFree, registry[n])
    /\ UNCHANGED <<loaded, registry, tls>>

-----------------------------------------------------------------------------
(* CloseHandle.                                                            *)

CloseRefused ==
  /\ loaded
  /\ \E h \in 0 .. MaxSessions + 1 : ~IsOpen(h) /\ Fails(h, "INVALID_HANDLE")

CloseHandle ==
  /\ loaded
  /\ \E h \in Handles :
        /\ IsOpen(h)
        /\ sessions' = Released(h)
        /\ held' = [g \in DOMAIN held \ {h} |-> held[g]]
        /\ reply' = Answer(h, "SUCCESS")
  /\ UNCHANGED <<loaded, registry, tls>>

Next ==
  \/ RegisterService
  \/ LoadProgram
  \/ UnloadProgram
  \/ TlsReprotected
  \/ ConnectRefused
  \/ ConnectOutOfSessions
  \/ Connect
  \/ SendRefused
  \/ SendUnparsed
  \/ SendClose
  \/ RequestAnswered
  \/ RequestUndelivered
  \/ GetServiceOutOfSessions
  \/ GetServiceUndelivered
  \/ GetService
  \/ CloseRefused
  \/ CloseHandle

Spec == Init /\ [][Next]_vars

-----------------------------------------------------------------------------
(* Properties.                                                             *)

\* Every variable ranges over the values of its declaration (ipc.h 262-278,
\* sm.h 84-94).
TypeOK ==
  /\ loaded \in BOOLEAN
  /\ DOMAIN registry \subseteq Names
  /\ registry \in [DOMAIN registry -> Services]
  /\ Cardinality(DOMAIN registry) <= MaxRegistrations
  /\ sessions \in [Handles -> Session \cup {Closed}]
  /\ tls \in {"rw", "r", "none"}
  /\ reply.on \in 0 .. MaxSessions + 1
  /\ reply.served \in Objects \cup {Nobody}
  /\ DOMAIN held \subseteq Handles
  /\ held \in [DOMAIN held -> Session]

\* The table holds exactly the sessions the guest holds handles of, each bound
\* to the object the guest asked for and as closed as the guest left it
\* (svc_ipc.c 132-158): no slot leaks when a response is not delivered, no
\* handle is given out twice, and a program starts with none of the last one's.
TableMatchesGuest ==
  \A h \in Handles :
    sessions[h] = IF h \in DOMAIN held THEN held[h] ELSE Closed

\* A system call that reports an error leaves every session and every handle
\* as it was, the one it names included (svc_ipc.h 57-64).
FailedCallChangesNothing ==
  [][reply'.result \notin {"none", "SUCCESS"} => UNCHANGED <<sessions, held>>]_vars

\* A handle means one object from the answer that gave it out to its
\* CloseHandle: it is never given out again meanwhile, a request on it is
\* served by that object, and by none once the guest has sent a Close
\* (ipc.c 51-64, svc_ipc.c 77-85).
HandleKeepsItsMeaning ==
  [][/\ \A h \in DOMAIN held \cap DOMAIN held' : held'[h].object = held[h].object
     /\ reply'.served # Nobody => held[reply'.on] = Fresh(reply'.served)]_vars

=============================================================================
