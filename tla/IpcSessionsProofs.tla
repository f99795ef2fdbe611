------------------------- MODULE IpcSessionsProofs --------------------------
(***************************************************************************)
(* For every size of the session table and of the registry: the table is   *)
(* the guest's own record of its handles, an error changes nothing, and a  *)
(* handle keeps its meaning.                                               *)
(*                                                                         *)
(* TypeOK and TableMatchesGuest are inductive together once the registry   *)
(* is known to be finite, which its bound needs.                           *)
(***************************************************************************)
EXTENDS IpcSessions, FiniteSetTheorems, LoopLemmas, TLAPS

IInv ==
  /\ TypeOK
  /\ TableMatchesGuest
  /\ IsFiniteSet(DOMAIN registry)

(* The slot ipc_session_table_open takes is a free one. *)
LEMMA FirstFreeIsFree ==
  ASSUME FreeSlots # {}
  PROVE  FirstFree \in FreeSlots
<1>1. FreeSlots \subseteq Nat
  BY IpcAssumption DEF FreeSlots, Handles
<1>2. PICK h \in FreeSlots : \A other \in FreeSlots : h <= other
  BY <1>1, LeastMember
<1> QED BY <1>2 DEF FirstFree

(* Opening a session in the first free slot while the guest learns its     *)
(* handle keeps the table and the guest's record equal.                    *)
LEMMA OpeningKeepsTheRecord ==
  ASSUME IInv, FreeSlots # {}, NEW object \in Objects,
         sessions' = Opened(object), Learns(FirstFree, object)
  PROVE  /\ sessions' \in [Handles -> Session \cup {Closed}]
         /\ DOMAIN held' \subseteq Handles
         /\ held' \in [DOMAIN held' -> Session]
         /\ TableMatchesGuest'
         /\ \A h \in DOMAIN held \cap DOMAIN held' : held'[h].object = held[h].object
<1> DEFINE f == FirstFree
<1>1. f \in Handles /\ sessions[f] = Closed
  BY FirstFreeIsFree DEF FreeSlots
<1>2. Fresh(object) \in Session /\ Fresh(object) # Closed
  BY IpcAssumption DEF Fresh, Session, Closed, Objects, Nobody, SmObject
<1>3. f \notin DOMAIN held
  <2>1. SUFFICES ASSUME f \in DOMAIN held PROVE FALSE
    OBVIOUS
  <2>2. held[f] = Closed /\ held[f] \in Session
    BY <1>1, <2>1 DEF IInv, TypeOK, TableMatchesGuest
  <2>3. Closed \notin Session
    BY IpcAssumption DEF Session, Closed, Objects, Nobody, SmObject
  <2> QED
    BY <2>2, <2>3
<1> HIDE DEF f
<1>4. sessions' = [sessions EXCEPT ![f] = Fresh(object)]
  BY DEF Opened, f
<1>5. held' = [g \in DOMAIN held \cup {f} |-> IF g = f THEN Fresh(object) ELSE held[g]]
  BY DEF Learns, f
<1>6. sessions' \in [Handles -> Session \cup {Closed}]
  BY <1>2, <1>4 DEF IInv, TypeOK
<1>7. DOMAIN held' \subseteq Handles /\ held' \in [DOMAIN held' -> Session]
  BY <1>1, <1>2, <1>5 DEF IInv, TypeOK
<1>8. TableMatchesGuest'
  <2>1. SUFFICES ASSUME NEW h \in Handles
                 PROVE  sessions'[h] = IF h \in DOMAIN held' THEN held'[h] ELSE Closed
    BY DEF TableMatchesGuest
  <2>2. CASE h = f
    BY <1>1, <1>4, <1>5, <2>2 DEF IInv, TypeOK
  <2>3. CASE h # f
    BY <1>4, <1>5, <2>1, <2>3 DEF IInv, TypeOK, TableMatchesGuest
  <2> QED
    BY <2>2, <2>3
<1>9. \A h \in DOMAIN held \cap DOMAIN held' : held'[h].object = held[h].object
  BY <1>3, <1>5
<1> QED
  BY <1>6, <1>7, <1>8, <1>9

(* An open slot is one the guest has the handle of. *)
LEMMA OpenIsHeld ==
  ASSUME IInv, NEW h \in Handles, IsOpen(h)
  PROVE  h \in DOMAIN held /\ held[h] = sessions[h] /\ sessions[h] \in Session
BY DEF IInv, TypeOK, TableMatchesGuest, IsOpen

-----------------------------------------------------------------------------
LEMMA InitIInv == Init => IInv
<1> SUFFICES ASSUME Init PROVE IInv
  OBVIOUS
<1>1. DOMAIN registry = {} /\ DOMAIN held = {}
  BY DEF Init, NoHandles
<1>2. IsFiniteSet(DOMAIN registry) /\ Cardinality(DOMAIN registry) = 0
  BY <1>1, FS_EmptySet
<1>3. reply.on \in 0 .. MaxSessions + 1 /\ reply.served \in Objects \cup {Nobody}
  BY IpcAssumption DEF Init, NoReply, Answer
<1>4. registry \in [DOMAIN registry -> Services] /\ held \in [DOMAIN held -> Session]
  BY DEF Init, NoHandles
<1>5. TypeOK
  <2>1. sessions \in [Handles -> Session \cup {Closed}]
    BY DEF Init, NoSessions
  <2>2. Cardinality(DOMAIN registry) <= MaxRegistrations
    BY <1>2, IpcAssumption
  <2>3. loaded \in BOOLEAN /\ tls \in {"rw", "r", "none"}
    BY DEF Init
  <2> QED
    BY <1>1, <1>3, <1>4, <2>1, <2>2, <2>3 DEF TypeOK
<1>6. TableMatchesGuest
  BY <1>1 DEF Init, TableMatchesGuest, NoSessions
<1> QED
  BY <1>2, <1>5, <1>6 DEF IInv

(* A call that ends early keeps the invariant. *)
LEMMA FailsKeepsIInv ==
  ASSUME IInv, NEW h \in 0 .. MaxSessions + 1, NEW result, Fails(h, result)
  PROVE  IInv'
BY DEF IInv, TypeOK, TableMatchesGuest, Fails, NoReply, Answer, Objects, Session, Handles

LEMMA NextIInv == IInv /\ [Next]_vars => IInv'
<1> USE IpcAssumption
<1> SUFFICES ASSUME IInv, [Next]_vars PROVE IInv'
  OBVIOUS
<1>h. Handles \subseteq 0 .. MaxSessions + 1 /\ 0 \in 0 .. MaxSessions + 1
  BY DEF Handles
<1>0. CASE UNCHANGED vars
  BY <1>0 DEF vars, IInv, TypeOK, TableMatchesGuest
<1>1. CASE RegisterService
  <2>1. PICK n \in Names \ DOMAIN registry, service \in Services :
          /\ Cardinality(DOMAIN registry) < MaxRegistrations
          /\ registry' = [m \in DOMAIN registry \cup {n} |-> IF m = n THEN service ELSE registry[m]]
          /\ reply' = NoReply
          /\ UNCHANGED <<loaded, sessions, tls, held>>
    BY <1>1 DEF RegisterService
  <2>2. DOMAIN registry' = DOMAIN registry \cup {n}
    BY <2>1
  <2>3. /\ IsFiniteSet(DOMAIN registry')
        /\ Cardinality(DOMAIN registry') = Cardinality(DOMAIN registry) + 1
    BY <2>1, <2>2, FS_AddElement DEF IInv
  <2>4. Cardinality(DOMAIN registry) \in Nat
    BY FS_CardinalityType DEF IInv
  <2>5. Cardinality(DOMAIN registry') <= MaxRegistrations
    BY <2>1, <2>3, <2>4
  <2>6. DOMAIN registry' \subseteq Names /\ registry' \in [DOMAIN registry' -> Services]
    BY <2>1, <2>2 DEF IInv, TypeOK
  <2> QED
    BY <2>1, <2>3, <2>5, <2>6 DEF IInv, TypeOK, TableMatchesGuest, NoReply, Answer
<1>2. CASE LoadProgram
  BY <1>2 DEF LoadProgram, IInv, TypeOK, TableMatchesGuest, NoReply, Answer
<1>3. CASE UnloadProgram
  <2>1. DOMAIN held' = {} /\ held' \in [DOMAIN held' -> Session]
    BY <1>3 DEF UnloadProgram, NoHandles
  <2>2. sessions' = [h \in Handles |-> Closed]
    BY <1>3 DEF UnloadProgram, NoSessions
  <2>3. reply'.on \in 0 .. MaxSessions + 1 /\ reply'.served \in Objects \cup {Nobody}
    BY <1>3 DEF UnloadProgram, NoReply, Answer
  <2> QED
    BY <1>3, <2>1, <2>2, <2>3 DEF UnloadProgram, IInv, TypeOK, TableMatchesGuest
<1>4. CASE TlsReprotected
  BY <1>4 DEF TlsReprotected, IInv, TypeOK, TableMatchesGuest, NoReply, Answer
<1>5. CASE ConnectRefused
  BY <1>5, <1>h, FailsKeepsIInv DEF ConnectRefused
<1>6. CASE ConnectOutOfSessions
  BY <1>6, <1>h, FailsKeepsIInv DEF ConnectOutOfSessions
<1>7. CASE Connect
  <2>1. SmObject \in Objects
    BY DEF Objects
  <2> QED
    BY <1>7, <2>1, OpeningKeepsTheRecord DEF Connect, IInv, TypeOK, NoReply, Answer
<1>8. CASE SendRefused
  BY <1>8, FailsKeepsIInv DEF SendRefused
<1>9. CASE SendUnparsed
  BY <1>9, <1>h, FailsKeepsIInv DEF SendUnparsed
<1>10. CASE SendClose
  <2>1. PICK h \in Handles :
          /\ Reachable(h)
          /\ sessions' = [sessions EXCEPT ![h] = ServerGone(@)]
          /\ held' = [held EXCEPT ![h] = ServerGone(@)]
          /\ reply' = Answer(h, "SUCCESS")
          /\ UNCHANGED <<loaded, registry, tls>>
    BY <1>10 DEF SendClose
  <2>2. h \in DOMAIN held /\ held[h] = sessions[h] /\ sessions[h] \in Session
    BY <2>1, OpenIsHeld DEF Reachable
  <2>3. ServerGone(sessions[h]) \in Session
    BY <2>2 DEF ServerGone, Session
  <2>4. sessions' \in [Handles -> Session \cup {Closed}]
    BY <2>1, <2>3 DEF IInv, TypeOK
  <2>5. DOMAIN held' = DOMAIN held /\ held' \in [DOMAIN held' -> Session]
    BY <2>1, <2>2, <2>3 DEF IInv, TypeOK
  <2>6. TableMatchesGuest'
    BY <2>1, <2>2, <2>5 DEF IInv, TypeOK, TableMatchesGuest
  <2>7. reply'.on \in 0 .. MaxSessions + 1 /\ reply'.served \in Objects \cup {Nobody}
    BY <2>1, <1>h DEF Answer
  <2> QED
    BY <2>1, <2>4, <2>5, <2>6, <2>7 DEF IInv, TypeOK
<1>11. CASE RequestAnswered
  <2>1. PICK h \in Handles :
          /\ Request(h)
          /\ reply' = Served(h)
          /\ UNCHANGED <<loaded, registry, sessions, tls, held>>
    BY <1>11 DEF RequestAnswered
  <2>2. sessions[h] \in Session
    BY <2>1, OpenIsHeld DEF Request, Reachable
  <2>3. reply'.on \in 0 .. MaxSessions + 1 /\ reply'.served \in Objects \cup {Nobody}
    BY <2>1, <2>2, <1>h DEF Served, Session
  <2> QED
    BY <2>1, <2>3 DEF IInv, TypeOK, TableMatchesGuest
<1>12. CASE RequestUndelivered
  BY <1>12, <1>h, FailsKeepsIInv DEF RequestUndelivered
<1>13. CASE GetServiceOutOfSessions
  BY <1>13, <1>h, FailsKeepsIInv DEF GetServiceOutOfSessions
<1>14. CASE GetServiceUndelivered
  <2>1. PICK h \in Handles, n \in Names :
          /\ FreeSlots # {}
          /\ sessions' = [Opened(registry[n]) EXCEPT ![FirstFree] = Closed]
          /\ reply' = Answer(h, "INVALID_POINTER")
          /\ UNCHANGED <<loaded, registry, tls, held>>
    BY <1>14 DEF GetServiceUndelivered
  <2>2. FirstFree \in Handles /\ sessions[FirstFree] = Closed
    BY <2>1, FirstFreeIsFree DEF FreeSlots
  <2>3. sessions' = sessions
    BY <2>1, <2>2 DEF Opened, IInv, TypeOK
  <2>4. reply'.on \in 0 .. MaxSessions + 1 /\ reply'.served \in Objects \cup {Nobody}
    BY <2>1, <1>h DEF Answer
  <2> QED
    BY <2>1, <2>3, <2>4 DEF IInv, TypeOK, TableMatchesGuest
<1>15. CASE GetService
  <2>1. PICK h \in Handles, n \in Names :
          /\ Finds(h, n)
          /\ FreeSlots # {}
          /\ sessions' = Opened(registry[n])
          /\ reply' = Served(h)
          /\ Learns(FirstFree, registry[n])
          /\ UNCHANGED <<loaded, registry, tls>>
    BY <1>15 DEF GetService
  <2>2. registry[n] \in Objects
    BY <2>1 DEF Finds, IInv, TypeOK, Objects
  <2>3. sessions[h] \in Session
    BY <2>1, OpenIsHeld DEF Finds, Request, Reachable
  <2>4. reply'.on \in 0 .. MaxSessions + 1 /\ reply'.served \in Objects \cup {Nobody}
    BY <2>1, <2>3, <1>h DEF Served, Session
  <2> QED
    BY <2>1, <2>2, <2>4, OpeningKeepsTheRecord DEF IInv, TypeOK
<1>16. CASE CloseRefused
  BY <1>16, FailsKeepsIInv DEF CloseRefused
<1>17. CASE CloseHandle
  <2>1. PICK h \in Handles :
          /\ IsOpen(h)
          /\ sessions' = Released(h)
          /\ held' = [g \in DOMAIN held \ {h} |-> held[g]]
          /\ reply' = Answer(h, "SUCCESS")
          /\ UNCHANGED <<loaded, registry, tls>>
    BY <1>17 DEF CloseHandle
  <2>2. sessions' \in [Handles -> Session \cup {Closed}]
    BY <2>1 DEF Released, IInv, TypeOK
  <2>3. DOMAIN held' = DOMAIN held \ {h} /\ held' \in [DOMAIN held' -> Session]
    BY <2>1 DEF IInv, TypeOK
  <2>4. TableMatchesGuest'
    BY <2>1, <2>3 DEF Released, IInv, TypeOK, TableMatchesGuest
  <2>5. reply'.on \in 0 .. MaxSessions + 1 /\ reply'.served \in Objects \cup {Nobody}
    BY <2>1, <1>h DEF Answer
  <2> QED
    BY <2>1, <2>2, <2>3, <2>4, <2>5 DEF IInv, TypeOK
<1> QED
  BY <1>0, <1>1, <1>2, <1>3, <1>4, <1>5, <1>6, <1>7, <1>8, <1>9, <1>10, <1>11,
     <1>12, <1>13, <1>14, <1>15, <1>16, <1>17 DEF Next

(* The strengthened invariant holds in every reachable state: the induction *)
(* the theorems below rest on.                                              *)
THEOREM InvariantHolds == Spec => []IInv
BY InitIInv, NextIInv, PTL DEF Spec

(* The session table is always exactly the guest's record of its handles,   *)
(* however many slots there are (svc_ipc.c 132-158).                        *)
THEOREM TableIsTheGuestsRecord == Spec => []TableMatchesGuest
<1>1. IInv => TableMatchesGuest
  BY DEF IInv
<1> QED
  BY <1>1, InvariantHolds, PTL

(* No system call that reports an error touches a session or a handle       *)
(* (svc_ipc.h 57-64).                                                       *)
THEOREM ErrorsLeaveTheTable == Spec => FailedCallChangesNothing
<1>1. IInv /\ [Next]_vars =>
        [reply'.result \notin {"none", "SUCCESS"} => UNCHANGED <<sessions, held>>]_vars
  <2> SUFFICES ASSUME IInv, Next, reply'.result \notin {"none", "SUCCESS"}
               PROVE  UNCHANGED <<sessions, held>>
    OBVIOUS
  <2>1. ~RegisterService /\ ~LoadProgram /\ ~UnloadProgram /\ ~TlsReprotected
    <3>1. reply' # NoReply
      BY DEF NoReply, Answer
    <3> QED
      BY <3>1 DEF RegisterService, LoadProgram, UnloadProgram, TlsReprotected
  <2>2. ~Connect /\ ~SendClose /\ ~CloseHandle
    <3>1. \A h : reply' # Answer(h, "SUCCESS")
      BY DEF Answer
    <3> QED
      BY <3>1 DEF Connect, SendClose, CloseHandle
  <2>3. ~RequestAnswered /\ ~GetService
    BY DEF RequestAnswered, GetService, Served
  <2>4. CASE GetServiceUndelivered
    <3>1. PICK n \in Names :
            /\ FreeSlots # {}
            /\ sessions' = [Opened(registry[n]) EXCEPT ![FirstFree] = Closed]
            /\ held' = held
      BY <2>4 DEF GetServiceUndelivered
    <3>2. FirstFree \in Handles /\ sessions[FirstFree] = Closed
      BY <3>1, FirstFreeIsFree DEF FreeSlots
    <3> QED
      BY <3>1, <3>2 DEF Opened, IInv, TypeOK
  <2>5. CASE \/ ConnectRefused \/ ConnectOutOfSessions \/ SendRefused \/ SendUnparsed
             \/ RequestUndelivered \/ GetServiceOutOfSessions \/ CloseRefused
    BY <2>5 DEF ConnectRefused, ConnectOutOfSessions, SendRefused, SendUnparsed,
                RequestUndelivered, GetServiceOutOfSessions, CloseRefused, Fails
  <2> QED
    BY <2>1, <2>2, <2>3, <2>4, <2>5 DEF Next
<1> QED
  BY <1>1, InvariantHolds, PTL DEF Spec, FailedCallChangesNothing

(* A request that is served is served by the object the guest's handle     *)
(* stands for.                                                             *)
LEMMA ServedByTheHandlesObject ==
  ASSUME IInv, NEW h \in Handles, Reachable(h), reply' = Served(h)
  PROVE  held[reply'.on] = Fresh(reply'.served)
<1>1. held[h] = sessions[h] /\ sessions[h] \in Session
  BY OpenIsHeld DEF Reachable
<1>2. sessions[h].server_closed = FALSE
  BY <1>1 DEF Reachable, Session
<1>3. sessions[h] = Fresh(sessions[h].object)
  BY <1>1, <1>2 DEF Session, Fresh
<1> QED
  BY <1>1, <1>3 DEF Served

(* A handle stands for one object from the answer that gave it out to its   *)
(* CloseHandle, and only that object serves requests on it (ipc.c 51-64,    *)
(* svc_ipc.c 77-85).                                                        *)
THEOREM HandlesKeepTheirMeaning == Spec => HandleKeepsItsMeaning
<1> DEFINE Kept == \A h \in DOMAIN held \cap DOMAIN held' : held'[h].object = held[h].object
           ServedRight == reply'.served # Nobody => held[reply'.on] = Fresh(reply'.served)
<1>1. ASSUME IInv, Next PROVE Kept
  <2>1. CASE SendClose
    <3>1. PICK h \in Handles : held' = [held EXCEPT ![h] = ServerGone(@)]
      BY <2>1 DEF SendClose
    <3> QED
      BY <3>1 DEF ServerGone
  <2>2. CASE Connect
    BY <1>1, <2>2, OpeningKeepsTheRecord DEF Connect, Objects
  <2>3. CASE GetService
    <3>1. PICK h \in Handles, n \in Names :
            /\ Finds(h, n)
            /\ FreeSlots # {}
            /\ sessions' = Opened(registry[n])
            /\ Learns(FirstFree, registry[n])
      BY <2>3 DEF GetService
    <3>2. registry[n] \in Objects
      BY <1>1, <3>1 DEF Finds, IInv, TypeOK, Objects
    <3> QED
      BY <1>1, <3>1, <3>2, OpeningKeepsTheRecord
  <2>4. CASE CloseHandle
    <3>1. PICK h \in Handles : held' = [g \in DOMAIN held \ {h} |-> held[g]]
      BY <2>4 DEF CloseHandle
    <3> QED
      BY <3>1
  <2>5. CASE UnloadProgram
    BY <2>5 DEF UnloadProgram, NoHandles
  <2>6. CASE held' = held
    BY <2>6
  <2> QED
    BY <1>1, <2>1, <2>2, <2>3, <2>4, <2>5, <2>6
    DEF Next, RegisterService, LoadProgram, TlsReprotected, ConnectRefused,
        ConnectOutOfSessions, SendRefused, SendUnparsed, RequestAnswered,
        RequestUndelivered, GetServiceOutOfSessions, GetServiceUndelivered,
        CloseRefused, Fails
<1>2. ASSUME IInv, Next PROVE ServedRight
  <2>1. CASE RequestAnswered
    BY <1>2, <2>1, ServedByTheHandlesObject DEF RequestAnswered, Request
  <2>2. CASE GetService
    BY <1>2, <2>2, ServedByTheHandlesObject DEF GetService, Finds, Request
  <2>3. CASE \E h, result : reply' = Answer(h, result)
    BY <2>3 DEF Answer
  <2>4. CASE RegisterService \/ LoadProgram \/ UnloadProgram \/ TlsReprotected
    <3>1. reply' = Answer(0, "none")
      BY <2>4 DEF RegisterService, LoadProgram, UnloadProgram, TlsReprotected, NoReply
    <3> QED
      BY <2>3, <3>1
  <2>5. CASE Connect \/ SendClose \/ GetServiceUndelivered \/ CloseHandle
    <3>1. \E h, result : reply' = Answer(h, result)
      BY <2>5 DEF Connect, SendClose, GetServiceUndelivered, CloseHandle
    <3> QED
      BY <2>3, <3>1
  <2>6. CASE \/ ConnectRefused \/ ConnectOutOfSessions \/ SendRefused \/ SendUnparsed
             \/ RequestUndelivered \/ GetServiceOutOfSessions \/ CloseRefused
    <3>1. \E h, result : reply' = Answer(h, result)
      BY <2>6 DEF ConnectRefused, ConnectOutOfSessions, SendRefused, SendUnparsed,
                  RequestUndelivered, GetServiceOutOfSessions, CloseRefused, Fails
    <3> QED
      BY <2>3, <3>1
  <2> QED
    BY <1>2, <2>1, <2>2, <2>4, <2>5, <2>6 DEF Next
<1>3. IInv /\ [Next]_vars => [Kept /\ ServedRight]_vars
  BY <1>1, <1>2
<1> QED
  BY <1>3, InvariantHolds, PTL DEF Spec, HandleKeepsItsMeaning

=============================================================================
