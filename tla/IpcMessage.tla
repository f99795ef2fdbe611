----------------------------- MODULE IpcMessage ------------------------------
(***************************************************************************)
(* The wire format of one IPC call: ipc_request_parse, ipc_dispatch and    *)
(* ipc_response_write (core/hle/kernel/ipc.c) over the command buffer in   *)
(* the caller's TLS block, the chain hle_svc_send_sync_request runs.       *)
(*                                                                         *)
(* The buffer is a function from word index to word.  A word is a record   *)
(* with a tag: a header's fields, a magic, a handle, payload, or Fill, the *)
(* bytes the guest left there.  Offsets and sizes are the real ones.  The  *)
(* guest never clears the buffer: it writes its words over what the last   *)
(* call left.  Sessions and their slots are in IpcSessions.                *)
(***************************************************************************)
EXTENDS Integers, Sequences, FiniteSets

CONSTANTS
  Tables,       \* command tables of services: ascending sequences of ids
  Commands,     \* command ids a guest may ask for
  PayloadWords, \* sizes a client's payload may have, in words
  Headers,      \* headers a guest may make of its own
  HandleCounts  \* objects a command may move out

VARIABLES
  table,    \* the command table of the session's object
  tls,      \* the command buffer: word by word
  sent,     \* what the client asked for, NoClient for any other message
  req,      \* what ipc_request_parse made of it, or NoRequest
  reply     \* what the handler answered, or NoReply

messageVars == <<table, tls, sent, req, reply>>

BufferBytes  == 256   \* TLS_IPC_COMMAND_BUFFER_BYTES
HeaderBytes  == 8
SpecialBytes == 4
PidBytes     == 8
HandleBytes  == 4
WordBytes    == 4
BufferWords  == 0 .. BufferBytes \div WordBytes - 1
CmifAlign    == 16
CmifPadding  == 16
CmifBytes    == 16
TypeClose    == 2
TypeRequest  == 4
TypeTipcClose == 15

IPC_MAX_OUT_OBJECTS == 1

\* A header's count of words is an unsigned field, a client's payload and ids
\* no less; a table is sorted by command_id.
ASSUME MessageAssumption ==
  /\ PayloadWords \subseteq Nat /\ Commands \subseteq Nat
  /\ HandleCounts \subseteq 0 .. IPC_MAX_OUT_OBJECTS
  /\ \A h \in Headers : h.words \in Nat
  /\ \A t \in Tables : /\ t \in Seq(Nat)
                       /\ \A i, j \in DOMAIN t : i < j => t[i] <= t[j]

NotImplemented == -1   \* in place of a command's result

Fill == [tag |-> "fill"]
Zero == [tag |-> "zero"]
NoClient == [command |-> NotImplemented - 1, words |-> 0]
NoRequest == [error |-> "none yet"]
NoReply == [result |-> "none yet", handles |-> <<>>]

\* The two words of a header and the special header.
FirstWord(type, descriptors) ==
  [tag |-> "hipc", type |-> type, descriptors |-> descriptors]
SecondWord(words, special, recvStatic) ==
  [tag |-> "hipc", words |-> words, special |-> special, recvStatic |-> recvStatic]
SpecialWord(pid, handles, moves) ==
  [tag |-> "special", pid |-> pid, handles |-> handles, moves |-> moves, copies |-> 0]

WordAt(buffer, offset) == buffer[offset \div WordBytes]
AlignTo(value, align) == ((value + align - 1) \div align) * align
\* words written over what buffer holds.
Merge(words, buffer) ==
  [i \in DOMAIN buffer |-> IF i \in DOMAIN words THEN words[i] ELSE buffer[i]]

-----------------------------------------------------------------------------
(* ipc_request_parse.                                                      *)

Refused(code) == [error |-> code]
CommandAt(buffer, cmif) ==   \* a word of another kind is an id no table has
  IF WordAt(buffer, cmif + 8).tag = "command"
  THEN WordAt(buffer, cmif + 8).command ELSE NotImplemented

\* Mutant of DataStart: the pid's eight bytes are not skipped.
DataStartWithoutPid(buffer) ==
  IF WordAt(buffer, 4).special THEN HeaderBytes + SpecialBytes ELSE HeaderBytes

DataStart(buffer) ==
  LET special == WordAt(buffer, HeaderBytes) IN
  IF WordAt(buffer, 4).special
  THEN HeaderBytes + SpecialBytes + (IF special.pid THEN PidBytes ELSE 0)
  ELSE HeaderBytes

\* Mutant of ParseData: the declared size is not held against the buffer's.
ParseDataUnbounded(buffer) ==
  LET start == DataStart(buffer)
      end   == start + WordAt(buffer, 4).words * WordBytes
      cmif  == AlignTo(start, CmifAlign)
  IN IF cmif + CmifBytes > end THEN Refused("memory fault")
     ELSE IF WordAt(buffer, cmif).tag # "sfci" THEN Refused("not implemented")
     ELSE [error |-> "ok", type |-> "request",
           command |-> CommandAt(buffer, cmif),
           data |-> cmif + CmifBytes, size |-> end - (cmif + CmifBytes)]

\* The data section: where the CMIF header lies in it, or why it does not.
ParseData(buffer) ==
  LET start == DataStart(buffer)
      end   == start + WordAt(buffer, 4).words * WordBytes
      cmif  == AlignTo(start, CmifAlign)
  IN CASE end > BufferBytes -> Refused("memory fault")
       [] end <= BufferBytes /\ cmif + CmifBytes > end -> Refused("memory fault")
       [] OTHER ->
            IF WordAt(buffer, cmif).tag # "sfci" THEN Refused("not implemented")
            ELSE [error |-> "ok", type |-> "request",
                  command |-> CommandAt(buffer, cmif),
                  data |-> cmif + CmifBytes, size |-> end - (cmif + CmifBytes)]

Parse(buffer) ==
  LET word0 == WordAt(buffer, 0)
      word1 == WordAt(buffer, 4)
  IN IF word0.type >= TypeTipcClose \/ word0.type \notin {TypeRequest, TypeClose}
        \/ word0.descriptors \/ word1.recvStatic
        \/ (word1.special /\ WordAt(buffer, HeaderBytes).handles)
     THEN Refused("not implemented")
     ELSE IF word0.type = TypeClose
     THEN [error |-> "ok", type |-> "close", command |-> 0, data |-> 0, size |-> 0]
     ELSE ParseData(buffer)

-----------------------------------------------------------------------------
(* ipc_dispatch: binary search of the table, then the handler.             *)

\* The index found between lo and hi (0-based, hi exclusive), 0 if none.
Search(commands, id) ==
  LET ends == 0 .. Len(commands)
      find[range \in ends \X ends] ==
        LET lo  == range[1]
            hi  == range[2]
            mid == lo + (hi - lo) \div 2 IN
        IF lo >= hi THEN 0
        ELSE IF commands[mid + 1] = id THEN mid + 1
        ELSE IF commands[mid + 1] < id THEN find[<<mid + 1, hi>>]
        ELSE find[<<lo, mid>>]
  IN find[<<0, Len(commands)>>]

\* The handler of an entry is known by the entry's id.
Dispatch(commands, id, handles) ==
  LET at == Search(commands, id) IN
  IF at = 0 THEN [result |-> NotImplemented, handles |-> <<>>]
            ELSE [result |-> commands[at], handles |-> handles]

-----------------------------------------------------------------------------
(* ipc_response_write.                                                     *)

ResponseStart(count) ==
  HeaderBytes + (IF count > 0 THEN SpecialBytes + count * HandleBytes ELSE 0)

Response(answer) ==
  LET count == Len(answer.handles)
      cmif  == AlignTo(ResponseStart(count), CmifAlign) \div WordBytes
      first == (HeaderBytes + SpecialBytes) \div WordBytes
      words == (CmifPadding + CmifBytes) \div WordBytes
  IN [i \in BufferWords |->
       CASE i = 0 -> FirstWord(0, FALSE)
         [] i = 1 -> SecondWord(words, count > 0, FALSE)
         [] i = 2 /\ count > 0 -> SpecialWord(FALSE, TRUE, count)
         [] i \in first .. first + count - 1 ->
              [tag |-> "handle", handle |-> answer.handles[i - first + 1]]
         [] i = cmif -> [tag |-> "sfco"]
         [] i = cmif + 2 -> [tag |-> "result", result |-> answer.result]
         [] OTHER -> Zero]

-----------------------------------------------------------------------------
(* The client library: how it builds a request (every byte it does not     *)
(* write stays as it was) and how it reads a response.                     *)

ClientRequest(command, words, pid) ==
  LET start == HeaderBytes + (IF pid THEN SpecialBytes + PidBytes ELSE 0)
      cmif  == AlignTo(start, CmifAlign) \div WordBytes
      total == (CmifPadding + CmifBytes) \div WordBytes + words
  IN [i \in {0, 1} \cup (IF pid THEN {2} ELSE {}) \cup cmif .. cmif + 3 + words |->
       CASE i = 0 -> FirstWord(TypeRequest, FALSE)
         [] i = 1 -> SecondWord(total, pid, FALSE)
         [] i = 2 -> SpecialWord(TRUE, FALSE, 0)
         [] i = cmif -> [tag |-> "sfci"]
         [] i \in {cmif + 1, cmif + 3} -> Zero
         [] i = cmif + 2 -> [tag |-> "command", command |-> command]
         [] i > cmif + 3 -> [tag |-> "payload", at |-> i - cmif - 4]]

ClientReads(buffer) ==
  LET special == WordAt(buffer, HeaderBytes)
      moves   == IF WordAt(buffer, 4).special THEN special.moves ELSE 0
      first   == IF WordAt(buffer, 4).special THEN HeaderBytes + SpecialBytes ELSE HeaderBytes
      cmif    == AlignTo(first + moves * HandleBytes, CmifAlign)
  IN [magic   |-> WordAt(buffer, cmif).tag,
      result  |-> WordAt(buffer, cmif + 8).result,
      handles |-> [i \in 1 .. moves |-> WordAt(buffer, first + (i - 1) * HandleBytes).handle]]

-----------------------------------------------------------------------------
MessageStart ==
  /\ tls = [i \in BufferWords |-> Fill]
  /\ sent = NoClient /\ req = NoRequest /\ reply = NoReply

\* The guest writes its message after the answer to the last, one at a time.
Composing == req # NoRequest \/ WordAt(tls, 0) = Fill

\* The guest writes a request as the client library does, over whatever the
\* buffer holds.
Compose(command, words, pid) ==
  /\ Composing
  /\ DataStart(ClientRequest(command, words, pid))
       + (CmifPadding + CmifBytes) + words * WordBytes <= BufferBytes
  /\ tls' = Merge(ClientRequest(command, words, pid), tls)
  /\ sent' = [command |-> command, words |-> words]
  /\ req' = NoRequest /\ reply' = NoReply
  /\ UNCHANGED table

\* The guest writes header words of its own making, and the magic somewhere.
Scribble(header, magicAt) ==
  /\ Composing
  /\ tls' = Merge([i \in {0, 1, 2, magicAt \div WordBytes} |->
       CASE i = 0 -> FirstWord(header.type, header.odd = "descriptors")
         [] i = 1 -> SecondWord(header.words, header.special, header.odd = "receive list")
         [] i = 2 -> SpecialWord(header.pid, header.odd = "handles", 0)
         [] OTHER -> [tag |-> "sfci"]], tls)
  /\ sent' = NoClient /\ req' = NoRequest /\ reply' = NoReply
  /\ UNCHANGED table

\* hle_svc_send_sync_request from the read of the buffer to the write back.
\* handles are those the opened sessions got.
SendSyncRequest(handles) ==
  LET parsed == Parse(tls)
      answer == Dispatch(table, parsed.command, handles)
  IN /\ WordAt(tls, 0).tag = "hipc"
     /\ req = NoRequest
     /\ req' = parsed
     /\ IF parsed.error # "ok" \/ parsed.type = "close"
        THEN handles = <<>> /\ UNCHANGED <<tls, reply>>
        ELSE tls' = Response(answer) /\ reply' = answer
     /\ UNCHANGED <<table, sent>>

MessageNext ==
  \/ \E c \in Commands, w \in PayloadWords, pid \in BOOLEAN : Compose(c, w, pid)
  \/ \E h \in Headers, at \in {CmifAlign, 2 * CmifAlign, BufferBytes - CmifAlign} :
       Scribble(h, at)
  \/ \E n \in HandleCounts : SendSyncRequest([i \in 1 .. n |-> i])

MessageSpec == table \in Tables /\ MessageStart /\ [][MessageNext]_messageVars

-----------------------------------------------------------------------------
(* Properties.                                                             *)

\* The payload of an accepted request begins after the headers that were
\* read and ends inside both the declared section and the buffer, whatever
\* counts the guest declares: padding, special header and pid move the CMIF
\* header, and none of them may move it out.
DataInsideBuffer ==
  req # NoRequest /\ req.error = "ok" /\ req.type = "request" =>
    /\ req.size >= 0
    /\ req.data >= HeaderBytes + CmifBytes
    /\ req.data + req.size <= BufferBytes

\* A request built by the client library is accepted with its payload inside
\* the data, and what the library's reader finds in the buffer afterwards is
\* the answer of the very command it named, found by id in the table, or the
\* refusal of one the table does not have, with the handles moved out.
ClientGetsItsAnswer ==
  sent # NoClient /\ req # NoRequest =>
    LET read  == ClientReads(tls)
        known == \E i \in DOMAIN table : table[i] = sent.command
    IN /\ req.error = "ok"
       /\ req.size >= sent.words * WordBytes
       /\ read.magic = "sfco"
       /\ read.result = IF known THEN sent.command ELSE NotImplemented
       /\ read.handles = reply.handles
==============================================================================
