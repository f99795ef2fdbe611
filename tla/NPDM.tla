-------------------------------- MODULE NPDM ---------------------------------
(***************************************************************************)
(* The process descriptor: npdm_parse (core/hle/loader/npdm.c) section by  *)
(* section and capability by capability, and npdm_svc_allowed.             *)
(*                                                                         *)
(* A file is a record of the fields that are read, offsets relative to     *)
(* what the format says they are relative to.  A capability descriptor is  *)
(* a record with the count of its trailing one-bits and its fields.        *)
(***************************************************************************)
EXTENDS Integers, Sequences, FiniteSets

CONSTANTS
  DescriptorFiles,  \* the files a title may come with
  MaxCapabilities   \* NPDM_MAX_CAPABILITY_COUNT

VARIABLES
  file,     \* the bytes that are parsed
  stage,    \* the part of the parse that is next, "parsed" or "refused"
  index,    \* the capability that is next
  npdm      \* the NPDM struct so far

npdmVars == <<file, stage, index, npdm>>

MetaHeaderSize == 128
AcidHeaderSize == 576
Aci0HeaderSize == 64
MaxFileBytes   == 1048576
StackAlignment == 4096
PriorityMax    == 63
CoreMax        == 3
AddressSpace39 == 3
SvcCount       == 192
MaskBits       == 24
WordBits       == 64

\* Descriptor types by trailing one-bits; Padding has all thirty-two.
ThreadInfo    == 3
SystemCalls   == 4
Undecoded     == {6, 7, 10, 11}
ProgramType   == 13
KernelVersion == 14
HandleTable   == 15
MiscFlags     == 16
Padding       == 32

NoCapabilities ==
  [threadInfo |-> {}, mask |-> [w \in 0 .. SvcCount \div WordBits - 1 |-> {}],
   has |-> {}, undecoded |-> 0]
Empty == [offset |-> 0, size |-> 0]
EmptyNpdm ==
  [acid |-> NoCapabilities, aci0 |-> NoCapabilities, fs |-> Empty, sac |-> Empty,
   min |-> 0, max |-> 0, id |-> 0]

RangeFits(range, container) ==
  range.offset <= container /\ range.size <= container - range.offset

Refuse == stage' = "refused" /\ UNCHANGED <<index, npdm>>
Goto(next) == stage' = next /\ index' = 1

\* The fields that are read are unsigned numbers, and a section that lies
\* within the file has the descriptors its capabilities' range has room for.
Located == [offset : Nat, size : Nat]
DescriptorsThere(section) ==
  \A i \in 1 .. section.caps.size \div 4 :
    /\ i \in DOMAIN section.descriptors
    /\ section.descriptors[i].type = SystemCalls =>
         /\ section.descriptors[i].index \in Nat
         /\ section.descriptors[i].bits \subseteq 0 .. MaskBits - 1
ASSUME FilesAssumption ==
  \A f \in DescriptorFiles :
    /\ f.size \in Nat
    /\ {f.acid.min, f.acid.max, f.aci0.id} \subseteq Nat
    /\ {f.acid.range, f.acid.caps, f.aci0.range, f.aci0.caps, f.aci0.fs, f.aci0.sac}
         \subseteq Located
    /\ RangeFits(f.aci0.caps, f.aci0.range.size) => DescriptorsThere(f.aci0)

-----------------------------------------------------------------------------
(* Capabilities.                                                           *)

ThreadInfoFits(caps, d) ==
  /\ caps.threadInfo = {}
  /\ d.lowest <= PriorityMax /\ d.highest <= PriorityMax /\ d.highest <= d.lowest
  /\ d.minCore <= CoreMax /\ d.maxCore <= CoreMax /\ d.minCore <= d.maxCore

\* Mutant of WithCalls: the descriptor's calls replace those of the others.
WithCallsOnly(caps, d) ==
  LET calls == {d.index * MaskBits + b : b \in d.bits} IN
  [caps EXCEPT !.mask = [w \in DOMAIN @ |-> {c % WordBits : c \in
                           {x \in calls : x \div WordBits = w}}]]

\* apply_system_calls: bit b of the descriptor's mask is call 24 * index + b,
\* which is bit call % 64 of word call / 64.
WithCalls(caps, d) ==
  LET calls == {d.index * MaskBits + b : b \in d.bits} IN
  [caps EXCEPT !.mask = [w \in DOMAIN @ |-> @[w] \cup {c % WordBits : c \in
                           {x \in calls : x \div WordBits = w}}]]
CallsFit(d) == \A b \in d.bits : d.index * MaskBits + b < SvcCount

\* One round of parse_capabilities' loop over the ranges of section.
Capability(section, blob, next) ==
  LET count == blob.size \div 4
      d     == file[section].descriptors[index]
      caps  == npdm[section]
      To(c) == /\ npdm' = [npdm EXCEPT ![section] = c]
               /\ index' = index + 1
               /\ UNCHANGED stage
  IN IF blob.size % 4 # 0 \/ count > MaxCapabilities THEN Refuse
     ELSE IF index > count THEN Goto(next) /\ UNCHANGED npdm
     ELSE \/ d.type = Padding /\ To(caps)
          \/ /\ d.type = ThreadInfo
             /\ IF ThreadInfoFits(caps, d) THEN To([caps EXCEPT !.threadInfo = {d}])
                                           ELSE Refuse
          \/ /\ d.type = SystemCalls
             /\ IF CallsFit(d) THEN To(WithCalls(caps, d)) ELSE Refuse
          \/ d.type \in Undecoded /\ To([caps EXCEPT !.undecoded = @ + 1])
          \/ /\ d.type \in {ProgramType, KernelVersion, HandleTable, MiscFlags}
             /\ To([caps EXCEPT !.has = {x \in @ : x.type # d.type} \cup {d}])
          \/ /\ d.type \notin Undecoded \cup {ThreadInfo, SystemCalls, ProgramType,
                                KernelVersion, HandleTable, MiscFlags, Padding}
             /\ Refuse

-----------------------------------------------------------------------------
(* Sections.                                                               *)

ParseMeta ==
  /\ stage = "meta"
  /\ IF /\ file.size >= MetaHeaderSize /\ file.size <= MaxFileBytes
        /\ file.meta.magic
        /\ file.meta.space <= AddressSpace39
        /\ file.meta.priority <= PriorityMax
        /\ file.meta.core <= CoreMax
        /\ file.meta.stack # 0 /\ file.meta.stack % StackAlignment = 0
        /\ RangeFits(file.acid.range, file.size) /\ file.acid.range.size >= AcidHeaderSize
        /\ RangeFits(file.aci0.range, file.size) /\ file.aci0.range.size >= Aci0HeaderSize
     THEN Goto("acid") /\ UNCHANGED npdm
     ELSE Refuse
  /\ UNCHANGED file

ParseAcid ==
  /\ stage = "acid"
  /\ IF file.acid.magic /\ RangeFits(file.acid.caps, file.acid.range.size)
     THEN /\ Goto("acid capabilities")
          /\ npdm' = [npdm EXCEPT !.min = file.acid.min, !.max = file.acid.max]
     ELSE Refuse
  /\ UNCHANGED file

ParseAcidCapability ==
  /\ stage = "acid capabilities"
  /\ Capability("acid", file.acid.caps, "aci0")
  /\ UNCHANGED file

\* Mutant of BlobsFit: only the blobs that are decoded now are held against
\* their section.
CapabilitiesFit(aci0) == RangeFits(aci0.caps, aci0.range.size)

BlobsFit(aci0) ==
  \A blob \in {aci0.fs, aci0.sac, aci0.caps} : RangeFits(blob, aci0.range.size)

ParseAci0 ==
  LET located(blob) == [offset |-> file.aci0.range.offset + blob.offset, size |-> blob.size]
  IN /\ stage = "aci0"
     /\ IF file.aci0.magic /\ BlobsFit(file.aci0)
        THEN /\ Goto("aci0 capabilities")
             /\ npdm' = [npdm EXCEPT !.id = file.aci0.id, !.fs = located(file.aci0.fs),
                                     !.sac = located(file.aci0.sac)]
        ELSE Refuse
     /\ UNCHANGED file

ParseAci0Capability ==
  /\ stage = "aci0 capabilities"
  /\ Capability("aci0", file.aci0.caps, "program id")
  /\ UNCHANGED file

CheckProgramId ==
  /\ stage = "program id"
  /\ IF npdm.id < npdm.min \/ npdm.id > npdm.max THEN Refuse
     ELSE stage' = "parsed" /\ UNCHANGED <<index, npdm>>
  /\ UNCHANGED file

-----------------------------------------------------------------------------
(* npdm_svc_allowed.                                                       *)

SvcAllowed(svc) ==
  svc < SvcCount /\ svc % WordBits \in npdm.aci0.mask[svc \div WordBits]

-----------------------------------------------------------------------------
NpdmStart ==
  /\ stage = "meta" /\ index = 1 /\ npdm = EmptyNpdm

NpdmNext ==
  \/ ParseMeta
  \/ ParseAcid
  \/ ParseAcidCapability
  \/ ParseAci0
  \/ ParseAci0Capability
  \/ CheckProgramId

NpdmSpec == file \in DescriptorFiles /\ NpdmStart /\ [][NpdmNext]_npdmVars

-----------------------------------------------------------------------------
(* Properties.                                                             *)

Declared(type) == {d \in {file.aci0.descriptors[i] : i \in 1 .. file.aci0.caps.size \div 4} :
                     d.type = type}

\* What a parsed descriptor grants is what its ACI0 declares, no more and no
\* less: the calls npdm_svc_allowed permits are the union of all descriptors
\* of calls, through both ways of numbering them (24 bits a descriptor, 64
\* bits a word), and the thread limits are those of the one descriptor.
GrantsAreTheDeclared ==
  stage = "parsed" =>
    /\ {svc \in 0 .. SvcCount : SvcAllowed(svc)}
         = UNION {{d.index * MaskBits + b : b \in d.bits} : d \in Declared(SystemCalls)}
    /\ npdm.aci0.threadInfo = Declared(ThreadInfo)
    /\ \A d \in npdm.aci0.threadInfo : d.highest <= d.lowest /\ d.minCore <= d.maxCore
    /\ npdm.id \in npdm.min .. npdm.max

\* npdm.h: the blobs located for later decoding are validated in bounds: they
\* lie inside the file, past its offset within the file and within the ACI0.
BlobsInsideFile ==
  stage = "parsed" =>
    \A blob \in {npdm.fs, npdm.sac} :
      /\ blob.offset >= file.aci0.range.offset
      /\ blob.offset + blob.size <= file.aci0.range.offset + file.aci0.range.size
      /\ blob.offset + blob.size <= file.size
==============================================================================
