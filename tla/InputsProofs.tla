----------------------------- MODULE InputsProofs -----------------------------
(***************************************************************************)
(* What is read from outside stays inside what it was read from, and says  *)
(* what the file declares: the process descriptor, for any file and count  *)
(* of capabilities; the messages of a session, for any buffer; the loader, *)
(* for any package and any sizes its caps allow; the file system reader,   *)
(* for any image.  A client gets the answer to what it asked, a path leads *)
(* to the entry the tree has for it, and the address space is tiled.       *)
(***************************************************************************)
EXTENDS NPDM, IpcMessage, Loader, RomFS, AddressSpace, LoopLemmas, TLAPS

-----------------------------------------------------------------------------
(* The process descriptor.                                                 *)

NpdmFields == {"acid", "aci0", "fs", "sac", "min", "max", "id"}
CapFields == {"threadInfo", "mask", "has", "undecoded"}

\* The stages by how much of the file is known to fit.
LocatedStages  == {"acid", "acid capabilities", "aci0"}
DecodingStages == {"aci0 capabilities", "program id", "parsed"}

SectionsFit ==
  /\ RangeFits(file.acid.range, file.size)
  /\ RangeFits(file.aci0.range, file.size)

\* What apply_aci0 has taken over besides the capabilities.
Aci0Taken ==
  /\ BlobsFit(file.aci0)
  /\ npdm.id = file.aci0.id
  /\ npdm.fs = [offset |-> file.aci0.range.offset + file.aci0.fs.offset,
                size |-> file.aci0.fs.size]
  /\ npdm.sac = [offset |-> file.aci0.range.offset + file.aci0.sac.offset,
                 size |-> file.aci0.sac.size]

\* The first n descriptors, and what they grant together.
First(n) == {file.aci0.descriptors[i] : i \in 1 .. n}
FirstOf(n, type) == {d \in First(n) : d.type = type}
CallsOf(d) == {d.index * MaskBits + b : b \in d.bits}
Calls(n) == UNION {CallsOf(d) : d \in FirstOf(n, SystemCalls)}
Count == file.aci0.caps.size \div 4

MaskOf(calls) ==
  [w \in 0 .. SvcCount \div WordBits - 1 |->
     {c % WordBits : c \in {x \in calls : x \div WordBits = w}}]

GrantsUpTo(n) ==
  /\ npdm.aci0.threadInfo = FirstOf(n, ThreadInfo)
  /\ \A d \in npdm.aci0.threadInfo : d.highest <= d.lowest /\ d.minCore <= d.maxCore
  /\ Calls(n) \subseteq 0 .. SvcCount - 1
  /\ npdm.aci0.mask = MaskOf(Calls(n))

NpdmIInv ==
  /\ file \in DescriptorFiles
  /\ stage \in {"meta", "refused"} \cup LocatedStages \cup DecodingStages
  /\ index \in Nat \ {0}
  /\ DOMAIN npdm = NpdmFields /\ DOMAIN npdm.aci0 = CapFields
  /\ npdm.min \in Nat /\ npdm.max \in Nat
  /\ stage \in LocatedStages \cup DecodingStages => SectionsFit
  /\ stage \in {"meta"} \cup LocatedStages => GrantsUpTo(0)
  /\ stage \in DecodingStages => Aci0Taken
  /\ stage = "aci0 capabilities" => index <= Count + 1 /\ GrantsUpTo(index - 1)
  /\ stage \in {"program id", "parsed"} => GrantsUpTo(Count)
  /\ stage = "parsed" => npdm.min <= npdm.id /\ npdm.id <= npdm.max

-----------------------------------------------------------------------------
LEMMA NpdmStarts ==
  ASSUME file \in DescriptorFiles, NpdmStart PROVE NpdmIInv
<1>1. FirstOf(0, ThreadInfo) = {} /\ Calls(0) = {}
  BY DEF FirstOf, First, Calls
<1>2. GrantsUpTo(0)
  BY <1>1 DEF GrantsUpTo, MaskOf, NpdmStart, EmptyNpdm, NoCapabilities
<1>3. DOMAIN npdm = NpdmFields
  BY DEF NpdmStart, EmptyNpdm, NpdmFields
<1>4. DOMAIN npdm.aci0 = CapFields
  BY DEF NpdmStart, EmptyNpdm, NoCapabilities, CapFields
<1>5. stage = "meta" /\ index = 1 /\ npdm.min = 0 /\ npdm.max = 0
  BY DEF NpdmStart, EmptyNpdm
<1> QED BY <1>2, <1>3, <1>4, <1>5 DEF NpdmIInv, LocatedStages, DecodingStages

LEMMA NpdmFileFacts ==
  ASSUME NpdmIInv
  PROVE  /\ file.size \in Nat
         /\ file.acid.min \in Nat /\ file.acid.max \in Nat /\ file.aci0.id \in Nat
         /\ \A r \in {file.acid.range, file.acid.caps, file.aci0.range, file.aci0.caps,
                      file.aci0.fs, file.aci0.sac} : r.offset \in Nat /\ r.size \in Nat
         /\ Count \in Nat
         /\ RangeFits(file.aci0.caps, file.aci0.range.size) => DescriptorsThere(file.aci0)
<1>1. \A r \in Located : r.offset \in Nat /\ r.size \in Nat
  BY DEF Located
<1>2. /\ file.size \in Nat
      /\ file.acid.min \in Nat /\ file.acid.max \in Nat /\ file.aci0.id \in Nat
      /\ {file.acid.range, file.acid.caps, file.aci0.range, file.aci0.caps,
          file.aci0.fs, file.aci0.sac} \subseteq Located
      /\ RangeFits(file.aci0.caps, file.aci0.range.size) => DescriptorsThere(file.aci0)
  BY FilesAssumption DEF NpdmIInv
<1>3. file.aci0.caps.size \in Nat
  BY <1>1, <1>2
<1>4. Count \in Nat
  BY <1>3 DEF Count
<1> QED BY <1>1, <1>2, <1>4

\* A step that leaves the ACI0 capabilities alone, and GrantsUpTo with them.
LEMMA GrantsKept ==
  ASSUME NEW n, file' = file, npdm'.aci0 = npdm.aci0
  PROVE  GrantsUpTo(n)' <=> GrantsUpTo(n)
BY DEF GrantsUpTo, Calls, FirstOf, First

LEMMA RefuseKeeps ==
  ASSUME NpdmIInv, Refuse, file' = file PROVE NpdmIInv'
BY DEF NpdmIInv, Refuse, LocatedStages, DecodingStages

\* On the way through the meta and the ACID nothing is granted yet.
LEMMA ArrivesLocated ==
  ASSUME NpdmIInv, file' = file, stage' \in LocatedStages, index' \in Nat \ {0},
         DOMAIN npdm' = NpdmFields, npdm'.aci0 = npdm.aci0, SectionsFit,
         stage \in {"meta"} \cup LocatedStages, npdm'.min \in Nat, npdm'.max \in Nat
  PROVE  NpdmIInv'
<1>1. SectionsFit' BY DEF SectionsFit
<1>2. GrantsUpTo(0)'
  BY GrantsKept DEF NpdmIInv
<1>3. /\ stage' \notin DecodingStages /\ stage' # "aci0 capabilities"
      /\ stage' \notin {"program id", "parsed"} /\ stage' # "parsed"
  BY DEF LocatedStages, DecodingStages
<1> QED BY <1>1, <1>2, <1>3 DEF NpdmIInv

LEMMA MetaKeeps ==
  ASSUME NpdmIInv, ParseMeta PROVE NpdmIInv'
<1>1. CASE Refuse
  BY <1>1, RefuseKeeps DEF ParseMeta
<1>2. CASE ~ Refuse
  <2>1. /\ stage = "meta" /\ stage' = "acid" /\ index' = 1 /\ npdm' = npdm /\ file' = file
        /\ SectionsFit
    BY <1>2 DEF ParseMeta, Goto, SectionsFit
  <2> QED BY <2>1, ArrivesLocated DEF NpdmIInv, LocatedStages
<1> QED BY <1>1, <1>2

LEMMA AcidKeeps ==
  ASSUME NpdmIInv, ParseAcid PROVE NpdmIInv'
<1>1. CASE Refuse
  BY <1>1, RefuseKeeps DEF ParseAcid
<1>2. CASE ~ Refuse
  <2>1. /\ stage = "acid" /\ stage' = "acid capabilities" /\ index' = 1 /\ file' = file
        /\ npdm' = [npdm EXCEPT !.min = file.acid.min, !.max = file.acid.max]
    BY <1>2 DEF ParseAcid, Goto
  <2>2. DOMAIN npdm' = NpdmFields /\ npdm'.aci0 = npdm.aci0
    BY <2>1 DEF NpdmIInv, NpdmFields
  <2>3. SectionsFit
    BY <2>1 DEF NpdmIInv, LocatedStages
  <2>4. stage \in LocatedStages /\ stage' \in LocatedStages
    BY <2>1 DEF LocatedStages
  <2>5. index' \in Nat \ {0}
    <3>1. index' = 1
      BY <2>1
    <3> QED BY <3>1
  <2>6. file' = file
    BY <2>1
  <2>7. npdm'.min \in Nat /\ npdm'.max \in Nat
    <3>1. npdm'.min = file.acid.min /\ npdm'.max = file.acid.max
      BY <2>1 DEF NpdmIInv, NpdmFields
    <3> QED BY <3>1, NpdmFileFacts
  <2> QED BY <2>2, <2>3, <2>4, <2>5, <2>6, <2>7, ArrivesLocated
<1> QED BY <1>1, <1>2

\* The capabilities of the ACID change only what the ACID is recorded to hold.
LEMMA AcidCapabilityKeeps ==
  ASSUME NpdmIInv, ParseAcidCapability PROVE NpdmIInv'
<1> DEFINE To(c) == /\ npdm' = [npdm EXCEPT !["acid"] = c]
                    /\ index' = index + 1
                    /\ stage' = stage
<1>1. stage = "acid capabilities" /\ file' = file /\ SectionsFit
  BY DEF ParseAcidCapability, NpdmIInv, LocatedStages
<1>2. \/ Refuse
      \/ Goto("aci0") /\ npdm' = npdm
      \/ \E c : To(c)
  BY DEF ParseAcidCapability, Capability
<1>3. CASE Refuse
  BY <1>1, <1>3, RefuseKeeps
<1>4. CASE Goto("aci0") /\ npdm' = npdm
  <2>1. /\ DOMAIN npdm' = NpdmFields /\ npdm'.aci0 = npdm.aci0
        /\ npdm'.min \in Nat /\ npdm'.max \in Nat
    BY <1>4 DEF NpdmIInv
  <2>3. index' \in Nat \ {0}
    <3>1. index' = 1
      BY <1>4 DEF Goto
    <3> QED BY <3>1
  <2>2. stage \in LocatedStages /\ stage' \in LocatedStages
    BY <1>1, <1>4 DEF Goto, LocatedStages
  <2> QED BY <1>1, <2>1, <2>2, <2>3, ArrivesLocated
<1>5. ASSUME NEW c, To(c) PROVE NpdmIInv'
  <2>1. /\ DOMAIN npdm' = NpdmFields /\ npdm'.aci0 = npdm.aci0
        /\ npdm'.min \in Nat /\ npdm'.max \in Nat
    BY <1>5 DEF NpdmIInv, NpdmFields
  <2>2. index' \in Nat \ {0}
    <3>1. index' = index + 1 /\ index \in Nat
      BY <1>5 DEF NpdmIInv
    <3> QED BY <3>1
  <2>3. stage \in LocatedStages /\ stage' \in LocatedStages
    BY <1>1, <1>5 DEF LocatedStages
  <2> QED BY <1>1, <2>1, <2>2, <2>3, ArrivesLocated
<1> QED BY <1>2, <1>3, <1>4, <1>5

LEMMA Aci0Keeps ==
  ASSUME NpdmIInv, ParseAci0 PROVE NpdmIInv'
<1>1. CASE Refuse
  BY <1>1, RefuseKeeps DEF ParseAci0
<1>2. CASE ~ Refuse
  <2>1. /\ stage = "aci0" /\ stage' = "aci0 capabilities" /\ index' = 1 /\ file' = file
        /\ BlobsFit(file.aci0)
        /\ npdm' = [npdm EXCEPT
             !.id = file.aci0.id,
             !.fs = [offset |-> file.aci0.range.offset + file.aci0.fs.offset,
                     size |-> file.aci0.fs.size],
             !.sac = [offset |-> file.aci0.range.offset + file.aci0.sac.offset,
                      size |-> file.aci0.sac.size]]
    BY <1>2 DEF ParseAci0, Goto
  <2>2. /\ DOMAIN npdm' = NpdmFields /\ npdm'.aci0 = npdm.aci0 /\ DOMAIN npdm.aci0 = CapFields
        /\ npdm'.min \in Nat /\ npdm'.max \in Nat
    BY <2>1 DEF NpdmIInv, NpdmFields
  <2>3. Aci0Taken'
    BY <2>1, <2>2 DEF Aci0Taken, NpdmIInv, NpdmFields, BlobsFit
  <2>4. SectionsFit'
    BY <2>1 DEF SectionsFit, NpdmIInv, LocatedStages
  <2>5. GrantsUpTo(0)'
    BY <2>1, <2>2, GrantsKept DEF NpdmIInv, LocatedStages
  <2>6. Count' \in Nat
    BY <2>1, NpdmFileFacts DEF Count
  <2>7. index' <= Count' + 1 /\ index' - 1 = 0 /\ index' \in Nat \ {0}
    <3>1. index' = 1
      BY <2>1
    <3>2. ASSUME NEW i, NEW c \in Nat, i = 1
          PROVE  i <= c + 1 /\ i - 1 = 0 /\ i \in Nat \ {0}
      BY <3>2
    <3> QED BY <2>6, <3>1, <3>2
  <2>8. file' \in DescriptorFiles
    BY <2>1 DEF NpdmIInv
  <2> QED BY <2>1, <2>2, <2>3, <2>4, <2>5, <2>7, <2>8 DEF NpdmIInv, LocatedStages, DecodingStages
<1> QED BY <1>1, <1>2

\* One descriptor more.
LEMMA FirstGrows ==
  ASSUME NEW n \in Nat, NEW d, d = file.aci0.descriptors[n + 1], NEW type
  PROVE  FirstOf(n + 1, type) = FirstOf(n, type) \cup {x \in {d} : x.type = type}
<1>1. 1 .. (n + 1) = (1 .. n) \cup {n + 1}
  OBVIOUS
<1>2. First(n + 1) = First(n) \cup {d}
  BY <1>1 DEF First
<1> QED BY <1>2 DEF FirstOf

LEMMA CallsGrow ==
  ASSUME NEW n \in Nat, NEW d, d = file.aci0.descriptors[n + 1]
  PROVE  Calls(n + 1) = IF d.type = SystemCalls THEN Calls(n) \cup CallsOf(d) ELSE Calls(n)
<1>1. FirstOf(n + 1, SystemCalls) = FirstOf(n, SystemCalls) \cup {x \in {d} : x.type = SystemCalls}
  BY FirstGrows
<1> QED BY <1>1 DEF Calls

\* What apply_system_calls records is the mask of the calls of both.
LEMMA MaskGrows ==
  ASSUME NEW caps, NEW d, NEW calls, caps.mask = MaskOf(calls), DOMAIN caps = CapFields
  PROVE  /\ WithCalls(caps, d).mask = MaskOf(calls \cup CallsOf(d))
         /\ WithCalls(caps, d).threadInfo = caps.threadInfo
         /\ DOMAIN WithCalls(caps, d) = CapFields
<1> DEFINE words == 0 .. SvcCount \div WordBits - 1
           in(s, w) == {c % WordBits : c \in {x \in s : x \div WordBits = w}}
<1>1. \A w : in(calls \cup CallsOf(d), w) = in(calls, w) \cup in(CallsOf(d), w)
  OBVIOUS
<1>2. WithCalls(caps, d) =
        [caps EXCEPT !.mask = [w \in DOMAIN caps.mask |-> caps.mask[w] \cup in(CallsOf(d), w)]]
  BY DEF WithCalls, CallsOf
<1>3. DOMAIN caps.mask = words /\ \A w \in words : caps.mask[w] = in(calls, w)
  BY DEF MaskOf
<1>4. WithCalls(caps, d).mask = [w \in DOMAIN caps.mask |-> caps.mask[w] \cup in(CallsOf(d), w)]
  <2> HIDE DEF in
  <2> QED BY <1>2 DEF CapFields
<1>5. /\ WithCalls(caps, d).threadInfo = caps.threadInfo
      /\ DOMAIN WithCalls(caps, d) = CapFields
  <2> HIDE DEF in
  <2> QED BY <1>2 DEF CapFields
<1>6. MaskOf(calls \cup CallsOf(d)) = [w \in words |-> in(calls \cup CallsOf(d), w)]
  BY DEF MaskOf
<1> HIDE DEF in, words
<1>7. [w \in DOMAIN caps.mask |-> caps.mask[w] \cup in(CallsOf(d), w)]
        = [w \in words |-> in(calls \cup CallsOf(d), w)]
  BY <1>1, <1>3
<1> QED BY <1>4, <1>5, <1>6, <1>7

LEMMA CallsInRange ==
  ASSUME NEW d, d.index \in Nat, d.bits \subseteq 0 .. (MaskBits - 1), CallsFit(d)
  PROVE  CallsOf(d) \subseteq 0 .. SvcCount - 1
<1> SUFFICES ASSUME NEW b \in d.bits PROVE d.index * MaskBits + b \in 0 .. SvcCount - 1
  BY DEF CallsOf
<1>1. d.index * 24 + b < 192 /\ b \in Nat
  BY DEF CallsFit, MaskBits, SvcCount
<1>2. d.index \in Nat /\ MaskBits = 24 /\ SvcCount = 192
  BY DEF MaskBits, SvcCount
<1> QED BY <1>1, <1>2

\* A round of the loop that goes on to the next capability with c.
Round(c) ==
  /\ stage = "aci0 capabilities" /\ stage' = stage /\ file' = file /\ index <= Count
  /\ npdm' = [npdm EXCEPT !["aci0"] = c] /\ index' = index + 1

Grants(c, n) ==
  /\ DOMAIN c = CapFields
  /\ c.threadInfo = FirstOf(n, ThreadInfo)
  /\ \A d \in c.threadInfo : d.highest <= d.lowest /\ d.minCore <= d.maxCore
  /\ Calls(n) \subseteq 0 .. SvcCount - 1
  /\ c.mask = MaskOf(Calls(n))

LEMMA RoundKeeps ==
  ASSUME NpdmIInv, NEW c, Round(c), Grants(c, index)
  PROVE  NpdmIInv'
<1>1. DOMAIN npdm' = NpdmFields /\ npdm'.aci0 = c /\ DOMAIN c = CapFields
  BY DEF NpdmIInv, NpdmFields, Round, Grants
<1>2. /\ npdm'.id = npdm.id /\ npdm'.fs = npdm.fs /\ npdm'.sac = npdm.sac
      /\ npdm'.min \in Nat /\ npdm'.max \in Nat
  BY DEF NpdmIInv, NpdmFields, Round
<1>3. stage = "aci0 capabilities" /\ stage' = stage /\ file' = file
  BY DEF Round
<1>4. SectionsFit' /\ Aci0Taken'
  BY <1>2, <1>3 DEF NpdmIInv, DecodingStages, SectionsFit, Aci0Taken, BlobsFit
<1>5. index' = index + 1 /\ index \in Nat /\ index <= Count
  BY DEF Round, NpdmIInv
<1>6. index' - 1 = index /\ index' \in Nat \ {0}
  BY <1>5
<1>7. Count' = Count /\ Count \in Nat
  BY <1>3, NpdmFileFacts DEF Count
<1>8. index' <= Count' + 1
  BY <1>5, <1>7
<1>9. \A n : FirstOf(n, ThreadInfo)' = FirstOf(n, ThreadInfo) /\ Calls(n)' = Calls(n)
  BY <1>3 DEF FirstOf, First, Calls
<1>10. GrantsUpTo(index - 1)'
  BY <1>1, <1>6, <1>9 DEF GrantsUpTo, Grants
<1> QED BY <1>1, <1>2, <1>3, <1>4, <1>6, <1>8, <1>10 DEF NpdmIInv, LocatedStages, DecodingStages

\* The kinds of descriptors that change neither calls nor thread limits.
LEMMA OtherKinds ==
  ASSUME NEW n \in Nat, NEW d, d = file.aci0.descriptors[n + 1], NEW caps, NEW c,
         Grants(caps, n), d.type # ThreadInfo, d.type # SystemCalls,
         DOMAIN c = CapFields, c.threadInfo = caps.threadInfo, c.mask = caps.mask
  PROVE  Grants(c, n + 1)
<1>1. FirstOf(n + 1, ThreadInfo) = FirstOf(n, ThreadInfo)
  <2>1. FirstOf(n + 1, ThreadInfo) = FirstOf(n, ThreadInfo) \cup {x \in {d} : x.type = ThreadInfo}
    BY FirstGrows
  <2>2. {x \in {d} : x.type = ThreadInfo} = {}
    OBVIOUS
  <2> QED BY <2>1, <2>2
<1>2. Calls(n + 1) = Calls(n)
  BY CallsGrow
<1> QED BY <1>1, <1>2 DEF Grants

LEMMA ThreadKind ==
  ASSUME NEW n \in Nat, NEW d, d = file.aci0.descriptors[n + 1], NEW caps,
         Grants(caps, n), d.type = ThreadInfo, ThreadInfoFits(caps, d)
  PROVE  Grants([caps EXCEPT !.threadInfo = {d}], n + 1)
<1> DEFINE c == [caps EXCEPT !.threadInfo = {d}]
<1>1. FirstOf(n + 1, ThreadInfo) = FirstOf(n, ThreadInfo) \cup {d}
  <2>1. FirstOf(n + 1, ThreadInfo) = FirstOf(n, ThreadInfo) \cup {x \in {d} : x.type = ThreadInfo}
    BY FirstGrows
  <2>2. {x \in {d} : x.type = ThreadInfo} = {d}
    OBVIOUS
  <2> QED BY <2>1, <2>2
<1>2. Calls(n + 1) = Calls(n)
  <2>1. d.type # SystemCalls
    BY DEF ThreadInfo, SystemCalls
  <2> QED BY <2>1, CallsGrow
<1>3. FirstOf(n, ThreadInfo) = {} /\ d.highest <= d.lowest /\ d.minCore <= d.maxCore
  BY DEF Grants, ThreadInfoFits
<1>4. DOMAIN c = CapFields /\ c.threadInfo = {d} /\ c.mask = caps.mask
  BY DEF Grants, CapFields
<1> HIDE DEF c
<1> QED BY <1>1, <1>2, <1>3, <1>4 DEF Grants

LEMMA CallKind ==
  ASSUME NEW n \in Nat, NEW d, d = file.aci0.descriptors[n + 1], NEW caps,
         Grants(caps, n), d.type = SystemCalls, CallsFit(d),
         d.index \in Nat, d.bits \subseteq 0 .. (MaskBits - 1)
  PROVE  Grants(WithCalls(caps, d), n + 1)
<1>1. FirstOf(n + 1, ThreadInfo) = FirstOf(n, ThreadInfo)
  <2>1. FirstOf(n + 1, ThreadInfo) = FirstOf(n, ThreadInfo) \cup {x \in {d} : x.type = ThreadInfo}
    BY FirstGrows
  <2>2. {x \in {d} : x.type = ThreadInfo} = {}
    BY DEF ThreadInfo, SystemCalls
  <2> QED BY <2>1, <2>2
<1>2. Calls(n + 1) = Calls(n) \cup CallsOf(d)
  BY CallsGrow
<1>3. CallsOf(d) \subseteq 0 .. SvcCount - 1
  BY CallsInRange
<1>4. /\ WithCalls(caps, d).mask = MaskOf(Calls(n) \cup CallsOf(d))
      /\ WithCalls(caps, d).threadInfo = caps.threadInfo
      /\ DOMAIN WithCalls(caps, d) = CapFields
  BY MaskGrows DEF Grants
<1> QED BY <1>1, <1>2, <1>3, <1>4 DEF Grants

LEMMA Aci0CapabilityKeeps ==
  ASSUME NpdmIInv, ParseAci0Capability PROVE NpdmIInv'
<1> DEFINE d == file.aci0.descriptors[index]
           caps == npdm.aci0
<1>1. /\ stage = "aci0 capabilities" /\ file' = file /\ Aci0Taken /\ GrantsUpTo(index - 1)
      /\ index <= Count + 1 /\ index \in Nat \ {0} /\ DOMAIN caps = CapFields
  BY DEF ParseAci0Capability, NpdmIInv, DecodingStages
<1>2. \/ Refuse
      \/ index > Count /\ Goto("program id") /\ npdm' = npdm
      \/ /\ ~ (index > Count)
         /\ \E c : /\ npdm' = [npdm EXCEPT !["aci0"] = c] /\ index' = index + 1
                   /\ stage' = stage
                   /\ \/ d.type = Padding /\ c = caps
                      \/ /\ d.type = ThreadInfo /\ ThreadInfoFits(caps, d)
                         /\ c = [caps EXCEPT !.threadInfo = {d}]
                      \/ d.type = SystemCalls /\ CallsFit(d) /\ c = WithCalls(caps, d)
                      \/ d.type \in Undecoded /\ c = [caps EXCEPT !.undecoded = @ + 1]
                      \/ /\ d.type \in {ProgramType, KernelVersion, HandleTable, MiscFlags}
                         /\ c = [caps EXCEPT !.has = {x \in @ : x.type # d.type} \cup {d}]
  BY DEF ParseAci0Capability, Capability, Count
<1>3. CASE Refuse
  BY <1>1, <1>3, RefuseKeeps
<1>4. CASE index > Count /\ Goto("program id") /\ npdm' = npdm
  <2>1. Count \in Nat
    BY NpdmFileFacts
  <2>2. index - 1 = Count
    <3>1. index \in Nat /\ index <= Count + 1 /\ index > Count
      BY <1>1, <1>4
    <3> QED BY <2>1, <3>1
  <2>3. GrantsUpTo(Count)
    BY <1>1, <2>2
  <2>4. GrantsUpTo(Count)'
    <3>1. Count' = Count
      BY <1>1 DEF Count
    <3>2. PICK n : n = Count
      OBVIOUS
    <3>3. GrantsUpTo(n)'
      BY <1>1, <1>4, <2>3, <3>2, GrantsKept
    <3> QED BY <3>1, <3>2, <3>3 DEF GrantsUpTo, Calls, FirstOf, First
  <2>5. stage' = "program id" /\ index' = 1
    BY <1>4 DEF Goto
  <2>6. Aci0Taken' /\ SectionsFit'
    BY <1>1, <1>4 DEF Aci0Taken, SectionsFit, NpdmIInv, DecodingStages, BlobsFit
  <2>7. index' \in Nat \ {0}
    <3>1. index' = 1
      BY <2>5
    <3> QED BY <3>1
  <2>8. /\ DOMAIN npdm' = NpdmFields /\ DOMAIN npdm'.aci0 = CapFields /\ file' \in DescriptorFiles
        /\ npdm'.min \in Nat /\ npdm'.max \in Nat
    BY <1>1, <1>4 DEF NpdmIInv
  <2> QED BY <2>4, <2>5, <2>6, <2>7, <2>8 DEF NpdmIInv, LocatedStages, DecodingStages
<1>5. ASSUME NEW c, ~ (index > Count),
             npdm' = [npdm EXCEPT !["aci0"] = c], index' = index + 1, stage' = stage,
             \/ d.type = Padding /\ c = caps
             \/ /\ d.type = ThreadInfo /\ ThreadInfoFits(caps, d)
                /\ c = [caps EXCEPT !.threadInfo = {d}]
             \/ d.type = SystemCalls /\ CallsFit(d) /\ c = WithCalls(caps, d)
             \/ d.type \in Undecoded /\ c = [caps EXCEPT !.undecoded = @ + 1]
             \/ /\ d.type \in {ProgramType, KernelVersion, HandleTable, MiscFlags}
                /\ c = [caps EXCEPT !.has = {x \in @ : x.type # d.type} \cup {d}]
      PROVE  NpdmIInv'
  <2>1. Count \in Nat /\ index \in 1 .. Count /\ index <= Count
    <3>1. Count \in Nat
      BY NpdmFileFacts
    <3>2. index \in Nat \ {0} /\ ~ (index > Count)
      BY <1>1, <1>5
    <3> QED BY <3>1, <3>2
  <2>2. Round(c)
    BY <1>1, <1>5, <2>1 DEF Round
  <2>3. PICK n : n = index - 1
    OBVIOUS
  <2>4. n \in Nat /\ n + 1 = index
    <3>1. index \in Nat \ {0}
      BY <1>1
    <3> QED BY <2>3, <3>1
  <2>5. Grants(caps, n) /\ d = file.aci0.descriptors[n + 1]
    BY <1>1, <2>3, <2>4 DEF GrantsUpTo, Grants
  <2>6. d.type = SystemCalls => d.index \in Nat /\ d.bits \subseteq 0 .. (MaskBits - 1)
    <3>1. RangeFits(file.aci0.caps, file.aci0.range.size)
      BY <1>1 DEF Aci0Taken, BlobsFit
    <3> QED BY <2>1, <3>1, NpdmFileFacts DEF DescriptorsThere, Count
  <2> HIDE DEF d, caps
  <2>7. Grants(c, n + 1)
    <3>1. CASE d.type = ThreadInfo /\ ThreadInfoFits(caps, d) /\ c = [caps EXCEPT !.threadInfo = {d}]
      BY <2>4, <2>5, <3>1, ThreadKind
    <3>2. CASE d.type = SystemCalls /\ CallsFit(d) /\ c = WithCalls(caps, d)
      BY <2>4, <2>5, <2>6, <3>2, CallKind
    <3>3. CASE /\ d.type # ThreadInfo /\ d.type # SystemCalls
               /\ DOMAIN c = CapFields /\ c.threadInfo = caps.threadInfo /\ c.mask = caps.mask
      BY <2>4, <2>5, <3>3, OtherKinds
    <3>4. DOMAIN caps = CapFields
      BY <1>1 DEF caps
    <3>5. CASE d.type = Padding /\ c = caps
      <4>1. d.type # ThreadInfo /\ d.type # SystemCalls
        BY <3>5 DEF Padding, ThreadInfo, SystemCalls
      <4> QED BY <3>3, <3>4, <3>5, <4>1
    <3>6. CASE d.type \in Undecoded /\ c = [caps EXCEPT !.undecoded = @ + 1]
      <4>1. d.type # ThreadInfo /\ d.type # SystemCalls
        BY <3>6 DEF Undecoded, ThreadInfo, SystemCalls
      <4>2. DOMAIN c = CapFields /\ c.threadInfo = caps.threadInfo /\ c.mask = caps.mask
        BY <3>4, <3>6 DEF CapFields
      <4> QED BY <3>3, <4>1, <4>2
    <3>7. CASE /\ d.type \in {ProgramType, KernelVersion, HandleTable, MiscFlags}
               /\ c = [caps EXCEPT !.has = {x \in @ : x.type # d.type} \cup {d}]
      <4>1. d.type # ThreadInfo /\ d.type # SystemCalls
        BY <3>7 DEF ProgramType, KernelVersion, HandleTable, MiscFlags, ThreadInfo, SystemCalls
      <4>2. DOMAIN c = CapFields /\ c.threadInfo = caps.threadInfo /\ c.mask = caps.mask
        BY <3>4, <3>7 DEF CapFields
      <4> QED BY <3>3, <4>1, <4>2
    <3> QED BY <1>5, <3>1, <3>2, <3>5, <3>6, <3>7
  <2> QED BY <2>2, <2>4, <2>7, RoundKeeps
<1> QED BY <1>2, <1>3, <1>4, <1>5

LEMMA ProgramIdKeeps ==
  ASSUME NpdmIInv, CheckProgramId PROVE NpdmIInv'
<1>1. CASE Refuse
  BY <1>1, RefuseKeeps DEF CheckProgramId
<1>2. CASE ~ (npdm.id < npdm.min \/ npdm.id > npdm.max) /\ ~ Refuse
  <2>1. /\ stage = "program id" /\ stage' = "parsed" /\ file' = file /\ index' = index
        /\ npdm' = npdm
    BY <1>2 DEF CheckProgramId
  <2>2. Aci0Taken' /\ SectionsFit'
    BY <2>1 DEF NpdmIInv, DecodingStages, Aci0Taken, BlobsFit, SectionsFit
  <2>3. GrantsUpTo(Count)'
    <3>1. PICK n : n = Count
      OBVIOUS
    <3>2. Count' = Count
      BY <2>1 DEF Count
    <3>3. GrantsUpTo(n)'
      BY <2>1, <3>1, GrantsKept DEF NpdmIInv
    <3> QED BY <3>1, <3>2, <3>3 DEF GrantsUpTo, Calls, FirstOf, First
  <2>4. npdm.min <= npdm.id /\ npdm.id <= npdm.max
    <3>1. npdm.id = file.aci0.id
      BY <2>1 DEF NpdmIInv, DecodingStages, Aci0Taken
    <3>2. npdm.min \in Nat /\ npdm.max \in Nat /\ npdm.id \in Nat
      BY <3>1, NpdmFileFacts DEF NpdmIInv
    <3> QED BY <1>2, <3>2
  <2>5. /\ DOMAIN npdm' = NpdmFields /\ DOMAIN npdm'.aci0 = CapFields /\ file' \in DescriptorFiles
        /\ npdm'.min \in Nat /\ npdm'.max \in Nat /\ index' \in Nat \ {0}
        /\ npdm'.min <= npdm'.id /\ npdm'.id <= npdm'.max
    BY <2>1, <2>4 DEF NpdmIInv
  <2> QED BY <2>1, <2>2, <2>3, <2>5 DEF NpdmIInv, LocatedStages, DecodingStages
<1> QED BY <1>1, <1>2 DEF CheckProgramId

LEMMA NpdmIInvHolds == NpdmSpec => []NpdmIInv
<1>1. file \in DescriptorFiles /\ NpdmStart => NpdmIInv
  BY NpdmStarts
<1>2. NpdmIInv /\ [NpdmNext]_npdmVars => NpdmIInv'
  <2> SUFFICES ASSUME NpdmIInv, [NpdmNext]_npdmVars PROVE NpdmIInv'
    OBVIOUS
  <2>1. CASE UNCHANGED npdmVars
    <3>1. file' = file /\ stage' = stage /\ index' = index /\ npdm' = npdm
      BY <2>1 DEF npdmVars
    <3>2. Count' = Count /\ SectionsFit' = SectionsFit /\ Aci0Taken' = Aci0Taken
      BY <3>1 DEF Count, SectionsFit, Aci0Taken, BlobsFit
    <3>3. /\ GrantsUpTo(0)' = GrantsUpTo(0) /\ GrantsUpTo(Count)' = GrantsUpTo(Count)
          /\ GrantsUpTo(index - 1)' = GrantsUpTo(index - 1)
      BY <3>1, <3>2 DEF GrantsUpTo, Calls, FirstOf, First
    <3> QED BY <3>1, <3>2, <3>3 DEF NpdmIInv
  <2> QED BY <2>1, MetaKeeps, AcidKeeps, AcidCapabilityKeeps, Aci0Keeps, Aci0CapabilityKeeps,
             ProgramIdKeeps DEF NpdmNext
<1> QED BY <1>1, <1>2, PTL DEF NpdmSpec

-----------------------------------------------------------------------------
LEMMA BlobsLieInside == NpdmIInv => BlobsInsideFile
<1> SUFFICES ASSUME NpdmIInv, stage = "parsed", NEW at \in {file.aci0.fs, file.aci0.sac}
             PROVE  /\ file.aci0.range.offset + at.offset >= file.aci0.range.offset
                    /\ file.aci0.range.offset + at.offset + at.size
                         <= file.aci0.range.offset + file.aci0.range.size
                    /\ file.aci0.range.offset + at.offset + at.size <= file.size
  BY DEF NpdmIInv, DecodingStages, Aci0Taken, BlobsInsideFile
<1>1. SectionsFit /\ BlobsFit(file.aci0)
  BY DEF NpdmIInv, DecodingStages, Aci0Taken
<1> DEFINE section == file.aci0.range
<1>2. /\ section.offset <= file.size /\ section.size <= file.size - section.offset
      /\ at.offset <= section.size /\ at.size <= section.size - at.offset
  BY <1>1 DEF SectionsFit, BlobsFit, RangeFits
<1>3. /\ section.offset \in Nat /\ section.size \in Nat /\ file.size \in Nat
      /\ at.offset \in Nat /\ at.size \in Nat
  BY NpdmFileFacts
<1> QED BY <1>2, <1>3

\* The place of a call among words and bits is its own.
LEMMA PlacesDiffer ==
  \A s, c \in Nat : s \div 64 = c \div 64 /\ s % 64 = c % 64 => s = c
OBVIOUS

LEMMA GrantsAreDeclared == NpdmIInv => GrantsAreTheDeclared
<1> SUFFICES ASSUME NpdmIInv, stage = "parsed" PROVE GrantsAreTheDeclared
  BY DEF GrantsAreTheDeclared
<1>1. GrantsUpTo(Count) /\ npdm.min <= npdm.id /\ npdm.id <= npdm.max
  BY DEF NpdmIInv
<1>2. npdm.min \in Nat /\ npdm.max \in Nat /\ npdm.id \in Nat
  BY NpdmFileFacts DEF NpdmIInv, DecodingStages, Aci0Taken
<1>3. npdm.id \in npdm.min .. npdm.max
  BY <1>1, <1>2
<1>4. Declared(ThreadInfo) = FirstOf(Count, ThreadInfo) /\
      Declared(SystemCalls) = FirstOf(Count, SystemCalls)
  BY DEF Declared, FirstOf, First, Count
<1>5. UNION {{d.index * MaskBits + b : b \in d.bits} : d \in Declared(SystemCalls)} = Calls(Count)
  BY <1>4 DEF Calls, CallsOf
<1> DEFINE calls == Calls(Count)
<1>6. calls \subseteq 0 .. 191 /\ npdm.aci0.mask = MaskOf(calls)
  BY <1>1 DEF GrantsUpTo, SvcCount
<1> HIDE DEF calls
<1>7. ASSUME NEW svc \in 0 .. SvcCount PROVE SvcAllowed(svc) <=> svc \in calls
  <2>1. svc \in Nat /\ (svc < 192 => svc \div 64 \in 0 .. 2)
    BY DEF SvcCount
  <2>2. \A w \in 0 .. 2 : npdm.aci0.mask[w] = {c % 64 : c \in {x \in calls : x \div 64 = w}}
    BY <1>6 DEF MaskOf, SvcCount, WordBits
  <2>3. SvcAllowed(svc) <=> svc < 192 /\ \E c \in calls : c \div 64 = svc \div 64 /\ c % 64 = svc % 64
    BY <2>1, <2>2 DEF SvcAllowed, SvcCount, WordBits
  <2>4. \A c \in calls : c \in Nat /\ c < 192
    BY <1>6
  <2>5. (\E c \in calls : c \div 64 = svc \div 64 /\ c % 64 = svc % 64) <=> svc \in calls
    BY <2>1, <2>4, PlacesDiffer, Zenon
  <2> QED BY <2>3, <2>4, <2>5
<1>8. {svc \in 0 .. SvcCount : SvcAllowed(svc)} = calls
  <2>1. calls \subseteq 0 .. SvcCount
    BY <1>6 DEF SvcCount
  <2> QED BY <1>7, <2>1
<1> QED BY <1>1, <1>3, <1>4, <1>5, <1>8 DEF GrantsAreTheDeclared, GrantsUpTo, calls

\* The file system and service access blobs of a parsed descriptor lie inside
\* its ACI0 and the file (npdm_parse, for any file).
THEOREM BlobsInsideFileHolds == NpdmSpec => []BlobsInsideFile
BY NpdmIInvHolds, BlobsLieInside, PTL

\* The calls and thread limits a parsed descriptor grants are those its
\* ACI0's descriptors declare, whatever their number and order.
THEOREM GrantsAreTheDeclaredHolds == NpdmSpec => []GrantsAreTheDeclared
BY NpdmIInvHolds, GrantsAreDeclared, PTL

-----------------------------------------------------------------------------
(* Messages.                                                               *)

\* A header anyone wrote has a count that is a number.
CountIsNumber == tls[0].tag = "hipc" => tls[1].words \in Nat

MessageIInv == DOMAIN tls = BufferWords /\ CountIsNumber /\ DataInsideBuffer

LEMMA WordsThere == {0, 1, 2} \subseteq BufferWords
BY DEF BufferWords, BufferBytes, WordBytes

LEMMA FirstWords == \A buffer : WordAt(buffer, 0) = buffer[0] /\ WordAt(buffer, 4) = buffer[1]
<1>1. 0 \div 4 = 0 /\ 4 \div 4 = 1
  OBVIOUS
<1> QED BY <1>1 DEF WordAt, WordBytes

\* Whatever the headers say, an accepted request's data ends in the buffer.
LEMMA ParsedInside ==
  ASSUME NEW buffer, buffer[1].words \in Nat,
         Parse(buffer).error = "ok", Parse(buffer).type = "request"
  PROVE  /\ Parse(buffer).size >= 0 /\ Parse(buffer).data >= HeaderBytes + CmifBytes
         /\ Parse(buffer).data + Parse(buffer).size <= BufferBytes
<1> DEFINE start == DataStart(buffer)
           end   == start + WordAt(buffer, 4).words * WordBytes
           cmif  == AlignTo(start, CmifAlign)
<1>1. start \in {8, 12, 20}
  BY DEF DataStart, HeaderBytes, SpecialBytes, PidBytes
<1>2. end \in Nat /\ cmif \in Nat /\ cmif >= 16
  <2>1. WordAt(buffer, 4).words \in Nat
    BY FirstWords
  <2>2. end = start + WordAt(buffer, 4).words * 4
    BY DEF WordBytes
  <2>3. cmif = ((start + 15) \div 16) * 16
    BY <1>1 DEF AlignTo, CmifAlign
  <2> HIDE DEF start, cmif, end
  <2>4. cmif \in {16, 32}
    BY <1>1, <2>3
  <2> QED BY <1>1, <2>1, <2>2, <2>4
<1>3. Parse(buffer) = ParseData(buffer)
  BY DEF Parse, Refused
<1>4. /\ ~ (end > BufferBytes) /\ ~ (cmif + CmifBytes > end)
      /\ ParseData(buffer).data = cmif + CmifBytes
      /\ ParseData(buffer).size = end - (cmif + CmifBytes)
  <2> HIDE DEF start, end, cmif
  <2>1. ParseData(buffer) =
          CASE end > BufferBytes -> Refused("memory fault")
            [] end <= BufferBytes /\ cmif + CmifBytes > end -> Refused("memory fault")
            [] OTHER ->
                 IF WordAt(buffer, cmif).tag # "sfci" THEN Refused("not implemented")
                 ELSE [error |-> "ok", type |-> "request", command |-> CommandAt(buffer, cmif),
                       data |-> cmif + CmifBytes, size |-> end - (cmif + CmifBytes)]
    BY DEF ParseData, start, end, cmif
  <2>2. \A code : Refused(code).error = code
    BY DEF Refused
  <2>3. end > BufferBytes \/ end <= BufferBytes
    BY <1>2 DEF BufferBytes
  <2>4. ~ (end > BufferBytes)
    BY <1>3, <2>1, <2>2
  <2>5. ~ (cmif + CmifBytes > end)
    BY <1>3, <2>1, <2>2, <2>3, <2>4
  <2>6. ParseData(buffer) =
          IF WordAt(buffer, cmif).tag # "sfci" THEN Refused("not implemented")
          ELSE [error |-> "ok", type |-> "request", command |-> CommandAt(buffer, cmif),
                data |-> cmif + CmifBytes, size |-> end - (cmif + CmifBytes)]
    BY <2>1, <2>4, <2>5
  <2>7. WordAt(buffer, cmif).tag = "sfci"
    BY <1>3, <2>2, <2>6
  <2> QED BY <2>4, <2>5, <2>6, <2>7
<1> HIDE DEF start, end, cmif
<1> QED BY <1>2, <1>3, <1>4 DEF HeaderBytes, CmifBytes, BufferBytes

LEMMA MergedFirst ==
  ASSUME NEW words, NEW buffer, DOMAIN buffer = BufferWords, {0, 1} \subseteq DOMAIN words
  PROVE  /\ DOMAIN Merge(words, buffer) = BufferWords
         /\ Merge(words, buffer)[0] = words[0] /\ Merge(words, buffer)[1] = words[1]
BY WordsThere DEF Merge

LEMMA ComposeKeeps ==
  ASSUME MessageIInv, NEW c \in Commands, NEW w \in PayloadWords, NEW pid \in BOOLEAN,
         Compose(c, w, pid)
  PROVE  MessageIInv'
<1> DEFINE made  == ClientRequest(c, w, pid)
           total == (CmifPadding + CmifBytes) \div WordBytes + w
           cmif  == AlignTo(HeaderBytes + (IF pid THEN SpecialBytes + PidBytes ELSE 0),
                            CmifAlign) \div WordBytes
           there == {0, 1} \cup (IF pid THEN {2} ELSE {}) \cup cmif .. cmif + 3 + w
<1>1. cmif \in {4, 8}
  BY DEF AlignTo, HeaderBytes, SpecialBytes, PidBytes, CmifAlign, WordBytes
<1> DEFINE word(i) ==
        CASE i = 0 -> FirstWord(TypeRequest, FALSE)
          [] i = 1 -> SecondWord(total, pid, FALSE)
          [] i = 2 -> SpecialWord(TRUE, FALSE, 0)
          [] i = cmif -> [tag |-> "sfci"]
          [] i \in {cmif + 1, cmif + 3} -> Zero
          [] i = cmif + 2 -> [tag |-> "command", command |-> c]
          [] i > cmif + 3 -> [tag |-> "payload", at |-> i - cmif - 4]
<1>2. made = [i \in there |-> word(i)]
  BY DEF ClientRequest
<1>3. {0, 1} \subseteq there
  OBVIOUS
<1> HIDE DEF made, cmif, total, there
<1>4. {0, 1} \subseteq DOMAIN made /\ made[1] = SecondWord(total, pid, FALSE)
  <2>1. /\ 1 # 0 /\ 1 # 2 /\ 1 # cmif /\ 1 \notin {cmif + 1, cmif + 3} /\ 1 # cmif + 2
        /\ ~ (1 > cmif + 3)
    BY <1>1
  <2>2. word(1) = SecondWord(total, pid, FALSE)
    BY <2>1, Zenon
  <2> HIDE DEF word
  <2> QED BY <1>2, <1>3, <2>2
<1>5. total \in Nat
  <2>1. w \in Nat
    BY MessageAssumption
  <2> QED BY <2>1 DEF total, CmifPadding, CmifBytes, WordBytes
<1>6. made[1].words \in Nat
  BY <1>4, <1>5 DEF SecondWord
<1>7. tls' = Merge(made, tls) /\ req' = NoRequest
  BY DEF Compose, made
<1> QED BY <1>4, <1>6, <1>7, MergedFirst DEF MessageIInv, CountIsNumber, DataInsideBuffer

LEMMA ScribbleKeeps ==
  ASSUME MessageIInv, NEW h \in Headers, NEW at, Scribble(h, at)
  PROVE  MessageIInv'
<1> DEFINE made == [i \in {0, 1, 2, at \div WordBytes} |->
        CASE i = 0 -> FirstWord(h.type, h.odd = "descriptors")
          [] i = 1 -> SecondWord(h.words, h.special, h.odd = "receive list")
          [] i = 2 -> SpecialWord(h.pid, h.odd = "handles", 0)
          [] OTHER -> [tag |-> "sfci"]]
<1>1. tls' = Merge(made, tls) /\ req' = NoRequest
  BY DEF Scribble
<1>2. {0, 1} \subseteq DOMAIN made /\ made[1] = SecondWord(h.words, h.special, h.odd = "receive list")
  OBVIOUS
<1> HIDE DEF made
<1>3. made[1].words \in Nat
  <2>1. made[1].words = h.words
    <3>1. PICK b : made[1] = SecondWord(h.words, h.special, b)
      BY <1>2
    <3> QED BY <3>1 DEF SecondWord
  <2>2. h.words \in Nat
    BY MessageAssumption
  <2> QED BY <2>1, <2>2
<1> QED BY <1>1, <1>2, <1>3, MergedFirst DEF MessageIInv, CountIsNumber, DataInsideBuffer

LEMMA ResponseCounts ==
  ASSUME NEW answer, Len(answer.handles) \in Nat
  PROVE  DOMAIN Response(answer) = BufferWords /\ Response(answer)[1].words \in Nat
<1> DEFINE count == Len(answer.handles)
           cmif  == AlignTo(ResponseStart(count), CmifAlign) \div WordBytes
           first == (HeaderBytes + SpecialBytes) \div WordBytes
           words == (CmifPadding + CmifBytes) \div WordBytes
<1> DEFINE word(i) ==
        CASE i = 0 -> FirstWord(0, FALSE)
          [] i = 1 -> SecondWord(words, count > 0, FALSE)
          [] i = 2 /\ count > 0 -> SpecialWord(FALSE, TRUE, count)
          [] i \in first .. first + count - 1 ->
               [tag |-> "handle", handle |-> answer.handles[i - first + 1]]
          [] i = cmif -> [tag |-> "sfco"]
          [] i = cmif + 2 -> [tag |-> "result", result |-> answer.result]
          [] OTHER -> Zero
<1>1. Response(answer) = [i \in BufferWords |-> word(i)]
  BY DEF Response
<1>2. first = 3 /\ words = 8
  BY DEF HeaderBytes, SpecialBytes, CmifPadding, CmifBytes, WordBytes
<1>3. cmif \in Nat /\ cmif > 1
  <2> HIDE DEF count
  <2>1. count \in Nat
    BY DEF count
  <2>2. ResponseStart(count) \in Nat /\ ResponseStart(count) >= 8
    BY <2>1 DEF ResponseStart, HeaderBytes, SpecialBytes, HandleBytes
  <2>3. PICK at : at = ResponseStart(count)
    OBVIOUS
  <2>4. cmif = (((at + 15) \div 16) * 16) \div 4
    BY <2>2, <2>3 DEF AlignTo, CmifAlign, WordBytes
  <2> HIDE DEF cmif
  <2> QED BY <2>2, <2>3, <2>4
<1> HIDE DEF count, cmif, first, words
<1>4. Response(answer)[1] = SecondWord(words, count > 0, FALSE)
  <2>1. 1 # 0 /\ ~ (1 = 2 /\ count > 0) /\ 1 # cmif /\ 1 # cmif + 2
    BY <1>3
  <2>2. 1 \notin first .. first + count - 1
    <3>1. count \in Nat
      BY DEF count
    <3> QED BY <1>2, <3>1
  <2>3. word(1) = SecondWord(words, count > 0, FALSE)
    BY <2>1, <2>2, Zenon
  <2> HIDE DEF word
  <2> QED BY <1>1, <2>3, WordsThere
<1> QED BY <1>1, <1>2, <1>4 DEF SecondWord

LEMMA SendKeeps ==
  ASSUME MessageIInv, NEW n \in HandleCounts, SendSyncRequest([i \in 1 .. n |-> i])
  PROVE  MessageIInv'
<1>1. tls[1].words \in Nat
  BY FirstWords DEF SendSyncRequest, MessageIInv, CountIsNumber
<1>2. req' = Parse(tls)
  BY DEF SendSyncRequest
<1>3. DataInsideBuffer'
  BY <1>1, <1>2, ParsedInside DEF DataInsideBuffer
<1>4. CASE tls' = tls
  BY <1>3, <1>4 DEF MessageIInv, CountIsNumber
<1>5. ASSUME NEW answer, answer = Dispatch(table, Parse(tls).command, [i \in 1 .. n |-> i]),
             tls' = Response(answer)
      PROVE  MessageIInv'
  <2>1. n \in Nat
    BY MessageAssumption
  <2>2. Len(<<>>) \in Nat /\ Len([i \in 1 .. n |-> i]) \in Nat
    BY <2>1
  <2>3. Len(answer.handles) \in Nat
    BY <1>5, <2>2 DEF Dispatch
  <2>4. DOMAIN tls' = BufferWords /\ tls'[1].words \in Nat
    BY <1>5, <2>3, ResponseCounts
  <2> QED BY <1>3, <2>4 DEF MessageIInv, CountIsNumber
<1> QED BY <1>4, <1>5 DEF SendSyncRequest

\* The data of an accepted request lies behind its headers and inside the
\* command buffer, whatever was written there (ipc_request_parse).
THEOREM DataInsideBufferHolds == MessageSpec => []DataInsideBuffer
<1>1. table \in Tables /\ MessageStart => MessageIInv
  <2> SUFFICES ASSUME MessageStart PROVE MessageIInv
    OBVIOUS
  <2>1. DOMAIN tls = BufferWords /\ tls[0] = Fill /\ req = NoRequest
    BY WordsThere DEF MessageStart
  <2> QED BY <2>1 DEF MessageIInv, CountIsNumber, DataInsideBuffer, Fill
<1>2. MessageIInv /\ [MessageNext]_messageVars => MessageIInv'
  <2> SUFFICES ASSUME MessageIInv, [MessageNext]_messageVars PROVE MessageIInv'
    OBVIOUS
  <2>1. CASE UNCHANGED messageVars
    BY <2>1 DEF messageVars, MessageIInv, CountIsNumber, DataInsideBuffer
  <2> QED BY <2>1, ComposeKeeps, ScribbleKeeps, SendKeeps DEF MessageNext
<1>3. MessageIInv => DataInsideBuffer
  BY DEF MessageIInv
<1> QED BY <1>1, <1>2, <1>3, PTL DEF MessageSpec

-----------------------------------------------------------------------------
(* The search of a command table.                                          *)

Sorted(t) == \A i, j \in DOMAIN t : i < j => t[i] <= t[j]

\* What a search between lo and hi gives.
Finds(t, id, lo, hi, at) ==
  IF \E i \in (lo + 1) .. hi : t[i] = id
  THEN at \in DOMAIN t /\ t[at] = id
  ELSE at = 0

LEMMA Halves ==
  ASSUME NEW lo \in Nat, NEW hi \in Nat, lo < hi
  PROVE  /\ lo + (hi - lo) \div 2 \in Nat
         /\ lo <= lo + (hi - lo) \div 2 /\ lo + (hi - lo) \div 2 < hi
<1>1. PICK d \in Nat : d = hi - lo /\ d > 0
  OBVIOUS
<1>2. PICK h : h = d \div 2
  OBVIOUS
<1>3. h \in Nat /\ h < d
  BY <1>1, <1>2
<1> QED BY <1>1, <1>2, <1>3

LEMMA Pair ==
  ASSUME NEW S, NEW a \in S, NEW b \in S
  PROVE  <<a, b>> \in S \X S /\ <<a, b>>[1] = a /\ <<a, b>>[2] = b
OBVIOUS

\* ipc_dispatch's binary search finds an id if and only if the table has it.
LEMMA SearchFinds ==
  ASSUME NEW t \in Seq(Nat), Sorted(t), NEW id \in Int
  PROVE  Finds(t, id, 0, Len(t), Search(t, id))
<1>0. PICK n \in Nat : n = Len(t) /\ DOMAIN t = 1 .. n /\ \A i \in 1 .. n : t[i] \in Nat
  OBVIOUS
<1> DEFINE ends == 0 .. n
           Places == ends \X ends
           mid(r) == r[1] + (r[2] - r[1]) \div 2
           Stop == {r \in Places : r[1] >= r[2] \/ t[mid(r) + 1] = id}
           hit == [r \in Places |-> IF r[1] >= r[2] THEN 0 ELSE mid(r) + 1]
           next == [r \in Places |-> IF t[mid(r) + 1] < id THEN <<mid(r) + 1, r[2]>>
                                     ELSE <<r[1], mid(r)>>]
           width == [r \in Places |-> IF r[1] >= r[2] THEN 0 ELSE r[2] - r[1]]
           Body(f) == [range \in (0 .. Len(t)) \X (0 .. Len(t)) |->
             LET lo  == range[1]
                 hi  == range[2]
                 half == lo + (hi - lo) \div 2 IN
             IF lo >= hi THEN 0
             ELSE IF t[half + 1] = id THEN half + 1
             ELSE IF t[half + 1] < id THEN f[<<half + 1, hi>>]
             ELSE f[<<lo, half>>]]
           find == CHOOSE f : f = Body(f)
<1>1. ASSUME NEW r \in Places, ~ (r[1] >= r[2])
      PROVE  /\ r[1] \in Nat /\ r[2] \in Nat /\ mid(r) \in Nat
             /\ r[1] <= mid(r) /\ mid(r) < r[2] /\ r[2] <= n
  <2>1. r[1] \in Nat /\ r[2] \in Nat /\ r[1] < r[2] /\ r[2] <= n
    BY <1>1
  <2> QED BY <2>1, Halves
<1>2. PICK g : g = Body(g)
  <2>1. GoesDown(Places, Stop, next, width, n + 1)
    <3>1. \A r \in Places : width[r] \in Nat /\ width[r] < n + 1
      OBVIOUS
    <3>2. ASSUME NEW r \in Places, r \notin Stop
          PROVE  next[r] \in Places /\ width[next[r]] < width[r]
      <4>1. ~ (r[1] >= r[2])
        BY <3>2
      <4> HIDE DEF mid
      <4>2. PICK lo \in Nat, hi \in Nat, m \in Nat :
              lo = r[1] /\ hi = r[2] /\ m = mid(r) /\ lo <= m /\ m < hi /\ hi <= n
        BY <1>1, <4>1
      <4>3. width[r] = hi - lo
        BY <4>2
      <4>4. CASE t[m + 1] < id
        <5>1. next[r] = <<m + 1, hi>>
          BY <4>2, <4>4
        <5>2. PICK s : s = <<m + 1, hi>> /\ s \in Places /\ s[1] = m + 1 /\ s[2] = hi
          <6>1. m + 1 \in ends /\ hi \in ends
            BY <1>0, <4>2
          <6>2. <<m + 1, hi>> \in Places /\ <<m + 1, hi>>[1] = m + 1 /\ <<m + 1, hi>>[2] = hi
            <7> HIDE DEF ends
            <7> QED BY <6>1, Pair, Zenon
          <6> HIDE DEF Places
          <6> QED BY <6>2
        <5>3. width[s] = IF m + 1 >= hi THEN 0 ELSE hi - (m + 1)
          <6> HIDE DEF Places
          <6> QED BY <5>2
        <5>4. width[s] \in Nat /\ width[s] < hi - lo
          BY <4>2, <5>3
        <5> QED BY <4>3, <5>1, <5>2, <5>4
      <4>5. CASE ~ (t[m + 1] < id)
        <5>1. next[r] = <<lo, m>>
          BY <4>2, <4>5
        <5>2. PICK s : s = <<lo, m>> /\ s \in Places /\ s[1] = lo /\ s[2] = m
          <6>1. lo \in ends /\ m \in ends
            BY <1>0, <4>2
          <6>2. <<lo, m>> \in Places /\ <<lo, m>>[1] = lo /\ <<lo, m>>[2] = m
            <7> HIDE DEF ends
            <7> QED BY <6>1, Pair, Zenon
          <6> HIDE DEF Places
          <6> QED BY <6>2
        <5>3. width[s] = IF lo >= m THEN 0 ELSE m - lo
          <6> HIDE DEF Places
          <6> QED BY <5>2
        <5>4. width[s] \in Nat /\ width[s] < hi - lo
          BY <4>2, <5>3
        <5> QED BY <4>3, <5>1, <5>2, <5>4
      <4> QED BY <4>4, <4>5
    <3> HIDE DEF width, next, Stop, Places
    <3> QED BY <1>0, <3>1, <3>2 DEF GoesDown
  <2>2. PICK f : f = [r \in Places |-> IF r \in Stop THEN hit[r] ELSE f[next[r]]]
    <3> HIDE DEF hit, next, Stop, Places
    <3>1. PICK f : IsResult(f, Places, Stop, hit, next)
      BY <2>1, LoopHasResult
    <3> QED BY <3>1 DEF IsResult
  <2>3. ASSUME NEW range \in Places
        PROVE  (IF range \in Stop THEN hit[range] ELSE f[next[range]]) =
                 LET lo  == range[1]
                     hi  == range[2]
                     half == lo + (hi - lo) \div 2 IN
                 IF lo >= hi THEN 0
                 ELSE IF t[half + 1] = id THEN half + 1
                 ELSE IF t[half + 1] < id THEN f[<<half + 1, hi>>]
                 ELSE f[<<lo, half>>]
    BY ZenonT(30)
  <2>4. f = Body(f)
    BY <1>0, <2>2, <2>3, ZenonT(30)
  <2> QED BY <2>4
<1>3. find = Body(find)
  BY <1>2
<1>4. Search(t, id) = find[<<0, Len(t)>>]
  BY DEF Search
<1> HIDE DEF find
<1>5. ASSUME NEW lo \in ends, NEW hi \in ends, NEW m, m = lo + (hi - lo) \div 2
      PROVE  find[<<lo, hi>>] =
               IF lo >= hi THEN 0
               ELSE IF t[m + 1] = id THEN m + 1
               ELSE IF t[m + 1] < id THEN find[<<m + 1, hi>>]
               ELSE find[<<lo, m>>]
  <2>1. PICK r : r = <<lo, hi>> /\ r \in Places /\ r[1] = lo /\ r[2] = hi
    <3>1. <<lo, hi>> \in Places /\ <<lo, hi>>[1] = lo /\ <<lo, hi>>[2] = hi
      <4> HIDE DEF ends
      <4> QED BY Pair, Zenon
    <3> HIDE DEF Places
    <3> QED BY <3>1
  <2>2. find[r] = LET half == r[1] + (r[2] - r[1]) \div 2 IN
             IF r[1] >= r[2] THEN 0
             ELSE IF t[half + 1] = id THEN half + 1
             ELSE IF t[half + 1] < id THEN find[<<half + 1, r[2]>>]
             ELSE find[<<r[1], half>>]
    BY <1>0, <1>3, <2>1
  <2> QED BY <1>5, <2>1, <2>2
<1> DEFINE Good(lo, hi) == Finds(t, id, lo, hi, find[<<lo, hi>>])
           Bad == {d \in Nat : \E lo, hi \in ends : hi <= lo + d /\ ~ Good(lo, hi)}
<1>6. ASSUME Bad # {} PROVE FALSE
  <2>1. PICK d \in Bad : \A c \in Bad : d <= c
    <3>1. Bad \in SUBSET Nat
      <4> HIDE DEF Good
      <4> QED OBVIOUS
    <3> HIDE DEF Bad
    <3> QED BY <1>6, <3>1, LeastMember
  <2>2. PICK lo \in ends, hi \in ends : d \in Nat /\ hi <= lo + d /\ ~ Good(lo, hi)
    <3> HIDE DEF Good
    <3> QED OBVIOUS
  <2>3. ASSUME NEW a \in ends, NEW b \in ends, NEW c \in Nat, b <= a + c, c < d
        PROVE  Good(a, b)
    <3>1. c \notin Bad
      <4>1. ~ (d <= c)
        BY <2>2, <2>3
      <4> HIDE DEF Bad
      <4> QED BY <2>1, <4>1
    <3> HIDE DEF Good
    <3> QED BY <2>3, <3>1
  <2>4. lo < hi
    <3>1. ASSUME lo >= hi PROVE FALSE
      <4>1. PICK m : m = lo + (hi - lo) \div 2
        OBVIOUS
      <4>2. find[<<lo, hi>>] = 0
        BY <1>5, <3>1, <4>1
      <4>3. ~ \E i \in (lo + 1) .. hi : t[i] = id
        BY <3>1
      <4> QED BY <2>2, <4>2, <4>3 DEF Finds
    <3> QED BY <3>1
  <2>5. PICK m \in Nat : m = lo + (hi - lo) \div 2 /\ lo <= m /\ m < hi
    BY <2>4, Halves
  <2>6. find[<<lo, hi>>] = IF t[m + 1] = id THEN m + 1
                           ELSE IF t[m + 1] < id THEN find[<<m + 1, hi>>]
                           ELSE find[<<lo, m>>]
    BY <1>5, <2>4, <2>5, SMTT(30)
  <2>7. CASE t[m + 1] = id
    <3>1. m + 1 \in 1 .. n /\ m + 1 \in (lo + 1) .. hi
      BY <2>5
    <3> QED BY <1>0, <2>2, <2>6, <2>7, <3>1 DEF Finds
  <2>8. CASE t[m + 1] # id /\ t[m + 1] < id
    <3>1. m + 1 \in ends /\ d - 1 \in Nat /\ hi <= m + 1 + (d - 1) /\ d - 1 < d
      <4>1. lo \in Nat /\ hi \in Nat /\ hi <= n /\ d \in Nat /\ hi <= lo + d
        BY <1>0, <2>2
      <4> HIDE DEF Good, Bad
      <4> QED BY <1>0, <2>4, <2>5, <4>1
    <3>2. Finds(t, id, m + 1, hi, find[<<m + 1, hi>>])
      BY <2>3, <3>1
    <3>3. ASSUME NEW i \in (lo + 1) .. hi, t[i] = id PROVE i \in (m + 1 + 1) .. hi
      <4>1. i \in 1 .. n /\ m + 1 \in 1 .. n
        BY <2>5
      <4>2. ~ (i < m + 1)
        <5>1. i < m + 1 => t[i] <= t[m + 1]
          BY <1>0, <4>1 DEF Sorted
        <5>2. t[i] \in Nat /\ t[m + 1] \in Nat
          BY <1>0, <4>1
        <5> QED BY <2>8, <3>3, <5>1, <5>2
      <4>3. i # m + 1
        BY <2>8, <3>3
      <4> QED BY <2>5, <4>2, <4>3
    <3>4. (\E i \in (lo + 1) .. hi : t[i] = id) <=> (\E i \in (m + 1 + 1) .. hi : t[i] = id)
      <4>1. \A i \in (m + 1 + 1) .. hi : i \in (lo + 1) .. hi
        BY <2>5
      <4> QED BY <3>3, <4>1
    <3> QED BY <2>2, <2>6, <2>8, <3>2, <3>4 DEF Finds
  <2>9. CASE t[m + 1] # id /\ ~ (t[m + 1] < id)
    <3>1. m \in ends /\ d - 1 \in Nat /\ m <= lo + (d - 1) /\ d - 1 < d
      <4>1. lo \in Nat /\ hi \in Nat /\ hi <= n /\ d \in Nat /\ hi <= lo + d
        BY <1>0, <2>2
      <4> HIDE DEF Good, Bad
      <4> QED BY <1>0, <2>4, <2>5, <4>1
    <3>2. Finds(t, id, lo, m, find[<<lo, m>>])
      BY <2>3, <3>1
    <3>3. ASSUME NEW i \in (lo + 1) .. hi, t[i] = id PROVE i \in (lo + 1) .. m
      <4>1. i \in 1 .. n /\ m + 1 \in 1 .. n
        BY <2>5
      <4>2. ~ (m + 1 < i)
        <5>1. m + 1 < i => t[m + 1] <= t[i]
          BY <1>0, <4>1 DEF Sorted
        <5>2. t[i] \in Nat /\ t[m + 1] \in Nat
          BY <1>0, <4>1
        <5> QED BY <2>9, <3>3, <5>1, <5>2
      <4>3. i # m + 1
        BY <2>9, <3>3
      <4> QED BY <2>5, <4>2, <4>3
    <3>4. (\E i \in (lo + 1) .. hi : t[i] = id) <=> (\E i \in (lo + 1) .. m : t[i] = id)
      <4>1. \A i \in (lo + 1) .. m : i \in (lo + 1) .. hi
        BY <2>5
      <4> QED BY <3>3, <4>1
    <3> QED BY <2>2, <2>6, <2>9, <3>2, <3>4 DEF Finds
  <2> QED BY <2>7, <2>8, <2>9
<1>7. Good(0, n)
  <2>1. n \notin Bad /\ 0 \in ends /\ n \in ends /\ n <= 0 + n
    <3> HIDE DEF Bad
    <3> QED BY <1>0, <1>6
  <2> HIDE DEF Good
  <2> QED BY <1>0, <2>1
<1> QED BY <1>0, <1>4, <1>7

-----------------------------------------------------------------------------
(* A client's call.                                                        *)

\* A buffer that holds a client's request of a command with words of payload.
Written(buffer, command, words, pid) ==
  LET cmif == IF pid THEN 8 ELSE 4 IN
  /\ command \in Nat /\ words \in Nat
  /\ (IF pid THEN 20 ELSE 8) + 32 + words * 4 <= 256
  /\ buffer[0] = FirstWord(TypeRequest, FALSE)
  /\ buffer[1] = SecondWord(8 + words, pid, FALSE)
  /\ pid => buffer[2] = SpecialWord(TRUE, FALSE, 0)
  /\ buffer[cmif] = [tag |-> "sfci"]
  /\ buffer[cmif + 2] = [tag |-> "command", command |-> command]

LEMMA ComposeWrites ==
  ASSUME DOMAIN tls = BufferWords, NEW c \in Commands, NEW w \in PayloadWords,
         NEW pid \in BOOLEAN, Compose(c, w, pid)
  PROVE  Written(tls', c, w, pid)
<1> DEFINE made  == ClientRequest(c, w, pid)
           total == (CmifPadding + CmifBytes) \div WordBytes + w
           cmif  == AlignTo(HeaderBytes + (IF pid THEN SpecialBytes + PidBytes ELSE 0),
                            CmifAlign) \div WordBytes
           there == {0, 1} \cup (IF pid THEN {2} ELSE {}) \cup cmif .. cmif + 3 + w
           word(i) ==
             CASE i = 0 -> FirstWord(TypeRequest, FALSE)
               [] i = 1 -> SecondWord(total, pid, FALSE)
               [] i = 2 -> SpecialWord(TRUE, FALSE, 0)
               [] i = cmif -> [tag |-> "sfci"]
               [] i \in {cmif + 1, cmif + 3} -> Zero
               [] i = cmif + 2 -> [tag |-> "command", command |-> c]
               [] i > cmif + 3 -> [tag |-> "payload", at |-> i - cmif - 4]
<1>1. c \in Nat /\ w \in Nat
  BY MessageAssumption
<1>2. cmif = IF pid THEN 8 ELSE 4
  BY DEF AlignTo, HeaderBytes, SpecialBytes, PidBytes, CmifAlign, WordBytes
<1>3. total = 8 + w
  BY <1>1 DEF CmifPadding, CmifBytes, WordBytes
<1>4. made = [i \in there |-> word(i)]
  BY DEF ClientRequest
<1>5. {0, 1, cmif, cmif + 2} \subseteq there /\ (pid => 2 \in there)
  <2>1. cmif \in Nat
    BY <1>2
  <2> HIDE DEF cmif
  <2> QED BY <1>1, <2>1
<1>6. {0, 1, 2, cmif, cmif + 2} \subseteq BufferWords
  <2> HIDE DEF cmif
  <2>1. BufferWords = 0 .. 63
    BY DEF BufferWords, BufferBytes, WordBytes
  <2> QED BY <1>2, <2>1
<1>7. tls' = Merge(made, tls)
  BY DEF Compose
<1>8. DataStart(made) + (CmifPadding + CmifBytes) + w * WordBytes <= BufferBytes
  BY DEF Compose
<1> HIDE DEF made, cmif, total, there
<1>9. /\ word(0) = FirstWord(TypeRequest, FALSE) /\ word(1) = SecondWord(total, pid, FALSE)
      /\ word(2) = SpecialWord(TRUE, FALSE, 0)
  <2>1. /\ 0 # cmif /\ 0 \notin {cmif + 1, cmif + 3} /\ 0 # cmif + 2 /\ ~ (0 > cmif + 3)
        /\ 1 # cmif /\ 1 \notin {cmif + 1, cmif + 3} /\ 1 # cmif + 2 /\ ~ (1 > cmif + 3)
        /\ 2 # cmif /\ 2 \notin {cmif + 1, cmif + 3} /\ 2 # cmif + 2 /\ ~ (2 > cmif + 3)
        /\ 0 # 1 /\ 0 # 2 /\ 1 # 2
    BY <1>2
  <2>2. word(0) = FirstWord(TypeRequest, FALSE)
    BY <2>1, Zenon
  <2>3. word(1) = SecondWord(total, pid, FALSE)
    BY <2>1, Zenon
  <2>4. word(2) = SpecialWord(TRUE, FALSE, 0)
    BY <2>1, Zenon
  <2> QED BY <2>2, <2>3, <2>4, Zenon
<1>10. word(cmif) = [tag |-> "sfci"]
  <2>1. /\ cmif # 0 /\ cmif # 1 /\ cmif # 2 /\ cmif \notin {cmif + 1, cmif + 3}
        /\ cmif # cmif + 2 /\ ~ (cmif > cmif + 3)
    BY <1>2
  <2> QED BY <2>1, Zenon
<1>11. word(cmif + 2) = [tag |-> "command", command |-> c]
  <2>1. PICK k : k = cmif + 2
    OBVIOUS
  <2>2. /\ k # 0 /\ k # 1 /\ k # 2 /\ k # cmif /\ k \notin {cmif + 1, cmif + 3}
        /\ ~ (k > cmif + 3)
    BY <1>2, <2>1
  <2>3. word(k) = [tag |-> "command", command |-> c]
    BY <2>1, <2>2, Zenon
  <2> HIDE DEF word
  <2> QED BY <2>1, <2>3
<1> HIDE DEF word
<1>12. ASSUME NEW i \in BufferWords, i \in there PROVE made[i] = word(i) /\ tls'[i] = word(i)
  BY <1>4, <1>7, <1>12 DEF Merge
<1>13. (IF pid THEN 20 ELSE 8) + 32 + w * 4 <= 256
  <2>1. made[1] = SecondWord(total, pid, FALSE) /\ (pid => made[2] = SpecialWord(TRUE, FALSE, 0))
    BY <1>5, <1>6, <1>9, <1>12
  <2>2. WordAt(made, 4) = made[1] /\ WordAt(made, 8) = made[2]
    <3>1. 4 \div 4 = 1 /\ 8 \div 4 = 2
      OBVIOUS
    <3> QED BY <3>1 DEF WordAt, WordBytes
  <2>3. DataStart(made) = IF pid THEN 20 ELSE 8
    <3>1. WordAt(made, 4).special = pid
      BY <2>1, <2>2 DEF SecondWord
    <3>2. pid => WordAt(made, 8).pid = TRUE
      BY <2>1, <2>2 DEF SpecialWord
    <3> QED BY <3>1, <3>2 DEF DataStart, HeaderBytes, SpecialBytes, PidBytes
  <2>4. PICK start \in Nat, size \in Nat : start = DataStart(made) /\ size = w * 4
    BY <1>1, <2>3
  <2>5. start + 32 + size <= 256
    BY <1>8, <2>4 DEF CmifPadding, CmifBytes, WordBytes, BufferBytes
  <2> QED BY <2>3, <2>4, <2>5
<1>14. /\ tls'[0] = FirstWord(TypeRequest, FALSE)
       /\ tls'[1] = SecondWord(8 + w, pid, FALSE)
       /\ pid => tls'[2] = SpecialWord(TRUE, FALSE, 0)
       /\ tls'[cmif] = [tag |-> "sfci"]
       /\ tls'[cmif + 2] = [tag |-> "command", command |-> c]
  BY <1>3, <1>5, <1>6, <1>9, <1>10, <1>11, <1>12
<1> QED BY <1>1, <1>2, <1>13, <1>14 DEF Written

\* It is accepted: with its command, and with its payload inside the data.
LEMMA WrittenIsParsed ==
  ASSUME NEW buffer, NEW command, NEW words, NEW pid \in BOOLEAN,
         Written(buffer, command, words, pid)
  PROVE  /\ Parse(buffer).error = "ok" /\ Parse(buffer).type = "request"
         /\ Parse(buffer).command = command /\ Parse(buffer).size >= words * 4
<1> DEFINE start == DataStart(buffer)
           end   == start + WordAt(buffer, 4).words * WordBytes
           cmif  == AlignTo(start, CmifAlign)
<1>0. PICK size \in Nat : size = words * 4 /\ command \in Nat /\ words \in Nat
                          /\ (IF pid THEN 20 ELSE 8) + 32 + size <= 256
  BY DEF Written
<1>1. /\ buffer[0].type = 4 /\ buffer[0].descriptors = FALSE
      /\ buffer[1].words = 8 + words /\ buffer[1].special = pid /\ buffer[1].recvStatic = FALSE
      /\ pid => buffer[2].pid = TRUE /\ buffer[2].handles = FALSE
  BY DEF Written, FirstWord, SecondWord, SpecialWord, TypeRequest
<1>2. WordAt(buffer, 0) = buffer[0] /\ WordAt(buffer, 4) = buffer[1] /\ WordAt(buffer, 8) = buffer[2]
  <2>1. 8 \div 4 = 2
    OBVIOUS
  <2> QED BY <2>1, FirstWords DEF WordAt, WordBytes
<1>3. start = IF pid THEN 20 ELSE 8
  BY <1>1, <1>2 DEF DataStart, HeaderBytes, SpecialBytes, PidBytes
<1>4. cmif = IF pid THEN 32 ELSE 16
  <2>1. cmif = ((start + 15) \div 16) * 16
    BY <1>3 DEF AlignTo, CmifAlign
  <2> HIDE DEF start, cmif
  <2> QED BY <1>3, <2>1
<1>5. end = start + 32 + size
  <2>1. (8 + words) * 4 = 32 + size
    BY <1>0
  <2>2. start \in Nat
    BY <1>3
  <2> HIDE DEF start
  <2> QED BY <1>0, <1>1, <1>2, <2>1, <2>2 DEF WordBytes
<1>6. /\ WordAt(buffer, cmif) = [tag |-> "sfci"]
      /\ WordAt(buffer, cmif + 8) = [tag |-> "command", command |-> command]
  <2>1. 16 \div 4 = 4 /\ 32 \div 4 = 8 /\ 24 \div 4 = 6 /\ 40 \div 4 = 10
    OBVIOUS
  <2> HIDE DEF cmif
  <2>2. CASE pid = TRUE
    <3>1. cmif = 32 /\ cmif + 8 = 40
      BY <1>4, <2>2
    <3> QED BY <2>1, <2>2, <3>1 DEF WordAt, WordBytes, Written
  <2>3. CASE pid = FALSE
    <3>1. cmif = 16 /\ cmif + 8 = 24
      BY <1>4, <2>3
    <3> QED BY <2>1, <2>3, <3>1 DEF WordAt, WordBytes, Written
  <2> QED BY <2>2, <2>3
<1> HIDE DEF start, end, cmif
<1>7. ~ (end > BufferBytes) /\ ~ (cmif + CmifBytes > end) /\ end - (cmif + CmifBytes) >= size
  BY <1>0, <1>3, <1>4, <1>5 DEF BufferBytes, CmifBytes
<1>8. CommandAt(buffer, cmif) = command
  BY <1>6 DEF CommandAt
<1>9. Parse(buffer) = ParseData(buffer)
  <2>1. ~ (4 >= TypeTipcClose) /\ 4 \in {TypeRequest, TypeClose} /\ 4 # TypeClose
    BY DEF TypeTipcClose, TypeRequest, TypeClose
  <2>2. ~ (WordAt(buffer, 4).special /\ WordAt(buffer, HeaderBytes).handles)
    BY <1>1, <1>2 DEF HeaderBytes
  <2> QED BY <1>1, <1>2, <2>1, <2>2 DEF Parse
<1>10. ParseData(buffer) =
         CASE end > BufferBytes -> Refused("memory fault")
           [] end <= BufferBytes /\ cmif + CmifBytes > end -> Refused("memory fault")
           [] OTHER ->
                IF WordAt(buffer, cmif).tag # "sfci" THEN Refused("not implemented")
                ELSE [error |-> "ok", type |-> "request", command |-> CommandAt(buffer, cmif),
                      data |-> cmif + CmifBytes, size |-> end - (cmif + CmifBytes)]
  BY DEF ParseData, start, end, cmif
<1>11. ParseData(buffer) =
         [error |-> "ok", type |-> "request", command |-> command,
          data |-> cmif + CmifBytes, size |-> end - (cmif + CmifBytes)]
  <2>1. WordAt(buffer, cmif).tag = "sfci"
    BY <1>6
  <2> QED BY <1>7, <1>8, <1>10, <2>1
<1>12. PICK data, left : /\ left = end - (cmif + CmifBytes) /\ data = cmif + CmifBytes
                         /\ Parse(buffer) = [error |-> "ok", type |-> "request",
                              command |-> command, data |-> data, size |-> left]
  BY <1>9, <1>11
<1> QED BY <1>0, <1>7, <1>12

\* What the library's reader finds in an answer is what was written there.
LEMMA AnswerIsRead ==
  ASSUME NEW answer, NEW n \in 0 .. 1, answer.handles = [i \in 1 .. n |-> i]
  PROVE  LET read == ClientReads(Response(answer)) IN
         /\ read.magic = "sfco" /\ read.result = answer.result
         /\ read.handles = answer.handles
<1> DEFINE count == Len(answer.handles)
           cmif  == AlignTo(ResponseStart(count), CmifAlign) \div WordBytes
           first == (HeaderBytes + SpecialBytes) \div WordBytes
           words == (CmifPadding + CmifBytes) \div WordBytes
           word(i) ==
             CASE i = 0 -> FirstWord(0, FALSE)
               [] i = 1 -> SecondWord(words, count > 0, FALSE)
               [] i = 2 /\ count > 0 -> SpecialWord(FALSE, TRUE, count)
               [] i \in first .. first + count - 1 ->
                    [tag |-> "handle", handle |-> answer.handles[i - first + 1]]
               [] i = cmif -> [tag |-> "sfco"]
               [] i = cmif + 2 -> [tag |-> "result", result |-> answer.result]
               [] OTHER -> Zero
           buffer == Response(answer)
<1>1. buffer = [i \in BufferWords |-> word(i)]
  BY DEF Response
<1>2. count = n
  OBVIOUS
<1>3. first = 3 /\ words = 8
  BY DEF HeaderBytes, SpecialBytes, CmifPadding, CmifBytes, WordBytes
<1>4. cmif = 4
  <2>1. ResponseStart(count) = IF n > 0 THEN 16 ELSE 8
    BY <1>2 DEF ResponseStart, HeaderBytes, SpecialBytes, HandleBytes
  <2>2. PICK at : at = ResponseStart(count)
    OBVIOUS
  <2>3. cmif = (((at + 15) \div 16) * 16) \div 4
    BY <2>2 DEF AlignTo, CmifAlign, WordBytes
  <2> HIDE DEF cmif
  <2>4. (((16 + 15) \div 16) * 16) \div 4 = 4 /\ (((8 + 15) \div 16) * 16) \div 4 = 4
    OBVIOUS
  <2>5. at = 16 \/ at = 8
    BY <2>1, <2>2
  <2> QED BY <2>3, <2>4, <2>5
<1> HIDE DEF count, cmif, first, words, buffer
<1>5. \A i : i \in first .. first + count - 1 <=> n = 1 /\ i = 3
  BY <1>2, <1>3
<1>6. word(1) = SecondWord(words, count > 0, FALSE)
  <2>1. 1 # 0 /\ 1 # 2 /\ 1 # cmif /\ 1 # cmif + 2 /\ 1 # 3
    BY <1>4
  <2> QED BY <1>5, <2>1, Zenon
<1>7. ASSUME n = 1 PROVE word(2) = SpecialWord(FALSE, TRUE, count)
  <2>1. 2 # 0 /\ 2 # 1 /\ count > 0 /\ 2 # cmif /\ 2 # cmif + 2 /\ 2 # 3
    BY <1>2, <1>4, <1>7
  <2> QED BY <1>5, <2>1, Zenon
<1>8. ASSUME n = 1 PROVE word(3) = [tag |-> "handle", handle |-> 1]
  <2>1. 3 # 0 /\ 3 # 1 /\ 3 # 2 /\ 3 # cmif /\ 3 # cmif + 2
    BY <1>4
  <2>2. word(3) = [tag |-> "handle", handle |-> answer.handles[3 - first + 1]]
    BY <1>5, <1>8, <2>1, Zenon
  <2>3. answer.handles[3 - first + 1] = 1
    BY <1>3, <1>8
  <2> HIDE DEF word
  <2> QED BY <2>2, <2>3
<1>9. word(4) = [tag |-> "sfco"]
  <2>1. 4 # 0 /\ 4 # 1 /\ 4 # 2 /\ 4 # 3 /\ 4 = cmif /\ 4 # cmif + 2
    BY <1>4
  <2> QED BY <1>5, <2>1, Zenon
<1>10. word(6) = [tag |-> "result", result |-> answer.result]
  <2>1. 6 # 0 /\ 6 # 1 /\ 6 # 2 /\ 6 # 3 /\ 6 # cmif /\ 6 = cmif + 2
    BY <1>4
  <2> QED BY <1>5, <2>1, Zenon
<1> HIDE DEF word
<1>11. /\ buffer[1] = SecondWord(words, n > 0, FALSE)
       /\ n = 1 => buffer[2] = SpecialWord(FALSE, TRUE, 1)
                   /\ buffer[3] = [tag |-> "handle", handle |-> 1]
       /\ buffer[4] = [tag |-> "sfco"]
       /\ buffer[6] = [tag |-> "result", result |-> answer.result]
  <2>1. {1, 2, 3, 4, 6} \subseteq BufferWords
    <3>1. BufferWords = 0 .. 63
      BY DEF BufferWords, BufferBytes, WordBytes
    <3> QED BY <3>1
  <2> QED BY <1>1, <1>2, <1>6, <1>7, <1>8, <1>9, <1>10, <2>1
<1>12. /\ WordAt(buffer, 4) = buffer[1] /\ WordAt(buffer, 8) = buffer[2]
       /\ WordAt(buffer, 12) = buffer[3] /\ WordAt(buffer, 16) = buffer[4]
       /\ WordAt(buffer, 24) = buffer[6]
  <2>1. 4 \div 4 = 1 /\ 8 \div 4 = 2 /\ 12 \div 4 = 3 /\ 16 \div 4 = 4 /\ 24 \div 4 = 6
    OBVIOUS
  <2> QED BY <2>1 DEF WordAt, WordBytes
<1> DEFINE moves == IF WordAt(buffer, 4).special THEN WordAt(buffer, HeaderBytes).moves ELSE 0
           start == IF WordAt(buffer, 4).special THEN HeaderBytes + SpecialBytes ELSE HeaderBytes
           header == AlignTo(start + moves * HandleBytes, CmifAlign)
<1>13. WordAt(buffer, 4).special = (n > 0)
  BY <1>11, <1>12 DEF SecondWord
<1>14. moves = n /\ start = (IF n > 0 THEN 12 ELSE 8)
  <2>1. n = 1 => WordAt(buffer, HeaderBytes).moves = 1
    BY <1>11, <1>12 DEF HeaderBytes, SpecialWord
  <2>2. CASE n = 0
    <3>1. (n > 0) = FALSE
      BY <2>2
    <3>2. WordAt(buffer, 4).special = FALSE
      BY <1>13, <3>1
    <3> QED BY <2>2, <3>1, <3>2 DEF HeaderBytes
  <2>3. CASE n = 1
    <3>1. (n > 0) = TRUE
      BY <2>3
    <3>2. WordAt(buffer, 4).special = TRUE
      BY <1>13, <3>1
    <3> QED BY <2>1, <2>3, <3>1, <3>2 DEF HeaderBytes, SpecialBytes
  <2> QED BY <2>2, <2>3
<1> HIDE DEF moves, start
<1>15. header = 16
  <2>1. start + moves * HandleBytes = IF n > 0 THEN 16 ELSE 8
    BY <1>14 DEF HandleBytes
  <2>2. PICK at : at = start + moves * HandleBytes
    OBVIOUS
  <2>3. header = ((at + 15) \div 16) * 16
    BY <2>2 DEF AlignTo, CmifAlign
  <2> HIDE DEF header
  <2>4. ((16 + 15) \div 16) * 16 = 16 /\ ((8 + 15) \div 16) * 16 = 16
    OBVIOUS
  <2>5. at = 16 \/ at = 8
    BY <2>1, <2>2
  <2> QED BY <2>3, <2>4, <2>5
<1> HIDE DEF header
<1> DEFINE handles == [i \in 1 .. moves |-> WordAt(buffer, start + (i - 1) * HandleBytes).handle]
<1>16. ClientReads(buffer) = [magic |-> WordAt(buffer, header).tag,
         result |-> WordAt(buffer, header + 8).result, handles |-> handles]
  BY DEF ClientReads, moves, start, header
<1>17. handles = answer.handles
  <2>1. ASSUME NEW i \in 1 .. n PROVE WordAt(buffer, start + (i - 1) * HandleBytes).handle = i
    <3>1. n = 1 /\ i = 1
      BY <2>1
    <3>2. start + (i - 1) * HandleBytes = 12
      BY <1>14, <3>1 DEF HandleBytes
    <3> QED BY <1>11, <1>12, <3>1, <3>2
  <2> QED BY <1>14, <2>1
<1>18. WordAt(buffer, header).tag = "sfco" /\ WordAt(buffer, header + 8).result = answer.result
  <2>1. header + 8 = 24
    BY <1>15
  <2> QED BY <1>11, <1>12, <1>15, <2>1
<1> HIDE DEF handles
<1> QED BY <1>16, <1>17, <1>18 DEF buffer

\* A client's message lies in the buffer until it is answered.
RequestWaits ==
  sent # NoClient /\ req = NoRequest =>
    \E pid \in BOOLEAN : Written(tls, sent.command, sent.words, pid)

ClientIInv == MessageIInv /\ table \in Tables /\ RequestWaits /\ ClientGetsItsAnswer

LEMMA SendAnswers ==
  ASSUME ClientIInv, NEW n \in HandleCounts, SendSyncRequest([i \in 1 .. n |-> i]),
         sent # NoClient
  PROVE  ClientGetsItsAnswer'
<1>1. req = NoRequest /\ req' = Parse(tls) /\ sent' = sent /\ table' = table
  BY DEF SendSyncRequest
<1>2. PICK pid \in BOOLEAN : Written(tls, sent.command, sent.words, pid)
  BY <1>1 DEF ClientIInv, RequestWaits
<1>3. PICK parsed : parsed = Parse(tls) /\ parsed.error = "ok" /\ parsed.type = "request"
                    /\ parsed.command = sent.command /\ parsed.size >= sent.words * 4
  BY <1>2, WrittenIsParsed
<1>4. PICK answer : /\ answer = Dispatch(table, sent.command, [i \in 1 .. n |-> i])
                    /\ tls' = Response(answer) /\ reply' = answer
  BY <1>3 DEF SendSyncRequest
<1>5. n \in 0 .. 1
  BY MessageAssumption DEF IPC_MAX_OUT_OBJECTS
<1>6. table \in Seq(Nat) /\ Sorted(table) /\ sent.command \in Int
  <2>1. sent.command \in Nat
    BY <1>2 DEF Written
  <2> QED BY <2>1, MessageAssumption DEF ClientIInv, Sorted
<1> DEFINE known == \E i \in DOMAIN table : table[i] = sent.command
<1>7. /\ answer.result = IF known THEN sent.command ELSE NotImplemented
      /\ \E k \in 0 .. 1 : answer.handles = [i \in 1 .. k |-> i]
  <2>1. PICK at : at = Search(table, sent.command)
    OBVIOUS
  <2>2. Finds(table, sent.command, 0, Len(table), at)
    BY <1>6, <2>1, SearchFinds
  <2>3. answer = IF at = 0 THEN [result |-> NotImplemented, handles |-> <<>>]
                 ELSE [result |-> table[at], handles |-> [i \in 1 .. n |-> i]]
    BY <1>4, <2>1 DEF Dispatch
  <2>4. PICK size \in Nat : size = Len(table) /\ DOMAIN table = 1 .. size /\ 0 + 1 = 1
    BY <1>6
  <2>5. CASE known
    <3>1. at \in DOMAIN table /\ table[at] = sent.command
      BY <2>2, <2>4, <2>5 DEF Finds
    <3>2. at # 0
      BY <2>4, <3>1
    <3> QED BY <1>5, <2>3, <2>5, <3>1, <3>2
  <2>6. CASE ~ known
    <3>1. at = 0
      BY <2>2, <2>4, <2>6 DEF Finds
    <3>2. <<>> = [i \in 1 .. 0 |-> i]
      OBVIOUS
    <3>3. answer.handles = <<>> /\ answer.result = NotImplemented
      BY <2>3, <3>1
    <3> QED BY <2>6, <3>2, <3>3
  <2> QED BY <2>5, <2>6
<1>8. PICK k \in 0 .. 1 : answer.handles = [i \in 1 .. k |-> i]
  BY <1>7
<1>9. PICK read : /\ read = ClientReads(tls') /\ read.magic = "sfco"
                  /\ read.result = answer.result /\ read.handles = answer.handles
  BY <1>4, <1>8, AnswerIsRead
<1>10. parsed.size >= sent.words * WordBytes
  BY <1>3 DEF WordBytes
<1> QED BY <1>1, <1>3, <1>4, <1>7, <1>9, <1>10 DEF ClientGetsItsAnswer

\* A client's request is accepted with all its payload and comes back with the
\* result of the very command it named, or its refusal, and its handles: over
\* whatever earlier messages left in the buffer, for every sorted command table,
\* whose binary search is exact, and every payload that fits.
THEOREM ClientGetsItsAnswerHolds == MessageSpec => []ClientGetsItsAnswer
<1>1. table \in Tables /\ MessageStart => ClientIInv
  <2> SUFFICES ASSUME table \in Tables, MessageStart PROVE ClientIInv
    OBVIOUS
  <2>1. MessageIInv
    <3>1. DOMAIN tls = BufferWords /\ tls[0] = Fill /\ req = NoRequest
      BY WordsThere DEF MessageStart
    <3> QED BY <3>1 DEF MessageIInv, CountIsNumber, DataInsideBuffer, Fill
  <2> QED BY <2>1 DEF ClientIInv, MessageStart, RequestWaits, ClientGetsItsAnswer
<1>2. ClientIInv /\ [MessageNext]_messageVars => ClientIInv'
  <2> SUFFICES ASSUME ClientIInv, [MessageNext]_messageVars PROVE ClientIInv'
    OBVIOUS
  <2>1. CASE UNCHANGED messageVars
    BY <2>1 DEF messageVars, ClientIInv, MessageIInv, CountIsNumber, DataInsideBuffer,
                RequestWaits, ClientGetsItsAnswer
  <2>2. ASSUME NEW c \in Commands, NEW w \in PayloadWords, NEW pid \in BOOLEAN,
               Compose(c, w, pid)
        PROVE  ClientIInv'
    <3>1. MessageIInv'
      BY <2>2, ComposeKeeps DEF ClientIInv
    <3>2. Written(tls', c, w, pid)
      BY <2>2, ComposeWrites DEF ClientIInv, MessageIInv
    <3>3. /\ sent'.command = c /\ sent'.words = w /\ req' = NoRequest /\ table' = table
      BY <2>2 DEF Compose
    <3>4. RequestWaits' /\ ClientGetsItsAnswer'
      BY <3>2, <3>3 DEF RequestWaits, ClientGetsItsAnswer
    <3> QED BY <3>1, <3>3, <3>4 DEF ClientIInv
  <2>3. ASSUME NEW h \in Headers, NEW at, Scribble(h, at) PROVE ClientIInv'
    <3>1. MessageIInv'
      BY <2>3, ScribbleKeeps DEF ClientIInv
    <3>2. sent' = NoClient /\ table' = table
      BY <2>3 DEF Scribble
    <3> QED BY <3>1, <3>2 DEF ClientIInv, RequestWaits, ClientGetsItsAnswer
  <2>4. ASSUME NEW n \in HandleCounts, SendSyncRequest([i \in 1 .. n |-> i]) PROVE ClientIInv'
    <3>1. MessageIInv'
      BY <2>4, SendKeeps DEF ClientIInv
    <3>2. sent' = sent /\ table' = table /\ req' = Parse(tls)
      BY <2>4 DEF SendSyncRequest
    <3>3. CASE sent = NoClient
      BY <3>1, <3>2, <3>3 DEF ClientIInv, RequestWaits, ClientGetsItsAnswer
    <3>4. CASE sent # NoClient
      <4>1. ClientGetsItsAnswer'
        BY <2>4, <3>4, SendAnswers
      <4>2. req' # NoRequest
        <5>1. PICK pid \in BOOLEAN : Written(tls, sent.command, sent.words, pid)
          BY <2>4, <3>4 DEF ClientIInv, RequestWaits, SendSyncRequest
        <5>2. req'.error = "ok"
          BY <3>2, <5>1, WrittenIsParsed
        <5>3. NoRequest.error # "ok"
          BY DEF NoRequest
        <5> QED BY <5>2, <5>3
      <4> QED BY <3>1, <3>2, <4>1, <4>2 DEF ClientIInv, RequestWaits
    <3> QED BY <3>3, <3>4
  <2> QED BY <2>1, <2>2, <2>3, <2>4 DEF MessageNext
<1>3. ClientIInv => ClientGetsItsAnswer
  BY DEF ClientIInv
<1> QED BY <1>1, <1>2, <1>3, PTL DEF MessageSpec

-----------------------------------------------------------------------------
(* The loader: arithmetic.                                                 *)

LEMMA DivFacts ==
  ASSUME NEW a \in Nat, NEW p \in Nat \ {0}
  PROVE  /\ a \div p \in Nat /\ a % p \in Nat
         /\ a = p * (a \div p) + (a % p) /\ a % p < p
         /\ a < p => a % p = a
OBVIOUS

LEMMA ProductGrows ==
  ASSUME NEW a \in Nat, NEW b \in Nat, NEW p \in Nat, a <= b
  PROVE  a * p <= b * p /\ a * p \in Nat
OBVIOUS

\* AlignUp rounds up to the least multiple of the page.
LEMMA AlignUpLeast ==
  ASSUME NEW v \in Nat
  PROVE  /\ AlignUp(v) \in Nat /\ AlignUp(v) >= v
         /\ \E q \in Nat : AlignUp(v) = q * NsoPage
         /\ \A r \in Nat : r * NsoPage >= v => r * NsoPage >= AlignUp(v)
<1> DEFINE P == NsoPage
           n == v + P - 1
           q == n \div P
<1>1. P \in Nat \ {0}
  BY LoaderAssumption
<1>2. n \in Nat /\ n >= P - 1
  BY <1>1
<1>3. AlignUp(v) = q * P
  BY DEF AlignUp
<1> HIDE DEF P
<1>4. q \in Nat /\ n = P * q + (n % P) /\ n % P \in Nat /\ n % P < P
  <2> HIDE DEF n
  <2> QED BY <1>1, <1>2, DivFacts
<1>5. q * P \in Nat /\ q * P = P * q
  <2> HIDE DEF q
  <2> QED BY <1>1, <1>4
<1>6. q * P >= v
  <2> HIDE DEF q
  <2>1. n = v + P - 1
    OBVIOUS
  <2> HIDE DEF n
  <2> QED BY <1>1, <1>4, <1>5, <2>1
<1>7. ASSUME NEW r \in Nat, NEW m \in Nat, m = r * P, m >= v PROVE m >= q * P
  <2>1. m = r * P
    BY <1>7
  <2>2. CASE r >= q
    <3> HIDE DEF q
    <3> QED BY <1>1, <1>4, <2>1, <2>2, ProductGrows
  <2>3. CASE r < q
    <3> HIDE DEF q
    <3>1. r + 1 <= q
      BY <1>4, <2>3
    <3>2. (r + 1) * P <= q * P
      BY <1>1, <1>4, <3>1, ProductGrows
    <3>3. (r + 1) * P = r * P + P
      BY <1>1
    <3>4. m + P <= P * q
      BY <1>1, <1>4, <1>5, <2>1, <3>2, <3>3
    <3>5. n = v + P - 1
      OBVIOUS
    <3> DEFINE t == P * q
               k == n % P
    <3>6. n = t + k /\ k \in Nat /\ m + P <= t /\ t \in Nat
      <4>1. n = t + k
        BY <1>4, Zenon
      <4>5. k \in Nat
        BY <1>4, Zenon
      <4>2. m + P <= t
        BY <3>4, Zenon
      <4>3. t \in Nat
        BY <1>5, Zenon
      <4> QED BY <4>1, <4>5, <4>2, <4>3
    <3> HIDE DEF n, t, k
    <3>7. m + P <= n
      BY <1>1, <1>2, <3>6
    <3> QED BY <1>1, <1>7, <3>5, <3>7
  <2> QED BY <1>4, <2>1, <2>2, <2>3
<1>8. \A r \in Nat : r * P \in Nat
  BY <1>1
<1> HIDE DEF q
<1> QED BY <1>3, <1>4, <1>5, <1>6, <1>7, <1>8 DEF P

-----------------------------------------------------------------------------
(* The loader: the sections of the header.                                 *)

\* What a section that is accepted says of where its payload lies.
SectionSound(p) ==
  /\ {p.offset, p.size, p.data, p.dataSize} \subseteq Nat
  /\ p.data >= p.offset /\ p.data + p.dataSize <= p.offset + p.size

LEMMA PayloadInside ==
  ASSUME NEW s, SectionNumbers(s), ~ Absent(s), ParsesSection(s)
  PROVE  SectionSound(Parsed(s))
<1>1. s.end >= s.start /\ LocatesData(s) /\ DataFits(s)
  BY DEF ParsesSection
<1>2. s.start \in Nat /\ s.end \in Nat /\ s.layers \in Nat
  BY DEF SectionNumbers
<1>3. Unit \in Nat /\ MaxLayers \in Nat /\ MaxLevels \in Nat
  BY LoaderAssumption
<1>4. SectionSize(s) \in Nat /\ s.start * Unit \in Nat
  <2>1. PICK n \in Nat : n = s.end - s.start
    BY <1>1, <1>2
  <2>2. n * Unit \in Nat
    BY <1>3
  <2> QED BY <1>2, <1>3, <2>1, <2>2 DEF SectionSize
<1>5. DataRange(s).offset \in Nat /\ DataRange(s).size \in Nat
  <2>1. CASE s.hash = "none"
    <3>1. DataRange(s) = [offset |-> 0, size |-> SectionSize(s)]
      BY <2>1, Zenon DEF DataRange
    <3> QED BY <1>4, <3>1
  <2>2. CASE s.hash = "sha256"
    <3>1. DataRange(s) = s.regions[s.layers]
      BY <2>2 DEF DataRange
    <3>2. s.layers \in 1 .. MaxLayers
      BY <1>1, <1>2, <1>3, <2>2 DEF LocatesData
    <3>3. s.regions[s.layers] \in Window
      BY <3>2 DEF SectionNumbers
    <3> QED BY <3>1, <3>3 DEF Window
  <2>3. CASE s.hash = "ivfc"
    <3>1. DataRange(s) = s.regions[s.layers - 1]
      BY <2>3 DEF DataRange
    <3>2. s.layers - 1 \in 1 .. MaxLevels
      BY <1>1, <1>2, <1>3, <2>3 DEF LocatesData
    <3>3. s.regions[s.layers - 1] \in Window
      BY <3>2 DEF SectionNumbers
    <3> QED BY <3>1, <3>3 DEF Window
  <2> QED BY <1>1, <2>1, <2>2, <2>3 DEF LocatesData
<1>6. PICK n \in Nat, at \in Nat : n = SectionSize(s) /\ at = s.start * Unit
  BY <1>4
<1>7. PICK range : range = DataRange(s)
  OBVIOUS
<1>8. range.offset \in Nat /\ range.size \in Nat /\ InRange(range.offset, range.size, n)
  BY <1>1, <1>5, <1>6, <1>7 DEF DataFits
<1>9. /\ Parsed(s).offset = at /\ Parsed(s).size = n
      /\ Parsed(s).data = at + range.offset /\ Parsed(s).dataSize = range.size
  BY <1>6, <1>7 DEF Parsed
<1>10. /\ at + range.offset \in Nat /\ at + range.offset >= at
       /\ at + range.offset + range.size <= at + n
  BY <1>8 DEF InRange
<1> QED BY <1>8, <1>9, <1>10 DEF SectionSound

-----------------------------------------------------------------------------
(* The loader: the images.                                                 *)

\* What pass 1 of process_bootstrap knows of a module it keeps.
Pages(m, k) ==
  LET s == m.nso.segments IN
  {p \in 0 .. m.image \div NsoPage : p * NsoPage >= s[k].at
                                     /\ p * NsoPage < s[k].at + s[k].size}
ImageSound(m) ==
  /\ \A k \in Kinds : m.nso.segments[k].at + AlignUp(m.nso.segments[k].size) <= m.image
  /\ \A j, k \in Kinds : j # k => Pages(m, j) \cap Pages(m, k) = {}

LEMMA Multiple ==
  ASSUME NEW m \in Nat, m % NsoPage = 0
  PROVE  \E r \in Nat : m = r * NsoPage
<1>1. NsoPage \in Nat \ {0}
  BY LoaderAssumption
<1>2. PICK d \in Nat : m = NsoPage * d + (m % NsoPage)
  BY <1>1, DivFacts
<1>3. NsoPage * d = d * NsoPage /\ d * NsoPage \in Nat
  BY <1>1
<1> QED BY <1>2, <1>3

\* A segment on a page boundary keeps its whole pages below any boundary
\* that its bytes stay below.
LEMMA PagesBelow ==
  ASSUME NEW at \in Nat, at % NsoPage = 0, NEW size \in Nat,
         NEW end \in Nat, NEW q \in Nat, end = q * NsoPage, at + size <= end
  PROVE  at + AlignUp(size) <= end
<1>1. NsoPage \in Nat \ {0}
  BY LoaderAssumption
<1>2. PICK r \in Nat : at = r * NsoPage
  BY Multiple
<1>3. r <= q
  <2> SUFFICES ASSUME ~ (r <= q) PROVE FALSE
    OBVIOUS
  <2>1. q + 1 <= r
    OBVIOUS
  <2>2. (q + 1) * NsoPage <= r * NsoPage
    BY <1>1, <2>1, ProductGrows
  <2>3. (q + 1) * NsoPage = q * NsoPage + NsoPage
    BY <1>1
  <2> QED BY <1>1, <1>2, <2>2, <2>3
<1>4. PICK n \in Nat : q = r + n
  <2>1. q - r \in Nat /\ q = r + (q - r)
    BY <1>3
  <2> QED BY <2>1
<1>5. n * NsoPage \in Nat /\ q * NsoPage = r * NsoPage + n * NsoPage
  BY <1>1, <1>4
<1>6. PICK room \in Nat : room = n * NsoPage /\ end = at + room
  BY <1>2, <1>5
<1>7. room >= size
  BY <1>6
<1>8. AlignUp(size) \in Nat /\ room >= AlignUp(size)
  BY <1>6, <1>7, AlignUpLeast
<1> QED BY <1>6, <1>8

LEMMA ImageIsSound ==
  ASSUME NEW m, NEW size, NsoNumbers(m.nso), OpensNso(m.nso, size),
         m.image = ImageSize(m.nso)
  PROVE  ImageSound(m)
<1> DEFINE s == m.nso.segments
           At(k)   == s[k].at
           Size(k) == s[k].size
<1>1. \A k \in Kinds : At(k) \in Nat /\ Size(k) \in Nat
  BY DEF NsoNumbers, Kinds
<1>2. \A k \in Kinds : At(k) % NsoPage = 0
  BY DEF OpensNso, SegmentFits
<1>3. At(2) >= At(1) + Size(1) /\ At(3) >= At(2) + Size(2)
  <2>1. 2 - 1 = 1 /\ 3 - 1 = 2
    OBVIOUS
  <2> QED BY <2>1 DEF OpensNso, Ascending
<1>4. PICK bss \in Nat : m.image = AlignUp(At(3) + Size(3) + bss)
  BY DEF NsoNumbers, ImageSize
<1>5. 1 \in Kinds /\ 2 \in Kinds /\ 3 \in Kinds
  BY DEF Kinds
<1> HIDE DEF At, Size
<1>6. At(3) + Size(3) + bss \in Nat
  BY <1>1, <1>5
<1>7. PICK q \in Nat : m.image = q * NsoPage /\ m.image \in Nat
  BY <1>4, <1>6, AlignUpLeast
<1>8. m.image >= At(3) + Size(3)
  <2>1. m.image >= At(3) + Size(3) + bss
    BY <1>4, <1>6, AlignUpLeast
  <2> QED BY <1>1, <1>5, <1>7, <2>1
<1>9. \A k \in Kinds : At(k) + AlignUp(Size(k)) <= m.image
  <2>1. \A k \in Kinds : AlignUp(Size(k)) \in Nat
    BY <1>1, AlignUpLeast
  <2>2. At(3) + AlignUp(Size(3)) <= m.image
    BY <1>1, <1>2, <1>5, <1>7, <1>8, PagesBelow
  <2>3. At(2) + AlignUp(Size(2)) <= At(3)
    <3>1. PICK r \in Nat : At(3) = r * NsoPage
      BY <1>1, <1>2, <1>5, Multiple
    <3> QED BY <1>1, <1>2, <1>3, <1>5, <3>1, PagesBelow
  <2>4. At(1) + AlignUp(Size(1)) <= At(2)
    <3>1. PICK r \in Nat : At(2) = r * NsoPage
      BY <1>1, <1>2, <1>5, Multiple
    <3> QED BY <1>1, <1>2, <1>3, <1>5, <3>1, PagesBelow
  <2>5. At(1) + AlignUp(Size(1)) <= m.image /\ At(2) + AlignUp(Size(2)) <= m.image
    BY <1>1, <1>5, <1>7, <2>1, <2>2, <2>3, <2>4
  <2> QED BY <2>2, <2>5 DEF Kinds
<1>10. \A j, k \in Kinds : j < k => At(j) + Size(j) <= At(k)
  <2>1. At(1) + Size(1) <= At(3)
    BY <1>1, <1>3, <1>5
  <2> QED BY <1>1, <1>3, <1>5, <2>1 DEF Kinds
<1>11. ASSUME NEW j \in Kinds, NEW k \in Kinds, j # k PROVE Pages(m, j) \cap Pages(m, k) = {}
  <2> SUFFICES ASSUME NEW p \in Pages(m, j), p \in Pages(m, k) PROVE FALSE
    OBVIOUS
  <2>1. /\ p * NsoPage >= At(j) /\ p * NsoPage < At(j) + Size(j)
        /\ p * NsoPage >= At(k) /\ p * NsoPage < At(k) + Size(k)
    BY DEF Pages, At, Size
  <2>2. p \in 0 .. m.image \div NsoPage
    BY DEF Pages
  <2>3. p * NsoPage \in Nat
    <3>1. NsoPage \in Nat \ {0}
      BY LoaderAssumption
    <3>2. m.image \div NsoPage \in Nat
      BY <1>7, <3>1, DivFacts
    <3>3. p \in Nat
      BY <2>2, <3>2
    <3> QED BY <3>1, <3>3
  <2>4. j < k \/ k < j
    BY <1>11 DEF Kinds
  <2>5. CASE j < k
    BY <1>1, <1>10, <2>1, <2>3, <2>5
  <2>6. CASE k < j
    BY <1>1, <1>10, <2>1, <2>3, <2>6
  <2> QED BY <2>4, <2>5, <2>6
<1>12. \A k \in Kinds : s[k].at + AlignUp(s[k].size) <= m.image
  BY <1>9 DEF At, Size
<1> QED BY <1>11, <1>12 DEF ImageSound

-----------------------------------------------------------------------------
(* The loader: where a read goes.  A source has at most three windows, the *)
(* file, a section and an entry of the directory.                          *)

Nested(source) ==
  /\ source \in Seq(Window) /\ Len(source) \in 1 .. 3
  /\ source[1].offset = 0 /\ source[1].size < Limit
  /\ \A k \in 2 .. Len(source) : source[k].offset + source[k].size <= source[k - 1].size

\* What ReadsStayInEveryWindow says of one read.
ReadInside(read) ==
  LET source == read.source IN
  /\ read.from = Base(source) + read.offset
  /\ \A k \in DOMAIN source :
       LET start == Base(SubSeq(source, 1, k)) IN
       read.from >= start /\ read.from + read.size <= start + source[k].size

LEMMA PlaceUnfolds ==
  ASSUME NEW source, Len(source) \in 1 .. 3, NEW offset
  PROVE  LET at == Place(source, offset)
             n  == Len(source)
         IN \A k \in 0 .. n :
              at[k] = IF k = n THEN offset ELSE (at[k + 1] + source[k + 1].offset) % Limit
<1> DEFINE n == Len(source)
           Body(f) == [k \in 0 .. n |->
             IF k = n THEN offset ELSE (f[k + 1] + source[k + 1].offset) % Limit]
<1>1. \E f : f = Body(f)
  <2>1. PICK a : a = (offset + source[n].offset) % Limit
    OBVIOUS
  <2>2. PICK b : b = (a + source[n - 1].offset) % Limit
    OBVIOUS
  <2>3. PICK c : c = (b + source[n - 2].offset) % Limit
    OBVIOUS
  <2> DEFINE g == [k \in 0 .. n |-> IF k = n THEN offset ELSE IF k = n - 1 THEN a
                                    ELSE IF k = n - 2 THEN b ELSE c]
  <2>4. ASSUME NEW k \in 0 .. n PROVE g[k] = Body(g)[k]
    <3>1. k = n \/ k = n - 1 \/ k = n - 2 \/ k = n - 3
      <4>1. n \in 1 .. 3 /\ k \in 0 .. n
        OBVIOUS
      <4> HIDE DEF n
      <4> QED BY <4>1
    <3>2. CASE k = n
      BY <3>2
    <3>3. CASE k = n - 1
      <4>1. k + 1 = n /\ k # n /\ n \in 0 .. n
        BY <3>3
      <4> QED BY <2>1, <3>3, <4>1
    <3>4. CASE k = n - 2
      <4>1. k + 1 = n - 1 /\ k # n /\ k # n - 1 /\ n - 1 \in 0 .. n /\ n - 1 # n
        BY <3>4
      <4> QED BY <2>2, <3>4, <4>1
    <3>5. CASE k = n - 3
      <4>1. /\ k + 1 = n - 2 /\ k # n /\ k # n - 1 /\ k # n - 2
            /\ n - 2 \in 0 .. n /\ n - 2 # n /\ n - 2 # n - 1
        BY <3>5
      <4> QED BY <2>3, <3>5, <4>1
    <3> QED BY <3>1, <3>2, <3>3, <3>4, <3>5
  <2>5. g = Body(g)
    BY <2>4
  <2> QED BY <2>5
<1>2. Place(source, offset) = CHOOSE f : f = Body(f)
  BY DEF Place
<1>3. Place(source, offset) = Body(Place(source, offset))
  BY <1>1, <1>2
<1> QED BY <1>3

LEMMA BaseUnfolds ==
  ASSUME NEW source, Len(source) \in 1 .. 3
  PROVE  /\ Len(source) = 1 => Base(source) = 0 + source[1].offset
         /\ Len(source) = 2 => Base(source) = 0 + source[1].offset + source[2].offset
         /\ Len(source) = 3 =>
              Base(source) = 0 + source[1].offset + source[2].offset + source[3].offset
<1> DEFINE n == Len(source)
           Body(f) == [k \in 0 .. n |-> IF k = 0 THEN 0 ELSE f[k - 1] + source[k].offset]
           sum == CHOOSE f : f = Body(f)
<1>1. PICK a : a = 0 + source[1].offset
  OBVIOUS
<1>2. PICK b : b = a + source[2].offset
  OBVIOUS
<1>3. PICK c : c = b + source[3].offset
  OBVIOUS
<1> DEFINE g == [k \in 0 .. n |-> IF k = 0 THEN 0 ELSE IF k = 1 THEN a
                                  ELSE IF k = 2 THEN b ELSE c]
<1>4. ASSUME NEW k \in 0 .. n PROVE g[k] = Body(g)[k]
  <2>1. k = 0 \/ k = 1 \/ k = 2 \/ k = 3
    <3>1. n \in 1 .. 3 /\ k \in 0 .. n
      OBVIOUS
    <3> HIDE DEF n
    <3> QED BY <3>1
  <2>2. CASE k = 0
    BY <2>2
  <2>3. CASE k = 1
    BY <1>1, <2>3
  <2>4. CASE k = 2
    BY <1>2, <2>4
  <2>5. CASE k = 3
    BY <1>3, <2>5
  <2> QED BY <2>1, <2>2, <2>3, <2>4, <2>5
<1>5. g = Body(g)
  BY <1>4
<1>6. sum = Body(sum)
  BY <1>5
<1>7. Base(source) = sum[n]
  BY DEF Base
<1> HIDE DEF sum
<1>8. sum[0] = 0
  BY <1>6
<1>9. sum[1] = 0 + source[1].offset
  BY <1>6, <1>8
<1>10. n >= 2 => sum[2] = 0 + source[1].offset + source[2].offset
  BY <1>6, <1>9
<1>11. n >= 3 => sum[3] = 0 + source[1].offset + source[2].offset + source[3].offset
  BY <1>6, <1>10
<1>12. /\ n = 1 => Base(source) = 0 + source[1].offset
       /\ n = 2 => Base(source) = 0 + source[1].offset + source[2].offset
       /\ n = 3 => Base(source) = 0 + source[1].offset + source[2].offset + source[3].offset
  <2> HIDE DEF n
  <2> QED BY <1>7, <1>9, <1>10, <1>11
<1> QED BY <1>12

LEMMA PrefixBase ==
  ASSUME NEW source, Nested(source)
  PROVE  \A k \in 1 .. Len(source) :
           Base(SubSeq(source, 1, k)) =
             CASE k = 1 -> 0 + source[1].offset
               [] k = 2 -> 0 + source[1].offset + source[2].offset
               [] k = 3 -> 0 + source[1].offset + source[2].offset + source[3].offset
<1> SUFFICES ASSUME NEW k \in 1 .. Len(source)
             PROVE  Base(SubSeq(source, 1, k)) =
               CASE k = 1 -> 0 + source[1].offset
                 [] k = 2 -> 0 + source[1].offset + source[2].offset
                 [] k = 3 -> 0 + source[1].offset + source[2].offset + source[3].offset
  OBVIOUS
<1>1. source \in Seq(Window) /\ Len(source) \in 1 .. 3
  BY DEF Nested
<1>2. PICK prefix : prefix = SubSeq(source, 1, k)
  OBVIOUS
<1>3. Len(prefix) = k /\ \A i \in 1 .. k : prefix[i] = source[i]
  BY <1>1, <1>2
<1>4. k \in 1 .. 3
  <2>1. PICK n \in 1 .. 3 : n = Len(source)
    BY <1>1
  <2>2. k \in 1 .. n
    BY <2>1
  <2> QED BY <2>2
<1>5. CASE k = 1
  <2>1. Base(prefix) = 0 + prefix[1].offset
    BY <1>3, <1>5, BaseUnfolds
  <2> QED BY <1>2, <1>3, <1>5, <2>1
<1>6. CASE k = 2
  <2>1. Base(prefix) = 0 + prefix[1].offset + prefix[2].offset
    BY <1>3, <1>6, BaseUnfolds
  <2>2. prefix[1] = source[1] /\ prefix[2] = source[2]
    BY <1>3, <1>6
  <2> QED BY <1>2, <1>6, <2>1, <2>2
<1>7. CASE k = 3
  <2>1. Base(prefix) = 0 + prefix[1].offset + prefix[2].offset + prefix[3].offset
    BY <1>3, <1>7, BaseUnfolds
  <2>2. prefix[1] = source[1] /\ prefix[2] = source[2] /\ prefix[3] = source[3]
    BY <1>3, <1>7
  <2> QED BY <1>2, <1>7, <2>1, <2>2
<1> QED BY <1>4, <1>5, <1>6, <1>7

LEMMA ReadIsInside ==
  ASSUME NEW source, Nested(source), NEW offset \in Nat, NEW size \in Nat,
         InRange(offset, size, SizeOf(source)),
         NEW read, read.source = source, read.offset = offset,
         read.from = Place(source, offset)[0], read.size = size
  PROVE  ReadInside(read)
<1>1. source \in Seq(Window) /\ Len(source) \in 1 .. 3 /\ Limit \in Nat
  BY LoaderAssumption DEF Nested
<1>2. \A k \in 1 .. Len(source) : source[k].offset \in Nat /\ source[k].size \in Nat
  <2>1. \A k \in 1 .. Len(source) : source[k] \in Window
    BY <1>1
  <2>2. \A w \in Window : w.offset \in Nat /\ w.size \in Nat
    BY DEF Window
  <2> QED BY <2>1, <2>2
<1>3. source[1].offset = 0 /\ source[1].size < Limit
  BY DEF Nested
<1>4. DOMAIN source = 1 .. Len(source)
  BY <1>1
<1>5. PICK at : at = Place(source, offset)
  OBVIOUS
<1>6. \A k \in 0 .. Len(source) :
        at[k] = IF k = Len(source) THEN offset ELSE (at[k + 1] + source[k + 1].offset) % Limit
  BY <1>1, <1>5, PlaceUnfolds
<1>7. \A x \in Nat : x < Limit => x % Limit = x
  BY <1>1, DivFacts
<1>8. PICK z \in Nat : z = source[1].size /\ z < Limit
  BY <1>1, <1>2, <1>3
<1>9. CASE Len(source) = 1
  <2>1. at[1] = offset /\ at[0] = (offset + 0) % Limit
    BY <1>3, <1>6, <1>9
  <2>2. offset + size <= z
    BY <1>8, <1>9 DEF InRange, SizeOf
  <2>3. at[0] = offset
    <3>1. offset + 0 = offset /\ offset < Limit
      BY <1>1, <1>8, <2>2
    <3> QED BY <1>7, <2>1, <3>1
  <2>4. Base(source) = 0 /\ Base(SubSeq(source, 1, 1)) = 0
    BY <1>3, <1>9, BaseUnfolds, PrefixBase
  <2> QED BY <1>4, <1>5, <1>8, <1>9, <2>2, <2>3, <2>4 DEF ReadInside
<1>10. CASE Len(source) = 2
  <2>1. PICK o2 \in Nat, z2 \in Nat : o2 = source[2].offset /\ z2 = source[2].size
    BY <1>2, <1>10
  <2>2. o2 + z2 <= z
    BY <1>8, <1>10, <2>1 DEF Nested
  <2>3. offset + size <= z2
    BY <1>10, <2>1 DEF InRange, SizeOf
  <2>4. at[2] = offset /\ at[1] = (offset + o2) % Limit /\ at[0] = (at[1] + 0) % Limit
    BY <1>3, <1>6, <1>10, <2>1
  <2>5. offset + o2 \in Nat /\ offset + o2 < Limit
    <3>1. Limit \in Nat /\ z < Limit
      BY <1>1, <1>8
    <3>2. offset + o2 \in Nat /\ offset + o2 <= z
      BY <2>2, <2>3
    <3> QED BY <3>1, <3>2
  <2>6. at[0] = offset + o2
    BY <1>7, <2>4, <2>5
  <2>7. Base(source) = o2 /\ Base(SubSeq(source, 1, 1)) = 0 /\ Base(SubSeq(source, 1, 2)) = o2
    BY <1>3, <1>10, <2>1, BaseUnfolds, PrefixBase
  <2>8. \A k \in 1 .. 2 : /\ at[0] >= Base(SubSeq(source, 1, k))
                         /\ at[0] + size <= Base(SubSeq(source, 1, k)) + source[k].size
    <3>1. at[0] >= 0 /\ at[0] + size <= 0 + z /\ at[0] >= o2 /\ at[0] + size <= o2 + z2
      BY <2>2, <2>3, <2>6
    <3> QED BY <1>8, <2>1, <2>7, <3>1
  <2>9. at[0] = Base(source) + offset
    BY <2>6, <2>7
  <2> QED BY <1>4, <1>5, <1>10, <2>8, <2>9 DEF ReadInside
<1>11. CASE Len(source) = 3
  <2>1. PICK o2 \in Nat, z2 \in Nat, o3 \in Nat, z3 \in Nat :
          /\ o2 = source[2].offset /\ z2 = source[2].size
          /\ o3 = source[3].offset /\ z3 = source[3].size
    BY <1>2, <1>11
  <2>2. o2 + z2 <= z /\ o3 + z3 <= z2
    BY <1>8, <1>11, <2>1 DEF Nested
  <2>3. offset + size <= z3
    BY <1>11, <2>1 DEF InRange, SizeOf
  <2>4. /\ at[3] = offset /\ at[2] = (offset + o3) % Limit
        /\ at[1] = (at[2] + o2) % Limit /\ at[0] = (at[1] + 0) % Limit
    BY <1>3, <1>6, <1>11, <2>1
  <2>5. /\ offset + o3 \in Nat /\ offset + o3 < Limit
        /\ offset + o3 + o2 \in Nat /\ offset + o3 + o2 < Limit
    <3>1. offset + o3 <= z2 /\ offset + o3 + o2 <= z
      BY <2>2, <2>3
    <3>2. z2 <= z
      BY <2>2
    <3>3. Limit \in Nat /\ z < Limit
      BY <1>1, <1>8
    <3> QED BY <3>1, <3>2, <3>3
  <2>6. at[0] = offset + o3 + o2
    <3>1. PICK near \in Nat, far \in Nat :
            near = offset + o3 /\ far = near + o2 /\ near < Limit /\ far < Limit
      BY <2>5
    <3>2. near % Limit = near /\ far % Limit = far /\ far + 0 = far
      BY <1>7, <3>1
    <3>3. at[2] = near
      BY <2>4, <3>1, <3>2
    <3>4. at[1] = far
      BY <2>4, <3>1, <3>2, <3>3
    <3>5. at[0] = (at[1] + 0) % Limit
      BY <2>4, Zenon
    <3>6. at[0] = far
      BY <3>2, <3>4, <3>5, Zenon
    <3> QED BY <3>1, <3>6
  <2>7. /\ Base(source) = o2 + o3 /\ Base(SubSeq(source, 1, 1)) = 0
        /\ Base(SubSeq(source, 1, 2)) = o2 /\ Base(SubSeq(source, 1, 3)) = o2 + o3
    <3>1. source[1].offset = 0 /\ source[2].offset = o2 /\ source[3].offset = o3
      BY <1>3, <2>1
    <3>2. Base(source) = 0 + o2 + o3
      BY <1>11, <3>1, BaseUnfolds
    <3>3. Base(SubSeq(source, 1, 1)) = 0 + 0
      BY <1>11, <3>1, PrefixBase
    <3>4. Base(SubSeq(source, 1, 2)) = 0 + 0 + o2
      <4>1. 2 \in 1 .. Len(source)
        BY <1>11
      <4>2. Base(SubSeq(source, 1, 2)) = 0 + source[1].offset + source[2].offset
        BY <4>1, PrefixBase
      <4> QED BY <3>1, <4>2
    <3>5. Base(SubSeq(source, 1, 3)) = 0 + 0 + o2 + o3
      <4>1. 3 \in 1 .. Len(source)
        BY <1>11
      <4>2. Base(SubSeq(source, 1, 3)) = 0 + source[1].offset + source[2].offset + source[3].offset
        BY <4>1, PrefixBase
      <4> QED BY <3>1, <4>2
    <3> QED BY <3>2, <3>3, <3>4, <3>5
  <2>8. \A k \in 1 .. 3 : /\ at[0] >= Base(SubSeq(source, 1, k))
                         /\ at[0] + size <= Base(SubSeq(source, 1, k)) + source[k].size
    <3>1. /\ at[0] >= 0 /\ at[0] + size <= 0 + z
          /\ at[0] >= o2 /\ at[0] + size <= o2 + z2
          /\ at[0] >= o2 + o3 /\ at[0] + size <= o2 + o3 + z3
      BY <2>2, <2>3, <2>6
    <3> QED BY <1>8, <2>1, <2>7, <3>1
  <2>9. at[0] = Base(source) + offset
    BY <2>6, <2>7
  <2> QED BY <1>4, <1>5, <1>11, <2>8, <2>9 DEF ReadInside
<1> QED BY <1>1, <1>9, <1>10, <1>11

\* A window inside the innermost one of a source makes a source again.
LEMMA SliceNests ==
  ASSUME NEW source, Nested(source), Len(source) <= 2, NEW offset \in Nat, NEW size \in Nat,
         InRange(offset, size, SizeOf(source))
  PROVE  /\ Nested(Slice(source, offset, size))
         /\ Len(Slice(source, offset, size)) = Len(source) + 1
         /\ SizeOf(Slice(source, offset, size)) = size
<1>1. PICK w : w = [offset |-> offset, size |-> size]
  OBVIOUS
<1>2. w \in Window /\ w.offset = offset /\ w.size = size
  BY <1>1 DEF Window
<1>3. PICK n \in {1, 2} : n = Len(source)
  <2>1. PICK len : len = Len(source)
    OBVIOUS
  <2>2. len \in 1 .. 3 /\ len <= 2
    BY <2>1 DEF Nested
  <2> QED BY <2>1, <2>2
<1>4. PICK inner : inner = Append(source, w)
  OBVIOUS
<1>5. source \in Seq(Window)
  BY DEF Nested
<1>6. /\ inner \in Seq(Window) /\ Len(inner) = n + 1
      /\ \A k \in 1 .. n : inner[k] = source[k]
      /\ inner[n + 1] = w
  BY <1>2, <1>3, <1>4, <1>5
<1>7. inner[1] = source[1]
  BY <1>3, <1>6
<1>8. source[n] \in Window
  BY <1>3, <1>5
<1>9. inner[n + 1].offset + inner[n + 1].size <= inner[n].size
  <2>1. source[n].size \in Nat /\ inner[n] = source[n]
    <3>1. inner[n] = source[n]
      BY <1>3, <1>6
    <3>2. source[n].size \in Nat
      BY <1>8 DEF Window
    <3> QED BY <3>1, <3>2
  <2>2. offset + size <= source[n].size
    BY <1>3, <2>1 DEF InRange, SizeOf
  <2> QED BY <1>2, <1>6, <2>1, <2>2
<1>10. \A k \in 2 .. n + 1 : inner[k].offset + inner[k].size <= inner[k - 1].size
  <2> SUFFICES ASSUME NEW k \in 2 .. n + 1
               PROVE  inner[k].offset + inner[k].size <= inner[k - 1].size
    OBVIOUS
  <2>1. CASE k = n + 1
    <3>1. k - 1 = n
      BY <1>3, <2>1
    <3> QED BY <1>9, <2>1, <3>1
  <2>2. CASE k # n + 1
    <3>1. k \in 2 .. n /\ k \in 1 .. n /\ k - 1 \in 1 .. n
      BY <1>3, <2>2
    <3> QED BY <1>3, <1>6, <3>1 DEF Nested
  <2> QED BY <2>1, <2>2
<1>11. Nested(inner)
  BY <1>3, <1>6, <1>7, <1>10 DEF Nested
<1>12. Slice(source, offset, size) = inner
  BY <1>1, <1>4 DEF Slice
<1> QED BY <1>2, <1>3, <1>6, <1>11, <1>12 DEF SizeOf

LEMMA CanReadInner ==
  ASSUME NEW source, Nested(source), NEW offset, NEW size, CanRead(source, offset, size),
         size # 0
  PROVE  InRange(offset, size, SizeOf(source))
<1>1. source \in Seq(Window) /\ Len(source) \in 1 .. 3
  BY DEF Nested
<1>2. Len(source) \in DOMAIN source /\ Len(source) \in 0 .. Len(source)
  BY <1>1
<1>3. Place(source, offset)[Len(source)] = offset
  BY <1>1, <1>2, PlaceUnfolds
<1> QED BY <1>2, <1>3 DEF CanRead, SizeOf

LEMMA PackageFacts ==
  ASSUME package \in Packages
  PROVE  /\ package.size \in Nat /\ package.contentSize \in Nat
         /\ Nested(TheFile) /\ Len(TheFile) = 1 /\ SizeOf(TheFile) = package.size
         /\ \A i \in DOMAIN package.sections : i \in Nat /\ SectionNumbers(package.sections[i])
         /\ DirectoryNumbers(Directory)
         /\ \A i \in DOMAIN ModuleNames : NsoNumbers(package.nsos[ModuleNames[i]])
<1>1. /\ package.size \in Nat /\ package.size < Limit /\ package.contentSize \in Nat
      /\ DOMAIN package.sections \subseteq Nat
      /\ \A i \in DOMAIN package.sections : SectionNumbers(package.sections[i])
      /\ DirectoryNumbers(package.exefs)
      /\ \A i \in DOMAIN ModuleNames : NsoNumbers(package.nsos[ModuleNames[i]])
  BY PackagesAssumption
<1>2. PICK w : w = [offset |-> 0, size |-> package.size]
  OBVIOUS
<1>3. w \in Window /\ w.offset = 0 /\ w.size = package.size
  BY <1>1, <1>2 DEF Window
<1>4. TheFile = <<w>>
  BY <1>2 DEF TheFile
<1>5. TheFile \in Seq(Window) /\ Len(TheFile) = 1 /\ TheFile[1] = w
  BY <1>3, <1>4
<1>6. Nested(TheFile)
  BY <1>1, <1>3, <1>5 DEF Nested
<1> QED BY <1>1, <1>3, <1>5, <1>6 DEF Directory, SizeOf

-----------------------------------------------------------------------------
(* The loader: the invariant.                                              *)

OpenedStages == {"npdm", "modules", "segments", "loaded"}
ReadyStages  == {"segments", "loaded"}
RangeNames   == Kept \cup {"staging"}
NothingKept  == [k \in RangeNames |-> [from |-> 0, size |-> 0]]

SectionsSound ==
  /\ DOMAIN sections \subseteq Nat
  /\ \A i \in DOMAIN sections :
       sections[i].present => SectionSound(sections[i]) /\ SectionFits(sections[i])
EntriesAreNumbers ==
  /\ DOMAIN exefs.entries \subseteq Nat
  /\ \A i \in DOMAIN exefs.entries :
       exefs.entries[i].offset \in Nat /\ exefs.entries[i].size \in Nat
DirectorySound ==
  loading \in OpenedStages =>
    EntriesAreNumbers /\ Nested(exefs.source) /\ Len(exefs.source) = 2
ModuleSound(m) == NsoNumbers(m.nso) /\ ImageSound(m) /\ Nested(m.source)
ModulesSound ==
  /\ DOMAIN modules \subseteq Nat
  /\ \A i \in DOMAIN modules : ModuleSound(modules[i])
SegmentNext ==
  loading \in ReadyStages => segment.module \in DOMAIN modules /\ segment.kind \in Kinds
\* Two ranges of the arena, of which one may have nothing in it.
Apart(a, b) ==
  a.size = 0 \/ b.size = 0 \/ a.from + a.size <= b.from \/ b.from + b.size <= a.from
\* Ranges that are granted, and the cursor behind those that are kept.
ArenaSound(ranges, used) ==
  /\ used \in Nat /\ used <= ArenaBytes
  /\ DOMAIN ranges = RangeNames
  /\ \A k \in RangeNames : /\ ranges[k].from \in Nat /\ ranges[k].size \in Nat
                          /\ ranges[k].from + ranges[k].size <= ArenaBytes
  /\ \A k \in Kept : ranges[k].from + ranges[k].size <= used
  /\ \A j, k \in RangeNames : j # k => Apart(ranges[j], ranges[k])
ArenaBounds == /\ arena = [used |-> arena.used, ranges |-> arena.ranges]
               /\ ArenaSound(arena.ranges, arena.used)
ArenaUse ==
  /\ loading \in {"nca", "exefs"} => arena.used = 0 /\ arena.ranges = NothingKept
  /\ loading = "npdm" => arena.used = DirectoryUse /\ arena.ranges["staging"].size = 0
  /\ loading \in {"modules", "segments", "loaded"} =>
       Named("npdm") # {} /\ arena.used = DirectoryUse + Entry("npdm").size
ReadSound == \A read \in reads : ReadInside(read)

LoaderIInv ==
  /\ package \in Packages
  /\ loading \in {"nca", "exefs", "refused"} \cup OpenedStages
  /\ SectionsSound /\ DirectorySound /\ ModulesSound /\ SegmentNext
  /\ ArenaBounds /\ ArenaUse /\ ReadSound

LEMMA LowestIsMember ==
  ASSUME NEW S \in SUBSET Nat, S # {}
  PROVE  Lowest(S) \in S
BY LeastMember DEF Lowest

LEMMA EntryIsNumbers ==
  ASSUME EntriesAreNumbers, NEW name, Named(name) # {}
  PROVE  Entry(name).offset \in Nat /\ Entry(name).size \in Nat
<1>1. Named(name) \in SUBSET Nat
  BY DEF Named, EntriesAreNumbers
<1>2. Lowest(Named(name)) \in Named(name)
  BY <1>1, LowestIsMember
<1> QED BY <1>2 DEF Entry, Named, EntriesAreNumbers

\* What a reader is to give each of its steps.
StepSound(step) == Nested(step.source) /\ step.offset \in Nat /\ step.size \in Nat

\* The reads of a reader that keeps to one source at a time are inside it.
LEMMA ReadsOfInside ==
  ASSUME NEW steps, NEW count \in Nat, DOMAIN steps = 1 .. count,
         \A n \in 1 .. count : StepSound(steps[n])
  PROVE  \A read \in ReadsOf(steps) : ReadInside(read)
<1> SUFFICES ASSUME NEW read \in ReadsOf(steps) PROVE ReadInside(read)
  OBVIOUS
<1>1. PICK n \in 1 .. count : /\ read = ReadDone(steps[n]) /\ steps[n].size > 0
                             /\ \A m \in 1 .. n : Succeeds(steps[m])
  BY DEF ReadsOf
<1>2. PICK step : step = steps[n]
  OBVIOUS
<1>3. StepSound(step) /\ step.size > 0
  BY <1>1, <1>2
<1>4. Succeeds(step)
  <2>1. n \in 1 .. n
    OBVIOUS
  <2> QED BY <1>1, <1>2, <2>1
<1>5. CanRead(step.source, step.offset, step.size)
  BY <1>4 DEF Succeeds
<1>6. /\ Nested(step.source) /\ step.offset \in Nat /\ step.size \in Nat
      /\ step.size # 0
  BY <1>3 DEF StepSound
<1>7. InRange(step.offset, step.size, SizeOf(step.source))
  BY <1>5, <1>6, CanReadInner
<1>8. /\ read.source = step.source /\ read.offset = step.offset /\ read.size = step.size
      /\ read.from = Place(step.source, step.offset)[0]
  BY <1>1, <1>2 DEF ReadDone
<1> QED BY <1>6, <1>7, <1>8, ReadIsInside

LEMMA OneReadInside ==
  ASSUME NEW step, StepSound(step)
  PROVE  \A read \in ReadsOf(<<step>>) : ReadInside(read)
<1>1. PICK steps : steps = <<step>>
  OBVIOUS
<1>2. DOMAIN steps = 1 .. 1 /\ steps[1] = step
  BY <1>1
<1>3. \A n \in 1 .. 1 : StepSound(steps[n])
  BY <1>2
<1> QED BY <1>1, <1>2, <1>3, ReadsOfInside

\* What is not assigned stays as it was.
LEMMA SectionsKept ==
  ASSUME SectionsSound, UNCHANGED <<package, sections>>
  PROVE  SectionsSound'
BY DEF SectionsSound, SectionSound, SectionFits

LEMMA DirectoryKept ==
  ASSUME DirectorySound, UNCHANGED exefs, loading' \in OpenedStages => loading \in OpenedStages
  PROVE  DirectorySound'
BY DEF DirectorySound, EntriesAreNumbers

LEMMA ModulesKept ==
  ASSUME ModulesSound, UNCHANGED modules
  PROVE  ModulesSound'
BY DEF ModulesSound

LEMMA ReadKept ==
  ASSUME ReadSound, UNCHANGED reads
  PROVE  ReadSound'
BY DEF ReadSound

LEMMA NothingRead ==
  ASSUME reads' = {}
  PROVE  ReadSound'
BY DEF ReadSound

\* A refusal changes the stage and nothing else that is promised.
LEMMA RefusalKeeps ==
  ASSUME LoaderIInv, loading' = "refused", ArenaBounds', ReadSound',
         UNCHANGED <<package, sections, exefs, modules>>
  PROVE  LoaderIInv'
<1>1. SectionsSound' /\ DirectorySound' /\ ModulesSound'
  BY SectionsKept, DirectoryKept, ModulesKept DEF LoaderIInv, OpenedStages
<1>2. SegmentNext' /\ ArenaUse'
  BY DEF SegmentNext, ArenaUse, ReadyStages
<1> QED BY <1>1, <1>2 DEF LoaderIInv

LEMMA OpenNcaKeeps ==
  ASSUME LoaderIInv, OpenNca
  PROVE  LoaderIInv'
<1>1. /\ package \in Packages /\ SectionsSound /\ DirectorySound /\ ModulesSound
      /\ ArenaBounds /\ ArenaUse /\ ReadSound /\ loading = "nca"
      /\ UNCHANGED <<package, exefs, modules, segment, arena>>
  BY DEF LoaderIInv, OpenNca
<1>2. ReadSound'
  <2>1. PICK step : step = ReadStep(package.size >= NcaHeader, TheFile, 0, NcaHeader)
    OBVIOUS
  <2>2. reads' = ReadsOf(<<step>>)
    BY <2>1 DEF OpenNca
  <2>3. step.source = TheFile /\ step.offset = 0 /\ step.size = NcaHeader
    BY <2>1 DEF ReadStep
  <2>4. StepSound(step)
    BY <1>1, <2>3, PackageFacts, LoaderAssumption DEF StepSound
  <2>5. \A read \in ReadsOf(<<step>>) : ReadInside(read)
    BY <2>4, OneReadInside
  <2> QED BY <2>2, <2>5 DEF ReadSound
<1>3. ArenaBounds'
  BY <1>1 DEF ArenaBounds
<1>4. CASE loading' = "refused" /\ UNCHANGED sections
  BY <1>1, <1>2, <1>3, <1>4, RefusalKeeps
<1>5. CASE loading' # "refused" \/ sections' # sections
  <2> DEFINE parsed == [i \in DOMAIN package.sections |-> Parsed(package.sections[i])]
  <2>1. /\ ParsesHeader /\ \A i \in DOMAIN parsed : parsed[i].present => SectionFits(parsed[i])
        /\ loading' = "exefs" /\ sections' = parsed
    BY <1>5 DEF OpenNca, RefuseLoad
  <2>2. SectionsSound'
    <3>1. DOMAIN parsed = DOMAIN package.sections /\ DOMAIN parsed \subseteq Nat
      BY <1>1, PackageFacts
    <3>2. ASSUME NEW i \in DOMAIN package.sections, parsed[i].present
          PROVE  SectionSound(parsed[i]) /\ SectionFits(parsed[i])
      <4>1. parsed[i] = Parsed(package.sections[i])
        OBVIOUS
      <4>2. ~ Absent(package.sections[i])
        BY <3>2, <4>1 DEF Parsed
      <4>3. ParsesSection(package.sections[i]) /\ SectionNumbers(package.sections[i])
        BY <1>1, <2>1, PackageFacts DEF ParsesHeader
      <4>4. SectionSound(Parsed(package.sections[i]))
        BY <4>2, <4>3, PayloadInside
      <4>5. SectionFits(parsed[i])
        BY <2>1, <3>1, <3>2
      <4> QED BY <4>1, <4>4, <4>5
    <3> HIDE DEF parsed
    <3>3. \A i \in DOMAIN parsed :
            parsed[i].present => SectionSound(parsed[i]) /\ SectionFits(parsed[i])
      BY <3>1, <3>2
    <3> QED BY <1>1, <2>1, <3>1, <3>3 DEF SectionsSound, SectionSound, SectionFits
  <2>3. DirectorySound' /\ ModulesSound' /\ SegmentNext' /\ ArenaUse'
    BY <1>1, <2>1, DirectoryKept, ModulesKept DEF OpenedStages, SegmentNext, ReadyStages, ArenaUse
  <2> QED BY <1>1, <1>2, <1>3, <2>1, <2>2, <2>3 DEF LoaderIInv
<1> QED BY <1>4, <1>5

LEMMA ExefsSectionFits ==
  ASSUME package \in Packages, SectionsSound, Partitions # {}
  PROVE  LET source == SectionSource(ExefsSection) IN
         Nested(source) /\ Len(source) = 2 /\ SizeOf(source) \in Nat
<1>1. Partitions \in SUBSET Nat
  BY DEF Partitions, SectionsSound
<1>2. ExefsSection \in Partitions
  BY <1>1, LowestIsMember DEF ExefsSection
<1>3. PICK s : s = sections[ExefsSection]
  OBVIOUS
<1>4. SectionSound(s) /\ SectionFits(s)
  BY <1>2, <1>3 DEF Partitions, SectionsSound
<1>5. s.data \in Nat /\ s.dataSize \in Nat
  BY <1>4 DEF SectionSound
<1>6. InRange(s.data, s.dataSize, SizeOf(TheFile)) /\ Nested(TheFile) /\ Len(TheFile) = 1
  BY <1>4, PackageFacts DEF SectionFits
<1>7. /\ Nested(Slice(TheFile, s.data, s.dataSize)) /\ Len(Slice(TheFile, s.data, s.dataSize)) = 2
      /\ SizeOf(Slice(TheFile, s.data, s.dataSize)) = s.dataSize
  <2>1. PICK container : container = TheFile
    OBVIOUS
  <2>5. Nested(container) /\ Len(container) = 1
    BY <1>6, <2>1
  <2>2. Nested(container) /\ Len(container) <= 2 /\ 1 + 1 = 2 /\ Len(container) = 1
    BY <2>5
  <2>3. InRange(s.data, s.dataSize, SizeOf(container))
    BY <1>6, <2>1
  <2>4. /\ Nested(Slice(container, s.data, s.dataSize))
        /\ Len(Slice(container, s.data, s.dataSize)) = Len(container) + 1
        /\ SizeOf(Slice(container, s.data, s.dataSize)) = s.dataSize
    BY <1>5, <2>2, <2>3, SliceNests
  <2> QED BY <2>1, <2>2, <2>4
<1> QED BY <1>3, <1>5, <1>7 DEF SectionSource

\* As long as nothing comes near SizeLimit, a claim is what its sums say.
LEMMA ClaimIs ==
  ASSUME NEW used \in Nat, NEW alignment \in Nat \ {0}, NEW size \in Nat,
         used + alignment + size <= SizeLimit, NEW range, range = Claim(used, alignment, size)
  PROVE  /\ range.from \in Nat /\ range.size = size /\ range.from >= used
         /\ range.from = ((used + alignment - 1) \div alignment) * alignment
         /\ RangeEnd(range) = range.from + size /\ RangeEnd(range) \in Nat
         /\ alignment = 1 => range.from = used
<1>1. SizeLimit \in Nat \ {0}
  <2>1. SizeLimit \in Nat
    BY LoaderAssumption
  <2> QED BY <2>1
<1>2. PICK n \in Nat : n = used + alignment - 1 /\ n < SizeLimit
  <2>1. used + alignment - 1 \in Nat /\ used + alignment - 1 < SizeLimit
    BY <1>1
  <2> QED BY <2>1
<1>3. n % SizeLimit = n
  BY <1>1, <1>2, DivFacts
<1>4. PICK q \in Nat : q = n \div alignment /\ n = alignment * q + (n % alignment)
                       /\ n % alignment \in Nat /\ n % alignment < alignment
  BY DivFacts
<1>5. PICK from \in Nat : from = q * alignment /\ from = alignment * q
  <2>1. q * alignment \in Nat /\ q * alignment = alignment * q
    OBVIOUS
  <2> QED BY <2>1
<1>6. from >= used /\ from <= n
  <2>1. PICK left \in Nat : left = n % alignment /\ left < alignment
    BY <1>4
  <2>2. n = from + left
    BY <1>4, <1>5, <2>1
  <2> QED BY <1>2, <1>5, <2>1, <2>2
<1>7. range.from = from /\ range.size = size
  <2>1. Aligned(used, alignment) = from
    BY <1>2, <1>3, <1>4, <1>5 DEF Aligned
  <2> QED BY <2>1 DEF Claim
<1>8. PICK end \in Nat : end = from + size /\ end < SizeLimit
  <2>1. from + size \in Nat /\ from + size < SizeLimit
    BY <1>1, <1>2, <1>5, <1>6
  <2> QED BY <2>1
<1>9. RangeEnd(range) = end
  <2>1. end % SizeLimit = end
    BY <1>1, <1>8, DivFacts
  <2> QED BY <1>7, <1>8, <2>1 DEF RangeEnd
<1>10. alignment = 1 => from = used
  BY <1>2, <1>6
<1> QED BY <1>2, <1>4, <1>5, <1>6, <1>7, <1>8, <1>9, <1>10

\* What a claim takes lies past the cursor.
LEMMA ClaimSized ==
  ASSUME NEW used \in Nat, NEW alignment \in Nat \ {0}, NEW size \in Nat,
         used + alignment + size <= SizeLimit, NEW range, range = Claim(used, alignment, size)
  PROVE  /\ range.from \in Nat /\ range.size = size /\ range.from >= used
         /\ RangeEnd(range) = range.from + size
BY ClaimIs

\* The start of a claim is the cursor, rounded up.
LEMMA ClaimAligned ==
  ASSUME NEW used \in Nat, NEW alignment \in Nat \ {0}, NEW size \in Nat,
         used + alignment + size <= SizeLimit, NEW range, range = Claim(used, alignment, size)
  PROVE  range.from = ((used + alignment - 1) \div alignment) * alignment
BY ClaimIs

\* A range past the cursor is apart from everything that is kept.
LEMMA ArenaTakes ==
  ASSUME NEW ranges, NEW used, ArenaSound(ranges, used), NEW name \in RangeNames,
         NEW range, range.from \in Nat, range.size \in Nat, range.from >= used,
         range.from + range.size <= ArenaBytes, NEW after,
         IF name = "staging" THEN after = used
         ELSE after = range.from + range.size /\ ranges["staging"].size = 0
  PROVE  ArenaSound([ranges EXCEPT ![name] = range], after)
<1> DEFINE others == RangeNames \ {name}
<1>1. PICK new : new = [ranges EXCEPT ![name] = range]
  OBVIOUS
<1>2. /\ used \in Nat /\ used <= ArenaBytes /\ DOMAIN ranges = RangeNames
      /\ \A k \in RangeNames : /\ ranges[k].from \in Nat /\ ranges[k].size \in Nat
                              /\ ranges[k].from + ranges[k].size <= ArenaBytes
      /\ \A k \in Kept : ranges[k].from + ranges[k].size <= used
      /\ \A j, k \in RangeNames : j # k => Apart(ranges[j], ranges[k])
  BY DEF ArenaSound
<1>3. /\ DOMAIN new = RangeNames /\ new[name] = range
      /\ \A k \in others : new[k] = ranges[k]
  BY <1>1, <1>2
<1>4. ArenaBytes \in Nat
  BY LoaderAssumption
<1>5. after \in Nat /\ after <= ArenaBytes /\ used <= after
  BY <1>2, <1>4
<1>6. ASSUME NEW k \in others PROVE Apart(range, ranges[k]) /\ Apart(ranges[k], range)
  <2>1. CASE k \in Kept
    <3>1. ranges[k].from + ranges[k].size <= used
      BY <1>2, <2>1
    <3>2. ranges[k].from + ranges[k].size <= range.from
      BY <1>2, <3>1
    <3> QED BY <3>2 DEF Apart
  <2>2. CASE k = "staging"
    <3>1. ranges[k].size = 0
      BY <2>2
    <3> QED BY <3>1 DEF Apart
  <2> QED BY <2>1, <2>2 DEF RangeNames
<1>7. \A k \in RangeNames : /\ new[k].from \in Nat /\ new[k].size \in Nat
                            /\ new[k].from + new[k].size <= ArenaBytes
  BY <1>2, <1>3
<1>8. ASSUME NEW k \in Kept PROVE new[k].from + new[k].size <= after
  <2>1. CASE k = name
    BY <1>3, <2>1 DEF Kept
  <2>2. CASE k # name
    <3>1. new[k] = ranges[k] /\ k \in RangeNames
      BY <1>3, <2>2 DEF RangeNames
    <3> QED BY <1>2, <1>5, <3>1
  <2> QED BY <2>1, <2>2
<1>9. ASSUME NEW j \in RangeNames, NEW k \in RangeNames, j # k PROVE Apart(new[j], new[k])
  <2>1. CASE j = name
    BY <1>3, <1>6, <1>9, <2>1
  <2>2. CASE k = name
    BY <1>3, <1>6, <1>9, <2>2
  <2>3. CASE j # name /\ k # name
    BY <1>2, <1>3, <1>9, <2>3
  <2> QED BY <2>1, <2>2, <2>3
<1> QED BY <1>1, <1>3, <1>5, <1>7, <1>8, <1>9 DEF ArenaSound

\* What the caps leave of SizeLimit.
LEMMA CapsFit ==
  \E most \in Nat, top \in Nat :
           /\ most = MaxFiles * ExefsEntry /\ top = MaxFiles * EntryBytes
           /\ most + (MaxStrings + 1) + EntryAlign + top + MaxNpdm + ArenaBytes < SizeLimit
<1>1. {MaxFiles, ExefsEntry, EntryBytes} \subseteq Nat
  BY LoaderAssumption
<1>2. PICK most \in Nat, top \in Nat : most = MaxFiles * ExefsEntry /\ top = MaxFiles * EntryBytes
  <2>1. MaxFiles * ExefsEntry \in Nat /\ MaxFiles * EntryBytes \in Nat
    BY <1>1
  <2> QED BY <2>1
<1>3. most + (MaxStrings + 1) + EntryAlign + top + MaxNpdm + ArenaBytes < SizeLimit
  BY <1>2, LoaderAssumption DEF SizesFit
<1> QED BY <1>2, <1>3

\* exefs_open's three ranges, and where they leave the cursor.
LEMMA DirectoryTaken ==
  ASSUME arena.used = 0, arena.ranges = NothingKept, DirectoryNumbers(Directory),
         Directory.count <= MaxFiles, Directory.strings <= MaxStrings,
         \A k \in DOMAIN DirectoryRanges : Granted(DirectoryRanges[k]),
         NEW ranges, ranges = [k \in DOMAIN arena.ranges |->
                                 IF k \in DOMAIN DirectoryRanges THEN DirectoryRanges[k]
                                 ELSE arena.ranges[k]]
  PROVE  /\ ArenaSound(ranges, RangeEnd(DirectoryRanges.entries))
         /\ RangeEnd(DirectoryRanges.entries) = DirectoryUse
         /\ ranges["staging"].size = 0
<1>1. /\ {MaxFiles, ExefsEntry, EntryBytes, EntryAlign, MaxNpdm} \subseteq Nat \ {0}
      /\ {MaxStrings, ArenaBytes, SizeLimit} \subseteq Nat
  BY LoaderAssumption
<1>2. PICK count \in Nat, strings \in Nat :
        /\ count = Directory.count /\ count <= MaxFiles
        /\ strings = Directory.strings /\ strings <= MaxStrings
  BY DEF DirectoryNumbers
<1>3. PICK most \in Nat, top \in Nat :
        /\ most = MaxFiles * ExefsEntry /\ top = MaxFiles * EntryBytes
        /\ most + (MaxStrings + 1) + EntryAlign + top + MaxNpdm + ArenaBytes < SizeLimit
  BY CapsFit
<1>4. PICK rows \in Nat : rows = AtLeastOne(count * ExefsEntry) /\ rows <= most
  <2>1. count * ExefsEntry <= MaxFiles * ExefsEntry /\ count * ExefsEntry \in Nat
    BY <1>1, <1>2, ProductGrows
  <2>2. 1 * ExefsEntry <= MaxFiles * ExefsEntry
    BY <1>1, ProductGrows
  <2>3. 1 <= most
    BY <1>1, <1>3, <2>2
  <2> QED BY <1>3, <2>1, <2>3 DEF AtLeastOne
<1>5. PICK space \in Nat : space = AtLeastOne(count) * EntryBytes /\ space <= top
  <2>1. PICK n \in Nat : n = AtLeastOne(count) /\ n <= MaxFiles
    BY <1>1, <1>2 DEF AtLeastOne
  <2>2. n * EntryBytes <= MaxFiles * EntryBytes /\ n * EntryBytes \in Nat
    BY <1>1, <2>1, ProductGrows
  <2> QED BY <1>3, <2>1, <2>2
<1>6. PICK t : t = Claim(0, 1, rows)
  OBVIOUS
<1>7. t.from = 0 /\ t.size = rows /\ RangeEnd(t) = rows
  <2>1. 0 + 1 + rows <= SizeLimit
    BY <1>1, <1>3, <1>4
  <2> QED BY <1>6, <2>1, ClaimIs
<1>8. PICK s : s = Claim(rows, 1, strings + 1)
  OBVIOUS
<1>9. PICK named \in Nat : named = rows + strings + 1
  OBVIOUS
<1>10. s.from = rows /\ s.size = strings + 1 /\ RangeEnd(s) = named
  <2>1. PICK n \in Nat : n = strings + 1
    OBVIOUS
  <2>2. rows + 1 + n <= SizeLimit
    BY <1>1, <1>2, <1>3, <1>4, <2>1
  <2>3. s.from = rows /\ s.size = n /\ RangeEnd(s) = rows + n
    BY <1>8, <2>1, <2>2, ClaimIs
  <2> QED BY <1>9, <2>1, <2>3
<1>11. PICK e : e = Claim(named, EntryAlign, space)
  OBVIOUS
<1>12. /\ e.from \in Nat /\ e.size = space /\ e.from >= named
       /\ e.from = ((named + EntryAlign - 1) \div EntryAlign) * EntryAlign
       /\ RangeEnd(e) = e.from + space
  <2>1. named + EntryAlign + space <= SizeLimit
    BY <1>1, <1>2, <1>3, <1>4, <1>5, <1>9
  <2>2. PICK step \in Nat \ {0} : step = EntryAlign
    BY <1>1
  <2>3. named \in Nat /\ space \in Nat /\ named + step + space <= SizeLimit
        /\ e = Claim(named, step, space)
    BY <1>5, <1>9, <1>11, <2>1, <2>2
  <2>4. e.from \in Nat /\ e.size = space /\ e.from >= named /\ RangeEnd(e) = e.from + space
    BY <2>2, <2>3, ClaimSized
  <2>5. e.from = ((named + step - 1) \div step) * step
    BY <2>2, <2>3, ClaimAligned
  <2> QED BY <2>2, <2>4, <2>5
<1>13. DirectoryRanges = [table |-> t, strings |-> s, entries |-> e]
  <2>1. t = Claim(arena.used, 1, AtLeastOne(Directory.count * ExefsEntry))
    BY <1>2, <1>4, <1>6
  <2>2. s = Claim(RangeEnd(t), 1, Directory.strings + 1)
    BY <1>2, <1>7, <1>8
  <2>3. e = Claim(RangeEnd(s), EntryAlign, AtLeastOne(Directory.count) * EntryBytes)
    BY <1>2, <1>5, <1>10, <1>11
  <2> QED BY <2>1, <2>2, <2>3 DEF DirectoryRanges
<1>14. /\ DOMAIN DirectoryRanges = {"table", "strings", "entries"}
       /\ DirectoryRanges["table"] = t /\ DirectoryRanges["strings"] = s
       /\ DirectoryRanges["entries"] = e /\ DirectoryRanges.entries = e
  BY <1>13
<1>15. rows <= ArenaBytes /\ named <= ArenaBytes /\ e.from + space <= ArenaBytes
  BY <1>7, <1>10, <1>12, <1>14 DEF Granted
<1>16. PICK none : none = NothingKept
  OBVIOUS
<1>17. ArenaSound(none, 0) /\ DOMAIN none = RangeNames /\ none["staging"].size = 0
  <2>1. /\ DOMAIN none = RangeNames
        /\ \A k \in RangeNames : none[k].from = 0 /\ none[k].size = 0
    BY <1>16 DEF NothingKept
  <2> QED BY <1>1, <2>1 DEF ArenaSound, Apart, RangeNames, Kept
<1>18. PICK one : one = [none EXCEPT !["table"] = t]
  OBVIOUS
<1>19. ArenaSound(one, rows) /\ one["staging"].size = 0
  <2>1. "table" \in RangeNames /\ "table" # "staging"
    BY DEF RangeNames, Kept
  <2>2. t.from \in Nat /\ t.size \in Nat /\ t.from >= 0 /\ t.from + t.size <= ArenaBytes
        /\ rows = t.from + t.size
    BY <1>7, <1>15
  <2>3. ArenaSound([none EXCEPT !["table"] = t], rows)
    BY <1>17, <2>1, <2>2, ArenaTakes
  <2> QED BY <1>17, <1>18, <2>3
<1>20. PICK two : two = [one EXCEPT !["strings"] = s]
  OBVIOUS
<1>21. ArenaSound(two, named) /\ two["staging"].size = 0
  <2>1. "strings" \in RangeNames /\ "strings" # "staging"
    BY DEF RangeNames, Kept
  <2>2. s.from \in Nat /\ s.size \in Nat /\ s.from >= rows /\ s.from + s.size <= ArenaBytes
        /\ named = s.from + s.size
    BY <1>9, <1>10, <1>15
  <2>3. ArenaSound([one EXCEPT !["strings"] = s], named)
    BY <1>19, <2>1, <2>2, ArenaTakes
  <2> QED BY <1>19, <1>20, <2>3
<1>22. PICK three : three = [two EXCEPT !["entries"] = e]
  OBVIOUS
<1>23. ArenaSound(three, e.from + space) /\ three["staging"].size = 0
  <2>1. "entries" \in RangeNames /\ "entries" # "staging"
    BY DEF RangeNames, Kept
  <2>2. e.from \in Nat /\ e.size \in Nat /\ e.from >= named /\ e.from + e.size <= ArenaBytes
        /\ e.from + space = e.from + e.size
    BY <1>12, <1>15
  <2>3. PICK after : after = e.from + space
    OBVIOUS
  <2>4. ArenaSound([two EXCEPT !["entries"] = e], after)
    BY <1>21, <2>1, <2>2, <2>3, ArenaTakes
  <2> QED BY <1>21, <1>22, <2>3, <2>4
<1>24. ranges = three
  <2>1. /\ DOMAIN three = RangeNames /\ three["table"] = t /\ three["strings"] = s
        /\ three["entries"] = e
        /\ \A k \in RangeNames \ {"table", "strings", "entries"} : three[k] = none[k]
    BY <1>17, <1>18, <1>20, <1>22 DEF RangeNames, Kept
  <2>2. ranges = [k \in RangeNames |-> IF k \in {"table", "strings", "entries"}
                                      THEN DirectoryRanges[k] ELSE none[k]]
    BY <1>14, <1>16, <1>17
  <2>3. three = [k \in RangeNames |-> three[k]]
    BY <1>17, <1>18, <1>20, <1>22
  <2> QED BY <1>14, <2>1, <2>2, <2>3
<1>25. RangeEnd(DirectoryRanges.entries) = e.from + space
  BY <1>12, <1>14
<1>26. DirectoryUse = e.from + space
  <2>1. named = AtLeastOne(Directory.count * ExefsEntry) + Directory.strings + 1
    BY <1>2, <1>4, <1>9
  <2>2. space = AtLeastOne(Directory.count) * EntryBytes
    BY <1>2, <1>5
  <2> QED BY <1>12, <2>1, <2>2 DEF DirectoryUse
<1> QED BY <1>23, <1>24, <1>25, <1>26

LEMMA DirectoryPlaces ==
  ASSUME package \in Packages
  PROVE  StringsAt \in Nat /\ DataAt \in Nat
<1>1. PICK count \in Nat, strings \in Nat : count = Directory.count /\ strings = Directory.strings
  BY PackageFacts DEF DirectoryNumbers
<1>2. ExefsEntry \in Nat /\ ExefsHeader \in Nat
  BY LoaderAssumption
<1>3. PICK rows \in Nat : rows = count * ExefsEntry
  BY <1>2
<1> QED BY <1>1, <1>2, <1>3 DEF StringsAt, DataAt

\* The four reads of the directory are asked of a sound source.
LEMMA DirectoryStepsSound ==
  ASSUME package \in Packages, NEW source, Nested(source), SizeOf(source) \in Nat,
         NEW steps, steps = DirectorySteps(source)
  PROVE  /\ DOMAIN steps = 1 .. 4 /\ \A n \in 1 .. 4 : StepSound(steps[n])
         /\ AllSucceed(steps) => steps[3].checks
<1>1. PICK count \in Nat, strings \in Nat : count = Directory.count /\ strings = Directory.strings
  BY PackageFacts DEF DirectoryNumbers
<1>2. /\ ExefsEntry \in Nat /\ ExefsHeader \in Nat /\ ProbeBytes \in Nat
  BY LoaderAssumption
<1>3. PICK rows \in Nat : rows = Directory.count * ExefsEntry
  <2>1. count * ExefsEntry \in Nat
    BY <1>2
  <2> QED BY <1>1, <2>1
<1>4. PICK names \in Nat : names = StringsAt
  <2>1. ExefsHeader + rows \in Nat
    BY <1>2
  <2> QED BY <1>3, <2>1 DEF StringsAt
<1>5. PICK probe \in Nat : probe = ProbeSize(source)
  BY <1>2 DEF ProbeSize, Smaller
<1>6. PICK first, second, third, fourth : steps = <<first, second, third, fourth>>
  BY DEF DirectorySteps
<1>7. DOMAIN steps = 1 .. 4
  BY <1>6
<1>8. /\ steps[1] = ReadStep(TRUE, source, 0, ProbeSize(source))
      /\ \E checks : steps[2] = ReadStep(checks, source, 0, ExefsHeader)
      /\ \E checks : steps[3] = ReadStep(checks, source, ExefsHeader,
                                         Directory.count * ExefsEntry)
      /\ steps[4] = ReadStep(TRUE, source, StringsAt, Directory.strings)
  BY DEF DirectorySteps
<1>9. \A n \in 1 .. 4 : StepSound(steps[n])
  <2>1. ASSUME NEW checks, NEW offset \in Nat, NEW size \in Nat, NEW step,
               step = ReadStep(checks, source, offset, size)
        PROVE  StepSound(step)
    BY <2>1 DEF ReadStep, StepSound
  <2>2. StepSound(steps[1])
    BY <1>5, <1>8, <2>1
  <2>3. StepSound(steps[2])
    BY <1>2, <1>8, <2>1
  <2>4. StepSound(steps[3])
    BY <1>2, <1>3, <1>8, <2>1
  <2>5. StepSound(steps[4])
    BY <1>1, <1>4, <1>8, <2>1
  <2> QED BY <2>2, <2>3, <2>4, <2>5
<1>10. AllSucceed(steps) => steps[3].checks
  <2>1. 3 \in DOMAIN steps
    BY <1>7
  <2> QED BY <2>1, Zenon DEF AllSucceed, Succeeds
<1> QED BY <1>7, <1>9, <1>10

LEMMA OpenExefsKeeps ==
  ASSUME LoaderIInv, OpenExefs
  PROVE  LoaderIInv'
<1> DEFINE source == SectionSource(ExefsSection)
           begins == package.content = 0 /\ Partitions # {} /\ sections[ExefsSection].readable
<1>1. /\ package \in Packages /\ SectionsSound /\ DirectorySound /\ ModulesSound
      /\ ArenaBounds /\ ArenaUse /\ ReadSound /\ loading = "exefs"
      /\ UNCHANGED <<package, sections, modules, segment>>
  BY DEF LoaderIInv, OpenExefs
<1>2. PICK steps : steps = DirectorySteps(source)
  OBVIOUS
<1>3. reads' = IF begins THEN ReadsOf(steps) ELSE {}
  BY <1>2 DEF OpenExefs
<1>4. ASSUME begins
      PROVE  /\ Nested(source) /\ Len(source) = 2 /\ SizeOf(source) \in Nat
             /\ DOMAIN steps = 1 .. 4 /\ \A n \in 1 .. 4 : StepSound(steps[n])
             /\ AllSucceed(steps) => steps[3].checks
  <2>1. Nested(source) /\ Len(source) = 2 /\ SizeOf(source) \in Nat
    BY <1>1, <1>4, ExefsSectionFits
  <2> QED BY <1>1, <1>2, <2>1, DirectoryStepsSound
<1>5. ReadSound'
  <2>1. CASE begins
    <3>1. \A read \in ReadsOf(steps) : ReadInside(read)
      BY <1>4, <2>1, ReadsOfInside
    <3>2. reads' = ReadsOf(steps)
      BY <1>3, <2>1
    <3> QED BY <3>1, <3>2 DEF ReadSound
  <2>2. CASE ~ begins
    BY <1>3, <2>2, NothingRead
  <2> QED BY <2>1, <2>2
<1>6. CASE loading' = "refused" /\ UNCHANGED <<exefs, arena>>
  <2>1. ArenaBounds'
    BY <1>1, <1>6 DEF ArenaBounds
  <2> QED BY <1>1, <1>5, <1>6, <2>1, RefusalKeeps
<1>7. CASE loading' = "npdm"
  <2>1. /\ begins /\ AllSucceed(steps)
        /\ exefs' = [source |-> source,
                     entries |-> [i \in 1 .. Directory.count |->
                       [name |-> Directory.files[i].name,
                        offset |-> DataAt + Directory.files[i].offset,
                        size |-> Directory.files[i].size]]]
        /\ arena' = [used |-> RangeEnd(DirectoryRanges.entries),
                     ranges |-> [k \in DOMAIN arena.ranges |->
                       IF k \in DOMAIN DirectoryRanges THEN DirectoryRanges[k]
                       ELSE arena.ranges[k]]]
    BY <1>2, <1>7 DEF OpenExefs, RefuseLoad
  <2>2. /\ Nested(source) /\ Len(source) = 2 /\ SizeOf(source) \in Nat /\ steps[3].checks
    BY <1>4, <2>1
  <2>3. /\ Directory.count <= MaxFiles /\ Directory.strings <= MaxStrings
        /\ \A k \in DOMAIN DirectoryRanges : Granted(DirectoryRanges[k])
    <3>1. steps[3].checks = (/\ Directory.count <= MaxFiles /\ Directory.strings <= MaxStrings
             /\ DataAt <= SizeOf(source)
             /\ \A k \in DOMAIN DirectoryRanges : Granted(DirectoryRanges[k]))
      BY <1>2 DEF DirectorySteps, ReadStep
    <3> QED BY <2>2, <3>1, Zenon
  <2> HIDE DEF source, begins
  <2>4. PICK ranges : ranges = [k \in DOMAIN arena.ranges |->
                       IF k \in DOMAIN DirectoryRanges THEN DirectoryRanges[k]
                       ELSE arena.ranges[k]]
    OBVIOUS
  <2>5. PICK used : used = RangeEnd(DirectoryRanges.entries)
    OBVIOUS
  <2>6. ArenaSound(ranges, used) /\ used = DirectoryUse /\ ranges["staging"].size = 0
    <3>1. arena.used = 0 /\ arena.ranges = NothingKept /\ DirectoryNumbers(Directory)
      BY <1>1, PackageFacts DEF ArenaUse
    <3> QED BY <2>3, <2>4, <2>5, <3>1, DirectoryTaken
  <2>7. arena' = [used |-> used, ranges |-> ranges]
    BY <2>1, <2>4, <2>5
  <2>8. arena'.used = used /\ arena'.ranges = ranges
    BY <2>7
  <2>9. ArenaBounds'
    <3>1. ArenaSound(arena'.ranges, arena'.used)
      BY <2>6, <2>8
    <3>2. arena' = [used |-> arena'.used, ranges |-> arena'.ranges]
      BY <2>7
    <3> QED BY <3>1, <3>2 DEF ArenaBounds, ArenaSound
  <2>10. ArenaUse'
    <3>1. DirectoryUse' = used
      BY <1>1, <2>6 DEF DirectoryUse, Directory
    <3> QED BY <1>7, <2>6, <2>8, <3>1 DEF ArenaUse
  <2>11. DirectorySound'
    <3>1. PICK files : files = Directory.files
      OBVIOUS
    <3>2. PICK count \in Nat : count = Directory.count
      BY <1>1, PackageFacts DEF DirectoryNumbers
    <3>3. \A i \in 1 .. count : files[i].offset \in Nat /\ files[i].size \in Nat
      BY <1>1, <3>1, <3>2, PackageFacts DEF DirectoryNumbers
    <3>4. PICK at \in Nat : at = DataAt
      BY <1>1, DirectoryPlaces
    <3>5. /\ exefs'.source = source
          /\ exefs'.entries = [i \in 1 .. count |->
               [name |-> files[i].name, offset |-> at + files[i].offset, size |-> files[i].size]]
      BY <2>1, <3>1, <3>2, <3>4
    <3>6. /\ DOMAIN exefs'.entries \subseteq Nat
          /\ \A i \in DOMAIN exefs'.entries :
               exefs'.entries[i].offset \in Nat /\ exefs'.entries[i].size \in Nat
      BY <3>3, <3>5
    <3> QED BY <2>2, <3>5, <3>6 DEF DirectorySound, EntriesAreNumbers
  <2>12. SectionsSound' /\ ModulesSound' /\ SegmentNext'
    BY <1>1, <1>7, SectionsKept, ModulesKept DEF SegmentNext, ReadyStages
  <2> QED BY <1>1, <1>5, <1>7, <2>9, <2>10, <2>11, <2>12 DEF LoaderIInv, OpenedStages
<1>8. loading' = "npdm" \/ (loading' = "refused" /\ UNCHANGED <<exefs, arena>>)
  BY DEF OpenExefs, RefuseLoad
<1> QED BY <1>6, <1>7, <1>8

LEMMA ReadNpdmKeeps ==
  ASSUME LoaderIInv, ReadNpdm
  PROVE  LoaderIInv'
<1>1. /\ package \in Packages /\ SectionsSound /\ DirectorySound /\ ModulesSound
      /\ ArenaBounds /\ ArenaUse /\ ReadSound /\ loading = "npdm"
      /\ UNCHANGED <<package, sections, exefs, modules, segment>>
  BY DEF LoaderIInv, ReadNpdm
<1>2. EntriesAreNumbers /\ Nested(exefs.source)
  BY <1>1 DEF DirectorySound, OpenedStages
<1>3. PICK entry : entry = Entry("npdm")
  OBVIOUS
<1>4. PICK range : range = Claim(arena.used, 1, entry.size)
  OBVIOUS
<1>5. PICK step : step = ReadStep(entry.size <= MaxNpdm /\ Granted(range),
                                  exefs.source, entry.offset, entry.size)
  OBVIOUS
<1>6. reads' = IF Named("npdm") # {} THEN ReadsOf(<<step>>) ELSE {}
  BY <1>3, <1>4, <1>5 DEF ReadNpdm
<1>7. Named("npdm") # {} => entry.offset \in Nat /\ entry.size \in Nat
  BY <1>2, <1>3, EntryIsNumbers
<1>8. ReadSound'
  <2>1. CASE Named("npdm") # {}
    <3>1. StepSound(step)
      BY <1>2, <1>5, <1>7, <2>1 DEF StepSound, ReadStep
    <3>2. \A read \in ReadsOf(<<step>>) : ReadInside(read)
      BY <3>1, OneReadInside
    <3> QED BY <1>6, <2>1, <3>2 DEF ReadSound
  <2>2. CASE Named("npdm") = {}
    BY <1>6, <2>2, NothingRead
  <2> QED BY <2>1, <2>2
<1>9. CASE loading' = "refused" /\ UNCHANGED arena
  <2>1. ArenaBounds'
    BY <1>1, <1>9 DEF ArenaBounds
  <2> QED BY <1>1, <1>8, <1>9, <2>1, RefusalKeeps
<1>10. CASE loading' = "modules"
  <2>1. /\ Named("npdm") # {} /\ AllSucceed(<<step>>)
        /\ arena' = [arena EXCEPT !.used = RangeEnd(range), !.ranges["npdm"] = range]
    BY <1>3, <1>4, <1>5, <1>10 DEF ReadNpdm, RefuseLoad
  <2>2. entry.size <= MaxNpdm /\ Granted(range)
    <3>1. Succeeds(step)
      BY <2>1 DEF AllSucceed
    <3>2. step.checks = (entry.size <= MaxNpdm /\ Granted(range))
      BY <1>5 DEF ReadStep
    <3> QED BY <3>1, <3>2, Zenon DEF Succeeds
  <2>3. PICK size \in Nat : size = entry.size /\ size <= MaxNpdm
    BY <1>7, <2>1, <2>2
  <2>4. PICK used, ranges : /\ used \in Nat /\ used = arena.used /\ ranges = arena.ranges
                                   /\ used = DirectoryUse /\ ArenaSound(ranges, used)
                                   /\ used <= ArenaBytes /\ ranges["staging"].size = 0
    BY <1>1 DEF ArenaBounds, ArenaUse, ArenaSound
  <2>5. used + 1 + size <= SizeLimit
    <3>1. PICK most \in Nat, top \in Nat :
            most + (MaxStrings + 1) + EntryAlign + top + MaxNpdm + ArenaBytes < SizeLimit
      BY CapsFit
    <3>2. {MaxStrings, EntryAlign, MaxNpdm, ArenaBytes, SizeLimit} \subseteq Nat
      BY LoaderAssumption
    <3> QED BY <2>3, <2>4, <3>1, <3>2
  <2>6. /\ range.from = used /\ range.size = size
        /\ RangeEnd(range) = used + size /\ used + size <= ArenaBytes
    <3>1. range = Claim(used, 1, size)
      BY <1>4, <2>3, <2>4
    <3>2. /\ range.size = size /\ range.from = used /\ RangeEnd(range) = range.from + size
      <4>1. PICK one \in Nat \ {0} : one = 1
        OBVIOUS
      <4>2. used \in Nat /\ size \in Nat /\ used + one + size <= SizeLimit
            /\ range = Claim(used, one, size)
        BY <2>3, <2>4, <2>5, <3>1, <4>1
      <4>3. /\ range.size = size /\ RangeEnd(range) = range.from + size
            /\ one = 1 => range.from = used
        BY <4>1, <4>2, ClaimIs
      <4> QED BY <4>1, <4>3
    <3> QED BY <2>2, <2>3, <2>4, <3>2 DEF Granted
  <2>7. PICK after : after = used + size
    OBVIOUS
  <2>8. ArenaSound([ranges EXCEPT !["npdm"] = range], after)
    <3>1. "npdm" \in RangeNames /\ "npdm" # "staging"
      BY DEF RangeNames, Kept
    <3>2. /\ range.from \in Nat /\ range.size \in Nat /\ range.from >= used
          /\ range.from + range.size <= ArenaBytes /\ after = range.from + range.size
      BY <2>3, <2>4, <2>6, <2>7
    <3> QED BY <2>4, <3>1, <3>2, ArenaTakes
  <2>9. arena'.used = after /\ arena'.ranges = [ranges EXCEPT !["npdm"] = range]
    <3>1. arena = [used |-> used, ranges |-> ranges]
      BY <1>1, <2>4 DEF ArenaBounds
    <3>2. RangeEnd(range) = after
      BY <2>6, <2>7
    <3>3. arena' = [arena EXCEPT !.used = after, !.ranges["npdm"] = range]
      BY <2>1, <3>2
    <3> QED BY <3>1, <3>3
  <2>10. ArenaBounds'
    <3>1. ArenaSound(arena'.ranges, arena'.used)
      BY <2>8, <2>9
    <3>2. arena' = [used |-> arena'.used, ranges |-> arena'.ranges]
      <4>1. arena = [used |-> arena.used, ranges |-> arena.ranges]
        BY <1>1 DEF ArenaBounds
      <4>2. PICK end : arena' = [arena EXCEPT !.used = end, !.ranges["npdm"] = range]
        BY <2>1
      <4> QED BY <4>1, <4>2
    <3> QED BY <3>1, <3>2 DEF ArenaBounds, ArenaSound
  <2>11. ArenaUse'
    <3>1. Named("npdm")' # {} /\ Entry("npdm")'.size = size /\ DirectoryUse' = used
      BY <1>1, <1>3, <2>1, <2>3, <2>4 DEF Named, Entry, Lowest, DirectoryUse, Directory
    <3> QED BY <1>10, <2>7, <2>9, <3>1 DEF ArenaUse
  <2>12. SectionsSound' /\ DirectorySound' /\ ModulesSound' /\ SegmentNext'
    BY <1>1, <1>10, SectionsKept, DirectoryKept, ModulesKept
    DEF SegmentNext, ReadyStages, OpenedStages
  <2> QED BY <1>1, <1>8, <1>10, <2>10, <2>11, <2>12 DEF LoaderIInv, OpenedStages
<1>11. loading' = "modules" \/ (loading' = "refused" /\ UNCHANGED arena)
  BY DEF ReadNpdm, RefuseLoad
<1> QED BY <1>9, <1>10, <1>11

\* The two reads of an NSO's opener are asked of a sound source.
LEMMA NsoStepsSound ==
  ASSUME NEW source, Nested(source), NEW nso, NsoNumbers(nso), NEW steps,
         steps = NsoSteps(source, nso)
  PROVE  /\ \A read \in ReadsOf(steps) : ReadInside(read)
         /\ AllSucceed(steps) => OpensNso(nso, SizeOf(source))
<1>1. NsoHeader \in Nat /\ MaxName \in Nat
  BY LoaderAssumption
<1>2. PICK offset \in Nat, size \in Nat :
        offset = nso.name.offset /\ size = Smaller(nso.name.size, MaxName)
  BY <1>1 DEF NsoNumbers, Smaller
<1>3. /\ DOMAIN steps = 1 .. 2
      /\ steps[1] = ReadStep(SizeOf(source) >= NsoHeader, source, 0, NsoHeader)
      /\ steps[2] = ReadStep(OpensNso(nso, SizeOf(source)), source, offset, size)
  BY <1>2 DEF NsoSteps
<1>4. StepSound(steps[1]) /\ StepSound(steps[2])
  BY <1>1, <1>3 DEF StepSound, ReadStep
<1>5. \A n \in 1 .. 2 : StepSound(steps[n])
  BY <1>4
<1>6. \A read \in ReadsOf(steps) : ReadInside(read)
  BY <1>3, <1>5, ReadsOfInside
<1>7. AllSucceed(steps) => OpensNso(nso, SizeOf(source))
  <2>1. 2 \in DOMAIN steps
    BY <1>3
  <2>2. steps[2].checks = OpensNso(nso, SizeOf(source))
    BY <1>3 DEF ReadStep
  <2> QED BY <2>1, <2>2, Zenon DEF AllSucceed, Succeeds
<1> QED BY <1>6, <1>7

LEMMA OpenModulesKeeps ==
  ASSUME LoaderIInv, OpenModules
  PROVE  LoaderIInv'
<1> DEFINE present   == {i \in DOMAIN ModuleNames : Named(ModuleNames[i]) # {}}
           entry(i)  == Entry(ModuleNames[i])
           source(i) == Slice(exefs.source, entry(i).offset, entry(i).size)
           nso(i)    == package.nsos[ModuleNames[i]]
           slices(i) == InRange(entry(i).offset, entry(i).size, SizeOf(exefs.source))
           opens(i)  == slices(i) /\ AllSucceed(NsoSteps(source(i), nso(i)))
           reached   == {i \in present : slices(i) /\ \A j \in present : j < i => opens(j)}
<1>1. /\ package \in Packages /\ SectionsSound /\ DirectorySound /\ ModulesSound
      /\ ArenaBounds /\ ArenaUse /\ ReadSound /\ loading = "modules"
      /\ UNCHANGED <<package, sections, exefs, arena>>
  BY DEF LoaderIInv, OpenModules
<1>2. ArenaBounds'
  BY <1>1 DEF ArenaBounds
<1>3. EntriesAreNumbers /\ Nested(exefs.source) /\ Len(exefs.source) = 2
  BY <1>1 DEF DirectorySound, OpenedStages
<1>4. ASSUME NEW i \in present, slices(i)
      PROVE  /\ Nested(source(i)) /\ NsoNumbers(nso(i))
             /\ \A read \in ReadsOf(NsoSteps(source(i), nso(i))) : ReadInside(read)
             /\ opens(i) => OpensNso(nso(i), SizeOf(source(i)))
  <2>1. Named(ModuleNames[i]) # {}
    OBVIOUS
  <2>2. PICK offset \in Nat, size \in Nat : offset = entry(i).offset /\ size = entry(i).size
    BY <1>3, <2>1, EntryIsNumbers
  <2>3. InRange(offset, size, SizeOf(exefs.source))
    BY <1>4, <2>2
  <2>4. Nested(Slice(exefs.source, offset, size))
    <3>1. Len(exefs.source) <= 2
      BY <1>3
    <3> QED BY <1>3, <2>3, <3>1, SliceNests
  <2>5. Nested(source(i)) /\ NsoNumbers(nso(i))
    BY <1>1, <2>2, <2>4, PackageFacts
  <2> QED BY <2>5, NsoStepsSound
<1>5. ReadSound'
  <2>1. reads' = UNION {ReadsOf(NsoSteps(source(i), nso(i))) : i \in reached}
    BY DEF OpenModules
  <2>2. ASSUME NEW read \in reads' PROVE ReadInside(read)
    <3>1. PICK i \in reached : read \in ReadsOf(NsoSteps(source(i), nso(i)))
      BY <2>1
    <3>2. i \in present /\ slices(i)
      BY <3>1
    <3> QED BY <1>4, <3>1, <3>2
  <2> QED BY <2>2 DEF ReadSound
<1>6. CASE loading' = "refused" /\ UNCHANGED <<modules, segment>>
  BY <1>1, <1>2, <1>5, <1>6, RefusalKeeps
<1>7. CASE loading' = "segments"
  <2>1. /\ 2 \in present /\ \A i \in present : opens(i)
        /\ modules' = [i \in present |->
             [source |-> source(i), nso |-> nso(i), image |-> ImageSize(nso(i))]]
        /\ segment' = [module |-> Lowest(present), kind |-> 1]
    BY <1>7 DEF OpenModules, RefuseLoad
  <2>2. PICK n \in Nat : DOMAIN ModuleNames = 1 .. n
    <3>1. ModuleNames \in Seq(STRING)
      BY LoaderAssumption
    <3> QED BY <3>1
  <2>3. present \in SUBSET Nat /\ present # {}
    <3>1. present # {}
      BY <2>1
    <3>2. present \subseteq 1 .. n
      BY <2>2, Zenon
    <3> QED BY <3>1, <3>2
  <2>4. ASSUME NEW i \in present PROVE ModuleSound(modules'[i])
    <3>1. PICK m : m = modules'[i]
      OBVIOUS
    <3>2. m.source = source(i) /\ m.nso = nso(i) /\ m.image = ImageSize(nso(i))
      BY <2>1, <3>1
    <3>3. opens(i) /\ slices(i)
      BY <2>1
    <3>4. /\ Nested(source(i)) /\ NsoNumbers(nso(i))
          /\ OpensNso(nso(i), SizeOf(source(i)))
      <4> HIDE DEF opens, slices, source, nso
      <4> QED BY <1>4, <3>3
    <3>5. NsoNumbers(m.nso) /\ OpensNso(m.nso, SizeOf(source(i))) /\ Nested(m.source)
      BY <3>2, <3>4
    <3>6. ImageSound(m)
      <4>1. PICK size : size = SizeOf(source(i))
        OBVIOUS
      <4>2. OpensNso(m.nso, size) /\ m.image = ImageSize(m.nso)
        BY <3>2, <3>5, <4>1
      <4> QED BY <3>5, <4>2, ImageIsSound
    <3> QED BY <3>1, <3>5, <3>6 DEF ModuleSound
  <2>5. DOMAIN modules' = present
    BY <2>1
  <2>6. segment'.module \in present /\ segment'.kind \in Kinds
    <3>1. PICK place \in present : place = Lowest(present)
      <4> HIDE DEF present
      <4> QED BY <2>3, LowestIsMember
    <3>2. segment' = [module |-> place, kind |-> 1]
      BY <2>1, <3>1
    <3>3. segment'.module = place /\ segment'.kind = 1
      BY <3>2
    <3> HIDE DEF present
    <3> QED BY <3>1, <3>3 DEF Kinds
  <2>7. SegmentNext' /\ ModulesSound'
    <3> HIDE DEF present
    <3> QED BY <2>3, <2>4, <2>5, <2>6 DEF SegmentNext, ModulesSound
  <2>8. SectionsSound' /\ DirectorySound'
    BY <1>1, <1>7, SectionsKept, DirectoryKept DEF OpenedStages
  <2>9. ArenaUse'
    BY <1>1, <1>7 DEF ArenaUse, Named, Entry, Lowest, DirectoryUse, Directory
  <2> QED BY <1>1, <1>2, <1>5, <1>7, <2>7, <2>8, <2>9 DEF LoaderIInv, OpenedStages
<1>8. loading' = "segments" \/ (loading' = "refused" /\ UNCHANGED <<modules, segment>>)
  BY DEF OpenModules, RefuseLoad
<1> QED BY <1>6, <1>7, <1>8

\* The arena is rewound, the stage moves on only with a segment that is left.
LEMMA ReadSegmentKeeps ==
  ASSUME LoaderIInv, ReadSegment
  PROVE  LoaderIInv'
<1> DEFINE module == modules[segment.module]
           s      == module.nso.segments[segment.kind]
           later  == {i \in DOMAIN modules : i > segment.module}
           range  == Claim(arena.used, 1, AtLeastOne(s.fileSize))
           stages == s.lz4 /\ WithinLz4(s) /\ Granted(range)
           step   == ReadStep(module.image > 0 /\ (s.lz4 => stages),
                              module.source, s.file, s.fileSize)
<1>1. /\ package \in Packages /\ SectionsSound /\ DirectorySound /\ ModulesSound /\ SegmentNext
      /\ ArenaBounds /\ ArenaUse /\ ReadSound /\ loading = "segments"
      /\ UNCHANGED <<package, sections, exefs, modules>>
  BY DEF LoaderIInv, ReadSegment
<1>2. segment.module \in DOMAIN modules /\ segment.kind \in Kinds
  BY <1>1 DEF SegmentNext, ReadyStages
<1>3. Nested(module.source) /\ NsoNumbers(module.nso)
  BY <1>1, <1>2 DEF ModulesSound, ModuleSound
<1>4. PICK at \in Nat, size \in Nat : at = s.file /\ size = s.fileSize
  BY <1>2, <1>3 DEF NsoNumbers, Kinds
<1>5. ArenaBounds' /\ arena'.used = arena.used
  <2>1. CASE ~ (module.image > 0 /\ stages)
    <3>1. arena' = arena
      BY <2>1 DEF ReadSegment
    <3> QED BY <1>1, <3>1 DEF ArenaBounds
  <2>2. CASE module.image > 0 /\ stages
    <3>1. PICK staged : staged = AtLeastOne(size)
      OBVIOUS
    <3>2. PICK taken : taken = Claim(arena.used, 1, staged)
      OBVIOUS
    <3>3. WithinLz4(s) /\ Granted(taken) /\ arena' = [arena EXCEPT !.ranges["staging"] = taken]
      <4>1. arena' = [arena EXCEPT !.ranges["staging"] = range]
        BY <2>2 DEF ReadSegment
      <4>2. range = taken
        BY <1>4, <3>1, <3>2
      <4> QED BY <2>2, <4>1, <4>2
    <3>4. /\ Lz4Max \in Nat \ {0} /\ ArenaBytes \in Nat /\ SizeLimit \in Nat
          /\ ArenaBytes + Lz4Max < SizeLimit
      BY LoaderAssumption DEF SizesFit
    <3>5. staged \in Nat /\ staged <= Lz4Max
      <4>1. s.fileSize <= Lz4Max
        BY <3>3 DEF WithinLz4
      <4>2. size <= Lz4Max
        BY <1>4, <4>1
      <4> QED BY <3>1, <3>4, <4>2 DEF AtLeastOne
    <3>6. PICK used, ranges : /\ used \in Nat /\ used = arena.used /\ ranges = arena.ranges
                                     /\ used <= ArenaBytes /\ ArenaSound(ranges, used)
                                     /\ arena = [used |-> used, ranges |-> ranges]
      BY <1>1 DEF ArenaBounds, ArenaSound
    <3>7. used + 1 + staged <= SizeLimit
      BY <3>4, <3>5, <3>6
    <3>8. taken.from = used /\ taken.size = staged /\ used + staged <= ArenaBytes
      <4>1. taken.size = staged /\ taken.from = used /\ RangeEnd(taken) = taken.from + staged
        BY <3>2, <3>5, <3>6, <3>7, ClaimIs
      <4> QED BY <3>3, <4>1 DEF Granted
    <3>9. ArenaSound([ranges EXCEPT !["staging"] = taken], used)
      <4>1. "staging" \in RangeNames
        BY DEF RangeNames
      <4>2. /\ taken.from \in Nat /\ taken.size \in Nat /\ taken.from >= used
            /\ taken.from + taken.size <= ArenaBytes
        BY <3>5, <3>6, <3>8
      <4> QED BY <3>6, <4>1, <4>2, ArenaTakes
    <3>10. /\ arena' = [used |-> used, ranges |-> [ranges EXCEPT !["staging"] = taken]]
           /\ arena'.used = used /\ arena'.ranges = [ranges EXCEPT !["staging"] = taken]
      BY <3>3, <3>6
    <3>11. ArenaSound(arena'.ranges, arena'.used)
      BY <3>9, <3>10
    <3>12. arena' = [used |-> arena'.used, ranges |-> arena'.ranges]
      BY <3>10
    <3> QED BY <3>6, <3>10, <3>11, <3>12 DEF ArenaBounds, ArenaSound
  <2> QED BY <2>1, <2>2
<1>6. ReadSound'
  <2>1. PICK asked : asked = step
    OBVIOUS
  <2>2. reads' = ReadsOf(<<asked>>)
    BY <2>1 DEF ReadSegment
  <2>3. StepSound(asked)
    <3>1. asked.source = module.source /\ asked.offset = at /\ asked.size = size
      BY <1>4, <2>1 DEF ReadStep
    <3> QED BY <1>3, <3>1 DEF StepSound
  <2>4. \A read \in ReadsOf(<<asked>>) : ReadInside(read)
    BY <2>3, OneReadInside
  <2> QED BY <2>2, <2>4 DEF ReadSound
<1>7. CASE loading' = "refused" /\ UNCHANGED segment
  BY <1>1, <1>5, <1>6, <1>7, RefusalKeeps
<1>8. CASE loading' # "refused" \/ segment' # segment
  <2>1. /\ loading' = IF segment.kind = 3 /\ later = {} THEN "loaded" ELSE loading
        /\ segment' = IF segment.kind < 3 THEN [segment EXCEPT !.kind = @ + 1]
                      ELSE IF later # {} THEN [module |-> Lowest(later), kind |-> 1]
                      ELSE segment
    BY <1>8 DEF ReadSegment, RefuseLoad
  <2>2. loading' \in ReadyStages
    BY <1>1, <2>1 DEF ReadyStages
  <2>4. segment'.module \in DOMAIN modules /\ segment'.kind \in Kinds
    <3>1. CASE segment.kind < 3
      <4>1. segment' = [segment EXCEPT !.kind = @ + 1]
        BY <2>1, <3>1
      <4> QED BY <1>2, <3>1, <4>1 DEF Kinds
    <3>2. CASE ~ (segment.kind < 3) /\ later # {}
      <4>1. later \in SUBSET Nat
        BY <1>1 DEF ModulesSound
      <4>2. Lowest(later) \in later
        <5> HIDE DEF later
        <5> QED BY <3>2, <4>1, LowestIsMember, Zenon
      <4>3. segment' = [module |-> Lowest(later), kind |-> 1]
        BY <2>1, <3>2
      <4> QED BY <4>2, <4>3 DEF Kinds
    <3>3. CASE ~ (segment.kind < 3) /\ later = {}
      <4>1. segment' = segment
        BY <2>1, <3>3
      <4> QED BY <1>2, <4>1
    <3> QED BY <3>1, <3>2, <3>3
  <2>5. SegmentNext' /\ ModulesSound' /\ SectionsSound' /\ DirectorySound'
    BY <1>1, <2>2, <2>4, SectionsKept, DirectoryKept, ModulesKept
    DEF SegmentNext, OpenedStages, ReadyStages
  <2>6. ArenaUse'
    BY <1>1, <1>5, <2>2
    DEF ArenaUse, ReadyStages, Named, Entry, Lowest, DirectoryUse, Directory
  <2> QED BY <1>1, <1>5, <1>6, <2>2, <2>5, <2>6 DEF LoaderIInv, ReadyStages, OpenedStages
<1> QED BY <1>7, <1>8

LEMMA LoaderStarts ==
  ASSUME package \in Packages, LoaderStart
  PROVE  LoaderIInv
<1>1. /\ loading = "nca" /\ sections = <<>> /\ modules = <<>> /\ reads = {}
      /\ arena = [used |-> 0, ranges |-> NothingKept]
  BY DEF LoaderStart, EmptyArena, NothingKept, RangeNames
<1>2. ArenaBytes \in Nat
  BY LoaderAssumption
<1>3. ArenaBounds /\ arena.used = 0 /\ arena.ranges = NothingKept
  <2>1. PICK none : none = NothingKept
    OBVIOUS
  <2>2. /\ DOMAIN none = RangeNames
        /\ \A k \in RangeNames : none[k].from = 0 /\ none[k].size = 0
    BY <2>1 DEF NothingKept
  <2>3. ArenaSound(none, 0)
    BY <1>2, <2>2 DEF ArenaSound, Apart, RangeNames, Kept
  <2> QED BY <1>1, <2>1, <2>3 DEF ArenaBounds
<1>4. DOMAIN sections = {} /\ DOMAIN modules = {}
  BY <1>1
<1>5. SectionsSound /\ ModulesSound
  BY <1>4 DEF SectionsSound, ModulesSound
<1>6. DirectorySound /\ SegmentNext /\ ArenaUse /\ ReadSound
  BY <1>1, <1>3 DEF DirectorySound, SegmentNext, ArenaUse, ReadSound, OpenedStages, ReadyStages
<1> QED BY <1>1, <1>3, <1>5, <1>6 DEF LoaderIInv

\* At every stage of the load: what the accepted sections, directory, modules
\* and segments are, and what of the arena is used (emulator_load_program).
THEOREM LoaderInvariant == LoaderSpec => []LoaderIInv
<1>1. LoaderIInv /\ [LoaderNext]_loaderVars => LoaderIInv'
  <2> SUFFICES ASSUME LoaderIInv, [LoaderNext]_loaderVars PROVE LoaderIInv'
    OBVIOUS
  <2>1. CASE UNCHANGED loaderVars
    <3>1. UNCHANGED <<package, loading, sections, exefs, modules, segment, arena, reads>>
      BY <2>1 DEF loaderVars
    <3>2. SectionsSound' /\ DirectorySound' /\ ModulesSound' /\ ReadSound'
      BY <3>1, SectionsKept, DirectoryKept, ModulesKept, ReadKept DEF LoaderIInv
    <3>3. SegmentNext' /\ ArenaBounds' /\ ArenaUse'
      BY <3>1 DEF LoaderIInv, SegmentNext, ArenaBounds, ArenaUse, Named, Entry, Lowest,
         DirectoryUse, Directory
    <3> QED BY <3>1, <3>2, <3>3 DEF LoaderIInv
  <2> QED BY <2>1, OpenNcaKeeps, OpenExefsKeeps, ReadNpdmKeeps, OpenModulesKeeps,
             ReadSegmentKeeps DEF LoaderNext
<1> QED BY <1>1, LoaderStarts, PTL DEF LoaderSpec

\* Every read the loader makes, of a header, the probe, the directory, a
\* module's name or a segment, stays inside every window of its source, and
\* no sum of offsets wraps (byte_source_read, byte_source_slice).
THEOREM ReadsStayInEveryWindowHolds == LoaderSpec => []ReadsStayInEveryWindow
<1>1. LoaderIInv => ReadsStayInEveryWindow
  BY DEF LoaderIInv, ReadSound, ReadInside, ReadsStayInEveryWindow
<1> QED BY <1>1, LoaderInvariant, PTL

\* A section's payload lies within the section and the section within the
\* content (locate_section_data, nca_open).
THEOREM PayloadsInsideSectionsHolds == LoaderSpec => []PayloadsInsideSections
<1>1. LoaderIInv => PayloadsInsideSections
  <2> SUFFICES ASSUME LoaderIInv, NEW i \in DOMAIN sections, sections[i].present
               PROVE  /\ sections[i].data >= sections[i].offset
                      /\ sections[i].data + sections[i].dataSize
                           <= sections[i].offset + sections[i].size
                      /\ sections[i].offset + sections[i].size <= package.contentSize
    BY DEF PayloadsInsideSections
  <2>1. PICK s : s = sections[i]
    OBVIOUS
  <2>2. SectionSound(s) /\ SectionFits(s)
    BY <2>1 DEF LoaderIInv, SectionsSound
  <2>3. PICK content \in Nat : content = package.contentSize
    BY PackageFacts DEF LoaderIInv
  <2> QED BY <2>1, <2>2, <2>3 DEF SectionSound, SectionFits, InRange
<1> QED BY <1>1, LoaderInvariant, PTL

\* An image's size, which is taken from .data and .bss alone, covers all its
\* segments, and no page of it belongs to two of them (nso_open).
THEOREM ImagesHoldTheirSegmentsHolds == LoaderSpec => []ImagesHoldTheirSegments
<1>1. LoaderIInv => ImagesHoldTheirSegments
  BY DEF LoaderIInv, ModulesSound, ModuleSound, ImageSound, Pages, ImagesHoldTheirSegments
<1> QED BY <1>1, LoaderInvariant, PTL

\* What the loader is granted, the directory's three ranges, the descriptor
\* and a staged segment, lies inside its arena and overlaps nothing that is
\* kept there, although the arena adds in size_t, and the segments give back
\* all they took (arena_alloc).
THEOREM ScratchInsideArenaHolds == LoaderSpec => []ScratchInsideArena
<1>1. LoaderIInv => ScratchInsideArena
  <2> SUFFICES ASSUME LoaderIInv PROVE ScratchInsideArena
    OBVIOUS
  <2>1. PICK ranges, used : ranges = arena.ranges /\ ArenaSound(ranges, used)
    BY DEF LoaderIInv, ArenaBounds
  <2>2. ArenaBytes \in Nat
    BY LoaderAssumption
  <2>3. ASSUME NEW k \in RangeNames
        PROVE  RangeBytes(ranges[k]) \subseteq 0 .. (ArenaBytes - 1)
    <3>1. PICK from \in Nat, size \in Nat :
            from = ranges[k].from /\ size = ranges[k].size /\ from + size <= ArenaBytes
      BY <2>1 DEF ArenaSound
    <3>2. from .. (from + size - 1) \subseteq 0 .. (ArenaBytes - 1)
      BY <2>2, <3>1
    <3> QED BY <3>1, <3>2 DEF RangeBytes
  <2>4. ASSUME NEW j \in RangeNames, NEW k \in RangeNames, j # k
        PROVE  RangeBytes(ranges[j]) \cap RangeBytes(ranges[k]) = {}
    <3>1. PICK a \in Nat, m \in Nat : a = ranges[j].from /\ m = ranges[j].size
      BY <2>1 DEF ArenaSound
    <3>2. PICK b \in Nat, n \in Nat : b = ranges[k].from /\ n = ranges[k].size
      BY <2>1 DEF ArenaSound
    <3>3. m = 0 \/ n = 0 \/ a + m <= b \/ b + n <= a
      BY <2>1, <2>4, <3>1, <3>2 DEF ArenaSound, Apart
    <3>4. (a .. (a + m - 1)) \cap (b .. (b + n - 1)) = {}
      BY <3>3
    <3> QED BY <3>1, <3>2, <3>4 DEF RangeBytes
  <2>5. DOMAIN ranges = RangeNames
    BY <2>1 DEF ArenaSound
  <2>6. loading = "loaded" => arena.used = DirectoryUse + Entry("npdm").size
    BY DEF LoaderIInv, ArenaUse
  <2> QED BY <2>1, <2>3, <2>4, <2>5, <2>6 DEF ScratchInsideArena
<1> QED BY <1>1, LoaderInvariant, PTL

-----------------------------------------------------------------------------
(* The file system reader.                                                 *)

\* The tables of an opened image: their words are there, up to their sizes.
TableSound(t, size) ==
  /\ size \in Nat /\ size < NoEntry
  /\ t \in Seq(Nat) /\ size \div 4 <= Len(t)
ReaderSound(r) ==
  /\ TableSound(r.dirs, r.dirSize) /\ TableSound(r.files, r.fileSize)
  /\ r.dirHeads \in Seq(Nat) /\ r.fileHeads \in Seq(Nat)
  /\ r.data \in Nat /\ r.data <= SourceSize

\* An entry that was handed out lies in its table, a file's data in the source.
EntrySound(r, kind, e) ==
  /\ {"status", "offset", "bytes"} \subseteq DOMAIN e
  /\ e.status = "ok" /\ e.offset \in 0 .. NoEntry /\ e.bytes \in Nat
  /\ e.offset % NameAlign = 0
  /\ e.offset + (IF kind = "dir" THEN DirFixed ELSE FileFixed) + e.bytes
       <= (IF kind = "dir" THEN r.dirSize ELSE r.fileSize)
  /\ kind = "file" =>
       /\ {"data", "size"} \subseteq DOMAIN e
       /\ e.data \in Nat /\ e.size \in Nat /\ e.data + e.size <= SourceSize
Linked(e) == "link" \in DOMAIN e /\ e.link \in Nat

\* What a step of a lookup may lead to: an outcome, or a place in a chain.
RomKinds == {"dir", "file"}
Chains ==
  [phase : {"chain"}, table : RomKinds, parent : 0 .. NoEntry, name : Tokens, offset : Nat,
   steps : Nat, last : BOOLEAN, kind : RomKinds, path : Paths, cursor : Nat \ {0}]
ChainSound(l, kind) == l \in Chains /\ l.kind = kind /\ (l.last => l.table = kind)
OutcomeSound(to, kind) ==
  IF "phase" \in DOMAIN to THEN ChainSound(to, kind)
  ELSE /\ "status" \in DOMAIN to /\ to.status # "read"
       /\ to.status = "ok" => EntrySound(fs, kind, to)

FoundSound ==
  /\ found.status = "ok" =>
       fs.status = "ok" /\ found.kind \in RomKinds /\ EntrySound(fs, found.kind, found)
  /\ found.status = "read" =>
       found.from >= found.data /\ found.from + found.size <= found.end
RomIInv ==
  /\ image \in Seq(Nat) /\ SourceSize < NoEntry
  /\ fs.status = "ok" => ReaderSound(fs)
  /\ lookup.phase = "chain" => fs.status = "ok" /\ ChainSound(lookup, lookup.kind)
  /\ FoundSound

LEMMA WordIsThere ==
  ASSUME NEW t, NEW size, TableSound(t, size), NEW at \in Nat, at + 4 <= size
  PROVE  WordAtOffset(t, at) \in Nat
<1>1. PICK n \in Nat : n = Len(t)
  BY DEF TableSound
<1>2. PICK i \in Nat : i = at \div 4 /\ i + 1 <= size \div 4
  BY DEF TableSound
<1>3. i + 1 \in 1 .. n
  BY <1>1, <1>2 DEF TableSound
<1>4. t[i + 1] \in Nat
  BY <1>1, <1>3 DEF TableSound
<1> QED BY <1>2, <1>4 DEF WordAtOffset

LEMMA DirEntrySound ==
  ASSUME NEW r, ReaderSound(r), NEW offset \in Nat
  PROVE  LET e == DirEntry(r, offset) IN
         /\ "phase" \notin DOMAIN e /\ "status" \in DOMAIN e /\ e.status \in {"ok", "invalid"}
         /\ e.status = "ok" => EntrySound(r, "dir", e) /\ Linked(e)
<1>1. CASE ~ EntryFits(offset, DirFixed, r.dirSize)
  BY <1>1 DEF DirEntry, Invalid, Failed
<1>2. CASE EntryFits(offset, DirFixed, r.dirSize)
  <2>1. r.dirSize \in Nat /\ r.dirSize < NoEntry /\ TableSound(r.dirs, r.dirSize)
    BY DEF ReaderSound, TableSound
  <2>2. offset + 24 <= r.dirSize
    BY <1>2, <2>1 DEF EntryFits, DirFixed
  <2>3. PICK bytes \in Nat, link \in Nat :
          bytes = WordAtOffset(r.dirs, offset + 20) /\ link = WordAtOffset(r.dirs, offset + 16)
    <3>1. offset + 20 \in Nat /\ offset + 16 \in Nat
          /\ (offset + 20) + 4 <= r.dirSize /\ (offset + 16) + 4 <= r.dirSize
      BY <2>1, <2>2
    <3> QED BY <2>1, <3>1, WordIsThere
  <2>4. CASE ~ CheckEntry(offset, DirFixed, r.dirSize, bytes)
    BY <1>2, <2>3, <2>4 DEF DirEntry, Invalid, Failed
  <2>5. CASE CheckEntry(offset, DirFixed, r.dirSize, bytes)
    <3>1. PICK parent, name :
            DirEntry(r, offset) = [status |-> "ok", offset |-> offset, parent |-> parent,
                                   bytes |-> bytes, name |-> name, link |-> link]
      <4>1. DirEntry(r, offset) =
              [status |-> "ok", offset |-> offset, parent |-> WordAtOffset(r.dirs, offset + 0),
               bytes |-> bytes,
               name |-> IF bytes = 0 THEN NoEntry ELSE WordAtOffset(r.dirs, offset + 24),
               link |-> link]
        BY <1>2, <2>3, <2>5, Zenon DEF DirEntry
      <4> QED BY <4>1, Zenon
    <3>2. PICK e : e = DirEntry(r, offset)
      OBVIOUS
    <3>3. /\ "phase" \notin DOMAIN e /\ {"status", "offset", "bytes", "link"} \subseteq DOMAIN e
          /\ e.status = "ok" /\ e.offset = offset /\ e.bytes = bytes /\ e.link = link
      BY <3>1, <3>2
    <3>4. /\ offset % NameAlign = 0 /\ offset + DirFixed + bytes <= r.dirSize
          /\ offset \in 0 .. NoEntry
      <4>1. PICK total \in Nat : total = r.dirSize /\ total < NoEntry
        BY <2>1
      <4>2. offset % NameAlign = 0 /\ bytes <= total - offset - DirFixed
        BY <2>5, <4>1 DEF CheckEntry
      <4>3. DirFixed \in Nat /\ NoEntry \in Nat /\ offset <= total
        BY <2>2, <4>1, SMT DEF DirFixed, NoEntry
      <4> QED BY <4>1, <4>2, <4>3, SMT
    <3> QED BY <3>2, <3>3, <3>4 DEF EntrySound, Linked
  <2> QED BY <2>4, <2>5
<1> QED BY <1>1, <1>2

LEMMA FileEntrySound ==
  ASSUME NEW r, ReaderSound(r), image \in Seq(Nat), NEW offset \in Nat
  PROVE  LET e == FileEntry(r, offset) IN
         /\ "phase" \notin DOMAIN e /\ "status" \in DOMAIN e /\ e.status \in {"ok", "invalid"}
         /\ e.status = "ok" => EntrySound(r, "file", e) /\ Linked(e)
<1>1. CASE ~ EntryFits(offset, FileFixed, r.fileSize)
  BY <1>1 DEF FileEntry, Invalid, Failed
<1>2. CASE EntryFits(offset, FileFixed, r.fileSize)
  <2>1. r.fileSize \in Nat /\ r.fileSize < NoEntry /\ TableSound(r.files, r.fileSize)
    BY DEF ReaderSound, TableSound
  <2>2. offset + 32 <= r.fileSize
    BY <1>2, <2>1 DEF EntryFits, FileFixed
  <2> DEFINE at(field) == WordAtOffset(r.files, offset + field)
  <2>3. PICK bytes \in Nat, link \in Nat, from \in Nat, size \in Nat :
          bytes = at(28) /\ link = at(24) /\ from = at(8) /\ size = at(16)
    <3>1. \A field \in {8, 16, 24, 28} : offset + field \in Nat /\ (offset + field) + 4 <= r.fileSize
      BY <2>1, <2>2
    <3>2. \A field \in {8, 16, 24, 28} : at(field) \in Nat
      BY <2>1, <3>1, WordIsThere
    <3> QED BY <3>2
  <2>4. CASE ~ ( /\ CheckEntry(offset, FileFixed, r.fileSize, bytes)
                 /\ ~ (from > SourceSize - r.data)
                 /\ ~ (size > (SourceSize - r.data) - from) )
    BY <1>2, <2>3, <2>4 DEF FileEntry, Invalid, Failed
  <2>5. CASE /\ CheckEntry(offset, FileFixed, r.fileSize, bytes)
             /\ ~ (from > SourceSize - r.data)
             /\ ~ (size > (SourceSize - r.data) - from)
    <3>1. PICK parent, name :
            FileEntry(r, offset) = [status |-> "ok", offset |-> offset, parent |-> parent,
                                    bytes |-> bytes, name |-> name, link |-> link,
                                    data |-> r.data + from, size |-> size]
      <4>1. FileEntry(r, offset) =
              [status |-> "ok", offset |-> offset, parent |-> at(0), bytes |-> bytes,
               name |-> IF bytes = 0 THEN NoEntry ELSE at(32), link |-> link,
               data |-> r.data + from, size |-> size]
        BY <1>2, <2>3, <2>5, Zenon DEF FileEntry
      <4> QED BY <4>1, Zenon
    <3>2. PICK e : e = FileEntry(r, offset)
      OBVIOUS
    <3>3. /\ "phase" \notin DOMAIN e
          /\ {"status", "offset", "bytes", "link", "data", "size"} \subseteq DOMAIN e
          /\ e.status = "ok" /\ e.offset = offset /\ e.bytes = bytes /\ e.link = link
          /\ e.data = r.data + from /\ e.size = size
      BY <3>1, <3>2
    <3>4. /\ offset % NameAlign = 0 /\ offset + FileFixed + bytes <= r.fileSize
          /\ offset \in 0 .. NoEntry
      <4>1. PICK total \in Nat : total = r.fileSize /\ total < NoEntry
        BY <2>1
      <4>2. offset % NameAlign = 0 /\ bytes <= total - offset - FileFixed
        BY <2>5, <4>1 DEF CheckEntry
      <4>3. FileFixed \in Nat /\ NoEntry \in Nat /\ offset <= total
        BY <2>2, <4>1, SMT DEF FileFixed, NoEntry
      <4> QED BY <4>1, <4>2, <4>3, SMT
    <3>5. PICK total \in Nat, data \in Nat : total = SourceSize /\ data = r.data /\ data <= total
      <4>1. SourceSize \in Nat
        BY DEF SourceSize
      <4> QED BY <4>1 DEF ReaderSound
    <3>6. r.data + from \in Nat /\ r.data + from + size <= SourceSize
      <4>1. from <= total - data /\ size <= (total - data) - from
        BY <2>5, <3>5
      <4>2. data + from \in Nat /\ data + from + size <= total
        BY <3>5, <4>1
      <4> QED BY <3>5, <4>2
    <3> QED BY <3>2, <3>3, <3>4, <3>6 DEF EntrySound, Linked
  <2> QED BY <2>4, <2>5
<1> QED BY <1>1, <1>2

LEMMA FailuresSound == \A kind : OutcomeSound(Invalid, kind) /\ OutcomeSound(NotFound, kind)
BY DEF OutcomeSound, Invalid, NotFound, Failed

LEMMA WalkSound ==
  ASSUME ReaderSound(fs), NEW kind \in RomKinds, NEW path \in Paths, NEW cursor \in Nat \ {0},
         NEW current \in 0 .. NoEntry
  PROVE  OutcomeSound(Walk(kind, path, cursor, current), kind)
<1>1. path \in Seq(Nat) /\ Len(path) \in Nat
  BY HashAssumption
<1>2. PathStop(path) \in Int /\ PathStop(path) <= Len(path)
  BY <1>1 DEF PathStop
<1>3. CASE cursor > PathStop(path) /\ kind = "dir"
  <2>1. Walk(kind, path, cursor, current) = DirEntry(fs, RootOffset)
    BY <1>2, <1>3 DEF Walk
  <2>2. RootOffset \in Nat
    BY DEF RootOffset
  <2> QED BY <1>3, <2>1, <2>2, DirEntrySound DEF OutcomeSound
<1>4. CASE cursor > PathStop(path) /\ kind # "dir"
  <2>1. kind = "file" /\ cursor # PathStop(path)
    BY <1>2, <1>4 DEF RomKinds
  <2>2. Walk(kind, path, cursor, current) = Invalid
    BY <1>4, <2>1 DEF Walk
  <2> QED BY <2>2, FailuresSound
<1>5. CASE ~ (cursor > PathStop(path))
  <2>1. cursor \in DOMAIN path
    BY <1>1, <1>2, <1>5
  <2>2. path[cursor] \in Tokens
    BY <2>1 DEF Tokens
  <2>3. PICK name \in Tokens : name = path[cursor]
    BY <2>2
  <2>4. CASE name = Sep
    <3>1. Walk(kind, path, cursor, current) = Invalid
      BY <1>5, <2>3, <2>4 DEF Walk
    <3> QED BY <3>1, FailuresSound
  <2>5. CASE name # Sep /\ cursor = PathStop(path) /\ kind = "file" /\ Trailing(path)
    <3>1. Walk(kind, path, cursor, current) = Invalid
      BY <1>5, <2>3, <2>5 DEF Walk
    <3> QED BY <3>1, FailuresSound
  <2>6. CASE name # Sep /\ ~ (cursor = PathStop(path) /\ kind = "file" /\ Trailing(path))
    <3>1. PICK isLeaf \in BOOLEAN : isLeaf = (cursor = PathStop(path))
      OBVIOUS
    <3>2. PICK k \in RomKinds : k = IF isLeaf THEN kind ELSE "dir"
      BY DEF RomKinds
    <3>3. PICK heads \in Seq(Nat) : heads = IF k = "dir" THEN fs.dirHeads ELSE fs.fileHeads
      BY DEF ReaderSound
    <3>4. Hash(current, name) \in Nat
      BY HashAssumption
    <3>5. CASE heads = <<>>
      <4>1. Walk(kind, path, cursor, current) = NotFound
        BY <1>5, <2>3, <2>6, <3>1, <3>2, <3>3, <3>5 DEF Walk
      <4> QED BY <4>1, FailuresSound
    <3>6. CASE heads # <<>>
      <4>1. PICK offset \in Nat : offset = heads[(Hash(current, name) % Len(heads)) + 1]
        <5>1. PICK n \in Nat \ {0} : n = Len(heads)
          BY <3>6
        <5>2. Hash(current, name) % n \in 0 .. n - 1
          BY <3>4, <5>1
        <5> QED BY <5>1, <5>2
      <4>2. Walk(kind, path, cursor, current) =
              [phase |-> "chain", table |-> k, parent |-> current, name |-> name,
               offset |-> offset, steps |-> 0, last |-> isLeaf, kind |-> kind, path |-> path,
               cursor |-> cursor + 2]
        BY <1>5, <2>3, <2>6, <3>1, <3>2, <3>3, <3>6, <4>1 DEF Walk
      <4>3. PICK l : l = Walk(kind, path, cursor, current)
        OBVIOUS
      <4>4. l \in Chains
        BY <4>2, <4>3 DEF Chains
      <4>5. l.kind = kind /\ l.last = isLeaf /\ l.table = k /\ "phase" \in DOMAIN l
        BY <4>2, <4>3
      <4> QED BY <3>2, <4>3, <4>4, <4>5 DEF OutcomeSound, ChainSound
    <3> QED BY <3>5, <3>6
  <2> QED BY <2>4, <2>5, <2>6
<1> QED BY <1>3, <1>4, <1>5

LEMMA LoadedSound ==
  ASSUME image \in Seq(Nat), SourceSize < NoEntry, NEW range, range.offset \in Nat,
         range.size \in Nat, ValidTable(range)
  PROVE  TableSound(Loaded(range), range.size)
<1>1. PICK n \in Nat : n = Len(image) /\ SourceSize = 4 * n
  BY DEF SourceSize
<1>2. PICK offset \in Nat, size \in Nat : offset = range.offset /\ size = range.size
  OBVIOUS
<1>3. offset + size <= 4 * n /\ size < NoEntry
  <2>1. offset <= 4 * n /\ size <= 4 * n - offset
    BY <1>1, <1>2 DEF ValidTable
  <2>2. NoEntry \in Nat
    BY SMT DEF NoEntry
  <2> QED BY <1>1, <2>1, <2>2
<1>4. PICK i \in Nat, j \in Nat, k \in Nat :
        /\ i = offset \div 4 /\ j = (offset + size) \div 4 /\ k = size \div 4
        /\ i <= j /\ j <= n /\ k <= j - i
  BY <1>3
<1>5. Loaded(range) = SubSeq(image, i + 1, j)
  BY <1>2, <1>4 DEF Loaded
<1>6. SubSeq(image, i + 1, j) \in Seq(Nat) /\ Len(SubSeq(image, i + 1, j)) = j - i
  BY <1>1, <1>4
<1> QED BY <1>2, <1>3, <1>4, <1>5, <1>6 DEF TableSound

LEMMA OpenSound ==
  ASSUME RomIInv, Open
  PROVE  fs'.status = "ok" => ReaderSound(fs')
<1> SUFFICES ASSUME fs'.status = "ok" PROVE ReaderSound(fs')
  OBVIOUS
<1> DEFINE range(i) == [offset |-> Field(i), size |-> Field(i + 1)]
           opened == OpenedFrom(range(1), range(3), range(5), range(7), Field(9))
<1> HIDE DEF opened
<1>1. /\ fs' = opened /\ SourceSize >= HeaderSize
      /\ \A i \in {1, 3, 5, 7} : ValidTable(range(i))
      /\ Field(9) <= SourceSize
  BY DEF Open, Failed, opened
<1>2. \A i \in 0 .. 9 : Field(i) \in Nat
  <2>1. PICK n \in Nat : n = Len(image) /\ n >= 20 /\ image \in Seq(Nat)
    <3>1. PICK n \in Nat : n = Len(image) /\ image \in Seq(Nat)
      BY DEF RomIInv
    <3>2. 4 * n >= 80
      BY <1>1, <3>1 DEF SourceSize, HeaderSize
    <3> QED BY <3>1, <3>2
  <2>2. TAKE i \in 0 .. 9
  <2>3. PICK j \in 1 .. n : j = (8 * i) \div 4 + 1
    BY <2>1
  <2>4. image[j] \in Nat
    BY <2>1
  <2> QED BY <2>3, <2>4 DEF Field, WordAtOffset
<1>3. \A i \in {1, 3, 5, 7} : TableSound(Loaded(range(i)), range(i).size)
  <2> TAKE i \in {1, 3, 5, 7}
  <2>1. range(i).offset \in Nat /\ range(i).size \in Nat
    BY <1>2
  <2> QED BY <1>1, <2>1, LoadedSound DEF RomIInv
<1>4. /\ opened.dirs = Loaded(range(3)) /\ opened.dirSize = range(3).size
      /\ opened.dirHeads = Loaded(range(1)) /\ opened.files = Loaded(range(7))
      /\ opened.fileSize = range(7).size /\ opened.fileHeads = Loaded(range(5))
      /\ opened.data = Field(9)
  BY DEF opened, OpenedFrom
<1>5. ReaderSound(opened)
  <2>1. TableSound(opened.dirs, opened.dirSize) /\ TableSound(opened.files, opened.fileSize)
    BY <1>3, <1>4
  <2>2. opened.dirHeads \in Seq(Nat) /\ opened.fileHeads \in Seq(Nat)
    BY <1>3, <1>4 DEF TableSound
  <2>3. opened.data \in Nat /\ opened.data <= SourceSize
    BY <1>1, <1>2, <1>4
  <2> QED BY <2>1, <2>2, <2>3 DEF ReaderSound
<1>6. image' = image
  BY DEF Open
<1> QED BY <1>1, <1>5, <1>6 DEF ReaderSound, SourceSize

\* Where a step of a lookup goes keeps what is said of lookup and found.
LEMMA GoesSound ==
  ASSUME RomIInv, fs.status = "ok", UNCHANGED <<image, intact, fs>>,
         NEW to, NEW kind \in RomKinds, NEW path, OutcomeSound(to, kind), Goes(to, kind, path)
  PROVE  RomIInv'
<1>1. SourceSize' = SourceSize /\ image' = image /\ fs' = fs
  BY DEF SourceSize
<1>2. CASE "phase" \in DOMAIN to
  <2>1. lookup' = to /\ found' = [status |-> "running"]
    BY <1>2 DEF Goes, Failed
  <2>2. ChainSound(to, to.kind)
    BY <1>2 DEF OutcomeSound, ChainSound
  <2>3. FoundSound'
    BY <2>1 DEF FoundSound
  <2>4. (fs.status = "ok" => ReaderSound(fs))'
    BY <1>1 DEF RomIInv, ReaderSound, SourceSize
  <2>5. (lookup.phase = "chain" => fs.status = "ok" /\ ChainSound(lookup, lookup.kind))'
    BY <1>1, <2>1, <2>2 DEF ChainSound
  <2> QED BY <1>1, <2>3, <2>4, <2>5 DEF RomIInv
<1>3. CASE "phase" \notin DOMAIN to
  <2>1. PICK f : f = found'
    OBVIOUS
  <2>2. /\ lookup' = [phase |-> "none"]
        /\ f = [field \in {"kind", "path"} \cup DOMAIN to |->
                  CASE field = "kind" -> kind
                    [] field = "path" -> path
                    [] OTHER -> to[field]]
    BY <1>3, <2>1 DEF Goes, NoLookup
  <2>3. f.kind = kind /\ \A x \in DOMAIN to \ {"kind", "path"} : x \in DOMAIN f /\ f[x] = to[x]
    BY <2>2
  <2>4. f.status = to.status /\ f.status # "read"
    BY <1>3, <2>3 DEF OutcomeSound
  <2>5. ASSUME to.status = "ok" PROVE EntrySound(fs, kind, f)
    <3>1. EntrySound(fs, kind, to)
      BY <1>3, <2>5 DEF OutcomeSound
    <3>2. /\ {"status", "offset", "bytes"} \subseteq DOMAIN f
          /\ f.status = "ok" /\ f.offset = to.offset /\ f.bytes = to.bytes
      BY <2>3, <3>1 DEF EntrySound
    <3>3. kind = "file" => /\ {"data", "size"} \subseteq DOMAIN f
                           /\ f.data = to.data /\ f.size = to.size
      BY <2>3, <3>1 DEF EntrySound
    <3> QED BY <3>1, <3>2, <3>3 DEF EntrySound
  <2>6. FoundSound'
    <3>1. (f.status = "ok" => EntrySound(fs, kind, f))'
      BY <1>1, <2>1, <2>4, <2>5 DEF EntrySound, SourceSize
    <3> QED BY <1>1, <2>1, <2>3, <2>4, <2>5, <3>1 DEF FoundSound, EntrySound, SourceSize
  <2>7. (fs.status = "ok" => ReaderSound(fs))'
    BY <1>1 DEF RomIInv, ReaderSound, SourceSize
  <2> QED BY <1>1, <2>2, <2>6, <2>7 DEF RomIInv
<1> QED BY <1>2, <1>3

LEMMA FindKeeps ==
  ASSUME RomIInv, NEW kind \in RomKinds, NEW path \in Paths, Find(kind, path)
  PROVE  RomIInv'
<1>1. fs.status = "ok" /\ ReaderSound(fs) /\ UNCHANGED <<image, intact, fs>>
  BY DEF Find, RomIInv
<1>2. PathStart(path) \in Nat \ {0} /\ RootOffset \in 0 .. NoEntry
  BY SMT DEF PathStart, RootOffset, NoEntry
<1>3. PICK to : to = Walk(kind, path, PathStart(path), RootOffset)
  OBVIOUS
<1>4. OutcomeSound(to, kind)
  BY <1>1, <1>2, <1>3, WalkSound
<1>5. Goes(to, kind, path)
  BY <1>3, Zenon DEF Find
<1> QED BY <1>1, <1>4, <1>5, GoesSound

LEMMA ChainStepKeeps ==
  ASSUME RomIInv, ChainStep
  PROVE  RomIInv'
<1> DEFINE entry == IF lookup.table = "dir" THEN DirEntry(fs, lookup.offset)
                                            ELSE FileEntry(fs, lookup.offset)
           on == [lookup EXCEPT !.offset = entry.link,
                                !.steps = IF @ < StepsCounted THEN @ + 1 ELSE @]
           walk == Walk(lookup.kind, lookup.path, lookup.cursor, entry.offset)
<1>1. fs.status = "ok" /\ ReaderSound(fs) /\ image \in Seq(Nat)
  BY DEF ChainStep, RomIInv
<1>2. lookup \in Chains /\ (lookup.last => lookup.table = lookup.kind)
  BY DEF ChainStep, RomIInv, ChainSound
<1>3. lookup.kind \in RomKinds /\ lookup.table \in RomKinds /\ lookup.offset \in Nat
  BY <1>2 DEF Chains
<1>4. PICK e : e = entry
  OBVIOUS
<1>5. /\ "phase" \notin DOMAIN e /\ "status" \in DOMAIN e /\ e.status \in {"ok", "invalid"}
      /\ e.status = "ok" => EntrySound(fs, lookup.table, e) /\ Linked(e)
  <2>1. CASE lookup.table = "dir"
    BY <1>1, <1>3, <1>4, <2>1, DirEntrySound
  <2>2. CASE lookup.table = "file"
    BY <1>1, <1>3, <1>4, <2>2, FileEntrySound
  <2> QED BY <1>3, <2>1, <2>2 DEF RomKinds
<1>6. PICK to :
        /\ Goes(to, lookup.kind, lookup.path)
        /\ to \in {NotFound, Invalid} \/ to = IF e.status # "ok" THEN e
                                             ELSE IF ~ Matches(e) THEN on
                                             ELSE IF lookup.last THEN e
                                             ELSE walk
  BY <1>4 DEF ChainStep
<1>7. OutcomeSound(to, lookup.kind)
  <2>1. CASE to \in {NotFound, Invalid}
    BY <2>1, FailuresSound
  <2>2. CASE to = e /\ e.status # "ok"
    BY <1>5, <2>2 DEF OutcomeSound
  <2>3. CASE to = on /\ e.status = "ok"
    <3>1. e.link \in Nat
      BY <1>5, <2>3 DEF Linked
    <3>2. PICK steps \in Nat, link \in Nat :
            /\ steps = IF lookup.steps < StepsCounted THEN lookup.steps + 1 ELSE lookup.steps
            /\ link = e.link
      BY <1>2, <3>1 DEF Chains, StepsCounted
    <3>3. PICK l : l = [lookup EXCEPT !.offset = link, !.steps = steps]
      OBVIOUS
    <3>4. on = l
      BY <1>4, <3>2, <3>3, Zenon
    <3>5. l \in Chains /\ l.kind = lookup.kind /\ l.last = lookup.last
          /\ l.table = lookup.table /\ "phase" \in DOMAIN l
      BY <1>2, <3>3 DEF Chains
    <3> QED BY <1>2, <2>3, <3>4, <3>5 DEF OutcomeSound, ChainSound
  <2>4. CASE to = e /\ e.status = "ok" /\ lookup.last
    BY <1>2, <1>5, <2>4 DEF OutcomeSound
  <2>5. CASE to = walk /\ e.status = "ok"
    <3>1. e.offset \in 0 .. NoEntry
      BY <1>5, <2>5 DEF EntrySound
    <3>2. lookup.path \in Paths /\ lookup.cursor \in Nat \ {0}
      BY <1>2 DEF Chains
    <3> QED BY <1>1, <1>3, <1>4, <2>5, <3>1, <3>2, WalkSound
  <2> QED BY <1>6, <2>1, <2>2, <2>3, <2>4, <2>5
<1>8. UNCHANGED <<image, intact, fs>>
  BY DEF ChainStep
<1> QED BY <1>1, <1>3, <1>6, <1>7, <1>8, GoesSound

LEMMA ReadFileKeeps ==
  ASSUME RomIInv, NEW offset \in Nat, NEW size \in Nat, ReadFile(offset, size)
  PROVE  RomIInv'
<1>1. /\ found.status = "ok" /\ found.kind = "file" /\ UNCHANGED <<image, intact, fs, lookup>>
      /\ found' = IF offset > found.size \/ size > found.size - offset THEN Invalid
                  ELSE [status |-> "read", kind |-> "file", from |-> found.data + offset,
                        size |-> size, data |-> found.data, end |-> found.data + found.size]
  BY DEF ReadFile
<1>2. PICK data \in Nat, all \in Nat : data = found.data /\ all = found.size
  BY <1>1 DEF RomIInv, FoundSound, EntrySound
<1>3. FoundSound'
  <2>1. CASE offset > all \/ size > all - offset
    BY <1>1, <1>2, <2>1 DEF FoundSound, Invalid, Failed
  <2>2. CASE ~ (offset > all \/ size > all - offset)
    <3>1. data + offset >= data /\ (data + offset) + size <= data + all
      BY <2>2
    <3> QED BY <1>1, <1>2, <2>2, <3>1 DEF FoundSound
  <2> QED BY <2>1, <2>2
<1>4. (fs.status = "ok" => ReaderSound(fs))'
  BY <1>1 DEF RomIInv, ReaderSound, SourceSize
<1> QED BY <1>1, <1>3, <1>4 DEF RomIInv, SourceSize, ChainSound

\* A reader of any image stays sound, and hands out nothing else.
THEOREM RomInvariant == RomSpec => []RomIInv
<1>1. AnyImage /\ RomStart => RomIInv
  BY DEF AnyImage, RomStart, RomIInv, FoundSound, Closed, NoLookup, Failed
<1>2. RomIInv /\ [RomNext]_romVars => RomIInv'
  <2> SUFFICES ASSUME RomIInv, [RomNext]_romVars PROVE RomIInv'
    OBVIOUS
  <2>1. CASE Open
    <3>1. fs = [status |-> "closed"] /\ UNCHANGED <<image, intact, lookup, found>>
      BY <2>1 DEF Open, Closed
    <3>2. (fs.status = "ok" => ReaderSound(fs))'
      <4>1. fs'.status = "ok" => ReaderSound(fs')
        BY <2>1, OpenSound
      <4> QED BY <3>1, <4>1 DEF ReaderSound, SourceSize
    <3>3. lookup.phase # "chain" /\ found.status # "ok"
      BY <3>1 DEF RomIInv, FoundSound
    <3> QED BY <3>1, <3>2, <3>3 DEF RomIInv, FoundSound, SourceSize
  <2>2. ASSUME NEW kind \in {"dir", "file"}, NEW path \in Paths, Find(kind, path) PROVE RomIInv'
    BY <2>2, FindKeeps DEF RomKinds
  <2>3. CASE ChainStep
    BY <2>3, ChainStepKeeps
  <2>4. ASSUME NEW offset \in {0, 4, 8}, NEW size \in {0, 4, 8}, ReadFile(offset, size)
        PROVE  RomIInv'
    BY <2>4, ReadFileKeeps
  <2>5. CASE UNCHANGED romVars
    BY <2>5 DEF romVars, RomIInv, ReaderSound, FoundSound, ChainSound, EntrySound, SourceSize
  <2> QED BY <2>1, <2>2, <2>3, <2>4, <2>5 DEF RomNext
<1> QED BY <1>1, <1>2, PTL DEF RomSpec

\* What a lookup hands out of any image lies inside its table, name
\* included, and a file's data, and every byte read of it, inside the source
\* (check_entry, romfs_file_entry, romfs_read_file).
THEOREM HandedOutInsideHolds == RomSpec => []HandedOutInside
<1>1. RomIInv => HandedOutInside
  <2> SUFFICES ASSUME RomIInv, found.status = "ok"
               PROVE  LET isDir == found.kind = "dir" IN
                      /\ found.offset % NameAlign = 0
                      /\ found.offset + (IF isDir THEN DirFixed ELSE FileFixed) + found.bytes
                           <= (IF isDir THEN fs.dirSize ELSE fs.fileSize)
                      /\ ~ isDir => found.data >= 0 /\ found.data + found.size <= SourceSize
    BY DEF HandedOutInside, RomIInv, FoundSound
  <2>1. found.kind \in RomKinds /\ EntrySound(fs, found.kind, found)
    BY DEF RomIInv, FoundSound
  <2> QED BY <2>1 DEF EntrySound, RomKinds
<1> QED BY <1>1, RomInvariant, PTL

-----------------------------------------------------------------------------
(* The file system reader: what a builder puts one after the other.        *)

\* Words of a part are found in a whole, from a place on.
Holds(t, at, part) ==
  /\ at \in Nat /\ at + Len(part) <= Len(t)
  /\ \A i \in 1 .. Len(part) : t[at + i] = part[i]

Joins(c, a, b) == c = a \o b
LEMMA HoldsBoth ==
  ASSUME NEW a \in Seq(Nat), NEW b \in Seq(Nat), NEW c, Joins(c, a, b),
         NEW m \in Nat, m = Len(a)
  PROVE  /\ c \in Seq(Nat) /\ Len(c) = m + Len(b) /\ Holds(c, m, b)
         /\ \A at, part : part \in Seq(Nat) /\ Holds(a, at, part) => Holds(c, at, part)
<1>1. PICK n \in Nat : n = Len(b)
  OBVIOUS
<1> USE DEF Joins
<1>2. c \in Seq(Nat) /\ Len(c) = m + n
  BY <1>1
<1>3. \A i \in 1 .. m : c[i] = a[i]
  BY <1>1
<1>4. \A i \in 1 .. n : c[m + i] = b[i]
  BY <1>1
<1>5. Holds(c, m, b)
  BY <1>1, <1>2, <1>4 DEF Holds
<1>6. ASSUME NEW at, NEW part, part \in Seq(Nat), Holds(a, at, part) PROVE Holds(c, at, part)
  <2>1. PICK l \in Nat : l = Len(part)
    BY <1>6
  <2>2. at \in Nat /\ at + l <= m /\ \A i \in 1 .. l : a[at + i] = part[i]
    BY <1>6, <2>1 DEF Holds
  <2>3. \A i \in 1 .. l : at + i \in 1 .. m
    BY <2>2
  <2>4. \A i \in 1 .. l : c[at + i] = part[i]
    BY <1>3, <2>2, <2>3
  <2> QED BY <1>1, <1>2, <2>1, <2>2, <2>4 DEF Holds
<1> QED BY <1>1, <1>2, <1>5, <1>6

LEMMA ConcatUnfolds ==
  ASSUME NEW n \in Nat, NEW s \in [1 .. n -> Seq(Nat)]
  PROVE  \E f \in [0 .. n -> Seq(Nat)] :
           f[0] = <<>> /\ (\A i \in 1 .. n : f[i] = f[i - 1] \o s[i]) /\ Concat(s, n) = f[n]
<1> DEFINE step == [p \in Seq(Nat) \X (1 .. n) |-> p[1] \o s[p[2]]]
           Body(f) == [i \in 0 .. n |-> IF i = 0 THEN <<>> ELSE f[i - 1] \o s[i]]
           upto == CHOOSE f : f = Body(f)
<1>1. step \in [Seq(Nat) \X (1 .. n) -> Seq(Nat)] /\ <<>> \in Seq(Nat)
  <2>1. ASSUME NEW p \in Seq(Nat) \X (1 .. n) PROVE p[1] \o s[p[2]] \in Seq(Nat)
    <3>1. p[1] \in Seq(Nat) /\ s[p[2]] \in Seq(Nat)
      OBVIOUS
    <3> QED BY <3>1
  <2> QED BY <2>1
<1>2. \A v \in Seq(Nat), i \in 1 .. n : step[<<v, i>>] = v \o s[i]
  OBVIOUS
<1> HIDE DEF step
<1>3. PICK f \in [0 .. n -> Seq(Nat)] : IsFold(f, n, <<>>, step)
  BY <1>1, FoldHasResult
<1>4. f = Body(f)
  <2>1. ASSUME NEW i \in 0 .. n, i # 0 PROVE step[<<f[i - 1], i>>] = f[i - 1] \o s[i]
    <3>1. i \in 1 .. n /\ i - 1 \in 0 .. n
      BY <2>1
    <3>2. f[i - 1] \in Seq(Nat)
      BY <3>1
    <3> QED BY <1>2, <3>1, <3>2
  <2> QED BY <1>3, <2>1 DEF IsFold
<1>5. upto = Body(upto)
  <2> HIDE DEF Body
  <2> QED BY <1>4
<1>6. Concat(s, n) = upto[n]
  BY DEF Concat
<1> HIDE DEF upto
<1>8. upto[0] = <<>> /\ \A i \in 1 .. n : upto[i] = upto[i - 1] \o s[i]
  <2>1. 0 \in 0 .. n /\ \A i \in 1 .. n : i \in 0 .. n /\ i # 0
    OBVIOUS
  <2> QED BY <1>5, <2>1, Zenon
<1> HIDE DEF Body
<1>7. upto \in [0 .. n -> Seq(Nat)]
  <2> DEFINE S == {i \in 0 .. n : upto[i] \in Seq(Nat)}
  <2>1. 0 \in S
    <3>1. upto[0] \in Seq(Nat) /\ 0 \in 0 .. n
      BY <1>8
    <3> QED BY <3>1, Zenon
  <2>2. ASSUME NEW i \in 1 .. n, i - 1 \in S PROVE i \in S
    <3>1. upto[i] = upto[i - 1] \o s[i] /\ upto[i - 1] \in Seq(Nat) /\ s[i] \in Seq(Nat)
      <4>1. upto[i] = upto[i - 1] \o s[i]
        BY <1>8, Zenon
      <4> QED BY <2>2, <4>1
    <3>2. upto[i - 1] \o s[i] \in Seq(Nat)
      BY <3>1
    <3>3. upto[i] \in Seq(Nat) /\ i \in 0 .. n
      BY <3>1, <3>2
    <3> QED BY <3>3, Zenon
  <2> HIDE DEF S
  <2>3. 0 .. n \subseteq S
    BY <2>1, <2>2, Reaches
  <2> USE DEF S
  <2>4. \A i \in 0 .. n : upto[i] \in Seq(Nat)
    BY <2>3
  <2>5. upto = [i \in 0 .. n |-> upto[i]]
    BY <1>5 DEF Body
  <2> QED BY <2>4, <2>5
<1> QED BY <1>6, <1>7, <1>8

LEMMA ConcatHolds ==
  ASSUME NEW n \in Nat, NEW s \in [1 .. n -> Seq(Nat)], NEW at \in [0 .. n -> Nat], at[0] = 0,
         \A i \in 1 .. n : at[i] = at[i - 1] + Len(s[i])
  PROVE  /\ Concat(s, n) \in Seq(Nat) /\ Len(Concat(s, n)) = at[n]
         /\ \A i \in 1 .. n : Holds(Concat(s, n), at[i - 1], s[i])
<1>1. PICK f \in [0 .. n -> Seq(Nat)] :
        f[0] = <<>> /\ (\A i \in 1 .. n : f[i] = f[i - 1] \o s[i]) /\ Concat(s, n) = f[n]
  BY ConcatUnfolds
<1> DEFINE S == {i \in 0 .. n : /\ Len(f[i]) = at[i]
                                /\ \A j \in 1 .. i : Holds(f[i], at[j - 1], s[j])}
<1>2. 0 \in S
  BY <1>1
<1>3. ASSUME NEW i \in 1 .. n, i - 1 \in S PROVE i \in S
  <2>1. PICK a \in Seq(Nat), b \in Seq(Nat), c \in Seq(Nat) :
          a = f[i - 1] /\ b = s[i] /\ c = f[i]
    <3>1. i - 1 \in 0 .. n /\ i \in 0 .. n
      OBVIOUS
    <3> QED BY <1>1, <3>1
  <2>2. Joins(c, a, b) /\ Len(a) = at[i - 1] /\ at[i - 1] \in Nat
    BY <1>1, <1>3, <2>1 DEF Joins
  <2>3. /\ Len(c) = at[i - 1] + Len(b) /\ Holds(c, at[i - 1], b)
        /\ \A p, part : part \in Seq(Nat) /\ Holds(a, p, part) => Holds(c, p, part)
    <3>1. PICK m \in Nat : m = at[i - 1]
      BY <2>2
    <3> QED BY <2>2, <3>1, HoldsBoth, SMTT(30)
  <2>4. Len(f[i]) = at[i]
    BY <2>1, <2>3
  <2>5. ASSUME NEW j \in 1 .. i PROVE Holds(f[i], at[j - 1], s[j])
    <3>1. CASE j = i
      BY <2>1, <2>3, <3>1
    <3>2. CASE j # i
      <4>1. j \in 1 .. i - 1 /\ j \in 1 .. n
        BY <3>2
      <4>2. Holds(f[i - 1], at[j - 1], s[j]) /\ s[j] \in Seq(Nat)
        BY <1>3, <4>1
      <4> QED BY <2>1, <2>3, <4>2
    <3> QED BY <3>1, <3>2
  <2> QED BY <1>3, <2>4, <2>5
<1> HIDE DEF S
<1>4. 0 .. n \subseteq S
  BY <1>2, <1>3, Reaches
<1> USE DEF S
<1>5. n \in S /\ f[n] \in Seq(Nat)
  BY <1>1, <1>4
<1> QED BY <1>1, <1>5

-----------------------------------------------------------------------------
(* The bytes of the files before a file.                                   *)

LEMMA ElementIs ==
  ASSUME NEW T, NEW s \in Seq(T)
  PROVE  Len(s) \in Nat /\ DOMAIN s = 1 .. Len(s) /\ \A i \in 1 .. Len(s) : s[i] \in T
OBVIOUS

LEMMA DirsAre ==
  /\ Len(Dirs) \in Nat \ {0} /\ DOMAIN Dirs = 1 .. Len(Dirs)
  /\ \A d \in 1 .. Len(Dirs) : Dirs[d].parent \in 1 .. Len(Dirs) /\ Dirs[d].name \in Nat
<1>1. /\ Dirs \in Seq([parent : Nat, name : Nat]) /\ Dirs # <<>>
      /\ \A d \in DOMAIN Dirs : Dirs[d].parent \in DOMAIN Dirs
  BY TreeAssumption
<1>2. PICK n \in Nat : n = Len(Dirs) /\ DOMAIN Dirs = 1 .. n
  BY <1>1
<1>3. n # 0
  BY <1>1, <1>2
<1>4. \A d \in 1 .. n : Dirs[d] \in [parent : Nat, name : Nat]
  <2> DEFINE T == [parent : Nat, name : Nat]
  <2>1. Dirs \in Seq(T)
    BY <1>1
  <2> HIDE DEF T
  <2>2. \A d \in 1 .. n : Dirs[d] \in T
    BY <1>2, <2>1, ElementIs
  <2> QED BY <2>2 DEF T
<1> QED BY <1>1, <1>2, <1>3, <1>4

LEMMA FilesAre ==
  /\ Len(Files) \in Nat /\ DOMAIN Files = 1 .. Len(Files)
  /\ \A f \in 1 .. Len(Files) :
       Files[f].parent \in 1 .. Len(Dirs) /\ Files[f].name \in Nat /\ Files[f].size \in Nat
<1>1. /\ Files \in Seq([parent : Nat, name : Nat, size : Nat])
      /\ \A f \in DOMAIN Files : Files[f].parent \in DOMAIN Dirs
  BY TreeAssumption
<1>2. PICK n \in Nat : n = Len(Files) /\ DOMAIN Files = 1 .. n
  BY <1>1
<1>3. \A f \in 1 .. n : Files[f] \in [parent : Nat, name : Nat, size : Nat]
  <2> DEFINE T == [parent : Nat, name : Nat, size : Nat]
  <2>1. Files \in Seq(T)
    BY <1>1
  <2> HIDE DEF T
  <2>2. \A f \in 1 .. n : Files[f] \in T
    BY <1>2, <2>1, ElementIs
  <2> QED BY <2>2 DEF T
<1> QED BY <1>1, <1>2, <1>3, DirsAre

LEMMA DataUnfolds ==
  \E f \in [0 .. Len(Files) -> Nat] :
    /\ f[0] = 0
    /\ \A i \in 1 .. Len(Files) : f[i] = f[i - 1] + Files[i].size
    /\ \A i \in 0 .. Len(Files) : DataBefore(i + 1) = f[i]
<1>1. PICK n \in Nat : n = Len(Files) /\ \A i \in 1 .. n : Files[i].size \in Nat
  BY FilesAre
<1> DEFINE step == [p \in Nat \X (1 .. n) |-> p[1] + Files[p[2]].size]
           Body(f) == [g \in 0 .. Len(Files) |-> IF g = 0 THEN 0 ELSE f[g - 1] + Files[g].size]
           sum == CHOOSE f : f = Body(f)
<1>2. step \in [Nat \X (1 .. n) -> Nat]
  <2>1. ASSUME NEW p \in Nat \X (1 .. n) PROVE p[1] + Files[p[2]].size \in Nat
    <3>1. p[1] \in Nat /\ Files[p[2]].size \in Nat
      BY <1>1
    <3> QED BY <3>1
  <2> QED BY <2>1
<1>3. \A v \in Nat, i \in 1 .. n : step[<<v, i>>] = v + Files[i].size
  OBVIOUS
<1> HIDE DEF step
<1>4. PICK f \in [0 .. n -> Nat] : IsFold(f, n, 0, step)
  BY <1>1, <1>2, FoldHasResult
<1>5. f = Body(f)
  <2>1. ASSUME NEW i \in 0 .. n, i # 0 PROVE step[<<f[i - 1], i>>] = f[i - 1] + Files[i].size
    <3>1. i \in 1 .. n /\ i - 1 \in 0 .. n
      BY <2>1
    <3>2. f[i - 1] \in Nat
      BY <3>1
    <3> QED BY <1>3, <3>1, <3>2
  <2> QED BY <1>1, <1>4, <2>1 DEF IsFold
<1>6. sum = Body(sum)
  <2> HIDE DEF Body
  <2> QED BY <1>5
<1>7. \A i \in 0 .. n : DataBefore(i + 1) = sum[i]
  <2> TAKE i \in 0 .. n
  <2>1. DataBefore(i + 1) = sum[(i + 1) - 1]
    BY DEF DataBefore
  <2>2. (i + 1) - 1 = i
    OBVIOUS
  <2> QED BY <2>1, <2>2
<1> HIDE DEF sum
<1>8. sum[0] = 0 /\ \A i \in 1 .. n : sum[i] = sum[i - 1] + Files[i].size
  <2>1. 0 \in 0 .. n /\ \A i \in 1 .. n : i \in 0 .. n /\ i # 0
    OBVIOUS
  <2> QED BY <1>1, <1>6, <2>1, Zenon
<1>9. sum \in [0 .. n -> Nat]
  <2> DEFINE S == {i \in 0 .. n : sum[i] \in Nat}
  <2>1. 0 \in S
    BY <1>8
  <2>2. ASSUME NEW i \in 1 .. n, i - 1 \in S PROVE i \in S
    <3>1. sum[i] = sum[i - 1] + Files[i].size
      BY <1>8, Zenon
    <3>2. sum[i] \in Nat /\ i \in 0 .. n
      BY <1>1, <2>2, <3>1
    <3> QED BY <3>2, Zenon
  <2> HIDE DEF S
  <2>3. 0 .. n \subseteq S
    BY <2>1, <2>2, Reaches
  <2> USE DEF S
  <2>4. \A i \in 0 .. n : sum[i] \in Nat
    BY <2>3
  <2>5. sum = [i \in 0 .. n |-> sum[i]]
    BY <1>1, <1>6 DEF Body
  <2> QED BY <2>4, <2>5
<1> QED BY <1>1, <1>7, <1>8, <1>9

\* What a file holds lies before what the next ones hold.
LEMMA DataGrows ==
  /\ DataBefore(Len(Files) + 1) \in Nat
  /\ \A f \in DOMAIN Files :
       /\ DataBefore(f) \in Nat /\ Files[f].size \in Nat
       /\ DataBefore(f) + Files[f].size <= DataBefore(Len(Files) + 1)
<1>1. PICK n \in Nat :
        n = Len(Files) /\ DOMAIN Files = 1 .. n /\ \A i \in 1 .. n : Files[i].size \in Nat
  BY FilesAre
<1>2. PICK sum \in [0 .. n -> Nat] :
        /\ sum[0] = 0
        /\ \A i \in 1 .. n : sum[i] = sum[i - 1] + Files[i].size
        /\ \A i \in 0 .. n : DataBefore(i + 1) = sum[i]
  BY <1>1, DataUnfolds
<1> DEFINE S == {i \in 0 .. n : \A j \in 0 .. i : sum[j] <= sum[i]}
<1>3. 0 \in S
  BY <1>2
<1>4. ASSUME NEW i \in 1 .. n, i - 1 \in S PROVE i \in S
  <2>1. PICK a \in Nat, b \in Nat : a = sum[i - 1] /\ b = sum[i] /\ a <= b
    <3>1. i - 1 \in 0 .. n /\ i \in 0 .. n
      OBVIOUS
    <3>2. sum[i] = sum[i - 1] + Files[i].size /\ sum[i - 1] \in Nat /\ Files[i].size \in Nat
      BY <1>1, <1>2, <3>1
    <3> QED BY <3>1, <3>2
  <2>2. ASSUME NEW j \in 0 .. i PROVE sum[j] <= sum[i]
    <3>1. CASE j = i
      BY <2>1, <3>1
    <3>2. CASE j # i
      <4>1. j \in 0 .. i - 1 /\ j \in 0 .. n
        BY <3>2
      <4>2. sum[j] <= a /\ sum[j] \in Nat
        BY <1>2, <1>4, <2>1, <4>1
      <4> QED BY <2>1, <4>2
    <3> QED BY <3>1, <3>2
  <2> QED BY <2>2
<1> HIDE DEF S
<1>5. 0 .. n \subseteq S
  BY <1>3, <1>4, Reaches
<1>6. \A i \in 0 .. n : sum[i] <= sum[n]
  BY <1>5 DEF S
<1>7. DataBefore(Len(Files) + 1) = sum[n] /\ sum[n] \in Nat
  BY <1>1, <1>2
<1>8. ASSUME NEW f \in 1 .. n
      PROVE  /\ DataBefore(f) \in Nat
             /\ DataBefore(f) + Files[f].size <= sum[n]
  <2>1. f - 1 \in 0 .. n /\ f \in 0 .. n /\ (f - 1) + 1 = f
    OBVIOUS
  <2>2. DataBefore(f) = sum[f - 1] /\ sum[f - 1] \in Nat
    BY <1>2, <2>1
  <2>3. sum[f] = sum[f - 1] + Files[f].size /\ sum[f] <= sum[n]
    BY <1>2, <1>6, <2>1
  <2> QED BY <2>2, <2>3
<1> QED BY <1>1, <1>7, <1>8

-----------------------------------------------------------------------------
(* The nodes of the tree and the links between them.                       *)

Nodes(t) == IF t = "dir" THEN 2 .. Len(Dirs) ELSE 1 .. Len(Files)
Node(t, x) == IF t = "dir" THEN Dirs[x] ELSE Files[x]
OffsetOf(t, x) == IF t = "dir" THEN DirOffset(x) ELSE FileOffset(x)
BucketOf(t, x) == IF t = "dir" THEN DirBucket(x) ELSE FileBucket(x)
Bucketed(t, b) == {x \in Nodes(t) : BucketOf(t, x) = b}
After(t, x) == {y \in Nodes(t) : y > x /\ BucketOf(t, y) = BucketOf(t, x)}
LeadsTo(t, link, S) ==
  IF S = {} THEN link = NoEntry
  ELSE \E z \in S : link = OffsetOf(t, z) /\ \A y \in S : z <= y

LEMMA LeastIs ==
  ASSUME NEW S \in SUBSET Nat, NEW otherwise
  PROVE  IF S = {} THEN Least(S, otherwise) = otherwise
         ELSE Least(S, otherwise) \in S /\ \A y \in S : Least(S, otherwise) <= y
<1>1. CASE S = {}
  BY <1>1 DEF Least
<1>2. CASE S # {}
  <2>1. \E x \in S : \A y \in S : x <= y
    BY <1>2, LeastMember
  <2>2. Least(S, otherwise) = CHOOSE x \in S : \A y \in S : x <= y
    BY <1>2 DEF Least
  <2> QED BY <1>2, <2>1, <2>2
<1> QED BY <1>1, <1>2

LEMMA OffsetsAre ==
  ASSUME NEW t, NEW x \in Nat \ {0}
  PROVE  /\ OffsetOf(t, x) \in Nat /\ OffsetOf(t, x) % 4 = 0
         /\ \A y \in Nat \ {0} : x < y => OffsetOf(t, x) < OffsetOf(t, y)
<1>1. CASE t = "dir"
  <2>1. \A y \in Nat \ {0} : OffsetOf(t, y) = IF y = 1 THEN 0 ELSE 24 + (y - 2) * 28
    BY <1>1 DEF OffsetOf, DirOffset, DirFixed, NameAlign
  <2> QED BY <2>1
<1>2. CASE t # "dir"
  <2>1. \A y \in Nat \ {0} : OffsetOf(t, y) = (y - 1) * 36
    BY <1>2 DEF OffsetOf, FileOffset, FileFixed, NameAlign
  <2> QED BY <2>1
<1> QED BY <1>1, <1>2

LEMMA NodesAre ==
  ASSUME NEW t, NEW x \in Nodes(t)
  PROVE  /\ x \in Nat \ {0} /\ Node(t, x).parent \in 1 .. Len(Dirs) /\ Node(t, x).name \in Nat
         /\ BucketOf(t, x) = Hash(DirOffset(Node(t, x).parent), Node(t, x).name) % Buckets
<1>1. CASE t = "dir"
  <2>1. x \in 1 .. Len(Dirs) /\ x \in Nat \ {0}
    BY <1>1, DirsAre DEF Nodes
  <2> QED BY <1>1, <2>1, DirsAre DEF Node, BucketOf, DirBucket
<1>2. CASE t # "dir"
  <2>1. x \in 1 .. Len(Files) /\ x \in Nat \ {0}
    BY <1>2, FilesAre DEF Nodes
  <2> QED BY <1>2, <2>1, FilesAre DEF Node, BucketOf, FileBucket
<1> QED BY <1>1, <1>2

\* The least offset of a set of nodes is the offset of its least node.
LEMMA LeastLeads ==
  ASSUME NEW t, NEW S \in SUBSET Nodes(t)
  PROVE  /\ LeadsTo(t, Least({OffsetOf(t, x) : x \in S}, NoEntry), S)
         /\ Least({OffsetOf(t, x) : x \in S}, NoEntry) \in Nat
<1> DEFINE offsets == {OffsetOf(t, x) : x \in S}
<1>1. S \in SUBSET Nat /\ \A x \in S : x \in Nat \ {0} /\ OffsetOf(t, x) \in Nat
  BY NodesAre, OffsetsAre
<1>2. offsets \in SUBSET Nat
  BY <1>1
<1>3. NoEntry \in Nat
  BY SMT DEF NoEntry
<1>4. CASE S = {}
  <2>1. offsets = {}
    BY <1>4
  <2> HIDE DEF offsets
  <2>2. Least(offsets, NoEntry) = NoEntry
    BY <1>2, <2>1, LeastIs
  <2> QED BY <1>3, <1>4, <2>2 DEF LeadsTo, offsets
<1>5. CASE S # {}
  <2>1. offsets # {}
    BY <1>5
  <2> HIDE DEF offsets
  <2>2. PICK l : l = Least(offsets, NoEntry) /\ l \in offsets /\ \A o \in offsets : l <= o
    BY <1>2, <2>1, LeastIs
  <2>3. PICK z \in S : l = OffsetOf(t, z)
    BY <2>2 DEF offsets
  <2>4. ASSUME NEW y \in S PROVE z <= y
    <3>1. OffsetOf(t, z) <= OffsetOf(t, y)
      BY <2>2, <2>3 DEF offsets
    <3>2. y \in Nat \ {0} /\ z \in Nat \ {0} /\ OffsetOf(t, z) \in Nat /\ OffsetOf(t, y) \in Nat
      BY <1>1
    <3>3. y < z => OffsetOf(t, y) < OffsetOf(t, z)
      BY <3>2, OffsetsAre
    <3> QED BY <3>1, <3>2, <3>3
  <2>5. l \in Nat
    BY <1>1, <2>3
  <2> QED BY <1>5, <2>2, <2>3, <2>4, <2>5 DEF LeadsTo, offsets
<1> QED BY <1>4, <1>5

LEMMA DirWordsAre ==
  ASSUME NEW d \in 1 .. Len(Dirs)
  PROVE  /\ DirWords(d) \in Seq(Nat) /\ Len(DirWords(d)) = IF d = 1 THEN 6 ELSE 7
         /\ DirWords(d)[6] = IF d = 1 THEN 0 ELSE 1
         /\ d # 1 => /\ DirWords(d)[1] = DirOffset(Dirs[d].parent)
                     /\ DirWords(d)[7] = Dirs[d].name
                     /\ LeadsTo("dir", DirWords(d)[5], After("dir", d))
<1>1. PICK parent \in Nat, name \in Nat, none \in Nat :
        parent = DirOffset(Dirs[d].parent) /\ name = Dirs[d].name /\ none = NoEntry
  <2>1. Dirs[d].parent \in Nat \ {0} /\ Dirs[d].name \in Nat
    BY DirsAre
  <2>2. DirOffset(Dirs[d].parent) \in Nat
    BY <2>1, OffsetsAre DEF OffsetOf
  <2>3. NoEntry \in Nat
    BY SMT DEF NoEntry
  <2> QED BY <2>1, <2>2, <2>3
<1>2. CASE d = 1
  <2>1. DirWords(d) = <<parent, none, none, none, none>> \o <<0>>
    BY <1>1, <1>2 DEF DirWords
  <2>2. PICK w : w = <<parent, none, none, none, none>> \o <<0>>
    OBVIOUS
  <2>3. w \in Seq(Nat) /\ Len(w) = 6 /\ w[6] = 0
    BY <2>2
  <2> QED BY <1>2, <2>1, <2>2, <2>3
<1>3. CASE d # 1
  <2> DEFINE later == {DirOffset(x) : x \in {x \in d + 1 .. Len(Dirs) : DirBucket(x) = DirBucket(d)}}
  <2>1. After("dir", d) = {x \in d + 1 .. Len(Dirs) : DirBucket(x) = DirBucket(d)}
    <3>1. d \in Nat /\ d >= 2 /\ Len(Dirs) \in Nat
      BY <1>3, DirsAre
    <3> QED BY <3>1 DEF After, Nodes, BucketOf
  <2>2. later = {OffsetOf("dir", x) : x \in After("dir", d)}
    BY <2>1 DEF OffsetOf
  <2>3. After("dir", d) \in SUBSET Nodes("dir")
    BY DEF After
  <2>4. PICK link \in Nat : link = Least(later, NoEntry) /\ LeadsTo("dir", link, After("dir", d))
    <3> HIDE DEF later
    <3> QED BY <2>2, <2>3, LeastLeads
  <2>5. DirWords(d) = <<parent, none, none, none, link>> \o <<1, name>>
    BY <1>1, <1>3, <2>4 DEF DirWords, NameBytes
  <2>6. PICK w : w = <<parent, none, none, none, link>> \o <<1, name>>
    OBVIOUS
  <2>7. /\ w \in Seq(Nat) /\ Len(w) = 7
        /\ w[1] = parent /\ w[5] = link /\ w[6] = 1 /\ w[7] = name
    BY <2>6
  <2> QED BY <1>1, <1>3, <2>4, <2>5, <2>6, <2>7
<1> QED BY <1>2, <1>3

LEMMA FileWordsAre ==
  ASSUME NEW f \in 1 .. Len(Files)
  PROVE  /\ FileWords(f) \in Seq(Nat) /\ Len(FileWords(f)) = 9
         /\ FileWords(f)[1] = DirOffset(Files[f].parent) /\ FileWords(f)[3] = DataBefore(f)
         /\ FileWords(f)[5] = Files[f].size /\ FileWords(f)[8] = 1
         /\ FileWords(f)[9] = Files[f].name
         /\ LeadsTo("file", FileWords(f)[7], After("file", f))
<1>1. PICK parent \in Nat, name \in Nat, none \in Nat, before \in Nat, size \in Nat :
        /\ parent = DirOffset(Files[f].parent) /\ name = Files[f].name /\ none = NoEntry
        /\ before = DataBefore(f) /\ size = Files[f].size
  <2>1. Files[f].parent \in Nat \ {0} /\ Files[f].name \in Nat /\ Files[f].size \in Nat
        /\ f \in DOMAIN Files
    BY DirsAre, FilesAre
  <2>2. DirOffset(Files[f].parent) \in Nat
    BY <2>1, OffsetsAre DEF OffsetOf
  <2>3. NoEntry \in Nat
    BY SMT DEF NoEntry
  <2>4. DataBefore(f) \in Nat
    BY <2>1, DataGrows
  <2> QED BY <2>1, <2>2, <2>3, <2>4
<1> DEFINE later == {FileOffset(x) : x \in {x \in f + 1 .. Len(Files) : FileBucket(x) = FileBucket(f)}}
<1>2. After("file", f) = {x \in f + 1 .. Len(Files) : FileBucket(x) = FileBucket(f)}
  <2>1. f \in Nat /\ f >= 1 /\ Len(Files) \in Nat
    BY FilesAre
  <2> QED BY <2>1 DEF After, Nodes, BucketOf
<1>3. later = {OffsetOf("file", x) : x \in After("file", f)}
  BY <1>2 DEF OffsetOf
<1>4. After("file", f) \in SUBSET Nodes("file")
  BY DEF After
<1>5. PICK link \in Nat : link = Least(later, NoEntry) /\ LeadsTo("file", link, After("file", f))
  <2> HIDE DEF later
  <2> QED BY <1>3, <1>4, LeastLeads
<1>6. PICK w : w = <<parent, none, before, 0, size, 0, link, 1, name>>
  OBVIOUS
<1>7. FileWords(f) = w
  BY <1>1, <1>5, <1>6 DEF FileWords, NameBytes
<1>8. /\ w \in Seq(Nat) /\ Len(w) = 9
      /\ w[1] = parent /\ w[3] = before /\ w[5] = size /\ w[7] = link /\ w[8] = 1 /\ w[9] = name
  BY <1>6
<1> QED BY <1>1, <1>5, <1>7, <1>8

\* The tables of the image as built.
TheDirs  == Concat([d \in DOMAIN Dirs |-> DirWords(d)], Len(Dirs))
TheFiles == Concat([f \in DOMAIN Files |-> FileWords(f)], Len(Files))

LEMMA DirTableIs ==
  /\ TheDirs \in Seq(Nat) /\ DirTableSize = 4 * Len(TheDirs)
  /\ \A d \in 1 .. Len(Dirs) :
       \E at \in Nat : DirOffset(d) = 4 * at /\ Holds(TheDirs, at, DirWords(d))
<1>1. PICK n \in Nat \ {0} : n = Len(Dirs) /\ DOMAIN Dirs = 1 .. n
  BY DirsAre
<1> DEFINE s == [d \in DOMAIN Dirs |-> DirWords(d)]
           at == [i \in 0 .. n |-> IF i = 0 THEN 0 ELSE 6 + (i - 1) * 7]
<1>2. s \in [1 .. n -> Seq(Nat)] /\ \A d \in 1 .. n : s[d] = DirWords(d)
  BY <1>1, DirWordsAre
<1>3. at \in [0 .. n -> Nat] /\ at[0] = 0
  BY <1>1
<1>4. ASSUME NEW i \in 1 .. n PROVE at[i] = at[i - 1] + Len(s[i])
  <2>1. Len(s[i]) = IF i = 1 THEN 6 ELSE 7
    BY <1>1, <1>2, DirWordsAre
  <2>2. at[i] = 6 + (i - 1) * 7 /\ at[i - 1] = IF i = 1 THEN 0 ELSE 6 + ((i - 1) - 1) * 7
    BY <1>1
  <2> HIDE DEF s, at
  <2> QED BY <2>1, <2>2
<1>5. \A d \in 0 .. n : DirOffset(d + 1) = 4 * at[d]
  <2> TAKE d \in 0 .. n
  <2>1. DirOffset(d + 1) = IF d = 0 THEN 0 ELSE 24 + ((d + 1) - 2) * 28
    BY DEF DirOffset, DirFixed, NameAlign
  <2>2. at[d] = IF d = 0 THEN 0 ELSE 6 + (d - 1) * 7
    OBVIOUS
  <2> HIDE DEF at
  <2> QED BY <1>1, <2>1, <2>2
<1> HIDE DEF s, at
<1>6. /\ Concat(s, n) \in Seq(Nat) /\ Len(Concat(s, n)) = at[n]
      /\ \A i \in 1 .. n : Holds(Concat(s, n), at[i - 1], s[i])
  BY <1>1, <1>2, <1>3, <1>4, ConcatHolds
<1>7. TheDirs = Concat(s, n)
  BY <1>1 DEF TheDirs, s
<1>8. DirTableSize = 4 * at[n]
  BY <1>1, <1>5 DEF DirTableSize
<1>9. ASSUME NEW d \in 1 .. n
      PROVE  \E a \in Nat : DirOffset(d) = 4 * a /\ Holds(TheDirs, a, DirWords(d))
  <2>1. d - 1 \in 0 .. n /\ (d - 1) + 1 = d
    OBVIOUS
  <2>2. at[d - 1] \in Nat /\ DirOffset(d) = 4 * at[d - 1]
    BY <1>3, <1>5, <2>1
  <2>3. Holds(TheDirs, at[d - 1], DirWords(d))
    BY <1>2, <1>6, <1>7
  <2> QED BY <2>2, <2>3
<1> QED BY <1>1, <1>6, <1>7, <1>8, <1>9

LEMMA FileTableIs ==
  /\ TheFiles \in Seq(Nat) /\ FileTableSize = 4 * Len(TheFiles)
  /\ \A f \in 1 .. Len(Files) :
       \E at \in Nat : FileOffset(f) = 4 * at /\ Holds(TheFiles, at, FileWords(f))
<1>1. PICK n \in Nat : n = Len(Files) /\ DOMAIN Files = 1 .. n
  BY FilesAre
<1> DEFINE s == [f \in DOMAIN Files |-> FileWords(f)]
           at == [i \in 0 .. n |-> 9 * i]
<1>2. s \in [1 .. n -> Seq(Nat)] /\ \A f \in 1 .. n : s[f] = FileWords(f)
  BY <1>1, FileWordsAre
<1>3. at \in [0 .. n -> Nat] /\ at[0] = 0
  BY <1>1
<1>4. ASSUME NEW i \in 1 .. n PROVE at[i] = at[i - 1] + Len(s[i])
  <2>1. Len(s[i]) = 9
    BY <1>1, <1>2, FileWordsAre
  <2>2. at[i] = 9 * i /\ at[i - 1] = 9 * (i - 1)
    BY <1>1
  <2> HIDE DEF s, at
  <2> QED BY <2>1, <2>2
<1>5. \A f \in 0 .. n : FileOffset(f + 1) = 4 * at[f]
  <2> TAKE f \in 0 .. n
  <2>1. FileOffset(f + 1) = ((f + 1) - 1) * 36
    BY DEF FileOffset, FileFixed, NameAlign
  <2>2. at[f] = 9 * f
    OBVIOUS
  <2> HIDE DEF at
  <2> QED BY <1>1, <2>1, <2>2
<1> HIDE DEF s, at
<1>6. /\ Concat(s, n) \in Seq(Nat) /\ Len(Concat(s, n)) = at[n]
      /\ \A i \in 1 .. n : Holds(Concat(s, n), at[i - 1], s[i])
  BY <1>1, <1>2, <1>3, <1>4, ConcatHolds
<1>7. TheFiles = Concat(s, n)
  BY <1>1 DEF TheFiles, s
<1>8. FileTableSize = 4 * at[n]
  BY <1>1, <1>5 DEF FileTableSize
<1>9. ASSUME NEW f \in 1 .. n
      PROVE  \E a \in Nat : FileOffset(f) = 4 * a /\ Holds(TheFiles, a, FileWords(f))
  <2>1. f - 1 \in 0 .. n /\ (f - 1) + 1 = f
    OBVIOUS
  <2>2. at[f - 1] \in Nat /\ FileOffset(f) = 4 * at[f - 1]
    BY <1>3, <1>5, <2>1
  <2>3. Holds(TheFiles, at[f - 1], FileWords(f))
    BY <1>2, <1>6, <1>7
  <2> QED BY <2>2, <2>3
<1> QED BY <1>1, <1>6, <1>7, <1>8, <1>9

TheHeads(t) == [b \in 1 .. Buckets |-> IF t = "dir" THEN DirHead(b - 1) ELSE FileHead(b - 1)]

LEMMA HeadsAre ==
  ASSUME NEW t
  PROVE  /\ TheHeads(t) \in Seq(Nat) /\ Len(TheHeads(t)) = Buckets
         /\ \A b \in 1 .. Buckets : LeadsTo(t, TheHeads(t)[b], Bucketed(t, b - 1))
<1>1. ASSUME NEW b \in 1 .. Buckets
      PROVE  TheHeads(t)[b] \in Nat /\ LeadsTo(t, TheHeads(t)[b], Bucketed(t, b - 1))
  <2>1. PICK c : c = b - 1
    OBVIOUS
  <2>2. Bucketed(t, c) \in SUBSET Nodes(t)
    BY DEF Bucketed
  <2>3. TheHeads(t)[b] = Least({OffsetOf(t, x) : x \in Bucketed(t, c)}, NoEntry)
    <3>1. CASE t = "dir"
      <4>1. TheHeads(t)[b] = DirHead(c)
        BY <2>1, <3>1 DEF TheHeads
      <4>2. {DirOffset(d) : d \in {x \in 2 .. Len(Dirs) : DirBucket(x) = c}}
              = {OffsetOf(t, x) : x \in Bucketed(t, c)}
        BY <3>1 DEF Bucketed, Nodes, BucketOf, OffsetOf
      <4> QED BY <4>1, <4>2 DEF DirHead
    <3>2. CASE t # "dir"
      <4>1. TheHeads(t)[b] = FileHead(c)
        BY <2>1, <3>2 DEF TheHeads
      <4>2. {FileOffset(f) : f \in {x \in DOMAIN Files : FileBucket(x) = c}}
              = {OffsetOf(t, x) : x \in Bucketed(t, c)}
        BY <3>2, FilesAre DEF Bucketed, Nodes, BucketOf, OffsetOf
      <4> QED BY <4>1, <4>2 DEF FileHead
    <3> QED BY <3>1, <3>2
  <2> QED BY <2>1, <2>2, <2>3, LeastLeads
<1>2. Buckets \in Nat
  BY HashAssumption
<1>3. TheHeads(t) = [b \in 1 .. Buckets |-> TheHeads(t)[b]]
  BY DEF TheHeads
<1>4. PICK h \in Seq(Nat) : h = TheHeads(t) /\ Len(h) = Buckets
  BY <1>1, <1>2, <1>3
<1> QED BY <1>1, <1>4

-----------------------------------------------------------------------------
(* The image as built.                                                     *)

DirHeadsAt  == 20
DirsAt      == 20 + Buckets
FileHeadsAt == 20 + Buckets + Len(TheDirs)
FilesAt     == 20 + Buckets + Len(TheDirs) + Buckets
TailAt      == 20 + Buckets + Len(TheDirs) + Buckets + Len(TheFiles)

HeaderWords ==
  <<80, 4 * DirHeadsAt, 4 * Buckets, 4 * DirsAt, 4 * Len(TheDirs), 4 * FileHeadsAt,
    4 * Buckets, 4 * FilesAt, 4 * Len(TheFiles), 4 * TailAt>>
TheHeader == Concat([i \in 1 .. 10 |-> <<HeaderWords[i], 0>>], 10)
TheTail == [i \in 1 .. (DataBefore(Len(Files) + 1) + 3) \div 4 |-> 0]

LEMMA PlacesAre ==
  /\ Buckets \in Nat \ {0} /\ Len(TheDirs) \in Nat /\ Len(TheFiles) \in Nat
  /\ DirHeadsAt \in Nat /\ DirsAt \in Nat /\ FileHeadsAt \in Nat /\ FilesAt \in Nat
  /\ TailAt \in Nat
<1>1. Buckets \in Nat \ {0} /\ Len(TheDirs) \in Nat /\ Len(TheFiles) \in Nat
  BY HashAssumption, DirTableIs, FileTableIs
<1> QED BY <1>1 DEF DirHeadsAt, DirsAt, FileHeadsAt, FilesAt, TailAt

LEMMA HeaderIs ==
  /\ TheHeader \in Seq(Nat) /\ Len(TheHeader) = 20
  /\ \A i \in 0 .. 9 : TheHeader[2 * i + 1] = HeaderWords[i + 1]
<1> DEFINE s == [i \in 1 .. 10 |-> <<HeaderWords[i], 0>>]
           at == [i \in 0 .. 10 |-> 2 * i]
<1>1. \A i \in 1 .. 10 : HeaderWords[i] \in Nat
  <2>1. PICK a \in Nat, b \in Nat, c \in Nat, d \in Nat, e \in Nat, f \in Nat, g \in Nat, h \in Nat :
          /\ a = 4 * DirHeadsAt /\ b = 4 * Buckets /\ c = 4 * DirsAt /\ d = 4 * Len(TheDirs)
          /\ e = 4 * FileHeadsAt /\ f = 4 * FilesAt /\ g = 4 * Len(TheFiles) /\ h = 4 * TailAt
    <3>1. /\ 4 * DirHeadsAt \in Nat /\ 4 * Buckets \in Nat /\ 4 * DirsAt \in Nat
          /\ 4 * Len(TheDirs) \in Nat /\ 4 * FileHeadsAt \in Nat /\ 4 * FilesAt \in Nat
          /\ 4 * Len(TheFiles) \in Nat /\ 4 * TailAt \in Nat
      BY PlacesAre
    <3> QED BY <3>1, Zenon
  <2>2. HeaderWords = <<80, a, b, c, d, e, b, f, g, h>>
    BY <2>1 DEF HeaderWords
  <2> QED BY <2>2
<1>2. s \in [1 .. 10 -> Seq(Nat)] /\ \A i \in 1 .. 10 : Len(s[i]) = 2 /\ s[i][1] = HeaderWords[i]
  <2>1. ASSUME NEW i \in 1 .. 10
        PROVE  <<HeaderWords[i], 0>> \in Seq(Nat) /\ Len(<<HeaderWords[i], 0>>) = 2
               /\ <<HeaderWords[i], 0>>[1] = HeaderWords[i]
    <3>1. PICK w \in Nat : w = HeaderWords[i]
      BY <1>1
    <3>2. <<w, 0>> \in Seq(Nat) /\ Len(<<w, 0>>) = 2 /\ <<w, 0>>[1] = w
      OBVIOUS
    <3> QED BY <3>1, <3>2
  <2> QED BY <2>1
<1>3. at \in [0 .. 10 -> Nat] /\ at[0] = 0
  OBVIOUS
<1>4. \A i \in 0 .. 10 : at[i] = 2 * i
  OBVIOUS
<1> HIDE DEF s, at
<1>5. \A i \in 1 .. 10 : at[i] = at[i - 1] + Len(s[i])
  <2> TAKE i \in 1 .. 10
  <2>1. i - 1 \in 0 .. 10 /\ i \in 0 .. 10 /\ 2 * i = 2 * (i - 1) + 2
    OBVIOUS
  <2>2. at[i] = 2 * i /\ at[i - 1] = 2 * (i - 1) /\ Len(s[i]) = 2
    BY <1>2, <1>4, <2>1
  <2> QED BY <2>1, <2>2
<1>6. /\ Concat(s, 10) \in Seq(Nat) /\ Len(Concat(s, 10)) = at[10]
      /\ \A i \in 1 .. 10 : Holds(Concat(s, 10), at[i - 1], s[i])
  BY <1>2, <1>3, <1>5, ConcatHolds
<1>7. TheHeader = Concat(s, 10)
  BY DEF TheHeader, s
<1>8. ASSUME NEW i \in 0 .. 9 PROVE TheHeader[2 * i + 1] = HeaderWords[i + 1]
  <2>1. i + 1 \in 1 .. 10 /\ i \in 0 .. 10 /\ (i + 1) - 1 = i
    OBVIOUS
  <2>2. Holds(TheHeader, at[i], s[i + 1]) /\ at[i] = 2 * i
    BY <1>4, <1>6, <1>7, <2>1
  <2>3. Len(s[i + 1]) = 2 /\ s[i + 1][1] = HeaderWords[i + 1]
    BY <1>2, <2>1
  <2>4. 1 \in 1 .. Len(s[i + 1])
    BY <2>3
  <2> QED BY <2>2, <2>3, <2>4 DEF Holds
<1>9. at[10] = 20
  BY <1>4
<1> QED BY <1>6, <1>7, <1>8, <1>9

LEMMA BuiltIs ==
  Built = ((((TheHeader \o TheHeads("dir")) \o TheDirs) \o TheHeads("file")) \o TheFiles) \o TheTail
<1>1. /\ HeaderSize = 80 /\ HashSize = 4 * Buckets /\ DirTableSize = 4 * Len(TheDirs)
      /\ FileTableSize = 4 * Len(TheFiles)
  BY DirTableIs, FileTableIs DEF HeaderSize, HashSize
<1>2. /\ HeaderSize + HashSize = 4 * DirsAt
      /\ HeaderSize + HashSize + DirTableSize = 4 * FileHeadsAt
      /\ HeaderSize + HashSize + DirTableSize + HashSize = 4 * FilesAt
      /\ HeaderSize + HashSize + DirTableSize + HashSize + FileTableSize = 4 * TailAt
      /\ HeaderSize = 4 * DirHeadsAt
  BY <1>1, PlacesAre DEF DirHeadsAt, DirsAt, FileHeadsAt, FilesAt, TailAt
<1>3. TheHeads("dir") = [b \in 1 .. Buckets |-> DirHead(b - 1)]
      /\ TheHeads("file") = [b \in 1 .. Buckets |-> FileHead(b - 1)]
  BY DEF TheHeads
<1>4. HeaderWords = <<HeaderSize, HeaderSize, HashSize, HeaderSize + HashSize, DirTableSize,
                      HeaderSize + HashSize + DirTableSize, HashSize,
                      HeaderSize + HashSize + DirTableSize + HashSize, FileTableSize,
                      HeaderSize + HashSize + DirTableSize + HashSize + FileTableSize>>
  BY <1>1, <1>2 DEF HeaderWords
<1> QED BY <1>3, <1>4, Zenon DEF Built, TheHeader, TheDirs, TheFiles, TheTail

LEMMA BuiltHolds ==
  /\ Built \in Seq(Nat) /\ Holds(Built, 0, TheHeader)
  /\ Holds(Built, DirHeadsAt, TheHeads("dir")) /\ Holds(Built, DirsAt, TheDirs)
  /\ Holds(Built, FileHeadsAt, TheHeads("file")) /\ Holds(Built, FilesAt, TheFiles)
  /\ 4 * Len(Built) >= 4 * TailAt + DataBefore(Len(Files) + 1)
<1>1. /\ TheHeader \in Seq(Nat) /\ TheHeads("dir") \in Seq(Nat) /\ TheDirs \in Seq(Nat)
      /\ TheHeads("file") \in Seq(Nat) /\ TheFiles \in Seq(Nat)
  BY HeaderIs, HeadsAre, DirTableIs, FileTableIs
<1>2. PICK bytes \in Nat : bytes = DataBefore(Len(Files) + 1)
  BY DataGrows
<1>3. PICK tail \in Nat : tail = (bytes + 3) \div 4 /\ 4 * tail >= bytes
  BY <1>2
<1>4. TheTail \in Seq(Nat) /\ Len(TheTail) = tail
  BY <1>2, <1>3 DEF TheTail
<1>5. PICK a : a = TheHeader \o TheHeads("dir")
  OBVIOUS
<1>6. PICK b : b = a \o TheDirs
  OBVIOUS
<1>7. PICK c : c = b \o TheHeads("file")
  OBVIOUS
<1>8. PICK d : d = c \o TheFiles
  OBVIOUS
<1>9. PICK e : e = d \o TheTail /\ e = Built
  BY <1>5, <1>6, <1>7, <1>8, BuiltIs
<1>10. Len(TheHeader) = 20 /\ Len(TheHeads("dir")) = Buckets /\ Len(TheHeads("file")) = Buckets
  BY HeaderIs, HeadsAre
<1>11. Holds(TheHeader, 0, TheHeader)
  BY <1>1, <1>10 DEF Holds
<1> USE PlacesAre
<1>12. /\ a \in Seq(Nat) /\ Len(a) = DirsAt
       /\ Holds(a, DirHeadsAt, TheHeads("dir")) /\ Holds(a, 0, TheHeader)
  <2>1. Joins(a, TheHeader, TheHeads("dir")) /\ Len(TheHeader) = DirHeadsAt
    BY <1>5, <1>10 DEF Joins, DirHeadsAt
  <2>2. PICK h \in Seq(Nat), k \in Seq(Nat), m \in Nat :
          h = TheHeader /\ k = TheHeads("dir") /\ m = DirHeadsAt
    BY <1>1
  <2>3. Joins(a, h, k) /\ m = Len(h)
    BY <2>1, <2>2
  <2>4. a \in Seq(Nat) /\ Len(a) = m + Len(k) /\ Holds(a, m, k)
        /\ \A at, part : part \in Seq(Nat) /\ Holds(h, at, part) => Holds(a, at, part)
    BY <2>3, HoldsBoth
  <2>5. m + Len(k) = DirsAt
    BY <1>10, <2>2 DEF DirHeadsAt, DirsAt
  <2> QED BY <1>11, <2>2, <2>4, <2>5
<1>13. /\ b \in Seq(Nat) /\ Len(b) = FileHeadsAt /\ Holds(b, DirsAt, TheDirs)
       /\ Holds(b, DirHeadsAt, TheHeads("dir")) /\ Holds(b, 0, TheHeader)
  <2>1. Joins(b, a, TheDirs)
    BY <1>6 DEF Joins
  <2>2. b \in Seq(Nat) /\ Len(b) = DirsAt + Len(TheDirs) /\ Holds(b, DirsAt, TheDirs)
        /\ \A at, part : part \in Seq(Nat) /\ Holds(a, at, part) => Holds(b, at, part)
    BY <1>1, <1>12, <2>1, HoldsBoth
  <2> QED BY <1>1, <1>12, <2>2 DEF DirsAt, FileHeadsAt
<1>14. /\ c \in Seq(Nat) /\ Len(c) = FilesAt /\ Holds(c, FileHeadsAt, TheHeads("file"))
       /\ Holds(c, DirsAt, TheDirs)
       /\ Holds(c, DirHeadsAt, TheHeads("dir")) /\ Holds(c, 0, TheHeader)
  <2>1. Joins(c, b, TheHeads("file"))
    BY <1>7 DEF Joins
  <2>2. c \in Seq(Nat) /\ Len(c) = FileHeadsAt + Buckets /\ Holds(c, FileHeadsAt, TheHeads("file"))
        /\ \A at, part : part \in Seq(Nat) /\ Holds(b, at, part) => Holds(c, at, part)
    BY <1>1, <1>10, <1>13, <2>1, HoldsBoth, SMTT(30)
  <2> QED BY <1>1, <1>13, <2>2 DEF FilesAt, FileHeadsAt
<1>15. /\ d \in Seq(Nat) /\ Len(d) = TailAt /\ Holds(d, FilesAt, TheFiles)
       /\ Holds(d, FileHeadsAt, TheHeads("file")) /\ Holds(d, DirsAt, TheDirs)
       /\ Holds(d, DirHeadsAt, TheHeads("dir")) /\ Holds(d, 0, TheHeader)
  <2>1. Joins(d, c, TheFiles)
    BY <1>8 DEF Joins
  <2>2. d \in Seq(Nat) /\ Len(d) = FilesAt + Len(TheFiles) /\ Holds(d, FilesAt, TheFiles)
        /\ \A at, part : part \in Seq(Nat) /\ Holds(c, at, part) => Holds(d, at, part)
    BY <1>1, <1>14, <2>1, HoldsBoth
  <2> QED BY <1>1, <1>14, <2>2 DEF FilesAt, TailAt
<1>16. /\ e \in Seq(Nat) /\ Len(e) = TailAt + tail /\ Holds(e, FilesAt, TheFiles)
       /\ Holds(e, FileHeadsAt, TheHeads("file")) /\ Holds(e, DirsAt, TheDirs)
       /\ Holds(e, DirHeadsAt, TheHeads("dir")) /\ Holds(e, 0, TheHeader)
  <2>1. Joins(e, d, TheTail)
    BY <1>9 DEF Joins
  <2>2. e \in Seq(Nat) /\ Len(e) = TailAt + tail
        /\ \A at, part : part \in Seq(Nat) /\ Holds(d, at, part) => Holds(e, at, part)
    <3>1. PICK t \in Seq(Nat), m \in Nat : t = TheTail /\ m = TailAt /\ Len(t) = tail
      BY <1>4
    <3>2. Joins(e, d, t) /\ m = Len(d) /\ d \in Seq(Nat)
      BY <1>15, <2>1, <3>1
    <3>3. e \in Seq(Nat) /\ Len(e) = m + Len(t)
          /\ \A at, part : part \in Seq(Nat) /\ Holds(d, at, part) => Holds(e, at, part)
      BY <3>2, HoldsBoth
    <3> QED BY <3>1, <3>3
  <2> QED BY <1>1, <1>15, <2>2
<1>17. 4 * Len(e) >= 4 * TailAt + bytes
  BY <1>3, <1>16
<1> QED BY <1>2, <1>9, <1>16, <1>17

\* What an opened reader of the image as built has loaded.
Faithful(r) ==
  /\ r.dirs = TheDirs /\ r.dirSize = 4 * Len(TheDirs) /\ r.dirHeads = TheHeads("dir")
  /\ r.files = TheFiles /\ r.fileSize = 4 * Len(TheFiles) /\ r.fileHeads = TheHeads("file")
  /\ r.data \in Nat /\ r.data + DataBefore(Len(Files) + 1) <= SourceSize

LEMMA LoadedIs ==
  ASSUME image \in Seq(Nat), NEW part \in Seq(Nat), NEW at \in Nat, Holds(image, at, part),
         NEW range, range.offset = 4 * at, range.size = 4 * Len(part)
  PROVE  Loaded(range) = part
<1>1. PICK n \in Nat, l \in Nat : n = Len(part) /\ l = Len(image) /\ at + n <= l
  BY DEF Holds
<1>2. \A i \in 1 .. n : image[at + i] = part[i]
  BY <1>1 DEF Holds
<1>3. (4 * at) \div 4 + 1 = at + 1 /\ (4 * at + 4 * n) \div 4 = at + n
  OBVIOUS
<1>4. Loaded(range) = SubSeq(image, at + 1, at + n)
  BY <1>1, <1>3 DEF Loaded
<1>5. SubSeq(image, at + 1, at + n) = [i \in 1 .. n |-> image[at + i]]
  BY <1>1
<1>6. part = [i \in 1 .. n |-> part[i]]
  BY <1>1
<1> QED BY <1>2, <1>4, <1>5, <1>6

LEMMA FieldsAre ==
  ASSUME image = Built, NEW i \in 0 .. 9
  PROVE  Field(i) = HeaderWords[i + 1]
<1>1. (8 * i) \div 4 + 1 = 2 * i + 1 /\ 2 * i + 1 \in 1 .. 20
  OBVIOUS
<1>2. Built[0 + (2 * i + 1)] = TheHeader[2 * i + 1]
  BY <1>1, BuiltHolds, HeaderIs DEF Holds
<1>3. 0 + (2 * i + 1) = 2 * i + 1
  OBVIOUS
<1> QED BY <1>1, <1>2, <1>3, HeaderIs DEF Field, WordAtOffset

LEMMA OpensFaithfully ==
  ASSUME image = Built, Open, fs'.status = "ok"
  PROVE  Faithful(fs')
<1> DEFINE range(i) == [offset |-> Field(i), size |-> Field(i + 1)]
           opened == OpenedFrom(range(1), range(3), range(5), range(7), Field(9))
<1> HIDE DEF opened
<1>1. fs' = opened
  BY DEF Open, Failed, opened
<1>2. /\ opened.dirs = Loaded(range(3)) /\ opened.dirSize = range(3).size
      /\ opened.dirHeads = Loaded(range(1)) /\ opened.files = Loaded(range(7))
      /\ opened.fileSize = range(7).size /\ opened.fileHeads = Loaded(range(5))
      /\ opened.data = Field(9)
  BY DEF opened, OpenedFrom
<1>3. /\ Field(1) = 4 * DirHeadsAt /\ Field(1 + 1) = 4 * Buckets
      /\ Field(3) = 4 * DirsAt /\ Field(3 + 1) = 4 * Len(TheDirs)
      /\ Field(5) = 4 * FileHeadsAt /\ Field(5 + 1) = 4 * Buckets
      /\ Field(7) = 4 * FilesAt /\ Field(7 + 1) = 4 * Len(TheFiles)
      /\ Field(9) = 4 * TailAt
  <2>1. \A i \in 0 .. 9 : Field(i) = HeaderWords[i + 1]
    BY FieldsAre
  <2> QED BY <2>1 DEF HeaderWords
<1>4. Len(TheHeads("dir")) = Buckets /\ Len(TheHeads("file")) = Buckets
  BY HeadsAre
<1>5. image \in Seq(Nat)
  BY BuiltHolds
<1>6. Loaded(range(1)) = TheHeads("dir")
  <2>1. range(1).offset = 4 * DirHeadsAt /\ range(1).size = 4 * Len(TheHeads("dir"))
    BY <1>3, <1>4
  <2> HIDE DEF range
  <2> QED BY <1>5, <2>1, BuiltHolds, HeadsAre, PlacesAre, LoadedIs
<1>7. Loaded(range(3)) = TheDirs
  <2>1. range(3).offset = 4 * DirsAt /\ range(3).size = 4 * Len(TheDirs)
    BY <1>3
  <2> HIDE DEF range
  <2> QED BY <1>5, <2>1, BuiltHolds, DirTableIs, PlacesAre, LoadedIs
<1>8. Loaded(range(5)) = TheHeads("file")
  <2>1. range(5).offset = 4 * FileHeadsAt /\ range(5).size = 4 * Len(TheHeads("file"))
    BY <1>3, <1>4
  <2> HIDE DEF range
  <2> QED BY <1>5, <2>1, BuiltHolds, HeadsAre, PlacesAre, LoadedIs
<1>9. Loaded(range(7)) = TheFiles
  <2>1. range(7).offset = 4 * FilesAt /\ range(7).size = 4 * Len(TheFiles)
    BY <1>3
  <2> HIDE DEF range
  <2> QED BY <1>5, <2>1, BuiltHolds, FileTableIs, PlacesAre, LoadedIs
<1>10. range(3).size = 4 * Len(TheDirs) /\ range(7).size = 4 * Len(TheFiles)
  BY <1>3
<1> HIDE DEF range
<1>11. opened.data \in Nat /\ opened.data + DataBefore(Len(Files) + 1) <= SourceSize
  <2>1. SourceSize = 4 * Len(Built)
    BY DEF SourceSize
  <2>2. opened.data = 4 * TailAt /\ 4 * TailAt \in Nat
    BY <1>2, <1>3, PlacesAre
  <2>3. 4 * TailAt + DataBefore(Len(Files) + 1) <= 4 * Len(Built)
    <3>1. PICK n \in Nat, bytes \in Nat : n = Len(Built) /\ bytes = DataBefore(Len(Files) + 1)
      BY BuiltHolds, DataGrows
    <3>2. 4 * n >= 4 * TailAt + bytes
      BY <3>1, BuiltHolds
    <3> QED BY <2>2, <3>1, <3>2
  <2> QED BY <2>1, <2>2, <2>3
<1>12. SourceSize' = SourceSize
  BY DEF Open, SourceSize
<1> QED BY <1>1, <1>2, <1>6, <1>7, <1>8, <1>9, <1>10, <1>11, <1>12 DEF Faithful

\* What decoding the entry of a node gives.
Decoded(t, x, e) ==
  /\ "phase" \notin DOMAIN e
  /\ {"status", "offset", "parent", "bytes", "name", "link"} \subseteq DOMAIN e
  /\ e.status = "ok" /\ e.offset = OffsetOf(t, x)
  /\ e.parent = DirOffset(Node(t, x).parent) /\ e.bytes = 1 /\ e.name = Node(t, x).name
  /\ LeadsTo(t, e.link, After(t, x))

LEMMA DirEntryIs ==
  ASSUME NEW r, Faithful(r), 4 * Len(TheDirs) < NoEntry, NEW d \in Nodes("dir")
  PROVE  Decoded("dir", d, DirEntry(r, DirOffset(d)))
<1>1. d \in 1 .. Len(Dirs) /\ d # 1
  BY DirsAre DEF Nodes
<1>2. PICK at \in Nat : DirOffset(d) = 4 * at /\ Holds(TheDirs, at, DirWords(d))
  BY <1>1, DirTableIs
<1>3. PICK n \in Nat : n = Len(TheDirs) /\ r.dirSize = 4 * n /\ r.dirs = TheDirs
  BY PlacesAre DEF Faithful
<1>4. Len(DirWords(d)) = 7 /\ at + 7 <= n
  BY <1>1, <1>2, <1>3, DirWordsAre DEF Holds
<1>5. TheDirs[at + 1] = DirWords(d)[1] /\ TheDirs[at + 5] = DirWords(d)[5]
      /\ TheDirs[at + 6] = DirWords(d)[6] /\ TheDirs[at + 7] = DirWords(d)[7]
  BY <1>2, <1>4 DEF Holds
<1> DEFINE word(field) == WordAtOffset(r.dirs, DirOffset(d) + field)
<1>6. /\ word(0) = DirOffset(Dirs[d].parent) /\ word(20) = 1 /\ word(24) = Dirs[d].name
      /\ LeadsTo("dir", word(16), After("dir", d))
  <2>1. /\ (4 * at + 0) \div 4 + 1 = at + 1 /\ (4 * at + 16) \div 4 + 1 = at + 5
        /\ (4 * at + 20) \div 4 + 1 = at + 6 /\ (4 * at + 24) \div 4 + 1 = at + 7
    OBVIOUS
  <2>2. /\ word(0) = DirWords(d)[1] /\ word(16) = DirWords(d)[5]
        /\ word(20) = DirWords(d)[6] /\ word(24) = DirWords(d)[7]
    BY <1>2, <1>3, <1>5, <2>1 DEF WordAtOffset
  <2> QED BY <1>1, <2>2, DirWordsAre
<1>7. EntryFits(DirOffset(d), DirFixed, r.dirSize)
  <2>1. 4 * at # NoEntry
    BY <1>3, <1>4, SMT DEF NoEntry
  <2> QED BY <1>2, <1>3, <1>4, <2>1 DEF EntryFits, DirFixed
<1>8. CheckEntry(DirOffset(d), DirFixed, r.dirSize, 1)
  <2>1. MaxNameBytes \in Nat \ {0} /\ (4 * at) % 4 = 0
    BY HashAssumption
  <2> QED BY <1>2, <1>3, <1>4, <2>1 DEF CheckEntry, DirFixed, NameAlign
<1>9. DirEntry(r, DirOffset(d)) =
        [status |-> "ok", offset |-> DirOffset(d), parent |-> word(0), bytes |-> 1,
         name |-> word(24), link |-> word(16)]
  <2>1. 1 # 0
    OBVIOUS
  <2> QED BY <1>6, <1>7, <1>8, <2>1, Zenon DEF DirEntry
<1>10. PICK e : e = DirEntry(r, DirOffset(d))
  OBVIOUS
<1>11. /\ "phase" \notin DOMAIN e
       /\ {"status", "offset", "parent", "bytes", "name", "link"} \subseteq DOMAIN e
       /\ e.status = "ok" /\ e.offset = DirOffset(d) /\ e.parent = word(0) /\ e.bytes = 1
       /\ e.name = word(24) /\ e.link = word(16)
  <2> HIDE DEF word
  <2> QED BY <1>9, <1>10
<1>12. Node("dir", d) = Dirs[d] /\ OffsetOf("dir", d) = DirOffset(d)
  BY DEF Node, OffsetOf
<1> HIDE DEF word
<1> QED BY <1>6, <1>10, <1>11, <1>12 DEF Decoded

LEMMA FileEntryIs ==
  ASSUME NEW r, Faithful(r), 4 * Len(TheFiles) < NoEntry, NEW f \in Nodes("file"),
         SourceSize \in Nat
  PROVE  Decoded("file", f, FileEntry(r, FileOffset(f)))
<1>1. f \in 1 .. Len(Files) /\ f \in DOMAIN Files
  BY FilesAre DEF Nodes
<1>2. PICK at \in Nat : FileOffset(f) = 4 * at /\ Holds(TheFiles, at, FileWords(f))
  BY <1>1, FileTableIs
<1>3. PICK n \in Nat : n = Len(TheFiles) /\ r.fileSize = 4 * n /\ r.files = TheFiles
  BY PlacesAre DEF Faithful
<1>4. Len(FileWords(f)) = 9 /\ at + 9 <= n
  BY <1>1, <1>2, <1>3, FileWordsAre DEF Holds
<1>5. /\ TheFiles[at + 1] = FileWords(f)[1] /\ TheFiles[at + 3] = FileWords(f)[3]
      /\ TheFiles[at + 5] = FileWords(f)[5] /\ TheFiles[at + 7] = FileWords(f)[7]
      /\ TheFiles[at + 8] = FileWords(f)[8] /\ TheFiles[at + 9] = FileWords(f)[9]
  BY <1>2, <1>4 DEF Holds
<1> DEFINE word(field) == WordAtOffset(r.files, FileOffset(f) + field)
<1>6. /\ word(0) = DirOffset(Files[f].parent) /\ word(28) = 1 /\ word(32) = Files[f].name
      /\ word(8) = DataBefore(f) /\ word(16) = Files[f].size
      /\ LeadsTo("file", word(24), After("file", f))
  <2>1. /\ (4 * at + 0) \div 4 + 1 = at + 1 /\ (4 * at + 8) \div 4 + 1 = at + 3
        /\ (4 * at + 16) \div 4 + 1 = at + 5 /\ (4 * at + 24) \div 4 + 1 = at + 7
        /\ (4 * at + 28) \div 4 + 1 = at + 8 /\ (4 * at + 32) \div 4 + 1 = at + 9
    OBVIOUS
  <2>2. /\ word(0) = FileWords(f)[1] /\ word(8) = FileWords(f)[3] /\ word(16) = FileWords(f)[5]
        /\ word(24) = FileWords(f)[7] /\ word(28) = FileWords(f)[8] /\ word(32) = FileWords(f)[9]
    BY <1>2, <1>3, <1>5, <2>1 DEF WordAtOffset
  <2> QED BY <1>1, <2>2, FileWordsAre
<1>7. EntryFits(FileOffset(f), FileFixed, r.fileSize)
  <2>1. 4 * at # NoEntry
    BY <1>3, <1>4, SMT DEF NoEntry
  <2> QED BY <1>2, <1>3, <1>4, <2>1 DEF EntryFits, FileFixed
<1>8. CheckEntry(FileOffset(f), FileFixed, r.fileSize, 1)
  <2>1. MaxNameBytes \in Nat \ {0} /\ (4 * at) % 4 = 0
    BY HashAssumption
  <2> QED BY <1>2, <1>3, <1>4, <2>1 DEF CheckEntry, FileFixed, NameAlign
<1>9. ~ (word(8) > SourceSize - r.data) /\ ~ (word(16) > (SourceSize - r.data) - word(8))
  <2>1. PICK before \in Nat, size \in Nat, bytes \in Nat :
          /\ before = DataBefore(f) /\ size = Files[f].size
          /\ bytes = DataBefore(Len(Files) + 1) /\ before + size <= bytes
    BY <1>1, DataGrows
  <2>2. PICK data \in Nat, source \in Nat :
          data = r.data /\ source = SourceSize /\ data + bytes <= source
    BY <2>1 DEF Faithful
  <2>3. ~ (before > source - data) /\ ~ (size > (source - data) - before)
    BY <2>1, <2>2, SMTT(30)
  <2> QED BY <1>6, <2>1, <2>2, <2>3
<1>10. FileEntry(r, FileOffset(f)) =
         [status |-> "ok", offset |-> FileOffset(f), parent |-> word(0), bytes |-> 1,
          name |-> word(32), link |-> word(24), data |-> r.data + word(8), size |-> word(16)]
  <2>1. 1 # 0
    OBVIOUS
  <2> QED BY <1>6, <1>7, <1>8, <1>9, <2>1, Zenon DEF FileEntry
<1>11. PICK e : e = FileEntry(r, FileOffset(f))
  OBVIOUS
<1>12. /\ "phase" \notin DOMAIN e
       /\ {"status", "offset", "parent", "bytes", "name", "link"} \subseteq DOMAIN e
       /\ e.status = "ok" /\ e.offset = FileOffset(f) /\ e.parent = word(0) /\ e.bytes = 1
       /\ e.name = word(32) /\ e.link = word(24)
  <2> HIDE DEF word
  <2> QED BY <1>10, <1>11
<1>13. Node("file", f) = Files[f] /\ OffsetOf("file", f) = FileOffset(f)
  BY DEF Node, OffsetOf
<1> HIDE DEF word
<1> QED BY <1>6, <1>11, <1>12, <1>13 DEF Decoded

LEMMA RootIs ==
  ASSUME NEW r, Faithful(r), 4 * Len(TheDirs) < NoEntry
  PROVE  LET e == DirEntry(r, RootOffset) IN
         /\ "phase" \notin DOMAIN e /\ {"status", "offset"} \subseteq DOMAIN e
         /\ e.status = "ok" /\ e.offset = DirOffset(1)
<1>1. 1 \in 1 .. Len(Dirs)
  BY DirsAre
<1>2. PICK at \in Nat : DirOffset(1) = 4 * at /\ Holds(TheDirs, at, DirWords(1))
  BY <1>1, DirTableIs
<1>3. at = 0 /\ DirOffset(1) = 0
  BY <1>2 DEF DirOffset
<1>4. PICK n \in Nat : n = Len(TheDirs) /\ r.dirSize = 4 * n /\ r.dirs = TheDirs
  BY PlacesAre DEF Faithful
<1>5. Len(DirWords(1)) = 6 /\ DirWords(1)[6] = 0
  BY <1>1, DirWordsAre
<1>6. 6 <= n /\ TheDirs[6] = 0
  <2>1. at + 6 <= n /\ TheDirs[at + 6] = 0
    BY <1>2, <1>4, <1>5 DEF Holds
  <2> QED BY <1>3, <2>1
<1> DEFINE word(field) == WordAtOffset(r.dirs, RootOffset + field)
<1>7. word(20) = 0
  <2>1. (0 + 20) \div 4 + 1 = 6
    OBVIOUS
  <2> QED BY <1>4, <1>6, <2>1 DEF WordAtOffset, RootOffset
<1>8. EntryFits(RootOffset, DirFixed, r.dirSize)
  <2>1. 0 # NoEntry
    BY SMT DEF NoEntry
  <2> QED BY <1>4, <1>6, <2>1 DEF EntryFits, DirFixed, RootOffset
<1>9. CheckEntry(RootOffset, DirFixed, r.dirSize, 0)
  <2>1. MaxNameBytes \in Nat \ {0} /\ 0 % 4 = 0
    BY HashAssumption
  <2> QED BY <1>4, <1>6, <2>1 DEF CheckEntry, DirFixed, NameAlign, RootOffset
<1>10. DirEntry(r, RootOffset) =
         [status |-> "ok", offset |-> RootOffset, parent |-> word(0), bytes |-> 0,
          name |-> NoEntry, link |-> word(16)]
  BY <1>7, <1>8, <1>9, Zenon DEF DirEntry
<1>11. PICK e : e = DirEntry(r, RootOffset)
  OBVIOUS
<1>12. /\ "phase" \notin DOMAIN e /\ {"status", "offset"} \subseteq DOMAIN e
       /\ e.status = "ok" /\ e.offset = RootOffset
  <2> HIDE DEF word
  <2> QED BY <1>10, <1>11
<1> QED BY <1>3, <1>11, <1>12 DEF RootOffset

-----------------------------------------------------------------------------
(* The names of a path.                                                    *)

LEMMA ComponentsUnfold ==
  ASSUME NEW path \in Seq(Nat)
  PROVE  \E f \in [0 .. Len(path) -> Seq(Nat)] :
           /\ f[0] = <<>> /\ Components(path) = f[Len(path)]
           /\ \A i \in 1 .. Len(path) :
                f[i] = IF path[i] = Sep THEN f[i - 1] ELSE Append(f[i - 1], path[i])
<1>1. PICK n \in Nat : n = Len(path) /\ \A i \in 1 .. n : path[i] \in Nat
  OBVIOUS
<1> DEFINE step == [p \in Seq(Nat) \X (1 .. n) |->
                      IF path[p[2]] = Sep THEN p[1] ELSE Append(p[1], path[p[2]])]
           Body(f) == [i \in 0 .. Len(path) |->
                         IF i = 0 THEN <<>>
                         ELSE IF path[i] = Sep THEN f[i - 1] ELSE Append(f[i - 1], path[i])]
           upto == CHOOSE f : f = Body(f)
<1>2. step \in [Seq(Nat) \X (1 .. n) -> Seq(Nat)] /\ <<>> \in Seq(Nat)
  <2>1. ASSUME NEW p \in Seq(Nat) \X (1 .. n)
        PROVE  (IF path[p[2]] = Sep THEN p[1] ELSE Append(p[1], path[p[2]])) \in Seq(Nat)
    <3>1. p[1] \in Seq(Nat) /\ path[p[2]] \in Nat
      BY <1>1
    <3> QED BY <3>1
  <2> QED BY <2>1
<1>3. \A v \in Seq(Nat), i \in 1 .. n :
        step[<<v, i>>] = IF path[i] = Sep THEN v ELSE Append(v, path[i])
  OBVIOUS
<1> HIDE DEF step
<1>4. PICK f \in [0 .. n -> Seq(Nat)] : IsFold(f, n, <<>>, step)
  BY <1>1, <1>2, FoldHasResult
<1>5. f = Body(f)
  <2>1. ASSUME NEW i \in 0 .. n, i # 0
        PROVE  step[<<f[i - 1], i>>] = IF path[i] = Sep THEN f[i - 1] ELSE Append(f[i - 1], path[i])
    <3>1. i \in 1 .. n /\ i - 1 \in 0 .. n
      BY <2>1
    <3>2. f[i - 1] \in Seq(Nat)
      BY <3>1
    <3> QED BY <1>3, <3>1, <3>2
  <2> QED BY <1>1, <1>4, <2>1 DEF IsFold
<1>6. upto = Body(upto)
  <2> HIDE DEF Body
  <2> QED BY <1>5
<1>7. Components(path) = upto[n]
  BY <1>1 DEF Components
<1> HIDE DEF upto
<1>8. /\ upto[0] = <<>>
      /\ \A i \in 1 .. n :
           upto[i] = IF path[i] = Sep THEN upto[i - 1] ELSE Append(upto[i - 1], path[i])
  <2>1. 0 \in 0 .. n /\ \A i \in 1 .. n : i \in 0 .. n /\ i # 0
    OBVIOUS
  <2> QED BY <1>1, <1>6, <2>1, Zenon
<1>9. upto \in [0 .. n -> Seq(Nat)]
  <2> DEFINE S == {i \in 0 .. n : upto[i] \in Seq(Nat)}
  <2>1. 0 \in S
    <3>1. upto[0] \in Seq(Nat) /\ 0 \in 0 .. n
      BY <1>8
    <3> QED BY <3>1, Zenon
  <2>2. ASSUME NEW i \in 1 .. n, i - 1 \in S PROVE i \in S
    <3>1. upto[i] = IF path[i] = Sep THEN upto[i - 1] ELSE Append(upto[i - 1], path[i])
      BY <1>8, Zenon
    <3>2. upto[i] \in Seq(Nat) /\ i \in 0 .. n
      <4>1. upto[i - 1] \in Seq(Nat) /\ path[i] \in Nat
        BY <1>1, <2>2
      <4> QED BY <3>1, <4>1
    <3> QED BY <3>2, Zenon
  <2> HIDE DEF S
  <2>3. 0 .. n \subseteq S
    BY <2>1, <2>2, Reaches
  <2> USE DEF S
  <2>4. \A i \in 0 .. n : upto[i] \in Seq(Nat)
    BY <2>3
  <2>5. upto = [i \in 0 .. n |-> upto[i]]
    BY <1>1, <1>6 DEF Body
  <2> QED BY <2>4, <2>5
<1> QED BY <1>1, <1>7, <1>8, <1>9

\* In a path without empty components separators and names alternate.
LEMMA PathAlternates ==
  ASSUME NEW path \in Paths, ~ HasEmptyComponent(path)
  PROVE  /\ path \in Seq(Nat) /\ Len(path) \in Nat /\ PathStart(path) \in {1, 2}
         /\ PathStart(path) <= Len(path) + 1
         /\ \A i \in 1 .. Len(path) : path[i] = Sep <=> (i + PathStart(path)) % 2 = 1
<1>1. path \in Seq(Nat)
  BY HashAssumption
<1>2. PICK n \in Nat, s \in {1, 2} : n = Len(path) /\ s = PathStart(path) /\ s <= n + 1
  BY <1>1 DEF PathStart
<1>3. ASSUME NEW i \in 1 .. n, i # n PROVE path[i] = Sep <=> path[i + 1] # Sep
  <2>1. i \in 1 .. Len(path) - 1
    BY <1>2, <1>3
  <2>2. path[i] = Sep \/ path[i + 1] = Sep
    BY <2>1, HashAssumption
  <2>3. ~ (path[i] = Sep /\ path[i + 1] = Sep)
    BY <2>1 DEF HasEmptyComponent
  <2> QED BY <2>2, <2>3
<1>4. n # 0 => (path[1] = Sep <=> s = 2)
  BY <1>1, <1>2 DEF PathStart
<1> DEFINE S == {i \in 0 .. n : i # 0 => (path[i] = Sep <=> (i + s) % 2 = 1)}
<1>5. 0 \in S
  OBVIOUS
<1>6. ASSUME NEW i \in 1 .. n, i - 1 \in S PROVE i \in S
  <2>1. CASE i = 1
    <3>1. (1 + s) % 2 = 1 <=> s = 2
      BY <1>2
    <3> QED BY <1>4, <2>1, <3>1
  <2>2. CASE i # 1
    <3>1. PICK j \in 1 .. n : j = i - 1 /\ j # n /\ i = j + 1
      BY <2>2
    <3>2. path[j] = Sep <=> (j + s) % 2 = 1
      BY <1>6, <3>1
    <3>3. path[j] = Sep <=> path[i] # Sep
      BY <1>3, <3>1
    <3>4. (i + s) % 2 = 1 <=> ~ ((j + s) % 2 = 1)
      <4>1. PICK a \in Nat : a = j + s
        BY <1>2
      <4>2. (a + 1) % 2 = 1 <=> ~ (a % 2 = 1)
        OBVIOUS
      <4>3. i + s = a + 1
        BY <1>2, <3>1, <4>1
      <4> QED BY <4>1, <4>2, <4>3
    <3>5. path[i] = Sep <=> (i + s) % 2 = 1
      BY <3>2, <3>3, <3>4
    <3> QED BY <3>5
  <2> QED BY <2>1, <2>2
<1> HIDE DEF S
<1>7. 0 .. n \subseteq S
  BY <1>5, <1>6, Reaches
<1>8. ASSUME NEW i \in 1 .. n PROVE path[i] = Sep <=> (i + s) % 2 = 1
  <2>1. i \in S /\ i # 0
    BY <1>7
  <2> QED BY <2>1 DEF S
<1> QED BY <1>1, <1>2, <1>8

LEMMA AppendIs ==
  ASSUME NEW g \in Seq(Nat), NEW x \in Nat, NEW l \in Nat, l = Len(g)
  PROVE  LET h == Append(g, x) IN
         h \in Seq(Nat) /\ Len(h) = l + 1 /\ h[l + 1] = x /\ \A k \in 1 .. l : h[k] = g[k]
OBVIOUS

LEMMA HalfOdd ==
  ASSUME NEW i \in Nat, NEW s \in {1, 2}, (i + s) % 2 = 1
  PROVE  \E m \in Nat : i + 2 - s = 2 * m + 1 /\ (i + 2 - s) \div 2 = m
                        /\ (i > 0 => (i - 1 + 2 - s) \div 2 = m)
<1>1. PICK m \in Nat : i + 2 - s = 2 * m + 1
  <2>1. CASE s = 1
    BY <2>1
  <2>2. CASE s = 2
    BY <2>2
  <2> QED BY <2>1, <2>2
<1>2. (2 * m + 1) \div 2 = m /\ (2 * m) \div 2 = m
  OBVIOUS
<1>3. i - 1 + 2 - s = 2 * m
  BY <1>1
<1> QED BY <1>1, <1>2, <1>3

LEMMA HalfEven ==
  ASSUME NEW i \in Nat, NEW s \in {1, 2}, (i + s) % 2 # 1
  PROVE  \E m \in Nat : i + 2 - s = 2 * m /\ (i + 2 - s) \div 2 = m
                        /\ (i > 0 => m > 0 /\ (i - 1 + 2 - s) \div 2 = m - 1)
<1>1. PICK m \in Nat : i + 2 - s = 2 * m
  <2>1. CASE s = 1
    BY <2>1
  <2>2. CASE s = 2
    BY <2>2
  <2> QED BY <2>1, <2>2
<1>2. (2 * m) \div 2 = m /\ (m > 0 => (2 * m - 1) \div 2 = m - 1)
  OBVIOUS
<1>3. i - 1 + 2 - s = 2 * m - 1 /\ (i > 0 => m > 0)
  BY <1>1
<1> QED BY <1>1, <1>2, <1>3

\* The names are what stands at every other place of the path.
LEMMA ComponentsAre ==
  ASSUME NEW path \in Paths, ~ HasEmptyComponent(path)
  PROVE  LET names == Components(path)
             start == PathStart(path)
         IN /\ names \in Seq(Nat) /\ start \in {1, 2} /\ Len(path) \in Nat
            /\ \A k \in 1 .. Len(names) :
                 LET at == start + 2 * (k - 1) IN
                 at \in 1 .. Len(path) /\ names[k] = path[at] /\ names[k] # Sep
            /\ IF Len(names) = 0 THEN PathStop(path) < start
               ELSE /\ PathStop(path) = start + 2 * (Len(names) - 1)
                    /\ Trailing(path) <=> path[Len(path)] = Sep
<1>1. PICK n \in Nat, s \in {1, 2} :
        /\ n = Len(path) /\ s = PathStart(path) /\ path \in Seq(Nat)
        /\ \A i \in 1 .. n : path[i] = Sep <=> (i + s) % 2 = 1
  BY PathAlternates
<1>2. PICK f \in [0 .. n -> Seq(Nat)] :
        /\ f[0] = <<>> /\ Components(path) = f[n]
        /\ \A i \in 1 .. n :
             f[i] = IF path[i] = Sep THEN f[i - 1] ELSE Append(f[i - 1], path[i])
  BY <1>1, ComponentsUnfold
<1> DEFINE S == {i \in 0 .. n : /\ Len(f[i]) = (i + 2 - s) \div 2
                                /\ \A k \in 1 .. Len(f[i]) : f[i][k] = path[s + 2 * (k - 1)]}
<1>3. 0 \in S
  <2>1. (0 + 2 - s) \div 2 = 0
    OBVIOUS
  <2> QED BY <1>2, <2>1
<1>4. ASSUME NEW i \in 1 .. n, i - 1 \in S PROVE i \in S
  <2>1. PICK g \in Seq(Nat), h \in Seq(Nat) : g = f[i - 1] /\ h = f[i]
    <3>1. i - 1 \in 0 .. n /\ i \in 0 .. n
      OBVIOUS
    <3> QED BY <3>1
  <2>2. /\ Len(g) = (i - 1 + 2 - s) \div 2
        /\ \A k \in 1 .. Len(g) : g[k] = path[s + 2 * (k - 1)]
    BY <1>4, <2>1
  <2>3. i \in Nat /\ i > 0
    OBVIOUS
  <2>4. CASE path[i] = Sep
    <3>1. h = g
      BY <1>2, <2>1, <2>4
    <3>2. (i + s) % 2 = 1
      BY <1>1, <2>4
    <3>3. (i - 1 + 2 - s) \div 2 = (i + 2 - s) \div 2
      BY <2>3, <3>2, HalfOdd, ZenonT(40)
    <3>4. /\ Len(h) = (i + 2 - s) \div 2
          /\ \A k \in 1 .. Len(h) : h[k] = path[s + 2 * (k - 1)]
      BY <2>2, <3>1, <3>3
    <3>5. /\ Len(f[i]) = (i + 2 - s) \div 2 /\ i \in 0 .. n
          /\ \A k \in 1 .. Len(f[i]) : f[i][k] = path[s + 2 * (k - 1)]
      BY <2>1, <3>4
    <3> QED BY <3>5, Zenon
  <2>5. CASE path[i] # Sep
    <3>1. h = Append(g, path[i])
      BY <1>2, <2>1, <2>5
    <3>2. (i + s) % 2 # 1
      BY <1>1, <2>5
    <3>3. PICK m \in Nat : /\ i + 2 - s = 2 * m /\ (i + 2 - s) \div 2 = m
                           /\ m > 0 /\ (i - 1 + 2 - s) \div 2 = m - 1
      BY <2>3, <3>2, HalfEven
    <3>4. Len(g) = m - 1
      BY <2>2, <3>3
    <3>5. Len(h) = m /\ h[m] = path[i] /\ \A k \in 1 .. m - 1 : h[k] = g[k]
      <4>1. PICK l \in Nat, x \in Nat : l = m - 1 /\ x = path[i]
        <5>1. path[i] \in Nat
          BY <1>1, ElementIs
        <5>2. m - 1 \in Nat
          BY <3>3
        <5> QED BY <5>1, <5>2, Zenon
      <4>2. h = Append(g, x) /\ Len(g) = l
        BY <3>1, <3>4, <4>1
      <4>3. Len(h) = l + 1 /\ h[l + 1] = x /\ \A k \in 1 .. l : h[k] = g[k]
        BY <4>2, AppendIs
      <4>4. l + 1 = m
        BY <3>3, <4>1
      <4> QED BY <4>1, <4>3, <4>4
    <3>6. i = s + 2 * (m - 1)
      BY <3>3
    <3>7. ASSUME NEW k \in 1 .. m PROVE h[k] = path[s + 2 * (k - 1)]
      <4>1. CASE k = m
        BY <3>5, <3>6, <4>1
      <4>2. CASE k # m
        <5>1. k \in 1 .. m - 1
          BY <4>2
        <5> QED BY <2>2, <3>4, <3>5, <5>1
      <4> QED BY <4>1, <4>2
    <3>8. /\ Len(f[i]) = (i + 2 - s) \div 2 /\ i \in 0 .. n
          /\ \A k \in 1 .. Len(f[i]) : f[i][k] = path[s + 2 * (k - 1)]
      BY <2>1, <3>3, <3>5, <3>7
    <3> QED BY <3>8, Zenon
  <2> QED BY <2>4, <2>5
<1> HIDE DEF S
<1>5. 0 .. n \subseteq S
  BY <1>3, <1>4, Reaches
<1>6. PICK names \in Seq(Nat) : names = f[n]
  BY <1>2
<1>7. PICK m \in Nat : m = Len(names)
  OBVIOUS
<1>8. m = (n + 2 - s) \div 2 /\ \A k \in 1 .. m : names[k] = path[s + 2 * (k - 1)]
  <2>1. n \in S
    BY <1>5
  <2> QED BY <1>6, <1>7, <2>1 DEF S
<1>9. IF (n + s) % 2 = 1 THEN n + 2 - s = 2 * m + 1 ELSE n + 2 - s = 2 * m
  <2>1. CASE (n + s) % 2 = 1
    <3>1. PICK l \in Nat : n + 2 - s = 2 * l + 1 /\ (n + 2 - s) \div 2 = l
      BY <2>1, HalfOdd
    <3> QED BY <1>8, <2>1, <3>1
  <2>2. CASE (n + s) % 2 # 1
    <3>1. PICK l \in Nat : n + 2 - s = 2 * l /\ (n + 2 - s) \div 2 = l
      BY <2>2, HalfEven
    <3> QED BY <1>8, <2>2, <3>1
  <2> QED BY <2>1, <2>2
<1>10. ASSUME NEW k \in 1 .. m
       PROVE  /\ s + 2 * (k - 1) \in 1 .. n
              /\ names[k] = path[s + 2 * (k - 1)] /\ names[k] # Sep
  <2>1. PICK at \in 1 .. n : at = s + 2 * (k - 1)
    BY <1>9
  <2>2. (at + s) % 2 # 1
    <3>1. PICK a \in Nat : a = s + (k - 1)
      OBVIOUS
    <3>2. at + s = 2 * a
      BY <2>1, <3>1
    <3>3. (2 * a) % 2 # 1
      OBVIOUS
    <3> QED BY <3>2, <3>3
  <2>3. path[at] # Sep
    BY <1>1, <2>2
  <2>4. names[k] = path[at]
    BY <1>8, <2>1
  <2> QED BY <2>1, <2>3, <2>4
<1>11. CASE m = 0
  <2>1. n < s
    BY <1>9, <1>11
  <2>2. PathStop(path) <= n
    BY <1>1 DEF PathStop
  <2>3. PathStop(path) < s
    <3>1. PathStop(path) \in {n - 1, n}
      BY <1>1 DEF PathStop
    <3> QED BY <2>1, <3>1
  <2> QED BY <1>1, <1>2, <1>6, <1>7, <1>10, <1>11, <2>3
<1>12. CASE m # 0
  <2>1. n >= s /\ n \in 1 .. n
    BY <1>9, <1>12
  <2>2. Trailing(path) <=> path[n] = Sep
    BY <1>1, <2>1 DEF Trailing
  <2>3. path[n] = Sep <=> (n + s) % 2 = 1
    BY <1>1, <2>1
  <2>4. PathStop(path) = s + 2 * (m - 1)
    <3>1. PathStop(path) = IF (n + s) % 2 = 1 THEN n - 1 ELSE n
      BY <1>1, <2>2, <2>3 DEF PathStop
    <3> QED BY <1>9, <3>1
  <2> QED BY <1>1, <1>2, <1>6, <1>7, <1>10, <1>12, <2>2, <2>4
<1> QED BY <1>11, <1>12

-----------------------------------------------------------------------------
(* The tree's own answer.                                                  *)

\* The nodes of one parent and one name.
Namesakes(t, parent, name) ==
  {x \in Nodes(t) : Node(t, x).parent = parent /\ Node(t, x).name = name}

LEMMA DirAtUnfolds ==
  ASSUME NEW names \in Seq(Nat)
  PROVE  /\ DirAt(names, 0) = 1
         /\ \A k \in 1 .. Len(names) :
              DirAt(names, k) = Least(Namesakes("dir", DirAt(names, k - 1), names[k]), 0)
         /\ \A k \in 0 .. Len(names) : DirAt(names, k) \in 0 .. Len(Dirs)
<1>1. PICK n \in Nat, m \in Nat \ {0} : n = Len(names) /\ m = Len(Dirs)
  <2>1. Len(names) \in Nat
    OBVIOUS
  <2> QED BY <2>1, DirsAre, Zenon
<1> DEFINE Of(p, k) == {d \in 2 .. Len(Dirs) : Dirs[d].parent = p /\ Dirs[d].name = names[k]}
           step == [p \in (0 .. m) \X (1 .. n) |-> Least(Of(p[1], p[2]), 0)]
           Body(f) == [k \in 0 .. Len(names) |->
                         IF k = 0 THEN 1
                         ELSE Least({d \in 2 .. Len(Dirs) :
                                       Dirs[d].parent = f[k - 1] /\ Dirs[d].name = names[k]}, 0)]
           place == CHOOSE f : f = Body(f)
<1>2. \A p, k : Of(p, k) \in SUBSET (0 .. m) /\ Of(p, k) \in SUBSET Nat
  BY <1>1
<1>3. \A p, k : Least(Of(p, k), 0) \in 0 .. m
  <2> TAKE p, k
  <2> HIDE DEF Of
  <2>1. PICK S \in SUBSET Nat : S = Of(p, k) /\ S \subseteq 0 .. m
    BY <1>2
  <2>2. Least(S, 0) = 0 \/ Least(S, 0) \in S
    BY LeastIs
  <2> QED BY <1>1, <2>1, <2>2
<1>4. step \in [(0 .. m) \X (1 .. n) -> 0 .. m] /\ 1 \in 0 .. m
  <2> HIDE DEF Of
  <2> QED BY <1>1, <1>3
<1>5. \A v \in 0 .. m, k \in 1 .. n : step[<<v, k>>] = Least(Of(v, k), 0)
  <2> HIDE DEF Of
  <2> QED OBVIOUS
<1> HIDE DEF step
<1>6. PICK f \in [0 .. n -> 0 .. m] : IsFold(f, n, 1, step)
  BY <1>4, FoldHasResult
<1>7. f = Body(f)
  <2>1. ASSUME NEW k \in 0 .. n, k # 0
        PROVE  step[<<f[k - 1], k>>] = Least(Of(f[k - 1], k), 0)
    <3>1. k \in 1 .. n /\ k - 1 \in 0 .. n
      BY <2>1
    <3>2. f[k - 1] \in 0 .. m
      BY <3>1
    <3> HIDE DEF Of
    <3> QED BY <1>5, <3>1, <3>2
  <2> QED BY <1>1, <1>6, <2>1, Zenon DEF IsFold
<1>8. place = Body(place)
  <2> HIDE DEF Body
  <2> QED BY <1>7
<1>9. \A k \in 0 .. n : DirAt(names, k) = place[k]
  BY DEF DirAt
<1> HIDE DEF place
<1>10. place[0] = 1 /\ \A k \in 1 .. n : place[k] = Least(Of(place[k - 1], k), 0)
  <2>1. 0 \in 0 .. n /\ \A k \in 1 .. n : k \in 0 .. n /\ k # 0
    OBVIOUS
  <2> QED BY <1>1, <1>8, <2>1, Zenon
<1>11. ASSUME NEW k \in 0 .. n PROVE place[k] \in 0 .. m
  <2>1. CASE k = 0
    BY <1>1, <1>10, <2>1
  <2>2. CASE k # 0
    <3>1. k \in 1 .. n
      BY <2>2
    <3>2. place[k] = Least(Of(place[k - 1], k), 0)
      BY <1>10, <3>1
    <3> HIDE DEF Of
    <3> QED BY <1>3, <3>2
  <2> QED BY <2>1, <2>2
<1>12. \A p : \A k \in 1 .. n : Of(p, k) = Namesakes("dir", p, names[k])
  BY DEF Namesakes, Nodes, Node
<1> HIDE DEF Of
<1>13. ASSUME NEW k \in 1 .. n
       PROVE  DirAt(names, k) = Least(Namesakes("dir", DirAt(names, k - 1), names[k]), 0)
  <2>1. k - 1 \in 0 .. n /\ k \in 0 .. n
    OBVIOUS
  <2>2. DirAt(names, k) = place[k] /\ DirAt(names, k - 1) = place[k - 1]
    BY <1>9, <2>1
  <2> QED BY <1>10, <1>12, <2>2
<1>14. 0 \in 0 .. n
  OBVIOUS
<1> QED BY <1>1, <1>9, <1>10, <1>11, <1>13, <1>14

\* Nothing has no children: a path that left the tree stays outside.
LEMMA LostStaysLost ==
  ASSUME NEW names \in Seq(Nat), NEW k \in 0 .. Len(names), DirAt(names, k) = 0
  PROVE  \A j \in k .. Len(names) : DirAt(names, j) = 0
<1>1. PICK n \in Nat : n = Len(names)
  OBVIOUS
<1>2. \A t, name : Namesakes(t, 0, name) = {}
  BY NodesAre DEF Namesakes
<1> DEFINE S == {j \in 0 .. n : j >= k => DirAt(names, j) = 0}
<1>3. 0 \in S
  BY <1>1
<1>4. ASSUME NEW j \in 1 .. n, j - 1 \in S PROVE j \in S
  <2>1. CASE j <= k
    BY <1>1, <2>1
  <2>2. CASE j > k
    <3>1. DirAt(names, j - 1) = 0
      BY <1>1, <1>4, <2>2
    <3>2. DirAt(names, j) = Least(Namesakes("dir", DirAt(names, j - 1), names[j]), 0)
      BY <1>1, DirAtUnfolds
    <3>3. Least({}, 0) = 0
      BY DEF Least
    <3>4. DirAt(names, j) = 0
      BY <1>2, <3>1, <3>2, <3>3
    <3> QED BY <3>4
  <2> QED BY <1>1, <2>1, <2>2
<1> HIDE DEF S
<1>5. 0 .. n \subseteq S
  BY <1>3, <1>4, Reaches
<1>6. ASSUME NEW j \in k .. n PROVE DirAt(names, j) = 0
  <2>1. j \in S /\ j >= k
    BY <1>1, <1>5
  <2> QED BY <2>1 DEF S
<1> QED BY <1>1, <1>6

\* The tables are shorter than the mark of no entry.
Small == 4 * Len(TheDirs) < NoEntry /\ 4 * Len(TheFiles) < NoEntry

LEMMA BuiltIsSmall ==
  ASSUME image = Built, SourceSize < NoEntry
  PROVE  Small
<1>1. PICK n \in Nat : n = Len(Built) /\ SourceSize = 4 * n
  BY BuiltHolds DEF SourceSize
<1>2. PICK d \in Nat, f \in Nat : d = Len(TheDirs) /\ f = Len(TheFiles)
  BY PlacesAre
<1>3. DirsAt + d <= n /\ FilesAt + f <= n
  BY <1>1, <1>2, BuiltHolds DEF Holds
<1>4. d <= n /\ f <= n
  BY <1>1, <1>2, <1>3, PlacesAre
<1>5. 4 * n < NoEntry /\ NoEntry \in Nat
  BY <1>1, SMT DEF NoEntry
<1> QED BY <1>1, <1>2, <1>4, <1>5 DEF Small

\* Every node lies in its table, which has no room for more.
LEMMA NodesFit ==
  ASSUME NEW t \in RomKinds, NEW x \in Nodes(t)
  PROVE  /\ OffsetOf(t, x) < IF t = "dir" THEN 4 * Len(TheDirs) ELSE 4 * Len(TheFiles)
         /\ Faithful(fs) => MaxSteps(t) \in Nat /\ x < MaxSteps(t)
<1>1. CASE t = "dir"
  <2>1. PICK n \in Nat \ {0}, l \in Nat : n = Len(Dirs) /\ l = Len(TheDirs)
    BY DirsAre, PlacesAre
  <2>2. 4 * l = 24 + ((n + 1) - 2) * 28
    <3>1. DirTableSize = 24 + ((n + 1) - 2) * 28
      BY <2>1 DEF DirTableSize, DirOffset, DirFixed, NameAlign
    <3> QED BY <2>1, <3>1, DirTableIs
  <2>3. x \in 2 .. n
    BY <1>1, <2>1 DEF Nodes
  <2>4. OffsetOf(t, x) = 24 + (x - 2) * 28
    BY <1>1, <2>3 DEF OffsetOf, DirOffset, DirFixed, NameAlign
  <2>5. Faithful(fs) => MaxSteps(t) = (4 * l) \div 24 + 1
    BY <1>1, <2>1 DEF Faithful, MaxSteps, DirFixed
  <2>6. (4 * l) \div 24 \in Nat /\ n <= (4 * l) \div 24
    BY <2>1, <2>2
  <2> QED BY <1>1, <2>1, <2>2, <2>3, <2>4, <2>5, <2>6
<1>2. CASE t = "file"
  <2>1. PICK n \in Nat, l \in Nat : n = Len(Files) /\ l = Len(TheFiles)
    BY FilesAre, PlacesAre
  <2>2. 4 * l = n * 36
    <3>1. FileTableSize = ((n + 1) - 1) * 36
      BY <2>1 DEF FileTableSize, FileOffset, FileFixed, NameAlign
    <3> QED BY <2>1, <3>1, FileTableIs
  <2>3. x \in 1 .. n
    BY <1>2, <2>1 DEF Nodes
  <2>4. OffsetOf(t, x) = (x - 1) * 36
    BY <1>2 DEF OffsetOf, FileOffset, FileFixed, NameAlign
  <2>5. Faithful(fs) => MaxSteps(t) = (4 * l) \div 32 + 1
    BY <1>2, <2>1 DEF Faithful, MaxSteps, FileFixed
  <2>6. (4 * l) \div 32 \in Nat /\ n <= (4 * l) \div 32
    BY <2>1, <2>2
  <2> QED BY <1>2, <2>1, <2>2, <2>3, <2>4, <2>5, <2>6
<1> QED BY <1>1, <1>2 DEF RomKinds

LEMMA OffsetIsNoMark ==
  ASSUME Small, NEW t \in RomKinds, NEW x \in Nodes(t)
  PROVE  OffsetOf(t, x) \in Nat /\ OffsetOf(t, x) # NoEntry
<1>1. OffsetOf(t, x) \in Nat
  BY NodesAre, OffsetsAre
<1>2. PICK d \in Nat, f \in Nat, m \in Nat : d = 4 * Len(TheDirs) /\ f = 4 * Len(TheFiles)
        /\ m = NoEntry /\ d < m /\ f < m
  <2>1. 4 * Len(TheDirs) \in Nat /\ 4 * Len(TheFiles) \in Nat
    BY PlacesAre
  <2>2. NoEntry \in Nat
    BY SMT DEF NoEntry
  <2> QED BY <2>1, <2>2 DEF Small
<1>3. OffsetOf(t, x) < IF t = "dir" THEN d ELSE f
  BY <1>2, NodesFit
<1> QED BY <1>1, <1>2, <1>3

LEMMA DirsInRange ==
  ASSUME Small, NEW p \in 1 .. Len(Dirs)
  PROVE  DirOffset(p) \in 0 .. NoEntry /\ DirOffset(p) # NoEntry
<1>1. CASE p = 1
  BY <1>1, SMT DEF DirOffset, NoEntry
<1>2. CASE p # 1
  <2>1. p \in Nodes("dir") /\ "dir" \in RomKinds /\ OffsetOf("dir", p) = DirOffset(p)
    BY <1>2, DirsAre DEF Nodes, RomKinds, OffsetOf
  <2>2. DirOffset(p) \in Nat /\ DirOffset(p) # NoEntry
    BY <2>1, OffsetIsNoMark
  <2>3. DirOffset(p) < 4 * Len(TheDirs) /\ 4 * Len(TheDirs) \in Nat
    BY <2>1, NodesFit, PlacesAre
  <2>4. NoEntry \in Nat
    BY SMT DEF NoEntry
  <2> QED BY <2>2, <2>3, <2>4 DEF Small
<1> QED BY <1>1, <1>2

-----------------------------------------------------------------------------
(* The walk down a path.                                                   *)

\* A link of the chain of a name: it leads to the first of the nodes asked
\* for or to one that comes before it, steps links down.
InChain(t, parent, name, link, steps) ==
  IF link = NoEntry THEN Namesakes(t, parent, name) = {}
  ELSE \E x \in Nodes(t) :
         /\ link = OffsetOf(t, x) /\ steps \in Nat /\ steps <= x
         /\ BucketOf(t, x) = Hash(DirOffset(parent), name) % Buckets
         /\ \A y \in Namesakes(t, parent, name) : x <= y

LEMMA NamesakesAre ==
  ASSUME NEW t, NEW parent \in 1 .. Len(Dirs), NEW name
  PROVE  Namesakes(t, parent, name)
           \subseteq Bucketed(t, Hash(DirOffset(parent), name) % Buckets)
BY NodesAre DEF Namesakes, Bucketed

LEMMA LeadsToChain ==
  ASSUME Small, NEW t \in RomKinds, NEW parent \in 1 .. Len(Dirs), NEW name, NEW link, NEW steps \in Nat,
         NEW S, LeadsTo(t, link, S), Namesakes(t, parent, name) \subseteq S,
         S \subseteq Bucketed(t, Hash(DirOffset(parent), name) % Buckets),
         \A x \in S : steps <= x
  PROVE  InChain(t, parent, name, link, steps)
<1>1. CASE S = {}
  BY <1>1 DEF LeadsTo, InChain
<1>2. CASE S # {}
  <2>1. PICK z \in S : link = OffsetOf(t, z) /\ \A y \in S : z <= y
    BY <1>2 DEF LeadsTo
  <2>2. z \in Nodes(t) /\ BucketOf(t, z) = Hash(DirOffset(parent), name) % Buckets
    BY <2>1 DEF Bucketed
  <2>3. link # NoEntry
    BY <2>1, <2>2, OffsetIsNoMark
  <2> QED BY <2>1, <2>2, <2>3 DEF InChain
<1> QED BY <1>1, <1>2

\* The head of the bucket of a name.
LEMMA HeadInChain ==
  ASSUME Small, NEW t \in RomKinds, NEW parent \in 1 .. Len(Dirs), NEW name \in Tokens
  PROVE  LET at == (Hash(DirOffset(parent), name) % Buckets) + 1 IN
         at \in 1 .. Buckets /\ InChain(t, parent, name, TheHeads(t)[at], 0)
<1>1. PICK hash \in Nat : hash = Hash(DirOffset(parent), name)
  BY DirsInRange, HashAssumption
<1>2. PICK b \in Nat : b = hash % Buckets /\ b < Buckets
  <2>1. Buckets \in Nat \ {0}
    BY HashAssumption
  <2> QED BY <2>1
<1>3. b + 1 \in 1 .. Buckets /\ (b + 1) - 1 = b
  BY <1>2, HashAssumption
<1>4. LeadsTo(t, TheHeads(t)[b + 1], Bucketed(t, b))
  BY <1>3, HeadsAre
<1>5. \A x \in Bucketed(t, b) : 0 <= x
  BY NodesAre DEF Bucketed
<1>6. InChain(t, parent, name, TheHeads(t)[b + 1], 0)
  BY <1>1, <1>2, <1>4, <1>5, NamesakesAre, LeadsToChain
<1> QED BY <1>1, <1>2, <1>3, <1>6

\* One link further, past a node that is not one of those asked for.
LEMMA NextInChain ==
  ASSUME Small, NEW t \in RomKinds, NEW parent \in 1 .. Len(Dirs), NEW name,
         NEW x \in Nodes(t), x \notin Namesakes(t, parent, name),
         BucketOf(t, x) = Hash(DirOffset(parent), name) % Buckets,
         \A y \in Namesakes(t, parent, name) : x <= y,
         NEW link, LeadsTo(t, link, After(t, x)),
         NEW steps \in Nat, steps <= x + 1
  PROVE  InChain(t, parent, name, link, steps)
<1>1. x \in Nat
  BY NodesAre
<1>2. After(t, x) \subseteq Bucketed(t, Hash(DirOffset(parent), name) % Buckets)
  BY DEF After, Bucketed
<1>3. \A y \in After(t, x) : y \in Nat /\ x < y
  BY NodesAre DEF After
<1>4. \A y \in After(t, x) : steps <= y
  BY <1>1, <1>3
<1>5. ASSUME NEW y \in Namesakes(t, parent, name) PROVE y \in After(t, x)
  <2>1. y \in Nodes(t) /\ BucketOf(t, y) = BucketOf(t, x)
    BY NamesakesAre DEF Bucketed
  <2>2. y \in Nat /\ x <= y /\ x # y
    BY <2>1, NodesAre
  <2> QED BY <1>1, <2>1, <2>2 DEF After
<1> QED BY <1>2, <1>4, <1>5, LeadsToChain

\* The comparison tells the nodes asked for from the others.
LEMMA MatchIs ==
  ASSUME NEW t \in RomKinds, NEW parent \in 1 .. Len(Dirs), NEW x \in Nodes(t),
         NEW e, Decoded(t, x, e), lookup.parent = DirOffset(parent)
  PROVE  Matches(e) <=> x \in Namesakes(t, parent, lookup.name)
<1>1. PICK q \in 1 .. Len(Dirs) : q = Node(t, x).parent
  BY NodesAre
<1>2. \A p \in 1 .. Len(Dirs) : DirOffset(p) = OffsetOf("dir", p) /\ p \in Nat \ {0}
  BY DEF OffsetOf
<1>3. DirOffset(q) = DirOffset(parent) <=> q = parent
  <2>1. DirOffset(q) \in Nat /\ DirOffset(parent) \in Nat
    BY <1>1, <1>2, OffsetsAre
  <2>2. q < parent => DirOffset(q) < DirOffset(parent)
    BY <1>1, <1>2, OffsetsAre
  <2>3. parent < q => DirOffset(parent) < DirOffset(q)
    BY <1>1, <1>2, OffsetsAre
  <2>4. q \in Nat /\ parent \in Nat
    BY <1>1
  <2> QED BY <2>1, <2>2, <2>3, <2>4
<1>4. e.parent = DirOffset(q) /\ e.bytes = 1 /\ e.name = Node(t, x).name
  BY <1>1 DEF Decoded
<1>5. Matches(e) <=> e.parent = lookup.parent /\ e.name = lookup.name
  BY <1>4 DEF Matches, NameBytes
<1> QED BY <1>1, <1>3, <1>4, <1>5 DEF Namesakes

\* What the tree answers for the last name of a path.
LEMMA AnswerOfLast ==
  ASSUME NEW kind \in RomKinds, NEW path \in Paths, NEW names \in Seq(Nat),
         names = Components(path), NEW n \in Nat \ {0}, n = Len(names),
         kind = "file" => path[Len(path)] # Sep,
         NEW S, S = Namesakes(kind, DirAt(names, n - 1), names[n])
  PROVE  /\ S = {} => Answer(kind, path) = NoEntry
         /\ \A x \in S : (\A y \in S : x <= y) => Answer(kind, path) = OffsetOf(kind, x)
<1>1. S \in SUBSET Nat /\ \A x \in S : x # 0
  BY NodesAre DEF Namesakes
<1>2. PICK l : l = Least(S, 0)
  OBVIOUS
<1>3. /\ S = {} => l = 0
      /\ S # {} => l \in S /\ \A y \in S : l <= y
  BY <1>1, <1>2, LeastIs
<1>4. Answer(kind, path) = IF l = 0 THEN NoEntry ELSE OffsetOf(kind, l)
  <2>1. CASE kind = "dir"
    <3>1. n \in 1 .. Len(names)
      OBVIOUS
    <3>2. DirAt(names, n) = l
      BY <1>2, <2>1, <3>1, DirAtUnfolds
    <3>3. DirAt(Components(path), Len(Components(path))) = l
      BY <3>2
    <3>4. Answer(kind, path) = IF l = 0 THEN NoEntry ELSE DirOffset(l)
      BY <2>1, <3>3, Zenon DEF Answer
    <3> QED BY <2>1, <3>4 DEF OffsetOf
  <2>2. CASE kind = "file"
    <3>1. S = {f \in DOMAIN Files : Files[f].parent = DirAt(names, n - 1)
                                    /\ Files[f].name = names[n]}
      BY <2>2, FilesAre DEF Namesakes, Nodes, Node
    <3>2. names # <<>> /\ path[Len(path)] # Sep
      BY <2>2
    <3>3. Answer(kind, path) = IF l = 0 THEN NoEntry ELSE FileOffset(l)
      <4>1. kind # "dir"
        BY <2>2
      <4>2. l = Least({f \in DOMAIN Files :
                   Files[f].parent = DirAt(Components(path), Len(Components(path)) - 1)
                   /\ Files[f].name = Components(path)[Len(Components(path))]}, 0)
        BY <1>2, <3>1, Zenon
      <4>3. ~ (Components(path) = <<>> \/ path[Len(path)] = Sep)
        BY <3>2
      <4> QED BY <4>1, <4>2, <4>3, Zenon DEF Answer
    <3> QED BY <2>2, <3>3 DEF OffsetOf
  <2> QED BY <2>1, <2>2 DEF RomKinds
<1>5. ASSUME NEW x \in S, \A y \in S : x <= y PROVE x = l
  BY <1>1, <1>3, <1>5
<1> QED BY <1>1, <1>3, <1>4, <1>5

\* A path that leaves the tree on the way leads to nothing.
LEMMA AnswerOfLost ==
  ASSUME NEW kind \in RomKinds, NEW path \in Paths, NEW names \in Seq(Nat),
         names = Components(path), NEW n \in Nat, n = Len(names),
         NEW k \in 0 .. n, k # n, DirAt(names, k) = 0
  PROVE  Answer(kind, path) = NoEntry
<1>1. DirAt(names, n) = 0 /\ DirAt(names, n - 1) = 0
  <2>1. k \in 0 .. Len(names) /\ n \in k .. Len(names) /\ n - 1 \in k .. Len(names)
    OBVIOUS
  <2> QED BY <2>1, LostStaysLost
<1>2. CASE kind = "dir"
  <2>1. DirAt(Components(path), Len(Components(path))) = 0
    BY <1>1
  <2> QED BY <1>2, <2>1, Zenon DEF Answer
<1>3. CASE kind = "file" /\ path[Len(path)] = Sep
  BY <1>3 DEF Answer
<1>4. CASE kind = "file" /\ path[Len(path)] # Sep
  <2>1. Namesakes(kind, DirAt(names, n - 1), names[n]) = {}
    BY <1>1, NodesAre DEF Namesakes
  <2>2. n \in Nat \ {0}
    OBVIOUS
  <2> QED BY <1>4, <2>1, <2>2, AnswerOfLast
<1> QED BY <1>2, <1>3, <1>4 DEF RomKinds

\* The path of no names is the root's, and no file's.
LEMMA AnswerOfNone ==
  ASSUME NEW kind \in RomKinds, NEW path \in Paths, Components(path) = <<>>
  PROVE  Answer(kind, path) = IF kind = "dir" THEN DirOffset(1) ELSE NoEntry
<1>1. CASE kind = "dir"
  <2>1. <<>> \in Seq(Nat) /\ Len(<<>>) = 0
    OBVIOUS
  <2>2. DirAt(<<>>, 0) = 1
    BY <2>1, DirAtUnfolds
  <2>3. DirAt(Components(path), Len(Components(path))) = 1 /\ 1 # 0
    BY <2>1, <2>2
  <2> QED BY <1>1, <2>3, Zenon DEF Answer
<1>2. CASE kind = "file"
  BY <1>2 DEF Answer
<1> QED BY <1>1, <1>2 DEF RomKinds

\* An outcome that is the tree's answer.
OutcomeAgrees(to, kind, path) ==
  /\ "phase" \notin DOMAIN to /\ "status" \in DOMAIN to
  /\ IF Answer(kind, path) = NoEntry THEN to.status # "ok"
     ELSE to.status = "ok" /\ "offset" \in DOMAIN to /\ to.offset = Answer(kind, path)

\* A walk on its way: it looks for the k-th name of its path in the directory
\* the names before lead to, and has not passed it.
FollowsPath(l) ==
  LET names == Components(l.path)
      n == Len(names)
  IN \E k \in 1 .. n :
       /\ l.cursor = PathStart(l.path) + 2 * k /\ l.name = names[k] /\ (l.last <=> k = n)
       /\ l.table = IF k = n THEN l.kind ELSE "dir"
       /\ k = n /\ l.kind = "file" => l.path[Len(l.path)] # Sep
       /\ DirAt(names, k - 1) # 0 /\ l.parent = DirOffset(DirAt(names, k - 1))
       /\ InChain(l.table, DirAt(names, k - 1), names[k], l.offset, l.steps)

\* Where a walk goes on from a directory it has reached.
LEMMA WalkFollows ==
  ASSUME Faithful(fs), Small, NEW kind \in RomKinds, NEW path \in Paths,
         ~ HasEmptyComponent(path), NEW n \in Nat, n = Len(Components(path)),
         NEW k \in 0 .. n, k # n \/ n = 0,
         NEW p, p = DirAt(Components(path), k), p # 0,
         NEW cursor, cursor = PathStart(path) + 2 * k,
         NEW to, to = Walk(kind, path, cursor, DirOffset(p))
  PROVE  IF "phase" \in DOMAIN to THEN FollowsPath(to) /\ to.path = path
         ELSE OutcomeAgrees(to, kind, path)
<1>1. PICK names \in Seq(Nat), start \in {1, 2}, stop \in Int :
        names = Components(path) /\ start = PathStart(path) /\ stop = PathStop(path)
  <2>1. Components(path) \in Seq(Nat) /\ PathStart(path) \in {1, 2} /\ Len(path) \in Nat
    BY ComponentsAre
  <2>2. PathStop(path) \in Int
    BY <2>1 DEF PathStop
  <2> QED BY <2>1, <2>2
<1>2. /\ n = Len(names) /\ Len(path) \in Nat /\ cursor = start + 2 * k /\ cursor \in Nat
      /\ p = DirAt(names, k)
  BY <1>1, ComponentsAre
<1>3. p \in 1 .. Len(Dirs)
  BY <1>1, <1>2, DirAtUnfolds, DirsAre
<1>4. "phase" \notin DOMAIN Invalid /\ "status" \in DOMAIN Invalid /\ Invalid.status # "ok"
  BY DEF Invalid, Failed
<1>5. CASE n = 0
  <2>1. cursor > stop /\ cursor # stop
    <3>1. PathStop(path) < PathStart(path)
      BY <1>5, ComponentsAre
    <3> QED BY <1>1, <1>2, <1>5, <3>1
  <2>2. Components(path) = <<>>
    <3>1. \A s \in Seq(Nat) : Len(s) = 0 => s = <<>>
      OBVIOUS
    <3> QED BY <1>1, <1>2, <1>5, <3>1
  <2>3. CASE kind = "dir"
    <3>1. to = DirEntry(fs, RootOffset)
      BY <1>1, <2>1, <2>3, Zenon DEF Walk
    <3>2. Answer(kind, path) = DirOffset(1) /\ DirOffset(1) # NoEntry
      BY <2>2, <2>3, DirsAre, DirsInRange, AnswerOfNone
    <3>3. 4 * Len(TheDirs) < NoEntry
      BY DEF Small
    <3> QED BY <3>1, <3>2, <3>3, RootIs DEF OutcomeAgrees
  <2>4. CASE kind # "dir"
    <3>1. kind = "file"
      BY <2>4 DEF RomKinds
    <3>2. to = Invalid
      BY <1>1, <2>1, <2>4, <3>1 DEF Walk
    <3>3. Answer(kind, path) = NoEntry
      BY <2>2, <2>4, AnswerOfNone
    <3> QED BY <1>4, <3>2, <3>3 DEF OutcomeAgrees
  <2> QED BY <2>3, <2>4
<1>6. CASE n # 0
  <2>1. PICK j \in 1 .. n : j = k + 1 /\ j - 1 = k
    BY <1>6
  <2>2. PICK name \in Nat :
          /\ name = names[j] /\ name = path[cursor] /\ name # Sep /\ cursor \in 1 .. Len(path)
    <3>1. start + 2 * (j - 1) = cursor
      BY <1>2, <2>1
    <3>2. names[j] \in Nat
      BY <1>2
    <3> QED BY <1>1, <1>2, <3>1, <3>2, ComponentsAre, ZenonT(40)
  <2>3. stop = start + 2 * (n - 1) /\ (Trailing(path) <=> path[Len(path)] = Sep)
    BY <1>1, <1>2, <1>6, ComponentsAre
  <2>4. ~ (cursor > stop) /\ (cursor = stop <=> j = n)
    BY <1>2, <1>6, <2>1, <2>3
  <2>5. CASE j = n /\ kind = "file" /\ path[Len(path)] = Sep
    <3>1. to = Invalid
      BY <1>1, <2>2, <2>3, <2>4, <2>5 DEF Walk
    <3>2. Answer(kind, path) = NoEntry
      BY <2>5 DEF Answer
    <3> QED BY <1>4, <3>1, <3>2 DEF OutcomeAgrees
  <2>6. CASE ~ (j = n /\ kind = "file" /\ path[Len(path)] = Sep)
    <3>1. PICK last \in BOOLEAN, t \in RomKinds :
            last = (cursor = stop) /\ t = IF last THEN kind ELSE "dir"
      BY DEF RomKinds
    <3>2. PICK heads : heads = IF t = "dir" THEN fs.dirHeads ELSE fs.fileHeads
      OBVIOUS
    <3>3. heads = TheHeads(t) /\ Len(heads) = Buckets /\ heads # <<>>
      <4>1. heads = TheHeads(t)
        BY <3>2 DEF Faithful, RomKinds
      <4>2. Len(heads) = Buckets /\ heads \in Seq(Nat) /\ Buckets \in Nat \ {0}
        BY <4>1, HeadsAre, HashAssumption
      <4> QED BY <4>1, <4>2
    <3>4. PICK offset :
            /\ offset = heads[(Hash(DirOffset(p), name) % Len(heads)) + 1]
            /\ InChain(t, p, name, offset, 0)
      <4>1. name \in Tokens
        <5>1. cursor \in DOMAIN path
          BY <2>2, HashAssumption
        <5> QED BY <2>2, <5>1 DEF Tokens
      <4> QED BY <1>3, <3>3, <4>1, HeadInChain
    <3>5. to = [phase |-> "chain", table |-> t, parent |-> DirOffset(p), name |-> name,
                offset |-> offset, steps |-> 0, last |-> last, kind |-> kind, path |-> path,
                cursor |-> cursor + 2]
      BY <1>1, <2>2, <2>3, <2>4, <2>6, <3>1, <3>2, <3>3, <3>4 DEF Walk
    <3>6. cursor + 2 = start + 2 * j
      BY <1>2, <2>1, SMTT(30)
    <3>7. PICK place : place = DirAt(names, j - 1) /\ place = p
      BY <1>2, <2>1
    <3>8. /\ "phase" \in DOMAIN to /\ to.cursor = start + 2 * j /\ to.name = names[j]
          /\ (to.last <=> j = n) /\ to.table = (IF j = n THEN kind ELSE "dir")
          /\ to.kind = kind /\ to.path = path /\ to.parent = DirOffset(p)
          /\ to.table = t /\ to.offset = offset /\ to.steps = 0
      <4>1. /\ "phase" \in DOMAIN to /\ to.cursor = cursor + 2 /\ to.name = name
            /\ to.last = last /\ to.table = t /\ to.kind = kind /\ to.path = path
            /\ to.parent = DirOffset(p) /\ to.offset = offset /\ to.steps = 0
        BY <3>5
      <4>2. (to.last <=> j = n) /\ to.table = (IF j = n THEN kind ELSE "dir")
        BY <2>4, <3>1, <4>1
      <4> QED BY <2>2, <3>6, <4>1, <4>2
    <3>9. FollowsPath(to)
      <4>1. InChain(to.table, DirAt(names, j - 1), names[j], to.offset, to.steps)
        BY <2>2, <3>4, <3>7, <3>8
      <4>2. j = n /\ to.kind = "file" => to.path[Len(to.path)] # Sep
        BY <2>6, <3>8
      <4>3. /\ to.cursor = PathStart(to.path) + 2 * j /\ to.name = Components(to.path)[j]
            /\ (to.last <=> j = Len(Components(to.path)))
            /\ to.table = IF j = Len(Components(to.path)) THEN to.kind ELSE "dir"
            /\ j = Len(Components(to.path)) /\ to.kind = "file"
                 => to.path[Len(to.path)] # Sep
            /\ DirAt(Components(to.path), j - 1) # 0
            /\ to.parent = DirOffset(DirAt(Components(to.path), j - 1))
            /\ InChain(to.table, DirAt(Components(to.path), j - 1), Components(to.path)[j],
                       to.offset, to.steps)
        BY <1>1, <1>2, <3>7, <3>8, <4>1, <4>2
      <4>4. j \in 1 .. Len(Components(to.path))
        BY <1>1, <1>2, <3>8
      <4> QED BY <4>3, <4>4, Zenon DEF FollowsPath
    <3> QED BY <3>8, <3>9
  <2> QED BY <2>5, <2>6
<1> QED BY <1>5, <1>6

\* One iteration of the loop keeps to the path.
LEMMA ChainFollows ==
  ASSUME Faithful(fs), Small, SourceSize \in Nat, lookup \in Chains,
         ~ HasEmptyComponent(lookup.path), FollowsPath(lookup), ChainStep
  PROVE  \E to : /\ Goes(to, lookup.kind, lookup.path)
                 /\ "phase" \in DOMAIN to => to.path = lookup.path
                 /\ IF "phase" \in DOMAIN to THEN FollowsPath(to)
                    ELSE OutcomeAgrees(to, lookup.kind, lookup.path)
<1> DEFINE entry == IF lookup.table = "dir" THEN DirEntry(fs, lookup.offset)
                                            ELSE FileEntry(fs, lookup.offset)
           on == [lookup EXCEPT !.offset = entry.link,
                                !.steps = IF @ < StepsCounted THEN @ + 1 ELSE @]
           walk == Walk(lookup.kind, lookup.path, lookup.cursor, entry.offset)
<1>1. PICK e : e = entry
  OBVIOUS
<1>2. PICK to :
        /\ Goes(to, lookup.kind, lookup.path)
        /\ to = CASE lookup.offset = NoEntry -> NotFound
                  [] lookup.offset # NoEntry /\ lookup.steps >= MaxSteps(lookup.table) -> Invalid
                  [] OTHER -> IF e.status # "ok" THEN e
                              ELSE IF ~ Matches(e) THEN on
                              ELSE IF lookup.last THEN e
                              ELSE walk
  BY <1>1 DEF ChainStep
<1>3. PICK kind \in RomKinds, t \in RomKinds, path \in Paths, steps \in Nat :
        kind = lookup.kind /\ t = lookup.table /\ path = lookup.path /\ steps = lookup.steps
  BY DEF Chains
<1>4. PICK names \in Seq(Nat), n \in Nat :
        names = Components(path) /\ n = Len(names)
  BY <1>3, ComponentsAre
<1>5. PICK k \in 1 .. n :
        /\ lookup.cursor = PathStart(path) + 2 * k /\ lookup.name = names[k]
        /\ (lookup.last <=> k = n)
        /\ t = IF k = n THEN kind ELSE "dir"
        /\ k = n /\ kind = "file" => path[Len(path)] # Sep
        /\ DirAt(names, k - 1) # 0 /\ lookup.parent = DirOffset(DirAt(names, k - 1))
        /\ InChain(t, DirAt(names, k - 1), names[k], lookup.offset, steps)
  BY <1>3, <1>4 DEF FollowsPath
<1>6. PICK p \in 1 .. Len(Dirs) : p = DirAt(names, k - 1)
  <2>1. k - 1 \in 0 .. Len(names)
    BY <1>4, <1>5
  <2>2. DirAt(names, k - 1) \in 0 .. Len(Dirs)
    BY <1>4, <2>1, DirAtUnfolds
  <2> QED BY <1>5, <2>2, DirsAre
<1>7. PICK S : S = Namesakes(t, p, names[k])
  OBVIOUS
<1>8. k # n => t = "dir" /\ k \in 1 .. Len(names) /\ DirAt(names, k) = Least(S, 0)
  BY <1>4, <1>5, <1>6, <1>7, DirAtUnfolds
<1>9. CASE lookup.offset = NoEntry
  <2>1. S = {}
    BY <1>5, <1>6, <1>7, <1>9 DEF InChain
  <2>2. Answer(kind, path) = NoEntry
    <3>1. CASE k = n
      <4>1. S = Namesakes(kind, DirAt(names, n - 1), names[n]) /\ n # 0
        BY <1>5, <1>6, <1>7, <3>1
      <4>2. kind = "file" => path[Len(path)] # Sep
        BY <1>5, <3>1
      <4>3. n \in Nat \ {0}
        BY <4>1
      <4> QED BY <1>4, <2>1, <4>1, <4>2, <4>3, AnswerOfLast, ZenonT(40)
    <3>2. CASE k # n
      <4>1. DirAt(names, k) = 0
        BY <1>8, <2>1, <3>2 DEF Least
      <4>2. k \in 0 .. n
        BY <1>4, <1>5
      <4> QED BY <1>3, <1>4, <3>2, <4>1, <4>2, AnswerOfLost
    <3> QED BY <3>1, <3>2
  <2>3. to = NotFound
    BY <1>2, <1>9
  <2>4. "phase" \notin DOMAIN to /\ "status" \in DOMAIN to /\ to.status # "ok"
    BY <2>3 DEF NotFound, Failed
  <2>5. OutcomeAgrees(to, kind, path)
    BY <2>2, <2>4 DEF OutcomeAgrees
  <2> QED BY <1>2, <1>3, <2>4, <2>5
<1>10. CASE lookup.offset # NoEntry
  <2>1. PICK x \in Nodes(t) :
          /\ lookup.offset = OffsetOf(t, x) /\ steps <= x
          /\ BucketOf(t, x) = Hash(DirOffset(p), names[k]) % Buckets
          /\ \A y \in S : x <= y
    BY <1>5, <1>6, <1>7, <1>10 DEF InChain
  <2>2. x \in Nat /\ x # 0
    BY <1>3, <2>1, NodesAre
  <2>3. ~ (steps >= MaxSteps(t))
    <3>1. MaxSteps(t) \in Nat /\ x < MaxSteps(t)
      BY <1>3, <2>1, NodesFit
    <3> QED BY <1>3, <2>1, <2>2, <3>1
  <2>4. Decoded(t, x, e)
    <3>1. CASE t = "dir"
      <4>1. e = DirEntry(fs, DirOffset(x)) /\ x \in Nodes("dir")
        BY <1>1, <1>3, <2>1, <3>1 DEF OffsetOf
      <4> QED BY <3>1, <4>1, DirEntryIs DEF Small
    <3>2. CASE t = "file"
      <4>1. e = FileEntry(fs, FileOffset(x)) /\ x \in Nodes("file")
        BY <1>1, <1>3, <2>1, <3>2 DEF OffsetOf
      <4> QED BY <3>2, <4>1, FileEntryIs DEF Small
    <3> QED BY <1>3, <3>1, <3>2 DEF RomKinds
  <2>5. Matches(e) <=> x \in S
    BY <1>3, <1>5, <1>6, <1>7, <2>1, <2>4, MatchIs
  <2>6. to = IF ~ Matches(e) THEN on ELSE IF lookup.last THEN e ELSE walk
    <3>1. e.status = "ok"
      BY <2>4 DEF Decoded
    <3>2. ~ (lookup.offset # NoEntry /\ lookup.steps >= MaxSteps(lookup.table))
      BY <1>3, <2>3
    <3> HIDE DEF on, walk
    <3> QED BY <1>2, <1>10, <3>1, <3>2, Zenon
  <2>7. CASE x \notin S
    <3>1. PICK more \in Nat :
            more = (IF steps < StepsCounted THEN steps + 1 ELSE steps) /\ more <= x + 1
      BY <1>3, <2>1, <2>2 DEF StepsCounted
    <3>2. PICK link : link = e.link /\ LeadsTo(t, link, After(t, x))
      BY <2>4 DEF Decoded
    <3>3. InChain(t, p, names[k], link, more)
      BY <1>3, <1>6, <1>7, <2>1, <2>7, <3>1, <3>2, NextInChain
    <3>4. to = [lookup EXCEPT !.offset = link, !.steps = more]
      <4>1. more = IF lookup.steps < StepsCounted THEN lookup.steps + 1 ELSE lookup.steps
        BY <1>3, <3>1
      <4> QED BY <1>1, <2>5, <2>6, <2>7, <3>2, <4>1, Zenon
    <3>5. /\ "phase" \in DOMAIN to /\ to.offset = link /\ to.steps = more /\ to.path = path
          /\ to.cursor = lookup.cursor /\ to.name = lookup.name /\ to.last = lookup.last
          /\ to.table = t /\ to.kind = kind /\ to.parent = lookup.parent
      BY <1>3, <3>4 DEF Chains
    <3>6. FollowsPath(to)
      <4>1. /\ to.cursor = PathStart(to.path) + 2 * k /\ to.name = Components(to.path)[k]
            /\ (to.last <=> k = Len(Components(to.path)))
            /\ to.table = IF k = Len(Components(to.path)) THEN to.kind ELSE "dir"
            /\ k = Len(Components(to.path)) /\ to.kind = "file"
                 => to.path[Len(to.path)] # Sep
            /\ DirAt(Components(to.path), k - 1) # 0
            /\ to.parent = DirOffset(DirAt(Components(to.path), k - 1))
            /\ InChain(to.table, DirAt(Components(to.path), k - 1), Components(to.path)[k],
                       to.offset, to.steps)
        BY <1>4, <1>5, <1>6, <3>3, <3>5
      <4>2. k \in 1 .. Len(Components(to.path))
        BY <1>4, <1>5, <3>5
      <4> QED BY <4>1, <4>2, Zenon DEF FollowsPath
    <3> QED BY <1>2, <1>3, <3>5, <3>6
  <2>8. CASE x \in S /\ k = n
    <3>1. to = e
      BY <1>5, <2>5, <2>6, <2>8
    <3>2. Answer(kind, path) = OffsetOf(kind, x) /\ t = kind
      BY <1>3, <1>4, <1>5, <1>6, <1>7, <2>1, <2>8, AnswerOfLast
    <3>3. OffsetOf(kind, x) # NoEntry
      BY <1>3, <2>1, <3>2, OffsetIsNoMark
    <3>4. "phase" \notin DOMAIN to /\ OutcomeAgrees(to, kind, path)
      BY <2>4, <3>1, <3>2, <3>3 DEF Decoded, OutcomeAgrees
    <3> QED BY <1>2, <1>3, <3>4
  <2>9. CASE x \in S /\ k # n
    <3>1. to = walk
      BY <1>5, <2>5, <2>6, <2>9
    <3>2. x = DirAt(names, k)
      <4>1. S \in SUBSET Nat
        BY <1>7, NodesAre DEF Namesakes
      <4>2. PICK l : l = Least(S, 0) /\ l \in S /\ \A y \in S : l <= y
        BY <2>9, <4>1, LeastIs
      <4> QED BY <1>8, <2>1, <2>9, <4>1, <4>2
    <3>3. e.offset = DirOffset(x)
      BY <1>8, <2>4, <2>9 DEF Decoded, OffsetOf
    <3>4. to = Walk(kind, path, lookup.cursor, DirOffset(x))
      BY <1>1, <1>3, <3>1, <3>3
    <3>5. k \in 0 .. n /\ n = Len(Components(path)) /\ x = DirAt(Components(path), k)
          /\ lookup.cursor = PathStart(path) + 2 * k
      BY <1>4, <1>5, <3>2
    <3>6. IF "phase" \in DOMAIN to THEN FollowsPath(to) /\ to.path = path
          ELSE OutcomeAgrees(to, kind, path)
      BY <1>3, <1>4, <2>2, <2>9, <3>4, <3>5, WalkFollows
    <3> QED BY <1>2, <1>3, <3>6
  <2> QED BY <2>7, <2>8, <2>9
<1> QED BY <1>9, <1>10

\* A place in a chain is one of the path's own lookup.
LEMMA WalkKeepsPath ==
  ASSUME ReaderSound(fs), image \in Seq(Nat), NEW kind, NEW path, NEW cursor, NEW current,
         NEW to, to = Walk(kind, path, cursor, current), "phase" \in DOMAIN to
  PROVE  to.path = path
<1>1. "phase" \notin DOMAIN Invalid /\ "phase" \notin DOMAIN NotFound
  BY DEF Invalid, NotFound, Failed
<1>2. "phase" \notin DOMAIN DirEntry(fs, RootOffset)
  <2>1. RootOffset \in Nat
    BY DEF RootOffset
  <2> QED BY <2>1, DirEntrySound
<1> DEFINE cases(t, last, name, heads) ==
      CASE cursor > PathStop(path) /\ kind = "dir" -> DirEntry(fs, RootOffset)
        [] cursor > PathStop(path) /\ kind = "file" -> Invalid
        [] ~ (cursor > PathStop(path)) /\ path[cursor] = Sep -> Invalid
        [] last /\ path[cursor] # Sep /\ kind = "file" /\ Trailing(path) -> Invalid
        [] OTHER ->
             IF heads = <<>> THEN NotFound
             ELSE [phase |-> "chain", table |-> t, parent |-> current, name |-> name,
                   offset |-> heads[(Hash(current, name) % Len(heads)) + 1], steps |-> 0,
                   last |-> last, kind |-> kind, path |-> path, cursor |-> cursor + 2]
<1>3. PICK t, last, name, heads : to = cases(t, last, name, heads)
  <2>1. PICK last, name : last = (cursor = PathStop(path)) /\ name = path[cursor]
    OBVIOUS
  <2>2. PICK t : t = IF last THEN kind ELSE "dir"
    OBVIOUS
  <2>3. PICK heads : heads = IF t = "dir" THEN fs.dirHeads ELSE fs.fileHeads
    OBVIOUS
  <2>4. to = cases(t, last, name, heads)
    BY <2>1, <2>2, <2>3 DEF Walk
  <2> HIDE DEF cases
  <2> QED BY <2>4
<1> QED BY <1>1, <1>2, <1>3

LEMMA ChainStepGoes ==
  ASSUME RomIInv, ChainStep
  PROVE  \E to : /\ Goes(to, lookup.kind, lookup.path)
                 /\ "phase" \in DOMAIN to => to.path = lookup.path
<1> DEFINE entry == IF lookup.table = "dir" THEN DirEntry(fs, lookup.offset)
                                            ELSE FileEntry(fs, lookup.offset)
           on == [lookup EXCEPT !.offset = entry.link,
                                !.steps = IF @ < StepsCounted THEN @ + 1 ELSE @]
           walk == Walk(lookup.kind, lookup.path, lookup.cursor, entry.offset)
<1>1. ReaderSound(fs) /\ image \in Seq(Nat) /\ lookup \in Chains
  BY DEF ChainStep, RomIInv, ChainSound
<1>2. lookup.table \in RomKinds /\ lookup.offset \in Nat
  BY <1>1 DEF Chains
<1>3. PICK e : e = entry
  OBVIOUS
<1>4. "phase" \notin DOMAIN e
  <2>1. CASE lookup.table = "dir"
    BY <1>1, <1>2, <1>3, <2>1, DirEntrySound
  <2>2. CASE lookup.table = "file"
    BY <1>1, <1>2, <1>3, <2>2, FileEntrySound
  <2> QED BY <1>2, <2>1, <2>2 DEF RomKinds
<1>5. PICK to : /\ Goes(to, lookup.kind, lookup.path)
                /\ to \in {NotFound, Invalid, e, on, walk}
  BY <1>3 DEF ChainStep
<1>6. ASSUME "phase" \in DOMAIN to PROVE to.path = lookup.path
  <2>1. to = on \/ to = walk
    <3>1. "phase" \notin DOMAIN Invalid /\ "phase" \notin DOMAIN NotFound
      BY DEF NotFound, Invalid, Failed
    <3> HIDE DEF on, walk
    <3> QED BY <1>4, <1>5, <1>6, <3>1, Zenon
  <2>2. CASE to = on
    <3>1. on.path = lookup.path
      BY <1>1 DEF Chains
    <3> QED BY <2>2, <3>1
  <2>3. CASE to = walk
    BY <1>1, <1>6, <2>3, WalkKeepsPath
  <2> QED BY <2>1, <2>2, <2>3
<1> QED BY <1>5, <1>6

\* What LookupAgreesWithTree needs: over the image as built, an opened reader
\* has what the builder put there and a lookup keeps to its path.
LookIInv ==
  /\ RomIInv
  /\ intact => image = Built
  /\ intact /\ fs.status = "ok" => Faithful(fs)
  /\ intact /\ lookup.phase = "chain" /\ ~ HasEmptyComponent(lookup.path)
       => FollowsPath(lookup)
  /\ LookupAgreesWithTree

\* Where a step of a lookup goes keeps it, if it goes by the tree.
LEMMA GoesByTree ==
  ASSUME LookIInv, RomIInv', UNCHANGED <<image, intact, fs>>, NEW kind, NEW path, NEW to,
         Goes(to, kind, path), "phase" \in DOMAIN to => to.path = path,
         intact /\ ~ HasEmptyComponent(path) =>
           IF "phase" \in DOMAIN to THEN FollowsPath(to) ELSE OutcomeAgrees(to, kind, path)
  PROVE  LookIInv'
<1>1. (intact => image = Built)' /\ (intact /\ fs.status = "ok" => Faithful(fs))'
  BY DEF LookIInv, Faithful, SourceSize
<1>2. CASE "phase" \in DOMAIN to
  <2>1. lookup' = to /\ found' = [status |-> "running"]
    BY <1>2 DEF Goes, Failed
  <2>2. LookupAgreesWithTree'
    BY <2>1 DEF LookupAgreesWithTree
  <2>3. (intact /\ lookup.phase = "chain" /\ ~ HasEmptyComponent(lookup.path)
           => FollowsPath(lookup))'
    BY <1>2, <2>1
  <2> QED BY <1>1, <2>2, <2>3 DEF LookIInv
<1>3. CASE "phase" \notin DOMAIN to
  <2>1. PICK f : f = found'
    OBVIOUS
  <2>2. /\ lookup' = [phase |-> "none"]
        /\ f = [field \in {"kind", "path"} \cup DOMAIN to |->
                  CASE field = "kind" -> kind
                    [] field = "path" -> path
                    [] OTHER -> to[field]]
    BY <1>3, <2>1 DEF Goes, NoLookup
  <2>3. /\ f.kind = kind /\ f.path = path
        /\ \A x \in DOMAIN to \ {"kind", "path"} : x \in DOMAIN f /\ f[x] = to[x]
    BY <2>2
  <2>4. ASSUME intact', ~ HasEmptyComponent(path)
        PROVE  IF Answer(kind, path) = NoEntry THEN f.status # "ok"
               ELSE f.status = "ok" /\ f.offset = Answer(kind, path)
    <3>1. OutcomeAgrees(to, kind, path)
      BY <1>3, <2>4
    <3> QED BY <2>3, <3>1 DEF OutcomeAgrees
  <2>5. LookupAgreesWithTree'
    BY <2>1, <2>3, <2>4 DEF LookupAgreesWithTree
  <2>6. lookup'.phase # "chain"
    BY <2>2
  <2> QED BY <1>1, <2>5, <2>6 DEF LookIInv
<1> QED BY <1>2, <1>3

LEMMA ReaderFollows ==
  ASSUME LookIInv, intact, fs.status = "ok"
  PROVE  Faithful(fs) /\ Small /\ SourceSize \in Nat
<1>1. SourceSize \in Nat
  BY DEF LookIInv, RomIInv, SourceSize
<1> QED BY <1>1, BuiltIsSmall DEF LookIInv, RomIInv

\* In an image as built, a path without empty components leads to exactly the
\* entry the tree has for it, and to none if the tree has none, however many
\* entries share a bucket (romfs_find_dir, romfs_find_file, walk_to_parent).
THEOREM LookupAgreesWithTreeHolds == RomSpec => []LookupAgreesWithTree
<1>1. AnyImage /\ RomStart => LookIInv
  <2> SUFFICES ASSUME AnyImage, RomStart PROVE LookIInv
    OBVIOUS
  <2>1. fs = [status |-> "closed"] /\ lookup = [phase |-> "none"] /\ found = [status |-> "none"]
    BY DEF RomStart, Closed, NoLookup, Failed
  <2>2. RomIInv
    BY <2>1 DEF AnyImage, RomIInv, FoundSound
  <2>3. LookupAgreesWithTree
    BY <2>1 DEF LookupAgreesWithTree
  <2> QED BY <2>1, <2>2, <2>3 DEF AnyImage, LookIInv
<1>2. LookIInv /\ RomIInv' /\ [RomNext]_romVars => LookIInv'
  <2> SUFFICES ASSUME LookIInv, RomIInv', [RomNext]_romVars PROVE LookIInv'
    OBVIOUS
  <2>1. CASE Open
    <3>1. fs = Closed /\ UNCHANGED <<image, intact, lookup, found>>
      BY <2>1 DEF Open
    <3>2. (intact /\ fs.status = "ok" => Faithful(fs))'
      <4>1. intact => image = Built
        BY DEF LookIInv
      <4>2. intact /\ fs'.status = "ok" => Faithful(fs')
        BY <2>1, <4>1, OpensFaithfully
      <4> QED BY <3>1, <4>2 DEF Faithful, SourceSize
    <3>3. LookupAgreesWithTree'
      BY <3>1 DEF LookIInv, LookupAgreesWithTree
    <3> QED BY <3>1, <3>2, <3>3 DEF LookIInv
  <2>2. ASSUME NEW kind \in {"dir", "file"}, NEW path \in Paths, Find(kind, path)
        PROVE  LookIInv'
    <3>1. PICK to : to = Walk(kind, path, PathStart(path), RootOffset)
      OBVIOUS
    <3>2. Goes(to, kind, path) /\ fs.status = "ok" /\ UNCHANGED <<image, intact, fs>>
      BY <2>2, <3>1, Zenon DEF Find
    <3>3. "phase" \in DOMAIN to => to.path = path
      BY <3>1, <3>2, WalkKeepsPath DEF LookIInv, RomIInv
    <3>4. ASSUME intact, ~ HasEmptyComponent(path)
          PROVE  IF "phase" \in DOMAIN to THEN FollowsPath(to) ELSE OutcomeAgrees(to, kind, path)
      <4>1. Faithful(fs) /\ Small
        BY <3>2, <3>4, ReaderFollows
      <4>2. PICK names \in Seq(Nat), n \in Nat : names = Components(path) /\ n = Len(names)
        BY <3>4, ComponentsAre
      <4>3. DirAt(names, 0) = 1 /\ DirOffset(1) = RootOffset
        BY <4>2, DirAtUnfolds DEF DirOffset, RootOffset
      <4>4. PathStart(path) = PathStart(path) + 2 * 0
        BY PathAlternates, <3>4
      <4>5. 0 \in 0 .. n /\ (0 # n \/ n = 0) /\ 1 # 0
        OBVIOUS
      <4>6. kind \in RomKinds
        BY DEF RomKinds
      <4> QED BY <3>1, <3>4, <4>1, <4>2, <4>3, <4>4, <4>5, <4>6, WalkFollows
    <3> QED BY <3>2, <3>3, <3>4, GoesByTree
  <2>3. CASE ChainStep
    <3>1. lookup.phase = "chain" /\ fs.status = "ok" /\ UNCHANGED <<image, intact, fs>>
      BY <2>3 DEF ChainStep, LookIInv, RomIInv
    <3>2. lookup \in Chains
      BY <3>1 DEF LookIInv, RomIInv, ChainSound
    <3>3. CASE intact /\ ~ HasEmptyComponent(lookup.path)
      <4>1. Faithful(fs) /\ Small /\ SourceSize \in Nat
        BY <3>1, <3>3, ReaderFollows
      <4>2. FollowsPath(lookup)
        BY <3>1, <3>3 DEF LookIInv
      <4>3. PICK to :
              /\ Goes(to, lookup.kind, lookup.path)
              /\ "phase" \in DOMAIN to => to.path = lookup.path
              /\ IF "phase" \in DOMAIN to THEN FollowsPath(to)
                 ELSE OutcomeAgrees(to, lookup.kind, lookup.path)
        BY <2>3, <3>2, <3>3, <4>1, <4>2, ChainFollows
      <4> QED BY <3>1, <4>3, GoesByTree
    <3>4. CASE ~ (intact /\ ~ HasEmptyComponent(lookup.path))
      <4>1. PICK to : Goes(to, lookup.kind, lookup.path)
                      /\ ("phase" \in DOMAIN to => to.path = lookup.path)
        BY <2>3, ChainStepGoes DEF LookIInv
      <4> QED BY <3>1, <3>4, <4>1, GoesByTree
    <3> QED BY <3>3, <3>4
  <2>4. ASSUME NEW offset \in {0, 4, 8}, NEW size \in {0, 4, 8}, ReadFile(offset, size)
        PROVE  LookIInv'
    <3>1. "path" \notin DOMAIN found' /\ UNCHANGED <<image, intact, fs, lookup>>
      BY <2>4 DEF ReadFile, Invalid, Failed
    <3>2. LookupAgreesWithTree'
      BY <3>1 DEF LookupAgreesWithTree
    <3> QED BY <3>1, <3>2 DEF LookIInv, Faithful, SourceSize
  <2>5. CASE UNCHANGED romVars
    BY <2>5 DEF romVars, LookIInv, Faithful, SourceSize, LookupAgreesWithTree
  <2> QED BY <2>1, <2>2, <2>3, <2>4, <2>5 DEF RomNext
<1>3. LookIInv => LookupAgreesWithTree
  BY DEF LookIInv
<1> QED BY <1>1, <1>2, <1>3, RomInvariant, PTL DEF RomSpec

-----------------------------------------------------------------------------
(* The layout of the address space.                                        *)

Names == {"code", "alias", "heap", "stack", "tls_io"}

\* Quotient and remainder of naturals (used for % and \div throughout).
LEMMA DivMod ==
  ASSUME NEW a \in Nat, NEW d \in Nat \ {0}
  PROVE  a % d \in 0 .. d - 1 /\ a \div d \in Nat /\ d * (a \div d) <= a
OBVIOUS

\* Rounding a word up yields a natural, whether or not it wraps (align_up_page).
LEMMA AlignedIsNat ==
  ASSUME NEW v \in Words
  PROVE  AlignUpPage(v) \in Nat
<1> DEFINE sum == (v + Page - 1) % Word
<1>1. sum \in Nat
  BY SizesAssumption, DivMod DEF Words
<1>2. sum % Page \in Nat /\ sum % Page <= sum
  <2>1. sum % Page \in 0 .. Page - 1
    BY <1>1, SizesAssumption, DivMod
  <2>2. sum = Page * (sum \div Page) + (sum % Page) /\ sum \div Page \in Nat
    BY <1>1, SizesAssumption
  <2>3. Page * (sum \div Page) \in Nat
    BY <2>2, SizesAssumption
  <2> QED BY <2>1, <2>2, <2>3
<1> QED BY <1>1, <1>2 DEF AlignUpPage

\* The seed moves the regions by no more than the room left after them.
LEMMA OffsetWithinSlack ==
  ASSUME NEW code_bytes \in Nat, code_bytes <= Span - FixedRegions, NEW mixed \in Words
  PROVE  AslrOffset(code_bytes, mixed) \in 0 .. (Span - FixedRegions - code_bytes)
<1> DEFINE slack == Span - FixedRegions - code_bytes
           granules == slack \div Granule
           shift == mixed % (granules + 1)
<1>1. slack \in Nat /\ Granule \in Nat \ {0} /\ mixed \in Nat
  BY SizesAssumption DEF Span, FixedRegions, Words
<1>2. granules \in Nat /\ Granule * granules <= slack
  BY <1>1, DivMod
<1>3. shift \in 0 .. granules
  <2>1. granules + 1 \in Nat \ {0}
    BY <1>2
  <2> HIDE DEF granules
  <2>2. shift \in 0 .. (granules + 1) - 1
    BY <2>1, <1>1, DivMod
  <2> QED BY <2>2, <1>2
<1>4. shift * Granule \in Nat /\ shift * Granule <= Granule * granules
  <2> HIDE DEF shift, granules, slack
  <2> QED BY <1>1, <1>2, <1>3
<1> HIDE DEF shift, granules, slack
<1>5. AslrOffset(code_bytes, mixed) = IF mixed = 0 THEN 0 ELSE shift * Granule
  BY DEF AslrOffset, shift, granules, slack
<1>6. AslrOffset(code_bytes, mixed) \in 0 .. slack
  BY <1>1, <1>2, <1>4, <1>5, Granule * granules \in Nat
<1> QED BY <1>6 DEF slack

-----------------------------------------------------------------------------
\* What the steps of address_space_init keep: an accepted answer is a placing
\* of the rounded code size it was asked for.
Inv ==
  /\ TypeOK
  /\ RegionsTileTheSpace

\* Every name's region of a placing has natural bounds, and they tile the space.
LEMMA PlacedTiles ==
  ASSUME NEW code_size \in Words, NEW mixed \in Words, code_size # 0, Fits(code_size)
  PROVE  LET o == Placed(AlignUpPage(code_size), mixed) IN
         /\ o \in [Names -> [base : Nat, size : Nat]]
         /\ o["code"].size >= code_size
         /\ o["code"].base >= SpaceStart
         /\ End(o["code"])  = o["alias"].base
         /\ End(o["alias"]) = o["heap"].base
         /\ End(o["heap"])  = o["stack"].base
         /\ End(o["stack"]) = o["tls_io"].base
         /\ End(o["tls_io"]) <= SpaceEnd
<1> DEFINE bytes == AlignUpPage(code_size)
           shift == AslrOffset(bytes, mixed)
           o == Placed(bytes, mixed)
<1>1. bytes \in Nat /\ bytes >= code_size /\ bytes <= Span - FixedRegions
  BY AlignedIsNat DEF Fits
<1>2. shift \in Int /\ 0 <= shift /\ shift <= Span - FixedRegions - bytes
  <2> HIDE DEF bytes
  <2>1. shift \in 0 .. (Span - FixedRegions - bytes)
    BY <1>1, OffsetWithinSlack
  <2> QED BY <2>1
<1> HIDE DEF bytes, shift
<1>3. /\ o["code"]   = Region(SpaceStart + shift, bytes)
      /\ o["alias"]  = Region(SpaceStart + shift + bytes, AliasSize)
      /\ o["heap"]   = Region(SpaceStart + shift + bytes + AliasSize, HeapSize)
      /\ o["stack"]  = Region(SpaceStart + shift + bytes + AliasSize + HeapSize, StackSize)
      /\ o["tls_io"] = Region(SpaceStart + shift + bytes + AliasSize + HeapSize + StackSize,
                              TlsIoSize)
      /\ DOMAIN o = Names
      /\ o = [name \in Names |-> o[name]]
  BY DEF Placed, NoSpace, Names, shift
<1>4. \A name \in Names : o[name] \in [base : Nat, size : Nat]
  <2> HIDE DEF o
  <2> QED BY <1>1, <1>2, <1>3, SizesAssumption DEF Names, Region
<1> HIDE DEF o
<1>5. o \in [Names -> [base : Nat, size : Nat]]
  BY <1>3, <1>4
<1>6. /\ o["code"].size >= code_size
      /\ o["code"].base >= SpaceStart
      /\ End(o["code"])  = o["alias"].base
      /\ End(o["alias"]) = o["heap"].base
      /\ End(o["heap"])  = o["stack"].base
      /\ End(o["stack"]) = o["tls_io"].base
  BY <1>1, <1>2, <1>3, SizesAssumption DEF Region, End
<1>7. End(o["tls_io"]) <= SpaceEnd
  BY <1>1, <1>2, <1>3, SizesAssumption DEF Region, End, Span, FixedRegions
<1> QED BY <1>5, <1>6, <1>7 DEF o, bytes

LEMMA InitInv == Init => Inv
BY SizesAssumption DEF Init, Inv, TypeOK, RegionsTileTheSpace, NoSpace, Region, Words

LEMMA NextInv == Inv /\ [Next]_vars => Inv'
<1> SUFFICES ASSUME Inv, [Next]_vars PROVE Inv'
  OBVIOUS
<1>1. CASE UNCHANGED vars
  BY <1>1 DEF vars, Inv, TypeOK, RegionsTileTheSpace, End
<1>2. CASE Next
  <2>1. PICK type \in Types, code_size \in Words, mixed \in Words :
             AddressSpaceInit(type, code_size, mixed)
    BY <1>2 DEF Next
  <2>2. codeSize' = code_size
    BY <2>1 DEF AddressSpaceInit
  <2>3. CASE RefuseArguments(type, code_size)
    BY <2>2, <2>3 DEF RefuseArguments, Inv, TypeOK, RegionsTileTheSpace
  <2>4. CASE RefuseSize(type, code_size)
    BY <2>2, <2>4 DEF RefuseSize, Inv, TypeOK, RegionsTileTheSpace, NoSpace, Region
  <2>5. CASE Accept(type, code_size, mixed)
    <3> DEFINE o == Placed(AlignUpPage(code_size), mixed)
    <3>1. out' = o /\ result' = "ok" /\ code_size \in Nat /\ code_size > 0
      BY <2>5 DEF Accept, Words
    <3>2. /\ o \in [Names -> [base : Nat, size : Nat]]
          /\ o["code"].size >= code_size
          /\ o["code"].base >= SpaceStart
          /\ End(o["code"])  = o["alias"].base
          /\ End(o["alias"]) = o["heap"].base
          /\ End(o["heap"])  = o["stack"].base
          /\ End(o["stack"]) = o["tls_io"].base
          /\ End(o["tls_io"]) <= SpaceEnd
      BY <2>5, PlacedTiles DEF Accept
    <3> HIDE DEF o
    <3>3. TypeOK'
      BY <2>2, <3>1, <3>2 DEF TypeOK, Names
    <3>4. RegionsTileTheSpace'
      BY <2>2, <3>1, <3>2 DEF RegionsTileTheSpace, End
    <3> QED BY <3>3, <3>4 DEF Inv
  <2> QED BY <2>1, <2>3, <2>4, <2>5 DEF AddressSpaceInit
<1> QED BY <1>1, <1>2

LEMMA SpecInv == Spec => []Inv
BY InitInv, NextInv, PTL DEF Spec

\* The types of the answer and of its regions.
THEOREM TypeCorrect == Spec => []TypeOK
<1>1. Inv => TypeOK
  BY DEF Inv
<1> QED BY SpecInv, <1>1, PTL

\* Every accepted layout holds the code and tiles the space without overlap,
\* for every code size and every seed (address_space_init).
THEOREM Tiling == Spec => []RegionsTileTheSpace
<1>1. Inv => RegionsTileTheSpace
  BY DEF Inv
<1> QED BY SpecInv, <1>1, PTL

\* address_region_contains is exact on every region handed out, for every
\* address and size, those whose sum leaves the word included.
THEOREM Containment == Spec => []ContainmentExact
<1>1. Inv => ContainmentExact
  <2> SUFFICES ASSUME Inv, NEW name \in DOMAIN out, NEW gva \in Words, NEW size \in Words
               PROVE  Contains(out[name], gva, size) <=>
                        (gva >= out[name].base /\ gva + size <= End(out[name]))
    BY DEF ContainmentExact
  <2>1. out[name].base \in Nat /\ out[name].size \in Nat
    BY DEF Inv, TypeOK
  <2> QED BY <2>1 DEF Contains, End, Words
<1> QED BY SpecInv, <1>1, PTL
==============================================================================
