------------------------------- MODULE Loader --------------------------------
(***************************************************************************)
(* The road from an NCA to the images of a process: byte sources and their *)
(* slices (core/hle/loader/byte_source.c), the NCA header and its sections *)
(* (nca_parse.c), the ExeFS directory (exefs.c), the NSOs (nso.c), in the  *)
(* order emulator_load_program and process_bootstrap run them, with the    *)
(* scratch arena (core/common/arena.c) they share.                         *)
(*                                                                         *)
(* A package is a record of the fields that are read.  Every number in it  *)
(* is the file's own.  Offsets are taken modulo Limit, sizes handed to the *)
(* arena modulo SizeLimit.  A source is the sequence of its windows, from  *)
(* the file itself to the innermost slice.  The descriptor's contents are  *)
(* in NPDM, pages and mappings in ProcessMemory.                           *)
(***************************************************************************)
EXTENDS Integers, Sequences, FiniteSets

CONSTANTS
  Packages,        \* the files that may be loaded
  Limit,           \* 2^64: of file offsets
  SizeLimit,       \* 2^32: of size_t in the WebAssembly build
  NcaHeader, Unit, \* NCA_HEADER_SIZE, NCA_MEDIA_UNIT_SIZE
  MaxLayers, MaxLevels,             \* NCA_SHA256_MAX_LAYERS, NCA_IVFC_MAX_LEVELS
  ProbeBytes,                       \* NCA_PROBE_BYTES
  ExefsHeader, ExefsEntry,          \* EXEFS_HEADER_SIZE, EXEFS_ENTRY_SIZE
  EntryBytes, EntryAlign,           \* sizeof and _Alignof of ExeFS_Entry
  MaxFiles, MaxStrings,             \* the caps of the ExeFS directory
  MaxNpdm,                          \* NPDM_MAX_FILE_BYTES
  NsoHeader, NsoPage,               \* NSO_HEADER_SIZE, NSO_SEGMENT_ALIGNMENT
  MaxSegment, Lz4Max,               \* NSO_MAX_SEGMENT_BYTES, LZ4_MAX_INPUT_SIZE
  MaxName,                          \* NSO_MAX_MODULE_NAME_BYTES
  ArenaBytes,      \* EMULATOR_LOADER_ARENA_BYTES
  ModuleNames      \* module_name_at, in load order

\* The caps leave no sum of the arena's room to wrap in size_t.
SizesFit ==
  /\ ArenaBytes + Lz4Max < SizeLimit
  /\ (MaxFiles * ExefsEntry) + (MaxStrings + 1) + EntryAlign + (MaxFiles * EntryBytes)
       + MaxNpdm + ArenaBytes < SizeLimit
ASSUME LoaderAssumption ==
  /\ {Limit, SizeLimit, NcaHeader, Unit, MaxLayers, MaxLevels, ProbeBytes, ExefsHeader,
      MaxStrings, NsoHeader, MaxSegment, MaxName, ArenaBytes} \subseteq Nat
  /\ {MaxFiles, ExefsEntry, EntryBytes, EntryAlign, MaxNpdm, NsoPage, Lz4Max}
       \subseteq Nat \ {0}
  /\ SizesFit /\ ModuleNames \in Seq(STRING)

\* The fields of a file are unsigned numbers, and its size is one too.
Window == [offset : Nat, size : Nat]
SectionNumbers(s) ==
  /\ {s.start, s.end, s.layers} \subseteq Nat
  /\ \A n \in 1 .. MaxLayers \cup 1 .. MaxLevels : s.regions[n] \in Window
DirectoryNumbers(d) ==
  /\ {d.count, d.strings} \subseteq Nat
  /\ \A i \in 1 .. d.count : {d.files[i].offset, d.files[i].size} \subseteq Nat
NsoNumbers(nso) ==
  /\ {nso.bss, nso.name.offset, nso.name.size} \subseteq Nat
  /\ \A k \in 1 .. 3 : LET s == nso.segments[k] IN {s.file, s.fileSize, s.at, s.size} \subseteq Nat
ASSUME PackagesAssumption ==
  \A p \in Packages :
    /\ p.size \in Nat /\ p.size < Limit /\ p.contentSize \in Nat
    /\ DOMAIN p.sections \subseteq Nat
    /\ \A i \in DOMAIN p.sections : SectionNumbers(p.sections[i])
    /\ DirectoryNumbers(p.exefs)
    /\ \A i \in DOMAIN ModuleNames : NsoNumbers(p.nsos[ModuleNames[i]])

VARIABLES
  package,   \* the file
  loading,   \* what is next, "loaded" or "refused"
  sections,  \* the NCA_Section_Info of each section, by index
  exefs,     \* the sources and entries of the directory, or NoDirectory
  modules,   \* the NSOs opened, by place in ModuleNames: source, header, image size
  segment,   \* the segment that is next: module, kind
  arena,     \* bytes used, and the range each thing that is kept there got
  reads      \* history: every read the last step made

loaderVars == <<package, loading, sections, exefs, modules, segment, arena, reads>>

Lowest(S) == CHOOSE i \in S : \A j \in S : i <= j
Smaller(a, b) == IF a < b THEN a ELSE b
AlignUp(value) == ((value + NsoPage - 1) \div NsoPage) * NsoPage
InRange(offset, size, total) == offset <= total /\ size <= total - offset
RefuseLoad == loading' = "refused"
NoDirectory == [source |-> <<>>, entries |-> <<>>]
TheFile == <<[offset |-> 0, size |-> package.size]>>

-----------------------------------------------------------------------------
(* byte_source_slice and byte_source_read, level by level.                 *)

SizeOf(source) == source[Len(source)].size
Slice(source, offset, size) == Append(source, [offset |-> offset, size |-> size])

\* Mutant of Place: a slice of a slice is taken of the file.
PlaceFlattened(source, offset) ==
  [k \in 0 .. Len(source) |->
     IF k = Len(source) THEN offset ELSE (offset + source[Len(source)].offset) % Limit]

\* Where offset of source lies at each level; level 0 is the file's storage.
Place(source, offset) ==
  LET at[k \in 0 .. Len(source)] ==
        IF k = Len(source) THEN offset ELSE (at[k + 1] + source[k + 1].offset) % Limit
  IN at

CanRead(source, offset, size) ==
  size = 0 \/ \A k \in DOMAIN source : InRange(Place(source, offset)[k], size, source[k].size)

\* A reader is a sequence of steps, each what is checked before a read, and
\* the read.  It goes on as long as the checks hold and the reads succeed.
ReadStep(checks, source, offset, size) ==
  [checks |-> checks, source |-> source, offset |-> offset, size |-> size]
Succeeds(step) == step.checks /\ CanRead(step.source, step.offset, step.size)
AllSucceed(steps) == \A n \in DOMAIN steps : Succeeds(steps[n])

\* What reaches the file: a read of nothing does not.
ReadDone(step) == [source |-> step.source, offset |-> step.offset,
                   from |-> Place(step.source, step.offset)[0], size |-> step.size]
ReadsOf(steps) ==
  {ReadDone(steps[n]) : n \in {n \in DOMAIN steps :
                                steps[n].size > 0 /\ \A m \in 1 .. n : Succeeds(steps[m])}}

-----------------------------------------------------------------------------
(* The arena: a cursor over a block, in size_t.                            *)

Aligned(used, alignment) ==
  (((used + alignment - 1) % SizeLimit) \div alignment) * alignment
Claim(used, alignment, size) == [from |-> Aligned(used, alignment), size |-> size]
RangeEnd(range) == (range.from + range.size) % SizeLimit
Granted(range) == RangeEnd(range) <= ArenaBytes
AtLeastOne(size) == IF size = 0 THEN 1 ELSE size

\* What the loader keeps in the arena.
Kept == {"table", "strings", "entries", "npdm"}
EmptyArena == [used |-> 0, ranges |-> [k \in Kept \cup {"staging"} |-> [from |-> 0, size |-> 0]]]

-----------------------------------------------------------------------------
(* nca_open.                                                               *)

Absent(s) == s.start = 0 /\ s.end = 0
SectionSize(s) == (s.end - s.start) * Unit

\* locate_section_data: the payload's range by hash type; layers is the
\* count the header gives, regions what it says of each.
LocatesData(s) ==
  CASE s.hash = "none"   -> TRUE
    [] s.hash = "sha256" -> s.layers >= 1 /\ s.layers <= MaxLayers
    [] s.hash = "ivfc"   -> s.magic /\ s.layers >= 2 /\ s.layers - 2 < MaxLevels
    [] OTHER             -> FALSE
DataRange(s) ==
  CASE s.hash = "none"   -> [offset |-> 0, size |-> SectionSize(s)]
    [] s.hash = "sha256" -> s.regions[s.layers]
    [] s.hash = "ivfc"   -> s.regions[s.layers - 1]

\* Mutant of DataFits: only the slice's check of the whole file is left.
DataFitsFile(s) == TRUE

DataFits(s) == InRange(DataRange(s).offset, DataRange(s).size, SectionSize(s))

ParsesSection(s) ==
  Absent(s) \/ /\ s.end >= s.start /\ s.version /\ s.fs \in {"romfs", "partition"}
               /\ LocatesData(s) /\ DataFits(s)
Parsed(s) ==
  IF Absent(s) THEN [present |-> FALSE]
  ELSE [present |-> TRUE, offset |-> s.start * Unit, size |-> SectionSize(s), fs |-> s.fs,
        data |-> s.start * Unit + DataRange(s).offset, dataSize |-> DataRange(s).size,
        readable |-> ~ s.unsupported]

ParsesHeader == /\ package.magic \in {"NCA2", "NCA3"} /\ package.distribution \in {0, 1}
                /\ package.content \in 0 .. 5
                /\ \A i \in DOMAIN package.sections : ParsesSection(package.sections[i])

SectionFits(p) ==
  /\ InRange(p.offset, p.size, package.contentSize)
  /\ InRange(p.data, p.dataSize, package.size)

OpenNca ==
  LET parsed == [i \in DOMAIN package.sections |-> Parsed(package.sections[i])]
      steps  == <<ReadStep(package.size >= NcaHeader, TheFile, 0, NcaHeader)>>
      opens  == /\ AllSucceed(steps)
                /\ ParsesHeader
                /\ package.contentSize <= package.size
                /\ \A i \in DOMAIN parsed : parsed[i].present => SectionFits(parsed[i])
  IN /\ loading = "nca"
     /\ IF opens THEN loading' = "exefs" /\ sections' = parsed
                 ELSE RefuseLoad /\ UNCHANGED sections
     /\ reads' = ReadsOf(steps)
     /\ UNCHANGED <<package, exefs, modules, segment, arena>>

\* nca_find_section of the ExeFS: the first present partition.
Partitions == {i \in DOMAIN sections : sections[i].present /\ sections[i].fs = "partition"}
ExefsSection == Lowest(Partitions)
SectionSource(i) == Slice(TheFile, sections[i].data, sections[i].dataSize)

-----------------------------------------------------------------------------
(* nca_probe_section and exefs_open.                                       *)

Directory == package.exefs
StringsAt == ExefsHeader + Directory.count * ExefsEntry
DataAt    == StringsAt + Directory.strings
ProbeSize(source) == Smaller(SizeOf(source), ProbeBytes)

\* What exefs_open takes: the raw table, the names and a byte to end them,
\* and the decoded entries.  It asks for all three before it looks at any.
DirectoryRanges ==
  LET table   == Claim(arena.used, 1, AtLeastOne(Directory.count * ExefsEntry))
      strings == Claim(RangeEnd(table), 1, Directory.strings + 1)
      entries == Claim(RangeEnd(strings), EntryAlign, AtLeastOne(Directory.count) * EntryBytes)
  IN [table |-> table, strings |-> strings, entries |-> entries]

\* The probe needs the four bytes of the magic.
DirectorySteps(source) ==
  <<ReadStep(TRUE, source, 0, ProbeSize(source)),
    ReadStep(ProbeSize(source) >= 4 /\ Directory.magic, source, 0, ExefsHeader),
    ReadStep(/\ Directory.count <= MaxFiles /\ Directory.strings <= MaxStrings
             /\ DataAt <= SizeOf(source)
             /\ \A k \in DOMAIN DirectoryRanges : Granted(DirectoryRanges[k]),
             source, ExefsHeader, Directory.count * ExefsEntry),
    ReadStep(TRUE, source, StringsAt, Directory.strings)>>

\* A load that is refused destroys the arena.
OpenExefs ==
  LET source == SectionSource(ExefsSection)
      steps  == DirectorySteps(source)
      region == SizeOf(source) - DataAt
      begins == package.content = 0 /\ Partitions # {} /\ sections[ExefsSection].readable
      opens  == /\ AllSucceed(steps)
                /\ \A i \in 1 .. Directory.count :
                     LET f == Directory.files[i] IN
                     InRange(f.offset, f.size, region) /\ f.nameEnds
  IN /\ loading = "exefs"
     /\ IF begins /\ opens
        THEN /\ loading' = "npdm"
             /\ exefs' = [source |-> source,
                          entries |-> [i \in 1 .. Directory.count |->
                            [name |-> Directory.files[i].name,
                             offset |-> DataAt + Directory.files[i].offset,
                             size |-> Directory.files[i].size]]]
             /\ arena' = [used |-> RangeEnd(DirectoryRanges.entries),
                          ranges |-> [k \in DOMAIN arena.ranges |->
                            IF k \in DOMAIN DirectoryRanges THEN DirectoryRanges[k]
                            ELSE arena.ranges[k]]]
        ELSE RefuseLoad /\ UNCHANGED <<exefs, arena>>
     /\ reads' = IF begins THEN ReadsOf(steps) ELSE {}
     /\ UNCHANGED <<package, sections, modules, segment>>

\* exefs_find: the first entry of that name.
Named(name) == {i \in DOMAIN exefs.entries : exefs.entries[i].name = name}
Entry(name) == exefs.entries[Lowest(Named(name))]

ReadNpdm ==
  LET entry == Entry("npdm")
      range == Claim(arena.used, 1, entry.size)
      steps == <<ReadStep(entry.size <= MaxNpdm /\ Granted(range),
                          exefs.source, entry.offset, entry.size)>>
  IN /\ loading = "npdm"
     /\ IF Named("npdm") # {} /\ AllSucceed(steps)
        THEN /\ loading' = "modules"
             /\ arena' = [arena EXCEPT !.used = RangeEnd(range), !.ranges["npdm"] = range]
        ELSE RefuseLoad /\ UNCHANGED arena
     /\ reads' = IF Named("npdm") # {} THEN ReadsOf(steps) ELSE {}
     /\ UNCHANGED <<package, sections, exefs, modules, segment>>

-----------------------------------------------------------------------------
(* nso_open, for each module that is there, in load order.                 *)

Kinds == 1 .. 3   \* .text, .rodata, .data

SegmentFits(s, size) ==
  /\ s.size <= MaxSegment
  /\ InRange(s.file, s.fileSize, size)
  /\ s.lz4 \/ s.fileSize = s.size
  /\ s.at % NsoPage = 0

\* Mutant of Ascending: a segment is held against its predecessor's start.
AscendingStarts(segments) == \A k \in {2, 3} : segments[k].at >= segments[k - 1].at

Ascending(segments) ==
  \A k \in {2, 3} : segments[k].at >= segments[k - 1].at + segments[k - 1].size

ImageSize(nso) == AlignUp(nso.segments[3].at + nso.segments[3].size + nso.bss)

OpensNso(nso, size) ==
  /\ size >= NsoHeader /\ nso.magic /\ ~ nso.zstd
  /\ \A k \in Kinds : SegmentFits(nso.segments[k], size)
  /\ Ascending(nso.segments)
  /\ nso.subsection.size = 0
     \/ InRange(nso.subsection.offset, nso.subsection.size, nso.segments[2].size)
  /\ nso.name.size = 0 \/ InRange(nso.name.offset, nso.name.size, size)

\* A name longer than its buffer is cut off.
NsoSteps(source, nso) ==
  <<ReadStep(SizeOf(source) >= NsoHeader, source, 0, NsoHeader),
    ReadStep(OpensNso(nso, SizeOf(source)),
             source, nso.name.offset, Smaller(nso.name.size, MaxName))>>

\* Pass 1 of process_bootstrap: the modules in order, up to the first that
\* does not open.  The main module is the second of the order.
OpenModules ==
  LET present   == {i \in DOMAIN ModuleNames : Named(ModuleNames[i]) # {}}
      entry(i)  == Entry(ModuleNames[i])
      source(i) == Slice(exefs.source, entry(i).offset, entry(i).size)
      nso(i)    == package.nsos[ModuleNames[i]]
      slices(i) == InRange(entry(i).offset, entry(i).size, SizeOf(exefs.source))
      opens(i)  == slices(i) /\ AllSucceed(NsoSteps(source(i), nso(i)))
      reached   == {i \in present : slices(i) /\ \A j \in present : j < i => opens(j)}
  IN /\ loading = "modules"
     /\ IF 2 \in present /\ \A i \in present : opens(i)
        THEN /\ loading' = "segments"
             /\ modules' = [i \in present |->
                  [source |-> source(i), nso |-> nso(i), image |-> ImageSize(nso(i))]]
             /\ segment' = [module |-> Lowest(present), kind |-> 1]
        ELSE RefuseLoad /\ UNCHANGED <<modules, segment>>
     /\ reads' = UNION {ReadsOf(NsoSteps(source(i), nso(i))) : i \in reached}
     /\ UNCHANGED <<package, sections, exefs, arena>>

\* Mutant of WithinLz4: the sizes are left to the arena.
WithinLz4Unchecked(s) == TRUE

WithinLz4(s) == s.fileSize <= Lz4Max /\ s.size <= Lz4Max

\* nso_read_segment into the image, straight or through the arena, which is
\* rewound before the next; the image of an empty module is not mapped.
ReadSegment ==
  LET module == modules[segment.module]
      s      == module.nso.segments[segment.kind]
      later  == {i \in DOMAIN modules : i > segment.module}
      range  == Claim(arena.used, 1, AtLeastOne(s.fileSize))
      stages == s.lz4 /\ WithinLz4(s) /\ Granted(range)
      steps  == <<ReadStep(module.image > 0 /\ (s.lz4 => stages),
                           module.source, s.file, s.fileSize)>>
  IN /\ loading = "segments"
     /\ IF AllSucceed(steps) /\ (s.lz4 => s.decodesTo = s.size)
        THEN /\ loading' = IF segment.kind = 3 /\ later = {} THEN "loaded" ELSE loading
             /\ segment' = IF segment.kind < 3 THEN [segment EXCEPT !.kind = @ + 1]
                           ELSE IF later # {} THEN [module |-> Lowest(later), kind |-> 1]
                           ELSE segment
        ELSE RefuseLoad /\ UNCHANGED segment
     /\ arena' = IF module.image > 0 /\ stages
                 THEN [arena EXCEPT !.ranges["staging"] = range] ELSE arena
     /\ reads' = ReadsOf(steps)
     /\ UNCHANGED <<package, sections, exefs, modules>>

-----------------------------------------------------------------------------
LoaderStart ==
  /\ loading = "nca" /\ sections = <<>> /\ exefs = NoDirectory /\ modules = <<>>
  /\ segment = [module |-> 1, kind |-> 1]
  /\ arena = EmptyArena
  /\ reads = {}

LoaderNext == OpenNca \/ OpenExefs \/ ReadNpdm \/ OpenModules \/ ReadSegment

LoaderSpec == package \in Packages /\ LoaderStart /\ [][LoaderNext]_loaderVars

-----------------------------------------------------------------------------
(* Properties.                                                             *)

\* The start of a source in the file, with no width to wrap at.
Base(source) ==
  LET sum[k \in 0 .. Len(source)] == IF k = 0 THEN 0 ELSE sum[k - 1] + source[k].offset
  IN sum[Len(source)]

\* Every read the loader makes, of a header, a probe, a table, a name or a
\* segment, also on the way to a refusal: one that the innermost check lets
\* through reaches exactly the bytes it names of its section, entry or
\* module, inside every window it passes.  No sum of offsets wraps and no
\* two windows disagree.
ReadsStayInEveryWindow ==
  \A read \in reads :
    /\ read.from = Base(read.source) + read.offset
    /\ \A k \in DOMAIN read.source :
         LET start == Base(SubSeq(read.source, 1, k)) IN
         read.from >= start /\ read.from + read.size <= start + read.source[k].size

\* nca_parse.h: a section's payload lies within the section, and the section
\* within the content: no window reaches into a neighbouring section.
PayloadsInsideSections ==
  \A i \in DOMAIN sections :
    LET s == sections[i] IN
    s.present => /\ s.data >= s.offset
                 /\ s.data + s.dataSize <= s.offset + s.size
                 /\ s.offset + s.size <= package.contentSize

\* The image size that is taken from .data and .bss alone holds the other
\* segments too, and what is reprotected page by page is disjoint: no page
\* of an image is both code and data.
ImagesHoldTheirSegments ==
  \A i \in DOMAIN modules :
    LET m == modules[i]
        s == m.nso.segments
        pages(k) == {p \in 0 .. m.image \div NsoPage : p * NsoPage >= s[k].at
                                          /\ p * NsoPage < s[k].at + s[k].size}
    IN /\ \A k \in Kinds : s[k].at + AlignUp(s[k].size) <= m.image
       /\ \A j, k \in Kinds : j # k => pages(j) \cap pages(k) = {}

\* What is kept in the arena: the raw directory, its names with a byte to
\* end them, the decoded entries where their alignment puts them, and the
\* descriptor.
DirectoryUse ==
  LET named == AtLeastOne(Directory.count * ExefsEntry) + Directory.strings + 1
  IN (((named + EntryAlign - 1) \div EntryAlign) * EntryAlign)
       + AtLeastOne(Directory.count) * EntryBytes

RangeBytes(range) == range.from .. (range.from + range.size - 1)

\* What was granted lies inside the arena and overlaps nothing that is still
\* in use, although the arena adds in size_t: staging a segment writes over
\* neither the directory nor the descriptor, and gives back what it took.
ScratchInsideArena ==
  /\ \A k \in DOMAIN arena.ranges :
       RangeBytes(arena.ranges[k]) \subseteq 0 .. (ArenaBytes - 1)
  /\ \A j, k \in DOMAIN arena.ranges :
       j # k => RangeBytes(arena.ranges[j]) \cap RangeBytes(arena.ranges[k]) = {}
  /\ loading = "loaded" => arena.used = DirectoryUse + Entry("npdm").size
==============================================================================
