------------------------------ MODULE MCLoader ------------------------------
(***************************************************************************)
(* Bounds for Loader: eight-bit offsets and seven-bit sizes; one good      *)
(* package with every range in turn replaced by every range whose ends lie *)
(* at, before or past a window's ends, and every other field by its limits.*)
(***************************************************************************)
EXTENDS Integers, Sequences

MCRange(offset, size) == [offset |-> offset, size |-> size]
MCSegment(file, fileSize, at, size, lz4) ==
  [file |-> file, fileSize |-> fileSize, at |-> at, size |-> size, lz4 |-> lz4,
   decodesTo |-> size]
MCNso == [magic |-> TRUE, zstd |-> FALSE, bss |-> 5,
          segments |-> <<MCSegment(6, 8, 0, 8, FALSE), MCSegment(14, 4, 8, 6, TRUE),
                         MCSegment(18, 4, 16, 4, FALSE)>>,
          subsection |-> MCRange(1, 5), name |-> MCRange(30, 2)]
MCFile(name, offset, size) ==
  [name |-> name, offset |-> offset, size |-> size, nameEnds |-> TRUE]
MCSection(start, end, fs) ==
  [start |-> start, end |-> end, fs |-> fs, version |-> TRUE, hash |-> "none",
   magic |-> TRUE, layers |-> 2, unsupported |-> FALSE,
   regions |-> [i \in 1 .. 9 |-> MCRange(4 * i, 60)]]
MCGood ==
  [size |-> 230, magic |-> "NCA3", distribution |-> 0, content |-> 0, contentSize |-> 228,
   sections |-> <<MCSection(54, 56, "romfs"), MCSection(2, 54, "partition"),
                  MCSection(0, 0, "romfs")>>,
   exefs |-> [magic |-> TRUE, count |-> 3, strings |-> 4,
              files |-> <<MCFile("npdm", 0, 8), MCFile("main", 8, 150),
                          MCFile("sdk", 158, 35), MCFile("rtld", 0, 8)>>],
   nsos |-> [name \in {"rtld", "main", "sdk"} |-> MCNso]]

MCValues == {0, 1, 4, 6, 8, 35, 84, 140, 141, 150, 151, 193, 208, 230, 255}
MCRanges == {MCRange(o, s) : o, s \in MCValues}
MCSegments ==
  {MCSegment(f, n, at, n, z) : f \in {0, 6, 250}, n \in {0, 1, 8, 16, 17, 140, 141}, at \in {0, 4, 8, 16, 24},
                               z \in BOOLEAN}
MCMain == MCGood.nsos["main"]
MCPackages ==
  {MCGood}
  \cup {[MCGood EXCEPT !.size = v] : v \in {3, 4, 227, 228, 229}}
  \cup {[MCGood EXCEPT !.contentSize = v] : v \in {223, 224, 230, 231}}
  \cup {[MCGood EXCEPT !.magic = v] : v \in {"NCA0", "NCA2", "noise"}}
  \cup {[MCGood EXCEPT !.content = v] : v \in {1, 6}}
  \cup {[MCGood EXCEPT !.distribution = 2], [MCGood EXCEPT !.sections[2].version = FALSE],
        [MCGood EXCEPT !.sections[2].unsupported = TRUE],
        [MCGood EXCEPT !.sections[2].fs = "romfs"], [MCGood EXCEPT !.exefs.magic = FALSE],
        [MCGood EXCEPT !.exefs.files[2].nameEnds = FALSE],
        [MCGood EXCEPT !.exefs.files[2].name = "npdm"],
        [MCGood EXCEPT !.exefs.files[3].name = "rtld"],
        [MCGood EXCEPT !.exefs.files[3].name = "rtld", !.nsos["main"].zstd = TRUE],
        [MCGood EXCEPT !.nsos["main"].zstd = TRUE],
        [MCGood EXCEPT !.nsos["main"].segments[2].decodesTo = 7]}
  \cup {[MCGood EXCEPT !.sections[2].hash = h, !.sections[2].layers = n,
                       !.sections[2].magic = m] :
          h \in {"auto", "sha256", "ivfc"}, n \in 0 .. 9, m \in BOOLEAN}
  \cup {[MCGood EXCEPT !.sections[2].hash = "sha256", !.sections[2].regions[2] = r] :
          r \in MCRanges}
  \cup {[MCGood EXCEPT !.sections[2].start = a, !.sections[2].end = b] :
          a, b \in {0, 1, 2, 3, 54, 57, 58}}
  \cup {[MCGood EXCEPT !.exefs.count = n, !.exefs.strings = m] :
          n \in {0, 1, 3, 4}, m \in {0, 4, 8, 24, 30, 31, 193, 250}}
  \cup {[MCGood EXCEPT !.exefs.files[i].offset = r.offset, !.exefs.files[i].size = r.size] :
          r \in MCRanges, i \in {1, 2}}
  \cup {[MCGood EXCEPT !.nsos["main"].segments[k] = s] : k \in 1 .. 3, s \in MCSegments}
  \cup {[MCGood EXCEPT !.nsos["main"].subsection = r] : r \in MCRanges}
  \cup {[MCGood EXCEPT !.nsos["main"].name = r] : r \in MCRanges}
MCModuleNames == <<"rtld", "main", "sdk">>
==============================================================================
