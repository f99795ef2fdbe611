-------------------------------- MODULE RomFS --------------------------------
(***************************************************************************)
(* The RomFS reader (core/hle/loader/romfs.c): opening an image, decoding  *)
(* entries, looking a path up through the bucket chains, reading a file.   *)
(*                                                                         *)
(* An image is what a builder makes of a tree, with at most one word       *)
(* replaced.  It is a function from word index to word; offsets and sizes  *)
(* are in bytes, as in the code.  A 64-bit field is its low word.  A name  *)
(* is one byte, padded to a word.  Paths are sequences of separators and   *)
(* names, with no two names next to each other.                            *)
(***************************************************************************)
EXTENDS Integers, Sequences, FiniteSets

CONSTANTS
  Dirs,           \* the tree's directories: [parent, name], the root first
  Files,          \* its files: [parent, name, size]
  Paths,          \* the paths asked for
  Damage,         \* words that may replace one word of the image
  Hash(_, _),     \* romfs_path_hash, of parent offset and name
  Buckets,        \* buckets of either hash table
  MaxNameBytes,   \* ROMFS_MAX_NAME_BYTES
  MaxTableBytes   \* ROMFS_MAX_TABLE_BYTES

VARIABLES
  image,    \* the words of the source
  intact,   \* whether no word was replaced
  fs,       \* the RomFS struct, or Closed
  lookup,   \* the path walk that is running, or NoLookup
  found     \* the outcome of the last call: [status, kind, entry], [status]

romVars == <<image, intact, fs, lookup, found>>

HeaderSize == 80
DirFixed   == 24
FileFixed  == 32
NameAlign  == 4
NoEntry    == 100000     \* ROMFS_NO_ENTRY: beyond every size and offset
RootOffset == 0
Sep        == 0          \* the path separator; names are positive
NameBytes  == 1

\* Tokens are numbers, and so are the hashes of names under an offset.
Tokens == UNION {{path[i] : i \in DOMAIN path} : path \in Paths}
ASSUME HashAssumption ==
  /\ Paths \subseteq Seq(Nat) /\ Buckets \in Nat \ {0} /\ MaxNameBytes \in Nat \ {0}
  /\ \A parent \in 0 .. NoEntry, name \in Tokens : Hash(parent, name) \in Nat
  /\ \A path \in Paths : \A i \in 1 .. Len(path) - 1 : path[i] = Sep \/ path[i + 1] = Sep

\* Every entry is under a directory of the tree.
ASSUME TreeAssumption ==
  /\ Dirs \in Seq([parent : Nat, name : Nat]) /\ Dirs # <<>>
  /\ Files \in Seq([parent : Nat, name : Nat, size : Nat])
  /\ \A d \in DOMAIN Dirs : Dirs[d].parent \in DOMAIN Dirs
  /\ \A f \in DOMAIN Files : Files[f].parent \in DOMAIN Dirs

Closed   == [status |-> "closed"]
NoLookup == [phase |-> "none"]
Failed(status) == [status |-> status]
NotFound == Failed("not found")
Invalid  == Failed("invalid")

-----------------------------------------------------------------------------
(* The image a builder makes.                                              *)

DirOffset(d)  == IF d = 1 THEN 0 ELSE DirFixed + (d - 2) * (DirFixed + NameAlign)
FileOffset(f) == (f - 1) * (FileFixed + NameAlign)
DirBucket(d)  == Hash(DirOffset(Dirs[d].parent), Dirs[d].name) % Buckets
FileBucket(f) == Hash(DirOffset(Files[f].parent), Files[f].name) % Buckets
Least(S, otherwise) == IF S = {} THEN otherwise ELSE CHOOSE x \in S : \A y \in S : x <= y

DirTableSize  == DirOffset(Len(Dirs) + 1)
FileTableSize == FileOffset(Len(Files) + 1)
DataBefore(f) ==
  LET sum[g \in 0 .. Len(Files)] == IF g = 0 THEN 0 ELSE sum[g - 1] + Files[g].size
  IN sum[f - 1]
HashSize == 4 * Buckets

DirHead(b) ==
  Least({DirOffset(d) : d \in {x \in 2 .. Len(Dirs) : DirBucket(x) = b}}, NoEntry)
FileHead(b) ==
  Least({FileOffset(f) : f \in {x \in DOMAIN Files : FileBucket(x) = b}}, NoEntry)
DirWords(d) ==
  <<DirOffset(Dirs[d].parent), NoEntry, NoEntry, NoEntry,
    IF d = 1 THEN NoEntry
    ELSE Least({DirOffset(x) : x \in {x \in d + 1 .. Len(Dirs) : DirBucket(x) = DirBucket(d)}},
               NoEntry)>>
  \o (IF d = 1 THEN <<0>> ELSE <<NameBytes, Dirs[d].name>>)
FileWords(f) ==
  <<DirOffset(Files[f].parent), NoEntry, DataBefore(f), 0, Files[f].size, 0,
    Least({FileOffset(x) : x \in {x \in f + 1 .. Len(Files) : FileBucket(x) = FileBucket(f)}},
          NoEntry), NameBytes, Files[f].name>>
Concat(s, n) ==
  LET upto[i \in 0 .. n] == IF i = 0 THEN <<>> ELSE upto[i - 1] \o s[i] IN upto[n]

Built ==
  LET dirHashAt  == HeaderSize
      dirAt      == dirHashAt + HashSize
      fileHashAt == dirAt + DirTableSize
      fileAt     == fileHashAt + HashSize
      dataAt     == fileAt + FileTableSize
  IN Concat([i \in 1 .. 10 |->
              <<<<HeaderSize, dirHashAt, HashSize, dirAt, DirTableSize, fileHashAt,
                 HashSize, fileAt, FileTableSize, dataAt>>[i], 0>>], 10)
     \o [b \in 1 .. Buckets |-> DirHead(b - 1)]
     \o Concat([d \in DOMAIN Dirs |-> DirWords(d)], Len(Dirs))
     \o [b \in 1 .. Buckets |-> FileHead(b - 1)]
     \o Concat([f \in DOMAIN Files |-> FileWords(f)], Len(Files))
     \o [i \in 1 .. (DataBefore(Len(Files) + 1) + 3) \div 4 |-> 0]

-----------------------------------------------------------------------------
(* romfs_open.                                                             *)

SourceSize == 4 * Len(image)
WordAtOffset(table, offset) == table[offset \div 4 + 1]
Field(i) == WordAtOffset(image, 8 * i)

ValidTable(range) ==
  /\ range.offset >= HeaderSize
  /\ range.offset <= SourceSize
  /\ range.size <= SourceSize - range.offset
Loaded(range) ==
  SubSeq(image, range.offset \div 4 + 1, (range.offset + range.size) \div 4)

\* Mutant of CheckEntry: the name is not held against the end of the table.
CheckEntryFixed(offset, fixed, size, nameLength) ==
  offset % NameAlign = 0 /\ nameLength <= MaxNameBytes

CheckEntry(offset, fixed, size, nameLength) ==
  /\ offset % NameAlign = 0
  /\ nameLength <= MaxNameBytes
  /\ nameLength <= size - offset - fixed

EntryFits(offset, fixed, size) ==
  offset # NoEntry /\ offset <= size /\ fixed <= size - offset

\* romfs_dir_entry and romfs_file_entry, on the tables of r.
DirEntry(r, offset) ==
  IF ~ EntryFits(offset, DirFixed, r.dirSize) THEN Invalid
  ELSE LET at(field) == WordAtOffset(r.dirs, offset + field) IN
       IF ~ CheckEntry(offset, DirFixed, r.dirSize, at(20)) THEN Invalid
       ELSE [status |-> "ok", offset |-> offset, parent |-> at(0), bytes |-> at(20),
             name |-> IF at(20) = 0 THEN NoEntry ELSE at(24), link |-> at(16)]

FileEntry(r, offset) ==
  IF ~ EntryFits(offset, FileFixed, r.fileSize) THEN Invalid
  ELSE LET at(field) == WordAtOffset(r.files, offset + field)
           region == SourceSize - r.data
       IN IF \/ ~ CheckEntry(offset, FileFixed, r.fileSize, at(28))
             \/ at(8) > region
             \/ at(16) > region - at(8)
          THEN Invalid
          ELSE [status |-> "ok", offset |-> offset, parent |-> at(0), bytes |-> at(28),
                name |-> IF at(28) = 0 THEN NoEntry ELSE at(32), link |-> at(24),
                data |-> r.data + at(8), size |-> at(16)]

OpenedFrom(dirHash, dirTable, fileHash, fileTable, data) ==
  [status |-> "ok", dirs |-> Loaded(dirTable), dirSize |-> dirTable.size,
   dirHeads |-> Loaded(dirHash), files |-> Loaded(fileTable),
   fileSize |-> fileTable.size, fileHeads |-> Loaded(fileHash), data |-> data]

Open ==
  LET range(i) == [offset |-> Field(i), size |-> Field(i + 1)]
      opened == OpenedFrom(range(1), range(3), range(5), range(7), Field(9))
  IN /\ fs = Closed
     /\ fs' = IF /\ SourceSize >= HeaderSize /\ Field(0) = HeaderSize
                 /\ \A i \in {1, 3, 5, 7} : ValidTable(range(i))
                 /\ range(1).size % 4 = 0 /\ range(5).size % 4 = 0
                 /\ range(1).size + range(3).size + range(5).size + range(7).size
                      <= MaxTableBytes
                 /\ Field(9) <= SourceSize
                 /\ DirEntry(opened, RootOffset).status = "ok"
              THEN opened ELSE Failed("refused")
     /\ UNCHANGED <<image, intact, lookup, found>>

-----------------------------------------------------------------------------
(* walk_to_parent, find_child_dir and find_child_file, one link at a time. *)

PathStart(path) == IF path # <<>> /\ path[1] = Sep THEN 2 ELSE 1
Trailing(path) ==
  path # <<>> /\ path[Len(path)] = Sep /\ Len(path) >= PathStart(path)
PathStop(path) == IF Trailing(path) THEN Len(path) - 1 ELSE Len(path)

\* Where the walk of path goes on when current is the directory reached and
\* cursor the next token: to an outcome, or to a chain.
Walk(kind, path, cursor, current) ==
  LET heads(k) == IF k = "dir" THEN fs.dirHeads ELSE fs.fileHeads
      chain(k, name, last) ==
        IF heads(k) = <<>> THEN NotFound
        ELSE [phase |-> "chain", table |-> k, parent |-> current, name |-> name,
              offset |-> heads(k)[(Hash(current, name) % Len(heads(k))) + 1],
              steps |-> 0, last |-> last, kind |-> kind, path |-> path,
              cursor |-> cursor + 2]
      atEnd == cursor > PathStop(path)
      isLeaf == cursor = PathStop(path)
  IN CASE atEnd /\ kind = "dir" -> DirEntry(fs, RootOffset)
       [] atEnd /\ kind = "file" -> Invalid
       [] ~ atEnd /\ path[cursor] = Sep -> Invalid
       [] isLeaf /\ path[cursor] # Sep /\ kind = "file" /\ Trailing(path) -> Invalid
       [] OTHER -> chain(IF isLeaf THEN kind ELSE "dir", path[cursor], isLeaf)

Goes(to, kind, path) ==
  IF "phase" \in DOMAIN to
  THEN lookup' = to /\ found' = Failed("running")
  ELSE /\ lookup' = NoLookup
       /\ found' = [field \in {"kind", "path"} \cup DOMAIN to |->
                     CASE field = "kind" -> kind
                       [] field = "path" -> path
                       [] OTHER -> to[field]]

\* Bound: one lookup is asked for; a call leaves nothing behind in the struct
\* for the next to find.
Find(kind, path) ==
  /\ fs.status = "ok" /\ lookup = NoLookup /\ found = Failed("none")
  /\ Goes(Walk(kind, path, PathStart(path), RootOffset), kind, path)
  /\ UNCHANGED <<image, intact, fs>>

\* Bound: the counter of a chain's steps stays here once it got here; no
\* table of the runs has room for as many entries.
StepsCounted == 20

\* Mutant of MaxSteps: the chain is followed for as long as it goes.
MaxStepsUnbounded(table) == StepsCounted + 1
MaxSteps(table) ==
  IF table = "dir" THEN fs.dirSize \div DirFixed + 1 ELSE fs.fileSize \div FileFixed + 1

\* Mutant of Matches: the parent is not compared.
MatchesName(entry) == entry.bytes = NameBytes /\ entry.name = lookup.name

\* The comparison with the entry just decoded.
Matches(entry) ==
  entry.parent = lookup.parent /\ entry.bytes = NameBytes /\ entry.name = lookup.name

\* One iteration of the chain's loop.
ChainStep ==
  LET entry == IF lookup.table = "dir" THEN DirEntry(fs, lookup.offset)
                                       ELSE FileEntry(fs, lookup.offset)
  IN /\ lookup.phase = "chain"
     /\ Goes(CASE lookup.offset = NoEntry -> NotFound
               [] lookup.offset # NoEntry /\ lookup.steps >= MaxSteps(lookup.table) -> Invalid
               [] OTHER ->
                    IF entry.status # "ok" THEN entry
                    ELSE IF ~ Matches(entry)
                    THEN [lookup EXCEPT !.offset = entry.link,
                                        !.steps = IF @ < StepsCounted THEN @ + 1 ELSE @]
                    ELSE IF lookup.last THEN entry
                    ELSE Walk(lookup.kind, lookup.path, lookup.cursor, entry.offset),
             lookup.kind, lookup.path)
     /\ UNCHANGED <<image, intact, fs>>

\* romfs_read_file of a file that was found, and romfs_file_source.
ReadFile(offset, size) ==
  /\ lookup = NoLookup /\ found.status = "ok" /\ found.kind = "file"
  /\ found' = IF offset > found.size \/ size > found.size - offset THEN Invalid
              ELSE [status |-> "read", kind |-> "file", from |-> found.data + offset,
                    size |-> size, data |-> found.data, end |-> found.data + found.size]
  /\ UNCHANGED <<image, intact, fs, lookup>>

-----------------------------------------------------------------------------
AnImage ==
  \/ image = Built /\ intact = TRUE
  \/ \E i \in DOMAIN Built, w \in Damage :
       w # Built[i] /\ image = [Built EXCEPT ![i] = w] /\ intact = FALSE
RomStart == fs = Closed /\ lookup = NoLookup /\ found = Failed("none")

RomNext ==
  \/ Open
  \/ \E kind \in {"dir", "file"}, path \in Paths : Find(kind, path)
  \/ ChainStep
  \/ \E offset, size \in {0, 4, 8} : ReadFile(offset, size)

\* The reader over an image of any words, as long as its sizes are below the
\* mark of no entry.
AnyImage ==
  image \in Seq(Nat) /\ SourceSize < NoEntry /\ intact = (image = Built)
RomSpec == AnyImage /\ RomStart /\ [][RomNext]_romVars

-----------------------------------------------------------------------------
(* Properties.                                                             *)

\* What a lookup hands out of any image lies inside its table, name
\* included, and a file's data, and every byte read of it, inside the source:
\* a corrupt link, length or header never leads outside.
HandedOutInside ==
  /\ found.status = "ok" =>
       LET isDir == found.kind = "dir" IN
       /\ found.offset % NameAlign = 0
       /\ found.offset + (IF isDir THEN DirFixed ELSE FileFixed) + found.bytes
            <= (IF isDir THEN fs.dirSize ELSE fs.fileSize)
       /\ ~ isDir => found.data >= 0 /\ found.data + found.size <= SourceSize
  /\ found.status = "read" =>
       found.from >= found.data /\ found.from + found.size <= found.end

\* The tree's own answer: the directory the first n names lead to, and the
\* place in Dirs or Files of a path.
DirAt(names, n) ==
  LET place[k \in 0 .. Len(names)] ==
        IF k = 0 THEN 1
        ELSE Least({d \in 2 .. Len(Dirs) :
                      Dirs[d].parent = place[k - 1] /\ Dirs[d].name = names[k]}, 0)
  IN place[n]
Components(path) ==
  LET upto[i \in 0 .. Len(path)] ==
        IF i = 0 THEN <<>>
        ELSE IF path[i] = Sep THEN upto[i - 1] ELSE Append(upto[i - 1], path[i])
  IN upto[Len(path)]
HasEmptyComponent(path) ==
  \E i \in 1 .. Len(path) - 1 : path[i] = Sep /\ path[i + 1] = Sep
Answer(kind, path) ==
  LET names == Components(path)
      dir   == DirAt(names, Len(names))
      file  == Least({f \in DOMAIN Files : Files[f].parent = DirAt(names, Len(names) - 1)
                        /\ Files[f].name = names[Len(names)]}, 0)
  IN IF kind = "dir" THEN (IF dir = 0 THEN NoEntry ELSE DirOffset(dir))
     ELSE IF names = <<>> \/ path[Len(path)] = Sep THEN NoEntry
     ELSE IF file = 0 THEN NoEntry ELSE FileOffset(file)

\* In an image as built, a path without empty components leads to exactly
\* the entry the tree has for it, and to none if the tree has none, however
\* entries share buckets and names repeat under different parents.
LookupAgreesWithTree ==
  intact /\ "path" \in DOMAIN found /\ ~ HasEmptyComponent(found.path) =>
    LET answer == Answer(found.kind, found.path) IN
    IF answer = NoEntry THEN found.status # "ok"
    ELSE found.status = "ok" /\ found.offset = answer

\* A lookup that has begun ends, even on a chain a corrupt link closed into
\* a ring.
LookupEnds == (lookup.phase = "chain") ~> (lookup.phase = "none")
=============================================================================
