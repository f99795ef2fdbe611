------------------------- MODULE ProcessMemoryProofs -------------------------
(***************************************************************************)
(* Proofs about ProcessMemory.tla for every number of pages, frames,       *)
(* modules, loans and TLS pages: the safety invariants, the zeroing of     *)
(* fresh heap, and the refinement of GuestMemory.  The lemmas of           *)
(* PageAllocatorProofs carry the allocator's half.                         *)
(*                                                                         *)
(* The inductive invariant says of each region which of its pages are      *)
(* mapped and with which rights (the Laid conjuncts, functions of page and *)
(* the process record only), and of each handler in progress what it has   *)
(* done so far to the frames (the Held conjuncts).                         *)
(***************************************************************************)
EXTENDS ProcessMemory, FiniteSetTheorems, LoopLemmas, TLAPS

FP == INSTANCE PageAllocatorProofs

Loans    == DOMAIN heap_borrows
SrcOf(i) == FlatRange(heap_borrows[i].src_base, heap_borrows[i].size)
DstOf(i) == FlatRange(heap_borrows[i].dst_base, heap_borrows[i].size)
IsLent(v)  == \E i \in Loans : v \in SrcOf(i)
IsAlias(v) == \E i \in Loans : v \in DstOf(i)
InMainStack(v) == v \in RegionPages(main_thread_stack)
TlsEnd == TlsIo.base + Len(tls)
ImageAt(m) == FlatRange(ImagesBefore[m], ImageSize(m))
InImage(v) == \E m \in 1 .. module_count : v \in ImageAt(m)
Elsewhere(v) ==
  v \notin RegionPages(Heap) /\ v \notin RegionPages(Stack) /\ v \notin RegionPages(TlsIo)

(* The heap is the mapped prefix of its region. *)
HeapLaid ==
  \A v \in RegionPages(Heap) :
    /\ page[v] # Unmapped <=> v < HeapEnd
    /\ page[v] # Unmapped => page[v].perms = IF IsLent(v) THEN {} ELSE RW

StackLaid ==
  \A v \in RegionPages(Stack) :
    /\ page[v] # Unmapped <=> InMainStack(v) \/ IsAlias(v)
    /\ page[v] # Unmapped => page[v].perms = RW

TlsLaid ==
  /\ Len(tls) <= TlsIo.size
  /\ \A v \in RegionPages(TlsIo) : page[v] # Unmapped <=> v < TlsEnd

CodeLaid ==
  /\ \A v \in Pages : page[v] # Unmapped /\ Elsewhere(v) => InImage(v)
  /\ \A m \in 1 .. module_count : \A v \in ImageAt(m) : v \in Pages /\ page[v] # Unmapped

LoansLaid ==
  /\ \A i \in Loans :
       LET b == heap_borrows[i]
       IN /\ Heap.base <= b.src_base /\ b.src_base + b.size <= HeapEnd
          /\ Stack.base <= b.dst_base /\ b.dst_base + b.size <= Stack.base + Stack.size
          /\ \A k \in 0 .. (b.size - 1) :
               /\ page[b.dst_base + k].pa = page[b.src_base + k].pa
               /\ ~InMainStack(b.dst_base + k)
  /\ \A i, j \in Loans : i # j =>
       SrcOf(i) \cap SrcOf(j) = {} /\ DstOf(i) \cap DstOf(j) = {}

(* w is the address at which a loan of v shows. *)
AliasOf(w, v) ==
  \E i \in Loans : v \in SrcOf(i) /\ w = heap_borrows[i].dst_base + (v - heap_borrows[i].src_base)

SharedByLoan ==
  \A v, w \in Pages :
    page[v] # Unmapped /\ page[w] # Unmapped /\ v # w /\ page[v].pa = page[w].pa =>
      AliasOf(w, v) \/ AliasOf(v, w)

StackKnown ==
  main_thread_stack # NoRegion =>
    /\ main_thread_stack = [base |-> Stack.base + GuardPages, size |-> MainStackSize]
    /\ StackFits /\ MainStackSize > 0
    /\ module_count = Len(Modules)

Laid == HeapLaid /\ StackLaid /\ TlsLaid /\ LoansLaid /\ SharedByLoan

(* Nothing is mapped but the heap, all of it accessible, and the TLS pages. *)
Departing ==
  /\ \A v \in Pages : page[v] # Unmapped <=>
       \/ Heap.base <= v /\ v < HeapEnd
       \/ TlsIo.base <= v /\ v < TlsEnd
  /\ \A v \in RegionPages(Heap) : page[v] # Unmapped => page[v].perms = RW
  /\ Len(tls) <= TlsIo.size
  /\ \A v, w \in Pages :
       page[v] # Unmapped /\ page[w] # Unmapped /\ page[v].pa = page[w].pa => v = w

NoProcess ==
  /\ page = Nothing /\ held = {} /\ lost = {}
  /\ module_count = 0 /\ main_thread_stack = NoRegion
  /\ heap_size = 0 /\ heap_borrows = <<>> /\ tls = <<>>

(* The bootstrap's list holds what it mapped, and there is no more. *)
BootRecorded ==
  /\ heap_size = 0 /\ heap_borrows = <<>> /\ tls = <<>> /\ lost = {}
  /\ \A r \in call.ranges : \A v \in FlatRange(r[1], r[2]) : v \in Pages /\ page[v] # Unmapped
  /\ \A v \in Pages : page[v] # Unmapped => \E r \in call.ranges : v \in FlatRange(r[1], r[2])

Frame(v) == page[v].pa
BacksSome(pa) == \E v \in Pages : page[v] # Unmapped /\ Frame(v) = pa
Freed == {Frame(v) : v \in (Heap.base + call.requested) .. (call.next - 1)}

HeldByMap == held = Backing \cup lost /\ lost \cap Backing = {}
FreshRun  == FlatRange(call.pa, call.requested - heap_size)

HeldGrowing ==
  /\ held = Backing \cup lost \cup FreshRun
  /\ lost \cap Backing = {} /\ FreshRun \cap (Backing \cup lost) = {}

HeldShrinking ==
  /\ held \cup Freed = Backing \cup lost
  /\ lost \cap Backing = {} /\ held \cap Freed = {}

(* What the handler in progress knows. *)
Calls ==
  [at : {"unloaded", "running", "aborted"}]
    \cup [at : {"booting", "unwinding"}, ranges : SUBSET (Int \X Int)]
    \cup [at : {"growing"}, requested : Nat, pa : Nat]
    \cup [at : {"shrinking"}, requested : Nat, next : Nat, runs : Nat]
    \cup [at : {"leaving"}, next : Nat]

GrowingWell ==
  /\ SizeAccepted(call.requested) /\ call.requested > heap_size
  /\ call.pa + (call.requested - heap_size) <= PageCount
ShrinkingWell ==
  /\ SizeAccepted(call.requested) /\ call.requested < heap_size
  /\ Heap.base + call.requested <= call.next /\ call.next <= HeapEnd
  /\ \A v \in (Heap.base + call.requested) .. (HeapEnd - 1) : ~IsLent(v)
LeavingWell == Heap.base <= call.next /\ call.next <= HeapEnd

IInv ==
  /\ TypeOK /\ FP!IInv
  /\ call \in Calls
  /\ StackKnown /\ heap_size % Granule = 0
  /\ ~At("leaving") => Laid
  /\ ~At("leaving") /\ ~At("unwinding") => CodeLaid
  /\ At("leaving") => Departing /\ LeavingWell
  /\ At("unloaded") => NoProcess
  /\ At("booting") \/ At("unwinding") => BootRecorded
  /\ At("booting") \/ At("running") => HeldByMap
  /\ At("growing") => GrowingWell /\ HeldGrowing
  /\ At("shrinking") => ShrinkingWell /\ HeldShrinking
  /\ At("running") \/ At("growing") \/ At("shrinking") => main_thread_stack # NoRegion

-----------------------------------------------------------------------------
(* The constants. *)

LEMMA Ground ==
  /\ PageTotal \in Nat /\ PageCount \in Nat /\ PageCount > 0 /\ MaxFreeRuns \in Nat
  /\ CodeBase \in Nat /\ GuardPages \in Nat /\ MainStackSize \in Nat /\ MaxLoans \in Nat
  /\ Granule \in Nat /\ Granule > 0 /\ BlocksPerPage \in Nat /\ BlocksPerPage > 0
  /\ MaxTlsPages \in Nat /\ MaxTlsPages > 0
  /\ Heap.base \in Nat /\ Heap.size \in Nat /\ Heap.size > 0
  /\ Stack.base \in Nat /\ Stack.size \in Nat /\ Stack.size > 0
  /\ TlsIo.base \in Nat /\ TlsIo.size \in Nat /\ TlsIo.size > 0
  /\ PageArgs \subseteq Nat
<1>1. /\ {PageTotal, MaxFreeRuns, CodeBase, GuardPages, MainStackSize, MaxLoans} \subseteq Nat
      /\ {PageCount, Granule, BlocksPerPage, MaxTlsPages} \subseteq Nat \ {0}
      /\ {Heap, Stack, TlsIo} \subseteq [base : Nat, size : Nat \ {0}]
      /\ PageArgs \subseteq Nat
  BY SizesAssumption
<1>2. \A r \in {Heap, Stack, TlsIo} : r.base \in Nat /\ r.size \in Nat /\ r.size > 0
  BY <1>1
<1>3. \A n \in {PageCount, Granule, BlocksPerPage, MaxTlsPages} : n \in Nat /\ n > 0
  BY <1>1
<1> QED BY <1>1, <1>2, <1>3

LEMMA ModuleFacts ==
  /\ Len(Modules) \in Nat /\ Len(Modules) > 0 /\ DOMAIN Modules = 1 .. Len(Modules)
  /\ \A m \in 1 .. Len(Modules) :
       /\ Modules[m] \in [text : Nat, rodata : Nat, data : Nat]
       /\ ImageSize(m) \in Nat
       /\ ImageSize(m) = Modules[m].text + Modules[m].rodata + Modules[m].data
<1> DEFINE Segments == [text : Nat, rodata : Nat, data : Nat]
<1>1. Modules \in Seq(Segments) /\ Modules # <<>>
  BY SizesAssumption
<1>2. \A x \in Segments : x.text \in Nat /\ x.rodata \in Nat /\ x.data \in Nat
  OBVIOUS
<1>3. \A m \in 1 .. Len(Modules) : Modules[m] \in Segments
  <2> HIDE DEF Segments
  <2> QED BY <1>1
<1>4. Len(Modules) \in Nat /\ Len(Modules) > 0 /\ DOMAIN Modules = 1 .. Len(Modules)
  BY <1>1
<1> QED BY <1>2, <1>3, <1>4 DEF ImageSize

(* A function computed along 1 .. n exists, so ImagesBefore is the one its *)
(* definition describes.                                                   *)
ImageStarts(n) == [1 .. n -> Nat]
Computes(f, n) ==
  f = [m \in 1 .. n |-> IF m = 1 THEN CodeBase ELSE f[m - 1] + ImageSize(m - 1)]

LEMMA StartsExist ==
  \A n \in 0 .. Len(Modules) : \E f : f \in ImageStarts(n) /\ Computes(f, n)
<1> DEFINE Bad == {n \in 0 .. Len(Modules) : ~\E f : f \in ImageStarts(n) /\ Computes(f, n)}
<1> SUFFICES ASSUME Bad # {} PROVE FALSE
  OBVIOUS
<1>0. Bad \in SUBSET Nat
  BY ModuleFacts
<1>1. PICK n \in Bad : \A k \in Bad : n <= k
  BY <1>0, LeastMember
<1>2. n \in Nat /\ n <= Len(Modules) /\ ~\E f : f \in ImageStarts(n) /\ Computes(f, n)
  BY <1>1, ModuleFacts
<1>3. n # 0
  <2> DEFINE none == [m \in 1 .. 0 |-> 0]
  <2>1. none \in ImageStarts(0) /\ Computes(none, 0)
    BY DEF ImageStarts, Computes
  <2> QED BY <1>2, <2>1
<1>4. n - 1 \in 0 .. Len(Modules) /\ n - 1 \notin Bad
  <2>1. n - 1 \in 0 .. Len(Modules) /\ ~(n <= n - 1)
    BY <1>2, <1>3, ModuleFacts
  <2>2. ASSUME n - 1 \in Bad PROVE FALSE
    <3> HIDE DEF Bad
    <3> QED BY <1>1, <2>1, <2>2
  <2> QED BY <2>1, <2>2
<1> HIDE DEF Bad
<1>5. PICK f : f \in ImageStarts(n - 1) /\ Computes(f, n - 1)
  BY <1>4 DEF Bad
<1> DEFINE g == [m \in 1 .. n |-> IF m < n THEN f[m]
                                  ELSE IF m = 1 THEN CodeBase ELSE f[m - 1] + ImageSize(m - 1)]
<1>6. \A m \in 1 .. (n - 1) :
        f[m] \in Nat /\ f[m] = IF m = 1 THEN CodeBase ELSE f[m - 1] + ImageSize(m - 1)
  BY <1>5 DEF ImageStarts, Computes
<1>7. \A m \in 1 .. n : g[m] = IF m = 1 THEN CodeBase ELSE g[m - 1] + ImageSize(m - 1)
  BY <1>2, <1>3, <1>6
<1>8. ASSUME NEW m \in 1 .. n PROVE g[m] \in Nat
  <2>1. CASE m < n
    BY <1>2, <1>6, <2>1
  <2>2. CASE ~(m < n) /\ m = 1
    BY <1>2, <2>2, Ground
  <2>3. CASE ~(m < n) /\ m # 1
    <3>1. m - 1 \in 1 .. (n - 1) /\ m - 1 \in 1 .. Len(Modules)
      BY <1>2, <2>3, ModuleFacts
    <3>2. f[m - 1] \in Nat /\ ImageSize(m - 1) \in Nat
      BY <1>6, <3>1, ModuleFacts
    <3> QED BY <2>3, <3>2
  <2> QED BY <2>1, <2>2, <2>3
<1>9. g = [m \in 1 .. n |-> IF m = 1 THEN CodeBase ELSE g[m - 1] + ImageSize(m - 1)]
  BY <1>7
<1>10. g \in ImageStarts(n)
  BY <1>8 DEF ImageStarts
<1> HIDE DEF g
<1> QED BY <1>2, <1>9, <1>10 DEF Computes

LEMMA ImagesUnfold ==
  \A m \in 1 .. Len(Modules) :
    ImagesBefore[m] = IF m = 1 THEN CodeBase ELSE ImagesBefore[m - 1] + ImageSize(m - 1)
<1> DEFINE Body(f) ==
      [m \in 1 .. Len(Modules) |-> IF m = 1 THEN CodeBase ELSE f[m - 1] + ImageSize(m - 1)]
<1>1. PICK g : g = Body(g)
  BY StartsExist, ModuleFacts DEF Computes
<1>2. ImagesBefore = CHOOSE f : f = Body(f)
  BY DEF ImagesBefore
<1>3. ImagesBefore = Body(ImagesBefore)
  BY <1>1, <1>2
<1> QED BY <1>3

(* The images follow each other from CodeBase to CodeEnd. *)
LEMMA ImageBounds ==
  /\ CodeEnd \in Nat
  /\ \A m \in 1 .. Len(Modules) :
       /\ ImagesBefore[m] \in Nat /\ ImageSize(m) \in Nat
       /\ CodeBase <= ImagesBefore[m] /\ ImagesBefore[m] + ImageSize(m) <= CodeEnd
<1> DEFINE Low == {m \in 1 .. Len(Modules) : ~(ImagesBefore[m] \in Nat /\ CodeBase <= ImagesBefore[m])}
<1>1. \A m \in 1 .. Len(Modules) : ImagesBefore[m] \in Nat /\ CodeBase <= ImagesBefore[m]
  <2> SUFFICES ASSUME Low # {} PROVE FALSE
    OBVIOUS
  <2>0. Low \in SUBSET Nat
    BY ModuleFacts
  <2>1. PICK m \in Low : \A k \in Low : m <= k
    BY <2>0, LeastMember
  <2>2. m \in 1 .. Len(Modules)
    OBVIOUS
  <2>3. m # 1
    BY <2>1, <2>2, ImagesUnfold, Ground
  <2>4. m - 1 \in 1 .. Len(Modules) /\ m - 1 \notin Low
    <3>1. m - 1 \in 1 .. Len(Modules) /\ ~(m <= m - 1)
      BY <2>2, <2>3, ModuleFacts
    <3> HIDE DEF Low
    <3> QED BY <2>1, <3>1
  <2>5. ImagesBefore[m - 1] \in Nat /\ CodeBase <= ImagesBefore[m - 1]
    BY <2>4
  <2>6. ImagesBefore[m] = ImagesBefore[m - 1] + ImageSize(m - 1) /\ ImageSize(m - 1) \in Nat
    BY <2>2, <2>3, <2>4, ImagesUnfold, ModuleFacts
  <2>7. ImagesBefore[m] \in Nat /\ CodeBase <= ImagesBefore[m]
    BY <2>5, <2>6, Ground
  <2> QED BY <2>1, <2>7
<1>2. CodeEnd \in Nat
  BY <1>1, ModuleFacts DEF CodeEnd
<1> DEFINE End(m) == ImagesBefore[m] + ImageSize(m)
           High == {k \in 0 .. (Len(Modules) - 1) : ~(End(Len(Modules) - k) <= CodeEnd)}
<1>3. ASSUME NEW m \in 1 .. Len(Modules) PROVE End(m) <= CodeEnd
  <2>1. CASE High = {}
    <3>1. Len(Modules) - m \in 0 .. (Len(Modules) - 1) /\ Len(Modules) - m \notin High
      <4>1. Len(Modules) - m \in 0 .. (Len(Modules) - 1)
        BY ModuleFacts
      <4> HIDE DEF High
      <4> QED BY <2>1, <4>1
    <3>2. Len(Modules) - (Len(Modules) - m) = m
      BY ModuleFacts
    <3> QED BY <3>1, <3>2
  <2>2. CASE High # {}
    <3>0. High \in SUBSET Nat
      BY ModuleFacts
    <3>1. PICK k \in High : \A other \in High : k <= other
      BY <2>2, <3>0, LeastMember
    <3>2. k \in 0 .. (Len(Modules) - 1) /\ ~(End(Len(Modules) - k) <= CodeEnd)
      BY <3>1
    <3>3. k # 0
      <4>1. Len(Modules) - 0 = Len(Modules) /\ Len(Modules) \in 1 .. Len(Modules)
        BY ModuleFacts
      <4>2. End(Len(Modules)) = CodeEnd
        BY DEF CodeEnd
      <4> QED BY <1>2, <3>2, <4>1, <4>2
    <3>4. k - 1 \in 0 .. (Len(Modules) - 1) /\ k - 1 \notin High
      <4>1. k - 1 \in 0 .. (Len(Modules) - 1) /\ ~(k <= k - 1)
        BY <3>2, <3>3, ModuleFacts
      <4> HIDE DEF High
      <4> QED BY <3>1, <4>1
    <3> DEFINE i == Len(Modules) - k
    <3>5. Len(Modules) - (k - 1) = i + 1 /\ i \in 1 .. Len(Modules) /\ i + 1 \in 1 .. Len(Modules)
          /\ (i + 1) - 1 = i /\ i + 1 # 1
      BY <3>2, <3>3, ModuleFacts, SMTT(30)
    <3>6. End(i + 1) <= CodeEnd
      BY <3>4, <3>5
    <3> HIDE DEF i
    <3>7. ImagesBefore[i + 1] = End(i) /\ ImageSize(i + 1) \in Nat /\ End(i) \in Nat
      BY <1>1, <3>5, ImagesUnfold, ModuleFacts
    <3>8. End(i) <= CodeEnd
      BY <1>2, <3>6, <3>7
    <3> QED BY <3>2, <3>8 DEF i
  <2> QED BY <2>1, <2>2
<1> QED BY <1>1, <1>2, <1>3, ModuleFacts

LEMMA RegionsApart ==
  /\ \A m \in 1 .. Len(Modules) :
       ImagesBefore[m] \in Nat /\ ImageSize(m) \in Nat
       /\ ImagesBefore[m] + ImageSize(m) <= Heap.base
  /\ CodeEnd \in Nat /\ CodeEnd <= Heap.base
  /\ Heap.base + Heap.size <= Stack.base
  /\ Stack.base + Stack.size <= TlsIo.base
  /\ TlsIo.base + TlsIo.size <= PageTotal
  BY ImageBounds, RegionsInOrder, Ground, SMTT(30)

-----------------------------------------------------------------------------
(* The allocator's calls: what the handlers rely on. *)

LEMMA FrameAssumptions == PageCount \in Nat \ {0} /\ MaxFreeRuns \in Nat
  BY Ground

LEMMA FrameTypes == FP!IInv => Frames!TypeOK
  BY DEF FP!IInv, FP!TypeOK, Frames!TypeOK, FP!PageRun, Frames!PageRun, FP!Results, Frames!Results

LEMMA FrameTypesNext == FP!IInv' => Frames!TypeOK'
  BY FrameTypes, PTL

LEMMA AllocateBridge ==
  ASSUME NEW n
  PROVE  /\ Frames!AllocateFromFreelist(n) => FP!AllocateFromFreelist(n)
         /\ Frames!AllocateFromCursor(n) => FP!AllocateFromCursor(n)
  BY DEF Frames!AllocateFromFreelist, FP!AllocateFromFreelist, Frames!AllocateFromCursor,
         FP!AllocateFromCursor, Frames!Fits, FP!Fits, Frames!IsFirst, FP!IsFirst,
         Frames!RunIndices, FP!RunIndices, Frames!RemoveRun, FP!RemoveRun,
         Frames!RunPages, FP!RunPages

LEMMA FreeBridge ==
  ASSUME NEW pa, NEW n
  PROVE  /\ Frames!FreeAtCursor(pa, n) => FP!FreeAtCursor(pa, n)
         /\ Frames!FreeCoalesced(pa, n) => FP!FreeCoalesced(pa, n)
         /\ Frames!FreePushed(pa, n) => FP!FreePushed(pa, n)
<1> USE DEF Frames!RunIndices, FP!RunIndices, Frames!RunPages, FP!RunPages,
            Frames!CallerReturns, FP!CallerReturns, Frames!WasHandedOut, FP!WasHandedOut,
            Frames!IsFirst, FP!IsFirst, Frames!RunEnd, FP!RunEnd,
            Frames!Adjacent, FP!Adjacent
<1>1. Frames!FreeAtCursor(pa, n) => FP!FreeAtCursor(pa, n)
  BY DEF Frames!FreeAtCursor, FP!FreeAtCursor, Frames!RemoveRun, FP!RemoveRun
<1>2. Frames!FreeCoalesced(pa, n) => FP!FreeCoalesced(pa, n)
  BY DEF Frames!FreeCoalesced, FP!FreeCoalesced
<1>3. Frames!FreePushed(pa, n) => FP!FreePushed(pa, n)
  BY DEF Frames!FreePushed, FP!FreePushed
<1> QED BY <1>1, <1>2, <1>3

(* No step of the caller's own changes the allocator. *)
LEMMA FramesUnchanged ==
  ASSUME FP!IInv, UNCHANGED framesVars
  PROVE  FP!IInv'
<1>1. result' \in FP!Results /\ UNCHANGED <<used, free_run_count, free_runs, held>>
  BY DEF framesVars, FP!IInv, FP!TypeOK
<1> QED BY <1>1, FP!UnchangedKeepsIInv, FrameAssumptions

LEMMA FramesRefuse ==
  ASSUME FP!IInv, UNCHANGED <<used, free_run_count, free_runs, held>>, result' \in Frames!Results
  PROVE  FP!IInv'
  BY FP!UnchangedKeepsIInv, FrameAssumptions DEF FP!Results, Frames!Results

LEMMA AllocFailsEffect ==
  ASSUME FP!IInv, NEW n, AllocFails(n)
  PROVE  FP!IInv' /\ held' = held
<1>1. UNCHANGED <<used, free_run_count, free_runs, held>> /\ result' \in Frames!Results
  BY DEF AllocFails, Frames!AllocateExhausted, Frames!AllocateCommitFails, Frames!Results
<1> QED BY <1>1, FramesRefuse

(* The pages handed out are a run nobody held, and FirstNew is its first. *)
LEMMA AllocEffect ==
  ASSUME FP!IInv, NEW n \in Nat, AllocOk(n)
  PROVE  /\ FP!IInv'
         /\ n > 0 /\ FirstNew \in Nat /\ FirstNew + n <= PageCount
         /\ held' = held \cup FlatRange(FirstNew, n)
         /\ FlatRange(FirstNew, n) \cap held = {}
         /\ NewFrames = FlatRange(FirstNew, n)
<1> USE Ground
<1>1. FP!AllocateFromFreelist(n) \/ FP!AllocateFromCursor(n)
  BY AllocateBridge DEF AllocOk
<1>2. FP!IInv'
  BY <1>1, FP!FromFreelistKeepsIInv, FP!FromCursorKeepsIInv, FrameAssumptions
<1>3. n > 0 /\ \E pa \in Nat :
        /\ held' = held \cup FP!RunPages(pa, n)
        /\ FP!RunPages(pa, n) \cap held = {}
        /\ pa + n <= PageCount
  <2>1. CASE FP!AllocateFromFreelist(n)
    <3>1. PICK i \in FP!RunIndices :
            FP!IsFirst(i, FP!Fits(n)) /\ held' = held \cup FP!RunPages(free_runs[i].pa, n) /\ n > 0
      BY <2>1 DEF FP!AllocateFromFreelist
    <3>2. /\ free_runs[i] \in FP!PageRun /\ free_runs[i].page_count >= n
          /\ used \in 0 .. PageCount /\ FP!RunEnd(free_runs[i]) <= used
      BY <3>1 DEF FP!IsFirst, FP!Fits, FP!IInv, FP!TypeOK, FP!RunIndices, FP!FreelistSound,
                  FP!RunsBelowCursor
    <3>3. free_runs[i].pa \in Nat /\ free_runs[i].page_count \in Nat
          /\ free_runs[i].pa + n <= used /\ used <= PageCount
      BY <3>2 DEF FP!PageRun, FP!RunEnd
    <3>4. ASSUME NEW p \in FP!RunPages(free_runs[i].pa, n) PROVE p \notin held
      <4>1. p \in FP!Cells /\ FP!InRun(p, free_runs[i])
        BY <3>2, <3>3 DEF FP!Cells, FP!InRun, FP!RunPages
      <4>2. FP!InFreeRun(p)
        BY <3>1, <4>1 DEF FP!InFreeRun
      <4> QED BY <4>1, <4>2 DEF FP!IInv, FP!Accounted
    <3>5. FP!RunPages(free_runs[i].pa, n) \cap held = {}
      BY <3>4
    <3>6. free_runs[i].pa + n <= PageCount
      BY <3>2, <3>3
    <3> QED BY <3>1, <3>3, <3>5, <3>6
  <2>2. CASE FP!AllocateFromCursor(n)
    <3>1. held' = held \cup FP!RunPages(used, n) /\ n > 0 /\ n <= PageCount - used
      BY <2>2 DEF FP!AllocateFromCursor
    <3>2. used \in 0 .. PageCount
      BY DEF FP!IInv, FP!TypeOK
    <3>3. ASSUME NEW p \in FP!RunPages(used, n) PROVE p \notin held
      BY <3>1, <3>2 DEF FP!RunPages, FP!IInv, FP!Accounted, FP!Cells
    <3> QED BY <3>1, <3>2, <3>3
  <2> QED BY <1>1, <2>1, <2>2
<1>4. PICK pa \in Nat :
        /\ held' = held \cup FP!RunPages(pa, n)
        /\ FP!RunPages(pa, n) \cap held = {}
        /\ pa + n <= PageCount
  BY <1>3
<1>5. NewFrames = FlatRange(pa, n)
  BY <1>4 DEF NewFrames, FlatRange, FP!RunPages
<1>6. pa \in NewFrames /\ \A other \in NewFrames : pa <= other
  BY <1>3, <1>4, <1>5 DEF FlatRange
<1>7. \A q \in NewFrames : (\A other \in NewFrames : q <= other) => q = pa
  BY <1>4, <1>5, <1>6 DEF FlatRange
<1>8. FirstNew = pa
  BY <1>6, <1>7 DEF FirstNew
<1> QED BY <1>2, <1>3, <1>4, <1>5, <1>8 DEF FlatRange, FP!RunPages

LEMMA FreeOkEffect ==
  ASSUME FP!IInv, NEW pa \in Nat, NEW n \in Nat, FreeOk(pa, n)
  PROVE  FP!IInv' /\ held' = held \ FlatRange(pa, n)
<1>1. FP!FreeAtCursor(pa, n) \/ FP!FreeCoalesced(pa, n) \/ FP!FreePushed(pa, n)
  BY FreeBridge DEF FreeOk
<1>2. FP!IInv'
  BY <1>1, FP!AtCursorKeepsIInv, FP!CoalescedKeepsIInv, FP!PushedKeepsIInv, FrameAssumptions
<1>3. held' = held \ FP!RunPages(pa, n)
  BY <1>1 DEF FP!FreeAtCursor, FP!FreeCoalesced, FP!FreePushed
<1> QED BY <1>2, <1>3 DEF FlatRange, FP!RunPages

LEMMA FreeFailsEffect ==
  ASSUME FP!IInv, NEW pa, NEW n, FreeFails(pa, n)
  PROVE  FP!IInv' /\ held' = held
<1>1. UNCHANGED <<used, free_run_count, free_runs, held>> /\ result' \in Frames!Results
  BY DEF FreeFails, Frames!FreeListFull, Frames!FreeRejected, Frames!Results
<1> QED BY <1>1, FramesRefuse

LEMMA FreeEffect ==
  ASSUME FP!IInv, NEW pa \in Nat, NEW n \in Nat, Frames!Free(pa, n)
  PROVE  FP!IInv'
<1>1. FreeOk(pa, n) \/ FreeFails(pa, n)
  BY DEF Frames!Free, FreeOk, FreeFails
<1> QED BY <1>1, FreeOkEffect, FreeFailsEffect

LEMMA ResetEffect ==
  ASSUME Frames!Reset
  PROVE  FP!IInv' /\ held' = {}
<1>1. FP!Reset
  BY DEF Frames!Reset, FP!Reset
<1> QED BY <1>1, FP!ResetKeepsIInv, FrameAssumptions DEF FP!Reset

LEMMA InitEffect ==
  ASSUME Frames!Init
  PROVE  FP!IInv /\ held = {}
<1>1. FP!Init
  BY DEF Frames!Init, FP!Init
<1> QED BY <1>1, FP!InitEstablishesIInv, FrameAssumptions DEF FP!Init

-----------------------------------------------------------------------------
(* Pages and the mapping calls, page by page. *)

LEMMA PagesAre == \A v : v \in Pages <=> v \in Int /\ 0 <= v /\ v < PageTotal
  BY Ground DEF Pages

LEMMA RangeIs ==
  ASSUME NEW v \in Int, NEW n \in Int
  PROVE  \A w : w \in FlatRange(v, n) <=> w \in Int /\ v <= w /\ w < v + n
  BY DEF FlatRange

LEMMA RegionOrder ==
  /\ Heap.base + Heap.size <= Stack.base
  /\ Stack.base + Stack.size <= TlsIo.base
  /\ TlsIo.base + TlsIo.size <= PageTotal
  BY RegionsApart

(* Where the regions' pages are. *)
LEMMA RegionsAre ==
  \A v : /\ v \in RegionPages(Heap) <=>
              v \in Pages /\ Heap.base <= v /\ v < Heap.base + Heap.size
         /\ v \in RegionPages(Stack) <=>
              v \in Pages /\ Stack.base <= v /\ v < Stack.base + Stack.size
         /\ v \in RegionPages(TlsIo) <=>
              v \in Pages /\ TlsIo.base <= v /\ v < TlsIo.base + TlsIo.size
<1> TAKE v
<1>1. v \in RegionPages(Heap) <=> v \in Pages /\ Heap.base <= v /\ v < Heap.base + Heap.size
  <2>1. v \in RegionPages(Heap) <=> v \in Int /\ Heap.base <= v /\ v < Heap.base + Heap.size
    BY Ground, RangeIs DEF RegionPages
  <2>2. v \in Int /\ Heap.base <= v /\ v < Heap.base + Heap.size => 0 <= v /\ v < PageTotal
    BY Ground, RegionsApart, SMTT(30)
  <2> QED BY <2>1, <2>2, PagesAre
<1>2. v \in RegionPages(Stack) <=> v \in Pages /\ Stack.base <= v /\ v < Stack.base + Stack.size
  <2>1. v \in RegionPages(Stack) <=> v \in Int /\ Stack.base <= v /\ v < Stack.base + Stack.size
    BY Ground, RangeIs DEF RegionPages
  <2>2. v \in Int /\ Stack.base <= v /\ v < Stack.base + Stack.size => 0 <= v /\ v < PageTotal
    BY Ground, RegionsApart, SMTT(30)
  <2> QED BY <2>1, <2>2, PagesAre
<1>3. v \in RegionPages(TlsIo) <=> v \in Pages /\ TlsIo.base <= v /\ v < TlsIo.base + TlsIo.size
  <2>1. v \in RegionPages(TlsIo) <=> v \in Int /\ TlsIo.base <= v /\ v < TlsIo.base + TlsIo.size
    BY Ground, RangeIs DEF RegionPages
  <2>2. v \in Int /\ TlsIo.base <= v /\ v < TlsIo.base + TlsIo.size => 0 <= v /\ v < PageTotal
    BY Ground, RegionsApart
  <2> QED BY <2>1, <2>2, PagesAre
<1> QED BY <1>1, <1>2, <1>3

(* A page of one region is in no other. *)
LEMMA RegionPlaces ==
  ASSUME NEW v \in Int
  PROVE  /\ Heap.base <= v /\ v < Heap.base + Heap.size =>
              /\ v \in Pages /\ v \in RegionPages(Heap)
              /\ v \notin RegionPages(Stack) /\ v \notin RegionPages(TlsIo)
         /\ Stack.base <= v /\ v < Stack.base + Stack.size =>
              /\ v \in Pages /\ v \in RegionPages(Stack)
              /\ v \notin RegionPages(Heap) /\ v \notin RegionPages(TlsIo)
         /\ TlsIo.base <= v /\ v < TlsIo.base + TlsIo.size =>
              /\ v \in Pages /\ v \in RegionPages(TlsIo)
              /\ v \notin RegionPages(Heap) /\ v \notin RegionPages(Stack)
         /\ 0 <= v /\ v < Heap.base => v \in Pages /\ Elsewhere(v)
<1>0. /\ Heap.base \in Nat /\ Heap.size \in Nat /\ Stack.base \in Nat /\ Stack.size \in Nat
      /\ TlsIo.base \in Nat /\ TlsIo.size \in Nat /\ PageTotal \in Nat
  BY Ground
<1> DEFINE hb == Heap.base  hs == Heap.size  sb == Stack.base  ss == Stack.size
           tb == TlsIo.base  ts == TlsIo.size
<1>1. /\ hb \in Nat /\ hs \in Nat /\ sb \in Nat /\ ss \in Nat /\ tb \in Nat /\ ts \in Nat
      /\ PageTotal \in Nat /\ hb + hs <= sb /\ sb + ss <= tb /\ tb + ts <= PageTotal
  BY <1>0, RegionOrder
<1>2. /\ v \in Pages <=> 0 <= v /\ v < PageTotal
      /\ v \in RegionPages(Heap) <=> v \in Pages /\ hb <= v /\ v < hb + hs
      /\ v \in RegionPages(Stack) <=> v \in Pages /\ sb <= v /\ v < sb + ss
      /\ v \in RegionPages(TlsIo) <=> v \in Pages /\ tb <= v /\ v < tb + ts
  BY PagesAre, RegionsAre
<1> HIDE DEF hb, hs, sb, ss, tb, ts
<1>3. /\ hb <= v /\ v < hb + hs =>
           /\ v \in Pages /\ v \in RegionPages(Heap)
           /\ v \notin RegionPages(Stack) /\ v \notin RegionPages(TlsIo)
      /\ sb <= v /\ v < sb + ss =>
           /\ v \in Pages /\ v \in RegionPages(Stack)
           /\ v \notin RegionPages(Heap) /\ v \notin RegionPages(TlsIo)
      /\ tb <= v /\ v < tb + ts =>
           /\ v \in Pages /\ v \in RegionPages(TlsIo)
           /\ v \notin RegionPages(Heap) /\ v \notin RegionPages(Stack)
      /\ 0 <= v /\ v < hb => v \in Pages /\ v \notin RegionPages(Heap)
           /\ v \notin RegionPages(Stack) /\ v \notin RegionPages(TlsIo)
  BY <1>1, <1>2
<1> QED BY <1>3 DEF hb, hs, sb, ss, tb, ts, Elsewhere

LEMMA PteFacts ==
  ASSUME NEW e \in Pte, e # Unmapped
  PROVE  /\ e.pa \in 0 .. (PageCount - 1) /\ e.perms \in SUBSET {"R", "W", "X"}
         /\ e = [pa |-> e.pa, perms |-> e.perms]
  BY DEF Pte

LEMMA MappedIsPte ==
  ASSUME NEW pa \in Nat, pa < PageCount, NEW perms \in SUBSET {"R", "W", "X"}
  PROVE  /\ [pa |-> pa, perms |-> perms] \in Pte
         /\ [pa |-> pa, perms |-> perms] # Unmapped
<1>1. pa \in 0 .. (PageCount - 1) /\ pa # -1
  BY Ground
<1> QED BY <1>1 DEF Pte, Unmapped

(* Rights only change at mapped pages, whose frames stay. *)
LEMMA ReprotectedIsPte ==
  ASSUME NEW e \in Pte, e # Unmapped, NEW perms \in SUBSET {"R", "W", "X"}
  PROVE  /\ [e EXCEPT !.perms = perms] = [pa |-> e.pa, perms |-> perms]
         /\ [e EXCEPT !.perms = perms] \in Pte
         /\ [e EXCEPT !.perms = perms] # Unmapped
<1>1. e.pa \in Nat /\ e.pa < PageCount /\ e = [pa |-> e.pa, perms |-> e.perms]
  BY PteFacts, Ground
<1>2. [e EXCEPT !.perms = perms] = [pa |-> e.pa, perms |-> perms]
  BY <1>1
<1> QED BY <1>1, <1>2, MappedIsPte

LEMMA BackingIs ==
  \A pa : pa \in Backing <=> \E v \in Pages : page[v] # Unmapped /\ page[v].pa = pa
  BY DEF Backing, MappedPages

(* A run of frames nothing maps, mapped where nothing was. *)
MapsFresh(v, n, pa) ==
  /\ v \in Nat /\ n \in Nat /\ n > 0 /\ v + n <= PageTotal
  /\ AllHoles(page, v, n)
  /\ pa \in Nat /\ pa + n <= PageCount
  /\ FlatRange(pa, n) \cap Backing = {}
  /\ page' \in [Pages -> Pte]
  /\ \A w \in Pages :
       IF w \in FlatRange(v, n)
       THEN page'[w] # Unmapped /\ page'[w].pa = pa + (w - v)
       ELSE page'[w] = page[w]

LEMMA MapRwIsFresh ==
  ASSUME page \in [Pages -> Pte], NEW v \in Nat, NEW n \in Nat, NEW pa \in Nat,
         MapOk(page, v, n), pa + n <= PageCount, FlatRange(pa, n) \cap Backing = {},
         page' = Mapped(page, v, n, pa, RW)
  PROVE  /\ MapsFresh(v, n, pa)
         /\ \A w \in FlatRange(v, n) : page'[w].perms = RW
<1>1. n > 0 /\ v + n <= PageTotal /\ AllHoles(page, v, n)
  BY DEF MapOk, InSpace
<1>2. ASSUME NEW w \in Pages
      PROVE  /\ page'[w] = IF w \in FlatRange(v, n)
                           THEN [pa |-> pa + (w - v), perms |-> RW] ELSE page[w]
             /\ page'[w] \in Pte
             /\ w \in FlatRange(v, n) => page'[w] # Unmapped
  <2>1. page'[w] = IF w \in FlatRange(v, n)
                   THEN [pa |-> pa + (w - v), perms |-> RW] ELSE page[w]
    BY DEF Mapped
  <2>2. CASE w \in FlatRange(v, n)
    <3>1. pa + (w - v) \in Nat /\ pa + (w - v) < PageCount
      BY <2>2, RangeIs, Ground
    <3>2. RW \in SUBSET {"R", "W", "X"}
      BY DEF RW
    <3> QED BY <2>1, <2>2, <3>1, <3>2, MappedIsPte
  <2>3. CASE w \notin FlatRange(v, n)
    BY <2>1, <2>3
  <2> QED BY <2>1, <2>2, <2>3
<1>3. page' \in [Pages -> Pte]
  <2>1. page' = [w \in Pages |-> page'[w]]
    BY DEF Mapped
  <2> QED BY <1>2, <2>1
<1>4. FlatRange(v, n) \subseteq Pages
  BY <1>1, Ground DEF Pages, FlatRange
<1>5. MapsFresh(v, n, pa)
  BY <1>1, <1>2, <1>3 DEF MapsFresh
<1>6. ASSUME NEW w \in FlatRange(v, n) PROVE page'[w].perms = RW
  <2>1. w \in Pages
    BY <1>4
  <2>2. page'[w] = [pa |-> pa + (w - v), perms |-> RW]
    BY <1>2, <2>1
  <2> QED BY <2>2
<1> QED BY <1>5, <1>6

(* What such a mapping does to the frames in use. *)
LEMMA FreshBacking ==
  ASSUME page \in [Pages -> Pte], NEW v, NEW n, NEW pa, MapsFresh(v, n, pa)
  PROVE  Backing' = Backing \cup FlatRange(pa, n)
<1> USE DEF MapsFresh
<1>0. v \in Nat /\ n \in Nat /\ pa \in Nat /\ v + n <= PageTotal /\ PageTotal \in Nat
  BY Ground
<1>1. \A f : f \in Backing' <=> \E w \in Pages : page'[w] # Unmapped /\ page'[w].pa = f
  BY DEF Backing, MappedPages
<1>2. ASSUME NEW f, f \in Backing' PROVE f \in Backing \cup FlatRange(pa, n)
  <2>1. PICK w \in Pages : page'[w] # Unmapped /\ page'[w].pa = f
    BY <1>1, <1>2
  <2>2. CASE w \in FlatRange(v, n)
    <3>1. f = pa + (w - v) /\ w \in Int /\ v <= w /\ w < v + n
      BY <2>1, <2>2, RangeIs
    <3> QED BY <3>1, RangeIs
  <2>3. CASE w \notin FlatRange(v, n)
    BY <2>1, <2>3, BackingIs
  <2> QED BY <2>2, <2>3
<1>3. ASSUME NEW f \in Backing PROVE f \in Backing'
  <2>1. PICK w \in Pages : page[w] # Unmapped /\ page[w].pa = f
    BY BackingIs
  <2>2. w \notin FlatRange(v, n)
    BY <2>1 DEF AllHoles
  <2> QED BY <1>1, <2>1, <2>2
<1>4. ASSUME NEW f \in FlatRange(pa, n) PROVE f \in Backing'
  <2> DEFINE w == v + (f - pa)
  <2>1. f \in Int /\ pa <= f /\ f < pa + n
    BY RangeIs
  <2>2. w \in Pages /\ w \in FlatRange(v, n) /\ pa + (w - v) = f
    <3>1. w \in Int /\ v <= w /\ w < v + n /\ pa + (w - v) = f
      BY <1>0, <2>1
    <3>2. w \in FlatRange(v, n)
      BY <1>0, <3>1, RangeIs
    <3>3. w \in Pages
      BY <1>0, <3>1, PagesAre
    <3> QED BY <3>1, <3>2, <3>3
  <2> HIDE DEF w
  <2> QED BY <1>1, <2>2
<1> QED BY <1>2, <1>3, <1>4

(* It makes no frame shared. *)
LEMMA FreshSharing ==
  ASSUME page \in [Pages -> Pte], NEW v, NEW n, NEW pa, MapsFresh(v, n, pa),
         NEW a \in Pages, NEW b \in Pages, a # b,
         page'[a] # Unmapped, page'[b] # Unmapped, page'[a].pa = page'[b].pa
  PROVE  /\ a \notin FlatRange(v, n) /\ b \notin FlatRange(v, n)
         /\ page[a] # Unmapped /\ page[b] # Unmapped /\ page[a].pa = page[b].pa
<1> USE DEF MapsFresh
<1>0. ASSUME NEW x \in Pages, NEW y \in Pages, x \in FlatRange(v, n), y \notin FlatRange(v, n),
             page'[y] # Unmapped, page'[x].pa = page'[y].pa
      PROVE  FALSE
  <2>1. page'[x].pa = pa + (x - v) /\ x \in Int /\ v <= x /\ x < v + n
    BY <1>0, RangeIs
  <2>2. page'[x].pa \in FlatRange(pa, n)
    BY <2>1, RangeIs
  <2>3. page'[x].pa \in Backing
    BY <1>0, BackingIs
  <2> QED BY <2>2, <2>3
<1>1. CASE a \in FlatRange(v, n) /\ b \in FlatRange(v, n)
  <2>1. page'[a].pa = pa + (a - v) /\ page'[b].pa = pa + (b - v)
    BY <1>1
  <2>2. pa + (a - v) = pa + (b - v) /\ a \in Int /\ b \in Int /\ pa \in Int /\ v \in Int
    <3>1. a \in Int /\ b \in Int
      BY PagesAre
    <3>2. pa \in Int /\ v \in Int
      OBVIOUS
    <3> QED BY <2>1, <3>1, <3>2
  <2>3. a = b
    <3> HIDE DEF MapsFresh
    <3> QED BY <2>2
  <2> QED BY <2>3
<1>2. CASE a \notin FlatRange(v, n) /\ b \notin FlatRange(v, n)
  BY <1>2
<1> QED BY <1>0, <1>1, <1>2

-----------------------------------------------------------------------------
(* Loans. *)

LEMMA LoanTypes ==
  ASSUME TypeOK
  PROVE  /\ Len(heap_borrows) \in Nat /\ Loans = 1 .. Len(heap_borrows)
         /\ heap_size \in Nat /\ heap_size <= Heap.size
         /\ Len(tls) \in Nat
         /\ \A i \in Loans :
              LET b == heap_borrows[i]
              IN /\ b \in [dst_base : Pages, src_base : Pages, size : 1 .. Heap.size]
                 /\ b = Loan(b.dst_base, b.src_base, b.size)
                 /\ b.dst_base \in Nat /\ b.src_base \in Nat /\ b.size \in Nat /\ b.size > 0
                 /\ b.size <= Heap.size
<1> DEFINE Record == [dst_base : Pages, src_base : Pages, size : 1 .. Heap.size]
<1>1. heap_borrows \in Seq(Record) /\ heap_size \in 0 .. Heap.size
      /\ tls \in Seq(SUBSET (0 .. (BlocksPerPage - 1)))
  BY DEF TypeOK
<1>2. Len(heap_borrows) \in Nat /\ Loans = 1 .. Len(heap_borrows)
  BY <1>1 DEF Loans
<1>3. \A i \in Loans : heap_borrows[i] \in Record
  <2> HIDE DEF Record
  <2> QED BY <1>1, <1>2
<1>4. ASSUME NEW b \in Record
      PROVE  /\ b = Loan(b.dst_base, b.src_base, b.size)
             /\ b.dst_base \in Nat /\ b.src_base \in Nat /\ b.size \in Nat /\ b.size > 0
             /\ b.size <= Heap.size
  <2>1. b.dst_base \in Pages /\ b.src_base \in Pages /\ b.size \in 1 .. Heap.size
        /\ b = [dst_base |-> b.dst_base, src_base |-> b.src_base, size |-> b.size]
    OBVIOUS
  <2>2. b.dst_base \in Nat /\ b.src_base \in Nat
    BY <2>1, PagesAre
  <2>3. b.size \in Nat /\ b.size > 0 /\ b.size <= Heap.size
    BY <2>1, Ground
  <2> QED BY <2>1, <2>2, <2>3 DEF Loan
<1>5. Len(tls) \in Nat
  BY <1>1
<1>6. heap_size \in Nat /\ heap_size <= Heap.size
  BY <1>1, Ground
<1> HIDE DEF Record
<1>7. \A i \in Loans :
              LET b == heap_borrows[i]
              IN /\ b \in Record
                 /\ b = Loan(b.dst_base, b.src_base, b.size)
                 /\ b.dst_base \in Nat /\ b.src_base \in Nat /\ b.size \in Nat /\ b.size > 0
                 /\ b.size <= Heap.size
  BY <1>3, <1>4
<1> QED BY <1>2, <1>5, <1>6, <1>7 DEF Record

(* A loan's source lies in the heap, its alias in the stack region apart   *)
(* from the main stack.                                                    *)
LEMMA LoanPlaces ==
  ASSUME TypeOK, LoansLaid, NEW i \in Loans
  PROVE  /\ \A v : v \in SrcOf(i) <=>
              /\ v \in Int /\ heap_borrows[i].src_base <= v
              /\ v < heap_borrows[i].src_base + heap_borrows[i].size
         /\ \A v : v \in DstOf(i) <=>
              /\ v \in Int /\ heap_borrows[i].dst_base <= v
              /\ v < heap_borrows[i].dst_base + heap_borrows[i].size
         /\ \A v \in SrcOf(i) : v \in RegionPages(Heap) /\ v < HeapEnd
         /\ \A v \in DstOf(i) : v \in RegionPages(Stack) /\ ~InMainStack(v)
<1> DEFINE b == heap_borrows[i]
<1>1. b.dst_base \in Nat /\ b.src_base \in Nat /\ b.size \in Nat
  BY LoanTypes
<1>2. \A v : v \in SrcOf(i) <=> v \in Int /\ b.src_base <= v /\ v < b.src_base + b.size
  BY <1>1, RangeIs DEF SrcOf
<1>3. \A v : v \in DstOf(i) <=> v \in Int /\ b.dst_base <= v /\ v < b.dst_base + b.size
  BY <1>1, RangeIs DEF DstOf
<1>4. /\ Heap.base <= b.src_base /\ b.src_base + b.size <= HeapEnd
      /\ Stack.base <= b.dst_base /\ b.dst_base + b.size <= Stack.base + Stack.size
      /\ \A k \in 0 .. (b.size - 1) : ~InMainStack(b.dst_base + k)
  BY DEF LoansLaid
<1> HIDE DEF b
<1>5. HeapEnd \in Nat /\ HeapEnd <= Heap.base + Heap.size
  BY LoanTypes, Ground DEF HeapEnd
<1>6. ASSUME NEW v \in SrcOf(i) PROVE v \in RegionPages(Heap) /\ v < HeapEnd
  <2>1. v \in Int /\ Heap.base <= v /\ v < HeapEnd
    BY <1>1, <1>2, <1>4, <1>5, Ground
  <2>2. v \in Pages
    <3>1. 0 <= v /\ v < PageTotal
      BY <1>5, <2>1, Ground, RegionOrder
    <3> QED BY <2>1, <3>1, PagesAre
  <2> QED BY <1>5, <2>1, <2>2, RegionsAre, Ground
<1>7. ASSUME NEW v \in DstOf(i) PROVE v \in RegionPages(Stack) /\ ~InMainStack(v)
  <2>1. v \in Int /\ Stack.base <= v /\ v < Stack.base + Stack.size
    BY <1>1, <1>3, <1>4, Ground
  <2>2. v \in Pages
    BY <2>1, Ground, RegionsApart, PagesAre, SMTT(30)
  <2>3. v - b.dst_base \in 0 .. (b.size - 1) /\ b.dst_base + (v - b.dst_base) = v
    BY <1>1, <1>3
  <2> QED BY <1>4, <2>1, <2>2, <2>3, RegionsAre
<1> QED BY <1>2, <1>3, <1>6, <1>7 DEF b

LEMMA AliasFacts ==
  ASSUME TypeOK, LoansLaid, NEW v, NEW w, AliasOf(w, v)
  PROVE  /\ v \in RegionPages(Heap) /\ v < HeapEnd /\ IsLent(v)
         /\ w \in RegionPages(Stack) /\ IsAlias(w)
         /\ page[w].pa = page[v].pa
<1>1. PICK i \in Loans :
        v \in SrcOf(i) /\ w = heap_borrows[i].dst_base + (v - heap_borrows[i].src_base)
  BY DEF AliasOf
<1> DEFINE b == heap_borrows[i]
           k == v - b.src_base
<1>2. b.dst_base \in Nat /\ b.src_base \in Nat /\ b.size \in Nat
  BY LoanTypes
<1>3. v \in Int /\ b.src_base <= v /\ v < b.src_base + b.size
  BY <1>1, LoanPlaces
<1>4. w = b.dst_base + k
  BY <1>1
<1>5. \A j \in 0 .. (b.size - 1) : page[b.dst_base + j].pa = page[b.src_base + j].pa
  BY DEF LoansLaid
<1>6. \A x : x \in DstOf(i) <=> x \in Int /\ b.dst_base <= x /\ x < b.dst_base + b.size
  BY LoanPlaces
<1> HIDE DEF b
<1>7. k \in 0 .. (b.size - 1) /\ b.src_base + k = v
  BY <1>2, <1>3
<1>8. w \in DstOf(i)
  BY <1>2, <1>4, <1>6, <1>7
<1>9. page[w].pa = page[v].pa
  BY <1>4, <1>5, <1>7
<1> QED BY <1>1, <1>8, <1>9, LoanPlaces DEF IsLent, IsAlias

-----------------------------------------------------------------------------
(* What the invariant says. *)

LEMMA Views == IInv => OneAccessibleView
<1> SUFFICES ASSUME IInv, NEW v \in Pages, NEW w \in Pages, page[v] # Unmapped, page[w] # Unmapped,
                    v # w, page[v].pa = page[w].pa
             PROVE  {page[v].perms, page[w].perms} = {{}, RW}
  BY DEF OneAccessibleView, MappedPages
<1>1. ~At("leaving")
  BY DEF IInv, Departing
<1>2. Laid /\ TypeOK
  BY <1>1 DEF IInv
<1>3. ASSUME NEW x \in Pages, NEW y \in Pages, page[x] # Unmapped, page[y] # Unmapped, AliasOf(y, x)
      PROVE  page[x].perms = {} /\ page[y].perms = RW
  <2>1. x \in RegionPages(Heap) /\ IsLent(x) /\ y \in RegionPages(Stack)
    BY <1>2, <1>3, AliasFacts DEF Laid
  <2> QED BY <1>2, <1>3, <2>1 DEF Laid, HeapLaid, StackLaid
<1>4. AliasOf(w, v) \/ AliasOf(v, w)
  BY <1>2 DEF Laid, SharedByLoan
<1> QED BY <1>3, <1>4

LEMMA Accounts == IInv => FramesAccounted
  BY DEF IInv, FramesAccounted, HeldByMap

LEMMA Clean == IInv => UnloadedIsClean
  BY DEF IInv, UnloadedIsClean, NoProcess

LEMMA LentAtOne == \A v \in Int : LentAt(v, 1) <=> IsLent(v)
<1> TAKE v \in Int
<1>1. FlatRange(v, 1) = {v}
  BY DEF FlatRange
<1> QED BY <1>1 DEF LentAt, IsLent, Loans, SrcOf

LEMMA LoansTold == IInv => LoanTableExact
<1> SUFFICES ASSUME IInv, At("running") PROVE LoanTableExact
  BY DEF LoanTableExact
<1>1. TypeOK /\ HeapLaid /\ StackLaid /\ LoansLaid
  BY DEF IInv, At, Laid
<1>2. heap_size \in Nat /\ heap_size <= Heap.size
  BY <1>1, LoanTypes
<1>3. ASSUME NEW i \in Loans
      PROVE  LET b == heap_borrows[i]
             IN /\ Contains([base |-> Heap.base, size |-> heap_size], b.src_base, b.size)
                /\ Contains(Stack, b.dst_base, b.size)
                /\ \A k \in 0 .. (b.size - 1) :
                     /\ page[b.src_base + k].perms = {}
                     /\ page[b.dst_base + k] = [pa |-> page[b.src_base + k].pa, perms |-> RW]
                /\ ~\E j \in Loans \ {i} :
                     \/ FlatRange(b.src_base, b.size)
                          \cap FlatRange(heap_borrows[j].src_base, heap_borrows[j].size) # {}
                     \/ FlatRange(b.dst_base, b.size)
                          \cap FlatRange(heap_borrows[j].dst_base, heap_borrows[j].size) # {}
  <2> DEFINE b == heap_borrows[i]
  <2>1. b.dst_base \in Nat /\ b.src_base \in Nat /\ b.size \in Nat /\ b.size > 0
    BY <1>1, LoanTypes
  <2>2. /\ Heap.base <= b.src_base /\ b.src_base + b.size <= HeapEnd
        /\ Stack.base <= b.dst_base /\ b.dst_base + b.size <= Stack.base + Stack.size
        /\ \A k \in 0 .. (b.size - 1) : page[b.dst_base + k].pa = page[b.src_base + k].pa
        /\ \A j \in Loans : i # j => SrcOf(i) \cap SrcOf(j) = {} /\ DstOf(i) \cap DstOf(j) = {}
    BY <1>1 DEF LoansLaid
  <2> HIDE DEF b
  <2>3. Contains([base |-> Heap.base, size |-> heap_size], b.src_base, b.size)
    BY <1>2, <2>1, <2>2, Ground DEF Contains, HeapEnd
  <2>4. Contains(Stack, b.dst_base, b.size)
    BY <2>1, <2>2, Ground DEF Contains
  <2>5. ASSUME NEW k \in 0 .. (b.size - 1)
        PROVE  /\ page[b.src_base + k].perms = {}
               /\ page[b.dst_base + k] = [pa |-> page[b.src_base + k].pa, perms |-> RW]
    <3> DEFINE x == b.src_base + k
               y == b.dst_base + k
    <3>1. x \in SrcOf(i) /\ y \in DstOf(i)
      BY <1>1, <2>1, LoanPlaces DEF b
    <3> HIDE DEF x, y
    <3>2. x \in RegionPages(Heap) /\ x < HeapEnd /\ IsLent(x) /\ y \in RegionPages(Stack) /\ IsAlias(y)
      BY <1>1, <3>1, LoanPlaces DEF IsLent, IsAlias
    <3>3. page[x].perms = {}
      BY <1>1, <3>2 DEF HeapLaid
    <3>4. y \in Pages /\ page[y] # Unmapped /\ page[y].perms = RW
      BY <1>1, <3>2, RegionsAre DEF StackLaid
    <3>5. page[y] = [pa |-> page[y].pa, perms |-> page[y].perms]
      BY <1>1, <3>4, PteFacts DEF TypeOK
    <3>6. page[y].pa = page[x].pa
      BY <2>2 DEF x, y
    <3>7. page[y] = [pa |-> page[x].pa, perms |-> RW]
      BY <3>4, <3>5, <3>6
    <3> QED BY <3>3, <3>7 DEF x, y
  <2>6. \A j \in Loans \ {i} :
          /\ FlatRange(b.src_base, b.size) \cap
               FlatRange(heap_borrows[j].src_base, heap_borrows[j].size) = {}
          /\ FlatRange(b.dst_base, b.size) \cap
               FlatRange(heap_borrows[j].dst_base, heap_borrows[j].size) = {}
    BY <2>2 DEF SrcOf, DstOf, b
  <2> QED BY <2>3, <2>4, <2>5, <2>6 DEF b
<1>4. ASSUME NEW v \in RegionPages(Heap), page[v] # Unmapped, page[v].perms = {}
      PROVE  LentAt(v, 1)
  <2>1. RW # {}
    BY DEF RW
  <2>2. IsLent(v) /\ v \in Int
    BY <1>1, <1>4, <2>1, RegionsAre, PagesAre DEF HeapLaid
  <2> QED BY <2>2, LentAtOne
<1> QED BY <1>3, <1>4 DEF LoanTableExact, Loans

LEMMA TypesTold == IInv => QueryTypeMatchesMap
<1> SUFFICES ASSUME IInv, At("running"), NEW v \in RegionPages(Heap) \cup RegionPages(Stack)
             PROVE  TypeOf(v) = IF page[v] = Unmapped THEN "UNMAPPED"
                      ELSE IF v \in RegionPages(Heap)
                           THEN IF page[v].perms = RW THEN "HEAP" ELSE "WEIRD_MAPPED_MEM"
                           ELSE IF \E w \in RegionPages(Heap) : page[w].pa = page[v].pa
                                THEN "MAPPED_MEMORY" ELSE "NORMAL"
  BY DEF QueryTypeMatchesMap
<1>1. TypeOK /\ HeapLaid /\ StackLaid /\ LoansLaid /\ SharedByLoan
  BY DEF IInv, At, Laid
<1>2. v \in Pages /\ v \in Int /\ ~(v < CodeEnd)
  BY Ground, RegionsApart, RegionsAre, PagesAre
<1>3. v \in RegionPages(Heap) => v \notin RegionPages(Stack)
  BY <1>2, Ground, RegionsApart, RegionsAre
<1>4. CASE page[v] = Unmapped
  BY <1>4 DEF TypeOf
<1>5. CASE page[v] # Unmapped /\ v \in RegionPages(Heap)
  <2>1. TypeOf(v) = IF LentAt(v, 1) THEN "WEIRD_MAPPED_MEM" ELSE "HEAP"
    <3>1. page[v] # Unmapped /\ ~(v >= CodeBase /\ v < CodeEnd) /\ v \in RegionPages(Heap)
          /\ v \notin RegionPages(Stack) /\ v \notin RegionPages(TlsIo)
      BY <1>2, <1>3, <1>5, Ground, RegionOrder, RegionsAre
    <3> HIDE DEF IInv
    <3> QED BY <3>1, SMT DEF TypeOf
  <2>2. page[v].perms = IF IsLent(v) THEN {} ELSE RW
    BY <1>1, <1>5 DEF HeapLaid
  <2>3. RW # {}
    BY DEF RW
  <2> QED BY <1>2, <1>5, <2>1, <2>2, <2>3, LentAtOne
<1>6. CASE page[v] # Unmapped /\ v \notin RegionPages(Heap)
  <2>1. v \in RegionPages(Stack)
    BY <1>6
  <2>2. TypeOf(v) = IF IsAlias(v) THEN "MAPPED_MEMORY" ELSE "NORMAL"
    <3>1. TypeOf(v) = IF \E i \in DOMAIN heap_borrows :
                           v \in FlatRange(heap_borrows[i].dst_base, heap_borrows[i].size)
                      THEN "MAPPED_MEMORY" ELSE "NORMAL"
      <4>1. page[v] # Unmapped /\ ~(v >= CodeBase /\ v < CodeEnd) /\ v \notin RegionPages(Heap)
            /\ v \in RegionPages(Stack) /\ v \notin RegionPages(TlsIo)
        BY <1>2, <1>3, <1>6, <2>1, Ground, RegionOrder, RegionsAre
      <4> QED BY <4>1, SMT DEF TypeOf
    <3> QED BY <3>1 DEF IsAlias, DstOf, Loans
  <2>3. ASSUME NEW w \in RegionPages(Heap), page[w].pa = page[v].pa
        PROVE  IsAlias(v)
    <3>1. page[v].pa # -1
      <4>1. page[v] \in Pte
        BY <1>1, <1>2 DEF TypeOK
      <4>2. page[v].pa \in 0 .. (PageCount - 1)
        BY <1>6, <4>1, PteFacts
      <4> QED BY <4>2, Ground
    <3>2. w \in Pages /\ w # v /\ page[w] # Unmapped
      BY <1>6, <2>3, <3>1, RegionsAre DEF Unmapped
    <3>3. AliasOf(v, w) \/ AliasOf(w, v)
      BY <1>1, <1>2, <1>6, <2>3, <3>2 DEF SharedByLoan
    <3> QED BY <1>1, <1>6, <3>3, AliasFacts
  <2>4. ASSUME IsAlias(v) PROVE \E w \in RegionPages(Heap) : page[w].pa = page[v].pa
    <3>1. PICK i \in Loans : v \in DstOf(i)
      BY <2>4 DEF IsAlias
    <3> DEFINE b == heap_borrows[i]
               k == v - b.dst_base
    <3>2. /\ b.dst_base \in Nat /\ b.src_base \in Nat /\ b.size \in Nat
          /\ v \in Int /\ b.dst_base <= v /\ v < b.dst_base + b.size
          /\ \A j \in 0 .. (b.size - 1) : page[b.dst_base + j].pa = page[b.src_base + j].pa
      BY <1>1, <3>1, LoanTypes, LoanPlaces DEF LoansLaid
    <3>3. \A x : x \in SrcOf(i) <=> x \in Int /\ b.src_base <= x /\ x < b.src_base + b.size
      BY <1>1, LoanPlaces
    <3> HIDE DEF b
    <3>4. k \in 0 .. (b.size - 1) /\ b.dst_base + k = v /\ b.src_base + k \in SrcOf(i)
      BY <3>2, <3>3
    <3>5. page[b.src_base + k].pa = page[v].pa /\ b.src_base + k \in RegionPages(Heap)
      BY <1>1, <3>2, <3>4, LoanPlaces
    <3> QED BY <3>5
  <2> QED BY <1>6, <2>2, <2>3, <2>4
<1> QED BY <1>4, <1>5, <1>6

-----------------------------------------------------------------------------
(* The parts of the invariant a step has to re-establish, by the handler   *)
(* it leaves in progress.                                                  *)

MemTypes ==
  /\ page \in [Pages -> Pte]
  /\ module_count \in 0 .. Len(Modules)
  /\ main_thread_stack \in [base : Pages \cup {0}, size : 0 .. Stack.size]
  /\ heap_size \in 0 .. Heap.size
  /\ heap_borrows \in Seq([dst_base : Pages, src_base : Pages, size : 1 .. Heap.size])
  /\ Len(heap_borrows) <= MaxLoans
  /\ tls \in Seq(SUBSET (0 .. (BlocksPerPage - 1))) /\ Len(tls) <= MaxTlsPages

HistoryTypes ==
  reply \in Results /\ lost \in SUBSET (0 .. (PageCount - 1)) /\ stain \in -1 .. (PageCount - 1)

(* What holds of the memory while a process is there and nothing is undone. *)
Whole == MemTypes /\ StackKnown /\ heap_size % Granule = 0 /\ Laid /\ CodeLaid

LEMMA TypesSplit ==
  TypeOK <=> /\ Frames!TypeOK /\ MemTypes /\ HistoryTypes
             /\ call.at \in {"unloaded", "booting", "unwinding", "running", "growing",
                             "shrinking", "leaving", "aborted"}
<1>1. \A S, T : S \subseteq T <=> S \in SUBSET T
  OBVIOUS
<1> QED BY <1>1 DEF TypeOK, MemTypes, HistoryTypes

LEMMA TypesSplitNext ==
  TypeOK' <=> /\ Frames!TypeOK' /\ MemTypes' /\ HistoryTypes'
              /\ call'.at \in {"unloaded", "booting", "unwinding", "running", "growing",
                               "shrinking", "leaving", "aborted"}
<1>1. \A S, T : S \subseteq T <=> S \in SUBSET T
  OBVIOUS
<1> QED BY <1>1 DEF TypeOK, MemTypes, HistoryTypes

LEMMA IInvParts ==
  ASSUME IInv
  PROVE  /\ TypeOK /\ FP!IInv /\ MemTypes /\ HistoryTypes /\ call \in Calls
         /\ StackKnown /\ heap_size % Granule = 0
         /\ At("running") => Whole /\ HeldByMap /\ main_thread_stack # NoRegion
         /\ At("growing") => Whole /\ GrowingWell /\ HeldGrowing /\ main_thread_stack # NoRegion
         /\ At("shrinking") => Whole /\ ShrinkingWell /\ HeldShrinking /\ main_thread_stack # NoRegion
         /\ At("booting") => Whole /\ BootRecorded /\ HeldByMap
         /\ At("unwinding") => Laid /\ BootRecorded
         /\ At("leaving") => Departing /\ LeavingWell
         /\ At("unloaded") => Whole /\ NoProcess
  BY TypesSplit DEF IInv, Whole, At

(* The records of the handlers. *)
LEMMA CallShapes ==
  ASSUME call \in Calls
  PROVE  /\ At("booting") \/ At("unwinding") =>
              /\ call = [at |-> call.at, ranges |-> call.ranges]
              /\ call.ranges \in SUBSET (Int \X Int)
         /\ At("growing") =>
              /\ call = [at |-> "growing", requested |-> call.requested, pa |-> call.pa]
              /\ call.requested \in Nat /\ call.pa \in Nat
         /\ At("shrinking") =>
              /\ call = [at |-> "shrinking", requested |-> call.requested, next |-> call.next,
                         runs |-> call.runs]
              /\ call.requested \in Nat /\ call.next \in Nat /\ call.runs \in Nat
         /\ At("leaving") => call = [at |-> "leaving", next |-> call.next] /\ call.next \in Nat
<1>1. CASE call \in [at : {"unloaded", "running", "aborted"}]
  <2>1. call.at \in {"unloaded", "running", "aborted"}
    BY <1>1
  <2> QED BY <2>1 DEF At
<1>2. CASE call \in [at : {"booting", "unwinding"}, ranges : SUBSET (Int \X Int)]
  <2>1. call.at \in {"booting", "unwinding"} /\ call = [at |-> call.at, ranges |-> call.ranges]
        /\ call.ranges \in SUBSET (Int \X Int)
    BY <1>2
  <2> QED BY <2>1 DEF At
<1>3. CASE call \in [at : {"growing"}, requested : Nat, pa : Nat]
  <2>1. call = [at |-> "growing", requested |-> call.requested, pa |-> call.pa]
        /\ call.requested \in Nat /\ call.pa \in Nat /\ call.at = "growing"
    BY <1>3
  <2> QED BY <2>1 DEF At
<1>4. CASE call \in [at : {"shrinking"}, requested : Nat, next : Nat, runs : Nat]
  <2>1. call = [at |-> "shrinking", requested |-> call.requested, next |-> call.next,
                runs |-> call.runs]
        /\ call.requested \in Nat /\ call.next \in Nat /\ call.runs \in Nat /\ call.at = "shrinking"
    BY <1>4
  <2> QED BY <2>1 DEF At
<1>5. CASE call \in [at : {"leaving"}, next : Nat]
  <2>1. call = [at |-> "leaving", next |-> call.next] /\ call.next \in Nat /\ call.at = "leaving"
    BY <1>5
  <2> QED BY <2>1 DEF At
<1> QED BY <1>1, <1>2, <1>3, <1>4, <1>5 DEF Calls

LEMMA ToRunning ==
  ASSUME call' \in Calls, call'.at = "running", FP!IInv', HistoryTypes',
         Whole', HeldByMap', main_thread_stack' # NoRegion
  PROVE  IInv'
  BY FrameTypesNext, TypesSplitNext DEF IInv, At, Whole

LEMMA ToGrowing ==
  ASSUME call' \in Calls, call'.at = "growing", FP!IInv', HistoryTypes',
         Whole', GrowingWell', HeldGrowing', main_thread_stack' # NoRegion
  PROVE  IInv'
  BY FrameTypesNext, TypesSplitNext DEF IInv, At, Whole

LEMMA ToShrinking ==
  ASSUME call' \in Calls, call'.at = "shrinking", FP!IInv', HistoryTypes',
         Whole', ShrinkingWell', HeldShrinking', main_thread_stack' # NoRegion
  PROVE  IInv'
  BY FrameTypesNext, TypesSplitNext DEF IInv, At, Whole

LEMMA ToBooting ==
  ASSUME call' \in Calls, call'.at = "booting", FP!IInv', HistoryTypes',
         Whole', BootRecorded', HeldByMap'
  PROVE  IInv'
  BY FrameTypesNext, TypesSplitNext DEF IInv, At, Whole

LEMMA ToUnwinding ==
  ASSUME call' \in Calls, call'.at = "unwinding", FP!IInv', HistoryTypes',
         MemTypes', StackKnown', (heap_size % Granule = 0)', Laid', BootRecorded'
  PROVE  IInv'
  BY FrameTypesNext, TypesSplitNext DEF IInv, At

LEMMA ToLeaving ==
  ASSUME call' \in Calls, call'.at = "leaving", FP!IInv', HistoryTypes',
         MemTypes', StackKnown', (heap_size % Granule = 0)', Departing', LeavingWell'
  PROVE  IInv'
  BY FrameTypesNext, TypesSplitNext DEF IInv, At

LEMMA ToAborted ==
  ASSUME call' \in Calls, call'.at = "aborted", FP!IInv', HistoryTypes', Whole'
  PROVE  IInv'
  BY FrameTypesNext, TypesSplitNext DEF IInv, At, Whole

(* A step that leaves the memory and the process record alone. *)
LEMMA MemoryKept ==
  ASSUME UNCHANGED <<page, processVars>>
  PROVE  /\ Whole => Whole'
         /\ MemTypes => MemTypes'
         /\ Laid => Laid'
         /\ StackKnown => StackKnown'
         /\ heap_size' = heap_size /\ main_thread_stack' = main_thread_stack
         /\ heap_borrows' = heap_borrows /\ tls' = tls /\ module_count' = module_count
         /\ page' = page
         /\ Backing' = Backing /\ HeapEnd' = HeapEnd
<1>1. /\ heap_size' = heap_size /\ main_thread_stack' = main_thread_stack
      /\ heap_borrows' = heap_borrows /\ tls' = tls /\ module_count' = module_count
      /\ page' = page
  BY DEF processVars
<1>2. MemTypes => MemTypes'
  BY <1>1 DEF MemTypes
<1>3. Backing' = Backing /\ HeapEnd' = HeapEnd
  BY <1>1 DEF Backing, HeapEnd, MappedPages
<1>4. StackKnown => StackKnown'
  BY <1>1 DEF StackKnown
<1>5. Laid => Laid'
  BY <1>1 DEF Laid, HeapLaid, StackLaid, TlsLaid, LoansLaid, SharedByLoan, AliasOf, IsLent,
              IsAlias, InMainStack, Loans, SrcOf, DstOf, HeapEnd, TlsEnd
<1>6. CodeLaid => CodeLaid'
  BY <1>1 DEF CodeLaid, InImage
<1> QED BY <1>1, <1>2, <1>3, <1>4, <1>5, <1>6 DEF Whole

LEMMA NoProcessIsWhole == NoProcess => Whole
<1> SUFFICES ASSUME NoProcess PROVE Whole
  OBVIOUS
<1>1. /\ page = Nothing /\ module_count = 0 /\ main_thread_stack = NoRegion /\ heap_size = 0
      /\ heap_borrows = <<>> /\ tls = <<>> /\ Loans = {} /\ Len(tls) = 0
  BY DEF NoProcess, Loans
<1>2. \A v \in Pages : page[v] = Unmapped
  BY <1>1 DEF Nothing
<1>3. MemTypes
  <2>1. page \in [Pages -> Pte]
    BY <1>1 DEF Nothing, Pte
  <2>2. main_thread_stack \in [base : Pages \cup {0}, size : 0 .. Stack.size]
    BY <1>1, Ground DEF NoRegion
  <2>3. module_count \in 0 .. Len(Modules) /\ heap_size \in 0 .. Heap.size
    BY <1>1, ModuleFacts, Ground
  <2>4. \A S : <<>> \in Seq(S)
    OBVIOUS
  <2> HIDE DEF NoProcess
  <2>5. Len(heap_borrows) <= MaxLoans /\ Len(tls) <= MaxTlsPages
    BY <1>1, Ground
  <2> QED BY <1>1, <2>1, <2>2, <2>3, <2>4, <2>5 DEF MemTypes
<1>4. StackKnown /\ heap_size % Granule = 0
  BY <1>1, Ground DEF StackKnown
<1>5. \A v : ~IsLent(v) /\ ~IsAlias(v)
  BY <1>1 DEF IsLent, IsAlias
<1>6. \A v : ~InMainStack(v)
  BY <1>1 DEF InMainStack, RegionPages, FlatRange, NoRegion
<1>7. HeapLaid
  BY <1>1, <1>2, RegionsAre, PagesAre, Ground DEF HeapLaid, HeapEnd
<1>8. StackLaid
  BY <1>2, <1>5, <1>6, RegionsAre DEF StackLaid
<1>9. TlsLaid
  BY <1>1, <1>2, RegionsAre, PagesAre, Ground DEF TlsLaid, TlsEnd
<1>10. LoansLaid /\ SharedByLoan /\ CodeLaid
  BY <1>1, <1>2 DEF LoansLaid, SharedByLoan, CodeLaid
<1> QED BY <1>3, <1>4, <1>7, <1>8, <1>9, <1>10 DEF Whole, Laid

LEMMA NoProcessIsWholeNext == NoProcess' => Whole'
  BY NoProcessIsWhole, PTL

LEMMA ToUnloaded ==
  ASSUME call' = Inside("unloaded"), FP!IInv', HistoryTypes', NoProcess'
  PROVE  IInv'
<1>1. call'.at = "unloaded" /\ call' \in Calls
  BY DEF Inside, Calls
<1> QED BY <1>1, NoProcessIsWholeNext, FrameTypesNext, TypesSplitNext DEF IInv, At, Whole

LEMMA InitHolds == Init => IInv
<1> SUFFICES ASSUME Init PROVE IInv
  OBVIOUS
<1>1. FP!IInv /\ held = {}
  BY InitEffect DEF Init
<1>2. NoProcess
  BY <1>1 DEF Init, NoProcess
<1>3. call.at = "unloaded" /\ call \in Calls
  BY DEF Init, Inside, Calls
<1>4. HistoryTypes
  BY Ground DEF Init, HistoryTypes, Results, NoPage
<1> QED BY <1>1, <1>2, <1>3, <1>4, NoProcessIsWhole, FrameTypes, TypesSplit DEF IInv, At, Whole

-----------------------------------------------------------------------------
(* The steps that change neither the page map nor the process record. *)

LEMMA RunningKept ==
  ASSUME IInv, At("running"), UNCHANGED <<page, processVars, call, lost>>,
         FP!IInv', held' = held, reply' \in Results, stain' \in -1 .. (PageCount - 1)
  PROVE  IInv'
<1>1. Whole' /\ main_thread_stack' # NoRegion /\ call' \in Calls /\ call'.at = "running"
  BY IInvParts, MemoryKept DEF At
<1>2. HistoryTypes'
  BY IInvParts DEF HistoryTypes
<1>3. HeldByMap'
  BY IInvParts, MemoryKept DEF HeldByMap
<1> QED BY <1>1, <1>2, <1>3, ToRunning

LEMMA StainKept == IInv => stain \in -1 .. (PageCount - 1)
  BY IInvParts DEF HistoryTypes

(* What a fresh range may leave of the old bytes. *)
LEMMA ZeroedTypes ==
  ASSUME IInv, NEW pa, NEW n
  PROVE  Zeroed(pa, n) \in -1 .. (PageCount - 1)
<1>1. Zeroed(pa, n) = NoPage \/ Zeroed(pa, n) = stain
  BY DEF Zeroed
<1>2. NoPage \in -1 .. (PageCount - 1)
  BY Ground DEF NoPage
<1> QED BY <1>1, <1>2, StainKept

LEMMA FilledTypes ==
  ASSUME IInv, NEW pa \in Nat, NEW n \in Nat, pa + n <= PageCount, NEW next \in Filled(pa, n)
  PROVE  next \in -1 .. (PageCount - 1)
<1>1. next = Zeroed(pa, n) \/ next \in FlatRange(pa, n)
  BY DEF Filled
<1>2. CASE next \in FlatRange(pa, n)
  <2>1. next \in Int /\ pa <= next /\ next < pa + n
    BY <1>2, RangeIs
  <2> QED BY <2>1, Ground
<1> QED BY <1>1, <1>2, ZeroedTypes

LEMMA RefusedKeeps ==
  ASSUME IInv,
         \/ \E requested \in Sizes :
              \/ SetHeapSizeRefused(requested) \/ SetHeapSizeSame(requested)
              \/ GrowNoMemory(requested) \/ ShrinkOverLoan(requested)
         \/ \E dst, src \in PageArgs : \E n \in 0 .. Heap.size :
              MapMemoryRefused(dst, src, n) \/ UnmapMemoryRefused(dst, src, n)
         \/ ThreadRefused
  PROVE  IInv'
<1> USE DEF Results
<1>1. ASSUME NEW requested \in Sizes,
             SetHeapSizeRefused(requested) \/ SetHeapSizeSame(requested)
               \/ ShrinkOverLoan(requested)
      PROVE  IInv'
  <2>1. /\ UNCHANGED <<page, processVars, call, lost, framesVars, stain>>
        /\ At("running") /\ reply' \in Results
    BY <1>1 DEF SetHeapSizeRefused, SetHeapSizeSame, ShrinkOverLoan, Shrinks
  <2>2. held' = held
    BY <2>1 DEF framesVars
  <2> QED BY <2>1, <2>2, RunningKept, FramesUnchanged, StainKept, IInvParts
<1>2. ASSUME NEW requested \in Sizes, GrowNoMemory(requested)
      PROVE  IInv'
  <2>1. /\ UNCHANGED <<page, processVars, call, lost, stain>>
        /\ At("running") /\ reply' \in Results /\ AllocFails(requested - heap_size)
    BY <1>2 DEF GrowNoMemory
  <2>2. FP!IInv' /\ held' = held
    BY <2>1, AllocFailsEffect, IInvParts
  <2> QED BY <2>1, <2>2, RunningKept, StainKept
<1>3. ASSUME NEW dst, NEW src, NEW n,
             MapMemoryRefused(dst, src, n) \/ UnmapMemoryRefused(dst, src, n)
      PROVE  IInv'
  <2>1. /\ UNCHANGED <<page, processVars, call, lost, framesVars, stain>>
        /\ At("running")
    BY <1>3 DEF MapMemoryRefused, UnmapMemoryRefused
  <2>2. MapMemoryError(dst, src, n) \in Results
    BY DEF MapMemoryError
  <2>3. reply' \in Results
    BY <1>3, <2>2 DEF MapMemoryRefused, UnmapMemoryRefused
  <2>4. held' = held
    BY <2>1 DEF framesVars
  <2> QED BY <2>1, <2>3, <2>4, RunningKept, FramesUnchanged, StainKept, IInvParts
<1>4. ASSUME ThreadRefused
      PROVE  IInv'
  <2>1. /\ UNCHANGED <<page, processVars, call, lost, stain>>
        /\ At("running") /\ reply' \in Results
        /\ AllocFails(1) \/ UNCHANGED framesVars
    BY <1>4 DEF ThreadRefused
  <2>2. FP!IInv' /\ held' = held
    <3>1. UNCHANGED framesVars => held' = held
      BY DEF framesVars
    <3> QED BY <2>1, <3>1, AllocFailsEffect, FramesUnchanged, IInvParts
  <2> QED BY <2>1, <2>2, RunningKept, StainKept
<1> QED BY <1>1, <1>2, <1>3, <1>4

(* A store marks the frame behind the page it hits. *)
LEMMA WrittenTypes ==
  ASSUME IInv, NEW v \in Pages, page[v] # Unmapped
  PROVE  \A x \in Written(v) : x \in -1 .. (PageCount - 1)
<1>1. page[v] \in Pte
  BY DEF IInv, TypeOK
<1>2. page[v].pa \in -1 .. (PageCount - 1)
  BY <1>1, PteFacts, Ground
<1>3. -1 \in -1 .. (PageCount - 1)
  BY Ground
<1> QED BY <1>2, <1>3, StainKept DEF Written, NoPage

LEMMA StoresKeep ==
  ASSUME IInv,
         \/ \E v \in Pages : GuestStores(v)
         \/ \E out, v \in PageArgs : QueryMemory(out, v)
  PROVE  IInv'
<1>0. "W" \notin Unmapped.perms
  BY DEF Unmapped
<1>1. ASSUME NEW v \in Pages, GuestStores(v) PROVE IInv'
  <2>1. /\ UNCHANGED <<page, processVars, call, lost, framesVars, reply>>
        /\ At("running") /\ page[v] # Unmapped /\ stain' \in Written(v)
    BY <1>0, <1>1 DEF GuestStores
  <2>2. stain' \in -1 .. (PageCount - 1) /\ held' = held /\ reply' \in Results
    BY <2>1, WrittenTypes, IInvParts DEF framesVars, HistoryTypes
  <2> QED BY <2>1, <2>2, RunningKept, FramesUnchanged, IInvParts
<1>2. ASSUME NEW out, NEW v, QueryMemory(out, v) PROVE IInv'
  <2>1. /\ UNCHANGED <<page, processVars, call, lost, framesVars>>
        /\ At("running") /\ reply' \in Results
    BY <1>2 DEF QueryMemory, Results
  <2>2. stain' = stain \/ (out \in Pages /\ page[out] # Unmapped /\ stain' \in Written(out))
    BY <1>0, <1>2 DEF QueryMemory
  <2>3. stain' \in -1 .. (PageCount - 1)
    BY <2>2, WrittenTypes, StainKept
  <2>4. held' = held
    BY <2>1 DEF framesVars
  <2> QED BY <2>1, <2>3, <2>4, RunningKept, FramesUnchanged, IInvParts
<1> QED BY <1>1, <1>2

(* The page the TLS allocator drops joins the lost ones. *)
LEMMA LosesPageKeeps ==
  ASSUME IInv, ThreadLosesPage
  PROVE  IInv'
<1>1. /\ UNCHANGED <<page, processVars, call, stain>>
      /\ At("running") /\ reply' = "OUT_OF_MEMORY" /\ AllocOk(1) /\ lost' = lost \cup NewFrames
  BY DEF ThreadLosesPage
<1>2. /\ FP!IInv' /\ FirstNew \in Nat /\ FirstNew + 1 <= PageCount
      /\ held' = held \cup FlatRange(FirstNew, 1)
      /\ FlatRange(FirstNew, 1) \cap held = {} /\ NewFrames = FlatRange(FirstNew, 1)
  BY <1>1, AllocEffect, IInvParts
<1>3. Whole' /\ main_thread_stack' # NoRegion /\ call' \in Calls /\ call'.at = "running"
      /\ Backing' = Backing
  BY <1>1, IInvParts, MemoryKept DEF At
<1>4. FlatRange(FirstNew, 1) \in SUBSET (0 .. (PageCount - 1))
  BY <1>2, Ground DEF FlatRange
<1>5. HistoryTypes'
  BY <1>1, <1>2, <1>4, IInvParts DEF HistoryTypes, Results
<1>6. HeldByMap'
  <2> HIDE DEF NewFrames, FirstNew
  <2> QED BY <1>1, <1>2, <1>3, IInvParts DEF HeldByMap
<1> QED BY <1>2, <1>3, <1>5, <1>6, ToRunning

(* Blocks come and go on pages that stay. *)
LEMMA BlocksKeep ==
  ASSUME IInv, At("running"),
         UNCHANGED <<framesVars, page, module_count, main_thread_stack, heap_size, heap_borrows,
                     call, lost, stain>>,
         tls' \in Seq(SUBSET (0 .. (BlocksPerPage - 1))), Len(tls') = Len(tls),
         reply' \in Results
  PROVE  IInv'
<1>1. /\ heap_size' = heap_size /\ main_thread_stack' = main_thread_stack
      /\ heap_borrows' = heap_borrows /\ module_count' = module_count
      /\ page' = page /\ call' = call /\ lost' = lost /\ stain' = stain
      /\ held' = held /\ UNCHANGED framesVars
  BY DEF framesVars
<1>2. MemTypes'
  BY <1>1, IInvParts DEF MemTypes
<1>3. Backing' = Backing /\ HeapEnd' = HeapEnd /\ TlsEnd' = TlsEnd
  BY <1>1 DEF Backing, HeapEnd, MappedPages, TlsEnd
<1>4. StackKnown' /\ (heap_size % Granule = 0)'
  BY <1>1, IInvParts DEF StackKnown
<1>5. Laid'
  <2>1. HeapLaid' /\ StackLaid' /\ LoansLaid' /\ SharedByLoan'
    <3>1. HeapLaid /\ StackLaid /\ LoansLaid /\ SharedByLoan
      BY IInvParts DEF Whole, Laid
    <3>3. HeapLaid'
      BY <1>1, <1>3, <3>1 DEF HeapLaid, IsLent, Loans, SrcOf
    <3>4. StackLaid'
      BY <1>1, <3>1 DEF StackLaid, IsAlias, InMainStack, Loans, DstOf
    <3>5. LoansLaid'
      BY <1>1, <1>3, <3>1 DEF LoansLaid, InMainStack, Loans, SrcOf, DstOf
    <3>6. SharedByLoan'
      BY <1>1, <3>1 DEF SharedByLoan, AliasOf, Loans, SrcOf
    <3> QED BY <3>3, <3>4, <3>5, <3>6
  <2>2. TlsLaid'
    <3>1. TlsLaid
      BY IInvParts DEF Whole, Laid
    <3> QED BY <1>1, <1>3, <3>1 DEF TlsLaid
  <2> QED BY <2>1, <2>2 DEF Laid
<1>6. CodeLaid'
  BY <1>1, IInvParts DEF Whole, CodeLaid, InImage
<1>7. HeldByMap' /\ HistoryTypes' /\ call' \in Calls /\ call'.at = "running"
      /\ main_thread_stack' # NoRegion
  BY <1>1, <1>3, IInvParts DEF HeldByMap, HistoryTypes, At
<1>8. FP!IInv'
  BY <1>1, FramesUnchanged, IInvParts
<1> QED BY <1>2, <1>4, <1>5, <1>6, <1>7, <1>8, ToRunning DEF Whole

LEMMA ThreadBlocksKeep ==
  ASSUME IInv,
         \/ ThreadOnMappedPage
         \/ \E p \in 1 .. MaxTlsPages : \E b \in 0 .. (BlocksPerPage - 1) : ThreadDestroy(p, b)
  PROVE  IInv'
<1> DEFINE Masks == SUBSET (0 .. (BlocksPerPage - 1))
<1>1. tls \in Seq(Masks)
  BY DEF IInv, TypeOK
<1>2. ASSUME NEW p \in DOMAIN tls, NEW mask \in Masks, tls' = [tls EXCEPT ![p] = mask]
      PROVE  tls' \in Seq(Masks) /\ Len(tls') = Len(tls)
  <2> HIDE DEF Masks
  <2> QED BY <1>1, <1>2
<1>3. ASSUME ThreadOnMappedPage PROVE IInv'
  <2>1. PICK p \in DOMAIN tls : \E b \in RoomOn(p) :
          LowestFree(p, b) /\ tls' = [tls EXCEPT ![p] = @ \cup {b}]
    BY <1>3 DEF ThreadOnMappedPage
  <2>2. PICK b \in RoomOn(p) : tls' = [tls EXCEPT ![p] = @ \cup {b}]
    BY <2>1
  <2>3. tls[p] \in Masks
    <3> HIDE DEF Masks
    <3> QED BY <1>1
  <2>4. tls[p] \cup {b} \in Masks
    BY <2>2, <2>3 DEF RoomOn
  <2>5. tls' \in Seq(Masks) /\ Len(tls') = Len(tls)
    BY <1>2, <2>2, <2>4
  <2> QED BY <1>3, <2>5, BlocksKeep DEF ThreadOnMappedPage, Results
<1>4. ASSUME NEW p, NEW b, ThreadDestroy(p, b) PROVE IInv'
  <2>1. p \in DOMAIN tls /\ tls' = [tls EXCEPT ![p] = @ \ {b}]
    BY <1>4 DEF ThreadDestroy
  <2>2. tls[p] \in Masks
    <3> HIDE DEF Masks
    <3> QED BY <1>1, <2>1
  <2>3. tls[p] \ {b} \in Masks
    BY <2>2
  <2>4. tls' \in Seq(Masks) /\ Len(tls') = Len(tls)
    BY <1>2, <2>1, <2>3
  <2> QED BY <1>4, <2>4, BlocksKeep DEF ThreadDestroy, Results
<1> QED BY <1>3, <1>4

(* Steps inside a handler. *)

LEMMA LoadKeeps ==
  ASSUME IInv, LoadProgram
  PROVE  IInv'
<1>1. /\ UNCHANGED <<framesVars, page, processVars, reply, lost, stain>>
      /\ call' = [at |-> "booting", ranges |-> {}] /\ At("unloaded")
  BY DEF LoadProgram
<1>2. Whole' /\ FP!IInv' /\ NoProcess
  BY <1>1, MemoryKept, FramesUnchanged, IInvParts
<1>3. HistoryTypes' /\ held' = held /\ lost' = lost
  BY <1>1, IInvParts DEF HistoryTypes, framesVars
<1>4. call'.at = "booting" /\ call'.ranges = {} /\ call' \in Calls
  BY <1>1 DEF Calls
<1>5. \A v \in Pages : page[v] = Unmapped
  BY <1>2 DEF NoProcess, Nothing
<1>6. Backing = {}
  BY <1>5 DEF Backing, MappedPages
<1>7. HeldByMap'
  BY <1>1, <1>2, <1>3, <1>6, MemoryKept DEF HeldByMap, NoProcess
<1>8. BootRecorded'
  BY <1>1, <1>2, <1>3, <1>4, <1>5, MemoryKept DEF BootRecorded, NoProcess
<1> QED BY <1>2, <1>3, <1>4, <1>7, <1>8, ToBooting

LEMMA AllocAnyEffect ==
  ASSUME FP!IInv, NEW n, AllocFails(n) \/ (AllocOk(n) /\ n \in Nat) \/ UNCHANGED framesVars
  PROVE  FP!IInv'
  BY AllocFailsEffect, AllocEffect, FramesUnchanged

LEMMA BootFailsKeeps ==
  ASSUME IInv, BootFails
  PROVE  IInv'
<1>1. /\ UNCHANGED <<page, processVars, reply, lost, stain>>
      /\ call' = [call EXCEPT !.at = "unwinding"] /\ At("booting")
      /\ AllocFails(NextBoot[2]) \/ AllocOk(NextBoot[2]) \/ UNCHANGED framesVars
  BY DEF BootFails
<1>2. NextBoot[2] \in Nat
  <2>1. module_count \in 0 .. Len(Modules)
    BY IInvParts DEF MemTypes
  <2>2. CASE module_count < Len(Modules)
    <3>1. module_count + 1 \in 1 .. Len(Modules)
      BY <2>1, <2>2, ModuleFacts
    <3> QED BY <2>2, <3>1, ModuleFacts DEF NextBoot
  <2>3. CASE ~(module_count < Len(Modules))
    BY <2>3, Ground DEF NextBoot
  <2> QED BY <2>2, <2>3
<1>3. FP!IInv'
  BY <1>1, <1>2, AllocAnyEffect, IInvParts
<1>4. call' = [at |-> "unwinding", ranges |-> call.ranges] /\ call.ranges \in SUBSET (Int \X Int)
  BY <1>1, CallShapes, IInvParts
<1>5. call'.at = "unwinding" /\ call'.ranges = call.ranges /\ call' \in Calls
  BY <1>4 DEF Calls
<1>6. HistoryTypes' /\ MemTypes' /\ StackKnown' /\ (heap_size % Granule = 0)' /\ Laid'
      /\ lost' = lost
  BY <1>1, IInvParts, MemoryKept DEF HistoryTypes, Whole
<1>7. BootRecorded'
  BY <1>1, <1>5, <1>6, IInvParts, MemoryKept DEF BootRecorded
<1> QED BY <1>3, <1>5, <1>6, <1>7, ToUnwinding

LEMMA GrowAllocatesKeeps ==
  ASSUME IInv, NEW requested \in Sizes, GrowAllocates(requested)
  PROVE  IInv'
<1>1. /\ UNCHANGED <<page, processVars, reply, lost, stain>> /\ At("running")
      /\ SizeAccepted(requested) /\ requested > heap_size
      /\ AllocOk(requested - heap_size)
      /\ call' = [at |-> "growing", requested |-> requested, pa |-> FirstNew]
  BY DEF GrowAllocates
<1>2. requested \in Nat /\ heap_size \in Nat /\ requested - heap_size \in Nat
  BY <1>1, IInvParts, LoanTypes, Ground, SMTT(30) DEF Sizes
<1> DEFINE n == requested - heap_size
<1>3. /\ FP!IInv' /\ FirstNew \in Nat /\ FirstNew + n <= PageCount
      /\ held' = held \cup FlatRange(FirstNew, n)
      /\ FlatRange(FirstNew, n) \cap held = {}
  BY <1>1, <1>2, AllocEffect, IInvParts
<1> HIDE DEF FirstNew
<1>4. /\ call'.at = "growing" /\ call'.requested = requested /\ call'.pa = FirstNew
      /\ call' \in Calls
  BY <1>1, <1>2, <1>3 DEF Calls
<1>5. Whole' /\ main_thread_stack' # NoRegion /\ Backing' = Backing /\ heap_size' = heap_size
  BY <1>1, IInvParts, MemoryKept
<1>6. HistoryTypes' /\ lost' = lost
  BY <1>1, IInvParts DEF HistoryTypes
<1>7. FreshRun' = FlatRange(FirstNew, n)
  BY <1>4, <1>5 DEF FreshRun
<1>8. HeldGrowing'
  BY <1>1, <1>3, <1>5, <1>6, <1>7, IInvParts DEF HeldGrowing, HeldByMap
<1>9. GrowingWell'
  BY <1>1, <1>3, <1>4, <1>5 DEF GrowingWell, SizeAccepted
<1> QED BY <1>3, <1>4, <1>5, <1>6, <1>8, <1>9, ToGrowing

LEMMA GrowingNumbers ==
  ASSUME IInv, At("growing")
  PROVE  /\ call.requested \in Nat /\ call.pa \in Nat /\ heap_size \in Nat
         /\ call.requested - heap_size \in Nat /\ call.requested > heap_size
         /\ call.requested <= Heap.size /\ call.requested % Granule = 0
         /\ call.pa + (call.requested - heap_size) <= PageCount
         /\ HeapEnd \in Nat /\ HeapEnd = Heap.base + heap_size
<1>1. call.requested \in Nat /\ call.pa \in Nat /\ heap_size \in Nat /\ GrowingWell
  BY IInvParts, CallShapes, LoanTypes
<1> QED BY <1>1, Ground DEF GrowingWell, SizeAccepted, HeapEnd

LEMMA GrowRollsBackKeeps ==
  ASSUME IInv, GrowRollsBack
  PROVE  IInv'
<1>1. /\ UNCHANGED <<page, processVars, lost, stain>> /\ At("growing")
      /\ FreeOk(call.pa, call.requested - heap_size)
      /\ call' = Inside("running") /\ reply' = "OUT_OF_MEMORY"
  BY DEF GrowRollsBack
<1>2. FP!IInv' /\ held' = held \ FreshRun
  BY <1>1, GrowingNumbers, FreeOkEffect, IInvParts DEF FreshRun
<1>3. Whole' /\ main_thread_stack' # NoRegion /\ Backing' = Backing
  BY <1>1, IInvParts, MemoryKept
<1>4. HistoryTypes' /\ lost' = lost /\ call'.at = "running" /\ call' \in Calls
  BY <1>1, IInvParts DEF HistoryTypes, Results, Inside, Calls
<1>5. HeldByMap'
  BY <1>1, <1>2, <1>3, <1>4, IInvParts DEF HeldByMap, HeldGrowing
<1> QED BY <1>2, <1>3, <1>4, <1>5, ToRunning

LEMMA ShrinkNumbers ==
  ASSUME IInv, NEW requested \in Nat, ShrinkMayGo(requested)
  PROVE  /\ At("running") /\ SizeAccepted(requested) /\ requested < heap_size /\ heap_size \in Nat
         /\ heap_size - requested \in Nat /\ heap_size - requested > 0
         /\ Heap.base + requested \in Nat /\ HeapEnd \in Nat
         /\ Heap.base + requested + (heap_size - requested) = HeapEnd
         /\ HeapEnd <= Heap.base + Heap.size
         /\ FlatRange(Heap.base + requested, heap_size - requested)
              = (Heap.base + requested) .. (HeapEnd - 1)
         /\ \A v \in (Heap.base + requested) .. (HeapEnd - 1) : ~IsLent(v)
<1>1. At("running") /\ SizeAccepted(requested) /\ requested < heap_size
      /\ ~LentAt(Heap.base + requested, heap_size - requested)
  BY DEF ShrinkMayGo, Shrinks
<1>2. heap_size \in Nat /\ heap_size <= Heap.size /\ Heap.base \in Nat /\ Heap.size \in Nat
  BY IInvParts, LoanTypes, Ground
<1>3. /\ heap_size - requested \in Nat /\ heap_size - requested > 0
      /\ Heap.base + requested \in Nat /\ HeapEnd \in Nat
      /\ Heap.base + requested + (heap_size - requested) = HeapEnd
      /\ HeapEnd <= Heap.base + Heap.size
  BY <1>1, <1>2 DEF HeapEnd
<1>4. FlatRange(Heap.base + requested, heap_size - requested)
        = (Heap.base + requested) .. (HeapEnd - 1)
  BY <1>3 DEF FlatRange
<1>5. \A v \in (Heap.base + requested) .. (HeapEnd - 1) : ~IsLent(v)
  BY <1>1, <1>4 DEF LentAt, IsLent, SrcOf, Loans
<1> QED BY <1>1, <1>2, <1>3, <1>4, <1>5

LEMMA ShrinkByPageKeeps ==
  ASSUME IInv, NEW requested \in Sizes, ShrinkByPage(requested)
  PROVE  IInv'
<1>1. /\ UNCHANGED <<framesVars, page, processVars, reply, lost, stain>> /\ ShrinkMayGo(requested)
      /\ call' = [at |-> "shrinking", requested |-> requested,
                  next |-> Heap.base + requested, runs |-> free_run_count]
  BY DEF ShrinkByPage
<1>2. requested \in Nat
  BY Ground DEF Sizes
<1>3. free_run_count \in Nat
  BY Ground DEF IInv, FP!IInv, FP!TypeOK
<1>4. Heap.base + requested \in Nat /\ Heap.base + requested <= HeapEnd /\ At("running")
  BY <1>1, <1>2, ShrinkNumbers, Ground, SMTT(30) DEF HeapEnd
<1>5. /\ call'.at = "shrinking" /\ call'.requested = requested
      /\ call'.next = Heap.base + requested /\ call' \in Calls
  BY <1>1, <1>2, <1>3, <1>4 DEF Calls
<1>6. Whole' /\ main_thread_stack' # NoRegion /\ Backing' = Backing /\ heap_size' = heap_size
      /\ HeapEnd' = HeapEnd /\ heap_borrows' = heap_borrows
  BY <1>1, <1>4, IInvParts, MemoryKept
<1>7. HistoryTypes' /\ lost' = lost /\ held' = held /\ FP!IInv'
  BY <1>1, IInvParts, FramesUnchanged DEF HistoryTypes, framesVars
<1>8. ShrinkingWell'
  BY <1>1, <1>2, <1>4, <1>5, <1>6, ShrinkNumbers DEF ShrinkingWell, SizeAccepted, IsLent, SrcOf, Loans
<1>9. Freed' = {}
  <2>1. ((Heap.base + call.requested) .. (call.next - 1))' = {}
    BY <1>4, <1>5
  <2> QED BY <2>1 DEF Freed
<1>10. HeldShrinking'
  BY <1>4, <1>6, <1>7, <1>9, IInvParts DEF HeldShrinking, HeldByMap
<1> QED BY <1>5, <1>6, <1>7, <1>8, <1>10, ToShrinking

LEMMA ShrinkingNumbers ==
  ASSUME IInv, At("shrinking")
  PROVE  /\ call.requested \in Nat /\ call.next \in Nat /\ heap_size \in Nat
         /\ call.requested < heap_size /\ heap_size <= Heap.size
         /\ call.requested <= Heap.size /\ call.requested % Granule = 0
         /\ Heap.base + call.requested <= call.next /\ call.next <= HeapEnd
         /\ HeapEnd \in Nat /\ HeapEnd = Heap.base + heap_size
<1>1. call.requested \in Nat /\ call.next \in Nat /\ heap_size \in Nat /\ heap_size <= Heap.size
      /\ ShrinkingWell
  BY IInvParts, CallShapes, LoanTypes
<1> QED BY <1>1, Ground DEF ShrinkingWell, SizeAccepted, HeapEnd

(* A readable page is mapped, to a frame. *)
LEMMA ReadableIsMapped ==
  ASSUME IInv, NEW v \in Pages, NEW n \in Nat, n > 0, ReadableRun(v, n)
  PROVE  page[v] # Unmapped /\ page[v].pa \in Nat
<1>1. v \in FlatRange(v, n)
  BY PagesAre DEF FlatRange
<1>2. "R" \in page[v].perms
  BY <1>1 DEF ReadableRun
<1>3. page[v] # Unmapped
  BY <1>2 DEF Unmapped
<1>4. page[v] \in Pte
  BY DEF IInv, TypeOK
<1> QED BY <1>3, <1>4, PteFacts, Ground

LEMMA HeapPages ==
  ASSUME IInv
  PROVE  \A v \in Int : Heap.base <= v /\ v < HeapEnd => v \in RegionPages(Heap) /\ v \in Pages
<1>1. heap_size \in Nat /\ heap_size <= Heap.size
  BY IInvParts, LoanTypes
<1> TAKE v \in Int
<1>2. Heap.base <= v /\ v < HeapEnd => 0 <= v /\ v < PageTotal /\ v < Heap.base + Heap.size
  BY <1>1, Ground, RegionOrder DEF HeapEnd
<1> QED BY <1>2, PagesAre, RegionsAre

LEMMA ShrinkPageKeeps ==
  ASSUME IInv, ShrinkPage
  PROVE  IInv'
<1>1. /\ UNCHANGED <<page, processVars, reply, lost, stain>> /\ At("shrinking")
      /\ call.next < HeapEnd /\ ReadableRun(call.next, 1) /\ FreeOk(page[call.next].pa, 1)
      /\ call' = [call EXCEPT !.next = @ + 1]
  BY DEF ShrinkPage
<1> DEFINE v == call.next
           r == call.requested
<1>2. /\ r \in Nat /\ v \in Nat /\ Heap.base + r <= v /\ v < HeapEnd /\ HeapEnd \in Nat
      /\ Heap.base <= v
  BY <1>1, ShrinkingNumbers, Ground
<1>3. page[v].pa \in Nat
  BY <1>1, <1>2, HeapPages, ReadableIsMapped
<1>4. FP!IInv' /\ held' = held \ {page[v].pa}
  <2>1. FlatRange(page[v].pa, 1) = {page[v].pa}
    BY <1>3 DEF FlatRange
  <2> QED BY <1>1, <1>3, <2>1, FreeOkEffect, IInvParts
<1>5. call' = [at |-> "shrinking", requested |-> r, next |-> v + 1, runs |-> call.runs]
      /\ call.runs \in Nat
  BY <1>1, CallShapes, IInvParts
<1>6. call'.at = "shrinking" /\ call'.requested = r /\ call'.next = v + 1 /\ call' \in Calls
  BY <1>2, <1>5 DEF Calls
<1>7. Whole' /\ main_thread_stack' # NoRegion /\ Backing' = Backing /\ heap_size' = heap_size
      /\ HeapEnd' = HeapEnd /\ heap_borrows' = heap_borrows /\ page' = page
  BY <1>1, IInvParts, MemoryKept
<1>8. HistoryTypes' /\ lost' = lost
  BY <1>1, IInvParts DEF HistoryTypes
<1>9. ShrinkingWell /\ HeldShrinking
  BY <1>1, IInvParts
<1>10. ShrinkingWell'
  BY <1>2, <1>6, <1>7, <1>9, Ground DEF ShrinkingWell, SizeAccepted, IsLent, SrcOf, Loans
<1>11. Freed' = Freed \cup {page[v].pa}
  <2>1. (Heap.base + r) .. ((v + 1) - 1) = ((Heap.base + r) .. (v - 1)) \cup {v}
    BY <1>2, Ground
  <2> QED BY <1>6, <1>7, <2>1 DEF Freed, Frame
<1>12. page[v].pa \in Backing
  <2>1. v \in RegionPages(Heap) /\ v \in Pages
    BY <1>2, HeapPages
  <2>2. page[v] # Unmapped
    BY <1>1, <2>1, ReadableIsMapped
  <2> QED BY <2>1, <2>2, BackingIs
<1>13. HeldShrinking'
  BY <1>4, <1>7, <1>8, <1>9, <1>11, <1>12 DEF HeldShrinking
<1> QED BY <1>4, <1>6, <1>7, <1>8, <1>10, <1>13, ToShrinking

LEMMA AbortKeeps ==
  ASSUME IInv, HeapFreeAborts
  PROVE  IInv'
<1>1. /\ UNCHANGED <<page, processVars, reply, lost, stain>> /\ call' = Inside("aborted")
  BY DEF HeapFreeAborts, Abort
<1>2. At("running") \/ At("growing") \/ At("shrinking")
  BY DEF HeapFreeAborts, ShrinkMayGo, Shrinks
<1>3. (\E pa, n : FreeFails(pa, n)) \/ UNCHANGED framesVars
  <2>1. \/ FreeFails(call.pa, call.requested - heap_size)
        \/ \E requested \in 0 .. Heap.size :
             FreeFails(page[Heap.base + requested].pa, heap_size - requested)
        \/ IF ReadableRun(call.next, 1)
           THEN FreeFails(page[call.next].pa, 1) ELSE UNCHANGED framesVars
    BY DEF HeapFreeAborts
  <2> QED BY <2>1
<1>4. FP!IInv'
  BY <1>3, FreeFailsEffect, FramesUnchanged, IInvParts
<1>5. Whole'
  BY <1>1, <1>2, IInvParts, MemoryKept
<1>6. HistoryTypes' /\ call'.at = "aborted" /\ call' \in Calls
  BY <1>1, IInvParts DEF HistoryTypes, Inside, Calls
<1> QED BY <1>4, <1>5, <1>6, ToAborted

LEMMA LeaveFreesKeep ==
  ASSUME IInv, LeaveFreesWhole \/ LeaveFreesPage
  PROVE  IInv'
<1>1. UNCHANGED <<page, processVars, reply, lost, stain>> /\ At("leaving")
  BY DEF LeaveFreesWhole, LeaveFreesPage
<1>2. /\ call = [at |-> "leaving", next |-> call.next] /\ call.next \in Nat
      /\ Heap.base <= call.next /\ call.next <= HeapEnd
      /\ heap_size \in Nat /\ HeapEnd \in Nat /\ HeapEnd = Heap.base + heap_size
      /\ Departing
  <2>1. call = [at |-> "leaving", next |-> call.next] /\ call.next \in Nat
    BY <1>1, IInvParts, CallShapes
  <2>2. heap_size \in Nat /\ Departing /\ LeavingWell
    BY <1>1, IInvParts, LoanTypes
  <2>3. HeapEnd \in Nat /\ HeapEnd = Heap.base + heap_size
    BY <2>2, Ground DEF HeapEnd
  <2> QED BY <2>1, <2>2, <2>3 DEF LeavingWell
<1>3. ASSUME NEW next \in Nat, Heap.base <= next, next <= HeapEnd, FP!IInv',
             call' = [call EXCEPT !.next = next]
      PROVE  IInv'
  <2>1. call' = [at |-> "leaving", next |-> next]
    BY <1>2, <1>3
  <2>2. call'.at = "leaving" /\ call'.next = next /\ call' \in Calls
    BY <2>1 DEF Calls
  <2>3. /\ heap_size' = heap_size /\ tls' = tls /\ page' = page /\ HeapEnd' = HeapEnd
        /\ MemTypes' /\ StackKnown'
    BY <1>1, IInvParts, MemoryKept
  <2>4. HistoryTypes' /\ (heap_size % Granule = 0)'
    BY <1>1, <2>3, IInvParts DEF HistoryTypes
  <2>5. Departing'
    BY <1>2, <2>3 DEF Departing, TlsEnd
  <2>6. LeavingWell'
    BY <1>3, <2>2, <2>3 DEF LeavingWell
  <2> QED BY <1>3, <2>2, <2>3, <2>4, <2>5, <2>6, ToLeaving
<1>4. CASE LeaveFreesWhole
  <2>1. /\ heap_size > 0 /\ ReadableRun(Heap.base, heap_size)
        /\ Frames!Free(page[Heap.base].pa, heap_size)
        /\ call' = [call EXCEPT !.next = HeapEnd]
    BY <1>4 DEF LeaveFreesWhole
  <2>2. Heap.base \in Int /\ Heap.base <= Heap.base /\ Heap.base < HeapEnd
    BY <1>2, <2>1, Ground
  <2>3. page[Heap.base].pa \in Nat
    BY <1>2, <2>1, <2>2, HeapPages, ReadableIsMapped
  <2>4. FP!IInv'
    BY <1>2, <2>1, <2>3, FreeEffect, IInvParts
  <2>5. Heap.base <= HeapEnd /\ HeapEnd <= HeapEnd
    BY <1>2, Ground
  <2> QED BY <1>2, <1>3, <2>1, <2>4, <2>5
<1>5. CASE LeaveFreesPage
  <2>1. /\ call.next < HeapEnd /\ call' = [call EXCEPT !.next = @ + 1]
        /\ IF ReadableRun(call.next, 1)
           THEN Frames!Free(page[call.next].pa, 1) ELSE UNCHANGED framesVars
    BY <1>5 DEF LeaveFreesPage
  <2>2. FP!IInv'
    <3>1. CASE ReadableRun(call.next, 1)
      <4>1. page[call.next].pa \in Nat
        BY <1>2, <2>1, <3>1, HeapPages, ReadableIsMapped
      <4> QED BY <2>1, <3>1, <4>1, FreeEffect, IInvParts
    <3>2. CASE ~ReadableRun(call.next, 1)
      BY <2>1, <3>2, FramesUnchanged, IInvParts
    <3> QED BY <3>1, <3>2
  <2>3. call.next + 1 \in Nat /\ Heap.base <= call.next + 1 /\ call.next + 1 <= HeapEnd
    BY <1>2, <2>1, Ground
  <2>4. call' = [call EXCEPT !.next = call.next + 1]
    BY <2>1
  <2> QED BY <1>3, <2>2, <2>3, <2>4
<1> QED BY <1>4, <1>5

-----------------------------------------------------------------------------
(* The steps that map a run of new frames. *)

LEMMA FreshKeepsLoans ==
  ASSUME TypeOK, Laid, NEW v, NEW n, NEW pa, MapsFresh(v, n, pa),
         heap_borrows' = heap_borrows, heap_size' \in Nat, heap_size <= heap_size',
         main_thread_stack' = main_thread_stack \/ Loans = {}
  PROVE  LoansLaid' /\ SharedByLoan'
<1>1. LoansLaid /\ HeapLaid /\ StackLaid /\ SharedByLoan /\ page \in [Pages -> Pte]
  BY DEF Laid, TypeOK
<1>2. Loans' = Loans /\ \A i \in Loans : SrcOf(i)' = SrcOf(i) /\ DstOf(i)' = DstOf(i)
  BY DEF Loans, SrcOf, DstOf
<1>3. HeapEnd \in Nat /\ HeapEnd' \in Nat /\ HeapEnd <= HeapEnd'
  BY LoanTypes, Ground, SMTT(30) DEF HeapEnd
<1>4. ASSUME NEW w \in Pages, page[w] # Unmapped PROVE page'[w] = page[w]
  BY <1>4 DEF MapsFresh, AllHoles
<1>5. ASSUME NEW i \in Loans, NEW k \in 0 .. (heap_borrows[i].size - 1)
      PROVE  /\ page'[heap_borrows[i].src_base + k] = page[heap_borrows[i].src_base + k]
             /\ page'[heap_borrows[i].dst_base + k] = page[heap_borrows[i].dst_base + k]
  <2> DEFINE b == heap_borrows[i]
             x == b.src_base + k
             y == b.dst_base + k
  <2>1. b.dst_base \in Nat /\ b.src_base \in Nat /\ b.size \in Nat
    BY LoanTypes
  <2>2. x \in SrcOf(i) /\ y \in DstOf(i)
    BY <1>1, <2>1, LoanPlaces
  <2> HIDE DEF x, y
  <2>3. x \in RegionPages(Heap) /\ x < HeapEnd /\ y \in RegionPages(Stack) /\ IsAlias(y)
    BY <1>1, <2>2, LoanPlaces DEF IsAlias
  <2>4. x \in Pages /\ y \in Pages /\ page[x] # Unmapped /\ page[y] # Unmapped
    BY <1>1, <2>3, RegionsAre DEF HeapLaid, StackLaid
  <2> QED BY <1>4, <2>4 DEF x, y
<1>6. LoansLaid'
  <2>1. ASSUME NEW i \in Loans
        PROVE  /\ Heap.base <= heap_borrows[i].src_base
               /\ heap_borrows[i].src_base + heap_borrows[i].size <= HeapEnd'
               /\ Stack.base <= heap_borrows[i].dst_base
               /\ heap_borrows[i].dst_base + heap_borrows[i].size <= Stack.base + Stack.size
    <3>1. /\ Heap.base <= heap_borrows[i].src_base
          /\ heap_borrows[i].src_base + heap_borrows[i].size <= HeapEnd
          /\ Stack.base <= heap_borrows[i].dst_base
          /\ heap_borrows[i].dst_base + heap_borrows[i].size <= Stack.base + Stack.size
      BY <1>1 DEF LoansLaid
    <3>2. heap_borrows[i].src_base \in Nat /\ heap_borrows[i].size \in Nat
      BY LoanTypes
    <3> QED BY <1>3, <3>1, <3>2
  <2>2. ASSUME NEW i \in Loans, NEW k \in 0 .. (heap_borrows[i].size - 1)
        PROVE  /\ page'[heap_borrows[i].dst_base + k].pa = page'[heap_borrows[i].src_base + k].pa
               /\ ~InMainStack(heap_borrows[i].dst_base + k)'
    <3>1. /\ page[heap_borrows[i].dst_base + k].pa = page[heap_borrows[i].src_base + k].pa
          /\ ~InMainStack(heap_borrows[i].dst_base + k)
      BY <1>1 DEF LoansLaid
    <3>2. main_thread_stack' = main_thread_stack
      OBVIOUS
    <3> QED BY <1>5, <3>1, <3>2 DEF InMainStack
  <2>3. \A i, j \in Loans : i # j => SrcOf(i) \cap SrcOf(j) = {} /\ DstOf(i) \cap DstOf(j) = {}
    BY <1>1 DEF LoansLaid
  <2> QED BY <1>2, <2>1, <2>2, <2>3 DEF LoansLaid
<1>7. SharedByLoan'
  <2> SUFFICES ASSUME NEW a \in Pages, NEW b \in Pages, page'[a] # Unmapped, page'[b] # Unmapped,
                      a # b, page'[a].pa = page'[b].pa
               PROVE  AliasOf(b, a)' \/ AliasOf(a, b)'
    BY DEF SharedByLoan
  <2>1. page[a] # Unmapped /\ page[b] # Unmapped /\ page[a].pa = page[b].pa
    BY <1>1, FreshSharing
  <2>2. AliasOf(b, a) \/ AliasOf(a, b)
    BY <1>1, <2>1 DEF SharedByLoan
  <2> QED BY <1>2, <2>2 DEF AliasOf
<1> QED BY <1>6, <1>7

(* The regions it does not touch stay as they were. *)
LEMMA FreshElsewhere ==
  ASSUME NEW v, NEW n, NEW pa, MapsFresh(v, n, pa), heap_borrows' = heap_borrows
  PROVE  /\ HeapLaid /\ heap_size' = heap_size
              /\ (\A w \in FlatRange(v, n) : w \notin RegionPages(Heap)) => HeapLaid'
         /\ StackLaid /\ main_thread_stack' = main_thread_stack
              /\ (\A w \in FlatRange(v, n) : w \notin RegionPages(Stack)) => StackLaid'
         /\ TlsLaid /\ Len(tls') = Len(tls)
              /\ (\A w \in FlatRange(v, n) : w \notin RegionPages(TlsIo)) => TlsLaid'
         /\ CodeLaid /\ module_count' = module_count
              /\ (\A w \in FlatRange(v, n) : ~Elsewhere(w)) => CodeLaid'
<1>1. /\ \A w \in Pages : w \notin FlatRange(v, n) => page'[w] = page[w]
      /\ \A w \in Pages : page[w] # Unmapped => page'[w] = page[w]
  BY DEF MapsFresh, AllHoles
<1>2. \A w : IsLent(w)' = IsLent(w) /\ IsAlias(w)' = IsAlias(w)
  BY DEF IsLent, IsAlias, Loans, SrcOf, DstOf
<1>3. HeapLaid /\ heap_size' = heap_size
        /\ (\A w \in FlatRange(v, n) : w \notin RegionPages(Heap)) => HeapLaid'
  BY <1>1, <1>2, RegionsAre DEF HeapLaid, HeapEnd
<1>4. StackLaid /\ main_thread_stack' = main_thread_stack
        /\ (\A w \in FlatRange(v, n) : w \notin RegionPages(Stack)) => StackLaid'
  BY <1>1, <1>2, RegionsAre DEF StackLaid, InMainStack
<1>5. TlsLaid /\ Len(tls') = Len(tls)
        /\ (\A w \in FlatRange(v, n) : w \notin RegionPages(TlsIo)) => TlsLaid'
  BY <1>1, RegionsAre DEF TlsLaid, TlsEnd
<1>6. CodeLaid /\ module_count' = module_count
        /\ (\A w \in FlatRange(v, n) : ~Elsewhere(w)) => CodeLaid'
  BY <1>1 DEF CodeLaid, InImage
<1> QED BY <1>3, <1>4, <1>5, <1>6

LEMMA GrowMapsKeeps ==
  ASSUME IInv, GrowMaps
  PROVE  IInv'
<1> DEFINE n == call.requested - heap_size
<1>1. /\ At("growing") /\ MapOk(page, HeapEnd, n)
      /\ page' = Mapped(page, HeapEnd, n, call.pa, RW)
      /\ stain' = Zeroed(call.pa, n)
      /\ heap_size' = call.requested /\ call' = Inside("running") /\ reply' = "OK"
      /\ module_count' = module_count /\ main_thread_stack' = main_thread_stack
      /\ heap_borrows' = heap_borrows /\ tls' = tls /\ lost' = lost /\ UNCHANGED framesVars
  BY DEF GrowMaps
<1>2. /\ call.requested \in Nat /\ call.pa \in Nat /\ heap_size \in Nat /\ n \in Nat
      /\ heap_size < call.requested /\ call.requested <= Heap.size
      /\ call.requested % Granule = 0 /\ call.pa + n <= PageCount
      /\ HeapEnd \in Nat /\ HeapEnd = Heap.base + heap_size
  BY <1>1, GrowingNumbers
<1>3. HeapEnd' = Heap.base + call.requested /\ HeapEnd + n = HeapEnd' /\ HeapEnd' \in Nat
  <2>1. HeapEnd' = Heap.base + call.requested
    BY <1>1 DEF HeapEnd
  <2>2. HeapEnd + n = Heap.base + call.requested /\ Heap.base + call.requested \in Nat
    BY <1>2, Ground
  <2> QED BY <2>1, <2>2
<1>4. TypeOK /\ Laid /\ CodeLaid /\ HeldGrowing /\ MemTypes /\ StackKnown
      /\ main_thread_stack # NoRegion /\ FreshRun = FlatRange(call.pa, n)
  BY <1>1, IInvParts DEF Whole, FreshRun
<1>5. FlatRange(call.pa, n) \cap Backing = {}
  BY <1>4 DEF HeldGrowing
<1>6. MapsFresh(HeapEnd, n, call.pa) /\ \A w \in FlatRange(HeapEnd, n) : page'[w].perms = RW
  BY <1>1, <1>2, <1>4, <1>5, MapRwIsFresh DEF MemTypes
<1> HIDE DEF n
<1>7. \A w : w \in FlatRange(HeapEnd, n) <=> w \in Int /\ HeapEnd <= w /\ w < HeapEnd'
  BY <1>2, <1>3, RangeIs
<1>8. ASSUME NEW w \in FlatRange(HeapEnd, n)
      PROVE  w \in RegionPages(Heap) /\ w \notin RegionPages(Stack) /\ w \notin RegionPages(TlsIo)
  <2>1. w \in Int /\ Heap.base <= w /\ w < Heap.base + Heap.size
    BY <1>2, <1>3, <1>7, <1>8, Ground
  <2>2. 0 <= w /\ w < PageTotal
    BY <2>1, Ground, RegionOrder
  <2> QED BY <2>1, <2>2, PagesAre, RegionsAre, Ground, RegionOrder
<1>9. StackLaid' /\ TlsLaid' /\ CodeLaid'
  BY <1>1, <1>4, <1>6, <1>8, FreshElsewhere DEF Laid, Elsewhere
<1>10. LoansLaid' /\ SharedByLoan'
  BY <1>1, <1>2, <1>4, <1>6, FreshKeepsLoans
<1>11. HeapLaid'
  <2>1. \A w : IsLent(w)' = IsLent(w)
    BY <1>1 DEF IsLent, Loans, SrcOf
  <2> SUFFICES ASSUME NEW w \in RegionPages(Heap)
               PROVE  /\ page'[w] # Unmapped <=> w < HeapEnd'
                      /\ page'[w] # Unmapped => page'[w].perms = IF IsLent(w) THEN {} ELSE RW
    BY <2>1 DEF HeapLaid
  <2>2. w \in Pages /\ w \in Int /\ Heap.base <= w
    BY RegionsAre, PagesAre
  <2>3. CASE w \in FlatRange(HeapEnd, n)
    <3>1. ~IsLent(w)
      <4>1. ~(w < HeapEnd)
        BY <1>2, <1>7, <2>3
      <4> QED BY <1>4, <4>1, LoanPlaces DEF IsLent, Laid
    <3>2. page'[w] # Unmapped /\ page'[w].perms = RW
      BY <1>6, <2>2, <2>3 DEF MapsFresh
    <3> QED BY <1>7, <2>3, <3>1, <3>2
  <2>4. CASE w \notin FlatRange(HeapEnd, n)
    <3>1. page'[w] = page[w]
      BY <1>6, <2>2, <2>4 DEF MapsFresh
    <3>2. w < HeapEnd' <=> w < HeapEnd
      BY <1>2, <1>3, <1>7, <2>2, <2>4
    <3> QED BY <1>4, <3>1, <3>2 DEF Laid, HeapLaid
  <2> QED BY <2>3, <2>4
<1>12. MemTypes' /\ StackKnown' /\ (heap_size % Granule = 0)'
  <2>1. page' \in [Pages -> Pte] /\ heap_size' \in 0 .. Heap.size
    BY <1>1, <1>2, <1>6, Ground DEF MapsFresh
  <2>2. MemTypes'
    BY <1>1, <1>4, <2>1 DEF MemTypes
  <2>3. StackKnown'
    BY <1>1, <1>4 DEF StackKnown
  <2> QED BY <1>1, <1>2, <2>2, <2>3
<1>13. Backing' = Backing \cup FlatRange(call.pa, n)
  BY <1>4, <1>6, FreshBacking DEF MemTypes
<1>14. HeldByMap'
  <2>1. held' = held
    BY <1>1 DEF framesVars
  <2> QED BY <1>1, <1>4, <1>13, <2>1 DEF HeldByMap, HeldGrowing
<1>15. HistoryTypes' /\ call'.at = "running" /\ call' \in Calls
  <2>2. stain' \in -1 .. (PageCount - 1)
    BY <1>1, ZeroedTypes
  <2> QED BY <1>1, <2>2, IInvParts DEF HistoryTypes, Results, Inside, Calls
<1>16. FP!IInv'
  BY <1>1, FramesUnchanged, IInvParts
<1> QED BY <1>1, <1>4, <1>9, <1>10, <1>11, <1>12, <1>14, <1>15, <1>16, ToRunning DEF Whole, Laid

(* One more page of the TLS region, by a thread or by the bootstrap. *)
LEMMA TlsPageMaps ==
  ASSUME IInv, ~At("leaving"), ~At("unwinding"), ~At("unloaded"),
         held = Backing \cup lost, lost \cap Backing = {},
         Len(tls) < TlsIo.size, AllocOk(1), MapOk(page, TlsEnd, 1),
         page' = Mapped(page, TlsEnd, 1, FirstNew, RW),
         UNCHANGED <<module_count, main_thread_stack, heap_size, heap_borrows, lost, stain>>,
         tls' \in Seq(SUBSET (0 .. (BlocksPerPage - 1))),
         Len(tls') = Len(tls) + 1, Len(tls) + 1 <= MaxTlsPages
  PROVE  FP!IInv' /\ Whole' /\ HeldByMap'
<1>1. /\ FP!IInv' /\ FirstNew \in Nat /\ FirstNew + 1 <= PageCount
      /\ held' = held \cup FlatRange(FirstNew, 1)
      /\ FlatRange(FirstNew, 1) \cap held = {}
  BY AllocEffect, IInvParts
<1> DEFINE pa == FirstNew
<1> HIDE DEF pa
<1>2. pa = FirstNew
  BY DEF pa
<1>3. TypeOK /\ Laid /\ CodeLaid /\ MemTypes /\ StackKnown /\ heap_size % Granule = 0
  BY IInvParts DEF IInv
<1>4. Len(tls) \in Nat /\ heap_size \in Nat /\ TlsEnd \in Nat /\ TlsEnd = TlsIo.base + Len(tls)
      /\ TlsEnd' = TlsEnd + 1
  BY <1>3, LoanTypes, Ground, SMTT(30) DEF TlsEnd
<1>5. MapsFresh(TlsEnd, 1, pa)
  <2>1. FlatRange(pa, 1) \cap Backing = {}
    BY <1>1, <1>2
  <2>2. page \in [Pages -> Pte] /\ page' = Mapped(page, TlsEnd, 1, pa, RW) /\ pa \in Nat
        /\ pa + 1 <= PageCount
    BY <1>1, <1>2, <1>3 DEF MemTypes
  <2> QED BY <1>4, <2>1, <2>2, MapRwIsFresh
<1>6. FlatRange(TlsEnd, 1) = {TlsEnd}
  BY <1>4 DEF FlatRange
<1>7. TlsEnd \in RegionPages(TlsIo) /\ TlsEnd \notin RegionPages(Heap)
      /\ TlsEnd \notin RegionPages(Stack)
  <2>1. TlsIo.base <= TlsEnd /\ TlsEnd < TlsIo.base + TlsIo.size /\ 0 <= TlsEnd /\ TlsEnd \in Int
    <3>1. Len(tls) < TlsIo.size /\ Len(tls) \in Nat /\ TlsIo.base \in Nat /\ TlsIo.size \in Nat
      BY <1>4, Ground
    <3>2. TlsEnd = TlsIo.base + Len(tls)
      BY <1>4
    <3> HIDE DEF TlsEnd
    <3> QED BY <3>1, <3>2
  <2> QED BY <2>1, RegionPlaces
<1>8. HeapLaid' /\ StackLaid' /\ CodeLaid'
  BY <1>3, <1>5, <1>6, <1>7, FreshElsewhere DEF Laid, Elsewhere
<1>9. LoansLaid' /\ SharedByLoan'
  BY <1>3, <1>4, <1>5, FreshKeepsLoans
<1>10. TlsLaid'
  <2>1. Len(tls') <= TlsIo.size
    BY <1>4, Ground
  <2>2. ASSUME NEW w \in RegionPages(TlsIo) PROVE page'[w] # Unmapped <=> w < TlsEnd'
    <3>1. w \in Pages /\ w \in Int
      BY RegionsAre, PagesAre
    <3>2. CASE w = TlsEnd
      BY <1>4, <1>5, <1>6, <3>1, <3>2 DEF MapsFresh
    <3>3. CASE w # TlsEnd
      <4>1. page'[w] = page[w]
        BY <1>5, <1>6, <3>1, <3>3 DEF MapsFresh
      <4>2. w < TlsEnd' <=> w < TlsEnd
        BY <1>4, <3>1, <3>3
      <4> QED BY <1>3, <4>1, <4>2 DEF Laid, TlsLaid
    <3> QED BY <3>2, <3>3
  <2> QED BY <2>1, <2>2 DEF TlsLaid
<1>11. MemTypes'
  <2>1. page' \in [Pages -> Pte]
    BY <1>5 DEF MapsFresh
  <2>2. Len(tls') <= MaxTlsPages
    OBVIOUS
  <2>3. /\ module_count' = module_count /\ main_thread_stack' = main_thread_stack
        /\ heap_size' = heap_size /\ heap_borrows' = heap_borrows
        /\ tls' \in Seq(SUBSET (0 .. (BlocksPerPage - 1)))
    OBVIOUS
  <2> QED BY <1>3, <2>1, <2>2, <2>3 DEF MemTypes
<1>12. StackKnown' /\ (heap_size % Granule = 0)'
  BY <1>3 DEF StackKnown
<1>13. Backing' = Backing \cup FlatRange(pa, 1)
  BY <1>3, <1>5, FreshBacking DEF MemTypes
<1>14. HeldByMap'
  BY <1>1, <1>2, <1>13 DEF HeldByMap
<1> QED BY <1>1, <1>8, <1>9, <1>10, <1>11, <1>12, <1>14 DEF Whole, Laid

LEMMA BootTlsKeeps ==
  ASSUME IInv, BootTls
  PROVE  IInv'
<1>1. /\ At("booting") /\ main_thread_stack # NoRegion /\ AllocOk(1)
      /\ MapOk(page, TlsIo.base, 1) /\ page' = Mapped(page, TlsIo.base, 1, FirstNew, RW)
      /\ tls' = <<{0}>> /\ call' = Inside("running") /\ reply' = "OK"
      /\ UNCHANGED <<module_count, main_thread_stack, heap_size, heap_borrows, lost, stain>>
  BY DEF BootTls
<1>2. HeldByMap /\ tls = <<>> /\ HistoryTypes
  BY <1>1, IInvParts DEF BootRecorded
<1>3. Len(tls) = 0 /\ TlsEnd = TlsIo.base
  BY <1>2, Ground DEF TlsEnd
<1>4. tls' \in Seq(SUBSET (0 .. (BlocksPerPage - 1))) /\ Len(tls') = 1
  <2>1. 0 \in 0 .. (BlocksPerPage - 1)
    BY Ground
  <2> QED BY <1>1, <2>1
<1>5. Len(tls') = Len(tls) + 1 /\ Len(tls) + 1 <= MaxTlsPages /\ Len(tls) < TlsIo.size
  BY <1>3, <1>4, Ground
<1>6. FP!IInv' /\ Whole' /\ HeldByMap'
  BY <1>1, <1>2, <1>3, <1>4, <1>5, TlsPageMaps DEF At, HeldByMap
<1>7. HistoryTypes' /\ call'.at = "running" /\ call' \in Calls
  BY <1>1, <1>2 DEF HistoryTypes, Results, Inside, Calls
<1> QED BY <1>1, <1>6, <1>7, ToRunning

LEMMA NewPageKeeps ==
  ASSUME IInv, ThreadOnNewPage
  PROVE  IInv'
<1>1. /\ At("running") /\ MayAddTlsPage /\ AllocOk(1)
      /\ MapOk(page, TlsEnd, 1) /\ page' = Mapped(page, TlsEnd, 1, FirstNew, RW)
      /\ \/ tls' = Append(tls, {0}) /\ reply' = "OK"
         \/ tls' = Append(tls, {}) /\ reply' = "OUT_OF_MEMORY"
      /\ UNCHANGED <<module_count, main_thread_stack, heap_size, heap_borrows, call, lost, stain>>
  BY DEF ThreadOnNewPage, TlsEnd
<1>2. HeldByMap /\ MemTypes /\ HistoryTypes /\ main_thread_stack # NoRegion /\ call \in Calls
  BY <1>1, IInvParts
<1>3. tls' \in Seq(SUBSET (0 .. (BlocksPerPage - 1))) /\ Len(tls') = Len(tls) + 1
  <2> DEFINE Mask == SUBSET (0 .. (BlocksPerPage - 1))
  <2>1. {0} \in Mask /\ {} \in Mask /\ tls \in Seq(Mask)
    BY <1>2, Ground DEF MemTypes
  <2>2. tls' = Append(tls, {0}) \/ tls' = Append(tls, {})
    BY <1>1
  <2> HIDE DEF Mask
  <2>3. ASSUME NEW mask \in Mask
        PROVE  Append(tls, mask) \in Seq(Mask) /\ Len(Append(tls, mask)) = Len(tls) + 1
    <3>1. tls \in Seq(Mask)
      BY <2>1
    <3> QED BY <3>1
  <2>4. tls' \in Seq(Mask) /\ Len(tls') = Len(tls) + 1
    <3>1. CASE tls' = Append(tls, {0})
      BY <2>1, <2>3, <3>1
    <3>2. CASE tls' = Append(tls, {})
      BY <2>1, <2>3, <3>2
    <3> QED BY <2>2, <3>1, <3>2
  <2> QED BY <2>4 DEF Mask
<1>4. Len(tls) < TlsIo.size /\ Len(tls) + 1 <= MaxTlsPages
  <2>1. Len(tls) < MaxTlsPages /\ Len(tls) < TlsIo.size /\ Len(tls) \in Nat
    BY <1>1, <1>2 DEF MayAddTlsPage, MemTypes
  <2> QED BY <2>1, Ground
<1>5. FP!IInv' /\ Whole' /\ HeldByMap'
  BY <1>1, <1>2, <1>3, <1>4, TlsPageMaps DEF At, HeldByMap
<1>6. HistoryTypes' /\ call'.at = "running" /\ call' \in Calls
  BY <1>1, <1>2 DEF HistoryTypes, Results, At
<1> QED BY <1>1, <1>2, <1>5, <1>6, ToRunning

-----------------------------------------------------------------------------
(* The steps of the bootstrap that map and record a range. *)

LEMMA RecordedGrows ==
  ASSUME BootRecorded, NEW v, NEW n, NEW pa, MapsFresh(v, n, pa),
         call'.ranges = call.ranges \cup {<<v, n>>},
         UNCHANGED <<heap_size, heap_borrows, tls, lost>>
  PROVE  BootRecorded'
<1>1. /\ heap_size' = 0 /\ heap_borrows' = <<>> /\ tls' = <<>> /\ lost' = {}
  BY DEF BootRecorded
<1>2. \A w \in Pages : page[w] # Unmapped => page'[w] # Unmapped
  BY DEF MapsFresh, AllHoles
<1>3. \A w \in FlatRange(v, n) : w \in Pages /\ page'[w] # Unmapped
  <2>1. v \in Nat /\ n \in Nat /\ v + n <= PageTotal /\ PageTotal \in Nat
    BY Ground DEF MapsFresh
  <2>2. \A w \in FlatRange(v, n) : w \in Pages
    BY <2>1 DEF FlatRange, Pages
  <2> QED BY <2>2 DEF MapsFresh
<1>4. ASSUME NEW r \in call'.ranges, NEW w \in FlatRange(r[1], r[2])
      PROVE  w \in Pages /\ page'[w] # Unmapped
  <2>1. CASE r \in call.ranges
    BY <1>2, <1>4, <2>1 DEF BootRecorded
  <2>2. CASE r = <<v, n>>
    BY <1>3, <1>4, <2>2
  <2> QED BY <2>1, <2>2
<1>5. ASSUME NEW w \in Pages, page'[w] # Unmapped
      PROVE  \E r \in call'.ranges : w \in FlatRange(r[1], r[2])
  <2>1. CASE w \in FlatRange(v, n)
    <3>1. <<v, n>> \in call'.ranges /\ <<v, n>>[1] = v /\ <<v, n>>[2] = n
      OBVIOUS
    <3> QED BY <2>1, <3>1
  <2>2. CASE w \notin FlatRange(v, n)
    <3>1. page[w] # Unmapped
      BY <1>5, <2>2 DEF MapsFresh
    <3> QED BY <3>1 DEF BootRecorded
  <2> QED BY <2>1, <2>2
<1> QED BY <1>1, <1>4, <1>5 DEF BootRecorded

(* A filled image, its text and rodata then protected, is a fresh mapping. *)
LEMMA ImageIsFresh ==
  ASSUME page \in [Pages -> Pte], NEW m \in 1 .. Len(Modules), NEW base \in Nat, NEW pa \in Nat,
         MapOk(page, base, ImageSize(m)), pa + ImageSize(m) <= PageCount,
         FlatRange(pa, ImageSize(m)) \cap Backing = {}, page' = ModuleImage(m, base, pa)
  PROVE  MapsFresh(base, ImageSize(m), pa)
<1> DEFINE n == ImageSize(m)
           t == Modules[m].text
           r == Modules[m].rodata
           image == FlatRange(base, n)
           text == FlatRange(base, t)
           rodata == FlatRange(base + t, r)
<1>1. n \in Nat /\ t \in Nat /\ r \in Nat /\ t + r <= n
  <2>1. Modules[m] \in [text : Nat, rodata : Nat, data : Nat]
        /\ n = t + r + Modules[m].data /\ n \in Nat
    BY ModuleFacts
  <2>2. t \in Nat /\ r \in Nat /\ Modules[m].data \in Nat
    BY <2>1
  <2> QED BY <2>1, <2>2
<1>2. n > 0 /\ base + n <= PageTotal /\ AllHoles(page, base, n)
  BY DEF MapOk, InSpace
<1> HIDE DEF n, t, r
<1>3. text \subseteq image /\ rodata \subseteq image
  BY <1>1 DEF FlatRange
<1>4. \A w \in image : w \in Int /\ base <= w /\ w < base + n /\ w \in Pages
  <2> SUFFICES ASSUME NEW w \in image
               PROVE  w \in Int /\ base <= w /\ w < base + n /\ w \in Pages
    OBVIOUS
  <2>1. w \in Int /\ base <= w /\ w < base + n
    BY <1>1, RangeIs
  <2>2. 0 <= w /\ w < PageTotal
    BY <1>1, <1>2, <2>1, Ground
  <2> QED BY <2>1, <2>2, PagesAre
<1> DEFINE filled == Mapped(page, base, n, pa, RW)
           coded == Reprotected(filled, base, t, {"R", "X"})
<1>5. page' = Reprotected(coded, base + t, r, {"R"})
  BY DEF ModuleImage, n, t, r
<1> HIDE DEF image, text, rodata
<1>6. ASSUME NEW w \in Pages, w \in image
      PROVE  /\ page'[w] # Unmapped /\ page'[w].pa = pa + (w - base)
             /\ page'[w] \in Pte
  <2>1. pa + (w - base) \in Nat /\ pa + (w - base) < PageCount
    <3>1. w \in Int /\ base <= w /\ w < base + n /\ pa + n <= PageCount
      BY <1>4, <1>6 DEF n
    <3>2. PageCount \in Nat
      BY Ground
    <3> QED BY <1>1, <3>1, <3>2
  <2>2. filled[w] = [pa |-> pa + (w - base), perms |-> RW]
    BY <1>6 DEF Mapped, image
  <2>3. filled[w] \in Pte /\ filled[w] # Unmapped
    BY <2>1, <2>2, MappedIsPte DEF RW
  <2>4. coded[w] \in Pte /\ coded[w] # Unmapped /\ coded[w].pa = pa + (w - base)
    <3>1. coded[w] = IF w \in text THEN [filled[w] EXCEPT !.perms = {"R", "X"}] ELSE filled[w]
      BY DEF Reprotected, text
    <3> HIDE DEF filled, coded
    <3>2. [filled[w] EXCEPT !.perms = {"R", "X"}]
            = [pa |-> filled[w].pa, perms |-> {"R", "X"}]
          /\ [filled[w] EXCEPT !.perms = {"R", "X"}] \in Pte
          /\ [filled[w] EXCEPT !.perms = {"R", "X"}] # Unmapped
      BY <2>3, ReprotectedIsPte
    <3>3. CASE w \in text
      BY <2>2, <3>1, <3>2, <3>3
    <3>4. CASE w \notin text
      BY <2>2, <2>3, <3>1, <3>4
    <3> QED BY <3>3, <3>4
  <2>5. page'[w] = IF w \in rodata THEN [coded[w] EXCEPT !.perms = {"R"}] ELSE coded[w]
    BY <1>5 DEF Reprotected, rodata
  <2> HIDE DEF coded
  <2>6. [coded[w] EXCEPT !.perms = {"R"}] = [pa |-> coded[w].pa, perms |-> {"R"}]
        /\ [coded[w] EXCEPT !.perms = {"R"}] \in Pte
        /\ [coded[w] EXCEPT !.perms = {"R"}] # Unmapped
    BY <2>4, ReprotectedIsPte
  <2>7. CASE w \in rodata
    BY <2>4, <2>5, <2>6, <2>7
  <2>8. CASE w \notin rodata
    BY <2>4, <2>5, <2>8
  <2> QED BY <2>7, <2>8
<1>7. ASSUME NEW w \in Pages, w \notin image PROVE page'[w] = page[w]
  <2>1. w \notin text /\ w \notin rodata
    BY <1>3, <1>7
  <2>2. filled[w] = page[w]
    BY <1>7 DEF Mapped, image
  <2>3. coded[w] = page[w]
    BY <2>1, <2>2 DEF Reprotected, text
  <2> QED BY <1>5, <2>1, <2>3 DEF Reprotected, rodata
<1>8. page' \in [Pages -> Pte]
  <2>1. page' = [w \in Pages |-> page'[w]]
    BY <1>5 DEF Reprotected
  <2>2. \A w \in Pages : page'[w] \in Pte
    BY <1>6, <1>7
  <2> QED BY <2>1, <2>2
<1>9. \A w \in Pages : IF w \in FlatRange(base, n)
                       THEN page'[w] # Unmapped /\ page'[w].pa = pa + (w - base)
                       ELSE page'[w] = page[w]
  BY <1>6, <1>7 DEF image
<1>10. FlatRange(pa, n) \cap Backing = {} /\ pa + n <= PageCount
  BY DEF n
<1> HIDE DEF filled, coded
<1> QED BY <1>1, <1>2, <1>8, <1>9, <1>10 DEF MapsFresh, n

(* A run mapped for an image leaves the rest of the memory as it was. *)
LEMMA ImageMaps ==
  ASSUME IInv, At("booting"), NEW m, m = module_count + 1, module_count < Len(Modules),
         NEW pa \in Nat, MapsFresh(ImagesBefore[m], ImageSize(m), pa),
         held' = held \cup FlatRange(pa, ImageSize(m)),
         FlatRange(pa, ImageSize(m)) \cap held = {},
         UNCHANGED <<main_thread_stack, heap_size, heap_borrows, tls, reply, lost>>,
         stain' \in -1 .. (PageCount - 1), module_count' \in {module_count, m},
         call'.ranges = call.ranges \cup {<<ImagesBefore[m], ImageSize(m)>>}
  PROVE  /\ MemTypes' /\ HistoryTypes' /\ StackKnown' /\ (heap_size % Granule = 0)' /\ Laid'
         /\ BootRecorded' /\ HeldByMap'
         /\ module_count' = m => CodeLaid'
<1> DEFINE base == ImagesBefore[m]
           n == ImageSize(m)
<1>1. /\ TypeOK /\ MemTypes /\ HistoryTypes /\ StackKnown /\ heap_size % Granule = 0
      /\ Laid /\ CodeLaid /\ BootRecorded /\ HeldByMap
  BY IInvParts DEF Whole
<1>2. module_count \in Nat /\ m \in 1 .. Len(Modules) /\ main_thread_stack = NoRegion
      /\ heap_size \in Nat
  <2>1. module_count \in 0 .. Len(Modules) /\ heap_size \in Nat
    BY <1>1, Ground DEF MemTypes
  <2>2. Len(Modules) \in Nat /\ module_count < Len(Modules) /\ m = module_count + 1
    BY ModuleFacts
  <2>3. module_count \in Nat /\ module_count # Len(Modules) /\ m \in 1 .. Len(Modules)
    BY <2>1, <2>2
  <2> QED BY <1>1, <2>1, <2>3 DEF StackKnown
<1>3. base \in Nat /\ n \in Nat /\ base + n <= Heap.base
  BY <1>2, RegionsApart
<1>4. MapsFresh(base, n, pa)
  OBVIOUS
<1> HIDE DEF base, n
<1>5. ASSUME NEW w \in FlatRange(base, n) PROVE w \in Pages /\ Elsewhere(w)
  <2>1. w \in Int /\ base <= w /\ w < base + n
    BY <1>3, RangeIs
  <2>2. 0 <= w /\ w < Heap.base
    BY <1>3, <2>1, Ground
  <2> QED BY <2>1, <2>2, RegionPlaces
<1>6. HeapLaid' /\ StackLaid' /\ TlsLaid'
  BY <1>1, <1>4, <1>5, FreshElsewhere DEF Laid, Elsewhere
<1>7. LoansLaid' /\ SharedByLoan'
  BY <1>1, <1>2, <1>4, FreshKeepsLoans
<1>8. MemTypes' /\ HistoryTypes' /\ StackKnown'
  <2>1. page' \in [Pages -> Pte]
    BY <1>4 DEF MapsFresh
  <2>2. module_count' \in 0 .. Len(Modules)
    BY <1>1, <1>2 DEF MemTypes
  <2>3. MemTypes'
    BY <1>1, <2>1, <2>2 DEF MemTypes
  <2>4. HistoryTypes'
    BY <1>1 DEF HistoryTypes
  <2> QED BY <1>2, <2>3, <2>4 DEF StackKnown
<1>9. BootRecorded'
  BY <1>1, <1>4, RecordedGrows DEF base, n
<1>10. HeldByMap'
  <2>1. Backing' = Backing \cup FlatRange(pa, n)
    BY <1>1, <1>4, FreshBacking DEF MemTypes
  <2> QED BY <1>1, <2>1 DEF HeldByMap, n
<1>11. ASSUME module_count' = m PROVE CodeLaid'
  <2>1. /\ \A w \in Pages : page[w] # Unmapped => page'[w] # Unmapped
        /\ \A w \in Pages : w \notin FlatRange(base, n) => page'[w] = page[w]
        /\ \A w \in Pages : w \in FlatRange(base, n) => page'[w] # Unmapped
    BY <1>4 DEF MapsFresh, AllHoles
  <2>2. ImageAt(m) = FlatRange(base, n)
    BY DEF ImageAt, base, n
  <2>3. \A k \in 1 .. module_count' : k \in 1 .. module_count \/ k = m
    BY <1>2, <1>11
  <2>4. \A k \in 1 .. module_count : k \in 1 .. module_count'
    BY <1>2, <1>11
  <2>5. m \in 1 .. module_count'
    BY <1>2, <1>11
  <2>6. ASSUME NEW w \in Pages, page'[w] # Unmapped, Elsewhere(w)
        PROVE  \E k \in 1 .. module_count' : w \in ImageAt(k)
    <3>1. CASE w \in FlatRange(base, n)
      BY <2>2, <2>5, <3>1
    <3>2. CASE w \notin FlatRange(base, n)
      <4>1. \E k \in 1 .. module_count : w \in ImageAt(k)
        BY <1>1, <2>1, <2>6, <3>2 DEF CodeLaid, InImage
      <4> QED BY <2>4, <4>1
    <3> QED BY <3>1, <3>2
  <2>7. ASSUME NEW k \in 1 .. module_count', NEW w \in ImageAt(k)
        PROVE  w \in Pages /\ page'[w] # Unmapped
    <3>1. CASE k \in 1 .. module_count
      BY <1>1, <2>1, <2>7, <3>1 DEF CodeLaid
    <3>2. CASE k = m
      BY <1>5, <2>1, <2>2, <2>7, <3>2
    <3> QED BY <2>3, <3>1, <3>2
  <2> QED BY <2>6, <2>7 DEF CodeLaid, InImage
<1> QED BY <1>1, <1>6, <1>7, <1>8, <1>9, <1>10, <1>11 DEF Laid

LEMMA RecordedCall ==
  ASSUME IInv, At("booting"), NEW v \in Nat, NEW n \in Nat
  PROVE  /\ Recorded(<<v, n>>) \in Calls /\ Recorded(<<v, n>>).at = "booting"
         /\ Recorded(<<v, n>>).ranges = call.ranges \cup {<<v, n>>}
         /\ [Recorded(<<v, n>>) EXCEPT !.at = "unwinding"] \in Calls
         /\ [Recorded(<<v, n>>) EXCEPT !.at = "unwinding"].at = "unwinding"
         /\ [Recorded(<<v, n>>) EXCEPT !.at = "unwinding"].ranges = call.ranges \cup {<<v, n>>}
<1> DEFINE more == call.ranges \cup {<<v, n>>}
<1>1. call = [at |-> "booting", ranges |-> call.ranges] /\ call.ranges \in SUBSET (Int \X Int)
  BY CallShapes, IInvParts DEF At
<1>2. more \in SUBSET (Int \X Int)
  BY <1>1
<1>3. Recorded(<<v, n>>) = [at |-> "booting", ranges |-> more]
  BY <1>1 DEF Recorded
<1>4. [Recorded(<<v, n>>) EXCEPT !.at = "unwinding"] = [at |-> "unwinding", ranges |-> more]
  BY <1>3
<1>5. \A at \in {"booting", "unwinding"} : [at |-> at, ranges |-> more] \in Calls
  BY <1>2 DEF Calls
<1> HIDE DEF more
<1>6. Recorded(<<v, n>>) \in Calls /\ [Recorded(<<v, n>>) EXCEPT !.at = "unwinding"] \in Calls
  BY <1>3, <1>4, <1>5
<1> QED BY <1>3, <1>4, <1>6 DEF more

LEMMA BootModulesKeep ==
  ASSUME IInv, BootModule \/ BootModuleCorrupt
  PROVE  IInv'
<1> DEFINE m == module_count + 1
           base == ImagesBefore[m]
           n == ImageSize(m)
<1>1. /\ At("booting") /\ module_count < Len(Modules) /\ AllocOk(n) /\ MapOk(page, base, n)
      /\ stain' \in Filled(FirstNew, n)
      /\ UNCHANGED <<main_thread_stack, heap_size, heap_borrows, tls, reply, lost>>
      /\ \/ /\ page' = ModuleImage(m, base, FirstNew)
            /\ call' = Recorded(<<base, n>>) /\ module_count' = m
         \/ /\ page' = Mapped(page, base, n, FirstNew, RW)
            /\ call' = [Recorded(<<base, n>>) EXCEPT !.at = "unwinding"]
            /\ module_count' = module_count
  BY DEF BootModule, BootModuleCorrupt, processVars
<1>2. FP!IInv /\ MemTypes /\ HeldByMap /\ call \in Calls
  BY <1>1, IInvParts
<1>3. m \in 1 .. Len(Modules) /\ module_count \in Nat
  <2>1. module_count \in Nat /\ Len(Modules) \in Nat /\ module_count < Len(Modules)
    BY <1>1, <1>2, ModuleFacts DEF MemTypes
  <2> QED BY <2>1
<1>4. base \in Nat /\ n \in Nat
  BY <1>3, RegionsApart
<1> HIDE DEF m, base, n
<1> DEFINE pa == FirstNew
<1>5. /\ FP!IInv' /\ pa \in Nat /\ pa + n <= PageCount
      /\ held' = held \cup FlatRange(pa, n) /\ FlatRange(pa, n) \cap held = {}
  BY <1>1, <1>2, <1>4, AllocEffect
<1>6. FlatRange(pa, n) \cap Backing = {}
  BY <1>2, <1>5 DEF HeldByMap
<1>7. page' = ModuleImage(m, base, pa) \/ page' = Mapped(page, base, n, pa, RW)
  BY <1>1
<1>11. stain' \in -1 .. (PageCount - 1)
  BY <1>1, <1>4, <1>5, FilledTypes
<1> HIDE DEF pa
<1>8. MapsFresh(base, n, pa)
  <2>1. CASE page' = ModuleImage(m, base, pa)
    BY <1>1, <1>2, <1>3, <1>4, <1>5, <1>6, <2>1, ImageIsFresh DEF n, MemTypes
  <2>2. CASE page' = Mapped(page, base, n, pa, RW)
    BY <1>1, <1>2, <1>4, <1>5, <1>6, <2>2, MapRwIsFresh DEF MemTypes
  <2> QED BY <1>7, <2>1, <2>2
<1>9. call' \in Calls /\ call'.ranges = call.ranges \cup {<<base, n>>}
      /\ module_count' \in {module_count, m}
      /\ \/ call'.at = "booting" /\ module_count' = m
         \/ call'.at = "unwinding"
  <2>1. CASE call' = Recorded(<<base, n>>) /\ module_count' = m
    BY <1>1, <1>4, <2>1, RecordedCall
  <2>2. CASE call' = [Recorded(<<base, n>>) EXCEPT !.at = "unwinding"]
               /\ module_count' = module_count
    BY <1>1, <1>4, <2>2, RecordedCall
  <2> QED BY <1>1, <2>1, <2>2
<1>10. /\ MemTypes' /\ HistoryTypes' /\ StackKnown' /\ (heap_size % Granule = 0)' /\ Laid'
       /\ BootRecorded' /\ HeldByMap'
       /\ module_count' = m => CodeLaid'
  BY <1>1, <1>5, <1>8, <1>9, <1>11, ImageMaps DEF m, base, n
<1> QED BY <1>5, <1>9, <1>10, ToBooting, ToUnwinding DEF Whole

LEMMA BootStackKeeps ==
  ASSUME IInv, BootStack
  PROVE  IInv'
<1> DEFINE base == Stack.base + GuardPages
           n == MainStackSize
<1>1. /\ At("booting") /\ module_count = Len(Modules) /\ main_thread_stack = NoRegion /\ StackFits
      /\ AllocOk(n) /\ MapOk(page, base, n) /\ page' = Mapped(page, base, n, FirstNew, RW)
      /\ main_thread_stack' = [base |-> base, size |-> n] /\ call' = Recorded(<<base, n>>)
      /\ stain' = Zeroed(FirstNew, n)
      /\ UNCHANGED <<module_count, heap_size, heap_borrows, tls, reply, lost>>
  BY DEF BootStack
<1>2. /\ FP!IInv /\ TypeOK /\ MemTypes /\ HistoryTypes /\ Laid /\ CodeLaid /\ HeldByMap
      /\ BootRecorded /\ heap_size % Granule = 0 /\ heap_borrows = <<>> /\ heap_size = 0
  BY <1>1, IInvParts DEF Whole, BootRecorded
<1>3. base \in Nat /\ n \in Nat
  BY Ground
<1>4. Stack.base <= base /\ base + n <= Stack.base + Stack.size /\ n <= Stack.size
  <2>1. base - Stack.base <= Stack.size /\ n <= Stack.size - (base - Stack.base) /\ base >= Stack.base
    BY <1>1 DEF StackFits, Contains
  <2>2. Stack.base \in Nat /\ Stack.size \in Nat
    BY Ground
  <2> HIDE DEF base, n
  <2> QED BY <1>3, <2>1, <2>2
<1>5. Loans = {} /\ \A v : ~IsAlias(v) /\ ~IsLent(v)
  BY <1>2 DEF Loans, IsAlias, IsLent
<1>6. n > 0
  BY <1>1 DEF MapOk, InSpace
<1> HIDE DEF base, n
<1> DEFINE pa == FirstNew
<1>7. /\ FP!IInv' /\ pa \in Nat /\ pa + n <= PageCount
      /\ held' = held \cup FlatRange(pa, n) /\ FlatRange(pa, n) \cap held = {}
  BY <1>1, <1>2, <1>3, AllocEffect
<1>8. FlatRange(pa, n) \cap Backing = {}
  BY <1>2, <1>7 DEF HeldByMap
<1>9. page' = Mapped(page, base, n, pa, RW)
  BY <1>1
<1> HIDE DEF pa
<1>10. MapsFresh(base, n, pa) /\ \A w \in FlatRange(base, n) : page'[w].perms = RW
  BY <1>1, <1>2, <1>3, <1>7, <1>8, <1>9, MapRwIsFresh DEF MemTypes
<1>11. ASSUME NEW w \in FlatRange(base, n)
       PROVE  /\ w \in Pages /\ w \in RegionPages(Stack)
              /\ w \notin RegionPages(Heap) /\ w \notin RegionPages(TlsIo)
  <2>1. w \in Int /\ base <= w /\ w < base + n
    BY <1>3, RangeIs
  <2>2. Stack.base <= w /\ w < Stack.base + Stack.size
    BY <1>3, <1>4, <2>1, Ground
  <2> QED BY <2>1, <2>2, RegionPlaces
<1>12. HeapLaid' /\ TlsLaid' /\ CodeLaid'
  BY <1>1, <1>2, <1>10, <1>11, FreshElsewhere DEF Laid, Elsewhere
<1>13. LoansLaid' /\ SharedByLoan'
  BY <1>1, <1>2, <1>5, <1>10, FreshKeepsLoans
<1>14. \A v : ~IsAlias(v)' /\ (InMainStack(v)' <=> v \in FlatRange(base, n))
  BY <1>1, <1>5 DEF IsAlias, Loans, InMainStack, RegionPages
<1>15. \A v : ~InMainStack(v)
  BY <1>1 DEF InMainStack, RegionPages, NoRegion, FlatRange
<1>16. StackLaid'
  <2> SUFFICES ASSUME NEW w \in RegionPages(Stack)
               PROVE  /\ page'[w] # Unmapped <=> w \in FlatRange(base, n)
                      /\ page'[w] # Unmapped => page'[w].perms = RW
    BY <1>14 DEF StackLaid
  <2>1. w \in Pages
    BY RegionsAre
  <2>2. page[w] = Unmapped
    BY <1>2, <1>5, <1>15 DEF Laid, StackLaid
  <2> QED BY <1>10, <2>1, <2>2 DEF MapsFresh
<1>17. MemTypes' /\ HistoryTypes' /\ StackKnown'
  <2>1. page' \in [Pages -> Pte]
    BY <1>10 DEF MapsFresh
  <2>2. base \in Pages
    BY <1>3, <1>6, <1>11, RangeIs
  <2>3. main_thread_stack' \in [base : Pages \cup {0}, size : 0 .. Stack.size]
    BY <1>1, <1>3, <1>4, <2>2, Ground
  <2>4. MemTypes'
    BY <1>1, <1>2, <2>1, <2>3 DEF MemTypes
  <2>5. HistoryTypes'
    BY <1>1, <1>2, ZeroedTypes DEF HistoryTypes
  <2>6. StackKnown'
    BY <1>1, <1>6 DEF StackKnown, base, n
  <2> QED BY <2>4, <2>5, <2>6
<1>18. call' \in Calls /\ call'.at = "booting" /\ call'.ranges = call.ranges \cup {<<base, n>>}
  BY <1>1, <1>3, RecordedCall
<1>19. BootRecorded'
  BY <1>1, <1>2, <1>10, <1>18, RecordedGrows
<1>20. HeldByMap'
  <2>1. Backing' = Backing \cup FlatRange(pa, n)
    BY <1>2, <1>10, FreshBacking DEF MemTypes
  <2> QED BY <1>1, <1>2, <1>7, <2>1 DEF HeldByMap
<1>21. (heap_size % Granule = 0)'
  BY <1>1, <1>2
<1> QED BY <1>7, <1>12, <1>13, <1>16, <1>17, <1>18, <1>19, <1>20, <1>21, ToBooting DEF Whole, Laid

-----------------------------------------------------------------------------
(* The ways out of a process. *)

LEMMA StackRoom ==
  ASSUME StackFits
  PROVE  Stack.base + GuardPages + MainStackSize <= Stack.base + Stack.size
<1> DEFINE v == Stack.base + GuardPages
<1>1. v >= Stack.base /\ v - Stack.base <= Stack.size
      /\ MainStackSize <= Stack.size - (v - Stack.base)
  BY DEF StackFits, Contains
<1>2. v \in Nat /\ Stack.base \in Nat /\ Stack.size \in Nat /\ MainStackSize \in Nat
  BY Ground
<1> HIDE DEF v
<1>3. v + MainStackSize <= Stack.base + Stack.size
  BY <1>1, <1>2
<1> QED BY <1>3 DEF v

LEMMA EndsClean ==
  ASSUME Frames!Reset, Cleared, page' = Nothing, call' = Inside("unloaded"),
         reply' \in Results, lost' = {}, stain' \in -1 .. (PageCount - 1)
  PROVE  IInv'
<1>1. FP!IInv' /\ held' = {}
  BY ResetEffect
<1>2. HistoryTypes'
  BY Ground DEF HistoryTypes, NoPage
<1>3. NoProcess'
  BY <1>1 DEF NoProcess, Cleared
<1> QED BY <1>1, <1>2, <1>3, ToUnloaded

LEMMA UnwindsKeeps ==
  ASSUME IInv, BootUnwinds
  PROVE  IInv'
<1>1. At("unwinding") /\ page' = Dropped(page, TlsRanges \cup call.ranges)
      /\ Frames!Reset /\ Cleared /\ call' = Inside("unloaded") /\ reply' = "LOAD_FAILED"
      /\ lost' = {} /\ stain' = stain
  BY DEF BootUnwinds
<1>2. BootRecorded
  BY <1>1, IInvParts
<1>3. ASSUME NEW v \in Pages
      PROVE  page'[v] = Unmapped
  <2>1. page'[v] = IF \E r \in TlsRanges \cup call.ranges :
                        v \in FlatRange(r[1], r[2]) /\ AllMapped(page, r[1], r[2])
                   THEN Unmapped ELSE page[v]
    BY <1>1 DEF Dropped
  <2>2. CASE page[v] = Unmapped
    BY <2>1, <2>2
  <2>3. CASE page[v] # Unmapped
    <3>1. PICK r \in call.ranges : v \in FlatRange(r[1], r[2])
      BY <1>2, <2>3 DEF BootRecorded
    <3>2. AllMapped(page, r[1], r[2])
      BY <1>2 DEF BootRecorded, AllMapped
    <3> QED BY <2>1, <3>1, <3>2
  <2> QED BY <2>2, <2>3
<1>4. page' = Nothing
  <2>1. page' = [v \in Pages |-> page'[v]]
    BY <1>1 DEF Dropped
  <2>2. page' = [v \in Pages |-> Unmapped]
    BY <1>3, <2>1
  <2> QED BY <2>2 DEF Nothing
<1>5. reply' \in Results
  BY <1>1 DEF Results
<1> QED BY <1>1, <1>4, <1>5, StainKept, EndsClean

LEMMA LeaveEndsKeeps ==
  ASSUME IInv, LeaveEnds
  PROVE  IInv'
<1> DEFINE heap == IF heap_size > 0 THEN {<<Heap.base, heap_size>>} ELSE {}
<1>1. At("leaving") /\ page' = Dropped(page, TlsRanges \cup heap)
      /\ Frames!Reset /\ Cleared /\ call' = Inside("unloaded") /\ reply' = "OK"
      /\ lost' = {} /\ stain' = stain
  BY DEF LeaveEnds
<1>2. Departing /\ heap_size \in Nat /\ heap_size <= Heap.size /\ Len(tls) \in Nat
      /\ Len(tls) <= TlsIo.size
  BY <1>1, IInvParts, LoanTypes DEF Departing
<1> HIDE DEF heap
<1>3. ASSUME NEW v \in Pages PROVE page'[v] = Unmapped
  <2>1. page'[v] = IF \E r \in TlsRanges \cup heap :
                        v \in FlatRange(r[1], r[2]) /\ AllMapped(page, r[1], r[2])
                   THEN Unmapped ELSE page[v]
    BY <1>1 DEF Dropped
  <2>2. v \in Int
    BY PagesAre
  <2>3. CASE page[v] = Unmapped
    BY <2>1, <2>3
  <2>4. CASE page[v] # Unmapped /\ Heap.base <= v /\ v < HeapEnd
    <3>1. heap_size > 0
      BY <1>2, <2>2, <2>4, Ground DEF HeapEnd
    <3> DEFINE r == <<Heap.base, heap_size>>
    <3>2. r \in heap /\ r[1] = Heap.base /\ r[2] = heap_size
      BY <3>1 DEF heap
    <3>3. \A w : w \in FlatRange(Heap.base, heap_size) <=> w \in Int /\ Heap.base <= w /\ w < HeapEnd
      BY <1>2, Ground, RangeIs DEF HeapEnd
    <3>4. AllMapped(page, Heap.base, heap_size)
      BY <1>2, <3>3, HeapPages DEF AllMapped, Departing
    <3> HIDE DEF r
    <3>5. v \in FlatRange(r[1], r[2]) /\ AllMapped(page, r[1], r[2])
      BY <2>2, <2>4, <3>2, <3>3, <3>4
    <3> QED BY <2>1, <3>2, <3>5
  <2>5. CASE page[v] # Unmapped /\ TlsIo.base <= v /\ v < TlsEnd
    <3> DEFINE p == v - TlsIo.base + 1
               r == <<TlsIo.base + p - 1, 1>>
    <3>1. p \in 1 .. Len(tls) /\ TlsIo.base + p - 1 = v
      <4>1. /\ TlsIo.base \in Nat /\ TlsIo.base <= v /\ v < TlsIo.base + Len(tls)
            /\ Len(tls) \in Nat /\ v \in Int
        BY <1>2, <2>2, <2>5, Ground DEF TlsEnd
      <4> DEFINE b == TlsIo.base  l == Len(tls)
      <4>2. b \in Nat /\ l \in Nat /\ b <= v /\ v < b + l
        BY <4>1
      <4> HIDE DEF b, l
      <4>3. v - b + 1 \in 1 .. l /\ b + (v - b + 1) - 1 = v
        BY <4>1, <4>2
      <4> QED BY <4>3 DEF b, l
    <3>2. DOMAIN tls = 1 .. Len(tls)
      BY IInvParts DEF MemTypes
    <3>3. r \in TlsRanges /\ r[1] = v /\ r[2] = 1
      BY <3>1, <3>2 DEF TlsRanges
    <3>4. FlatRange(v, 1) = {v}
      BY <2>2 DEF FlatRange
    <3> HIDE DEF r
    <3>5. v \in FlatRange(r[1], r[2]) /\ AllMapped(page, r[1], r[2])
      BY <2>5, <3>3, <3>4 DEF AllMapped
    <3> QED BY <2>1, <3>3, <3>5
  <2> QED BY <1>2, <2>3, <2>4, <2>5 DEF Departing
<1>4. page' = Nothing
  <2>1. page' = [v \in Pages |-> page'[v]]
    BY <1>1 DEF Dropped
  <2>2. page' = [v \in Pages |-> Unmapped]
    BY <1>3, <2>1
  <2> QED BY <2>2 DEF Nothing
<1>5. reply' \in Results
  BY <1>1 DEF Results
<1> QED BY <1>1, <1>4, <1>5, StainKept, EndsClean

(* process_teardown leaves the heap and the TLS pages, and only those. *)
LEMMA UnloadKeeps ==
  ASSUME IInv, Unload
  PROVE  IInv'
<1> DEFINE gone == ImageRanges \cup StackRanges \cup DstRanges
           rest == Dropped(page, gone)
<1>1. /\ At("running") /\ page' = GivenBack(rest, SrcRanges)
      /\ call' = [at |-> "leaving", next |-> Heap.base]
      /\ UNCHANGED <<framesVars, processVars, reply, lost, stain>>
  BY DEF Unload
<1>2. /\ TypeOK /\ MemTypes /\ HistoryTypes /\ StackKnown /\ Laid /\ CodeLaid
      /\ heap_size % Granule = 0 /\ main_thread_stack # NoRegion
  BY <1>1, IInvParts DEF Whole
<1>3. HeapLaid /\ StackLaid /\ TlsLaid /\ LoansLaid /\ SharedByLoan
  BY <1>2 DEF Laid
<1>4. /\ main_thread_stack.base = Stack.base + GuardPages
      /\ main_thread_stack.size = MainStackSize /\ MainStackSize > 0 /\ StackFits
  BY <1>2 DEF StackKnown
<1>5. ASSUME NEW r \in gone, NEW v \in Pages, v \in FlatRange(r[1], r[2])
      PROVE  v \notin RegionPages(Heap) /\ v \notin RegionPages(TlsIo)
  <2>1. CASE r \in ImageRanges
    <3>1. PICK m \in 1 .. module_count : r = <<ImagesBefore[m], ImageSize(m)>>
      BY <2>1 DEF ImageRanges
    <3>2. m \in 1 .. Len(Modules)
      <4>1. module_count \in Nat /\ module_count <= Len(Modules)
        BY <1>2, ModuleFacts DEF MemTypes
      <4> QED BY <4>1, ModuleFacts
    <3>3. /\ ImagesBefore[m] \in Nat /\ ImageSize(m) \in Nat
          /\ ImagesBefore[m] + ImageSize(m) <= Heap.base
      BY <3>2, RegionsApart
    <3>4. v \in FlatRange(ImagesBefore[m], ImageSize(m))
      BY <1>5, <3>1
    <3>5. v \in Int /\ ImagesBefore[m] <= v /\ v < ImagesBefore[m] + ImageSize(m)
      BY <3>3, <3>4, RangeIs
    <3>6. 0 <= v /\ v < Heap.base
      BY <3>3, <3>5, Ground
    <3> QED BY <3>5, <3>6, RegionPlaces DEF Elsewhere
  <2>2. CASE r \in StackRanges
    <3>1. r = <<main_thread_stack.base, main_thread_stack.size>>
      BY <2>2 DEF StackRanges
    <3>2. v \in FlatRange(Stack.base + GuardPages, MainStackSize)
      BY <1>4, <1>5, <3>1
    <3>3. v \in Int /\ Stack.base + GuardPages <= v /\ v < Stack.base + GuardPages + MainStackSize
      BY <3>2, Ground, RangeIs
    <3>4. Stack.base + GuardPages + MainStackSize <= Stack.base + Stack.size
      BY <1>4, StackRoom
    <3>5. Stack.base <= v /\ v < Stack.base + Stack.size
      <4>1. Stack.base \in Nat /\ Stack.size \in Nat /\ GuardPages \in Nat /\ MainStackSize \in Nat
        BY Ground
      <4> QED BY <3>3, <3>4, <4>1
    <3> QED BY <3>3, <3>5, RegionPlaces
  <2>3. CASE r \in DstRanges
    <3>1. PICK i \in Loans : r = <<heap_borrows[i].dst_base, heap_borrows[i].size>>
      BY <2>3 DEF DstRanges, Loans
    <3>2. v \in DstOf(i)
      BY <1>5, <3>1 DEF DstOf
    <3>3. v \in RegionPages(Stack)
      BY <1>2, <1>3, <3>2, LoanPlaces
    <3>4. v \in Int /\ Stack.base <= v /\ v < Stack.base + Stack.size
      BY <3>3, RegionsAre, PagesAre
    <3> QED BY <3>4, RegionPlaces
  <2> QED BY <1>5, <2>1, <2>2, <2>3
<1>6. ASSUME NEW v \in Pages, v \notin RegionPages(Heap), v \notin RegionPages(TlsIo),
             page[v] # Unmapped
      PROVE  \E r \in gone : v \in FlatRange(r[1], r[2]) /\ AllMapped(page, r[1], r[2])
  <2>1. CASE v \in RegionPages(Stack) /\ InMainStack(v)
    <3> DEFINE r == <<main_thread_stack.base, main_thread_stack.size>>
    <3>1. r \in gone /\ r[1] = main_thread_stack.base /\ r[2] = main_thread_stack.size
      BY <1>4 DEF StackRanges
    <3>2. ASSUME NEW w \in RegionPages(main_thread_stack)
          PROVE  w \in RegionPages(Stack)
      <4>1. w \in Int /\ Stack.base + GuardPages <= w /\ w < Stack.base + GuardPages + MainStackSize
        <5>1. w \in FlatRange(Stack.base + GuardPages, MainStackSize)
          BY <1>4 DEF RegionPages
        <5> QED BY <5>1, Ground, RangeIs
      <4>2. Stack.base + GuardPages + MainStackSize <= Stack.base + Stack.size
        BY <1>4, StackRoom
      <4>3. Stack.base <= w /\ w < Stack.base + Stack.size
        <5>1. Stack.base \in Nat /\ Stack.size \in Nat /\ GuardPages \in Nat /\ MainStackSize \in Nat
          BY Ground
        <5> QED BY <4>1, <4>2, <5>1
      <4> QED BY <4>1, <4>3, RegionPlaces
    <3>3. \A w \in RegionPages(main_thread_stack) : page[w] # Unmapped
      BY <1>3, <3>2 DEF StackLaid, InMainStack
    <3>4. v \in FlatRange(main_thread_stack.base, main_thread_stack.size)
          /\ AllMapped(page, main_thread_stack.base, main_thread_stack.size)
      BY <2>1, <3>3 DEF InMainStack, RegionPages, AllMapped
    <3> HIDE DEF r
    <3> QED BY <3>1, <3>4
  <2>2. CASE v \in RegionPages(Stack) /\ IsAlias(v)
    <3>1. PICK i \in Loans : v \in DstOf(i)
      BY <2>2 DEF IsAlias
    <3> DEFINE r == <<heap_borrows[i].dst_base, heap_borrows[i].size>>
    <3>2. r \in gone /\ r[1] = heap_borrows[i].dst_base /\ r[2] = heap_borrows[i].size
      BY DEF DstRanges, Loans
    <3>3. \A w \in DstOf(i) : page[w] # Unmapped
      BY <1>2, <1>3, LoanPlaces DEF StackLaid, IsAlias
    <3> HIDE DEF r
    <3> QED BY <3>1, <3>2, <3>3 DEF DstOf, AllMapped
  <2>3. CASE v \notin RegionPages(Stack)
    <3>1. PICK m \in 1 .. module_count : v \in ImageAt(m)
      BY <1>2, <1>6, <2>3 DEF CodeLaid, Elsewhere, InImage
    <3> DEFINE r == <<ImagesBefore[m], ImageSize(m)>>
    <3>2. r \in gone /\ r[1] = ImagesBefore[m] /\ r[2] = ImageSize(m)
      BY DEF ImageRanges
    <3>3. \A w \in ImageAt(m) : page[w] # Unmapped
      BY <1>2 DEF CodeLaid
    <3> HIDE DEF r
    <3> QED BY <3>1, <3>2, <3>3 DEF ImageAt, AllMapped
  <2> QED BY <1>3, <1>6, <2>1, <2>2, <2>3 DEF StackLaid
<1>7. \A v \in Pages : rest[v] = IF \E r \in gone : v \in FlatRange(r[1], r[2])
                                                    /\ AllMapped(page, r[1], r[2])
                                 THEN Unmapped ELSE page[v]
  BY DEF Dropped
<1> HIDE DEF gone, rest
<1>8. ASSUME NEW v \in Pages
      PROVE  rest[v] = IF v \in RegionPages(Heap) \/ v \in RegionPages(TlsIo)
                       THEN page[v] ELSE Unmapped
  <2>1. CASE v \in RegionPages(Heap) \/ v \in RegionPages(TlsIo)
    <3>1. rest[v] = page[v]
      BY <1>5, <1>7, <2>1
    <3> QED BY <2>1, <3>1
  <2>2. CASE v \notin RegionPages(Heap) /\ v \notin RegionPages(TlsIo)
    <3>1. rest[v] = Unmapped
      BY <1>6, <1>7, <2>2
    <3> QED BY <2>2, <3>1
  <2> QED BY <2>1, <2>2
<1>9. ASSUME NEW i \in Loans, NEW w \in SrcOf(i)
      PROVE  w \in Pages /\ w \in RegionPages(Heap) /\ rest[w] = page[w] /\ page[w] # Unmapped
  <2>1. w \in RegionPages(Heap) /\ w < HeapEnd
    BY <1>2, <1>3, LoanPlaces
  <2> QED BY <1>3, <1>8, <2>1, RegionsAre DEF HeapLaid
<1>10. ASSUME NEW v \in Pages
       PROVE  page'[v] = IF IsLent(v) THEN [page[v] EXCEPT !.perms = RW] ELSE rest[v]
  <2>1. page'[v] = IF \E r \in SrcRanges : v \in FlatRange(r[1], r[2]) /\ AllMapped(rest, r[1], r[2])
                   THEN [rest[v] EXCEPT !.perms = RW] ELSE rest[v]
    BY <1>1 DEF GivenBack
  <2>2. CASE IsLent(v)
    <3>1. PICK i \in Loans : v \in SrcOf(i)
      BY <2>2 DEF IsLent
    <3> DEFINE r == <<heap_borrows[i].src_base, heap_borrows[i].size>>
    <3>2. r \in SrcRanges /\ r[1] = heap_borrows[i].src_base /\ r[2] = heap_borrows[i].size
      BY DEF SrcRanges, Loans
    <3>3. v \in FlatRange(heap_borrows[i].src_base, heap_borrows[i].size)
          /\ AllMapped(rest, heap_borrows[i].src_base, heap_borrows[i].size)
      BY <1>9, <3>1 DEF SrcOf, AllMapped
    <3> HIDE DEF r
    <3> QED BY <1>9, <2>1, <2>2, <3>1, <3>2, <3>3
  <2>3. CASE ~IsLent(v)
    <3>1. \A r \in SrcRanges : v \notin FlatRange(r[1], r[2])
      BY <2>3 DEF SrcRanges, IsLent, Loans, SrcOf
    <3> QED BY <2>1, <2>3, <3>1
  <2> QED BY <2>2, <2>3
<1>11. ASSUME NEW v \in Pages, page[v] # Unmapped
       PROVE  /\ [page[v] EXCEPT !.perms = RW] = [pa |-> page[v].pa, perms |-> RW]
              /\ [page[v] EXCEPT !.perms = RW] \in Pte /\ [page[v] EXCEPT !.perms = RW] # Unmapped
  <2>1. page[v] \in Pte
    BY <1>2 DEF MemTypes
  <2> QED BY <1>11, <2>1, ReprotectedIsPte DEF RW
<1>12. ASSUME NEW v \in Pages, v \in RegionPages(Heap) \/ v \in RegionPages(TlsIo)
       PROVE  /\ page'[v] \in Pte
              /\ page'[v] # Unmapped <=> page[v] # Unmapped
              /\ page[v] # Unmapped => page'[v].pa = page[v].pa
              /\ v \in RegionPages(Heap) /\ page[v] # Unmapped => page'[v].perms = RW
  <2>1. rest[v] = page[v] /\ page[v] \in Pte
    BY <1>2, <1>8, <1>12 DEF MemTypes
  <2>2. CASE IsLent(v)
    <3>1. page[v] # Unmapped
      BY <1>9, <2>2 DEF IsLent
    <3> QED BY <1>10, <1>11, <2>2, <3>1
  <2>3. CASE ~IsLent(v)
    BY <1>3, <1>10, <2>1, <2>3 DEF HeapLaid
  <2> QED BY <2>2, <2>3
<1>13. ASSUME NEW v \in Pages, v \notin RegionPages(Heap), v \notin RegionPages(TlsIo)
       PROVE  page'[v] = Unmapped
  <2>1. ~IsLent(v)
    BY <1>9, <1>13 DEF IsLent
  <2> QED BY <1>8, <1>10, <1>13, <2>1
<1>14. page' \in [Pages -> Pte]
  <2>1. page' = [v \in Pages |-> page'[v]]
    BY <1>1 DEF GivenBack
  <2>2. \A v \in Pages : page'[v] \in Pte
    BY <1>12, <1>13 DEF Pte
  <2> QED BY <2>1, <2>2
<1>15. /\ heap_size' = heap_size /\ tls' = tls /\ HeapEnd' = HeapEnd /\ TlsEnd' = TlsEnd
       /\ heap_size \in Nat /\ heap_size <= Heap.size /\ HeapEnd = Heap.base + heap_size
       /\ Len(tls) \in Nat /\ Len(tls) <= TlsIo.size /\ TlsEnd = TlsIo.base + Len(tls)
  <2>1. heap_size' = heap_size /\ tls' = tls
    BY <1>1 DEF processVars
  <2> QED BY <1>2, <1>3, <2>1, LoanTypes DEF HeapEnd, TlsEnd, TlsLaid
<1>16. Departing'
  <2>1. ASSUME NEW v \in Pages
        PROVE  page'[v] # Unmapped <=> \/ Heap.base <= v /\ v < HeapEnd
                                       \/ TlsIo.base <= v /\ v < TlsEnd
    <3>0. v \in Int
      BY PagesAre
    <3>1. Heap.base <= v /\ v < HeapEnd => v \in RegionPages(Heap)
      BY <3>0, HeapPages
    <3>2. TlsIo.base <= v /\ v < TlsEnd => v \in RegionPages(TlsIo)
      <4>1. TlsIo.base <= v /\ v < TlsEnd => v < TlsIo.base + TlsIo.size
        BY <1>15, <3>0, Ground
      <4> QED BY <3>0, <4>1, RegionPlaces
    <3>3. v \in RegionPages(Heap) => Heap.base <= v /\ v \notin RegionPages(TlsIo)
      BY <3>0, RegionsAre, RegionPlaces
    <3>4. v \in RegionPages(TlsIo) => TlsIo.base <= v /\ v \notin RegionPages(Heap)
      BY <3>0, RegionsAre, RegionPlaces
    <3>5. CASE v \in RegionPages(Heap)
      <4>1. page'[v] # Unmapped <=> v < HeapEnd
        BY <1>3, <1>12, <3>5 DEF HeapLaid
      <4> QED BY <3>2, <3>3, <3>5, <4>1
    <3>6. CASE v \in RegionPages(TlsIo)
      <4>1. page'[v] # Unmapped <=> v < TlsEnd
        BY <1>3, <1>12, <3>6 DEF TlsLaid
      <4> QED BY <3>1, <3>4, <3>6, <4>1
    <3>7. CASE v \notin RegionPages(Heap) /\ v \notin RegionPages(TlsIo)
      BY <1>13, <3>1, <3>2, <3>7
    <3> QED BY <3>5, <3>6, <3>7
  <2>2. \A v \in RegionPages(Heap) : page'[v] # Unmapped => page'[v].perms = RW
    BY <1>12, RegionsAre
  <2>3. ASSUME NEW v \in Pages, NEW w \in Pages, page'[v] # Unmapped, page'[w] # Unmapped,
               page'[v].pa = page'[w].pa, v # w
        PROVE  FALSE
    <3>1. /\ v \in RegionPages(Heap) \/ v \in RegionPages(TlsIo)
          /\ w \in RegionPages(Heap) \/ w \in RegionPages(TlsIo)
      BY <1>13, <2>3
    <3>2. page[v] # Unmapped /\ page[w] # Unmapped /\ page[v].pa = page[w].pa
      BY <1>12, <2>3, <3>1
    <3>3. AliasOf(w, v) \/ AliasOf(v, w)
      BY <1>3, <2>3, <3>2 DEF SharedByLoan
    <3>4. w \in RegionPages(Stack) \/ v \in RegionPages(Stack)
      BY <1>2, <1>3, <3>3, AliasFacts
    <3> QED BY <3>1, <3>4, RegionsAre, RegionPlaces, PagesAre
  <2> QED BY <1>15, <2>1, <2>2, <2>3 DEF Departing
<1>17. LeavingWell'
  <2>1. Heap.base <= Heap.base /\ Heap.base <= HeapEnd
    <3>1. Heap.base \in Nat
      BY Ground
    <3> QED BY <1>15, <3>1
  <2>2. call'.next = Heap.base
    BY <1>1
  <2> QED BY <1>15, <2>1, <2>2 DEF LeavingWell
<1>18. MemTypes' /\ HistoryTypes' /\ StackKnown' /\ (heap_size % Granule = 0)'
  <2>1. /\ module_count' = module_count /\ main_thread_stack' = main_thread_stack
        /\ heap_size' = heap_size /\ heap_borrows' = heap_borrows /\ tls' = tls
    BY <1>1 DEF processVars
  <2>2. MemTypes'
    BY <1>2, <1>14, <2>1 DEF MemTypes
  <2>3. HistoryTypes' /\ StackKnown' /\ (heap_size % Granule = 0)'
    BY <1>1, <1>2, <2>1 DEF HistoryTypes, StackKnown
  <2> QED BY <2>2, <2>3
<1>19. call' \in Calls /\ call'.at = "leaving"
  BY <1>1, Ground DEF Calls
<1>20. FP!IInv'
  BY <1>1, FramesUnchanged, IInvParts
<1> QED BY <1>16, <1>17, <1>18, <1>19, <1>20, ToLeaving

-----------------------------------------------------------------------------
(* The heap's tail goes: it is lent to nobody, so nothing shares its frames. *)

TailFrom(requested) == (Heap.base + requested) .. (HeapEnd - 1)
TailFrames(requested) == {Frame(v) : v \in TailFrom(requested)}

LEMMA HeapCutEffect ==
  ASSUME IInv, At("running") \/ At("shrinking"), NEW requested \in Nat,
         requested % Granule = 0, requested < heap_size,
         \A v \in TailFrom(requested) : ~IsLent(v),
         HeapCutTo(requested)
  PROVE  /\ Whole' /\ HistoryTypes' /\ call'.at = "running" /\ call' \in Calls
         /\ main_thread_stack' # NoRegion /\ lost' = lost
         /\ Backing' = Backing \ TailFrames(requested)
         /\ TailFrames(requested) \subseteq Backing
<1>1. /\ page' = Holed(page, Heap.base + requested, heap_size - requested)
      /\ heap_size' = requested /\ call' = Inside("running") /\ reply' = "OK"
      /\ UNCHANGED <<module_count, main_thread_stack, heap_borrows, tls, lost, stain>>
  BY DEF HeapCutTo
<1>2. /\ TypeOK /\ MemTypes /\ HistoryTypes /\ StackKnown /\ Laid /\ CodeLaid
      /\ main_thread_stack # NoRegion
  BY IInvParts DEF Whole
<1>3. HeapLaid /\ StackLaid /\ TlsLaid /\ LoansLaid /\ SharedByLoan
  BY <1>2 DEF Laid
<1> DEFINE cut == Heap.base + requested
           tail == TailFrom(requested)
<1>4. /\ heap_size \in Nat /\ heap_size <= Heap.size /\ cut \in Nat /\ HeapEnd \in Nat
      /\ Heap.base <= cut /\ cut < HeapEnd /\ cut + (heap_size - requested) = HeapEnd
      /\ HeapEnd <= Heap.base + Heap.size
  <2>1. heap_size \in Nat /\ heap_size <= Heap.size /\ HeapEnd = Heap.base + heap_size
    BY <1>2, LoanTypes DEF HeapEnd
  <2>2. Heap.base \in Nat /\ Heap.size \in Nat
    BY Ground
  <2> QED BY <2>1, <2>2
<1>5. \A w : w \in tail <=> w \in Int /\ cut <= w /\ w < HeapEnd
  BY <1>4 DEF TailFrom
<1>6. FlatRange(cut, heap_size - requested) = tail
  <2>1. heap_size - requested \in Int /\ cut \in Int
    BY <1>4
  <2>2. \A w : w \in FlatRange(cut, heap_size - requested)
                <=> w \in Int /\ cut <= w /\ w < HeapEnd
    BY <1>4, <2>1, RangeIs
  <2> QED BY <1>5, <2>2
<1>7. HeapEnd' = cut
  BY <1>1 DEF HeapEnd
<1>8. \A w \in Pages : page'[w] = IF w \in tail THEN Unmapped ELSE page[w]
  BY <1>1, <1>6 DEF Holed
<1>9. page' \in [Pages -> Pte]
  <2>1. page' = [w \in Pages |-> page'[w]]
    BY <1>1 DEF Holed
  <2>2. \A w \in Pages : page'[w] \in Pte
    BY <1>2, <1>8 DEF MemTypes, Pte
  <2> QED BY <2>1, <2>2
<1> HIDE DEF cut, tail
<1>10. ASSUME NEW w \in tail
       PROVE  /\ w \in Pages /\ w \in RegionPages(Heap) /\ w \notin RegionPages(Stack)
              /\ w \notin RegionPages(TlsIo) /\ ~IsLent(w) /\ page[w] # Unmapped
  <2>1. w \in Int /\ Heap.base <= w /\ w < HeapEnd
    BY <1>4, <1>5, Ground
  <2>2. w < Heap.base + Heap.size
    BY <1>4, <2>1, Ground
  <2>3. ~IsLent(w)
    BY DEF tail
  <2> QED BY <1>3, <2>1, <2>2, <2>3, RegionPlaces DEF HeapLaid
<1>11. \A w : IsLent(w)' = IsLent(w) /\ IsAlias(w)' = IsAlias(w) /\ InMainStack(w)' = InMainStack(w)
  BY <1>1 DEF IsLent, IsAlias, Loans, SrcOf, DstOf, InMainStack
<1>12. HeapLaid'
  <2> SUFFICES ASSUME NEW w \in RegionPages(Heap)
               PROVE  /\ page'[w] # Unmapped <=> w < cut
                      /\ page'[w] # Unmapped => page'[w].perms = IF IsLent(w) THEN {} ELSE RW
    BY <1>7, <1>11 DEF HeapLaid
  <2>1. w \in Pages /\ w \in Int
    BY RegionsAre, PagesAre
  <2>2. CASE w \in tail
    BY <1>4, <1>5, <1>8, <2>1, <2>2
  <2>3. CASE w \notin tail
    <3>1. page'[w] = page[w]
      BY <1>8, <2>1, <2>3
    <3>2. w < HeapEnd <=> w < cut
      BY <1>4, <1>5, <2>1, <2>3
    <3> QED BY <1>3, <3>1, <3>2 DEF HeapLaid
  <2> QED BY <2>2, <2>3
<1>13. ASSUME NEW w \in Pages, w \notin RegionPages(Heap) PROVE page'[w] = page[w]
  BY <1>8, <1>10, <1>13
<1>14. StackLaid' /\ TlsLaid'
  <2>1. ASSUME NEW w, w \in RegionPages(Stack) \/ w \in RegionPages(TlsIo)
        PROVE  page'[w] = page[w]
    <3>1. w \in Pages /\ w \notin RegionPages(Heap)
      BY <2>1, RegionsAre, RegionPlaces, PagesAre
    <3> QED BY <1>13, <3>1
  <2>2. StackLaid'
    BY <1>3, <1>11, <2>1 DEF StackLaid
  <2>3. TlsLaid'
    BY <1>1, <1>3, <2>1 DEF TlsLaid, TlsEnd
  <2> QED BY <2>2, <2>3
<1>15. CodeLaid'
  <2>1. ASSUME NEW m \in 1 .. module_count, NEW w \in ImageAt(m)
        PROVE  w \in Pages /\ w \notin RegionPages(Heap)
    <3>1. module_count \in Nat /\ module_count <= Len(Modules)
      BY <1>2, ModuleFacts DEF MemTypes
    <3>2. m \in 1 .. Len(Modules)
      BY <3>1, ModuleFacts
    <3>3. /\ ImagesBefore[m] \in Nat /\ ImageSize(m) \in Nat
          /\ ImagesBefore[m] + ImageSize(m) <= Heap.base
      BY <3>2, RegionsApart
    <3>4. w \in Int /\ ImagesBefore[m] <= w /\ w < ImagesBefore[m] + ImageSize(m)
      BY <3>3, RangeIs DEF ImageAt
    <3>5. 0 <= w /\ w < Heap.base
      BY <3>3, <3>4, Ground
    <3> QED BY <3>4, <3>5, RegionPlaces DEF Elsewhere
  <2>2. ASSUME NEW w \in Pages, page'[w] # Unmapped, Elsewhere(w) PROVE InImage(w)
    BY <1>2, <1>13, <2>2 DEF Elsewhere, CodeLaid
  <2>3. ASSUME NEW m \in 1 .. module_count, NEW w \in ImageAt(m)
        PROVE  w \in Pages /\ page'[w] # Unmapped
    BY <1>2, <1>13, <2>1, <2>3 DEF CodeLaid
  <2> QED BY <1>1, <2>2, <2>3 DEF CodeLaid, InImage
<1>16. LoansLaid'
  <2>1. ASSUME NEW i \in Loans
        PROVE  /\ Heap.base <= heap_borrows[i].src_base
               /\ heap_borrows[i].src_base + heap_borrows[i].size <= cut
               /\ Stack.base <= heap_borrows[i].dst_base
               /\ heap_borrows[i].dst_base + heap_borrows[i].size <= Stack.base + Stack.size
    <3>1. /\ Heap.base <= heap_borrows[i].src_base
          /\ heap_borrows[i].src_base + heap_borrows[i].size <= HeapEnd
          /\ Stack.base <= heap_borrows[i].dst_base
          /\ heap_borrows[i].dst_base + heap_borrows[i].size <= Stack.base + Stack.size
      BY <1>3 DEF LoansLaid
    <3> DEFINE a == heap_borrows[i].src_base
               l == heap_borrows[i].size
    <3>2. a \in Nat /\ l \in Nat /\ l > 0
      BY <1>2, LoanTypes
    <3>3. a + l - 1 \in SrcOf(i)
      BY <3>2 DEF SrcOf, FlatRange
    <3>4. a + l - 1 \notin tail
      <4>1. IsLent(a + l - 1)
        BY <3>3 DEF IsLent
      <4> QED BY <1>10, <4>1
    <3>5. a + l <= HeapEnd
      BY <3>1
    <3> HIDE DEF a, l
    <3>6. a + l <= cut
      BY <1>4, <1>5, <3>2, <3>4, <3>5
    <3> QED BY <3>1, <3>6 DEF a, l
  <2>2. ASSUME NEW i \in Loans, NEW k \in 0 .. (heap_borrows[i].size - 1)
        PROVE  /\ page'[heap_borrows[i].dst_base + k].pa = page'[heap_borrows[i].src_base + k].pa
               /\ ~InMainStack(heap_borrows[i].dst_base + k)'
    <3>1. /\ page[heap_borrows[i].dst_base + k].pa = page[heap_borrows[i].src_base + k].pa
          /\ ~InMainStack(heap_borrows[i].dst_base + k)
      BY <1>3 DEF LoansLaid
    <3> DEFINE x == heap_borrows[i].src_base + k
               y == heap_borrows[i].dst_base + k
    <3>2. x \in SrcOf(i) /\ y \in DstOf(i)
      <4>1. /\ heap_borrows[i].dst_base \in Nat /\ heap_borrows[i].src_base \in Nat
            /\ heap_borrows[i].size \in Nat
        BY <1>2, LoanTypes
      <4> QED BY <1>2, <1>3, <4>1, LoanPlaces
    <3> HIDE DEF x, y
    <3>3. x \notin tail /\ x \in Pages
      BY <1>2, <1>3, <1>10, <3>2, LoanPlaces, RegionsAre DEF IsLent
    <3>4. y \notin tail /\ y \in Pages
      BY <1>2, <1>3, <1>10, <3>2, LoanPlaces, RegionsAre
    <3>5. page'[x] = page[x] /\ page'[y] = page[y]
      BY <1>8, <3>3, <3>4
    <3>6. page[y].pa = page[x].pa /\ ~InMainStack(y)
      BY <3>1 DEF x, y
    <3>7. page'[y].pa = page'[x].pa /\ y \notin RegionPages(main_thread_stack')
      BY <1>1, <3>5, <3>6 DEF InMainStack
    <3> QED BY <1>1, <3>7 DEF x, y, InMainStack, RegionPages
  <2>3. \A i, j \in Loans : i # j => SrcOf(i) \cap SrcOf(j) = {} /\ DstOf(i) \cap DstOf(j) = {}
    BY <1>3 DEF LoansLaid
  <2>4. Loans' = Loans /\ \A i \in Loans : SrcOf(i)' = SrcOf(i) /\ DstOf(i)' = DstOf(i)
    BY <1>1 DEF Loans, SrcOf, DstOf
  <2> QED BY <1>1, <1>7, <2>1, <2>2, <2>3, <2>4 DEF LoansLaid
<1>17. SharedByLoan'
  <2> SUFFICES ASSUME NEW a \in Pages, NEW b \in Pages, page'[a] # Unmapped, page'[b] # Unmapped,
                      a # b, page'[a].pa = page'[b].pa
               PROVE  AliasOf(b, a)' \/ AliasOf(a, b)'
    BY DEF SharedByLoan
  <2>1. page[a] # Unmapped /\ page[b] # Unmapped /\ page[a].pa = page[b].pa
    BY <1>8
  <2>2. AliasOf(b, a) \/ AliasOf(a, b)
    BY <1>3, <2>1 DEF SharedByLoan
  <2> QED BY <1>1, <2>2 DEF AliasOf, Loans, SrcOf
<1>18. MemTypes' /\ HistoryTypes' /\ StackKnown' /\ (heap_size % Granule = 0)'
  <2>1. heap_size' \in 0 .. Heap.size
    BY <1>1, <1>4, Ground
  <2>2. MemTypes'
    BY <1>1, <1>2, <1>9, <2>1 DEF MemTypes
  <2>3. HistoryTypes'
    BY <1>1, <1>2 DEF HistoryTypes, Results
  <2>4. StackKnown'
    BY <1>1, <1>2 DEF StackKnown
  <2> QED BY <1>1, <2>2, <2>3, <2>4
<1>19. TailFrames(requested) \subseteq Backing
  BY <1>10, BackingIs DEF TailFrames, Frame, tail
<1>20. Backing' = Backing \ TailFrames(requested)
  <2>1. ASSUME NEW v \in Pages, page[v] # Unmapped, v \notin tail
        PROVE  page[v].pa \notin TailFrames(requested)
    <3> SUFFICES ASSUME NEW w \in tail, page[w].pa = page[v].pa PROVE FALSE
      BY DEF TailFrames, Frame, tail
    <3>1. w \in Pages /\ page[w] # Unmapped /\ ~IsLent(w) /\ w \notin RegionPages(Stack) /\ v # w
      BY <1>10, <2>1
    <3>2. AliasOf(w, v) \/ AliasOf(v, w)
      BY <1>3, <2>1, <3>1 DEF SharedByLoan
    <3> QED BY <1>2, <1>3, <3>1, <3>2, AliasFacts
  <2>2. \A pa : pa \in Backing' <=> \E v \in Pages : page'[v] # Unmapped /\ page'[v].pa = pa
    BY DEF Backing, MappedPages
  <2>3. ASSUME NEW pa \in Backing' PROVE pa \in Backing /\ pa \notin TailFrames(requested)
    <3>1. PICK v \in Pages : page'[v] # Unmapped /\ page'[v].pa = pa
      BY <2>2, <2>3
    <3>2. v \notin tail /\ page[v] # Unmapped /\ page[v].pa = pa
      BY <1>8, <3>1
    <3> QED BY <2>1, <3>2, BackingIs
  <2>4. ASSUME NEW pa \in Backing, pa \notin TailFrames(requested) PROVE pa \in Backing'
    <3>1. PICK v \in Pages : page[v] # Unmapped /\ page[v].pa = pa
      BY <2>4, BackingIs
    <3>2. v \notin tail
      BY <2>4, <3>1 DEF TailFrames, Frame, tail
    <3> QED BY <1>8, <2>2, <3>1, <3>2
  <2> QED BY <2>3, <2>4
<1>21. call'.at = "running" /\ call' \in Calls /\ main_thread_stack' # NoRegion /\ lost' = lost
  BY <1>1, <1>2 DEF Inside, Calls
<1> QED BY <1>12, <1>14, <1>15, <1>16, <1>17, <1>18, <1>19, <1>20, <1>21 DEF Whole, Laid

(* The frames behind a readable run are one run too. *)
LEMMA RunOfFrames ==
  ASSUME NEW v \in Nat, NEW n \in Nat, page[v].pa \in Nat, ReadableRun(v, n)
  PROVE  FlatRange(page[v].pa, n) = {Frame(w) : w \in FlatRange(v, n)}
<1> DEFINE p == page[v].pa
<1>1. p \in Nat
  OBVIOUS
<1>2. \A w \in FlatRange(v, n) : w \in Int /\ v <= w /\ w < v + n /\ page[w].pa = p + (w - v)
  BY RangeIs DEF ReadableRun
<1> HIDE DEF p
<1>3. ASSUME NEW pa \in FlatRange(p, n) PROVE \E w \in FlatRange(v, n) : page[w].pa = pa
  <2>1. pa \in Int /\ p <= pa /\ pa < p + n
    BY <1>1, RangeIs
  <2> DEFINE w == v + (pa - p)
  <2>2. w \in Int /\ v <= w /\ w < v + n /\ p + (w - v) = pa
    BY <1>1, <2>1
  <2> HIDE DEF w
  <2>3. w \in FlatRange(v, n)
    BY <2>2, RangeIs
  <2> QED BY <1>2, <2>2, <2>3
<1>4. ASSUME NEW w \in FlatRange(v, n) PROVE page[w].pa \in FlatRange(p, n)
  <2>1. w \in Int /\ v <= w /\ w < v + n /\ page[w].pa = p + (w - v)
    BY <1>2
  <2>2. p + (w - v) \in Int /\ p <= p + (w - v) /\ p + (w - v) < p + n
    BY <1>1, <2>1
  <2> QED BY <1>1, <2>1, <2>2, RangeIs
<1> QED BY <1>3, <1>4 DEF Frame, p

LEMMA ShrinkWholeKeeps ==
  ASSUME IInv, NEW requested \in Sizes, ShrinkWhole(requested)
  PROVE  IInv'
<1> DEFINE v == Heap.base + requested
           n == heap_size - requested
<1>1. /\ ShrinkMayGo(requested) /\ ReadableRun(v, n) /\ FreeOk(page[v].pa, n)
      /\ HeapCutTo(requested)
  BY DEF ShrinkWhole
<1>2. requested \in Nat
  BY Ground DEF Sizes
<1>3. /\ At("running") /\ SizeAccepted(requested) /\ requested < heap_size /\ heap_size \in Nat
      /\ n \in Nat /\ n > 0 /\ v \in Nat /\ HeapEnd \in Nat /\ v + n = HeapEnd
      /\ FlatRange(v, n) = TailFrom(requested)
      /\ \A w \in TailFrom(requested) : ~IsLent(w)
  BY <1>1, <1>2, ShrinkNumbers DEF TailFrom
<1>4. requested % Granule = 0
  BY <1>3 DEF SizeAccepted
<1>5. HeldByMap /\ MemTypes /\ FP!IInv
  BY <1>3, IInvParts
<1>6. v \in Pages
  <2>1. Heap.base <= v
    BY <1>2, Ground
  <2>2. v < HeapEnd
    BY <1>3
  <2> QED BY <1>3, <2>1, <2>2, HeapPages
<1> HIDE DEF v, n
<1>7. page[v].pa \in Nat
  BY <1>1, <1>3, <1>6, ReadableIsMapped
<1>8. FP!IInv' /\ held' = held \ FlatRange(page[v].pa, n)
  BY <1>1, <1>3, <1>5, <1>7, FreeOkEffect
<1>9. FlatRange(page[v].pa, n) = TailFrames(requested)
  BY <1>1, <1>3, <1>7, RunOfFrames DEF TailFrames
<1>10. /\ Whole' /\ HistoryTypes' /\ call'.at = "running" /\ call' \in Calls
       /\ main_thread_stack' # NoRegion /\ lost' = lost
       /\ Backing' = Backing \ TailFrames(requested)
       /\ TailFrames(requested) \subseteq Backing
  BY <1>1, <1>2, <1>3, <1>4, HeapCutEffect
<1>11. HeldByMap'
  BY <1>5, <1>8, <1>9, <1>10 DEF HeldByMap
<1> QED BY <1>8, <1>10, <1>11, ToRunning

LEMMA ShrinkEndsKeeps ==
  ASSUME IInv, ShrinkEnds
  PROVE  IInv'
<1> DEFINE requested == call.requested
<1>1. At("shrinking") /\ call.next = HeapEnd /\ HeapCutTo(requested) /\ UNCHANGED framesVars
  BY DEF ShrinkEnds
<1>2. ShrinkingWell /\ HeldShrinking /\ FP!IInv
  BY <1>1, IInvParts
<1>3. requested \in Nat /\ requested < heap_size /\ requested % Granule = 0
  BY <1>1, ShrinkingNumbers
<1>4. \A w \in TailFrom(requested) : ~IsLent(w)
  BY <1>2 DEF ShrinkingWell, TailFrom
<1>5. Freed = TailFrames(requested)
  BY <1>1 DEF Freed, TailFrames, TailFrom
<1> HIDE DEF requested
<1>6. /\ Whole' /\ HistoryTypes' /\ call'.at = "running" /\ call' \in Calls
      /\ main_thread_stack' # NoRegion /\ lost' = lost
      /\ Backing' = Backing \ TailFrames(requested)
      /\ TailFrames(requested) \subseteq Backing
  BY <1>1, <1>3, <1>4, HeapCutEffect
<1>7. HeldByMap'
  <2>1. held' = held
    BY <1>1 DEF framesVars
  <2> QED BY <1>2, <1>5, <1>6, <2>1 DEF HeldByMap, HeldShrinking
<1>8. FP!IInv'
  BY <1>1, <1>2, FramesUnchanged
<1> QED BY <1>6, <1>7, <1>8, ToRunning

-----------------------------------------------------------------------------
(* Lending heap and taking it back. *)

LEMMA ContainsIs ==
  ASSUME NEW base \in Nat, NEW size \in Nat, NEW v \in Nat, NEW n \in Nat
  PROVE  Contains([base |-> base, size |-> size], v, n) <=> base <= v /\ v + n <= base + size
BY DEF Contains

LEMMA LendChecks ==
  ASSUME IInv, At("running"), NEW dst \in PageArgs, NEW src \in PageArgs,
         NEW n \in 0 .. Heap.size, MapMemoryError(dst, src, n) = "OK"
  PROVE  /\ n \in Nat /\ n > 0 /\ dst \in Nat /\ src \in Nat
         /\ Stack.base <= dst /\ dst + n <= Stack.base + Stack.size
         /\ Heap.base <= src /\ src + n <= HeapEnd /\ HeapEnd \in Nat
         /\ Len(heap_borrows) < MaxLoans
         /\ \A w \in FlatRange(src, n) :
              /\ w \in Pages /\ w \in RegionPages(Heap) /\ w \notin RegionPages(Stack)
              /\ w \notin RegionPages(TlsIo)
              /\ page[w] # Unmapped /\ page[w].perms = RW /\ ~IsLent(w)
              /\ page[w].pa = page[src].pa + (w - src)
         /\ \A w \in FlatRange(dst, n) :
              /\ w \in Pages /\ w \in RegionPages(Stack) /\ w \notin RegionPages(Heap)
              /\ w \notin RegionPages(TlsIo)
              /\ page[w] = Unmapped /\ ~IsAlias(w) /\ ~InMainStack(w)
         /\ page[src].pa \in Nat
<1>1. n \in Nat /\ dst \in Nat /\ src \in Nat
  BY Ground
<1>2. /\ n # 0 /\ Contains(Stack, dst, n) /\ Contains(Heap, src, n)
      /\ ~(Len(heap_borrows) >= MaxLoans) /\ AllHoles(page, dst, n) /\ ReadableRun(src, n)
  <2>1. CASE n = 0
    <3>1. MapMemoryError(dst, src, n) = "INVALID_SIZE"
      BY <2>1 DEF MapMemoryError
    <3> QED BY <3>1
  <2>2. CASE n # 0 /\ ~(Contains(Stack, dst, n) /\ Contains(Heap, src, n))
    <3>1. MapMemoryError(dst, src, n) = "INVALID_MEMORY_RANGE"
      BY <2>2 DEF MapMemoryError
    <3> QED BY <3>1
  <2>3. CASE n # 0 /\ Contains(Stack, dst, n) /\ Contains(Heap, src, n)
    <3>1. MapMemoryError(dst, src, n) =
            IF Len(heap_borrows) >= MaxLoans THEN "OUT_OF_MEMORY"
            ELSE IF AllHoles(page, dst, n) /\ ReadableRun(src, n) THEN "OK"
                 ELSE "INVALID_MEMORY_STATE"
      BY <2>3 DEF MapMemoryError
    <3> QED BY <2>3, <3>1
  <2> QED BY <2>1, <2>2, <2>3
<1>3. n > 0
  BY <1>1, <1>2
<1>4. Stack.base <= dst /\ dst + n <= Stack.base + Stack.size
  <2>1. dst >= Stack.base /\ dst - Stack.base <= Stack.size /\ n <= Stack.size - (dst - Stack.base)
    BY <1>2 DEF Contains
  <2>2. Stack.base \in Nat /\ Stack.size \in Nat
    BY Ground
  <2> QED BY <1>1, <2>1, <2>2
<1>5. Heap.base <= src /\ src + n <= Heap.base + Heap.size
  <2>1. src >= Heap.base /\ src - Heap.base <= Heap.size /\ n <= Heap.size - (src - Heap.base)
    BY <1>2 DEF Contains
  <2>2. Heap.base \in Nat /\ Heap.size \in Nat
    BY Ground
  <2> QED BY <1>1, <2>1, <2>2
<1>6. TypeOK /\ MemTypes /\ HeapLaid /\ StackLaid
  BY IInvParts DEF Whole, Laid
<1>7. ASSUME NEW w \in FlatRange(src, n)
      PROVE  /\ w \in Pages /\ w \in RegionPages(Heap) /\ w \notin RegionPages(Stack)
             /\ w \notin RegionPages(TlsIo)
             /\ page[w] # Unmapped /\ page[w].perms = RW /\ ~IsLent(w)
             /\ page[w].pa = page[src].pa + (w - src)
  <2>1. w \in Int /\ src <= w /\ w < src + n
    BY <1>1, RangeIs
  <2>2. Heap.base <= w /\ w < Heap.base + Heap.size
    BY <1>1, <1>5, <2>1, Ground
  <2>3. w \in Pages /\ w \in RegionPages(Heap) /\ w \notin RegionPages(Stack)
        /\ w \notin RegionPages(TlsIo)
    BY <2>1, <2>2, RegionPlaces
  <2>4. "R" \in page[w].perms /\ page[w].pa = page[src].pa + (w - src)
    BY <1>2 DEF ReadableRun
  <2>5. page[w].perms # {}
    BY <2>4
  <2>6. page[w] # Unmapped
    BY <2>5 DEF Unmapped
  <2> QED BY <1>6, <2>3, <2>4, <2>5, <2>6 DEF HeapLaid
<1>8. HeapEnd \in Nat
  BY <1>6, LoanTypes, Ground, SMTT(30) DEF HeapEnd
<1>9. src + n <= HeapEnd
  <2>1. src + n - 1 \in FlatRange(src, n)
    BY <1>1, <1>3 DEF FlatRange
  <2>2. src + n - 1 < HeapEnd
    BY <1>6, <1>7, <2>1 DEF HeapLaid
  <2> QED BY <1>1, <1>8, <2>2
<1>10. ASSUME NEW w \in FlatRange(dst, n)
       PROVE  /\ w \in Pages /\ w \in RegionPages(Stack) /\ w \notin RegionPages(Heap)
              /\ w \notin RegionPages(TlsIo)
              /\ page[w] = Unmapped /\ ~IsAlias(w) /\ ~InMainStack(w)
  <2>1. w \in Int /\ dst <= w /\ w < dst + n
    BY <1>1, RangeIs
  <2>2. Stack.base <= w /\ w < Stack.base + Stack.size
    BY <1>1, <1>4, <2>1, Ground
  <2>3. page[w] = Unmapped
    BY <1>2 DEF AllHoles
  <2> QED BY <1>6, <2>1, <2>2, <2>3, RegionPlaces DEF StackLaid
<1>11. page[src].pa \in Nat /\ Len(heap_borrows) < MaxLoans
  <2>1. src \in FlatRange(src, n)
    BY <1>1, <1>3 DEF FlatRange
  <2>2. page[src] \in Pte /\ page[src] # Unmapped
    BY <1>6, <1>7, <2>1 DEF MemTypes
  <2>3. page[src].pa \in 0 .. (PageCount - 1)
    BY <2>2, PteFacts
  <2>4. Len(heap_borrows) \in Nat
    BY <1>6, LoanTypes
  <2> QED BY <1>2, <2>3, <2>4, Ground
<1> QED BY <1>1, <1>3, <1>4, <1>5, <1>7, <1>8, <1>9, <1>10, <1>11

LEMMA RollsBackKeeps ==
  ASSUME IInv, NEW dst \in PageArgs, NEW src \in PageArgs, NEW n \in 0 .. Heap.size,
         MapMemoryRollsBack(dst, src, n)
  PROVE  IInv' /\ page' = page
<1>1. /\ At("running") /\ MapMemoryError(dst, src, n) = "OK"
      /\ page' = Reprotected(Hidden(src, n), src, n, RW) /\ reply' = "OUT_OF_MEMORY"
      /\ UNCHANGED <<framesVars, processVars, call, lost, stain>>
  BY DEF MapMemoryRollsBack
<1>2. page \in [Pages -> Pte] /\ FP!IInv
  BY <1>1, IInvParts DEF MemTypes
<1> DEFINE hidden == Hidden(src, n)
<1>3. ASSUME NEW w \in Pages PROVE page'[w] = page[w]
  <2>a. hidden[w] = IF w \in FlatRange(src, n) THEN [page[w] EXCEPT !.perms = {}] ELSE page[w]
    BY DEF Hidden, Reprotected
  <2>b. page' = Reprotected(hidden, src, n, RW)
    BY <1>1
  <2> HIDE DEF hidden
  <2>c. page'[w] = IF w \in FlatRange(src, n) THEN [hidden[w] EXCEPT !.perms = RW] ELSE hidden[w]
    BY <2>b DEF Reprotected
  <2>1. CASE w \in FlatRange(src, n)
    <3>1. page[w] # Unmapped /\ page[w].perms = RW /\ page[w] \in Pte
      BY <1>1, <1>2, <2>1, LendChecks
    <3>2. page[w] = [pa |-> page[w].pa, perms |-> RW]
      BY <3>1, PteFacts
    <3>3. page'[w] = [[page[w] EXCEPT !.perms = {}] EXCEPT !.perms = RW]
      BY <2>1, <2>a, <2>c
    <3> QED BY <3>2, <3>3
  <2>2. CASE w \notin FlatRange(src, n)
    BY <2>2, <2>a, <2>c
  <2> QED BY <2>1, <2>2
<1>4. page' = page
  <2>1. page' = [w \in Pages |-> page'[w]] /\ page = [w \in Pages |-> page[w]]
    BY <1>1, <1>2 DEF Reprotected
  <2> QED BY <1>3, <2>1
<1>5. FP!IInv' /\ held' = held
  BY <1>1, <1>2, FramesUnchanged DEF framesVars
<1>6. reply' \in Results /\ stain' \in -1 .. (PageCount - 1)
  BY <1>1, StainKept DEF Results
<1> QED BY <1>1, <1>4, <1>5, <1>6, RunningKept

LEMMA LendKeeps ==
  ASSUME IInv, NEW dst \in PageArgs, NEW src \in PageArgs, NEW n \in 0 .. Heap.size,
         MapMemory(dst, src, n)
  PROVE  IInv'
<1> DEFINE hidden == Hidden(src, n)
           srcR == FlatRange(src, n)
           dstR == FlatRange(dst, n)
<1>1. /\ At("running") /\ MapMemoryError(dst, src, n) = "OK" /\ MapOk(hidden, dst, n)
      /\ page' = Mapped(hidden, dst, n, page[src].pa, RW)
      /\ heap_borrows' = Append(heap_borrows, Loan(dst, src, n)) /\ reply' = "OK"
      /\ UNCHANGED <<framesVars, module_count, main_thread_stack, heap_size, tls, call, lost, stain>>
  BY DEF MapMemory
<1>2. /\ TypeOK /\ MemTypes /\ HistoryTypes /\ StackKnown /\ Laid /\ CodeLaid /\ HeldByMap
      /\ heap_size % Granule = 0 /\ main_thread_stack # NoRegion /\ FP!IInv /\ call \in Calls
  BY <1>1, IInvParts DEF Whole
<1>3. HeapLaid /\ StackLaid /\ TlsLaid /\ LoansLaid /\ SharedByLoan /\ page \in [Pages -> Pte]
  BY <1>2 DEF Laid, MemTypes
<1>4. /\ n \in Nat /\ n > 0 /\ dst \in Nat /\ src \in Nat
      /\ Stack.base <= dst /\ dst + n <= Stack.base + Stack.size
      /\ Heap.base <= src /\ src + n <= HeapEnd /\ HeapEnd \in Nat
      /\ Len(heap_borrows) < MaxLoans /\ page[src].pa \in Nat
  BY <1>1, LendChecks
<1>5. \A w \in srcR : /\ w \in Pages /\ w \in RegionPages(Heap) /\ w \notin RegionPages(Stack)
                      /\ w \notin RegionPages(TlsIo)
                      /\ page[w] # Unmapped /\ page[w].perms = RW /\ ~IsLent(w)
                      /\ page[w].pa = page[src].pa + (w - src)
  BY <1>1, LendChecks
<1>6. \A w \in dstR : /\ w \in Pages /\ w \in RegionPages(Stack) /\ w \notin RegionPages(Heap)
                      /\ w \notin RegionPages(TlsIo)
                      /\ page[w] = Unmapped /\ ~IsAlias(w) /\ ~InMainStack(w)
  BY <1>1, LendChecks
<1>7. /\ \A w : w \in srcR <=> w \in Int /\ src <= w /\ w < src + n
      /\ \A w : w \in dstR <=> w \in Int /\ dst <= w /\ w < dst + n
  BY <1>4, RangeIs
<1>8. ASSUME NEW w \in Pages
      PROVE  /\ w \in dstR => page'[w] = [pa |-> page[src].pa + (w - dst), perms |-> RW]
             /\ w \in srcR => page'[w] = [page[w] EXCEPT !.perms = {}]
             /\ w \notin dstR /\ w \notin srcR => page'[w] = page[w]
  <2>1. hidden[w] = IF w \in srcR THEN [page[w] EXCEPT !.perms = {}] ELSE page[w]
    BY DEF Hidden, Reprotected
  <2>2. page' = Mapped(hidden, dst, n, page[src].pa, RW)
    BY <1>1
  <2> HIDE DEF hidden
  <2>3. page'[w] = IF w \in dstR THEN [pa |-> page[src].pa + (w - dst), perms |-> RW]
                   ELSE hidden[w]
    BY <2>2 DEF Mapped
  <2>4. ~(w \in srcR /\ w \in dstR)
    BY <1>5, <1>6
  <2> QED BY <2>1, <2>3, <2>4
<1> HIDE DEF hidden, srcR, dstR
<1>9. ASSUME NEW w \in dstR
      PROVE  /\ src + (w - dst) \in srcR /\ src + (w - dst) \in Int
             /\ page[src + (w - dst)].pa = page[src].pa + (w - dst)
  <2> DEFINE x == src + (w - dst)
  <2>0. w \in Int /\ dst <= w /\ w < dst + n
    BY <1>7
  <2>1. x \in srcR /\ x \in Int /\ x - src = w - dst
    <3>1. x \in Int /\ src <= x /\ x < src + n /\ x - src = w - dst
      BY <1>4, <2>0
    <3> HIDE DEF x
    <3> QED BY <1>7, <3>1
  <2> HIDE DEF x
  <2>2. page[x].pa = page[src].pa + (w - dst)
    BY <1>5, <2>1
  <2> QED BY <2>1, <2>2 DEF x
<1>10. ASSUME NEW w \in dstR
       PROVE  page'[w] \in Pte /\ page'[w] # Unmapped /\ page'[w].perms = RW
              /\ page'[w].pa = page[src].pa + (w - dst)
  <2> DEFINE x == src + (w - dst)
  <2>1. x \in srcR /\ page[x].pa = page[src].pa + (w - dst)
    BY <1>9
  <2> HIDE DEF x
  <2>2. page[x] \in Pte /\ page[x] # Unmapped
    BY <1>3, <1>5, <2>1
  <2>3. page[x].pa \in 0 .. (PageCount - 1)
    BY <2>2, PteFacts
  <2>4. page[x].pa \in Nat /\ page[x].pa < PageCount
    BY <2>3, Ground
  <2>5. page'[w] = [pa |-> page[x].pa, perms |-> RW]
    BY <1>6, <1>8, <2>1
  <2> QED BY <2>1, <2>4, <2>5, MappedIsPte DEF RW
<1>11. ASSUME NEW w \in srcR
       PROVE  page'[w] \in Pte /\ page'[w] # Unmapped /\ page'[w].perms = {}
              /\ page'[w].pa = page[w].pa
  <2>1. page[w] \in Pte /\ page[w] # Unmapped /\ w \in Pages
    BY <1>3, <1>5
  <2>2. /\ [page[w] EXCEPT !.perms = {}] = [pa |-> page[w].pa, perms |-> {}]
        /\ [page[w] EXCEPT !.perms = {}] \in Pte /\ [page[w] EXCEPT !.perms = {}] # Unmapped
    BY <2>1, ReprotectedIsPte
  <2> QED BY <1>8, <2>1, <2>2
<1>12. page' \in [Pages -> Pte]
  <2>1. page' = [w \in Pages |-> page'[w]]
    BY <1>1 DEF Mapped
  <2>2. ASSUME NEW w \in Pages PROVE page'[w] \in Pte
    BY <1>3, <1>8, <1>10, <1>11
  <2> QED BY <2>1, <2>2
<1>13. ASSUME NEW w \in Pages, w \notin dstR
       PROVE  /\ page'[w] # Unmapped <=> page[w] # Unmapped
              /\ page[w] # Unmapped => page'[w].pa = page[w].pa
  <2>1. CASE w \in srcR
    BY <1>5, <1>11, <2>1
  <2>2. CASE w \notin srcR
    BY <1>8, <1>13, <2>2
  <2> QED BY <2>1, <2>2
<1>a. Len(heap_borrows) \in Nat /\ Loans = 1 .. Len(heap_borrows)
  BY <1>2, LoanTypes
<1>b. PICK new \in Nat : new = Len(heap_borrows) + 1
  BY <1>a
<1>14. /\ Len(heap_borrows) \in Nat /\ Loans = 1 .. Len(heap_borrows)
       /\ new \in Nat /\ new \notin Loans /\ Loans' = Loans \cup {new}
       /\ \A i \in Loans : heap_borrows'[i] = heap_borrows[i]
       /\ heap_borrows'[new] = Loan(dst, src, n)
       /\ heap_borrows' \in Seq([dst_base : Pages, src_base : Pages, size : 1 .. Heap.size])
       /\ Len(heap_borrows') = new /\ new <= MaxLoans
  <2> DEFINE Record == [dst_base : Pages, src_base : Pages, size : 1 .. Heap.size]
             loan == Loan(dst, src, n)
  <2>1. loan \in Record
    <3>1. src \in srcR /\ dst \in dstR
      BY <1>4, <1>7
    <3>2. src \in Pages /\ dst \in Pages /\ n \in 1 .. Heap.size
      BY <1>4, <1>5, <1>6, <3>1, Ground
    <3> QED BY <3>2 DEF Loan
  <2>2. heap_borrows \in Seq(Record) /\ heap_borrows' = Append(heap_borrows, loan)
    BY <1>1, <1>2 DEF MemTypes
  <2>3. Len(heap_borrows) \in Nat /\ Len(heap_borrows) < MaxLoans /\ Loans = 1 .. Len(heap_borrows)
    BY <1>2, <1>4, LoanTypes
  <2> HIDE DEF Record, loan
  <2>4. /\ heap_borrows' \in Seq(Record) /\ Len(heap_borrows') = new
        /\ \A i \in 1 .. Len(heap_borrows) : heap_borrows'[i] = heap_borrows[i]
        /\ heap_borrows'[new] = loan
    BY <1>b, <2>1, <2>2, <2>3
  <2>5. Loans' = 1 .. new
    BY <2>3, <2>4 DEF Loans
  <2>6. new \in Nat /\ new \notin 1 .. Len(heap_borrows)
        /\ 1 .. new = (1 .. Len(heap_borrows)) \cup {new} /\ new <= MaxLoans
    <3> DEFINE l == Len(heap_borrows)
    <3>1. l \in Nat /\ new = l + 1 /\ l < MaxLoans /\ MaxLoans \in Nat
      BY <1>b, <2>3, Ground
    <3> HIDE DEF l
    <3>2. new \in Nat /\ new \notin 1 .. l /\ new <= MaxLoans
      BY <3>1
    <3>3. 1 .. new = (1 .. l) \cup {new}
      BY <3>1
    <3> QED BY <3>2, <3>3 DEF l
  <2> QED BY <2>3, <2>4, <2>5, <2>6 DEF Record, loan
<1>15. /\ \A i \in Loans : SrcOf(i)' = SrcOf(i) /\ DstOf(i)' = DstOf(i)
       /\ SrcOf(new)' = srcR /\ DstOf(new)' = dstR
  BY <1>14 DEF SrcOf, DstOf, Loan, srcR, dstR
<1>16. \A w : /\ IsLent(w)' <=> IsLent(w) \/ w \in srcR
              /\ IsAlias(w)' <=> IsAlias(w) \/ w \in dstR
              /\ InMainStack(w)' <=> InMainStack(w)
  BY <1>1, <1>14, <1>15 DEF IsLent, IsAlias, InMainStack
<1>17. HeapLaid'
  <2> SUFFICES ASSUME NEW w \in RegionPages(Heap)
               PROVE  /\ page'[w] # Unmapped <=> w < HeapEnd
                      /\ page'[w] # Unmapped =>
                           page'[w].perms = IF IsLent(w) \/ w \in srcR THEN {} ELSE RW
    BY <1>1, <1>16 DEF HeapLaid, HeapEnd
  <2>1. w \in Pages /\ w \notin dstR
    BY <1>6, RegionsAre
  <2>2. CASE w \in srcR
    BY <1>3, <1>5, <1>11, <2>2 DEF HeapLaid
  <2>3. CASE w \notin srcR
    BY <1>3, <1>8, <2>1, <2>3 DEF HeapLaid
  <2> QED BY <2>2, <2>3
<1>18. StackLaid'
  <2> SUFFICES ASSUME NEW w \in RegionPages(Stack)
               PROVE  /\ page'[w] # Unmapped <=> InMainStack(w) \/ IsAlias(w) \/ w \in dstR
                      /\ page'[w] # Unmapped => page'[w].perms = RW
    BY <1>16 DEF StackLaid
  <2>1. w \in Pages /\ w \notin srcR
    BY <1>5, RegionsAre
  <2>2. CASE w \in dstR
    BY <1>10, <2>2
  <2>3. CASE w \notin dstR
    BY <1>3, <1>8, <2>1, <2>3 DEF StackLaid
  <2> QED BY <2>2, <2>3
<1>19. TlsLaid' /\ CodeLaid'
  <2>1. ASSUME NEW w \in Pages, w \in RegionPages(TlsIo) \/ Elsewhere(w)
        PROVE  page'[w] = page[w]
    BY <1>5, <1>6, <1>8, <2>1 DEF Elsewhere
  <2>2. TlsLaid'
    BY <1>1, <1>3, <2>1, RegionsAre DEF TlsLaid, TlsEnd
  <2>3. \A w \in Pages : page[w] # Unmapped => page'[w] # Unmapped
    BY <1>6, <1>13
  <2>4. CodeLaid'
    BY <1>1, <1>2, <2>1, <2>3 DEF CodeLaid, InImage
  <2> QED BY <2>2, <2>4
<1>20. LoansLaid'
  <2>1. ASSUME NEW i \in Loans
        PROVE  /\ Heap.base <= heap_borrows[i].src_base
               /\ heap_borrows[i].src_base + heap_borrows[i].size <= HeapEnd
               /\ Stack.base <= heap_borrows[i].dst_base
               /\ heap_borrows[i].dst_base + heap_borrows[i].size <= Stack.base + Stack.size
    BY <1>3 DEF LoansLaid
  <2>2. ASSUME NEW i \in Loans, NEW k \in 0 .. (heap_borrows[i].size - 1)
        PROVE  /\ page'[heap_borrows[i].dst_base + k].pa = page'[heap_borrows[i].src_base + k].pa
               /\ ~InMainStack(heap_borrows[i].dst_base + k)
    <3>1. /\ page[heap_borrows[i].dst_base + k].pa = page[heap_borrows[i].src_base + k].pa
          /\ ~InMainStack(heap_borrows[i].dst_base + k)
      BY <1>3 DEF LoansLaid
    <3> DEFINE x == heap_borrows[i].src_base + k
               y == heap_borrows[i].dst_base + k
    <3>2. x \in SrcOf(i) /\ y \in DstOf(i)
      <4>1. /\ heap_borrows[i].dst_base \in Nat /\ heap_borrows[i].src_base \in Nat
            /\ heap_borrows[i].size \in Nat
        BY <1>2, LoanTypes
      <4> QED BY <1>2, <1>3, <4>1, LoanPlaces
    <3> HIDE DEF x, y
    <3>3. x \in RegionPages(Heap) /\ x < HeapEnd /\ y \in RegionPages(Stack) /\ IsAlias(y)
      BY <1>2, <1>3, <3>2, LoanPlaces DEF IsAlias
    <3>4. x \in Pages /\ x \notin dstR /\ page[x] # Unmapped
      BY <1>3, <1>6, <3>3, RegionsAre DEF HeapLaid
    <3>5. y \in Pages /\ y \notin dstR /\ page[y] # Unmapped
      BY <1>3, <1>6, <3>3, RegionsAre DEF StackLaid
    <3>6. page'[x].pa = page[x].pa /\ page'[y].pa = page[y].pa
      BY <1>13, <3>4, <3>5
    <3> QED BY <3>1, <3>6 DEF x, y
  <2>3. ASSUME NEW k \in 0 .. (n - 1)
        PROVE  page'[dst + k].pa = page'[src + k].pa /\ ~InMainStack(dst + k)
    <3>0. n \in Nat /\ dst \in Nat /\ src \in Nat
      BY <1>4
    <3>a. /\ dst + k \in Int /\ dst <= dst + k /\ dst + k < dst + n /\ (dst + k) - dst = k
          /\ src + k \in Int /\ src <= src + k /\ src + k < src + n /\ (src + k) - src = k
      BY <3>0
    <3>1. dst + k \in dstR /\ src + k \in srcR /\ (dst + k) - dst = k /\ (src + k) - src = k
      BY <1>7, <3>a
    <3>2. page'[dst + k].pa = page[src].pa + k
      BY <1>10, <3>1
    <3>3. page'[src + k].pa = page[src].pa + k
      BY <1>5, <1>11, <3>1
    <3> QED BY <1>6, <3>1, <3>2, <3>3
  <2>4. ASSUME NEW i \in Loans
        PROVE  SrcOf(i) \cap srcR = {} /\ DstOf(i) \cap dstR = {}
    BY <1>5, <1>6 DEF IsLent, IsAlias
  <2>5. \A i, j \in Loans : i # j => SrcOf(i) \cap SrcOf(j) = {} /\ DstOf(i) \cap DstOf(j) = {}
    BY <1>3 DEF LoansLaid
  <2>6. ASSUME NEW i \in Loans', NEW j \in Loans', i # j
        PROVE  SrcOf(i)' \cap SrcOf(j)' = {} /\ DstOf(i)' \cap DstOf(j)' = {}
    <3>1. CASE i \in Loans /\ j \in Loans
      BY <1>15, <2>5, <2>6, <3>1
    <3>2. CASE i \in Loans /\ j = new
      BY <1>15, <2>4, <3>2
    <3>3. CASE i = new /\ j \in Loans
      BY <1>15, <2>4, <3>3
    <3> QED BY <1>14, <2>6, <3>1, <3>2, <3>3
  <2>7. ASSUME NEW i \in Loans'
        PROVE  /\ Heap.base <= heap_borrows'[i].src_base
               /\ heap_borrows'[i].src_base + heap_borrows'[i].size <= HeapEnd
               /\ Stack.base <= heap_borrows'[i].dst_base
               /\ heap_borrows'[i].dst_base + heap_borrows'[i].size <= Stack.base + Stack.size
               /\ \A k \in 0 .. (heap_borrows'[i].size - 1) :
                    /\ page'[heap_borrows'[i].dst_base + k].pa
                         = page'[heap_borrows'[i].src_base + k].pa
                    /\ ~InMainStack(heap_borrows'[i].dst_base + k)
    <3>1. CASE i \in Loans
      BY <1>14, <2>1, <2>2, <3>1, SMTT(30)
    <3>2. CASE i = new
      <4>1. /\ heap_borrows'[i].src_base = src /\ heap_borrows'[i].dst_base = dst
            /\ heap_borrows'[i].size = n
        BY <1>14, <3>2 DEF Loan
      <4> QED BY <1>4, <2>3, <4>1
    <3> QED BY <1>14, <3>1, <3>2
  <2>8. HeapEnd' = HeapEnd /\ main_thread_stack' = main_thread_stack
    BY <1>1 DEF HeapEnd
  <2> QED BY <2>6, <2>7, <2>8 DEF LoansLaid, InMainStack
<1>21. \A v, w : AliasOf(w, v) => AliasOf(w, v)'
  BY <1>14, <1>15 DEF AliasOf
<1>22. ASSUME NEW a \in dstR, NEW b \in Pages, a # b, page'[b] # Unmapped,
              page'[a].pa = page'[b].pa
       PROVE  AliasOf(a, b)'
  <2> DEFINE x == src + (a - dst)
  <2>1. x \in srcR /\ x \in Int /\ page[x].pa = page[src].pa + (a - dst)
        /\ a = dst + (x - src)
    <3>1. a \in Int /\ dst \in Nat /\ src \in Nat
      BY <1>4, <1>7
    <3>2. x \in srcR /\ x \in Int /\ page[x].pa = page[src].pa + (a - dst)
      BY <1>9
    <3>3. a = dst + (x - src)
      BY <3>1
    <3> QED BY <3>2, <3>3
  <2> HIDE DEF x
  <2>2. page'[a].pa = page[src].pa + (a - dst)
    BY <1>10
  <2>3. b \notin dstR
    <3> SUFFICES ASSUME b \in dstR PROVE FALSE
      OBVIOUS
    <3>1. page'[b].pa = page[src].pa + (b - dst)
      BY <1>10
    <3>2. a \in Int /\ b \in Int
      BY <1>7
    <3> DEFINE p == page[src].pa
    <3>3. p \in Nat /\ p + (a - dst) = p + (b - dst)
      BY <1>4, <1>22, <2>2, <3>1
    <3> HIDE DEF p
    <3>4. a = b
      <4>1. dst \in Nat
        BY <1>4
      <4> QED BY <3>2, <3>3, <4>1
    <3> QED BY <1>22, <3>4
  <2>4. page[b] # Unmapped /\ page[b].pa = page[x].pa
    BY <1>13, <1>22, <2>1, <2>2, <2>3
  <2>5. x \in Pages /\ page[x] # Unmapped /\ ~IsLent(x) /\ x \notin RegionPages(Stack)
    BY <1>5, <2>1
  <2>6. b = x
    <3> SUFFICES ASSUME b # x PROVE FALSE
      OBVIOUS
    <3>1. AliasOf(x, b) \/ AliasOf(b, x)
      BY <1>3, <2>4, <2>5 DEF SharedByLoan
    <3> QED BY <1>2, <1>3, <2>5, <3>1, AliasFacts
  <2> QED BY <1>14, <1>15, <2>1, <2>6 DEF AliasOf, Loan
<1>23. SharedByLoan'
  <2> SUFFICES ASSUME NEW a \in Pages, NEW b \in Pages, page'[a] # Unmapped, page'[b] # Unmapped,
                      a # b, page'[a].pa = page'[b].pa
               PROVE  AliasOf(b, a)' \/ AliasOf(a, b)'
    BY DEF SharedByLoan
  <2>1. CASE a \in dstR
    BY <1>22, <2>1
  <2>2. CASE b \in dstR
    BY <1>22, <2>2
  <2>3. CASE a \notin dstR /\ b \notin dstR
    <3>1. page[a] # Unmapped /\ page[b] # Unmapped /\ page[a].pa = page[b].pa
      BY <1>13, <2>3
    <3>2. AliasOf(b, a) \/ AliasOf(a, b)
      BY <1>3, <3>1 DEF SharedByLoan
    <3> QED BY <1>21, <3>2
  <2> QED BY <2>1, <2>2, <2>3
<1>24. Backing' = Backing
  <2>1. \A pa : pa \in Backing' <=> \E v \in Pages : page'[v] # Unmapped /\ page'[v].pa = pa
    BY DEF Backing, MappedPages
  <2>2. ASSUME NEW v \in Pages, page'[v] # Unmapped PROVE page'[v].pa \in Backing
    <3>1. CASE v \in dstR
      <4> DEFINE x == src + (v - dst)
      <4>1. x \in srcR /\ page[x].pa = page'[v].pa
        BY <1>9, <1>10, <3>1
      <4> HIDE DEF x
      <4> QED BY <1>5, <4>1, BackingIs
    <3>2. CASE v \notin dstR
      BY <1>13, <2>2, <3>2, BackingIs
    <3> QED BY <3>1, <3>2
  <2>3. ASSUME NEW v \in Pages, page[v] # Unmapped PROVE page[v].pa \in Backing'
    <3>1. v \notin dstR
      BY <1>6, <2>3
    <3>2. page'[v] # Unmapped /\ page'[v].pa = page[v].pa
      BY <1>13, <2>3, <3>1
    <3> QED BY <2>1, <3>2
  <2> QED BY <2>1, <2>2, <2>3, BackingIs
<1>25. HeldByMap' /\ FP!IInv'
  <2>1. held' = held
    BY <1>1 DEF framesVars
  <2> QED BY <1>1, <1>2, <1>24, <2>1, FramesUnchanged DEF HeldByMap
<1>26. MemTypes' /\ HistoryTypes' /\ StackKnown' /\ (heap_size % Granule = 0)'
  <2>1. MemTypes'
    BY <1>1, <1>2, <1>12, <1>14 DEF MemTypes
  <2>2. HistoryTypes' /\ StackKnown'
    BY <1>1, <1>2 DEF HistoryTypes, StackKnown, Results
  <2> QED BY <1>1, <1>2, <2>1, <2>2
<1>27. call' \in Calls /\ call'.at = "running" /\ main_thread_stack' # NoRegion
  BY <1>1, <1>2 DEF At
<1> QED BY <1>17, <1>18, <1>19, <1>20, <1>23, <1>25, <1>26, <1>27, ToRunning DEF Whole, Laid

(* What swap-removal of entry i leaves of the loan table: the other loans. *)
LEMMA SwapLeavesTheOthers ==
  ASSUME TypeOK, NEW i \in Loans, heap_borrows' = SwapRemoved(i)
  PROVE  /\ heap_borrows' \in Seq([dst_base : Pages, src_base : Pages, size : 1 .. Heap.size])
         /\ Len(heap_borrows') <= Len(heap_borrows)
         /\ \A j \in Loans' : \E k \in Loans \ {i} : heap_borrows'[j] = heap_borrows[k]
         /\ \A k \in Loans \ {i} : \E j \in Loans' : heap_borrows'[j] = heap_borrows[k]
         /\ \A j1, j2 \in Loans' : j1 # j2 =>
              \E k1, k2 \in Loans \ {i} :
                k1 # k2 /\ heap_borrows'[j1] = heap_borrows[k1] /\ heap_borrows'[j2] = heap_borrows[k2]
<1> DEFINE l == Len(heap_borrows)
           Record == [dst_base : Pages, src_base : Pages, size : 1 .. Heap.size]
           from(j) == IF j = i THEN l ELSE j
<1>1. l \in Nat /\ Loans = 1 .. l /\ heap_borrows \in Seq(Record)
  BY LoanTypes DEF TypeOK
<1> HIDE DEF Record
<1>2. heap_borrows' = [j \in 1 .. (l - 1) |-> heap_borrows[from(j)]]
  BY DEF SwapRemoved
<1>3. \A k \in 1 .. l : heap_borrows[k] \in Record
  BY <1>1
<1> HIDE DEF l
<1>4. l - 1 \in Nat /\ i \in 1 .. l /\ l \in Nat
  BY <1>1
<1>5. \A j \in 1 .. (l - 1) : from(j) \in 1 .. l /\ from(j) # i
  BY <1>4
<1>6. \A j1, j2 \in 1 .. (l - 1) : j1 # j2 => from(j1) # from(j2)
  BY <1>4
<1>7. \A k \in 1 .. l : k # i => \E j \in 1 .. (l - 1) : from(j) = k
  <2> SUFFICES ASSUME NEW k \in 1 .. l, k # i PROVE \E j \in 1 .. (l - 1) : from(j) = k
    OBVIOUS
  <2>1. CASE k = l
    <3>1. i \in 1 .. (l - 1) /\ from(i) = k
      BY <1>4, <2>1
    <3> QED BY <3>1
  <2>2. CASE k # l
    <3>1. k \in 1 .. (l - 1) /\ from(k) = k
      BY <1>4, <2>2
    <3> QED BY <3>1
  <2> QED BY <2>1, <2>2
<1> HIDE DEF from
<1>8. heap_borrows' \in Seq(Record) /\ Len(heap_borrows') = l - 1
  <2>1. heap_borrows' \in [1 .. (l - 1) -> Record]
    BY <1>2, <1>3, <1>5
  <2> QED BY <1>4, <2>1
<1>9. Loans' = 1 .. (l - 1) /\ \A j \in 1 .. (l - 1) : heap_borrows'[j] = heap_borrows[from(j)]
  BY <1>2 DEF Loans
<1>10. l - 1 <= l
  BY <1>4
<1>11. /\ \A j \in Loans' : \E k \in Loans \ {i} : heap_borrows'[j] = heap_borrows[k]
       /\ \A k \in Loans \ {i} : \E j \in Loans' : heap_borrows'[j] = heap_borrows[k]
  BY <1>1, <1>5, <1>7, <1>9
<1>12. ASSUME NEW j1 \in Loans', NEW j2 \in Loans', j1 # j2
       PROVE  \E k1, k2 \in Loans \ {i} :
                k1 # k2 /\ heap_borrows'[j1] = heap_borrows[k1] /\ heap_borrows'[j2] = heap_borrows[k2]
  <2>1. from(j1) \in Loans \ {i} /\ from(j2) \in Loans \ {i} /\ from(j1) # from(j2)
    BY <1>1, <1>5, <1>6, <1>9, <1>12
  <2> QED BY <1>9, <2>1
<1> QED BY <1>8, <1>10, <1>11, <1>12 DEF Record, l

LEMMA ReturnKeeps ==
  ASSUME IInv, NEW dst \in PageArgs, NEW src \in PageArgs, NEW n \in 0 .. Heap.size,
         UnmapMemory(dst, src, n)
  PROVE  IInv'
<1> DEFINE srcR == FlatRange(src, n)
           dstR == FlatRange(dst, n)
           holed == Holed(page, dst, n)
<1>1. /\ At("running")
      /\ page' = Reprotected(holed, src, n, RW) /\ reply' = "OK"
      /\ UNCHANGED <<framesVars, module_count, main_thread_stack, heap_size, tls, call, lost, stain>>
  BY DEF UnmapMemory
<1>2. /\ TypeOK /\ MemTypes /\ HistoryTypes /\ StackKnown /\ Laid /\ CodeLaid /\ HeldByMap
      /\ heap_size % Granule = 0 /\ main_thread_stack # NoRegion /\ FP!IInv /\ call \in Calls
  BY <1>1, IInvParts DEF Whole
<1>3. HeapLaid /\ StackLaid /\ TlsLaid /\ LoansLaid /\ SharedByLoan /\ page \in [Pages -> Pte]
  BY <1>2 DEF Laid, MemTypes
<1>4. PICK i \in Loans : heap_borrows[i] = Loan(dst, src, n) /\ heap_borrows' = SwapRemoved(i)
  BY DEF UnmapMemory, Matching, Loans
<1>5. /\ heap_borrows' \in Seq([dst_base : Pages, src_base : Pages, size : 1 .. Heap.size])
      /\ Len(heap_borrows') <= Len(heap_borrows)
      /\ \A j \in Loans' : \E k \in Loans \ {i} : heap_borrows'[j] = heap_borrows[k]
      /\ \A k \in Loans \ {i} : \E j \in Loans' : heap_borrows'[j] = heap_borrows[k]
      /\ \A j1, j2 \in Loans' : j1 # j2 =>
           \E k1, k2 \in Loans \ {i} :
             k1 # k2 /\ heap_borrows'[j1] = heap_borrows[k1] /\ heap_borrows'[j2] = heap_borrows[k2]
  BY <1>2, <1>4, SwapLeavesTheOthers
<1>6. /\ heap_borrows[i].dst_base = dst /\ heap_borrows[i].src_base = src
      /\ heap_borrows[i].size = n /\ SrcOf(i) = srcR /\ DstOf(i) = dstR
  BY <1>4 DEF Loan, SrcOf, DstOf
<1>7. /\ dst \in Nat /\ src \in Nat /\ n \in Nat /\ n > 0
      /\ \A w : w \in srcR <=> w \in Int /\ src <= w /\ w < src + n
      /\ \A w : w \in dstR <=> w \in Int /\ dst <= w /\ w < dst + n
  BY <1>2, <1>3, <1>6, LoanTypes, LoanPlaces
<1>8. \A w \in srcR : /\ w \in Pages /\ w \in RegionPages(Heap) /\ w < HeapEnd
                      /\ w \notin RegionPages(Stack) /\ w \notin RegionPages(TlsIo)
                      /\ page[w] # Unmapped
  <2> SUFFICES ASSUME NEW w \in srcR
               PROVE  /\ w \in Pages /\ w \in RegionPages(Heap) /\ w < HeapEnd
                      /\ w \notin RegionPages(Stack) /\ w \notin RegionPages(TlsIo)
                      /\ page[w] # Unmapped
    OBVIOUS
  <2>1. w \in RegionPages(Heap) /\ w < HeapEnd
    BY <1>2, <1>3, <1>6, LoanPlaces
  <2>2. w \in Pages /\ w \in Int
    BY <2>1, RegionsAre, PagesAre
  <2>3. w \notin RegionPages(Stack) /\ w \notin RegionPages(TlsIo)
    BY <2>1, <2>2, RegionsAre, RegionPlaces
  <2> QED BY <1>3, <2>1, <2>2, <2>3 DEF HeapLaid
<1>9. \A w \in dstR : /\ w \in Pages /\ w \in RegionPages(Stack) /\ ~InMainStack(w)
                      /\ w \notin RegionPages(Heap) /\ w \notin RegionPages(TlsIo)
                      /\ page[w] # Unmapped
  <2> SUFFICES ASSUME NEW w \in dstR
               PROVE  /\ w \in Pages /\ w \in RegionPages(Stack) /\ ~InMainStack(w)
                      /\ w \notin RegionPages(Heap) /\ w \notin RegionPages(TlsIo)
                      /\ page[w] # Unmapped
    OBVIOUS
  <2>1. w \in RegionPages(Stack) /\ ~InMainStack(w) /\ IsAlias(w)
    BY <1>2, <1>3, <1>6, LoanPlaces DEF IsAlias
  <2>2. w \in Pages /\ w \in Int
    BY <2>1, RegionsAre, PagesAre
  <2>3. w \notin RegionPages(Heap) /\ w \notin RegionPages(TlsIo)
    BY <2>1, <2>2, RegionsAre, RegionPlaces
  <2> QED BY <1>3, <2>1, <2>2, <2>3 DEF StackLaid
<1>10. ASSUME NEW w \in Pages
       PROVE  /\ w \in dstR => page'[w] = Unmapped
              /\ w \in srcR => page'[w] = [page[w] EXCEPT !.perms = RW]
              /\ w \notin dstR /\ w \notin srcR => page'[w] = page[w]
  <2>1. holed[w] = IF w \in dstR THEN Unmapped ELSE page[w]
    BY DEF Holed
  <2>2. page' = Reprotected(holed, src, n, RW)
    BY <1>1
  <2> HIDE DEF holed
  <2>3. page'[w] = IF w \in srcR THEN [holed[w] EXCEPT !.perms = RW] ELSE holed[w]
    BY <2>2 DEF Reprotected
  <2>4. ~(w \in srcR /\ w \in dstR)
    BY <1>8, <1>9
  <2> QED BY <2>1, <2>3, <2>4
<1> HIDE DEF holed, srcR, dstR
<1>11. ASSUME NEW w \in srcR
       PROVE  page'[w] \in Pte /\ page'[w] # Unmapped /\ page'[w].perms = RW
              /\ page'[w].pa = page[w].pa
  <2>1. page[w] \in Pte /\ page[w] # Unmapped /\ w \in Pages
    BY <1>3, <1>8
  <2>2. /\ [page[w] EXCEPT !.perms = RW] = [pa |-> page[w].pa, perms |-> RW]
        /\ [page[w] EXCEPT !.perms = RW] \in Pte /\ [page[w] EXCEPT !.perms = RW] # Unmapped
    BY <2>1, ReprotectedIsPte DEF RW
  <2> QED BY <1>10, <2>1, <2>2
<1>12. page' \in [Pages -> Pte]
  <2>1. page' = [w \in Pages |-> page'[w]]
    BY <1>1 DEF Reprotected
  <2>2. ASSUME NEW w \in Pages PROVE page'[w] \in Pte
    <3>1. Unmapped \in Pte
      BY DEF Pte
    <3> QED BY <1>3, <1>10, <1>11, <3>1
  <2> QED BY <2>1, <2>2
<1>13. ASSUME NEW w \in Pages, w \notin dstR
       PROVE  /\ page'[w] # Unmapped <=> page[w] # Unmapped
              /\ page[w] # Unmapped => page'[w].pa = page[w].pa
  <2>1. CASE w \in srcR
    BY <1>8, <1>11, <2>1
  <2>2. CASE w \notin srcR
    BY <1>10, <1>13, <2>2
  <2> QED BY <2>1, <2>2
<1>14. /\ \A w : IsLent(w)' <=> \E k \in Loans \ {i} : w \in SrcOf(k)
       /\ \A w : IsAlias(w)' <=> \E k \in Loans \ {i} : w \in DstOf(k)
       /\ \A w : InMainStack(w)' <=> InMainStack(w)
  <2>1. \A w : IsLent(w)' <=> \E k \in Loans \ {i} : w \in SrcOf(k)
    BY <1>5 DEF IsLent, SrcOf
  <2>2. \A w : IsAlias(w)' <=> \E k \in Loans \ {i} : w \in DstOf(k)
    BY <1>5 DEF IsAlias, DstOf
  <2> QED BY <1>1, <2>1, <2>2 DEF InMainStack
<1>15. \A k \in Loans \ {i} : SrcOf(k) \cap srcR = {} /\ DstOf(k) \cap dstR = {}
  BY <1>3, <1>6 DEF LoansLaid
<1>16. /\ \A w : IsLent(w)' <=> IsLent(w) /\ w \notin srcR
       /\ \A w : IsAlias(w)' <=> IsAlias(w) /\ w \notin dstR
  BY <1>6, <1>14, <1>15 DEF IsLent, IsAlias
<1>17. HeapLaid'
  <2> SUFFICES ASSUME NEW w \in RegionPages(Heap)
               PROVE  /\ page'[w] # Unmapped <=> w < HeapEnd
                      /\ page'[w] # Unmapped =>
                           page'[w].perms = IF IsLent(w) /\ w \notin srcR THEN {} ELSE RW
    BY <1>1, <1>16 DEF HeapLaid, HeapEnd
  <2>1. w \in Pages /\ w \notin dstR
    BY <1>9, RegionsAre
  <2>2. CASE w \in srcR
    BY <1>8, <1>11, <2>2
  <2>3. CASE w \notin srcR
    BY <1>3, <1>10, <2>1, <2>3 DEF HeapLaid
  <2> QED BY <2>2, <2>3
<1>18. StackLaid'
  <2> SUFFICES ASSUME NEW w \in RegionPages(Stack)
               PROVE  /\ page'[w] # Unmapped <=> InMainStack(w) \/ (IsAlias(w) /\ w \notin dstR)
                      /\ page'[w] # Unmapped => page'[w].perms = RW
    BY <1>14, <1>16 DEF StackLaid
  <2>1. w \in Pages /\ w \notin srcR
    BY <1>8, RegionsAre
  <2>2. CASE w \in dstR
    BY <1>9, <1>10, <2>1, <2>2
  <2>3. CASE w \notin dstR
    BY <1>3, <1>10, <2>1, <2>3 DEF StackLaid
  <2> QED BY <2>2, <2>3
<1>19. TlsLaid' /\ CodeLaid'
  <2>1. ASSUME NEW w \in Pages, w \notin RegionPages(Heap), w \notin RegionPages(Stack)
        PROVE  page'[w] = page[w]
    BY <1>8, <1>9, <1>10, <2>1
  <2>2. \A w \in RegionPages(TlsIo) :
          w \in Pages /\ w \notin RegionPages(Heap) /\ w \notin RegionPages(Stack)
    BY RegionsAre, RegionPlaces, PagesAre
  <2>3. TlsLaid'
    BY <1>1, <1>3, <2>1, <2>2 DEF TlsLaid, TlsEnd
  <2>4. ASSUME NEW m \in 1 .. module_count, NEW w \in ImageAt(m)
        PROVE  w \in Pages /\ w \notin RegionPages(Heap) /\ w \notin RegionPages(Stack)
    <3>1. module_count \in Nat /\ module_count <= Len(Modules)
      BY <1>2, ModuleFacts DEF MemTypes
    <3>2. m \in 1 .. Len(Modules)
      BY <3>1, ModuleFacts
    <3>3. /\ ImagesBefore[m] \in Nat /\ ImageSize(m) \in Nat
          /\ ImagesBefore[m] + ImageSize(m) <= Heap.base
      BY <3>2, RegionsApart
    <3>4. w \in Int /\ ImagesBefore[m] <= w /\ w < ImagesBefore[m] + ImageSize(m)
      BY <3>3, RangeIs DEF ImageAt
    <3>5. 0 <= w /\ w < Heap.base
      BY <3>3, <3>4, Ground
    <3> QED BY <3>4, <3>5, RegionPlaces DEF Elsewhere
  <2>5. ASSUME NEW w \in Pages, page'[w] # Unmapped, Elsewhere(w) PROVE InImage(w)
    BY <1>2, <2>1, <2>5 DEF Elsewhere, CodeLaid
  <2>6. ASSUME NEW m \in 1 .. module_count, NEW w \in ImageAt(m)
        PROVE  w \in Pages /\ page'[w] # Unmapped
    BY <1>2, <2>1, <2>4, <2>6 DEF CodeLaid
  <2>7. CodeLaid'
    BY <1>1, <2>5, <2>6 DEF CodeLaid, InImage
  <2> QED BY <2>3, <2>7
<1>20. LoansLaid'
  <2>1. ASSUME NEW k \in Loans \ {i}
        PROVE  /\ Heap.base <= heap_borrows[k].src_base
               /\ heap_borrows[k].src_base + heap_borrows[k].size <= HeapEnd
               /\ Stack.base <= heap_borrows[k].dst_base
               /\ heap_borrows[k].dst_base + heap_borrows[k].size <= Stack.base + Stack.size
    BY <1>3 DEF LoansLaid
  <2>2. ASSUME NEW k \in Loans \ {i}, NEW o \in 0 .. (heap_borrows[k].size - 1)
        PROVE  /\ page'[heap_borrows[k].dst_base + o].pa = page'[heap_borrows[k].src_base + o].pa
               /\ ~InMainStack(heap_borrows[k].dst_base + o)
    <3>1. /\ page[heap_borrows[k].dst_base + o].pa = page[heap_borrows[k].src_base + o].pa
          /\ ~InMainStack(heap_borrows[k].dst_base + o)
      BY <1>3 DEF LoansLaid
    <3> DEFINE x == heap_borrows[k].src_base + o
               y == heap_borrows[k].dst_base + o
    <3>2. x \in SrcOf(k) /\ y \in DstOf(k)
      <4>1. /\ heap_borrows[k].dst_base \in Nat /\ heap_borrows[k].src_base \in Nat
            /\ heap_borrows[k].size \in Nat
        BY <1>2, LoanTypes
      <4> QED BY <1>2, <1>3, <4>1, LoanPlaces
    <3> HIDE DEF x, y
    <3>3. x \in RegionPages(Heap) /\ x < HeapEnd /\ y \in RegionPages(Stack) /\ IsAlias(y)
      BY <1>2, <1>3, <3>2, LoanPlaces DEF IsAlias
    <3>4. x \in Pages /\ x \notin dstR /\ page[x] # Unmapped
      BY <1>3, <1>9, <3>3, RegionsAre DEF HeapLaid
    <3>5. y \in Pages /\ y \notin dstR /\ page[y] # Unmapped
      BY <1>3, <1>15, <3>2, <3>3, RegionsAre DEF StackLaid
    <3>6. page'[x].pa = page[x].pa /\ page'[y].pa = page[y].pa
      BY <1>13, <3>4, <3>5
    <3> QED BY <3>1, <3>6 DEF x, y
  <2>3. ASSUME NEW j \in Loans'
        PROVE  /\ Heap.base <= heap_borrows'[j].src_base
               /\ heap_borrows'[j].src_base + heap_borrows'[j].size <= HeapEnd
               /\ Stack.base <= heap_borrows'[j].dst_base
               /\ heap_borrows'[j].dst_base + heap_borrows'[j].size <= Stack.base + Stack.size
               /\ \A k \in 0 .. (heap_borrows'[j].size - 1) :
                    /\ page'[heap_borrows'[j].dst_base + k].pa
                         = page'[heap_borrows'[j].src_base + k].pa
                    /\ ~InMainStack(heap_borrows'[j].dst_base + k)
    <3>1. PICK k \in Loans \ {i} : heap_borrows'[j] = heap_borrows[k]
      BY <1>5
    <3> QED BY <2>1, <2>2, <3>1
  <2>4. ASSUME NEW j1 \in Loans', NEW j2 \in Loans', j1 # j2
        PROVE  SrcOf(j1)' \cap SrcOf(j2)' = {} /\ DstOf(j1)' \cap DstOf(j2)' = {}
    <3>1. PICK k1 \in Loans \ {i}, k2 \in Loans \ {i} :
            k1 # k2 /\ heap_borrows'[j1] = heap_borrows[k1] /\ heap_borrows'[j2] = heap_borrows[k2]
      BY <1>5, <2>4
    <3>2. SrcOf(k1) \cap SrcOf(k2) = {} /\ DstOf(k1) \cap DstOf(k2) = {}
      BY <1>3, <3>1 DEF LoansLaid
    <3>3. /\ SrcOf(j1)' = SrcOf(k1) /\ SrcOf(j2)' = SrcOf(k2)
          /\ DstOf(j1)' = DstOf(k1) /\ DstOf(j2)' = DstOf(k2)
      BY <3>1 DEF SrcOf, DstOf
    <3> QED BY <3>2, <3>3
  <2>5. HeapEnd' = HeapEnd /\ main_thread_stack' = main_thread_stack
    BY <1>1 DEF HeapEnd
  <2> QED BY <2>3, <2>4, <2>5 DEF LoansLaid, InMainStack
<1>21. ASSUME NEW v, NEW w, AliasOf(w, v), w \notin dstR PROVE AliasOf(w, v)'
  <2>1. PICK k \in Loans :
          v \in SrcOf(k) /\ w = heap_borrows[k].dst_base + (v - heap_borrows[k].src_base)
    BY <1>21 DEF AliasOf
  <2>2. k # i
    <3> SUFFICES ASSUME k = i PROVE FALSE
      OBVIOUS
    <3>1. v \in srcR /\ w = dst + (v - src)
      BY <1>6, <2>1
    <3>2. v \in Int /\ src <= v /\ v < src + n
      BY <1>7, <3>1
    <3>3. w \in Int /\ dst <= w /\ w < dst + n
      <4>1. dst \in Nat /\ src \in Nat /\ n \in Nat
        BY <1>7
      <4> QED BY <3>1, <3>2, <4>1
    <3>4. w \in dstR
      BY <1>7, <3>3
    <3> QED BY <1>21, <3>4
  <2>3. PICK j \in Loans' : heap_borrows'[j] = heap_borrows[k]
    BY <1>5, <2>2
  <2> QED BY <2>1, <2>3 DEF AliasOf, SrcOf
<1>22. SharedByLoan'
  <2> SUFFICES ASSUME NEW a \in Pages, NEW b \in Pages, page'[a] # Unmapped, page'[b] # Unmapped,
                      a # b, page'[a].pa = page'[b].pa
               PROVE  AliasOf(b, a)' \/ AliasOf(a, b)'
    BY DEF SharedByLoan
  <2>1. a \notin dstR /\ b \notin dstR
    BY <1>10
  <2>2. page[a] # Unmapped /\ page[b] # Unmapped /\ page[a].pa = page[b].pa
    BY <1>13, <2>1
  <2>3. AliasOf(b, a) \/ AliasOf(a, b)
    BY <1>3, <2>2 DEF SharedByLoan
  <2> QED BY <1>21, <2>1, <2>3
<1>23. Backing' = Backing
  <2>1. \A pa : pa \in Backing' <=> \E v \in Pages : page'[v] # Unmapped /\ page'[v].pa = pa
    BY DEF Backing, MappedPages
  <2>2. ASSUME NEW v \in Pages, page'[v] # Unmapped PROVE page'[v].pa \in Backing
    <3>1. v \notin dstR
      BY <1>10, <2>2
    <3> QED BY <1>13, <2>2, <3>1, BackingIs
  <2>3. ASSUME NEW v \in Pages, page[v] # Unmapped PROVE page[v].pa \in Backing'
    <3>1. CASE v \notin dstR
      BY <1>13, <2>1, <2>3, <3>1
    <3>2. CASE v \in dstR
      <4> DEFINE k == v - dst
      <4>0. dst \in Nat /\ src \in Nat /\ n \in Nat /\ v \in Int /\ dst <= v /\ v < dst + n
        BY <1>7, <3>2
      <4>1. k \in 0 .. (n - 1) /\ v = dst + k /\ src + k \in Int /\ src <= src + k /\ src + k < src + n
        BY <4>0
      <4> HIDE DEF k
      <4>2. src + k \in srcR
        BY <1>7, <4>1
      <4>3. page[v].pa = page[src + k].pa
        BY <1>3, <1>6, <4>1 DEF LoansLaid
      <4>4. page'[src + k] # Unmapped /\ page'[src + k].pa = page[v].pa /\ src + k \in Pages
        BY <1>8, <1>11, <4>2, <4>3
      <4> QED BY <2>1, <4>4
    <3> QED BY <3>1, <3>2
  <2> QED BY <2>1, <2>2, <2>3, BackingIs
<1>24. HeldByMap' /\ FP!IInv'
  <2>1. held' = held
    BY <1>1 DEF framesVars
  <2> QED BY <1>1, <1>2, <1>23, <2>1, FramesUnchanged DEF HeldByMap
<1>25. MemTypes' /\ HistoryTypes' /\ StackKnown' /\ (heap_size % Granule = 0)'
  <2>1. Len(heap_borrows') <= MaxLoans
    <3>1. Len(heap_borrows) <= MaxLoans /\ Len(heap_borrows) \in Nat
      BY <1>2, LoanTypes DEF MemTypes
    <3>2. Len(heap_borrows') \in Nat
      BY <1>5
    <3> QED BY <1>5, <3>1, <3>2, Ground
  <2>2. MemTypes'
    BY <1>1, <1>2, <1>5, <1>12, <2>1 DEF MemTypes
  <2>3. HistoryTypes' /\ StackKnown'
    BY <1>1, <1>2 DEF HistoryTypes, StackKnown, Results
  <2> QED BY <1>1, <1>2, <2>2, <2>3
<1>26. call' \in Calls /\ call'.at = "running" /\ main_thread_stack' # NoRegion
  BY <1>1, <1>2 DEF At
<1> QED BY <1>17, <1>18, <1>19, <1>20, <1>22, <1>24, <1>25, <1>26, ToRunning DEF Whole, Laid

-----------------------------------------------------------------------------
(* Every step keeps the invariant. *)

LEMMA StutterKeeps ==
  ASSUME IInv, UNCHANGED vars
  PROVE  IInv'
<1>1. UNCHANGED <<framesVars, page, processVars, call, reply, lost, stain>>
  BY DEF vars
<1>2. FP!IInv'
  BY <1>1, FramesUnchanged, IInvParts
<1>3. UNCHANGED <<used, free_run_count, free_runs, held, result, page, module_count,
                  main_thread_stack, heap_size, heap_borrows, tls, call, reply, lost, stain>>
  BY <1>1 DEF framesVars, processVars
<1>4. HistoryTypes' /\ call'.at = call.at /\ call' = call /\ call' \in Calls
  BY <1>3, IInvParts DEF HistoryTypes
<1>5. /\ MemTypes => MemTypes'
      /\ StackKnown => StackKnown'
      /\ Laid => Laid'
      /\ Whole => Whole'
      /\ heap_size % Granule = 0 => (heap_size % Granule = 0)'
  BY <1>1, MemoryKept
<1>6. HeldByMap => HeldByMap'
  BY <1>3 DEF HeldByMap, Backing, MappedPages
<1>7. HeldGrowing => HeldGrowing'
  BY <1>3 DEF HeldGrowing, Backing, MappedPages, FreshRun
<1>8. HeldShrinking => HeldShrinking'
  BY <1>3 DEF HeldShrinking, Backing, MappedPages, Freed, Frame
<1>9. GrowingWell => GrowingWell'
  BY <1>3 DEF GrowingWell, SizeAccepted
<1>10. ShrinkingWell => ShrinkingWell'
  BY <1>3 DEF ShrinkingWell, SizeAccepted, HeapEnd, IsLent, Loans, SrcOf
<1>11. LeavingWell => LeavingWell'
  BY <1>3 DEF LeavingWell, HeapEnd
<1>12. BootRecorded => BootRecorded'
  BY <1>3 DEF BootRecorded
<1>13. Departing => Departing'
  BY <1>3 DEF Departing, HeapEnd, TlsEnd
<1>14. NoProcess => NoProcess'
  BY <1>3 DEF NoProcess
<1>15. main_thread_stack # NoRegion => main_thread_stack' # NoRegion
  BY <1>3
<1>16. /\ MemTypes /\ StackKnown /\ heap_size % Granule = 0
       /\ At("running") => Whole /\ HeldByMap /\ main_thread_stack # NoRegion
       /\ At("growing") => Whole /\ GrowingWell /\ HeldGrowing /\ main_thread_stack # NoRegion
       /\ At("shrinking") => Whole /\ ShrinkingWell /\ HeldShrinking /\ main_thread_stack # NoRegion
       /\ At("booting") => Whole /\ BootRecorded /\ HeldByMap
       /\ At("unwinding") => Laid /\ BootRecorded
       /\ At("leaving") => Departing /\ LeavingWell
       /\ At("unloaded") => Whole /\ NoProcess
  BY IInvParts
<1>17. \/ At("running") \/ At("growing") \/ At("shrinking") \/ At("booting") \/ At("unwinding")
       \/ At("leaving") \/ At("unloaded") \/ At("aborted")
  BY IInvParts, TypesSplit DEF At
<1>18. CASE At("running")
  BY <1>2, <1>4, <1>5, <1>6, <1>15, <1>16, <1>18, ToRunning DEF At
<1>19. CASE At("growing")
  BY <1>2, <1>4, <1>5, <1>7, <1>9, <1>15, <1>16, <1>19, ToGrowing DEF At
<1>20. CASE At("shrinking")
  BY <1>2, <1>4, <1>5, <1>8, <1>10, <1>15, <1>16, <1>20, ToShrinking DEF At
<1>21. CASE At("booting")
  BY <1>2, <1>4, <1>5, <1>6, <1>12, <1>16, <1>21, ToBooting DEF At
<1>22. CASE At("unwinding")
  BY <1>2, <1>4, <1>5, <1>12, <1>16, <1>22, ToUnwinding DEF At
<1>23. CASE At("leaving")
  BY <1>2, <1>4, <1>5, <1>11, <1>13, <1>16, <1>23, ToLeaving DEF At
<1>24. CASE At("unloaded")
  <2>1. call' = Inside("unloaded")
    BY <1>4, <1>24, <1>16 DEF At, Inside, Calls
  <2> QED BY <1>2, <1>4, <1>14, <1>16, <1>24, <2>1, ToUnloaded
<1>25. CASE At("aborted")
  <2>1. Whole
    BY <1>25 DEF IInv, Whole, At, TypeOK, MemTypes
  <2> QED BY <1>2, <1>4, <1>5, <1>25, <2>1, ToAborted DEF At
<1> QED BY <1>17, <1>18, <1>19, <1>20, <1>21, <1>22, <1>23, <1>24, <1>25

LEMMA NextKeeps ==
  ASSUME IInv, [Next]_vars
  PROVE  IInv'
<1>1. CASE LoadProgram
  BY <1>1, LoadKeeps
<1>2. CASE BootModule \/ BootModuleCorrupt
  BY <1>2, BootModulesKeep
<1>3. CASE BootStack
  BY <1>3, BootStackKeeps
<1>4. CASE BootTls
  BY <1>4, BootTlsKeeps
<1>5. CASE BootFails
  BY <1>5, BootFailsKeeps
<1>6. CASE BootUnwinds
  BY <1>6, UnwindsKeeps
<1>7. ASSUME NEW requested \in Sizes,
             \/ SetHeapSizeRefused(requested) \/ SetHeapSizeSame(requested)
             \/ GrowNoMemory(requested) \/ GrowAllocates(requested)
             \/ ShrinkOverLoan(requested) \/ ShrinkWhole(requested) \/ ShrinkByPage(requested)
      PROVE  IInv'
  <2>1. CASE \/ SetHeapSizeRefused(requested) \/ SetHeapSizeSame(requested)
             \/ GrowNoMemory(requested) \/ ShrinkOverLoan(requested)
    BY <2>1, RefusedKeeps
  <2>2. CASE GrowAllocates(requested)
    BY <2>2, GrowAllocatesKeeps
  <2>3. CASE ShrinkWhole(requested)
    BY <2>3, ShrinkWholeKeeps
  <2>4. CASE ShrinkByPage(requested)
    BY <2>4, ShrinkByPageKeeps
  <2> QED BY <1>7, <2>1, <2>2, <2>3, <2>4
<1>8. CASE GrowMaps
  BY <1>8, GrowMapsKeeps
<1>9. CASE GrowRollsBack
  BY <1>9, GrowRollsBackKeeps
<1>10. CASE ShrinkPage
  BY <1>10, ShrinkPageKeeps
<1>11. CASE ShrinkEnds
  BY <1>11, ShrinkEndsKeeps
<1>12. CASE HeapFreeAborts
  BY <1>12, AbortKeeps
<1>13. ASSUME NEW dst \in PageArgs, NEW src \in PageArgs, NEW n \in 0 .. Heap.size,
              \/ MapMemoryRefused(dst, src, n) \/ MapMemory(dst, src, n)
              \/ MapMemoryRollsBack(dst, src, n)
              \/ UnmapMemoryRefused(dst, src, n) \/ UnmapMemory(dst, src, n)
       PROVE  IInv'
  <2>1. CASE MapMemoryRefused(dst, src, n) \/ UnmapMemoryRefused(dst, src, n)
    BY <2>1, RefusedKeeps
  <2>2. CASE MapMemory(dst, src, n)
    BY <2>2, LendKeeps
  <2>3. CASE MapMemoryRollsBack(dst, src, n)
    BY <2>3, RollsBackKeeps
  <2>4. CASE UnmapMemory(dst, src, n)
    BY <2>4, ReturnKeeps
  <2> QED BY <1>13, <2>1, <2>2, <2>3, <2>4
<1>14. CASE (\E v \in Pages : GuestStores(v)) \/ (\E out, v \in PageArgs : QueryMemory(out, v))
  BY <1>14, StoresKeep
<1>15. CASE ThreadOnMappedPage
            \/ \E p \in 1 .. MaxTlsPages : \E b \in 0 .. (BlocksPerPage - 1) : ThreadDestroy(p, b)
  BY <1>15, ThreadBlocksKeep
<1>16. CASE ThreadOnNewPage
  BY <1>16, NewPageKeeps
<1>17. CASE ThreadLosesPage
  BY <1>17, LosesPageKeeps
<1>18. CASE ThreadRefused
  BY <1>18, RefusedKeeps
<1>19. CASE Unload
  BY <1>19, UnloadKeeps
<1>20. CASE LeaveFreesWhole \/ LeaveFreesPage
  BY <1>20, LeaveFreesKeep
<1>21. CASE LeaveEnds
  BY <1>21, LeaveEndsKeeps
<1>22. CASE UNCHANGED vars
  BY <1>22, StutterKeeps
<1> QED BY <1>1, <1>2, <1>3, <1>4, <1>5, <1>6, <1>7, <1>8, <1>9, <1>10, <1>11, <1>12, <1>13,
           <1>14, <1>15, <1>16, <1>17, <1>18, <1>19, <1>20, <1>21, <1>22 DEF Next

-----------------------------------------------------------------------------
(* In every reachable state each region of guest memory is laid out as the *)
(* process record says, and the frames are held by whom the handler in     *)
(* progress says: the inductive invariant.                                 *)
THEOREM InvariantHolds == Spec => []IInv
<1>1. IInv /\ [Next]_vars => IInv'
  BY NextKeeps
<1> QED BY <1>1, InitHolds, PTL DEF Spec

(* The guest never reaches a frame through two accessible addresses, in    *)
(* any SVC, roll-back or teardown of process.c and svc_memory.c.           *)
THEOREM OneView == Spec => []OneAccessibleView
  BY InvariantHolds, Views, PTL

(* Between calls the allocator has handed out exactly the mapped frames,   *)
(* and the ones map_new_page of tls.c dropped.                             *)
THEOREM FramesAreAccounted == Spec => []FramesAccounted
  BY InvariantHolds, Accounts, PTL

(* svcMapMemory and svcUnmapMemory keep the loan table equal to what the   *)
(* page map shows of it.                                                   *)
THEOREM LoanTableIsExact == Spec => []LoanTableExact
  BY InvariantHolds, LoansTold, PTL

(* emulator_unload_program and a failed bootstrap leave nothing mapped and *)
(* no frame handed out.                                                    *)
THEOREM UnloadIsClean == Spec => []UnloadedIsClean
  BY InvariantHolds, Clean, PTL

(* classify_type of svc_memory.c, which reads the loan table, tells of     *)
(* each heap and stack address what the page map makes of it.              *)
THEOREM QueryTellsTheMap == Spec => []QueryTypeMatchesMap
  BY InvariantHolds, TypesTold, PTL

-----------------------------------------------------------------------------
(* The asserts of the frees. *)

(* The allocator does not refuse a run its caller holds. *)
LEMMA HeldRunIsTaken ==
  ASSUME FP!IInv, NEW pa \in Nat, NEW n \in Nat, n > 0, FlatRange(pa, n) \subseteq held,
         FreeFails(pa, n)
  PROVE  free_run_count' = MaxFreeRuns
<1> USE Ground
<1>1. /\ used \in 0 .. PageCount /\ free_run_count \in 0 .. MaxFreeRuns
      /\ held \subseteq FP!Cells /\ \A p \in FP!Cells : p \in held => p < used
  BY DEF FP!IInv, FP!TypeOK, FP!Cells, FP!Accounted
<1>2. pa \in FlatRange(pa, n) /\ pa + (n - 1) \in FlatRange(pa, n)
  BY RangeIs
<1>3. pa < used /\ pa + (n - 1) < used
  BY <1>1, <1>2
<1>4. Frames!WasHandedOut(pa, n)
  BY <1>1, <1>3 DEF Frames!WasHandedOut
<1>5. Frames!FreeListFull(pa, n)
  BY <1>4 DEF FreeFails, Frames!FreeRejected
<1>6. free_run_count >= MaxFreeRuns /\ free_run_count' = free_run_count
  BY <1>5 DEF Frames!FreeListFull
<1> QED BY <1>1, <1>6

(* The heap pages behind a shrink are mapped, readable, and behind each is *)
(* a frame of its own.                                                     *)
LEMMA TailIsOwn ==
  ASSUME IInv, At("running") \/ At("shrinking"),
         NEW v \in Int, Heap.base <= v, v < HeapEnd, ~IsLent(v)
  PROVE  /\ v \in Pages /\ page[v] # Unmapped /\ page[v].pa \in Nat
         /\ ReadableRun(v, 1) /\ Frame(v) \in Backing
         /\ \A w \in Int : Heap.base <= w /\ w < HeapEnd /\ w # v /\ ~IsLent(w) =>
              Frame(w) # Frame(v)
<1>1. v \in Pages /\ v \in RegionPages(Heap)
  BY HeapPages
<1>2. HeapLaid /\ SharedByLoan /\ page \in [Pages -> Pte]
  BY IInvParts DEF Whole, Laid, MemTypes
<1>3. page[v] # Unmapped /\ page[v].perms = RW
  BY <1>1, <1>2 DEF HeapLaid
<1>4. page[v].pa \in Nat
  BY <1>1, <1>2, <1>3, PteFacts, Ground
<1>5. ReadableRun(v, 1)
  <2>1. \A w \in FlatRange(v, 1) : w = v
    BY RangeIs
  <2>2. page[v].pa = page[v].pa + (v - v)
    BY <1>4
  <2> QED BY <1>3, <2>1, <2>2 DEF ReadableRun, RW
<1>6. Frame(v) \in Backing
  BY <1>1, <1>3, BackingIs DEF Frame
<1>7. ASSUME NEW w \in Int, Heap.base <= w, w < HeapEnd, w # v, ~IsLent(w)
      PROVE  Frame(w) # Frame(v)
  <2>1. w \in Pages /\ w \in RegionPages(Heap)
    BY <1>7, HeapPages
  <2>2. page[w] # Unmapped
    BY <1>2, <1>7, <2>1 DEF HeapLaid
  <2>3. ~AliasOf(w, v) /\ ~AliasOf(v, w)
    BY <1>7 DEF AliasOf, IsLent
  <2> QED BY <1>1, <1>2, <1>3, <1>7, <2>1, <2>2, <2>3 DEF SharedByLoan, Frame
<1> QED BY <1>1, <1>3, <1>4, <1>5, <1>6, <1>7

LEMMA AbortsWhenFull ==
  ASSUME IInv, HeapFreeAborts
  PROVE  free_run_count' = MaxFreeRuns
<1>1. FP!IInv
  BY IInvParts
<1>2. CASE At("growing") /\ FreeFails(call.pa, call.requested - heap_size)
  <2>1. call.pa \in Nat /\ call.requested - heap_size \in Nat /\ call.requested - heap_size > 0
    BY <1>2, GrowingNumbers
  <2>2. FlatRange(call.pa, call.requested - heap_size) \subseteq held
    BY <1>2, IInvParts DEF HeldGrowing, FreshRun
  <2> QED BY <1>1, <1>2, <2>1, <2>2, HeldRunIsTaken
<1>3. ASSUME NEW requested \in 0 .. Heap.size, ShrinkMayGo(requested),
             ReadableRun(Heap.base + requested, heap_size - requested),
             FreeFails(page[Heap.base + requested].pa, heap_size - requested)
      PROVE  free_run_count' = MaxFreeRuns
  <2> DEFINE v == Heap.base + requested
             n == heap_size - requested
  <2>1. requested \in Nat /\ Heap.base \in Nat
    BY Ground
  <2>2. /\ At("running") /\ n \in Nat /\ n > 0 /\ v \in Nat /\ Heap.base <= v /\ v < HeapEnd
        /\ FlatRange(v, n) = v .. (HeapEnd - 1) /\ HeapEnd \in Nat
        /\ \A w \in v .. (HeapEnd - 1) : ~IsLent(w)
    <3>1. /\ At("running") /\ n \in Nat /\ n > 0 /\ v \in Nat /\ v + n = HeapEnd /\ HeapEnd \in Nat
          /\ FlatRange(v, n) = v .. (HeapEnd - 1)
          /\ \A w \in v .. (HeapEnd - 1) : ~IsLent(w)
      BY <1>3, <2>1, ShrinkNumbers
    <3>2. Heap.base <= v
      BY <2>1
    <3> HIDE DEF v, n
    <3>3. v < HeapEnd
      BY <3>1
    <3> QED BY <3>1, <3>2, <3>3
  <2>3. ReadableRun(v, n) /\ FreeFails(page[v].pa, n)
    BY <1>3
  <2> HIDE DEF v, n
  <2>4. \A w \in FlatRange(v, n) : w \in Int /\ Heap.base <= w /\ w < HeapEnd /\ ~IsLent(w)
    BY <2>2, Ground
  <2>5. page[v].pa \in Nat
    <3>1. v \in FlatRange(v, n)
      BY <2>2, RangeIs
    <3> QED BY <2>2, <2>4, <3>1, TailIsOwn
  <2>6. \A w \in FlatRange(v, n) : Frame(w) \in Backing
    BY <2>2, <2>4, TailIsOwn
  <2>7. FlatRange(page[v].pa, n) \subseteq Backing
    <3>1. PICK run, pages : /\ run = FlatRange(page[v].pa, n) /\ pages = FlatRange(v, n)
                            /\ run = {Frame(w) : w \in pages}
      <4>1. v \in Nat /\ n \in Nat /\ page[v].pa \in Nat /\ ReadableRun(v, n)
        BY <2>2, <2>3, <2>5
      <4>2. FlatRange(page[v].pa, n) = {Frame(w) : w \in FlatRange(v, n)}
        BY <4>1, RunOfFrames
      <4> QED BY <4>2, Zenon
    <3>2. \A w \in pages : Frame(w) \in Backing
      BY <2>6, <3>1
    <3>3. run \subseteq Backing
      BY <3>1, <3>2, Zenon
    <3> QED BY <3>1, <3>3
  <2>8. FlatRange(page[v].pa, n) \subseteq held
    BY <2>2, <2>7, IInvParts DEF HeldByMap
  <2> QED BY <1>1, <2>2, <2>3, <2>5, <2>8, HeldRunIsTaken
<1>4. CASE /\ At("shrinking") /\ call.next < HeapEnd
           /\ IF ReadableRun(call.next, 1)
              THEN FreeFails(page[call.next].pa, 1) ELSE UNCHANGED framesVars
  <2> DEFINE v == call.next
  <2>1. /\ v \in Int /\ Heap.base <= v /\ v < HeapEnd /\ HeapEnd \in Nat
        /\ call.requested \in Nat /\ Heap.base + call.requested <= v
    BY <1>4, ShrinkingNumbers, Ground
  <2>2. /\ HeldShrinking
        /\ \A w \in (Heap.base + call.requested) .. (HeapEnd - 1) : ~IsLent(w)
    BY <1>4, IInvParts DEF ShrinkingWell
  <2>3. ~IsLent(v)
    BY <2>1, <2>2, Ground
  <2>4. page[v].pa \in Nat /\ ReadableRun(v, 1) /\ Frame(v) \in Backing
    BY <1>4, <2>1, <2>3, TailIsOwn
  <2>5. Frame(v) \notin Freed
    <3>1. ASSUME NEW w \in (Heap.base + call.requested) .. (v - 1) PROVE Frame(w) # Frame(v)
      <4>1. w \in Int /\ Heap.base <= w /\ w < HeapEnd /\ w # v
            /\ w \in (Heap.base + call.requested) .. (HeapEnd - 1)
        BY <2>1, Ground
      <4> QED BY <1>4, <2>1, <2>2, <2>3, <4>1, TailIsOwn
    <3> QED BY <3>1 DEF Freed
  <2>6. page[v].pa \in held
    BY <2>2, <2>4, <2>5 DEF HeldShrinking, Frame
  <2>7. FlatRange(page[v].pa, 1) \subseteq held
    BY <2>4, <2>6, RangeIs
  <2> QED BY <1>1, <1>4, <2>4, <2>7, HeldRunIsTaken
<1> QED BY <1>2, <1>3, <1>4 DEF HeapFreeAborts

(* Only the failed assert ends in an abort, and nothing follows it. *)
LEMMA OnlyAssertsAbort ==
  ASSUME IInv, [Next]_vars, ~HeapFreeAborts, At("aborted")'
  PROVE  UNCHANGED vars
<1> USE DEF At, Inside
<1>1. call'.at = "aborted" /\ call \in Calls
  BY IInvParts
<1>2. CASE LoadProgram
  BY <1>1, <1>2 DEF LoadProgram
<1>3. CASE BootModule \/ BootStack \/ BootModuleCorrupt
  <2>1. call.at = "booting"
    BY <1>3 DEF BootModule, BootStack, BootModuleCorrupt
  <2>2. call = [at |-> "booting", ranges |-> call.ranges]
    BY <1>1, <2>1, CallShapes
  <2>3. \A r : Recorded(r) = [at |-> "booting", ranges |-> call.ranges \cup {r}]
    BY <2>2 DEF Recorded
  <2>4. call'.at \in {"booting", "unwinding"}
    BY <1>3, <2>3 DEF BootModule, BootStack, BootModuleCorrupt
  <2> QED BY <1>1, <2>4
<1>4. CASE BootFails
  <2>1. call = [at |-> "booting", ranges |-> call.ranges] /\ call' = [call EXCEPT !.at = "unwinding"]
    BY <1>1, <1>4, CallShapes DEF BootFails
  <2> QED BY <1>1, <2>1
<1>5. CASE BootTls \/ BootUnwinds \/ GrowMaps \/ GrowRollsBack
  BY <1>1, <1>5 DEF BootTls, BootUnwinds, GrowMaps, GrowRollsBack
<1>6. ASSUME NEW requested \in Sizes,
             \/ SetHeapSizeRefused(requested) \/ SetHeapSizeSame(requested)
             \/ GrowNoMemory(requested) \/ ShrinkOverLoan(requested)
      PROVE  FALSE
  BY <1>1, <1>6 DEF SetHeapSizeRefused, SetHeapSizeSame, GrowNoMemory, ShrinkOverLoan, Shrinks
<1>7. ASSUME NEW requested \in Sizes,
             GrowAllocates(requested) \/ ShrinkWhole(requested) \/ ShrinkByPage(requested)
      PROVE  FALSE
  BY <1>1, <1>7 DEF GrowAllocates, ShrinkWhole, ShrinkByPage, HeapCutTo
<1>8. CASE ShrinkPage
  <2>1. call.at = "shrinking" /\ call' = [call EXCEPT !.next = @ + 1]
    BY <1>8 DEF ShrinkPage
  <2>2. call = [at |-> "shrinking", requested |-> call.requested, next |-> call.next,
                runs |-> call.runs]
    BY <1>1, <2>1, CallShapes
  <2>3. call'.at = "shrinking"
    BY <2>1, <2>2
  <2> QED BY <1>1, <2>3
<1>9. CASE ShrinkEnds
  BY <1>1, <1>9 DEF ShrinkEnds, HeapCutTo
<1>10. ASSUME NEW dst \in PageArgs, NEW src \in PageArgs, NEW n \in 0 .. Heap.size,
              \/ MapMemoryRefused(dst, src, n) \/ MapMemory(dst, src, n)
              \/ MapMemoryRollsBack(dst, src, n)
              \/ UnmapMemoryRefused(dst, src, n) \/ UnmapMemory(dst, src, n)
       PROVE  FALSE
  BY <1>1, <1>10 DEF MapMemoryRefused, MapMemory, MapMemoryRollsBack, UnmapMemoryRefused, UnmapMemory
<1>11. CASE (\E v \in Pages : GuestStores(v)) \/ (\E out, v \in PageArgs : QueryMemory(out, v))
  BY <1>1, <1>11 DEF GuestStores, QueryMemory
<1>12. CASE \/ ThreadOnMappedPage \/ ThreadOnNewPage \/ ThreadLosesPage \/ ThreadRefused
            \/ \E p \in 1 .. MaxTlsPages : \E b \in 0 .. (BlocksPerPage - 1) : ThreadDestroy(p, b)
  BY <1>1, <1>12 DEF ThreadOnMappedPage, ThreadOnNewPage, ThreadLosesPage, ThreadRefused,
                     ThreadDestroy
<1>13. CASE Unload \/ LeaveEnds
  BY <1>1, <1>13 DEF Unload, LeaveEnds
<1>14. CASE LeaveFreesWhole \/ LeaveFreesPage
  <2>1. call.at = "leaving"
    BY <1>14 DEF LeaveFreesWhole, LeaveFreesPage
  <2>2. call = [at |-> "leaving", next |-> call.next]
    BY <1>1, <2>1, CallShapes
  <2>3. call'.at = "leaving"
    BY <1>14, <2>2 DEF LeaveFreesWhole, LeaveFreesPage
  <2> QED BY <1>1, <2>3
<1> QED BY <1>2, <1>3, <1>4, <1>5, <1>6, <1>7, <1>8, <1>9, <1>10, <1>11, <1>12, <1>13, <1>14 DEF Next

(* No page a shrink frees is unreadable or refused, as the comment before  *)
(* free_and_unmap_heap_range in svc_memory.c says: only a full freelist    *)
(* ends the emulator there.                                                *)
THEOREM AssertsAreJustified == Spec => []AssertsOnlyOnFullFreelist
<1>1. Init => AssertsOnlyOnFullFreelist
  BY DEF Init, AssertsOnlyOnFullFreelist, At, Inside
<1>2. ASSUME IInv, AssertsOnlyOnFullFreelist, [Next]_vars
      PROVE  AssertsOnlyOnFullFreelist'
  <2>1. CASE HeapFreeAborts
    BY <1>2, <2>1, AbortsWhenFull DEF AssertsOnlyOnFullFreelist
  <2>2. CASE ~HeapFreeAborts /\ At("aborted")'
    <3>1. UNCHANGED vars
      BY <1>2, <2>2, OnlyAssertsAbort
    <3> QED BY <1>2, <3>1 DEF AssertsOnlyOnFullFreelist, At, vars, framesVars
  <2>3. CASE ~At("aborted")'
    BY <2>3 DEF AssertsOnlyOnFullFreelist
  <2> QED BY <2>1, <2>2, <2>3
<1> QED BY <1>1, <1>2, InvariantHolds, PTL DEF Spec

-----------------------------------------------------------------------------
(* Fresh heap. *)

LEMMA HeapIsPrefix ==
  IInv => \A v \in RegionPages(Heap) : page[v] # Unmapped <=> v < HeapEnd
<1> SUFFICES ASSUME IInv, NEW v \in RegionPages(Heap)
             PROVE  page[v] # Unmapped <=> v < HeapEnd
  OBVIOUS
<1>1. v \in Pages /\ v \in Int /\ Heap.base <= v
  BY RegionsAre, PagesAre
<1>2. CASE At("leaving")
  <2>1. Departing
    BY <1>2, IInvParts
  <2>2. ~(TlsIo.base <= v /\ v < TlsEnd)
    <3>1. ~(TlsIo.base <= v)
      <4>1. v \in Int /\ v < Heap.base + Heap.size
        BY <1>1, RegionsAre
      <4>2. Stack.base \in Nat /\ Stack.size \in Nat /\ Heap.base + Heap.size \in Nat
            /\ TlsIo.base \in Nat
        BY Ground
      <4> QED BY <4>1, <4>2, RegionOrder
    <3> QED BY <3>1
  <2> QED BY <1>1, <2>1, <2>2 DEF Departing
<1>3. CASE ~At("leaving")
  BY <1>3 DEF IInv, Laid, HeapLaid
<1> QED BY <1>2, <1>3

LEMMA HeapIsPrefixNext ==
  IInv' => \A v \in RegionPages(Heap) : page'[v] # Unmapped <=> v < HeapEnd'
<1>1. IInv' => (\A v \in RegionPages(Heap) : page[v] # Unmapped <=> v < HeapEnd)'
  BY HeapIsPrefix, PTL
<1> QED BY <1>1 DEF RegionPages

(* Only GrowMaps makes the heap longer. *)
LEMMA OnlyGrowthGrows ==
  ASSUME IInv, [Next]_vars
  PROVE  GrowMaps \/ heap_size' <= heap_size
<1>0. heap_size \in Nat
  BY IInvParts, LoanTypes
<1>1. heap_size' = heap_size => heap_size' <= heap_size
  BY <1>0
<1>2. Cleared => heap_size' <= heap_size
  BY <1>0 DEF Cleared
<1>3. ASSUME NEW requested \in Nat, requested < heap_size, HeapCutTo(requested)
      PROVE  heap_size' <= heap_size
  BY <1>0, <1>3 DEF HeapCutTo
<1>4. ASSUME NEW requested \in Sizes, ShrinkWhole(requested) PROVE heap_size' <= heap_size
  <2>1. requested \in Nat
    BY Ground DEF Sizes
  <2>2. requested < heap_size /\ HeapCutTo(requested)
    BY <1>4 DEF ShrinkWhole, ShrinkMayGo, Shrinks
  <2> QED BY <1>3, <2>1, <2>2
<1>5. CASE ShrinkEnds
  <2>1. At("shrinking") /\ HeapCutTo(call.requested)
    BY <1>5 DEF ShrinkEnds
  <2>2. call.requested \in Nat /\ call.requested < heap_size
    BY <2>1, ShrinkingNumbers
  <2> QED BY <1>3, <2>1, <2>2
<1>6. CASE BootUnwinds \/ LeaveEnds
  BY <1>2, <1>6 DEF BootUnwinds, LeaveEnds
<1>7. CASE LoadProgram \/ BootModule \/ BootModuleCorrupt \/ BootStack \/ BootTls \/ BootFails
  BY <1>1, <1>7 DEF LoadProgram, BootModule, BootModuleCorrupt, BootStack, BootTls, BootFails,
                    processVars
<1>8. ASSUME NEW requested \in Sizes,
             \/ SetHeapSizeRefused(requested) \/ SetHeapSizeSame(requested)
             \/ GrowNoMemory(requested) \/ GrowAllocates(requested)
             \/ ShrinkOverLoan(requested) \/ ShrinkByPage(requested)
      PROVE  heap_size' = heap_size
  BY <1>8 DEF SetHeapSizeRefused, SetHeapSizeSame, GrowNoMemory, GrowAllocates, ShrinkOverLoan,
              ShrinkByPage, processVars
<1>9. CASE GrowRollsBack \/ ShrinkPage \/ HeapFreeAborts
  BY <1>1, <1>9 DEF GrowRollsBack, ShrinkPage, HeapFreeAborts, processVars
<1>10. ASSUME NEW dst \in PageArgs, NEW src \in PageArgs, NEW n \in 0 .. Heap.size,
              \/ MapMemoryRefused(dst, src, n) \/ MapMemory(dst, src, n)
              \/ MapMemoryRollsBack(dst, src, n)
              \/ UnmapMemoryRefused(dst, src, n) \/ UnmapMemory(dst, src, n)
       PROVE  heap_size' = heap_size
  BY <1>10 DEF MapMemoryRefused, MapMemory, MapMemoryRollsBack, UnmapMemoryRefused, UnmapMemory,
               processVars
<1>11. CASE (\E v \in Pages : GuestStores(v)) \/ (\E out, v \in PageArgs : QueryMemory(out, v))
  BY <1>1, <1>11 DEF GuestStores, QueryMemory, processVars
<1>12. CASE \/ ThreadOnMappedPage \/ ThreadOnNewPage \/ ThreadLosesPage \/ ThreadRefused
            \/ \E p \in 1 .. MaxTlsPages : \E b \in 0 .. (BlocksPerPage - 1) : ThreadDestroy(p, b)
  BY <1>1, <1>12 DEF ThreadOnMappedPage, ThreadOnNewPage, ThreadLosesPage, ThreadRefused,
                     ThreadDestroy, processVars
<1>13. CASE Unload \/ LeaveFreesWhole \/ LeaveFreesPage \/ UNCHANGED vars
  BY <1>1, <1>13 DEF Unload, LeaveFreesWhole, LeaveFreesPage, processVars, vars
<1> QED BY <1>1, <1>4, <1>5, <1>6, <1>7, <1>8, <1>9, <1>10, <1>11, <1>12, <1>13 DEF Next

LEMMA GrowthIsZeroed ==
  ASSUME IInv, IInv', GrowMaps, NEW v \in RegionPages(Heap),
         page[v] = Unmapped, page'[v] # Unmapped
  PROVE  page'[v].pa # stain'
<1> DEFINE n == call.requested - heap_size
<1>1. /\ At("growing") /\ page' = Mapped(page, HeapEnd, n, call.pa, RW)
      /\ stain' = Zeroed(call.pa, n)
  BY DEF GrowMaps
<1>2. /\ call.pa \in Nat /\ n \in Nat /\ HeapEnd \in Nat
  BY <1>1, GrowingNumbers
<1> HIDE DEF n
<1>3. v \in Pages
  BY RegionsAre
<1>4. v \in FlatRange(HeapEnd, n) /\ page'[v].pa = call.pa + (v - HeapEnd)
  BY <1>1, <1>3 DEF Mapped
<1>5. v \in Int /\ HeapEnd <= v /\ v < HeapEnd + n
  BY <1>2, <1>4, RangeIs
<1> DEFINE pa == call.pa + (v - HeapEnd)
<1>6. pa \in Nat /\ call.pa <= pa /\ pa < call.pa + n
  BY <1>2, <1>5
<1> HIDE DEF pa
<1>7. pa \in FlatRange(call.pa, n) /\ pa # NoPage
  BY <1>2, <1>6, RangeIs DEF NoPage
<1>8. stain' = NoPage \/ stain' \notin FlatRange(call.pa, n)
  BY <1>1 DEF Zeroed
<1> QED BY <1>4, <1>7, <1>8 DEF pa

(* No frame that svcSetHeapSize or any other step gives the heap still     *)
(* holds what was written to it before, in this program or in one that was *)
(* unloaded or failed to load: only growth maps heap, and growth zeroes    *)
(* what it maps.                                                           *)
THEOREM FreshHeapStartsZero == Spec => FreshHeapIsZero
<1> DEFINE Fresh == \A v \in RegionPages(Heap) :
                      page[v] = Unmapped /\ page'[v] # Unmapped => page'[v].pa # stain'
<1>1. ASSUME IInv, IInv', [Next]_vars PROVE Fresh
  <2> SUFFICES ASSUME NEW v \in RegionPages(Heap), page[v] = Unmapped, page'[v] # Unmapped
               PROVE  page'[v].pa # stain'
    OBVIOUS
  <2>1. CASE GrowMaps
    BY <1>1, <2>1, GrowthIsZeroed
  <2>2. CASE heap_size' <= heap_size
    <3>1. v \in Int /\ ~(v < HeapEnd) /\ v < HeapEnd'
      BY <1>1, HeapIsPrefix, HeapIsPrefixNext, RegionsAre, PagesAre
    <3>2. heap_size \in Nat /\ heap_size' \in Nat /\ HeapEnd = Heap.base + heap_size
          /\ HeapEnd' = Heap.base + heap_size'
      BY <1>1, LoanTypes, Ground DEF HeapEnd, IInv, TypeOK
    <3> QED BY <2>2, <3>1, <3>2, Ground
  <2> QED BY <1>1, <2>1, <2>2, OnlyGrowthGrows
<1>2. Fresh => [Fresh]_vars
  OBVIOUS
<1> HIDE DEF Fresh
<1>3. Spec => [][Fresh]_vars
  BY <1>1, InvariantHolds, PTL DEF Spec
<1> QED BY <1>3 DEF Fresh, FreshHeapIsZero

-----------------------------------------------------------------------------
(* What the guest sees: the state of GuestMemory. *)

LoanSet == IF At("leaving") THEN {} ELSE {heap_borrows[i] : i \in DOMAIN heap_borrows}
Running == main_thread_stack # NoRegion /\ ~At("leaving")
Access  == [v \in RegionPages(Heap) \cup RegionPages(Stack) |-> page[v].perms]

LEMMA LoanSetIs ==
  ASSUME ~At("leaving")
  PROVE  /\ \A v : v \in Promise!LentOut(LoanSet) <=> IsLent(v)
         /\ \A v : v \in Promise!LentTo(LoanSet) <=> IsAlias(v)
<1>1. LoanSet = {heap_borrows[i] : i \in Loans}
  BY DEF LoanSet, Loans
<1>2. \A l : l \in LoanSet <=> \E i \in Loans : l = heap_borrows[i]
  BY <1>1
<1>3. ASSUME NEW v PROVE v \in Promise!LentOut(LoanSet) <=> IsLent(v)
  <2>1. v \in Promise!LentOut(LoanSet) <=>
          \E l \in LoanSet : v \in l.src_base .. (l.src_base + l.size - 1)
    BY DEF Promise!LentOut, Promise!Covers
  <2> QED BY <1>2, <2>1 DEF IsLent, SrcOf, FlatRange
<1>4. ASSUME NEW v PROVE v \in Promise!LentTo(LoanSet) <=> IsAlias(v)
  <2>1. v \in Promise!LentTo(LoanSet) <=>
          \E l \in LoanSet : v \in l.dst_base .. (l.dst_base + l.size - 1)
    BY DEF Promise!LentTo, Promise!Covers
  <2> QED BY <1>2, <2>1 DEF IsAlias, DstOf, FlatRange
<1> QED BY <1>3, <1>4

LEMMA NothingLent ==
  Promise!LentOut({}) = {} /\ Promise!LentTo({}) = {}
  BY DEF Promise!LentOut, Promise!LentTo

LEMMA CommittedIs ==
  ASSUME IInv
  PROVE  \A v : v \in Promise!Committed(heap_size) <=> v \in Int /\ Heap.base <= v /\ v < HeapEnd
<1>1. heap_size \in Nat /\ Heap.base \in Nat /\ HeapEnd = Heap.base + heap_size
  BY IInvParts, LoanTypes, Ground DEF HeapEnd
<1> DEFINE b == Heap.base
<1>2. heap_size \in Nat /\ b \in Nat /\ HeapEnd = b + heap_size
  BY <1>1
<1> HIDE DEF b
<1>3. \A v : v \in b .. (b + heap_size - 1) <=> v \in Int /\ b <= v /\ v < HeapEnd
  BY <1>2
<1> QED BY <1>3 DEF Promise!Committed, Promise!Covers, b

(* The windows of GuestMemory are the two regions. *)
LEMMA WindowsAre ==
  Promise!HeapWindow = RegionPages(Heap) /\ Promise!StackWindow = RegionPages(Stack)
  BY DEF Promise!HeapWindow, Promise!StackWindow, Promise!Covers, RegionPages, FlatRange

LEMMA MainStackIs ==
  ASSUME IInv
  PROVE  /\ \A v : InMainStack(v) <=> /\ main_thread_stack # NoRegion
                                      /\ v \in Promise!Covers(Stack.base + GuardPages, MainStackSize)
         /\ main_thread_stack # NoRegion =>
              \A v \in Promise!Covers(Stack.base + GuardPages, MainStackSize) :
                v \in RegionPages(Stack) /\ v \notin RegionPages(Heap)
<1>1. CASE main_thread_stack = NoRegion
  <2>1. \A v : ~InMainStack(v)
    BY <1>1 DEF InMainStack, RegionPages, NoRegion, FlatRange
  <2> QED BY <1>1, <2>1
<1>2. CASE main_thread_stack # NoRegion
  <2>1. /\ main_thread_stack.base = Stack.base + GuardPages
        /\ main_thread_stack.size = MainStackSize /\ StackFits
    BY <1>2, IInvParts DEF StackKnown
  <2>2. \A v : InMainStack(v) <=> v \in Promise!Covers(Stack.base + GuardPages, MainStackSize)
    BY <2>1 DEF InMainStack, RegionPages, FlatRange, Promise!Covers
  <2>3. ASSUME NEW v \in Promise!Covers(Stack.base + GuardPages, MainStackSize)
        PROVE  v \in RegionPages(Stack) /\ v \notin RegionPages(Heap)
    <3> DEFINE s == Stack.base + GuardPages
    <3>1. s \in Nat /\ MainStackSize \in Nat /\ Stack.base <= s
          /\ s + MainStackSize <= Stack.base + Stack.size
      BY <2>1, StackRoom, Ground
    <3>2. v \in s .. (s + MainStackSize - 1)
      BY DEF Promise!Covers
    <3> HIDE DEF s
    <3>3. v \in Int /\ Stack.base <= v /\ v < Stack.base + Stack.size
      <4>1. Stack.base \in Nat /\ Stack.size \in Nat
        BY Ground
      <4> QED BY <3>1, <3>2, <4>1
    <3> QED BY <3>3, RegionPlaces
  <2> QED BY <1>2, <2>2, <2>3
<1> QED BY <1>1, <1>2

(* In every state the rights the guest has are those GuestMemory gives it. *)
LEMMA AccessIsGiven ==
  IInv => Access = Promise!AccessGiven(heap_size, LoanSet, Running)
<1> SUFFICES ASSUME IInv PROVE Access = Promise!AccessGiven(heap_size, LoanSet, Running)
  OBVIOUS
<1> DEFINE mine(v) ==
      \/ v \in Promise!Committed(heap_size) \ Promise!LentOut(LoanSet)
      \/ v \in Promise!LentTo(LoanSet)
      \/ Running /\ v \in Promise!Covers(Stack.base + GuardPages, MainStackSize)
<1>1. Promise!AccessGiven(heap_size, LoanSet, Running)
        = [v \in RegionPages(Heap) \cup RegionPages(Stack) |-> IF mine(v) THEN RW ELSE {}]
  BY WindowsAre DEF Promise!AccessGiven, RW
<1>2. ASSUME NEW v \in RegionPages(Heap) \cup RegionPages(Stack)
      PROVE  page[v].perms = IF mine(v) THEN RW ELSE {}
  <2>1. Unmapped.perms = {}
    BY DEF Unmapped
  <2>2. v \in Pages /\ v \in Int
    BY RegionsAre, PagesAre
  <2>3. CASE v \in RegionPages(Heap)
    <3>1. Heap.base <= v /\ v \notin RegionPages(Stack)
      BY <2>2, <2>3, RegionsAre, RegionPlaces
    <3>2. v \in Promise!Committed(heap_size) <=> v < HeapEnd
      BY <2>2, <3>1, CommittedIs
    <3>3. page[v] # Unmapped <=> v < HeapEnd
      BY <2>3, HeapIsPrefix
    <3>4. ~(Running /\ v \in Promise!Covers(Stack.base + GuardPages, MainStackSize))
      BY <2>3, MainStackIs DEF Running
    <3>5. CASE At("leaving")
      <4>1. LoanSet = {}
        BY <3>5 DEF LoanSet
      <4>2. mine(v) <=> v < HeapEnd
        BY <3>2, <3>4, <4>1, NothingLent
      <4>3. page[v] # Unmapped => page[v].perms = RW
        BY <2>3, <3>5, IInvParts DEF Departing
      <4> HIDE DEF mine
      <4> QED BY <2>1, <3>3, <4>2, <4>3
    <3>6. CASE ~At("leaving")
      <4>1. HeapLaid /\ StackLaid /\ LoansLaid /\ TypeOK
        BY <3>6 DEF IInv, Laid
      <4>2. ~IsAlias(v)
        BY <3>1, <4>1, LoanPlaces DEF IsAlias
      <4>3. mine(v) <=> v < HeapEnd /\ ~IsLent(v)
        BY <3>2, <3>4, <3>6, <4>2, LoanSetIs
      <4>4. page[v] # Unmapped => page[v].perms = IF IsLent(v) THEN {} ELSE RW
        BY <2>3, <4>1 DEF HeapLaid
      <4> HIDE DEF mine
      <4> QED BY <2>1, <3>3, <4>3, <4>4
    <3> QED BY <3>5, <3>6
  <2>4. CASE v \in RegionPages(Stack)
    <3>1. ~(v < HeapEnd) /\ v \notin RegionPages(Heap) /\ v \notin RegionPages(TlsIo)
      <4>1. Stack.base <= v /\ v < Stack.base + Stack.size
        BY <2>4, RegionsAre
      <4>2. HeapEnd \in Nat /\ HeapEnd <= Heap.base + Heap.size
        <5>1. heap_size \in Nat /\ heap_size <= Heap.size
          BY IInvParts, LoanTypes
        <5> QED BY <5>1, Ground DEF HeapEnd
      <4>3. ~(v < HeapEnd)
        <5>1. Heap.base + Heap.size \in Nat /\ Stack.base \in Nat
          BY Ground
        <5> QED BY <2>2, <4>1, <4>2, <5>1, RegionOrder
      <4> QED BY <2>2, <4>1, <4>3, RegionPlaces
    <3>2. v \notin Promise!Committed(heap_size)
      BY <3>1, CommittedIs
    <3>3. CASE At("leaving")
      <4>1. LoanSet = {} /\ ~Running
        BY <3>3 DEF LoanSet, Running
      <4>2. ~mine(v)
        BY <3>2, <4>1, NothingLent
      <4>3. ~(TlsIo.base <= v /\ v < TlsEnd)
        <5>1. ~(TlsIo.base <= v)
          <6>1. v < Stack.base + Stack.size /\ Stack.base + Stack.size \in Nat /\ TlsIo.base \in Nat
            BY <2>4, RegionsAre, Ground
          <6> QED BY <2>2, <6>1, RegionOrder
        <5> QED BY <5>1
      <4>4. page[v] = Unmapped
        BY <2>2, <3>1, <3>3, <4>3, IInvParts DEF Departing
      <4> HIDE DEF mine
      <4> QED BY <2>1, <4>2, <4>4
    <3>4. CASE ~At("leaving")
      <4>1. mine(v) <=> IsAlias(v) \/ InMainStack(v)
        <5>1. v \in Promise!LentTo(LoanSet) <=> IsAlias(v)
          BY <3>4, LoanSetIs
        <5>2. Running <=> main_thread_stack # NoRegion
          BY <3>4 DEF Running
        <5>3. InMainStack(v) <=>
                Running /\ v \in Promise!Covers(Stack.base + GuardPages, MainStackSize)
          BY <5>2, MainStackIs
        <5> QED BY <3>2, <5>1, <5>3
      <4>2. /\ page[v] # Unmapped <=> InMainStack(v) \/ IsAlias(v)
            /\ page[v] # Unmapped => page[v].perms = RW
        BY <2>4, <3>4 DEF IInv, Laid, StackLaid
      <4> HIDE DEF mine
      <4> QED BY <2>1, <4>1, <4>2
    <3> QED BY <3>3, <3>4
  <2> QED BY <2>3, <2>4
<1> HIDE DEF mine
<1> QED BY <1>1, <1>2 DEF Access

LEMMA AccessIsGivenNext ==
  IInv' => Access' = Promise!AccessGiven(heap_size', LoanSet', Running')
<1>1. IInv' => (Access = Promise!AccessGiven(heap_size, LoanSet, Running))'
  BY AccessIsGiven, PTL
<1> QED BY <1>1

Seen == <<heap_size, LoanSet, Running, Access>>

LEMMA NotSeen ==
  ASSUME IInv, IInv', heap_size' = heap_size, LoanSet' = LoanSet, Running' = Running
  PROVE  UNCHANGED Seen
<1>1. Access' = Access
  BY AccessIsGiven, AccessIsGivenNext
<1> QED BY <1>1 DEF Seen

(* A step of the handlers that keeps the record and does not start or end  *)
(* the teardown is invisible.                                              *)
LEMMA KeepsRecord ==
  ASSUME IInv, IInv', heap_size' = heap_size, heap_borrows' = heap_borrows,
         main_thread_stack' = main_thread_stack, At("leaving")' <=> At("leaving")
  PROVE  UNCHANGED Seen
<1>1. LoanSet' = LoanSet /\ Running' = Running
  BY DEF LoanSet, Running
<1> QED BY <1>1, NotSeen

LEMMA RefusedCallsUnseen ==
  ASSUME IInv, IInv',
         \/ LoadProgram \/ BootModule \/ BootModuleCorrupt \/ BootTls \/ BootFails
         \/ \E requested \in Sizes :
              \/ SetHeapSizeRefused(requested) \/ SetHeapSizeSame(requested)
              \/ GrowNoMemory(requested) \/ GrowAllocates(requested)
              \/ ShrinkOverLoan(requested) \/ ShrinkByPage(requested)
         \/ GrowRollsBack \/ ShrinkPage \/ HeapFreeAborts
         \/ \E dst, src \in PageArgs : \E n \in 0 .. Heap.size :
              \/ MapMemoryRefused(dst, src, n) \/ MapMemoryRollsBack(dst, src, n)
              \/ UnmapMemoryRefused(dst, src, n)
         \/ \E v \in Pages : GuestStores(v)
         \/ \E out, v \in PageArgs : QueryMemory(out, v)
         \/ ThreadOnMappedPage \/ ThreadOnNewPage \/ ThreadLosesPage \/ ThreadRefused
         \/ \E p \in 1 .. MaxTlsPages : \E b \in 0 .. (BlocksPerPage - 1) : ThreadDestroy(p, b)
         \/ LeaveFreesWhole \/ LeaveFreesPage \/ UNCHANGED vars
  PROVE  UNCHANGED Seen
<1>0. call \in Calls
  BY IInvParts
<1> DEFINE Kept == /\ heap_size' = heap_size /\ heap_borrows' = heap_borrows
                   /\ main_thread_stack' = main_thread_stack
           Same == Kept /\ (At("leaving")' <=> At("leaving"))
<1>1. CASE LoadProgram
  BY <1>1, KeepsRecord DEF LoadProgram, processVars, At
<1>2. CASE BootModule \/ BootModuleCorrupt
  <2>1. Kept /\ At("booting")
    BY <1>2 DEF BootModule, BootModuleCorrupt, processVars
  <2>2. call'.at = "booting" \/ call'.at = "unwinding"
    <3> DEFINE m == module_count + 1
    <3>1. \/ call' = Recorded(<<ImagesBefore[m], ImageSize(m)>>)
          \/ call' = [Recorded(<<ImagesBefore[m], ImageSize(m)>>) EXCEPT !.at = "unwinding"]
      BY <1>2 DEF BootModule, BootModuleCorrupt
    <3>2. m \in 1 .. Len(Modules)
      <4>1. module_count \in 0 .. Len(Modules) /\ module_count < Len(Modules)
            /\ Len(Modules) \in Nat
        BY <1>2, IInvParts, ModuleFacts DEF BootModule, BootModuleCorrupt, MemTypes
      <4> QED BY <4>1
    <3> HIDE DEF m
    <3>3. ImagesBefore[m] \in Nat /\ ImageSize(m) \in Nat
      BY <3>2, RegionsApart
    <3>4. CASE call' = Recorded(<<ImagesBefore[m], ImageSize(m)>>)
      <4>1. Recorded(<<ImagesBefore[m], ImageSize(m)>>).at = "booting"
        BY <1>0, <2>1, <3>3, RecordedCall
      <4> QED BY <3>4, <4>1
    <3>5. CASE call' = [Recorded(<<ImagesBefore[m], ImageSize(m)>>) EXCEPT !.at = "unwinding"]
      <4>1. [Recorded(<<ImagesBefore[m], ImageSize(m)>>) EXCEPT !.at = "unwinding"].at = "unwinding"
        BY <1>0, <2>1, <3>3, RecordedCall
      <4> QED BY <3>5, <4>1
    <3> QED BY <3>1, <3>4, <3>5
  <2> QED BY <2>1, <2>2, KeepsRecord DEF At
<1>3. CASE BootTls
  BY <1>3, KeepsRecord DEF BootTls, At, Inside
<1>4. CASE BootFails
  <2>1. Kept /\ At("booting") /\ call' = [call EXCEPT !.at = "unwinding"]
    BY <1>4 DEF BootFails, processVars
  <2>2. call = [at |-> call.at, ranges |-> call.ranges]
    BY <1>0, <2>1, CallShapes
  <2>3. call'.at = "unwinding"
    BY <2>1, <2>2
  <2> QED BY <2>1, <2>3, KeepsRecord DEF At
<1>5. ASSUME NEW requested \in Sizes,
             \/ SetHeapSizeRefused(requested) \/ SetHeapSizeSame(requested)
             \/ GrowNoMemory(requested) \/ ShrinkOverLoan(requested)
             \/ GrowAllocates(requested) \/ ShrinkByPage(requested)
      PROVE  UNCHANGED Seen
  <2>1. CASE \/ SetHeapSizeRefused(requested) \/ SetHeapSizeSame(requested)
             \/ GrowNoMemory(requested) \/ ShrinkOverLoan(requested)
    <3>1. Kept
      BY <2>1 DEF SetHeapSizeRefused, SetHeapSizeSame, GrowNoMemory, ShrinkOverLoan, processVars
    <3>2. call' = call
      BY <2>1 DEF SetHeapSizeRefused, SetHeapSizeSame, GrowNoMemory, ShrinkOverLoan
    <3> QED BY <3>1, <3>2, KeepsRecord DEF At
  <2>2. CASE GrowAllocates(requested)
    BY <2>2, KeepsRecord DEF GrowAllocates, processVars, At
  <2>3. CASE ShrinkByPage(requested)
    BY <2>3, KeepsRecord DEF ShrinkByPage, ShrinkMayGo, Shrinks, processVars, At
  <2> QED BY <1>5, <2>1, <2>2, <2>3
<1>6. CASE GrowRollsBack \/ ShrinkPage
  <2>1. Kept /\ (At("growing") \/ At("shrinking"))
    BY <1>6 DEF GrowRollsBack, ShrinkPage, processVars
  <2>2. call'.at = "running" \/ call'.at = "shrinking"
    <3>1. CASE GrowRollsBack
      BY <3>1 DEF GrowRollsBack, Inside
    <3>2. CASE ShrinkPage
      <4>1. At("shrinking") /\ call' = [call EXCEPT !.next = call.next + 1]
        BY <3>2 DEF ShrinkPage
      <4>2. call = [at |-> "shrinking", requested |-> call.requested, next |-> call.next,
                    runs |-> call.runs]
        BY <1>0, <4>1, CallShapes
      <4> QED BY <4>1, <4>2
    <3> QED BY <1>6, <3>1, <3>2
  <2> QED BY <2>1, <2>2, KeepsRecord DEF At
<1>7. CASE HeapFreeAborts
  <2>1. Kept /\ call'.at = "aborted"
    BY <1>7 DEF HeapFreeAborts, Abort, Inside, processVars
  <2>2. At("growing") \/ At("shrinking") \/ At("running")
    BY <1>7 DEF HeapFreeAborts, ShrinkMayGo, Shrinks
  <2> QED BY <2>1, <2>2, KeepsRecord DEF At
<1>8. ASSUME NEW dst \in PageArgs, NEW src \in PageArgs, NEW n \in 0 .. Heap.size,
             \/ MapMemoryRefused(dst, src, n) \/ MapMemoryRollsBack(dst, src, n)
             \/ UnmapMemoryRefused(dst, src, n)
      PROVE  UNCHANGED Seen
  <2>1. Kept /\ call' = call
    BY <1>8 DEF MapMemoryRefused, MapMemoryRollsBack, UnmapMemoryRefused, processVars
  <2> QED BY <2>1, KeepsRecord DEF At
<1>9. CASE (\E v \in Pages : GuestStores(v)) \/ (\E out, v \in PageArgs : QueryMemory(out, v))
  <2>1. Kept /\ call' = call
    BY <1>9 DEF GuestStores, QueryMemory, processVars
  <2> QED BY <2>1, KeepsRecord DEF At
<1>10. CASE \/ ThreadOnMappedPage \/ ThreadOnNewPage \/ ThreadLosesPage \/ ThreadRefused
            \/ \E p \in 1 .. MaxTlsPages : \E b \in 0 .. (BlocksPerPage - 1) : ThreadDestroy(p, b)
  <2>1. Kept /\ call' = call
    BY <1>10 DEF ThreadOnMappedPage, ThreadOnNewPage, ThreadLosesPage, ThreadRefused,
                 ThreadDestroy, processVars
  <2> QED BY <2>1, KeepsRecord DEF At
<1>11. CASE LeaveFreesWhole \/ LeaveFreesPage
  <2>1. Kept /\ At("leaving")
    BY <1>11 DEF LeaveFreesWhole, LeaveFreesPage, processVars
  <2>2. call = [at |-> "leaving", next |-> call.next]
    BY <1>0, <2>1, CallShapes
  <2>3. call'.at = "leaving"
    BY <1>11, <2>2 DEF LeaveFreesWhole, LeaveFreesPage
  <2> QED BY <2>1, <2>3, KeepsRecord DEF At
<1>12. CASE UNCHANGED vars
  <2>1. Kept /\ call' = call
    BY <1>12 DEF vars, processVars
  <2> QED BY <2>1, KeepsRecord DEF At
<1> QED BY <1>1, <1>2, <1>3, <1>4, <1>5, <1>6, <1>7, <1>8, <1>9, <1>10, <1>11, <1>12

(* The heap takes a new length. *)
LEMMA ResizeSeen ==
  ASSUME IInv, IInv', ~At("leaving"), main_thread_stack # NoRegion, At("running")',
         heap_borrows' = heap_borrows, main_thread_stack' = main_thread_stack
  PROVE  Promise!PromisedNext
<1>1. LoanSet' = LoanSet /\ Running /\ Running' /\ ~At("leaving")'
  BY DEF LoanSet, Running, At
<1>2. heap_size' \in 0 .. Heap.size /\ heap_size' % Granule = 0 /\ LoansLaid' /\ TypeOK'
  BY <1>1 DEF IInv, Laid, TypeOK
<1>3. Promise!LentOut(LoanSet) \subseteq Promise!Committed(heap_size')
  <2> SUFFICES ASSUME NEW v, IsLent(v) PROVE v \in Promise!Committed(heap_size')
    BY LoanSetIs
  <2>1. PICK i \in Loans : v \in SrcOf(i)
    BY DEF IsLent
  <2>2. /\ heap_borrows[i].src_base \in Nat /\ heap_borrows[i].size \in Nat
    BY LoanTypes DEF IInv
  <2>3. v \in Int /\ heap_borrows[i].src_base <= v
        /\ v < heap_borrows[i].src_base + heap_borrows[i].size
    BY <2>1, <2>2, RangeIs DEF SrcOf
  <2>4. Heap.base <= heap_borrows[i].src_base
        /\ heap_borrows[i].src_base + heap_borrows[i].size <= HeapEnd'
    BY <1>2 DEF LoansLaid, Loans
  <2> DEFINE a == heap_borrows[i].src_base
             l == heap_borrows[i].size
             b == Heap.base
  <2>5. b \in Nat /\ heap_size' \in Nat /\ HeapEnd' = b + heap_size'
    BY <1>2, Ground DEF HeapEnd
  <2>6. a \in Nat /\ l \in Nat /\ a <= v /\ v < a + l /\ b <= a /\ a + l <= b + heap_size'
    BY <2>2, <2>3, <2>4, <2>5
  <2> HIDE DEF a, l, b
  <2>7. v \in b .. (b + heap_size' - 1)
    <3> DEFINE h == heap_size'
    <3>1. /\ v \in Int /\ a \in Nat /\ l \in Nat /\ b \in Nat /\ h \in Nat
          /\ a <= v /\ v < a + l /\ b <= a /\ a + l <= b + h
      BY <2>3, <2>5, <2>6
    <3> HIDE DEF h
    <3>2. v \in b .. (b + h - 1)
      BY <3>1
    <3> QED BY <3>2 DEF h
  <2> QED BY <2>7 DEF Promise!Committed, Promise!Covers, b
<1>4. Promise!Resize(heap_size')
  BY <1>1, <1>2, <1>3 DEF Promise!Resize, LoanSet, Running
<1>5. Access' = Promise!AccessGiven(heap_size', LoanSet', Running')
  BY AccessIsGivenNext
<1> QED BY <1>2, <1>4, <1>5 DEF Promise!PromisedNext, Access, LoanSet, Running

LEMMA PromisedStep ==
  ASSUME IInv',
         \/ Promise!Start \/ Promise!Quit \/ Promise!Clear
         \/ \E l \in LoanSet : Promise!Return(l)
         \/ \E n \in 1 .. Heap.size : \E src \in Promise!HeapWindow, dst \in Promise!StackWindow :
              Promise!Lend(Loan(dst, src, n))
  PROVE  Promise!PromisedNext
<1>1. Access' = Promise!AccessGiven(heap_size', LoanSet', Running')
  BY AccessIsGivenNext
<1> QED BY <1>1 DEF Promise!PromisedNext, Access, LoanSet, Running, Loan

LEMMA NoLoans == heap_borrows = <<>> => LoanSet = {}
BY DEF LoanSet

(* The process begins to run, goes, and is gone. *)
LEMMA LifeSeen ==
  ASSUME IInv, IInv', BootStack \/ BootUnwinds \/ Unload \/ LeaveEnds
  PROVE  Promise!PromisedNext
<1>1. CASE BootStack
  <2>1. /\ At("booting") /\ main_thread_stack = NoRegion /\ heap_size' = heap_size
        /\ heap_borrows' = heap_borrows
        /\ main_thread_stack' = [base |-> Stack.base + GuardPages, size |-> MainStackSize]
        /\ call' = Recorded(<<Stack.base + GuardPages, MainStackSize>>)
        /\ MainStackSize > 0
    BY <1>1 DEF BootStack, MapOk, InSpace
  <2>2. main_thread_stack' # NoRegion
    <3>1. main_thread_stack'.size # NoRegion.size
      BY <2>1, Ground DEF NoRegion
    <3> QED BY <3>1
  <2>3. ~At("leaving") /\ ~At("leaving")'
    <3>1. Stack.base + GuardPages \in Nat /\ MainStackSize \in Nat
      BY Ground
    <3>2. Recorded(<<Stack.base + GuardPages, MainStackSize>>).at = "booting"
      BY <2>1, <3>1, RecordedCall
    <3> QED BY <2>1, <3>2 DEF At
  <2>4. ~Running /\ Running' = TRUE /\ LoanSet' = LoanSet
    BY <2>1, <2>2, <2>3 DEF Running, LoanSet
  <2>5. Promise!Start
    BY <2>1, <2>4 DEF Promise!Start, Running, LoanSet
  <2> QED BY <2>5, PromisedStep
<1>2. CASE BootUnwinds
  <2>1. /\ At("unwinding") /\ heap_size' = 0 /\ heap_borrows' = <<>>
        /\ main_thread_stack' = NoRegion
    BY <1>2 DEF BootUnwinds, Cleared
  <2>2. heap_size = 0
    BY <2>1, IInvParts DEF BootRecorded
  <2>3. LoanSet' = {} /\ Running' = FALSE
    BY <2>1 DEF Running, LoanSet
  <2>4. Promise!Quit
    BY <2>1, <2>2, <2>3 DEF Promise!Quit, Running, LoanSet
  <2> QED BY <2>4, PromisedStep
<1>3. CASE Unload
  <2>1. At("leaving")' /\ heap_size' = heap_size
    BY <1>3 DEF Unload, At, processVars
  <2>2. LoanSet' = {} /\ Running' = FALSE
    BY <2>1 DEF Running, LoanSet, At
  <2>3. Promise!Quit
    BY <2>1, <2>2 DEF Promise!Quit, Running, LoanSet
  <2> QED BY <2>3, PromisedStep
<1>4. CASE LeaveEnds
  <2>1. /\ At("leaving") /\ heap_size' = 0 /\ heap_borrows' = <<>>
        /\ main_thread_stack' = NoRegion
    BY <1>4 DEF LeaveEnds, Cleared
  <2>2. LoanSet = {} /\ LoanSet' = {} /\ Running = FALSE /\ Running' = FALSE
    BY <2>1 DEF Running, LoanSet
  <2>3. Promise!Clear
    BY <2>1, <2>2 DEF Promise!Clear, Running, LoanSet
  <2> QED BY <2>3, PromisedStep
<1> QED BY <1>1, <1>2, <1>3, <1>4

LEMMA HeapResizes ==
  ASSUME IInv, IInv',
         GrowMaps \/ ShrinkEnds \/ \E requested \in Sizes : ShrinkWhole(requested)
  PROVE  Promise!PromisedNext
<1>1. /\ At("growing") \/ At("shrinking") \/ At("running")
      /\ call' = Inside("running") /\ heap_borrows' = heap_borrows
      /\ main_thread_stack' = main_thread_stack
  BY DEF GrowMaps, ShrinkEnds, ShrinkWhole, ShrinkMayGo, Shrinks, HeapCutTo
<1>2. ~At("leaving") /\ At("running")' /\ main_thread_stack # NoRegion
  BY <1>1, IInvParts DEF At, Inside
<1> QED BY <1>1, <1>2, ResizeSeen

(* A set of loans is no larger than the table it is read from. *)
LEMMA FewLoans ==
  ASSUME TypeOK
  PROVE  Cardinality({heap_borrows[i] : i \in Loans}) <= Len(heap_borrows)
         /\ Cardinality({heap_borrows[i] : i \in Loans}) \in Nat
<1> DEFINE T == {heap_borrows[i] : i \in Loans}
           f == [i \in Loans |-> heap_borrows[i]]
<1>1. Len(heap_borrows) \in Nat /\ Loans = 1 .. Len(heap_borrows)
  BY LoanTypes
<1>2. IsFiniteSet(Loans) /\ Cardinality(Loans) = Len(heap_borrows)
  <2>1. \A m \in Nat : IsFiniteSet(1 .. m) /\ Cardinality(1 .. m) = m
    BY FS_Interval
  <2> QED BY <1>1, <2>1
<1>3. f \in Surjection(Loans, T)
  BY DEF Surjection
<1> HIDE DEF T, f
<1>4. IsFiniteSet(T) /\ Cardinality(T) <= Cardinality(Loans)
  BY <1>2, <1>3, FS_Surjection
<1>5. Cardinality(T) \in Nat
  BY <1>4, FS_CardinalityType
<1> QED BY <1>2, <1>4, <1>5 DEF T

LEMMA SameCardinality == \A S : Promise!Cardinality(S) = Cardinality(S)
BY DEF Cardinality, Promise!Cardinality

LEMMA LendSeen ==
  ASSUME IInv, IInv', NEW dst \in PageArgs, NEW src \in PageArgs, NEW n \in 0 .. Heap.size,
         MapMemory(dst, src, n)
  PROVE  Promise!PromisedNext
<1> DEFINE l == Loan(dst, src, n)
<1>1. /\ At("running") /\ MapMemoryError(dst, src, n) = "OK"
      /\ heap_borrows' = Append(heap_borrows, l)
      /\ heap_size' = heap_size /\ main_thread_stack' = main_thread_stack /\ call' = call
  BY DEF MapMemory
<1>2. TypeOK /\ main_thread_stack # NoRegion
  BY <1>1, IInvParts
<1>3. ~At("leaving") /\ ~At("leaving")' /\ Running /\ Running'
  BY <1>1, <1>2 DEF At, Running
<1>4. /\ n \in Nat /\ n > 0 /\ dst \in Nat /\ src \in Nat /\ Len(heap_borrows) < MaxLoans
      /\ Heap.base <= src /\ src + n <= HeapEnd /\ HeapEnd \in Nat
      /\ \A w \in FlatRange(src, n) : w \in RegionPages(Heap) /\ ~IsLent(w)
      /\ \A w \in FlatRange(dst, n) : w \in RegionPages(Stack) /\ ~IsAlias(w) /\ ~InMainStack(w)
  BY <1>1, LendChecks
<1>5. Cardinality(LoanSet) < MaxLoans
  <2>1. LoanSet = {heap_borrows[i] : i \in Loans}
    BY <1>3 DEF LoanSet, Loans
  <2>2. Cardinality(LoanSet) <= Len(heap_borrows) /\ Cardinality(LoanSet) \in Nat
    BY <1>2, <2>1, FewLoans
  <2>3. Len(heap_borrows) \in Nat /\ MaxLoans \in Nat
    BY <1>2, LoanTypes, Ground
  <2> QED BY <1>4, <2>2, <2>3
<1>6. LoanSet' = LoanSet \cup {l}
  <2>1. Len(heap_borrows) \in Nat /\ Loans = 1 .. Len(heap_borrows)
    BY <1>2, LoanTypes
  <2>2. heap_borrows \in Seq([dst_base : Pages, src_base : Pages, size : 1 .. Heap.size])
    BY <1>2 DEF TypeOK
  <2> HIDE DEF l
  <2>3. /\ DOMAIN heap_borrows' = 1 .. (Len(heap_borrows) + 1)
        /\ \A i \in Loans : heap_borrows'[i] = heap_borrows[i]
        /\ heap_borrows'[Len(heap_borrows) + 1] = l
    BY <1>1, <2>1, <2>2
  <2>4. \A i : i \in 1 .. (Len(heap_borrows) + 1) <=> i \in Loans \/ i = Len(heap_borrows) + 1
    BY <2>1
  <2>5. LoanSet' = {heap_borrows'[i] : i \in DOMAIN heap_borrows'}
        /\ LoanSet = {heap_borrows[i] : i \in Loans}
    BY <1>3 DEF LoanSet, Loans
  <2>6. \A x : x \in LoanSet' <=> x \in LoanSet \/ x = l
    BY <2>3, <2>4, <2>5
  <2> QED BY <2>6
<1>7. l.dst_base = dst /\ l.src_base = src /\ l.size = n
  BY DEF Loan
<1>8. Promise!Covers(src, n) = FlatRange(src, n) /\ Promise!Covers(dst, n) = FlatRange(dst, n)
  BY DEF Promise!Covers, FlatRange
<1>9. Promise!Covers(src, n) \subseteq Promise!Committed(heap_size) \ Promise!LentOut(LoanSet)
  <2> SUFFICES ASSUME NEW w \in FlatRange(src, n)
               PROVE  w \in Promise!Committed(heap_size) /\ w \notin Promise!LentOut(LoanSet)
    BY <1>8
  <2>1. w \notin Promise!LentOut(LoanSet)
    BY <1>3, <1>4, LoanSetIs
  <2>2. w \in Int /\ Heap.base <= w /\ w < HeapEnd
    <3> DEFINE hb == Heap.base
    <3>1. w \in Int /\ src <= w /\ w < src + n
      BY <1>4, RangeIs
    <3>2. hb \in Nat /\ hb <= src /\ src + n <= HeapEnd /\ src \in Nat /\ n \in Nat
          /\ HeapEnd \in Nat
      BY <1>4, Ground
    <3> HIDE DEF hb
    <3>3. hb <= w /\ w < HeapEnd
      BY <3>1, <3>2
    <3> QED BY <3>1, <3>3 DEF hb
  <2> QED BY <2>1, <2>2, CommittedIs
<1>10. Promise!Covers(dst, n)
         \subseteq Promise!StackWindow
           \ (Promise!LentTo(LoanSet) \cup Promise!Covers(Stack.base + GuardPages, MainStackSize))
  <2> SUFFICES ASSUME NEW w \in FlatRange(dst, n)
               PROVE  /\ w \in Promise!StackWindow /\ w \notin Promise!LentTo(LoanSet)
                      /\ w \notin Promise!Covers(Stack.base + GuardPages, MainStackSize)
    BY <1>8
  <2>1. w \in Promise!StackWindow
    BY <1>4, WindowsAre
  <2>2. w \notin Promise!LentTo(LoanSet)
    BY <1>3, <1>4, LoanSetIs
  <2>3. w \notin Promise!Covers(Stack.base + GuardPages, MainStackSize)
    BY <1>2, <1>4, MainStackIs
  <2> QED BY <2>1, <2>2, <2>3
<1>11. n \in 1 .. Heap.size /\ src \in Promise!HeapWindow /\ dst \in Promise!StackWindow
  <2>1. src \in FlatRange(src, n) /\ dst \in FlatRange(dst, n)
    BY <1>4, RangeIs
  <2> QED BY <1>4, <2>1, WindowsAre
<1> HIDE DEF l
<1>12. Promise!Lend(l)
  <2>1. /\ Promise!Covers(l.src_base, l.size)
             \subseteq Promise!Committed(heap_size) \ Promise!LentOut(LoanSet)
        /\ Promise!Covers(l.dst_base, l.size)
             \subseteq Promise!StackWindow
               \ (Promise!LentTo(LoanSet) \cup Promise!Covers(Stack.base + GuardPages, MainStackSize))
    BY <1>7, <1>9, <1>10
  <2>2. UNCHANGED <<heap_size, Running>>
    BY <1>1, <1>3 DEF Running
  <2>3. Promise!Cardinality(LoanSet) < MaxLoans
    BY <1>5, SameCardinality
  <2>4. /\ Promise!Covers([base |-> Stack.base + GuardPages, size |-> MainStackSize].base,
                         [base |-> Stack.base + GuardPages, size |-> MainStackSize].size)
           = Promise!Covers(Stack.base + GuardPages, MainStackSize)
    OBVIOUS
  <2> QED BY <1>3, <1>6, <2>1, <2>2, <2>3, <2>4 DEF Promise!Lend, LoanSet, Running
<1> QED BY <1>11, <1>12, PromisedStep DEF l

LEMMA ReturnSeen ==
  ASSUME IInv, IInv', NEW dst \in PageArgs, NEW src \in PageArgs, NEW n \in 0 .. Heap.size,
         UnmapMemory(dst, src, n)
  PROVE  Promise!PromisedNext
<1>1. /\ At("running") /\ heap_size' = heap_size
      /\ main_thread_stack' = main_thread_stack /\ call' = call
  BY DEF UnmapMemory
<1>2. TypeOK /\ LoansLaid /\ main_thread_stack # NoRegion
  BY <1>1, IInvParts DEF Whole, Laid
<1>3. ~At("leaving") /\ ~At("leaving")' /\ Running /\ Running'
  BY <1>1, <1>2 DEF At, Running
<1>4. PICK i \in Loans : heap_borrows[i] = Loan(dst, src, n) /\ heap_borrows' = SwapRemoved(i)
  BY DEF UnmapMemory, Matching, Loans
<1>5. /\ \A j \in Loans' : \E k \in Loans \ {i} : heap_borrows'[j] = heap_borrows[k]
      /\ \A k \in Loans \ {i} : \E j \in Loans' : heap_borrows'[j] = heap_borrows[k]
  BY <1>2, <1>4, SwapLeavesTheOthers
(* Two loans of the same pages would overlap. *)
<1>6. ASSUME NEW k \in Loans \ {i} PROVE heap_borrows[k] # heap_borrows[i]
  <2>1. SrcOf(i) \cap SrcOf(k) = {}
    BY <1>2 DEF LoansLaid
  <2>2. heap_borrows[i].src_base \in SrcOf(i)
    <3>1. heap_borrows[i].src_base \in Nat /\ heap_borrows[i].size \in Nat /\ heap_borrows[i].size > 0
      BY <1>2, LoanTypes
    <3> QED BY <3>1, RangeIs DEF SrcOf
  <2> QED BY <2>1, <2>2 DEF SrcOf
<1>7. LoanSet = {heap_borrows[k] : k \in Loans} /\ LoanSet' = {heap_borrows'[j] : j \in Loans'}
  BY <1>3 DEF LoanSet, Loans
<1>8. LoanSet' = LoanSet \ {heap_borrows[i]} /\ heap_borrows[i] \in LoanSet
  <2>1. \A x : x \in LoanSet' <=> \E k \in Loans \ {i} : x = heap_borrows[k]
    BY <1>5, <1>7
  <2>2. \A x : x \in LoanSet <=> \E k \in Loans : x = heap_borrows[k]
    BY <1>7
  <2>3. ASSUME NEW x PROVE x \in LoanSet' <=> x \in LoanSet /\ x # heap_borrows[i]
    <3>1. CASE x = heap_borrows[i]
      BY <1>6, <2>1, <3>1
    <3>2. CASE x # heap_borrows[i]
      BY <2>1, <2>2, <3>2
    <3> QED BY <3>1, <3>2
  <2>4. heap_borrows[i] \in LoanSet
    BY <2>2
  <2> QED BY <2>3, <2>4
<1>9. PICK l : l = heap_borrows[i]
  OBVIOUS
<1>10. l \in LoanSet /\ Promise!Return(l)
  BY <1>1, <1>3, <1>8, <1>9 DEF Promise!Return, LoanSet, Running
<1> QED BY <1>10, PromisedStep

LEMMA GuestInit == Init => Promise!PromisedInit
<1> SUFFICES ASSUME Init PROVE Promise!PromisedInit
  OBVIOUS
<1>1. heap_size = 0 /\ heap_borrows = <<>> /\ main_thread_stack = NoRegion
  BY DEF Init
<1>2. LoanSet = {} /\ Running = FALSE
  BY <1>1 DEF LoanSet, Running
<1>3. Access = Promise!AccessGiven(heap_size, LoanSet, Running)
  BY InitHolds, AccessIsGiven
<1>4. Access = Promise!AccessGiven(0, {}, FALSE)
  BY <1>1, <1>2, <1>3
<1> QED BY <1>1, <1>2, <1>4 DEF Promise!PromisedInit, Access, LoanSet, Running

LEMMA GuestSteps ==
  ASSUME IInv, IInv', [Next]_vars
  PROVE  Promise!PromisedNext \/ UNCHANGED Seen
<1>1. CASE BootStack \/ BootUnwinds \/ Unload \/ LeaveEnds
  BY <1>1, LifeSeen
<1>2. CASE GrowMaps \/ ShrinkEnds \/ \E requested \in Sizes : ShrinkWhole(requested)
  BY <1>2, HeapResizes
<1>3. ASSUME NEW dst \in PageArgs, NEW src \in PageArgs, NEW n \in 0 .. Heap.size,
             MapMemory(dst, src, n) \/ UnmapMemory(dst, src, n)
      PROVE  Promise!PromisedNext
  BY <1>3, LendSeen, ReturnSeen
<1>4. CASE \/ LoadProgram \/ BootModule \/ BootModuleCorrupt \/ BootTls \/ BootFails
           \/ \E requested \in Sizes :
                \/ SetHeapSizeRefused(requested) \/ SetHeapSizeSame(requested)
                \/ GrowNoMemory(requested) \/ GrowAllocates(requested)
                \/ ShrinkOverLoan(requested) \/ ShrinkByPage(requested)
           \/ GrowRollsBack \/ ShrinkPage \/ HeapFreeAborts
           \/ \E dst, src \in PageArgs : \E n \in 0 .. Heap.size :
                \/ MapMemoryRefused(dst, src, n) \/ MapMemoryRollsBack(dst, src, n)
                \/ UnmapMemoryRefused(dst, src, n)
           \/ \E v \in Pages : GuestStores(v)
           \/ \E out, v \in PageArgs : QueryMemory(out, v)
           \/ ThreadOnMappedPage \/ ThreadOnNewPage \/ ThreadLosesPage \/ ThreadRefused
           \/ \E p \in 1 .. MaxTlsPages : \E b \in 0 .. (BlocksPerPage - 1) : ThreadDestroy(p, b)
           \/ LeaveFreesWhole \/ LeaveFreesPage \/ UNCHANGED vars
  BY <1>4, RefusedCallsUnseen
<1> QED BY <1>1, <1>2, <1>3, <1>4 DEF Next

(* The bootstrap, the memory SVCs, the threads' pages and the teardown,    *)
(* with all they refuse and roll back, implement what GuestMemory promises *)
(* the guest: a heap it resizes, loans of it to the stack region, and each *)
(* byte accessible at one address.                                         *)
THEOREM GuestMemoryIsImplemented == Spec => ImplementsGuestMemory
<1>1. Seen = <<heap_size,
               IF At("leaving") THEN {} ELSE {heap_borrows[i] : i \in DOMAIN heap_borrows},
               main_thread_stack # NoRegion /\ ~At("leaving"),
               [v \in RegionPages(Heap) \cup RegionPages(Stack) |-> page[v].perms]>>
  BY DEF Seen, LoanSet, Running, Access
<1>2. IInv /\ IInv' /\ [Next]_vars
        => [Promise!PromisedNext]_<<heap_size,
               IF At("leaving") THEN {} ELSE {heap_borrows[i] : i \in DOMAIN heap_borrows},
               main_thread_stack # NoRegion /\ ~At("leaving"),
               [v \in RegionPages(Heap) \cup RegionPages(Stack) |-> page[v].perms]>>
  BY GuestSteps DEF Seen, LoanSet, Running, Access
<1> QED BY <1>2, GuestInit, InvariantHolds, PTL
        DEF Spec, ImplementsGuestMemory, Promise!PromisedSpec
=============================================================================
