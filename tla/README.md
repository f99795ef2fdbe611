# Voland: TLA+ models, checks and proofs

Voland is a Nintendo Switch emulator whose C11 core runs native or as wasm in a
browser. At this commit the core has guest memory, the loaders, the process and
memory HLE, the IPC layer with one service (`sm:`), a no-op CPU backend and a
web front end that boots two workers. This directory models that code in TLA+,
checks it with TLC and proves part of it with TLAPS.

## 1. Inventory

The core is single-threaded by design: every handler runs to completion, so the
hard behaviours are long sequences of legal calls, partial failure and roll-back,
resource limits, stale handles and pointers, and boundary arithmetic. Real
concurrency exists only in the web front end (main thread, CPU worker, GPU
worker, service worker).

| Component | State | Operations | Talks to | What makes it correct |
|---|---|---|---|---|
| Page allocator `core/hle/kernel/page_allocator.c` | bump cursor, 16 free runs | allocate, free, free_bytes, reset | layout (commit) | a page belongs to one caller; none is lost; errors change nothing |
| VMM `core/common/vmm.c` | L1 words, L2 tables, table pool, mapped counts, last fault, debug borrows | create, destroy, map, unmap, reprotect, query, translate, block copies, guest_to_host, scopes | layout, arena | tables implement a flat map; a failed call changes nothing; recycled tables are clean; borrows never dangle |
| Memory SVCs `svc_memory.c` | heap size, 8 heap borrows (in the process) | SetHeapSize, MapMemory, UnmapMemory, QueryMemory | allocator, VMM | heap fully backed; a borrowed page has one accessible address; roll-back is exact |
| Process `process.c`, `tls.c`, `thread.c` | regions, modules, stack, heap, TLS pages | bootstrap, enter, teardown, TLS allocate and free, thread create and destroy | allocator, VMM, loaders, address space | no mapping survives its pages; failed bootstrap leaves nothing; each thread has its own, zeroed block |
| Address space `address_space.c` | none | init from NPDM flags and ASLR offset | | regions disjoint and inside 39 bits |
| IPC sessions `ipc.c`, `svc_ipc.c`, `sm.c`, `hle.c` | 32 session slots, service table | ConnectToNamedPort, SendSyncRequest, CloseHandle, GetService, SVC dispatch | VMM (TLS) | no slot leaks; a handle names the session it was given for |
| Emulator `emulator.c`, `wasm_entry.c` | which parts are live | create, load, unload, destroy, the exported calls | everything | a failure at any step leaves nothing; every program starts clean |
| Layout and arena `layout.c`, `arena.c` | region table, arena cursor | create, commit, allocate | | regions disjoint and aligned |
| Loaders `loader/*.c` | none (parsers) | NCA, ExeFS (PFS0), RomFS, NSO, NPDM, byte source | lz4 | every accepted range is inside its source |
| CPU interface `cpu.h`, `noop.c` | registers | create, run, destroy | | one state per live emulator (no instruction is executed yet) |
| Web boot `platform/web/src/main.ts`, `workers/*.ts` | worker slots, timer | spawn, layout, init, ready, timeout | workers | boot always ends; the GPU starts after the layout |
| Service worker `sw.ts` | cache | install, activate, fetch | network | a page gets one consistent build |

### What is hard to get right, component by component

- **Page allocator.** A caller may return its pages in any pieces and any order;
  runs split, merge, retract the cursor and absorb a neighbour. One wrong case and
  a page is lost or has two owners. The freelist has 16 entries and the commit of
  a run may be refused after the run was chosen.
- **VMM.** Tables are recycled through a freelist threaded through their first
  word, so a released table must be empty and a taken one clean; the count of
  tables a range needs is made up front and must be exact, since the commit loop
  cannot roll back. Host pointers borrowed by a handler must not outlive a remap.
- **Process memory.** SetHeapSize, MapMemory and UnmapMemory each do several
  allocator and VMM calls, any of which can fail; the shrink frees frames before it
  unmaps them; a loan's alias keeps frames reachable; the teardown goes on past
  errors; thread creation grows the TLS region out of the same frames.
- **IPC.** Sessions are slots that are reused at once. A response whose handle
  never reaches the guest must not keep its slot; a Close message leaves a slot
  that is in use but answers nothing; the table outlives the program unless it is
  reset.
- **Web boot.** Four threads (main, two workers, service worker) and a timer; each
  worker may fail, hang or answer late; isolation may need a reload.
- **Emulator and threads.** Layout and page-table context are singletons of the
  process with create and destroy calls that anyone may make; a creation can fail at
  four steps. Blocks, frames and tables of a program go back in different ways: some
  one by one, some only when the whole allocator is reset, and their bytes stay.
- **Loaders.** Untrusted 32- and 64-bit offsets and sizes, links that may be
  cyclic, windows of windows.

## 2. Plan

The order is by how much of the emulator rests on a part. Done:

1. `PagePool`, `PageAllocator`, `PageAllocatorProofs`: every page of guest RAM.
2. `PageMap`, `VMM`, `VMMProofs`: guest addresses, over which `GuestPages` states the
   flat map for the modules above; `VMMAccess`: the bytes behind them.
3. `GuestMemory`, `ProcessMemory`, `ProcessMemoryProofs`: composes the page allocator
   (its own actions, through INSTANCE) with the flat page map, the memory system
   calls, TLS pages, bootstrap and teardown.
4. `IpcSessions`, `IpcSessionsProofs`: the handle table and the calls on it.
5. `WebBoot`, `WebBootProofs`: the browser boot.
6. `Emulator`, `Threads`, `Program`, which composes the two, `ProgramProofs`: loading,
   creation, unloading, destruction with every failure path, the two process-wide
   singletons, the worker's exported calls, and the threads of the loaded program.
7. What reads untrusted input, each a module of its own, explored side by side by
   `MCInputs`: `IpcMessage` (the messages on a session), `RomFS`, `NPDM`, `Loader`
   (NCA, ExeFS, NSO, byte sources, scratch arena), and `AddressSpace`, whose input
   is the title's code size and the seed.
8. `InputsProofs`: all five of them. `LoopLemmas`: what the proofs about loops rest
   on.

## 3. Modules and the code

| Module | Code | State and actions |
|---|---|---|
| `PagePool` | what `page_allocator.h` promises | The set of pages handed out; allocate some contiguous free run or fail, free, reset. |
| `PageAllocator` | `page_allocator.c` | `used` is `used_bytes`, `free_runs` the array up to `free_run_count`, in pages. One action per outcome: `AllocateFromFreelist`, `AllocateFromCursor`, `AllocateExhausted`, `AllocateCommitFails`; `FreeAtCursor` (with the absorption that follows it), `FreeCoalesced`, `FreePushed`, `FreeListFull`; `Reset`. `held` records what callers own, so that the properties can speak of it. |
| `PageMap` | what `vmm.h` promises | A function from pages to a frame and rights; calls that act on a whole range or not at all. |
| `VMM` | `vmm.c` | L1 words, L2 tables with their cells, the carved count, the free tables with the link word in cell 0, the per-slot counts, borrow records and scopes. Words are records where the code packs bits. Assertions are modelled as an abort of the process. |
| `VMMAccess` | the accessors of `vmm.h`, the block copies of `vmm.c` | Functions of VMM's state over byte addresses: the check of a range, one byte per page, the copy in chunks, the fast path of a fixed width, and the fault, which is what `last_fault` becomes. A range that leaves the space faults at its start, whatever stops it first: the code's choice (section 6). |
| `GuestPages` | `vmm.c` as its callers see it | Operators on a flat map; used in place of the tables because `VMM` is shown to implement it. |
| `GuestMemory` | what the memory system calls promise | Committed heap, loans, and the rights the guest has at each address. |
| `ProcessMemory` | `svc_memory.c`, `process.c`, `tls.c` | The allocator's variables and actions, the flat map, the `Process` fields that matter for memory. A handler that makes one allocator call is one action; one that makes several is a chain of actions, `call` saying how far it got. Failures roll back with the code's own calls. |
| `Threads` | `thread.c`, `tls.c` | `mapped` is the allocator's pages with the bit mask of each, `threads` the Guest_Thread structs, `dirty` the blocks that do not read as zero. `thread_create` succeeds, fails after the frame, or fails after the block. |
| `IpcSessions` | `svc_ipc.c`, `ipc.c` (table), `sm.c` | `sessions` is `IPC_Session_Table`, `registry` sm's registrations, `tls` the access of the page with the command buffer. One action per outcome of a call. `held` is the guest's own record, `reply` the result of the last call. |
| `IpcMessage` | `ipc.c` (parse, dispatch, response), the chain in `svc_ipc.c` | The 64 words of the command buffer, which the guest never clears. A client composes a request or scribbles header words; `SendSyncRequest` parses, looks the command up and writes the response over it. |
| `Emulator` | `emulator.c`, `wasm_entry.c`, the life of `layout.c`'s and `vmm.c`'s singletons, `noop.c` | Layouts and arenas are numbered as they are reserved, so a pointer into one that is gone can be told. Creation has one action per failing step. A behaviour is a native program's or the worker's. |
| `Program` | `emulator.c` over `process.c` and `thread.c` | `Emulator` and `Threads` side by side: load takes the main thread's block, unload and destroy tear the threads' pages down, all else interleaves. |
| `AddressSpace` | `address_space.c` | One call with every type, code size and mixed seed, in the arithmetic of a `Word`; the containment test. |
| `NPDM` | `npdm.c` | A file is a record of its fields. One action per section, one per capability descriptor. |
| `Loader` | `nca_parse.c`, `exefs.c`, `nso.c`, `byte_source.c`, `arena.c`, in the order of `process.c` and `emulator.c` | A package is a record of its fields. One action per stage: header and sections, directory, descriptor, modules, each segment. A stage is a sequence of steps, each the checks before a read and the read; it ends at the first that fails. A source is the sequence of its windows; a read is checked at every level, innermost first. `reads` keeps all reads of the last stage, also one that refused the load: header, probe, directory header, entry table, names, descriptor, each NSO's header and module name, segment. `arena` is the cursor and the range of each thing kept: raw entry table, names and a byte, decoded entries at their alignment, descriptor, and the staging buffer of a segment. |
| `RomFS` | `romfs.c` | The words of an image as a builder makes it, or with one word replaced; open, a lookup as a loop over one chain link at a time, read. |
| `WebBoot` | `main.ts`, `cpu.worker.ts`, `gpu.worker.ts`, the headers of `sw.ts` | `boot()`'s locals, the position of each thread between two awaits, one FIFO queue per worker and direction. |
| `MC*` | | The instances of the runs, section 4. `MCInputs` explores the five input modules in one run: `part` says which one a behaviour is of. |

Abstractions a reader should know:

- Sizes and addresses are counted in pages; the alignment checks, which refuse
  everything else before any state is read, are left out.
- `ProcessMemory` follows the contents of frames only as far as "may hold bytes of an
  earlier owner or zero", one of the frames named in the configuration at a time. The
  bytes outlive the program: `page_allocator_reset` (`page_allocator.c:169-173`), which
  an unload and a failed load end with, clears bookkeeping only. A memset cleans
  what it covers: an image before its segments are copied, a stack, a grown heap. Of a
  new TLS page only the block in use is zeroed, so the frame stays marked; the blocks
  are the subject of `Threads`.
- Threads other than the main one are created by the tests' calls of
  `thread_create`; at this commit no system call reaches it. `Threads` lets them
  be created at any time between system calls, as that interface allows, and so
  does `ProcessMemory` with their pages.
- `Threads.Teardown` waits until no guest thread is live. That is the contract of
  `thread.h:56-57` (what a thread borrows outlives it) and not a check: neither
  `emulator_unload_program` nor `tls_allocator_teardown` looks, and `tls.h:94-95` even
  says that outstanding blocks are forgotten. A caller that destroyed a thread after the
  unload would free a block of pages that are gone, outside what is modelled. No code
  but the tests makes such threads at this commit.
- `FramesAccounted` gives the frame that a failed `vmm_map` of a TLS page loses
  (`tls.c:78`) a place of its own, `lost`: it says that nothing else is lost, and does
  not object to this one, which section 6 lists.
- `Emulator` and `Threads` are composed in `Program`; what system calls do to the
  rest of memory is in `ProcessMemory` and what they do to sessions in
  `IpcSessions`. In `Emulator` those two are a count of pages and of sessions,
  which is what loading and unloading have to reset.
- In `VMM` the free tables are a set and taking one may take any: which one the
  code's list gives depends on the order of releases only.
- The inputs of a loader are records of the fields it reads, each field an
  independent number; decoding little-endian fields is left out. In `Loader` the
  widths that matter are kept: offsets modulo 2^64 and sizes of the arena modulo
  2^32 (`Limit`, `SizeLimit`), small in the instance.
- `RomFS` asks for one lookup per behaviour (the struct keeps nothing from one to
  the next); names are one byte and the tree's hash is a small function.
- `IpcMessage` gives a session one command table, and a command's handler is known
  by its id; a response moves at most one handle.
- At the constants of the code (a heap region of 6 GiB, `address_space.h:51`, and 256
  tables of 64 MiB each, `vmm.h:101`) no program maps enough to run out of tables unless
  its mappings are scattered; the roll-back code for it exists, so the instances make
  it happen.
- In `IpcSessions` a message is what the parser makes of it: unreadable,
  rejected, Close, a request without an object in the answer, or GetService for a
  name. At most one object is in an answer, since IPC_MAX_OUT_OBJECTS is 1, so the
  roll-back loop has one element. The write-back can fail only after
  `vmm_reprotect` made the TLS page read-only, which the host can do and no guest
  call does; the tests do it too.
- In `WebBoot` a hanging worker simply takes no step. The main thread handles one
  message or timer at a time, and the continuation of a settled await runs before
  the next one (`MicrotaskPending`). Messages that only log are left out.

## 4. Runs

| Run | Instance | Asks |
|---|---|---|
| `page_allocator` | 8 pages, freelist of 3 | Are pages lost or given out twice? Do errors change anything? Does it implement `PagePool`? |
| `vmm_pool` | 3 slots of 2 pages, 2 tables, 2 RAM pages | Are tables recycled clean, counted exactly, never lost or shared (`PoolSound`)? Does it implement `PageMap`? |
| `vmm_borrows` | 3 slots, 1 table, 4 kinds of rights, pages of 3 bytes | Do borrowed pointers stay valid? Do the walks agree with the map: the query's strides with a page-by-page definition, block copies and fixed-width accesses with a byte-by-byte one (`WalksAgreeWithMap`)? A refused range inside the space names the first byte at fault, one that leaves the space its start. |
| `process_memory` | heap of 3, two loans, two TLS pages of two blocks, 9 frames, 6 tables | Is every frame reachable once or free? Is the loan table the map's? Is an unloaded process clean? Does it implement `GuestMemory`? |
| `process_recycle` | freelist of 1, one loan, contents of two frames followed | Is new heap zero, whatever happened to its frames before, under this program and under those loaded before it? Do the shrink's assertions fire only on a full freelist? |
| `process_fragments` | three TLS pages, no loans | Does a shrink push at most one run, as `page_allocator.h` assumes? No (finding 1). |
| `ipc_sessions` | 3 slots, 2 registrations, 3 names | Does any slot leak, is any handle given out twice, does an error change anything, does a handle keep its meaning? |
| `program` | one emulator, or the worker; 3 threads, 2 TLS pages of 2 blocks, 3 frames, 4 reservations | Whatever fails, is anything left behind? Are the page tables the live layout's own? Does every program start like the first? Does each thread own its block, and is a new one zero? |
| `emulator_two` | two emulators in one process | Does the first one's context keep its tables when a second creation is refused? No (finding 3). |
| `inputs` | see below | Is every accepted range inside what it is a part of, does every lookup end and agree with a search, does a client get its answer, is the address space tiled? |
| `web_boot` | one tab, at most 2 self-made reloads | Is what the shell shows so (`ShellShowsWhatIsSo`)? Does the boot end? Does it reload more than once? |
| `web_boot_isolation` | same | Does a missing isolation surface as an error? Not when the registration failed (finding 2). |

Why the bounds are enough. The allocator's cases are decided by where a run lies
relative to the cursor and to at most two neighbours, and by whether the list is
full: eight pages with three list entries give every such position, with runs of
every length, and fill the list. For the VMM, three slots over two tables
force recycling; two pages per slot distinguish empty, half and full tables, and
ranges that start and end inside a slot. Pages of three bytes give an access every
start in a page, and up to seven bytes every end in the next two. For the process, a
heap of three granules allows two disjoint loans and a loan across two pages, a
shrink beside a loan and below it, and two free stack pages take two aliases. Nine
frames and six tables for seven slots let each kind of mapping run out.
The shrink's assertions fire in `process_recycle`, whose freelist of one entry a
shrink in pieces overflows, and `AssertsOnlyOnFullFreelist` says that they fire there
for no other reason: a page that is not mapped or not readable, which the comment at
`svc_memory.c:93-97` calls an internal bug, never makes them. A freelist of as many
entries as the heap has granules would not do away with them: with a heap of three
granules and four TLS pages, the pieces of three growths, freed between TLS pages, fill
a list of three, a TLS page takes one of them, the next growth goes past the cursor,
and the shrink after it meets the full list. Three IPC slots hold a session of sm: and of both
services, or are full of one kind; more slots only repeat them, and the theorems
hold for any number. One tab of the web front end is the whole system; the service
worker is shared by tabs but what it does for one does not depend on another.

In `program` four reservations are a creation that fails after the layout or the
arena and another that succeeds, or two whole lives. Three threads and the main one
fill two pages of two blocks, three frames let a failed mapping lose one and still
leave both pages. Threads and frames are symmetric: no action orders either.

In `inputs` a behaviour is of one part; the five do not share state, so a run per
part would show the same.

- `AddressSpace`: a word of 32 values, a span of 26 with fixed regions of 12, every
  code size, so rounding wraps, and every seed, up to the first call that succeeds.
  The theorems cover the rest.
- `NPDM`: one good layout with each range in turn replaced by ranges that end at,
  before and past its container, and every list of up to two capability descriptors
  in either section, among them two of calls in one word of the mask and one whose
  number passes 64 and 192.
- `Loader`: eight-bit offsets, seven-bit sizes, a probe longer than the magic and
  no longer than the header, decoded entries wider than raw ones and aligned, names longer and shorter
  than their buffer; one good package with every range, those of the module names
  included, in turn replaced by all combinations of ends at, before and past each window's, and
  every other field by its limits.
- `RomFS`: two directories and two files with one name under two parents, two
  buckets so that chains hold entries of several directories, all paths of up to
  three tokens and those of four without empty components, and every word of the
  image replaced by each of nine that could matter, which includes rings, links
  between entries and tables past the cap on their sizes.
- `IpcMessage`: tables of no and four commands, declared sizes at every
  boundary of the 0x100 bytes, with and without special header and pid, in any
  order, each over what the last left in the buffer.

`ProcessMemory.cfg` and `ProcessRecycle.cfg` use a VIEW that leaves out `result`,
`reply` and `free_run_count`: no action and no property of those runs reads the first
two, and the third is the length of `free_runs`, which the view keeps.

Fairness is assumed in two places. In `WebBoot`: weak fairness of the main thread's
own next step (a settled await resumes, a rejected or loaded import settles, a reload
that was asked for happens; `register()`, `main.ts:99`, settles one way or the other,
without which the timeout is never armed), of the timeout once armed, and of a service worker's
activation, for which `install` calls `skipWaiting`. Nothing is assumed of the
workers, which may hang at any point, nor of the network behind them. In `InputsSpec`:
weak fairness of `ChainStep`, one round of a loop the code is inside; it is what
`LookupEnds` rests on, and it does not end a chain by itself, which is what the
bound on the number of steps is for. No other liveness is claimed of the core, which
has no scheduler at this commit and runs every handler to its end.

## 5. What is proved

`PageAllocatorProofs`, for every number of pages and every freelist capacity, from
the assumption that both are natural numbers (the number of pages positive):
`TypeCorrect`, `FreelistStaysSound`, `PagesConserved`, `ErrorsChangeNothing` and
`AllocatorImplementsPool`. The induction is on TypeOK, FreelistSound and the fact
that held pages and free runs partition what lies below the cursor; the second
alone is not inductive, because a free may only merge a run that nobody else owns,
which is what the partition says.

`IpcSessionsProofs`, for every number of session slots and registrations, any names
and services, assuming that "sm:" and the mark of an unused slot are no service:
`TableIsTheGuestsRecord`, `ErrorsLeaveTheTable` and `HandlesKeepTheirMeaning`. The
invariant is TypeOK, TableMatchesGuest and the finiteness of the registry. The key
lemma says that `ipc_session_table_open` takes a slot the guest has no handle of.
It needs that a least free slot exists (well-foundedness of the naturals).

`ProgramProofs`, for any values, threads and frames and one emulator struct of a
native program (`OneStruct`) or the worker's: `NothingIsLeft`, `WalksOwn` and
`StartsClean`. `OneStruct` is needed: with two structs `WalksOwn` is false, which is
finding 3. The invariant adds who may be live in which build, that backend states,
context, layout and table entries exist exactly while their emulator does, and that
a struct with no program has no pages and no sessions. `NothingLeftBehind` alone is
not inductive: it says nothing of what a creation finds while an emulator lives, nor
that a destruction which clears the layout ends the only one there.

In the same module, for any number of TLS pages, blocks per page and threads:
`BlocksAreOwned` and `BlocksStartZero`. `EachThreadItsOwnBlock` is inductive with the
types, the finiteness of the set of used blocks (the count of `inUse` is its
cardinality) and the fact that a process without its main thread has no others; the
steps of `Emulator` enter only through the load, which takes the main thread's
block, and the unload, which forgets the pages.

`VMMProofs`, for any number of slots, entries per table, tables, pages of guest RAM
and borrows (`GeometryAssumption`; guest RAM does not start at offset 0 of the linear
memory, `GuestRamBaseAssumption`): `PoolIsSound`, `BorrowsAreValid`, and `Refines`,
that the two levels of tables implement `PageMap`. `PoolSound` and `BorrowsStayValid`
become inductive with three additions: the free count counts the freelist; every
mapped page is backed by guest RAM, so that a page which loses all rights does not
turn into the unmapped word; and borrows lie in the address space. The key lemmas say
for each of `vmm_map`, `vmm_unmap` and `vmm_reprotect` what every page of the space
translates to after it. That the commit loop cannot run out of tables rests on
`AvailableExact`, the cardinality of the pool's three parts. In the same module
`WalksAgree`, also for any number of bytes in a page (`PageBytesAssumption`): in every
state the query's strides, the block copies and the fixed-width accesses give what the
map gives page by page and byte by byte, and the fault is the first byte the map
refuses, except that a range which leaves the space faults at its start. The walks are
functions of the state, so no induction over steps is in it but one over the loop each
of them runs (below).

`ProcessMemoryProofs`, for any number of pages, frames, runs, modules, loans, TLS
pages and any sizes: `OneView`, `FramesAreAccounted`, `LoanTableIsExact`,
`UnloadIsClean`, `QueryTellsTheMap`, `AssertsAreJustified`, the action property
`FreshHeapStartsZero`, and `GuestMemoryIsImplemented`, the refinement of `GuestMemory`. They assume
`SizesAssumption` (natural numbers, at least one module, no empty region) and
`RegionsInOrder` (the code ends where the heap begins or before, then stack, then
TLS, inside the space), which is what `RegionsTileTheSpace` of `AddressSpace` says of
the regions `address_space_init` makes; nothing is assumed of the sizes an npdm
declares, whose checks are actions. None of the invariants is inductive. The
invariant that is, `IInv`, says of each region which pages are mapped and with which
rights (the heap is a mapped prefix of its region, hidden exactly where it is lent;
the stack region holds the main stack and the aliases; the TLS region a prefix, one
page per bitmap), that two pages share a frame only as the two ends of one loan,
that loans are disjoint; and of each handler that takes several steps what it has
done so far: which frames a growth holds that nothing maps yet, which frames a
page-by-page shrink has freed that are still mapped, which part of the teardown is
over, which ranges the bootstrap recorded. The allocator's half is cited from
`PageAllocatorProofs` through INSTANCE. `QueryTellsTheMap` is where the loan table,
the frames and the map meet: a stack page whose frame is some heap page's must be an
alias of a recorded loan. The refinement maps every state by the loan table and the
rights in the map; its main lemma is that in every state of `IInv` those rights are
the ones `GuestMemory` computes from heap size and loans. That the images follow each
other (`ImagesBefore`, a recursive function) is shown by least counterexample, which
needs only that the naturals are well-founded. `AssertsAreJustified` follows the three
places an assertion stands at: the pages of the heap are mapped and readable unless a
loan hides them, which the shrink has excluded; the frames it gives back lie below the
cursor and in no free run, for they are held; so the allocator can only refuse them for
want of an entry in its list. `FreshHeapStartsZero` is for any tracked frames and any
sequence of programs: nothing that ends a program or a failed load cleans a frame, so
what keeps a growth clean is its own memset alone, and the theorem is that no path from
`page_allocator_allocate` to a larger heap goes round it.

`WebBootProofs`, for any number of reloads a user makes and both kinds of host:
`ShellIsTrue` and `OneReloadOnly`. The invariant ties each worker's queues to where
the worker is (a worker that has posted its layout and then its answer has those two
messages in flight or one or none), and the flags of `boot()` to what was received.

`InputsProofs`, for what is read from outside.

- `BlobsInsideFileHolds` and `GrantsAreTheDeclaredHolds`, for any files whose fields
  are unsigned numbers (`FilesAssumption`; a section that fits its container has the
  descriptors its size counts). The invariant says stage by stage which containers
  are known to fit and what the first `index` descriptors have granted. That no bit of
  the mask is lost or shared is arithmetic: a call number has one word and one bit.
- `DataInsideBufferHolds`, for any tables, commands and headers (`MessageAssumption`:
  counts are natural numbers). The client's words are arbitrary leftovers of earlier
  messages, so the invariant only needs that a header's count is a number; the bound
  comes from the reader's own checks.
- `ClientGetsItsAnswerHolds`, for any sorted command tables of any length: what a
  client composes is parsed as it was meant, the binary search finds its command if the
  table has it and only then, and the response, written over the request, is read by
  the client as the handler's. The invariant keeps what the client meant beside the
  words it wrote, where one differs from the other only by a scribble.
- `ReadsStayInEveryWindowHolds`, `PayloadsInsideSectionsHolds`,
  `ImagesHoldTheirSegmentsHolds` and `ScratchInsideArenaHolds`, for any package whose
  fields are unsigned numbers and whose size fits the offset type
  (`PackagesAssumption`) and for any limits that satisfy `LoaderAssumption`; `SizesFit`
  in it is what the caps of the code give, that no request to the arena can wrap
  `size_t`. The invariant `LoaderIInv` says that every source in use is nested (each
  window inside the one before), that every read of the last step lies in such a source,
  that the directory's entries are numbers, that every module opened is sound, which
  segment is next, and of the arena where each thing that is kept lies at each stage:
  inside, apart from the others, below the cursor. None of the four is inductive
  without it: a read is in its windows only because the slice it is made of was
  checked when it was made, and a module name, whose offset is the guest's, only because
  `nso.c` compares it with the NSO's size. Sources have at most three windows, so their
  recursive places are unfolded level by level.
- `HandedOutInsideHolds`, for any image: any sequence of words whose size in bytes is
  below the mark of no entry (`AnyImage`; a table as large as that mark would make an
  offset of the table look like none). Neither the tree nor what a builder does
  matters, and of the hash only that it is a number (`HashAssumption`). The invariant
  `RomIInv` says that the tables of an opened reader hold the words of their sizes,
  that a place in a chain has the kind of entry it ends in, and that what was found is
  sound; each step of a lookup is an outcome or another place in a chain.
- `LookupAgreesWithTreeHolds`, for any tree (`TreeAssumption`: every entry is under a
  directory of it), any hash, number of buckets and paths, of images no larger than
  `AnyImage` allows: a lookup in the image as built answers what the tree answers. It
  has four parts. What a builder concatenates is where the header says it is, word by
  word, so an opened reader holds the tree's own tables (`OpensFaithfully`), and
  decoding at a node's offset gives that node (`DirEntryIs`, `FileEntryIs`). The links
  lead through the nodes of one bucket in the order of the tree (`HeadsAre`,
  `DirWordsAre`, `FileWordsAre`). The names of a path are every other of its tokens
  (`ComponentsAre`). The invariant `LookIInv` adds to `RomIInv` that a walk looks for
  the k-th name in the directory the names before lead to and has not passed it, having
  gone no more steps than the number of the node it is at (`FollowsPath`): so the
  loop's limit never ends a walk, and the end of a chain means that there is no such name.
- `Tiling` and `Containment`, for all sizes of regions, pages, granules and words that
  satisfy `SizesAssumption` (positive numbers; the fixed regions leave room in the
  span, the space ends inside the word and holds a page). The induction is trivial,
  for a layout is made in one call; the work is in the arithmetic. That rounding up
  does not wrap follows only from the first of the two comparisons
  (`address_space.c:39-45`), and that the last region ends inside the space only from
  the division that bounds the ASLR offset.

How a loop is proved about. The induction theorems of the library cannot be used (they
take an operator), so a loop of the code is a recursive function, which TLA+ defines by
CHOOSE: there may be none. `LoopLemmas` shows that there is one when a measure goes down
(`LoopHasResult`), by the least stage at which no partial function exists, and what the
loop computes is shown by a least counterexample, that is from the well-foundedness of
the naturals alone. `FoldHasResult` and `Reaches` are the same for a loop that counts up
to a number.

Only model-checked is liveness under fairness (`BootSettles`, `LookupEnds`), which is out
of the prover's reach, as are ENABLED and recursive operators.

## 6. Findings

With a run that shows it:

1. `page_allocator.h:44-45` sizes the freelist on at most one run per SetHeapSize;
   when a TLS page lies between two growths one shrink pushes several
   (`svc_memory.c:119`). Run `process_fragments`.
2. `capabilities.ts:3-5` says missing isolation surfaces as an error; when the
   service worker registration fails the boot awaits `serviceWorker.ready` for good
   (`main.ts:43`). Run `web_boot_isolation`.
3. `vmm.h:151-152` and `layout.h:133-134` make a second `layout_create` a no-op on
   the one live layout; the `emulator_create` that made it, refused by `vmm_create`,
   destroys that layout under the first emulator's context (`emulator.c:29`). Run
   `emulator_two`.

Noticed while modelling, without a run of their own:

- `page_allocator.h:25-28` calls `used_bytes` a high-water mark; a free at the
  cursor takes it down (`page_allocator.c:124`).
- `main.ts:3-5` and `App.tsx:48` tie the shell to both workers being ready; failed
  workers and the timeout bring it up too (`main.ts:231`).
- `romfs.h:44-46` says empty path components are rejected; one trailing slash, and
  so an empty last component, is accepted (`romfs.c:292`).
- `sm.c:26-30` says a request shorter than a name "just will not match any
  registration"; padded with zeros (`sm.c:34`) it matches a name that ends in them.
- `thread.h:90-91` says a failed creation leaves nothing behind; when `vmm_map` of a
  new TLS page fails, its frame stays allocated until the process ends (`tls.c:78`).
- `vmm.h:124` says the fault "out of range" means gva >= VMM_ADDRESS_SPACE_SIZE and
  `vmm.h:129-131` that gva is the faulting byte; for a range that starts in the space
  and runs past it `vmm.c:453-455` and `601-603` report "out of range" at the start,
  which may even be unmapped itself. The tests (`vmm_test.c:353`, `395`) look at the
  kind only.
- `exefs.h:32-34` bounds what goes into the arena by decoded entries and names;
  `exefs.c:51-53` also keeps the raw entry table, a byte after the names and the
  alignment of the entries, so a full directory takes more than the documented maximum.
- `npdm.h:187-189` describes the SVC allow-list as what the dispatcher consults; at
  this commit `hle_on_svc` (`hle.c:124`) does not.

## 7. Not modelled, and why

- The service worker's caches (`sw.ts`): the shell and `switch_core.wasm` are served
  from the cache for good and the assets they name from the network. What a
  deployment replaces and when a browser evicts is decided outside the repository.
- The sizes and packing of the layout's small regions, and its page-by-page commit
  on Windows, of which `PageAllocator` has the failure.
- Of the loaders: the module id's hexadecimal form, little-endian decoding, and the
  second probe of a RomFS section, which the load path does not make.
- Of the no-op backend: the handlers it only stores and the empty cache calls.
- Logging, errors, the user interface and the bindings: no control flow that could
  go wrong in an order or a sequence.
- `third_party/lz4` (vendored) and `poc/` (experiments no build target uses).
