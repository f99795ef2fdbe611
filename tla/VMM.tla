-------------------------------- MODULE VMM ---------------------------------
(***************************************************************************)
(* The guest virtual memory manager, core/common/vmm.c: an L1 table whose  *)
(* slots name L2 tables taken from a fixed pool, L2 entries that hold a    *)
(* host page and its permissions, a mapped-page count per slot that gives  *)
(* an emptied table back, and the debug build's tracking of host pointers  *)
(* borrowed through vmm_guest_to_host.                                     *)
(*                                                                         *)
(* Addresses are counted in pages; vpn v sits in slot v \div L2Entries at  *)
(* index v % L2Entries.  An entry is a record of host page and permission  *)
(* bits, and EmptyPte is the all-zero word.  A call validates its whole    *)
(* range before it writes, so the writes of a call are one step.           *)
(*                                                                         *)
(* The free tables are a set here, of which any may be taken.  What is     *)
(* kept of their chain is the word that a release leaves in entry 0 of a   *)
(* table (FreeLink, or the null link of the first table on an empty        *)
(* freelist), which whoever takes the table must clear.  Accesses to the   *)
(* bytes of a page are in VMMAccess.                                       *)
(***************************************************************************)
EXTENDS Integers, FiniteSets

CONSTANTS
  L1Entries,      \* VMM_L1_ENTRY_COUNT
  L2Entries,      \* VMM_L2_ENTRY_COUNT
  TableCapacity,  \* VMM_L2_TABLE_CAPACITY
  RamPages,       \* guest_ram_size, in pages
  GuestRamBase,   \* guest_ram_base, in pages
  MaxBorrows,     \* VMM_DEBUG_MAX_BORROWS
  PermArgs        \* permission words callers pass

Rights == {"R", "W", "X"}     \* VMM_PERM_ALL

ASSUME GeometryAssumption ==
  /\ L1Entries \in Nat \ {0}
  /\ L2Entries \in Nat \ {0}
  /\ TableCapacity \in Nat
  /\ RamPages \in Nat \ {0}
  /\ MaxBorrows \in Nat
(* Guest RAM never starts at linear-memory offset 0: otherwise a page with *)
(* no permissions on its first page would be the all-zero, unmapped word.  *)
ASSUME GuestRamBaseAssumption == GuestRamBase \in Nat \ {0}

Slots   == 0 .. (L1Entries - 1)
Entries == 0 .. (L2Entries - 1)
Tables  == 1 .. TableCapacity
NoTable == 0

PageTotal == L1Entries * L2Entries
Vpns      == 0 .. (PageTotal - 1)
SlotOf(v)  == v \div L2Entries
IndexOf(v) == v % L2Entries
VpnAt(s, e) == s * L2Entries + e

Pte      == [host : Nat, perms : SUBSET Rights]
EmptyPte == [host |-> 0, perms |-> {}]
FreeLink == [host |-> GuestRamBase, perms |-> {}]

Borrow == [vpn : Vpns, page_count : Nat, host : Nat, perms : SUBSET Rights]

VARIABLES
  live,               \* g_vmm_live
  l1,                 \* l1[s]: the table of slot s, or NoTable
  l2,                 \* l2[t][e]: the words of every table in the arena
  l2_freelist,        \* the tables on the freelist
  l2_free_count,
  l2_carved_count,
  l2_mapped_count,    \* mapped entries per slot
  borrows,            \* live borrows of the open scope
  borrow_scope_depth,
  aborted,            \* an always-on assertion has fired
  result              \* the Error code of the last mapping call

tableVars  == <<l1, l2, l2_freelist, l2_free_count, l2_carved_count, l2_mapped_count>>
borrowVars == <<borrows, borrow_scope_depth>>
vars == <<live, l1, l2, l2_freelist, l2_free_count, l2_carved_count,
          l2_mapped_count, borrows, borrow_scope_depth, aborted, result>>

(* Nothing happens on a dead context, or after an assertion has fired. *)
Running == live /\ ~aborted

-----------------------------------------------------------------------------
(* Walking the tables *)

PteLoad(v) == IF l1[SlotOf(v)] = NoTable
              THEN EmptyPte
              ELSE l2[l1[SlotOf(v)]][IndexOf(v)]

MakePte(pa, perms) == [host |-> GuestRamBase + pa, perms |-> perms]

VpnRange(v, n) == v .. (v + n - 1)
ValidPageRange(v, n) == n > 0 /\ v < PageTotal /\ n <= PageTotal - v
RangeMapped(v, n)   == \A w \in VpnRange(v, n) : PteLoad(w) # EmptyPte
RangeUnmapped(v, n) == \A w \in VpnRange(v, n) : PteLoad(w) = EmptyPte

(* vmm_translate: the host page of v when it grants `required`. *)
Grants(v, required) == PteLoad(v) # EmptyPte /\ required \subseteq PteLoad(v).perms

(* The table pool *)
L2TablesAvailable == l2_free_count + (TableCapacity - l2_carved_count)
SlotsTouched(v, n) == {s \in Slots : SlotOf(v) <= s /\ s <= SlotOf(v + n - 1)}
AbsentSlots(v, n)  == {s \in SlotsTouched(v, n) : l1[s] = NoTable}

BorrowContainsStart(v, n) ==                                       \* mutant
  \E b \in borrows : b.vpn <= v /\ v < b.vpn + b.page_count
BorrowOverlaps(v, n) ==
  \E b \in borrows : v < b.vpn + b.page_count /\ b.vpn < v + n

-----------------------------------------------------------------------------
(* vmm_create and vmm_destroy.  malloc'd memory holds anything: one stale  *)
(* table pointer and one stale word stand for it.                          *)

StaleTables == [t \in Tables |-> [e \in Entries |-> FreeLink]]
StaleL1     == [s \in Slots |-> TableCapacity]

Init ==
  /\ live = FALSE
  /\ l1 = StaleL1
  /\ l2 = StaleTables
  /\ l2_freelist = {} /\ l2_free_count = 0 /\ l2_carved_count = 0
  /\ l2_mapped_count = [s \in Slots |-> 0]
  /\ borrows = {} /\ borrow_scope_depth = 0
  /\ aborted = FALSE
  /\ result = "OK"

Create ==
  /\ ~live /\ ~aborted
  /\ live' = TRUE
  /\ l1' = [s \in Slots |-> NoTable]
  /\ l2' = StaleTables
  /\ l2_freelist' = {} /\ l2_free_count' = 0 /\ l2_carved_count' = 0
  /\ l2_mapped_count' = [s \in Slots |-> 0]
  /\ borrows' = {} /\ borrow_scope_depth' = 0
  /\ result' = "OK"
  /\ UNCHANGED aborted

Destroy ==
  /\ Running
  /\ live' = FALSE
  /\ l1' = [s \in Slots |-> NoTable]
  /\ l2_freelist' = {} /\ l2_free_count' = 0 /\ l2_carved_count' = 0
  /\ l2_mapped_count' = [s \in Slots |-> 0]
  /\ borrows' = {} /\ borrow_scope_depth' = 0
  /\ result' = "OK"
  /\ UNCHANGED <<l2, aborted>>

-----------------------------------------------------------------------------
(* vmm_map *)

MapArgumentsBad(v, n, pa, perms) ==
  \/ ~ValidPageRange(v, n)
  \/ pa >= RamPages \/ n > RamPages - pa
  \/ ~(perms \subseteq Rights)

MapAccepted(v, n, pa, perms) ==
  /\ ~MapArgumentsBad(v, n, pa, perms)
  /\ RangeUnmapped(v, n)

MapRejected(v, n, pa, perms) ==
  /\ Running
  /\ ~MapAccepted(v, n, pa, perms)
  /\ result' = "INVALID_ARGUMENT"
  /\ UNCHANGED <<live, tableVars, borrowVars, aborted>>

MapOutOfTables(v, n, pa, perms) ==
  /\ Running
  /\ MapAccepted(v, n, pa, perms)
  /\ Cardinality(AbsentSlots(v, n)) > L2TablesAvailable
  /\ result' = "OUT_OF_MEMORY"
  /\ UNCHANGED <<live, tableVars, borrowVars, aborted>>

(* l2_table_acquire, once per absent slot: free tables first, then tables  *)
(* carved in order.  `new` gives each absent slot its table.               *)
Acquired(new, absent, recycled, carved) ==
  /\ recycled # l2_freelist => carved = 0
  /\ {new[s] : s \in absent} = recycled \cup VpnRange(l2_carved_count + 1, carved)
  /\ \A s, r \in absent : new[s] = new[r] => s = r

ClearedButLink(t, e, recycled, carved) ==                          \* mutant
  IF t \in VpnRange(l2_carved_count + 1, carved) THEN EmptyPte ELSE l2[t][e]

(* A carved table is zeroed, a recycled one has only its link cleared. *)
Cleared(t, e, recycled, carved) ==
  CASE t \in VpnRange(l2_carved_count + 1, carved) -> EmptyPte
    [] t \in recycled /\ e = 0 -> EmptyPte
    [] OTHER -> l2[t][e]

(* The page of the range whose entry is word e of table t, if there is one. *)
Backs(directory, w, t, e) == directory[SlotOf(w)] = t /\ IndexOf(w) = e
InRange(directory, t, e, v, n) == \E w \in VpnRange(v, n) : Backs(directory, w, t, e)
PageAt(directory, t, e, v, n)  == CHOOSE w \in VpnRange(v, n) : Backs(directory, w, t, e)

(* Pages of the range that fall in slot s. *)
PagesIn(s, v, n) == {w \in VpnRange(v, n) : SlotOf(w) = s}

MapCommits(v, n, pa, perms, recycled, carved, new) ==
  /\ Acquired(new, AbsentSlots(v, n), recycled, carved)
  /\ l1' = [s \in Slots |-> IF s \in AbsentSlots(v, n) THEN new[s] ELSE l1[s]]
  /\ l2' = [t \in Tables |-> [e \in Entries |->
             IF InRange(l1', t, e, v, n)
             THEN MakePte(pa + (PageAt(l1', t, e, v, n) - v), perms)
             ELSE Cleared(t, e, recycled, carved)]]
  /\ l2_freelist' = l2_freelist \ recycled
  /\ l2_free_count' = l2_free_count - Cardinality(recycled)
  /\ l2_carved_count' = l2_carved_count + carved
  /\ l2_mapped_count' = [s \in Slots |->
                           l2_mapped_count[s] + Cardinality(PagesIn(s, v, n))]

Map(v, n, pa, perms) ==
  /\ Running
  /\ MapAccepted(v, n, pa, perms)
  /\ Cardinality(AbsentSlots(v, n)) <= L2TablesAvailable
  /\ ~BorrowOverlaps(v, n)
  /\ \E recycled \in SUBSET l2_freelist,
        carved \in 0 .. (TableCapacity - l2_carved_count),
        new \in [AbsentSlots(v, n) -> Tables] :
       MapCommits(v, n, pa, perms, recycled, carved, new)
  /\ result' = "OK"
  /\ UNCHANGED <<live, borrowVars, aborted>>

-----------------------------------------------------------------------------
(* vmm_unmap and vmm_reprotect *)

RangeAccepted(v, n) == ValidPageRange(v, n) /\ RangeMapped(v, n)

(* require_range_mapped fails, or the permission word has unknown bits. *)
RangeRejected(v, n, perms) ==
  /\ Running
  /\ ~(perms \subseteq Rights /\ RangeAccepted(v, n))
  /\ result' = "INVALID_ARGUMENT"
  /\ UNCHANGED <<live, tableVars, borrowVars, aborted>>

(* A slot whose last mapped entry goes gives its table to the freelist. *)
EmptiedByAnyPage(v, n) == {s \in SlotsTouched(v, n) : l1[s] # NoTable}  \* mutant
Emptied(v, n) ==
  {s \in SlotsTouched(v, n) : l2_mapped_count[s] = Cardinality(PagesIn(s, v, n))}
Released(v, n) == {l1[s] : s \in Emptied(v, n)}

(* Tables are released in slot order; the first one onto an empty freelist *)
(* links to NULL.                                                          *)
LinkWord(t, v, n) ==
  IF l2_freelist = {} /\ \A s \in Emptied(v, n) :
                           l1[s] = t => \A r \in Emptied(v, n) : s <= r
  THEN EmptyPte ELSE FreeLink

Unmap(v, n) ==
  /\ Running
  /\ RangeAccepted(v, n)
  /\ ~BorrowOverlaps(v, n)
  /\ l1' = [s \in Slots |-> IF s \in Emptied(v, n) THEN NoTable ELSE l1[s]]
  /\ l2' = [t \in Tables |-> [e \in Entries |->
             IF t \in Released(v, n) /\ e = 0 THEN LinkWord(t, v, n)
             ELSE IF InRange(l1, t, e, v, n) THEN EmptyPte
             ELSE l2[t][e]]]
  /\ l2_freelist' = l2_freelist \cup Released(v, n)
  /\ l2_free_count' = l2_free_count + Cardinality(Emptied(v, n))
  /\ l2_mapped_count' = [s \in Slots |->
                           l2_mapped_count[s] - Cardinality(PagesIn(s, v, n))]
  /\ result' = "OK"
  /\ UNCHANGED <<live, l2_carved_count, borrowVars, aborted>>

Reprotect(v, n, perms) ==
  /\ Running
  /\ perms \subseteq Rights
  /\ RangeAccepted(v, n)
  /\ ~BorrowOverlaps(v, n)
  /\ l2' = [t \in Tables |-> [e \in Entries |->
             IF InRange(l1, t, e, v, n) THEN [host |-> l2[t][e].host, perms |-> perms]
                                        ELSE l2[t][e]]]
  /\ result' = "OK"
  /\ UNCHANGED <<live, l1, l2_freelist, l2_free_count, l2_carved_count,
                 l2_mapped_count, borrowVars, aborted>>

-----------------------------------------------------------------------------
(* Borrows (debug build): vmm_guest_to_host hands out a host pointer that  *)
(* is good until the scope ends, and a mutation under it is an assertion.  *)

Abort ==
  /\ aborted' = TRUE
  /\ UNCHANGED <<live, tableVars, borrowVars, result>>

MutationUnderBorrow(v, n, pa, perms) ==
  /\ Running
  /\ BorrowOverlaps(v, n)
  /\ \/ /\ MapAccepted(v, n, pa, perms)
        /\ Cardinality(AbsentSlots(v, n)) <= L2TablesAvailable
     \/ RangeAccepted(v, n)
  /\ Abort

BorrowScopeBegin ==
  /\ Running
  /\ borrow_scope_depth = 0
  /\ borrow_scope_depth' = 1 /\ borrows' = {}
  /\ UNCHANGED <<live, tableVars, aborted, result>>

BorrowScopeEnd ==
  /\ Running
  /\ borrow_scope_depth = 1
  /\ borrow_scope_depth' = 0 /\ borrows' = {}
  /\ UNCHANGED <<live, tableVars, aborted, result>>

(* A begin inside a scope, or an end with no scope open: at any time one   *)
(* of the two is a misuse.                                                 *)
ScopeMisused == Running /\ Abort

(* Every page grants `required` and sits where a contiguous run puts it. *)
HostContiguous(v, n, required) ==
  \A w \in VpnRange(v, n) :
    Grants(w, required) /\ PteLoad(w).host = PteLoad(v).host + (w - v)

CanBorrow(v, n, required) ==
  required # {} /\ ValidPageRange(v, n) /\ HostContiguous(v, n, required)

GuestToHost(v, n, required) ==
  /\ Running
  /\ CanBorrow(v, n, required)
  /\ borrow_scope_depth = 1
  /\ Cardinality(borrows) < MaxBorrows
  /\ borrows' = borrows \cup {[vpn |-> v, page_count |-> n,
                               host |-> PteLoad(v).host, perms |-> required]}
  /\ UNCHANGED <<live, tableVars, borrow_scope_depth, aborted, result>>

(* Outside a scope, or one borrow too many. *)
BorrowMisused(v, n, required) ==
  /\ Running
  /\ CanBorrow(v, n, required)
  /\ borrow_scope_depth = 0 \/ Cardinality(borrows) >= MaxBorrows
  /\ Abort

-----------------------------------------------------------------------------
(* vmm_query: the run around v, found by stepping outwards page by page    *)
(* and, in a hole, over whole absent slots.                                *)

RunKey(v)     == [mapped |-> PteLoad(v) # EmptyPte, perms |-> PteLoad(v).perms]
AbsentSlot(v) == l1[SlotOf(v)] = NoTable

QueryStart(v) ==
  LET hole == ~RunKey(v).mapped
      back[s \in 0 .. v] ==
        IF s = 0 THEN 0
        ELSE IF hole /\ IndexOf(s) = 0 /\ AbsentSlot(s - 1) THEN back[s - L2Entries]
        ELSE IF RunKey(s - 1) # RunKey(v) THEN s
        ELSE back[s - 1]
  IN back[v]

QueryEnd(v) ==
  LET hole == ~RunKey(v).mapped
      forth[s \in (v + 1) .. PageTotal] ==
        IF s = PageTotal THEN s
        ELSE IF hole /\ IndexOf(s) = 0 /\ AbsentSlot(s) THEN forth[s + L2Entries]
        ELSE IF RunKey(s) # RunKey(v) THEN s
        ELSE forth[s + 1]
  IN forth[v + 1]

-----------------------------------------------------------------------------
RangeStarts == 0 .. PageTotal
RangeSizes  == 0 .. PageTotal

(* Calls with every argument a caller could pass. *)
Next ==
  \/ Create
  \/ Destroy
  \/ \E v \in RangeStarts, n \in RangeSizes, perms \in PermArgs, pa \in 0 .. RamPages :
       \/ MapRejected(v, n, pa, perms)
       \/ MapOutOfTables(v, n, pa, perms)
       \/ Map(v, n, pa, perms)
       \/ MutationUnderBorrow(v, n, pa, perms)
  \/ \E v \in RangeStarts, n \in RangeSizes, perms \in PermArgs :
       \/ RangeRejected(v, n, perms)
       \/ Reprotect(v, n, perms)
       \/ GuestToHost(v, n, perms)
       \/ BorrowMisused(v, n, perms)
  \/ \E v \in RangeStarts, n \in RangeSizes : Unmap(v, n)
  \/ BorrowScopeBegin
  \/ BorrowScopeEnd
  \/ ScopeMisused

Spec == Init /\ [][Next]_vars

-----------------------------------------------------------------------------
(* Type invariant of the tables, the pool and the borrow list. *)
TypeOK ==
  /\ live \in BOOLEAN /\ aborted \in BOOLEAN
  /\ l1 \in [Slots -> {NoTable} \cup Tables]
  /\ l2 \in [Tables -> [Entries -> Pte]]
  /\ l2_freelist \subseteq Tables
  /\ l2_free_count \in Nat
  /\ l2_carved_count \in 0 .. TableCapacity
  /\ l2_mapped_count \in [Slots -> Nat]
  /\ borrows \subseteq Borrow
  /\ borrow_scope_depth \in {0, 1}
  /\ result \in {"OK", "INVALID_ARGUMENT", "OUT_OF_MEMORY"}

(* No table hangs in two slots, hangs in a slot while on the freelist, or  *)
(* is in use before it was carved; and no carved table is lost.            *)
PoolPartition ==
  live =>
    /\ \A s, r \in Slots : l1[s] # NoTable /\ l1[s] = l1[r] => s = r
    /\ \A s \in Slots : l1[s] \notin l2_freelist
    /\ {l1[s] : s \in Slots} \cup l2_freelist \cup {NoTable} = 0 .. l2_carved_count

(* A free table is all zero but for its link, so taking it cannot bring    *)
(* back a translation of the pages it used to describe.                    *)
FreeTablesClean ==
  \A t \in l2_freelist : \A e \in Entries : e # 0 => l2[t][e] = EmptyPte

(* The count that decides when a table goes back is exact, and a slot has  *)
(* a table if and only if it has a mapped page.                            *)
MappedIn(s) == {w \in Vpns : SlotOf(w) = s /\ PteLoad(w) # EmptyPte}
MappedCountExact ==
  live => \A s \in Slots : /\ l2_mapped_count[s] = Cardinality(MappedIn(s))
                           /\ l1[s] = NoTable <=> MappedIn(s) = {}

(* Capacity is lost to nothing but mapped pages: the check that answers    *)
(* OUT_OF_MEMORY counts every slot with a page in it and nothing else.     *)
TablesAvailableExact ==
  live => L2TablesAvailable
            = TableCapacity - Cardinality({s \in Slots : MappedIn(s) # {}})

(* The pool of tables is sound (l2_table_acquire, l2_table_release, the    *)
(* counts of vmm_map and vmm_unmap): no table is lost, shared or dirty, and*)
(* both counts are exact.                                                  *)
PoolSound ==
  TypeOK /\ PoolPartition /\ FreeTablesClean /\ MappedCountExact /\ TablesAvailableExact

(* A borrowed host pointer stays good over its whole extent for as long as *)
(* its scope is open: every page it spans still translates to where the    *)
(* pointer says, with the permissions it was given out for.                *)
BorrowsStayValid ==
  \A b \in borrows : \A w \in VpnRange(b.vpn, b.page_count) :
    Grants(w, b.perms) /\ PteLoad(w).host = b.host + (w - b.vpn)

(* vmm_query answers with the maximal run around the page: it contains it, *)
(* is uniform, and cannot be extended either way, although it strides over *)
(* absent tables without looking at their pages; and a mapped page with no *)
(* permissions is never merged with a hole.                                *)
SameRegion(v, w) ==
  /\ PteLoad(v) = EmptyPte <=> PteLoad(w) = EmptyPte
  /\ PteLoad(v).perms = PteLoad(w).perms
QueryIsMaximalRun ==
  live => \A v \in Vpns :
    LET start == QueryStart(v) end == QueryEnd(v)
    IN /\ start <= v /\ v < end
       /\ \A w \in start .. (end - 1) : SameRegion(v, w)
       /\ start > 0 => ~SameRegion(v, start - 1)
       /\ end < PageTotal => ~SameRegion(v, end)

(* The tables implement the flat page map, errors included. *)
FlatPage(v) ==
  IF ~live \/ PteLoad(v) = EmptyPte
  THEN [pa |-> -1, perms |-> {}]
  ELSE [pa |-> PteLoad(v).host - GuestRamBase, perms |-> PteLoad(v).perms]

Flat == INSTANCE PageMap WITH page <- [v \in Vpns |-> FlatPage(v)], outcome <- result
ImplementsPageMap == Flat!FlatSpec
=============================================================================
