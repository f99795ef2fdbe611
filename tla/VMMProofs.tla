------------------------------ MODULE VMMProofs -------------------------------
(***************************************************************************)
(* For every size of the tables, the pool and guest RAM: the table pool is *)
(* sound, a borrowed host pointer stays good while its scope is open, and  *)
(* the two levels of tables implement the flat page map; the query's       *)
(* strides, the block copies and the fixed-width accesses agree with it.   *)
(*                                                                         *)
(* PoolSound is inductive once three things are added: the free count      *)
(* counts the freelist, mapped pages are backed by guest RAM (a page that  *)
(* loses all permissions must not become the unmapped word), and borrows   *)
(* lie in the address space.  For each of vmm_map, vmm_unmap and           *)
(* vmm_reprotect there is a lemma about the tables and the pool, one about *)
(* the words (what every page of the address space translates to after it),*)
(* and one about the counts; the second is what the borrows and the flat   *)
(* map follow from.                                                        *)
(***************************************************************************)
EXTENDS VMMAccess, FiniteSetTheorems, SequenceTheorems, LoopLemmas, TLAPS

\* The free count counts the freelist; with the rest it gives the last part of
\* PoolSound, and it is what a step preserves.
FreeCountExact == l2_free_count = Cardinality(l2_freelist)

\* A borrow lies in the address space.
BorrowsInSpace == \A b \in borrows : ValidPageRange(b.vpn, b.page_count)

\* A mapped page is backed by guest RAM, so that no protection makes its word
\* the unmapped one.
BackedByRam ==
  live => \A w \in Vpns : PteLoad(w) # EmptyPte =>
            GuestRamBase <= PteLoad(w).host /\ PteLoad(w).host < GuestRamBase + RamPages

IInv ==
  /\ TypeOK /\ PoolPartition /\ FreeTablesClean /\ MappedCountExact
  /\ FreeCountExact /\ BackedByRam /\ BorrowsInSpace /\ BorrowsStayValid

-----------------------------------------------------------------------------
(* Addresses: a page and its slot and index.                               *)

LEMMA DivMod ==
  ASSUME NEW v \in Nat
  PROVE  /\ SlotOf(v) \in Nat /\ IndexOf(v) \in Entries
         /\ v = SlotOf(v) * L2Entries + IndexOf(v)
BY GeometryAssumption, SMTT(30) DEF SlotOf, IndexOf, Entries

LEMMA Times ==
  ASSUME NEW a \in Nat, NEW b \in Nat, a < b
  PROVE  /\ (a + 1) * L2Entries = a * L2Entries + L2Entries
         /\ (a + 1) * L2Entries <= b * L2Entries
         /\ a * L2Entries \in Nat /\ b * L2Entries \in Nat
BY GeometryAssumption, SMTT(30)

LEMMA DivUnique ==
  ASSUME NEW s \in Nat, NEW e \in Entries
  PROVE  SlotOf(s * L2Entries + e) = s /\ IndexOf(s * L2Entries + e) = e
BY GeometryAssumption, SMTT(30) DEF SlotOf, IndexOf, Entries

LEMMA Ordered ==
  ASSUME NEW v \in Nat, NEW w \in Nat
  PROVE  /\ v <= w => SlotOf(v) <= SlotOf(w)
         /\ SlotOf(v) = SlotOf(w) /\ IndexOf(v) = IndexOf(w) => v = w
<1> USE GeometryAssumption
<1> DEFINE a == SlotOf(v)
           b == SlotOf(w)
<1>1. a \in Nat /\ b \in Nat /\ IndexOf(v) \in 0 .. L2Entries - 1 /\ IndexOf(w) \in 0 .. L2Entries - 1
      /\ v = a * L2Entries + IndexOf(v) /\ w = b * L2Entries + IndexOf(w)
  BY DivMod DEF Entries
<1> HIDE DEF a, b
<1>2. ASSUME v <= w, b < a PROVE FALSE
  <2>1. (b + 1) * L2Entries = b * L2Entries + L2Entries /\ (b + 1) * L2Entries <= a * L2Entries
        /\ b * L2Entries \in Nat /\ a * L2Entries \in Nat
    BY <1>1, <1>2, Times
  <2> QED BY <1>1, <1>2, <2>1
<1> QED BY <1>1, <1>2 DEF a, b

LEMMA InSlots ==
  ASSUME NEW v \in Vpns
  PROVE  v \in Nat /\ SlotOf(v) \in Slots /\ IndexOf(v) \in Entries
<1> USE GeometryAssumption
<1>1. v \in Nat /\ v < L1Entries * L2Entries
  BY DEF Vpns, PageTotal
<1> DEFINE a == SlotOf(v)
<1>2. a \in Nat /\ IndexOf(v) \in 0 .. L2Entries - 1 /\ v = a * L2Entries + IndexOf(v)
  BY <1>1, DivMod DEF Entries
<1> HIDE DEF a
<1>3. ASSUME L1Entries <= a PROVE FALSE
  <2>1. L1Entries * L2Entries <= a * L2Entries
    <3>1. CASE L1Entries = a
      BY <3>1, <1>2, SMTT(30)
    <3>2. CASE L1Entries < a
      BY <3>2, <1>2, Times, SMTT(30)
    <3> QED BY <1>2, <1>3, <3>1, <3>2
  <2>2. a * L2Entries \in Nat /\ L1Entries * L2Entries \in Nat
    BY <1>2, SMTT(30)
  <2> QED BY <1>1, <1>2, <2>1, <2>2
<1> QED BY <1>1, <1>2, <1>3 DEF a, Slots, Entries

LEMMA EntryOfSlot ==
  ASSUME NEW s \in Slots, NEW e \in Entries
  PROVE  VpnAt(s, e) \in Vpns /\ SlotOf(VpnAt(s, e)) = s /\ IndexOf(VpnAt(s, e)) = e
<1> USE GeometryAssumption
<1>1. s \in Nat /\ s < L1Entries /\ e \in Nat /\ e < L2Entries
  BY DEF Slots, Entries
<1>2. s * L2Entries + L2Entries <= L1Entries * L2Entries /\ s * L2Entries \in Nat
      /\ L1Entries * L2Entries \in Nat
  BY <1>1, Times
<1>3. s * L2Entries + e \in 0 .. L1Entries * L2Entries - 1
  BY <1>1, <1>2
<1> QED BY <1>1, <1>3, DivUnique DEF VpnAt, Vpns, PageTotal

\* The pages of a valid range are pages of the address space.
LEMMA RangeInSpace ==
  ASSUME NEW v \in Nat, NEW n \in Nat, ValidPageRange(v, n)
  PROVE  /\ VpnRange(v, n) \subseteq Vpns
         /\ v \in VpnRange(v, n) /\ v + n - 1 \in VpnRange(v, n)
         /\ \A w \in VpnRange(v, n) : w \in Nat /\ v <= w /\ w <= v + n - 1
         /\ v + n - 1 \in Nat
<1>1. PageTotal \in Nat
  BY GeometryAssumption, SMTT(30) DEF PageTotal
<1> QED BY <1>1 DEF VpnRange, ValidPageRange, Vpns

\* A slot is touched by a range if a page of the range is in it.
LEMMA TouchedSlots ==
  ASSUME NEW v \in Nat, NEW n \in Nat, ValidPageRange(v, n), NEW s \in Slots
  PROVE  s \in SlotsTouched(v, n) <=> \E w \in VpnRange(v, n) : SlotOf(w) = s
<1> USE GeometryAssumption
<1> DEFINE last == v + n - 1
<1>1. last \in Nat /\ v <= last /\ VpnRange(v, n) = v .. last
  BY DEF VpnRange, ValidPageRange
<1> HIDE DEF last
<1>2. s \in SlotsTouched(v, n) <=> SlotOf(v) <= s /\ s <= SlotOf(last)
  BY DEF SlotsTouched, last
<1>3. ASSUME NEW w \in VpnRange(v, n), SlotOf(w) = s PROVE s \in SlotsTouched(v, n)
  BY <1>1, <1>2, <1>3, Ordered
<1>4. ASSUME SlotOf(v) <= s, s <= SlotOf(last) PROVE \E w \in VpnRange(v, n) : SlotOf(w) = s
  <2>1. CASE s = SlotOf(v)
    BY <1>1, <2>1
  <2>2. CASE s # SlotOf(v)
    <3> DEFINE a == SlotOf(v)
               b == SlotOf(last)
               w == s * L2Entries
    <3>1. a \in Nat /\ b \in Nat /\ IndexOf(v) \in 0 .. L2Entries - 1 /\ IndexOf(last) \in 0 .. L2Entries - 1
          /\ v = a * L2Entries + IndexOf(v) /\ last = b * L2Entries + IndexOf(last)
      BY <1>1, DivMod DEF Entries
    <3>2. s \in Nat /\ 0 \in Entries
      BY DEF Slots, Entries
    <3>3. SlotOf(s * L2Entries + 0) = s /\ s * L2Entries \in Nat
      BY <3>2, DivUnique, SMTT(30)
    <3>4. a < s /\ s <= b
      BY <1>4, <2>2, <3>1, <3>2
    <3> HIDE DEF a, b
    <3>5. a * L2Entries + L2Entries <= w /\ a * L2Entries \in Nat
      BY <3>1, <3>2, <3>4, Times
    <3>6. w <= b * L2Entries /\ b * L2Entries \in Nat
      <4>1. CASE s = b
        BY <4>1, <3>2, SMTT(30)
      <4>2. CASE s < b
        BY <4>2, <3>1, <3>2, <3>3, Times
      <4> QED BY <3>1, <3>2, <3>4, <4>1, <4>2
    <3>7. w \in v .. last
      BY <1>1, <3>1, <3>3, <3>5, <3>6
    <3>8. SlotOf(w) = s
      BY <3>3
    <3> QED BY <1>1, <3>7, <3>8
  <2> QED BY <2>1, <2>2
<1> QED BY <1>2, <1>3, <1>4

-----------------------------------------------------------------------------
(* Words: a page is reached through one word only.                         *)

Directory == [Slots -> {NoTable} \cup Tables]
NoneShared(directory) ==
  \A s, r \in Slots : directory[s] # NoTable /\ directory[s] = directory[r] => s = r

Load(directory, words, w) ==
  IF directory[SlotOf(w)] = NoTable THEN EmptyPte
  ELSE words[directory[SlotOf(w)]][IndexOf(w)]

LEMMA PteLoads ==
  /\ \A w : PteLoad(w) = Load(l1, l2, w)
  /\ \A w : PteLoad(w)' = Load(l1', l2', w)
BY DEF PteLoad, Load

LEMMA TheWordOfAPage ==
  ASSUME NEW directory \in Directory, NoneShared(directory),
         NEW v \in Nat, NEW n \in Nat, ValidPageRange(v, n),
         NEW x \in Vpns, directory[SlotOf(x)] # NoTable
  PROVE  LET t == directory[SlotOf(x)]
             e == IndexOf(x) IN
         /\ t \in Tables /\ e \in Entries
         /\ InRange(directory, t, e, v, n) <=> x \in VpnRange(v, n)
         /\ x \in VpnRange(v, n) => PageAt(directory, t, e, v, n) = x
<1> DEFINE t == directory[SlotOf(x)]
           e == IndexOf(x)
<1>1. SlotOf(x) \in Slots /\ e \in Entries /\ x \in Nat
  BY InSlots
<1>2. t \in Tables
  BY <1>1 DEF Directory
<1>3. \A w \in VpnRange(v, n) : w \in Vpns
  BY RangeInSpace
<1>4. ASSUME NEW w \in VpnRange(v, n), Backs(directory, w, t, e) PROVE w = x
  <2>1. w \in Nat /\ SlotOf(w) \in Slots
    BY <1>3, InSlots
  <2>2. directory[SlotOf(w)] = directory[SlotOf(x)] /\ IndexOf(w) = IndexOf(x)
    BY <1>4 DEF Backs
  <2>3. SlotOf(w) = SlotOf(x)
    BY <1>1, <2>1, <2>2 DEF NoneShared
  <2> QED BY <1>1, <2>1, <2>2, <2>3, Ordered
<1>5. Backs(directory, x, t, e)
  BY DEF Backs
<1>6. InRange(directory, t, e, v, n) <=> x \in VpnRange(v, n)
  BY <1>4, <1>5 DEF InRange
<1>7. x \in VpnRange(v, n) => PageAt(directory, t, e, v, n) = x
  BY <1>4, <1>5 DEF PageAt
<1> QED BY <1>1, <1>2, <1>6, <1>7

\* The invariant, for what it is used for.
LEMMA Types ==
  ASSUME IInv
  PROVE  /\ l1 \in Directory /\ l2 \in [Tables -> [Entries -> Pte]]
         /\ l2_freelist \subseteq Tables /\ l2_free_count \in Nat
         /\ l2_carved_count \in Nat /\ l2_carved_count <= TableCapacity
         /\ l2_mapped_count \in [Slots -> Nat]
         /\ \A w \in Vpns : PteLoad(w) \in Pte
         /\ live => NoneShared(l1)
         /\ live => \A s \in Slots : l1[s] \notin l2_freelist /\ l1[s] \in 0 .. l2_carved_count
         /\ live => \A t \in l2_freelist : t \in 1 .. l2_carved_count
         /\ live => \A t \in 1 .. l2_carved_count : t \in l2_freelist \/ \E s \in Slots : l1[s] = t
<1> USE GeometryAssumption
<1>1. /\ l1 \in Directory /\ l2 \in [Tables -> [Entries -> Pte]]
      /\ l2_freelist \subseteq Tables /\ l2_free_count \in Nat
      /\ l2_carved_count \in Nat /\ l2_carved_count <= TableCapacity
      /\ l2_mapped_count \in [Slots -> Nat]
  BY DEF IInv, TypeOK, Directory
<1>2. \A w \in Vpns : PteLoad(w) \in Pte
  <2> SUFFICES ASSUME NEW w \in Vpns PROVE PteLoad(w) \in Pte
    OBVIOUS
  <2>1. SlotOf(w) \in Slots /\ IndexOf(w) \in Entries
    BY InSlots
  <2>2. EmptyPte \in Pte
    BY DEF EmptyPte, Pte
  <2>3. CASE l1[SlotOf(w)] = NoTable
    BY <2>2, <2>3 DEF PteLoad
  <2>4. CASE l1[SlotOf(w)] # NoTable
    <3>1. l1[SlotOf(w)] \in Tables
      BY <1>1, <2>1, <2>4 DEF Directory
    <3> QED BY <1>1, <2>1, <2>4, <3>1 DEF PteLoad
  <2> QED BY <2>3, <2>4
<1>3. live => NoneShared(l1)
  BY DEF IInv, PoolPartition, NoneShared
<1>4. live => {l1[s] : s \in Slots} \cup l2_freelist \cup {NoTable} = 0 .. l2_carved_count
  BY DEF IInv, PoolPartition
<1>5. live => \A s \in Slots : l1[s] \notin l2_freelist
  BY DEF IInv, PoolPartition
<1>6. live => \A s \in Slots : l1[s] \in 0 .. l2_carved_count
  BY <1>4
<1>7. ASSUME live, NEW t \in l2_freelist PROVE t \in 1 .. l2_carved_count
  <2>1. t \in 0 .. l2_carved_count
    BY <1>4, <1>7
  <2>2. t \in Tables
    BY <1>1, <1>7
  <2> QED BY <1>1, <2>1, <2>2 DEF Tables
<1>8. ASSUME live, NEW t \in 1 .. l2_carved_count
      PROVE  t \in l2_freelist \/ \E s \in Slots : l1[s] = t
  <2>1. t \in 0 .. l2_carved_count /\ t # NoTable
    BY <1>1, <1>8 DEF NoTable
  <2> QED BY <1>4, <1>8, <2>1
<1> QED BY <1>1, <1>2, <1>3, <1>5, <1>6, <1>7, <1>8

\* The other direction for the next state.
LEMMA Partition ==
  ASSUME NEW d \in Directory, NEW free \in SUBSET Tables, NEW top \in Nat,
         NoneShared(d),
         \A s \in Slots : d[s] \notin free /\ d[s] \in 0 .. top,
         \A t \in free : t \in 1 .. top,
         \A t \in 1 .. top : t \in free \/ \E s \in Slots : d[s] = t
  PROVE  /\ \A s, r \in Slots : d[s] # NoTable /\ d[s] = d[r] => s = r
         /\ \A s \in Slots : d[s] \notin free
         /\ {d[s] : s \in Slots} \cup free \cup {NoTable} = 0 .. top
<1>1. {d[s] : s \in Slots} \cup free \cup {NoTable} \subseteq 0 .. top
  BY DEF NoTable
<1>2. ASSUME NEW t \in 0 .. top PROVE t \in {d[s] : s \in Slots} \cup free \cup {NoTable}
  <2>1. t = NoTable \/ t \in 1 .. top
    BY DEF NoTable
  <2> QED BY <2>1
<1> QED BY <1>1, <1>2 DEF NoneShared

-----------------------------------------------------------------------------
(* vmm_map                                                                 *)

MapStep(v, n, pa, perms, recycled, carved, new) ==
  /\ Running /\ live' = live
  /\ v \in Nat /\ n \in Nat /\ pa \in Nat
  /\ MapAccepted(v, n, pa, perms)
  /\ recycled \subseteq l2_freelist
  /\ carved \in 0 .. (TableCapacity - l2_carved_count)
  /\ new \in [AbsentSlots(v, n) -> Tables]
  /\ MapCommits(v, n, pa, perms, recycled, carved, new)

\* Every absent slot gets a table of its own that was free or never used.
LEMMA MapDirectory ==
  ASSUME IInv, NEW v, NEW n, NEW pa, NEW perms, NEW recycled, NEW carved, NEW new,
         MapStep(v, n, pa, perms, recycled, carved, new)
  PROVE  /\ l1' \in Directory /\ NoneShared(l1') /\ PoolPartition'
         /\ l2_freelist' = l2_freelist \ recycled
         /\ l2_carved_count' \in 0 .. TableCapacity
         /\ \A s \in Slots : s \notin AbsentSlots(v, n) => l1'[s] = l1[s]
         /\ \A s \in AbsentSlots(v, n) :
              /\ s \in Slots /\ l1[s] = NoTable
              /\ l1'[s] \in recycled \/ l1'[s] \in VpnRange(l2_carved_count + 1, carved)
         /\ \A t \in VpnRange(l2_carved_count + 1, carved) :
              t \in Nat /\ t > l2_carved_count /\ t <= l2_carved_count'
<1> USE GeometryAssumption
<1> DEFINE absent == AbsentSlots(v, n)
           fresh  == VpnRange(l2_carved_count + 1, carved)
           top    == l2_carved_count + carved
<1>1. /\ live /\ live' = live /\ recycled \subseteq l2_freelist /\ carved \in Nat
      /\ carved <= TableCapacity - l2_carved_count /\ new \in [absent -> Tables]
  BY Types DEF MapStep, Running
<1>2. /\ l1' = [s \in Slots |-> IF s \in absent THEN new[s] ELSE l1[s]]
      /\ l2_freelist' = l2_freelist \ recycled
      /\ l2_carved_count' = top
      /\ {new[s] : s \in absent} = recycled \cup fresh
      /\ \A s, r \in absent : new[s] = new[r] => s = r
  BY DEF MapStep, MapCommits, Acquired
<1>3. /\ l1 \in Directory /\ l2_freelist \subseteq Tables /\ NoneShared(l1)
      /\ l2_carved_count \in Nat /\ l2_carved_count <= TableCapacity
      /\ \A s \in Slots : l1[s] \notin l2_freelist /\ l1[s] \in 0 .. l2_carved_count
      /\ \A t \in l2_freelist : t \in 1 .. l2_carved_count
      /\ \A t \in 1 .. l2_carved_count : t \in l2_freelist \/ \E s \in Slots : l1[s] = t
  BY <1>1, Types
<1>4. \A s \in absent : s \in Slots /\ l1[s] = NoTable
  BY DEF AbsentSlots, SlotsTouched
<1>5. \A t : t \in fresh <=> t \in Int /\ l2_carved_count < t /\ t <= top
  BY <1>1, <1>3 DEF VpnRange
<1>6. top \in Nat /\ top \in 0 .. TableCapacity /\ l2_carved_count <= top
  BY <1>1, <1>3
<1> HIDE DEF absent, fresh, top
<1>7. \A s \in absent : l1'[s] = new[s] /\ new[s] \in Tables /\ (new[s] \in recycled \/ new[s] \in fresh)
  BY <1>1, <1>2, <1>4
<1>8. \A s \in Slots : s \notin absent => l1'[s] = l1[s]
  BY <1>2
<1>9. l1' \in Directory
  BY <1>2, <1>3, <1>7, <1>8 DEF Directory
<1>10. \A s \in absent, r \in Slots : r \notin absent => new[s] # l1[r]
  <2> SUFFICES ASSUME NEW s \in absent, NEW r \in Slots PROVE new[s] # l1[r]
    OBVIOUS
  <2>1. CASE new[s] \in recycled
    BY <1>1, <1>3, <2>1
  <2>2. CASE new[s] \in fresh
    BY <1>3, <1>5, <2>2
  <2> QED BY <1>7, <2>1, <2>2
<1>11. NoneShared(l1')
  <2> SUFFICES ASSUME NEW s \in Slots, NEW r \in Slots, l1'[s] # NoTable, l1'[s] = l1'[r]
               PROVE  s = r
    BY DEF NoneShared
  <2>1. CASE s \in absent /\ r \in absent
    BY <1>2, <1>7, <2>1
  <2>2. CASE s \in absent /\ r \notin absent
    BY <1>7, <1>8, <1>10, <2>2
  <2>3. CASE s \notin absent /\ r \in absent
    BY <1>7, <1>8, <1>10, <2>3
  <2>4. CASE s \notin absent /\ r \notin absent
    BY <1>3, <1>8, <2>4 DEF NoneShared
  <2> QED BY <2>1, <2>2, <2>3, <2>4
<1>12. ASSUME NEW s \in Slots PROVE l1'[s] \notin l2_freelist' /\ l1'[s] \in 0 .. top
  <2>1. CASE s \notin absent
    BY <1>2, <1>3, <1>6, <1>8, <2>1
  <2>2. CASE s \in absent /\ new[s] \in recycled
    BY <1>1, <1>2, <1>3, <1>6, <1>7, <2>2
  <2>3. CASE s \in absent /\ new[s] \in fresh
    BY <1>2, <1>3, <1>5, <1>6, <1>7, <2>3
  <2> QED BY <1>7, <2>1, <2>2, <2>3
<1>13. \A t \in l2_freelist' : t \in 1 .. top /\ t \in Tables
  BY <1>2, <1>3, <1>6
<1>14. ASSUME NEW t \in 1 .. top PROVE t \in l2_freelist' \/ \E s \in Slots : l1'[s] = t
  <2>1. CASE t \in fresh \cup recycled
    <3>1. PICK s \in absent : new[s] = t
      BY <1>2, <2>1
    <3> QED BY <1>4, <1>7, <3>1
  <2>2. CASE t \notin fresh \cup recycled
    <3>1. t \in 1 .. l2_carved_count
      BY <1>3, <1>5, <1>6, <2>2
    <3>2. t \in l2_freelist \/ \E s \in Slots : l1[s] = t
      BY <1>3, <3>1
    <3>3. ASSUME NEW s \in Slots, l1[s] = t PROVE l1'[s] = t
      BY <1>4, <1>8, <3>1, <3>3 DEF NoTable
    <3> QED BY <1>2, <2>2, <3>2, <3>3
  <2> QED BY <2>1, <2>2
<1>15. l2_freelist' \in SUBSET Tables
  BY <1>13
<1>16. PoolPartition'
  <2>1. /\ \A s, r \in Slots : l1'[s] # NoTable /\ l1'[s] = l1'[r] => s = r
        /\ \A s \in Slots : l1'[s] \notin l2_freelist'
        /\ {l1'[s] : s \in Slots} \cup l2_freelist' \cup {NoTable} = 0 .. top
    BY <1>6, <1>9, <1>11, <1>12, <1>13, <1>14, <1>15, Partition
  <2> QED BY <1>2, <2>1 DEF PoolPartition
<1>17. \A s \in absent : s \in Slots /\ l1[s] = NoTable /\ (l1'[s] \in recycled \/ l1'[s] \in fresh)
  BY <1>4, <1>7
<1>18. \A t \in fresh : t \in Nat /\ t > l2_carved_count /\ t <= l2_carved_count'
  BY <1>2, <1>3, <1>5
<1> QED BY <1>2, <1>6, <1>8, <1>9, <1>11, <1>16, <1>17, <1>18 DEF absent, fresh

LEMMA PteTypes ==
  /\ EmptyPte \in Pte
  /\ \A p \in Nat, perms \in SUBSET Rights : MakePte(p, perms) \in Pte /\ MakePte(p, perms) # EmptyPte
  /\ \A p \in Pte, perms \in SUBSET Rights : [host |-> p.host, perms |-> perms] \in Pte
<1>1. EmptyPte \in Pte
  BY DEF EmptyPte, Pte
<1>2. ASSUME NEW p \in Nat, NEW perms \in SUBSET Rights
      PROVE  MakePte(p, perms) \in Pte /\ MakePte(p, perms) # EmptyPte
  BY GuestRamBaseAssumption DEF MakePte, Pte, EmptyPte
<1>3. ASSUME NEW p \in Pte, NEW perms \in SUBSET Rights
      PROVE  [host |-> p.host, perms |-> perms] \in Pte
  BY DEF Pte
<1> QED BY <1>1, <1>2, <1>3

\* What vmm_map's arguments are once it went through.
LEMMA MapArguments ==
  ASSUME NEW v \in Nat, NEW n \in Nat, NEW pa \in Nat, NEW perms, MapAccepted(v, n, pa, perms)
  PROVE  /\ ValidPageRange(v, n) /\ perms \in SUBSET Rights /\ pa + n <= RamPages
         /\ pa < RamPages
         /\ \A w \in VpnRange(v, n) : PteLoad(w) = EmptyPte
BY GeometryAssumption DEF MapAccepted, MapArgumentsBad, RangeUnmapped

\* The pages of the range are mapped, all others are what they were: nothing
\* shows of what a table was used for before.
LEMMA MapWords ==
  ASSUME IInv, NEW v, NEW n, NEW pa, NEW perms, NEW recycled, NEW carved, NEW new,
         MapStep(v, n, pa, perms, recycled, carved, new)
  PROVE  /\ \A x \in Vpns : PteLoad(x)' = IF x \in VpnRange(v, n)
                                          THEN MakePte(pa + (x - v), perms) ELSE PteLoad(x)
         /\ l2' \in [Tables -> [Entries -> Pte]]
         /\ FreeTablesClean'
         /\ \A s \in Slots : l1'[s] # NoTable <=> l1[s] # NoTable \/ s \in AbsentSlots(v, n)
<1> USE GeometryAssumption
<1> DEFINE absent == AbsentSlots(v, n)
           fresh  == VpnRange(l2_carved_count + 1, carved)
<1>1. /\ v \in Nat /\ n \in Nat /\ pa \in Nat /\ MapAccepted(v, n, pa, perms)
      /\ recycled \subseteq l2_freelist /\ live /\ carved \in Nat
  BY Types DEF MapStep, Running
<1>2. /\ l1' \in Directory /\ NoneShared(l1') /\ PoolPartition'
      /\ l2_freelist' = l2_freelist \ recycled
      /\ \A s \in Slots : s \notin absent => l1'[s] = l1[s]
      /\ \A s \in absent : s \in Slots /\ l1[s] = NoTable /\ (l1'[s] \in recycled \/ l1'[s] \in fresh)
      /\ \A t \in fresh : t \in Nat /\ t > l2_carved_count /\ t <= l2_carved_count'
  BY MapDirectory
<1>3. /\ l1 \in Directory /\ l2_freelist \subseteq Tables
      /\ l2 \in [Tables -> [Entries -> Pte]] /\ l2_carved_count \in Nat
      /\ \A s \in Slots : l1[s] \notin l2_freelist /\ l1[s] \in 0 .. l2_carved_count
      /\ \A t \in l2_freelist : t \in 1 .. l2_carved_count
      /\ \A t \in l2_freelist : \A e \in Entries : e # 0 => l2[t][e] = EmptyPte
  BY <1>1, Types DEF IInv, FreeTablesClean
<1>4. l2' = [t \in Tables |-> [e \in Entries |->
             IF InRange(l1', t, e, v, n)
             THEN MakePte(pa + (PageAt(l1', t, e, v, n) - v), perms)
             ELSE Cleared(t, e, recycled, carved)]]
  BY DEF MapStep, MapCommits
<1>5. ValidPageRange(v, n) /\ perms \in SUBSET Rights
  BY <1>1, MapArguments
<1>6. \A t, e : Cleared(t, e, recycled, carved) =
        IF t \in fresh \/ (t \in recycled /\ e = 0) THEN EmptyPte ELSE l2[t][e]
  BY DEF Cleared
<1>7. \A s \in Slots : s \in absent <=> l1[s] = NoTable /\ \E w \in VpnRange(v, n) : SlotOf(w) = s
  BY <1>1, <1>5, TouchedSlots DEF AbsentSlots, SlotsTouched
<1> HIDE DEF absent, fresh
<1>8. \A s \in absent : l1'[s] # NoTable
  BY <1>1, <1>2, <1>3 DEF NoTable, Tables
<1>9. ASSUME NEW x \in Vpns
      PROVE  PteLoad(x)' = IF x \in VpnRange(v, n) THEN MakePte(pa + (x - v), perms) ELSE PteLoad(x)
  <2> DEFINE s == SlotOf(x)
             e == IndexOf(x)
             t == l1'[s]
  <2>1. s \in Slots /\ e \in Entries
    BY InSlots
  <2>2. /\ PteLoad(x) = IF l1[s] = NoTable THEN EmptyPte ELSE l2[l1[s]][e]
        /\ PteLoad(x)' = IF t = NoTable THEN EmptyPte ELSE l2'[t][e]
    BY DEF PteLoad
  <2>3. t # NoTable => /\ t \in Tables
                       /\ InRange(l1', t, e, v, n) <=> x \in VpnRange(v, n)
                       /\ x \in VpnRange(v, n) => PageAt(l1', t, e, v, n) = x
    BY <1>1, <1>2, <1>5, TheWordOfAPage
  <2>4. t # NoTable => l2'[t][e] = IF x \in VpnRange(v, n) THEN MakePte(pa + (x - v), perms)
                                   ELSE Cleared(t, e, recycled, carved)
    BY <1>4, <2>1, <2>3
  <2>5. s \in absent <=> l1[s] = NoTable /\ \E w \in VpnRange(v, n) : SlotOf(w) = s
    BY <1>7, <2>1
  <2>6. x \in VpnRange(v, n) => s \in absent \/ l1[s] # NoTable
    BY <2>5
  <2> HIDE DEF s, e
  <2>7. CASE x \in VpnRange(v, n)
    <3>1. t # NoTable
      BY <1>2, <1>8, <2>1, <2>6, <2>7
    <3> QED BY <2>2, <2>4, <2>7, <3>1
  <2>8. CASE x \notin VpnRange(v, n) /\ s \notin absent
    <3>1. t = l1[s]
      BY <1>2, <2>1, <2>8
    <3>2. t # NoTable => t \notin fresh /\ t \notin recycled
      BY <1>1, <1>2, <1>3, <2>1, <3>1
    <3>3. t # NoTable => l2'[t][e] = l2[t][e]
      BY <1>6, <2>4, <2>8, <3>2
    <3> QED BY <2>2, <2>8, <3>1, <3>3
  <2>9. CASE x \notin VpnRange(v, n) /\ s \in absent
    <3>1. t # NoTable /\ l1[s] = NoTable /\ (t \in recycled \/ t \in fresh)
      BY <1>2, <1>8, <2>9
    <3>2. Cleared(t, e, recycled, carved) = EmptyPte
      BY <1>1, <1>3, <1>6, <2>1, <3>1
    <3> QED BY <2>2, <2>4, <2>9, <3>1, <3>2
  <2> QED BY <2>7, <2>8, <2>9
<1>10. l2' \in [Tables -> [Entries -> Pte]]
  <2>1. ASSUME NEW t \in Tables, NEW e \in Entries, InRange(l1', t, e, v, n)
        PROVE  MakePte(pa + (PageAt(l1', t, e, v, n) - v), perms) \in Pte
    <3> DEFINE w == PageAt(l1', t, e, v, n)
    <3>1. w \in VpnRange(v, n)
      BY <2>1 DEF InRange, PageAt
    <3>2. w \in Nat /\ v <= w
      BY <1>1, <1>5, <3>1, RangeInSpace
    <3> HIDE DEF w
    <3>3. pa + (w - v) \in Nat
      BY <1>1, <3>2
    <3> QED BY <1>5, <3>3, PteTypes DEF w
  <2>2. ASSUME NEW t \in Tables, NEW e \in Entries PROVE Cleared(t, e, recycled, carved) \in Pte
    BY <1>3, <1>6, PteTypes
  <2> QED BY <1>4, <2>1, <2>2
<1>11. FreeTablesClean'
  <2> SUFFICES ASSUME NEW t \in l2_freelist', NEW e \in Entries, e # 0
               PROVE  l2'[t][e] = EmptyPte
    BY DEF FreeTablesClean
  <2>1. t \in l2_freelist /\ t \notin recycled /\ t \in Tables /\ t \notin fresh
    BY <1>2, <1>3
  <2>2. ~ InRange(l1', t, e, v, n)
    <3> SUFFICES ASSUME NEW w \in VpnRange(v, n) PROVE l1'[SlotOf(w)] # t
      BY DEF InRange, Backs
    <3>1. SlotOf(w) \in Slots
      BY <1>1, <1>5, RangeInSpace, InSlots
    <3> QED BY <1>1, <1>2, <3>1 DEF PoolPartition, MapStep
  <2>3. l2'[t][e] = l2[t][e]
    BY <1>4, <1>6, <2>1, <2>2
  <2> QED BY <1>3, <2>1, <2>3
<1>12. \A s \in Slots : l1'[s] # NoTable <=> l1[s] # NoTable \/ s \in absent
  BY <1>2, <1>8
<1> QED BY <1>9, <1>10, <1>11, <1>12 DEF absent

\* Pages are finitely many.
LEMMA FinitePages ==
  /\ IsFiniteSet(Vpns) /\ \A S \in SUBSET Vpns : IsFiniteSet(S) /\ Cardinality(S) \in Nat
  /\ IsFiniteSet(Tables) /\ \A S \in SUBSET Tables : IsFiniteSet(S) /\ Cardinality(S) \in Nat
  /\ IsFiniteSet(Slots) /\ \A S \in SUBSET Slots : IsFiniteSet(S) /\ Cardinality(S) \in Nat
<1> USE GeometryAssumption
<1>1. PageTotal \in Nat
  BY SMTT(30) DEF PageTotal
<1>2. 0 \in Int /\ 1 \in Int /\ PageTotal - 1 \in Int /\ L1Entries - 1 \in Int /\ TableCapacity \in Int
  BY <1>1
<1>3. IsFiniteSet(Vpns)
  BY <1>2, FS_Interval DEF Vpns
<1>4. IsFiniteSet(Tables)
  BY <1>2, FS_Interval DEF Tables
<1>5. IsFiniteSet(Slots)
  BY <1>2, FS_Interval DEF Slots
<1> QED BY <1>3, <1>4, <1>5, FS_Subset, FS_CardinalityType

LEMMA PagesOfASlot ==
  ASSUME NEW v \in Nat, NEW n \in Nat, ValidPageRange(v, n), NEW s \in Slots
  PROVE  PagesIn(s, v, n) \in SUBSET Vpns /\ MappedIn(s) \in SUBSET Vpns
         /\ (PagesIn(s, v, n) # {} <=> \E w \in VpnRange(v, n) : SlotOf(w) = s)
BY RangeInSpace DEF PagesIn, MappedIn

LEMMA MapCounts ==
  ASSUME IInv, NEW v, NEW n, NEW pa, NEW perms, NEW recycled, NEW carved, NEW new,
         MapStep(v, n, pa, perms, recycled, carved, new)
  PROVE  /\ l2_mapped_count' \in [Slots -> Nat] /\ MappedCountExact'
         /\ l2_free_count' \in Nat /\ FreeCountExact'
<1>1. /\ v \in Nat /\ n \in Nat /\ pa \in Nat /\ MapAccepted(v, n, pa, perms)
      /\ recycled \in SUBSET l2_freelist /\ live /\ live'
      /\ l2_free_count' = l2_free_count - Cardinality(recycled)
      /\ l2_freelist' = l2_freelist \ recycled
      /\ l2_mapped_count' = [s \in Slots |->
                           l2_mapped_count[s] + Cardinality(PagesIn(s, v, n))]
  BY DEF MapStep, MapCommits, Running
<1>2. /\ ValidPageRange(v, n) /\ perms \in SUBSET Rights
      /\ \A w \in VpnRange(v, n) : w \in Vpns /\ w \in Nat /\ v <= w /\ PteLoad(w) = EmptyPte
  BY <1>1, MapArguments, RangeInSpace
<1>3. /\ \A x \in Vpns : PteLoad(x)' = IF x \in VpnRange(v, n)
                                       THEN MakePte(pa + (x - v), perms) ELSE PteLoad(x)
      /\ \A s \in Slots : l1'[s] # NoTable <=> l1[s] # NoTable \/ s \in AbsentSlots(v, n)
  BY MapWords
<1>4. \A w \in VpnRange(v, n) : MakePte(pa + (w - v), perms) # EmptyPte
  <2> SUFFICES ASSUME NEW w \in VpnRange(v, n) PROVE MakePte(pa + (w - v), perms) # EmptyPte
    OBVIOUS
  <2>1. pa + (w - v) \in Nat
    BY <1>1, <1>2
  <2> QED BY <1>2, <2>1, PteTypes
<1>5. ASSUME NEW s \in Slots
      PROVE  /\ MappedIn(s)' = MappedIn(s) \cup PagesIn(s, v, n)
             /\ MappedIn(s) \cap PagesIn(s, v, n) = {}
  <2>1. MappedIn(s)' = {w \in Vpns : SlotOf(w) = s /\ PteLoad(w)' # EmptyPte}
    BY DEF MappedIn
  <2> QED BY <1>2, <1>3, <1>4, <2>1 DEF MappedIn, PagesIn
<1>6. ASSUME NEW s \in Slots
      PROVE  /\ l2_mapped_count'[s] \in Nat
             /\ l2_mapped_count'[s] = Cardinality(MappedIn(s)')
             /\ l1'[s] = NoTable <=> MappedIn(s)' = {}
  <2>1. /\ IsFiniteSet(PagesIn(s, v, n)) /\ Cardinality(PagesIn(s, v, n)) \in Nat
        /\ IsFiniteSet(MappedIn(s)) /\ Cardinality(MappedIn(s)) \in Nat
    BY <1>1, <1>2, PagesOfASlot, FinitePages
  <2>2. Cardinality(MappedIn(s) \cup PagesIn(s, v, n))
          = Cardinality(MappedIn(s)) + Cardinality(PagesIn(s, v, n)) - Cardinality({})
    BY <1>5, <2>1, FS_Union
  <2>3. Cardinality({}) = 0
    BY FS_EmptySet
  <2>4. l2_mapped_count[s] = Cardinality(MappedIn(s)) /\ (l1[s] = NoTable <=> MappedIn(s) = {})
    BY <1>1 DEF IInv, MappedCountExact
  <2>5. s \in AbsentSlots(v, n) <=> l1[s] = NoTable /\ PagesIn(s, v, n) # {}
    BY <1>1, <1>2, TouchedSlots, PagesOfASlot DEF AbsentSlots
  <2>6. l2_mapped_count'[s] = Cardinality(MappedIn(s)) + Cardinality(PagesIn(s, v, n))
    BY <1>1, <2>4
  <2>7. l2_mapped_count'[s] = Cardinality(MappedIn(s)') /\ l2_mapped_count'[s] \in Nat
    BY <1>5, <2>1, <2>2, <2>3, <2>6
  <2>8. l1'[s] = NoTable <=> MappedIn(s)' = {}
    BY <1>3, <1>5, <2>4, <2>5
  <2> QED BY <2>7, <2>8
<1>7. l2_mapped_count' \in [Slots -> Nat]
  <2>1. l2_mapped_count' = [s \in Slots |-> l2_mapped_count'[s]]
    BY <1>1
  <2> QED BY <1>6, <2>1
<1>8. MappedCountExact'
  BY <1>6 DEF MappedCountExact
<1>9. l2_free_count' \in Nat /\ FreeCountExact'
  <2>1. IsFiniteSet(l2_freelist) /\ IsFiniteSet(recycled) /\ Cardinality(recycled) \in Nat
        /\ l2_free_count = Cardinality(l2_freelist)
    BY <1>1, Types, FinitePages DEF IInv, FreeCountExact
  <2>2. Cardinality(l2_freelist \ recycled) = Cardinality(l2_freelist) - Cardinality(l2_freelist \cap recycled)
        /\ IsFiniteSet(l2_freelist \ recycled)
    BY <2>1, FS_Difference
  <2>3. l2_freelist \cap recycled = recycled
    BY <1>1
  <2>4. l2_free_count' = Cardinality(l2_freelist')
    BY <1>1, <2>1, <2>2, <2>3
  <2>5. Cardinality(l2_freelist') \in Nat
    BY <1>1, <2>2, FS_CardinalityType
  <2> QED BY <2>4, <2>5 DEF FreeCountExact
<1> QED BY <1>7, <1>8, <1>9

\* Borrows outlive a change of pages none of them spans.
LEMMA BorrowsKeep ==
  ASSUME IInv, NEW v \in Nat, NEW n \in Nat, ~ BorrowOverlaps(v, n), UNCHANGED borrows,
         \A x \in Vpns : x \notin VpnRange(v, n) => PteLoad(x)' = PteLoad(x)
  PROVE  BorrowsInSpace' /\ BorrowsStayValid'
<1>1. borrows \subseteq Borrow /\ BorrowsInSpace /\ BorrowsStayValid
  BY DEF IInv, TypeOK
<1>2. BorrowsInSpace'
  BY <1>1 DEF BorrowsInSpace
<1>3. ASSUME NEW b \in borrows, NEW w \in VpnRange(b.vpn, b.page_count)
      PROVE  PteLoad(w)' = PteLoad(w)
  <2>1. b.vpn \in Nat /\ b.page_count \in Nat /\ ValidPageRange(b.vpn, b.page_count)
    BY <1>1 DEF Borrow, Vpns, BorrowsInSpace
  <2>2. w \in Vpns /\ w \in Nat /\ b.vpn <= w /\ w <= b.vpn + b.page_count - 1
    BY <2>1, RangeInSpace
  <2>3. ~ (v < b.vpn + b.page_count /\ b.vpn < v + n)
    BY DEF BorrowOverlaps
  <2>4. w \notin v .. (v + n - 1)
    BY <2>1, <2>2, <2>3
  <2> QED BY <2>2, <2>4 DEF VpnRange
<1>4. BorrowsStayValid'
  BY <1>1, <1>3 DEF BorrowsStayValid, Grants
<1> QED BY <1>2, <1>4

LEMMA MapKeeps ==
  ASSUME IInv, NEW v \in Nat, NEW n \in Nat, NEW pa \in Nat, NEW perms, Map(v, n, pa, perms)
  PROVE  /\ IInv'
         /\ \A x \in Vpns : PteLoad(x)' = IF x \in VpnRange(v, n)
                                          THEN MakePte(pa + (x - v), perms) ELSE PteLoad(x)
<1>1. PICK recycled \in SUBSET l2_freelist,
           carved \in 0 .. (TableCapacity - l2_carved_count),
           new \in [AbsentSlots(v, n) -> Tables] :
             MapCommits(v, n, pa, perms, recycled, carved, new)
  BY DEF Map
<1>2. MapStep(v, n, pa, perms, recycled, carved, new)
  BY <1>1 DEF Map, MapStep
<1>3. /\ UNCHANGED <<live, borrowVars, aborted>> /\ result' = "OK" /\ ~ BorrowOverlaps(v, n)
  BY DEF Map
<1>4. /\ l1' \in Directory /\ PoolPartition' /\ l2_carved_count' \in 0 .. TableCapacity
      /\ l2_freelist' \subseteq Tables
  BY <1>2, MapDirectory, Types
<1>5. /\ \A x \in Vpns : PteLoad(x)' = IF x \in VpnRange(v, n)
                                       THEN MakePte(pa + (x - v), perms) ELSE PteLoad(x)
      /\ l2' \in [Tables -> [Entries -> Pte]] /\ FreeTablesClean'
  BY <1>2, MapWords
<1>6. /\ l2_mapped_count' \in [Slots -> Nat] /\ MappedCountExact'
      /\ l2_free_count' \in Nat /\ FreeCountExact'
  BY <1>2, MapCounts
<1>7. BorrowsInSpace' /\ BorrowsStayValid'
  BY <1>3, <1>5, BorrowsKeep DEF borrowVars
<1>8. TypeOK'
  BY <1>3, <1>4, <1>5, <1>6 DEF TypeOK, IInv, borrowVars, Directory
<1>9. BackedByRam'
  <2> SUFFICES ASSUME NEW w \in Vpns, PteLoad(w)' # EmptyPte
               PROVE  GuestRamBase <= PteLoad(w)'.host /\ PteLoad(w)'.host < GuestRamBase + RamPages
    BY DEF BackedByRam
  <2>1. CASE w \in VpnRange(v, n)
    <3>1. /\ ValidPageRange(v, n) /\ pa + n <= RamPages
          /\ w \in Nat /\ v <= w /\ w <= v + n - 1
      BY <2>1, MapArguments, RangeInSpace DEF Map
    <3>2. PteLoad(w)'.host = GuestRamBase + (pa + (w - v))
      BY <1>5, <2>1 DEF MakePte
    <3> QED BY <3>1, <3>2, GeometryAssumption, GuestRamBaseAssumption
  <2>2. CASE w \notin VpnRange(v, n)
    <3>1. PteLoad(w)' = PteLoad(w) /\ live
      BY <1>5, <2>2 DEF Map, Running
    <3>2. PteLoad(w) # EmptyPte
      BY <3>1
    <3>3. GuestRamBase <= PteLoad(w).host /\ PteLoad(w).host < GuestRamBase + RamPages
      BY <3>1, <3>2 DEF IInv, BackedByRam
    <3> QED BY <3>1, <3>3
  <2> QED BY <2>1, <2>2
<1> QED BY <1>4, <1>5, <1>6, <1>7, <1>8, <1>9 DEF IInv

-----------------------------------------------------------------------------
(* vmm_unmap                                                               *)

\* Slots name different tables, so they are as many as their tables.
LEMMA AsManyTables ==
  ASSUME NEW d \in Directory, NoneShared(d), NEW S \in SUBSET Slots, \A s \in S : d[s] # NoTable
  PROVE  Cardinality({d[s] : s \in S}) = Cardinality(S) /\ IsFiniteSet({d[s] : s \in S})
<1> DEFINE I == {d[s] : s \in S}
           f == [s \in S |-> d[s]]
<1>1. f \in Bijection(S, I)
  <2>1. f \in [S -> I]
    OBVIOUS
  <2>2. \A a, b \in S : f[a] = f[b] => a = b
    BY DEF NoneShared
  <2>3. \A t \in I : \E a \in S : f[a] = t
    OBVIOUS
  <2> QED BY <2>1, <2>2, <2>3 DEF Bijection, Injection, Surjection, IsInjective
<1>2. ExistsBijection(S, I)
  BY <1>1 DEF ExistsBijection
<1>3. IsFiniteSet(S)
  BY FinitePages
<1> QED BY <1>2, <1>3, FS_Bijection

\* The slots that give their table back are those whose mapped pages all go.
LEMMA WhatIsEmptied ==
  ASSUME IInv, live, NEW v \in Nat, NEW n \in Nat, RangeAccepted(v, n)
  PROVE  /\ ValidPageRange(v, n)
         /\ \A w \in VpnRange(v, n) : w \in Vpns /\ w \in Nat /\ PteLoad(w) # EmptyPte
         /\ \A s \in Slots : PagesIn(s, v, n) \subseteq MappedIn(s)
         /\ Emptied(v, n) \subseteq Slots
         /\ \A s \in Slots : s \in Emptied(v, n) <=> PagesIn(s, v, n) # {} /\ MappedIn(s) = PagesIn(s, v, n)
         /\ \A s \in Emptied(v, n) : l1[s] # NoTable
<1>1. /\ ValidPageRange(v, n)
      /\ \A w \in VpnRange(v, n) : w \in Vpns /\ w \in Nat /\ PteLoad(w) # EmptyPte
  BY RangeInSpace DEF RangeAccepted, RangeMapped
<1>2. \A s \in Slots : PagesIn(s, v, n) \subseteq MappedIn(s)
  BY <1>1 DEF PagesIn, MappedIn
<1>3. Emptied(v, n) \subseteq Slots
  BY DEF Emptied, SlotsTouched
<1>4. ASSUME NEW s \in Slots
      PROVE  s \in Emptied(v, n) <=> PagesIn(s, v, n) # {} /\ MappedIn(s) = PagesIn(s, v, n)
  <2>1. s \in SlotsTouched(v, n) <=> PagesIn(s, v, n) # {}
    BY <1>1, TouchedSlots, PagesOfASlot
  <2>2. l2_mapped_count[s] = Cardinality(MappedIn(s)) /\ IsFiniteSet(MappedIn(s))
    BY <1>1, PagesOfASlot, FinitePages DEF IInv, MappedCountExact
  <2>3. Cardinality(MappedIn(s)) = Cardinality(PagesIn(s, v, n)) => MappedIn(s) = PagesIn(s, v, n)
    BY <1>2, <2>2, FS_Subset
  <2>4. s \in Emptied(v, n) <=> s \in SlotsTouched(v, n) /\ l2_mapped_count[s] = Cardinality(PagesIn(s, v, n))
    BY DEF Emptied
  <2> QED BY <2>1, <2>2, <2>3, <2>4
<1>5. \A s \in Emptied(v, n) : l1[s] # NoTable
  BY <1>3, <1>4 DEF IInv, MappedCountExact
<1> QED BY <1>1, <1>2, <1>3, <1>4, <1>5

LEMMA UnmapDirectory ==
  ASSUME IInv, NEW v \in Nat, NEW n \in Nat, Unmap(v, n)
  PROVE  /\ l1' \in Directory /\ PoolPartition' /\ l2_freelist' \subseteq Tables
         /\ l2_free_count' \in Nat /\ FreeCountExact'
<1>1. /\ live /\ live' = live /\ RangeAccepted(v, n)
      /\ l1' = [s \in Slots |-> IF s \in Emptied(v, n) THEN NoTable ELSE l1[s]]
      /\ l2_freelist' = l2_freelist \cup Released(v, n)
      /\ l2_free_count' = l2_free_count + Cardinality(Emptied(v, n))
      /\ l2_carved_count' = l2_carved_count
  BY DEF Unmap, Running
<1> DEFINE E == Emptied(v, n)
           R == Released(v, n)
<1>2. E \subseteq Slots /\ (\A s \in E : l1[s] # NoTable) /\ R = {l1[s] : s \in E}
  BY <1>1, WhatIsEmptied DEF Released
<1>3. /\ l1 \in Directory /\ l2_freelist \subseteq Tables /\ NoneShared(l1)
      /\ l2_carved_count \in Nat /\ l2_free_count \in Nat
      /\ \A s \in Slots : l1[s] \notin l2_freelist /\ l1[s] \in 0 .. l2_carved_count
      /\ \A t \in l2_freelist : t \in 1 .. l2_carved_count
      /\ \A t \in 1 .. l2_carved_count : t \in l2_freelist \/ \E s \in Slots : l1[s] = t
  BY <1>1, Types
<1> HIDE DEF E, R
<1>4. \A s \in Slots : l1'[s] = IF s \in E THEN NoTable ELSE l1[s]
  BY <1>1 DEF E
<1>5. l1' \in Directory
  BY <1>1, <1>3 DEF Directory
<1>6. R \subseteq Tables /\ R \subseteq 1 .. l2_carved_count
  BY <1>2, <1>3 DEF Directory, Tables, NoTable
<1>7. NoneShared(l1')
  BY <1>3, <1>4 DEF NoneShared
<1>8. l2_freelist' = l2_freelist \cup R
  BY <1>1 DEF R
<1>9. ASSUME NEW s \in Slots PROVE l1'[s] \notin l2_freelist' /\ l1'[s] \in 0 .. l2_carved_count
  <2>1. CASE s \in E
    BY <1>3, <1>4, <1>6, <1>8, <2>1 DEF NoTable, Tables
  <2>2. CASE s \notin E
    <3>1. l1[s] \notin R
      <4> SUFFICES ASSUME NEW r \in E, l1[s] = l1[r] PROVE FALSE
        BY <1>2
      <4> QED BY <1>2, <1>3, <2>2 DEF NoneShared
    <3> QED BY <1>3, <1>4, <1>8, <2>2, <3>1
  <2> QED BY <2>1, <2>2
<1>10. \A t \in l2_freelist' : t \in 1 .. l2_carved_count
  BY <1>3, <1>6, <1>8
<1>11. ASSUME NEW t \in 1 .. l2_carved_count PROVE t \in l2_freelist' \/ \E s \in Slots : l1'[s] = t
  BY <1>2, <1>3, <1>4, <1>8
<1>12. l2_freelist' \in SUBSET Tables
  BY <1>3, <1>6, <1>8
<1>13. PoolPartition'
  <2>1. /\ \A s, r \in Slots : l1'[s] # NoTable /\ l1'[s] = l1'[r] => s = r
        /\ \A s \in Slots : l1'[s] \notin l2_freelist'
        /\ {l1'[s] : s \in Slots} \cup l2_freelist' \cup {NoTable} = 0 .. l2_carved_count
    BY <1>3, <1>5, <1>7, <1>9, <1>10, <1>11, <1>12, Partition
  <2> QED BY <1>1, <2>1 DEF PoolPartition
<1>14. l2_free_count' \in Nat /\ FreeCountExact'
  <2>1. Cardinality(R) = Cardinality(E) /\ IsFiniteSet(R) /\ Cardinality(E) \in Nat
    BY <1>2, <1>3, AsManyTables, FinitePages
  <2>2. l2_freelist \cap R = {}
    BY <1>2, <1>3
  <2>3. IsFiniteSet(l2_freelist) /\ l2_free_count = Cardinality(l2_freelist)
    BY <1>3, FinitePages DEF IInv, FreeCountExact
  <2>4. Cardinality(l2_freelist \cup R) = Cardinality(l2_freelist) + Cardinality(R) - Cardinality({})
    BY <2>1, <2>2, <2>3, FS_Union
  <2>5. Cardinality({}) = 0
    BY FS_EmptySet
  <2>6. l2_free_count' = l2_free_count + Cardinality(E)
    BY <1>1 DEF E
  <2> QED BY <1>3, <1>8, <2>1, <2>3, <2>4, <2>5, <2>6 DEF FreeCountExact
<1> QED BY <1>5, <1>12, <1>13, <1>14

LEMMA UnmapWords ==
  ASSUME IInv, NEW v \in Nat, NEW n \in Nat, Unmap(v, n)
  PROVE  /\ \A x \in Vpns : PteLoad(x)' = IF x \in VpnRange(v, n) THEN EmptyPte ELSE PteLoad(x)
         /\ l2' \in [Tables -> [Entries -> Pte]]
         /\ FreeTablesClean'
<1> DEFINE E == Emptied(v, n)
           R == Released(v, n)
<1>1. /\ live /\ RangeAccepted(v, n)
      /\ l1' = [s \in Slots |-> IF s \in E THEN NoTable ELSE l1[s]]
      /\ l2' = [t \in Tables |-> [e \in Entries |->
             IF t \in R /\ e = 0 THEN LinkWord(t, v, n)
             ELSE IF InRange(l1, t, e, v, n) THEN EmptyPte
             ELSE l2[t][e]]]
      /\ l2_freelist' = l2_freelist \cup R
  BY DEF Unmap, Running
<1>2. /\ ValidPageRange(v, n)
      /\ \A s \in Slots : s \in E <=> PagesIn(s, v, n) # {} /\ MappedIn(s) = PagesIn(s, v, n)
      /\ E \subseteq Slots /\ (\A s \in E : l1[s] # NoTable) /\ R = {l1[s] : s \in E}
      /\ \A w \in VpnRange(v, n) : w \in Vpns /\ PteLoad(w) # EmptyPte
  BY <1>1, WhatIsEmptied DEF Released
<1>3. /\ l1 \in Directory /\ l2 \in [Tables -> [Entries -> Pte]] /\ l2_freelist \subseteq Tables
      /\ NoneShared(l1)
      /\ \A t \in l2_freelist : \A e \in Entries : e # 0 => l2[t][e] = EmptyPte
  BY <1>1, Types DEF IInv, FreeTablesClean
<1> HIDE DEF E, R
<1>4. ASSUME NEW x \in Vpns, SlotOf(x) \in E, x \notin VpnRange(v, n) PROVE PteLoad(x) = EmptyPte
  BY <1>2, <1>4 DEF MappedIn, PagesIn
<1>5. ASSUME NEW x \in Vpns
      PROVE  PteLoad(x)' = IF x \in VpnRange(v, n) THEN EmptyPte ELSE PteLoad(x)
  <2> DEFINE s == SlotOf(x)
             e == IndexOf(x)
             t == l1[s]
  <2>1. s \in Slots /\ e \in Entries
    BY InSlots
  <2>2. /\ PteLoad(x) = IF t = NoTable THEN EmptyPte ELSE l2[t][e]
        /\ PteLoad(x)' = IF l1'[s] = NoTable THEN EmptyPte ELSE l2'[l1'[s]][e]
    BY DEF PteLoad
  <2>3. t # NoTable => t \in Tables /\ (InRange(l1, t, e, v, n) <=> x \in VpnRange(v, n))
    BY <1>2, <1>3, TheWordOfAPage
  <2>4. l1'[s] = IF s \in E THEN NoTable ELSE t
    BY <1>1, <2>1
  <2>5. s \in E /\ x \notin VpnRange(v, n) => PteLoad(x) = EmptyPte
    BY <1>4
  <2>6. s \notin E /\ t # NoTable => t \notin R
    BY <1>2, <1>3, <2>1 DEF NoneShared
  <2> HIDE DEF s, e
  <2>7. s \notin E /\ t # NoTable => l2'[t][e] = IF x \in VpnRange(v, n) THEN EmptyPte ELSE l2[t][e]
    BY <1>1, <2>1, <2>3, <2>6
  <2>8. t = NoTable => x \notin VpnRange(v, n)
    BY <1>2, <2>2
  <2> QED BY <2>2, <2>4, <2>5, <2>7, <2>8
<1>6. l2' \in [Tables -> [Entries -> Pte]]
  <2>1. ASSUME NEW t PROVE LinkWord(t, v, n) \in Pte
    BY GuestRamBaseAssumption DEF LinkWord, EmptyPte, FreeLink, Pte
  <2> QED BY <1>1, <1>3, <2>1, PteTypes
<1>7. FreeTablesClean'
  <2> SUFFICES ASSUME NEW t \in l2_freelist', NEW e \in Entries, e # 0
               PROVE  l2'[t][e] = EmptyPte
    BY DEF FreeTablesClean
  <2>1. ASSUME t \in R PROVE t \in Tables /\ (InRange(l1, t, e, v, n) \/ l2[t][e] = EmptyPte)
    <3>1. PICK s \in E : t = l1[s]
      BY <1>2, <2>1
    <3>2. s \in Slots /\ t # NoTable /\ t \in Tables
      BY <1>2, <1>3, <3>1 DEF Directory
    <3> DEFINE x == VpnAt(s, e)
    <3>3. x \in Vpns /\ SlotOf(x) = s /\ IndexOf(x) = e
      BY <3>2, EntryOfSlot
    <3> HIDE DEF x
    <3>4. CASE x \in VpnRange(v, n)
      BY <1>2, <1>3, <3>1, <3>2, <3>3, <3>4, TheWordOfAPage
    <3>5. CASE x \notin VpnRange(v, n)
      <4>1. PteLoad(x) = EmptyPte
        BY <1>4, <3>1, <3>3, <3>5
      <4> QED BY <3>1, <3>2, <3>3, <4>1 DEF PteLoad
    <3> QED BY <3>2, <3>4, <3>5
  <2>2. t \in Tables /\ (InRange(l1, t, e, v, n) \/ l2[t][e] = EmptyPte)
    BY <1>1, <1>3, <2>1
  <2> QED BY <1>1, <2>2
<1> QED BY <1>5, <1>6, <1>7

LEMMA UnmapCounts ==
  ASSUME IInv, NEW v \in Nat, NEW n \in Nat, Unmap(v, n)
  PROVE  l2_mapped_count' \in [Slots -> Nat] /\ MappedCountExact'
<1>1. /\ live /\ RangeAccepted(v, n)
      /\ l1' = [s \in Slots |-> IF s \in Emptied(v, n) THEN NoTable ELSE l1[s]]
      /\ l2_mapped_count' = [s \in Slots |->
                           l2_mapped_count[s] - Cardinality(PagesIn(s, v, n))]
  BY DEF Unmap, Running
<1>2. /\ ValidPageRange(v, n)
      /\ \A s \in Slots : s \in Emptied(v, n) <=> PagesIn(s, v, n) # {} /\ MappedIn(s) = PagesIn(s, v, n)
      /\ \A s \in Slots : PagesIn(s, v, n) \subseteq MappedIn(s)
  BY <1>1, WhatIsEmptied
<1>3. ASSUME NEW s \in Slots
      PROVE  MappedIn(s)' = MappedIn(s) \ PagesIn(s, v, n)
  <2>1. MappedIn(s)' = {w \in Vpns : SlotOf(w) = s /\ PteLoad(w)' # EmptyPte}
    BY DEF MappedIn
  <2> QED BY <2>1, UnmapWords DEF MappedIn, PagesIn
<1>4. ASSUME NEW s \in Slots
      PROVE  /\ l2_mapped_count'[s] \in Nat
             /\ l2_mapped_count'[s] = Cardinality(MappedIn(s)')
             /\ l1'[s] = NoTable <=> MappedIn(s)' = {}
  <2>1. /\ IsFiniteSet(PagesIn(s, v, n)) /\ Cardinality(PagesIn(s, v, n)) \in Nat
        /\ IsFiniteSet(MappedIn(s)) /\ Cardinality(MappedIn(s)) \in Nat
    BY <1>2, PagesOfASlot, FinitePages
  <2>2. l2_mapped_count[s] = Cardinality(MappedIn(s)) /\ (l1[s] = NoTable <=> MappedIn(s) = {})
    BY <1>1 DEF IInv, MappedCountExact
  <2>3. MappedIn(s) \cap PagesIn(s, v, n) = PagesIn(s, v, n)
    BY <1>2
  <2>4. /\ IsFiniteSet(MappedIn(s) \ PagesIn(s, v, n))
        /\ Cardinality(MappedIn(s) \ PagesIn(s, v, n)) = Cardinality(MappedIn(s)) - Cardinality(PagesIn(s, v, n))
    BY <2>1, <2>3, FS_Difference
  <2>5. l2_mapped_count'[s] = Cardinality(MappedIn(s)')
    BY <1>1, <1>3, <2>2, <2>4
  <2>6. l2_mapped_count'[s] \in Nat
    BY <1>3, <2>4, <2>5, FS_CardinalityType
  <2>7. l1'[s] = NoTable <=> MappedIn(s)' = {}
    BY <1>1, <1>2, <1>3, <2>2
  <2> QED BY <2>5, <2>6, <2>7
<1>5. l2_mapped_count' \in [Slots -> Nat]
  <2>1. l2_mapped_count' = [s \in Slots |-> l2_mapped_count'[s]]
    BY <1>1
  <2> QED BY <1>4, <2>1
<1>6. MappedCountExact'
  BY <1>4 DEF MappedCountExact
<1> QED BY <1>5, <1>6

LEMMA UnmapKeeps ==
  ASSUME IInv, NEW v \in Nat, NEW n \in Nat, Unmap(v, n)
  PROVE  /\ IInv'
         /\ \A x \in Vpns : PteLoad(x)' = IF x \in VpnRange(v, n) THEN EmptyPte ELSE PteLoad(x)
<1>1. /\ UNCHANGED <<live, borrowVars, aborted, l2_carved_count>> /\ result' = "OK" /\ ~ BorrowOverlaps(v, n)
  BY DEF Unmap
<1>2. /\ l1' \in Directory /\ PoolPartition' /\ l2_freelist' \subseteq Tables
      /\ l2_free_count' \in Nat /\ FreeCountExact'
  BY UnmapDirectory
<1>3. /\ \A x \in Vpns : PteLoad(x)' = IF x \in VpnRange(v, n) THEN EmptyPte ELSE PteLoad(x)
      /\ l2' \in [Tables -> [Entries -> Pte]] /\ FreeTablesClean'
  BY UnmapWords
<1>4. l2_mapped_count' \in [Slots -> Nat] /\ MappedCountExact'
  BY UnmapCounts
<1>5. BorrowsInSpace' /\ BorrowsStayValid'
  BY <1>1, <1>3, BorrowsKeep DEF borrowVars
<1>6. TypeOK'
  BY <1>1, <1>2, <1>3, <1>4 DEF TypeOK, IInv, borrowVars, Directory
<1>7. BackedByRam'
  BY <1>1, <1>3 DEF IInv, BackedByRam
<1> QED BY <1>2, <1>3, <1>4, <1>5, <1>6, <1>7 DEF IInv

-----------------------------------------------------------------------------
(* vmm_reprotect                                                           *)

LEMMA ReprotectKeeps ==
  ASSUME IInv, NEW v \in Nat, NEW n \in Nat, NEW perms, Reprotect(v, n, perms)
  PROVE  /\ IInv'
         /\ \A x \in Vpns : PteLoad(x)' = IF x \in VpnRange(v, n)
                                          THEN [host |-> PteLoad(x).host, perms |-> perms]
                                          ELSE PteLoad(x)
<1>1. /\ UNCHANGED <<live, l1, l2_freelist, l2_free_count, l2_carved_count,
                     l2_mapped_count, borrowVars, aborted>>
      /\ result' = "OK" /\ ~ BorrowOverlaps(v, n) /\ live /\ RangeAccepted(v, n)
      /\ perms \in SUBSET Rights
      /\ l2' = [t \in Tables |-> [e \in Entries |->
             IF InRange(l1, t, e, v, n) THEN [host |-> l2[t][e].host, perms |-> perms]
                                        ELSE l2[t][e]]]
  BY DEF Reprotect, Running
<1>2. /\ l1 \in Directory /\ l2 \in [Tables -> [Entries -> Pte]] /\ l2_freelist \subseteq Tables
      /\ NoneShared(l1)
      /\ \A s \in Slots : l1[s] \notin l2_freelist
  BY <1>1, Types
<1>3. ValidPageRange(v, n) /\ \A w \in VpnRange(v, n) : w \in Vpns /\ PteLoad(w) # EmptyPte
  BY <1>1, WhatIsEmptied
<1>4. ASSUME NEW x \in Vpns
      PROVE  PteLoad(x)' = IF x \in VpnRange(v, n)
                           THEN [host |-> PteLoad(x).host, perms |-> perms] ELSE PteLoad(x)
  <2> DEFINE s == SlotOf(x)
             e == IndexOf(x)
             t == l1[s]
  <2>1. s \in Slots /\ e \in Entries
    BY InSlots
  <2>2. /\ PteLoad(x) = IF t = NoTable THEN EmptyPte ELSE l2[t][e]
        /\ PteLoad(x)' = IF t = NoTable THEN EmptyPte ELSE l2'[t][e]
    BY <1>1 DEF PteLoad
  <2>3. t # NoTable => t \in Tables /\ (InRange(l1, t, e, v, n) <=> x \in VpnRange(v, n))
    BY <1>2, <1>3, TheWordOfAPage
  <2> HIDE DEF s, e
  <2>4. t # NoTable => l2'[t][e] = IF x \in VpnRange(v, n)
                                   THEN [host |-> l2[t][e].host, perms |-> perms] ELSE l2[t][e]
    BY <1>1, <2>1, <2>3
  <2>5. t = NoTable => x \notin VpnRange(v, n)
    BY <1>3, <2>2
  <2> QED BY <2>2, <2>4, <2>5
<1>5. l2' \in [Tables -> [Entries -> Pte]]
  BY <1>1, <1>2, PteTypes
<1>6. FreeTablesClean'
  <2> SUFFICES ASSUME NEW t \in l2_freelist, NEW e \in Entries, e # 0
               PROVE  l2'[t][e] = EmptyPte
    BY <1>1 DEF FreeTablesClean
  <2>1. ~ InRange(l1, t, e, v, n)
    <3> SUFFICES ASSUME NEW w \in VpnRange(v, n) PROVE l1[SlotOf(w)] # t
      BY DEF InRange, Backs
    <3> QED BY <1>2, <1>3, InSlots
  <2> QED BY <1>1, <1>2, <2>1 DEF IInv, FreeTablesClean
<1>7. ASSUME NEW w \in Vpns
      PROVE  /\ PteLoad(w)' = EmptyPte <=> PteLoad(w) = EmptyPte
             /\ PteLoad(w)'.host = PteLoad(w).host
  <2>1. CASE w \in VpnRange(v, n)
    <3>1. PteLoad(w) # EmptyPte /\ PteLoad(w)' = [host |-> PteLoad(w).host, perms |-> perms]
      BY <1>3, <1>4, <2>1
    <3>2. PteLoad(w) \in Pte /\ GuestRamBase <= PteLoad(w).host
      BY <1>1, <3>1, Types DEF IInv, BackedByRam
    <3>3. PteLoad(w)'.host # 0
      BY <3>1, <3>2, GuestRamBaseAssumption DEF Pte
    <3>4. PteLoad(w)' # EmptyPte
      BY <3>3 DEF EmptyPte
    <3> QED BY <3>1, <3>4
  <2>2. CASE w \notin VpnRange(v, n)
    BY <1>4, <2>2
  <2> QED BY <2>1, <2>2
<1>8. \A s \in Slots : MappedIn(s)' = MappedIn(s)
  BY <1>7 DEF MappedIn
<1>9. MappedCountExact'
  BY <1>1, <1>8 DEF IInv, MappedCountExact
<1>10. BackedByRam'
  BY <1>1, <1>7 DEF IInv, BackedByRam
<1>11. PoolPartition' /\ FreeCountExact'
  BY <1>1 DEF IInv, PoolPartition, FreeCountExact
<1>12. BorrowsInSpace' /\ BorrowsStayValid'
  BY <1>1, <1>4, BorrowsKeep DEF borrowVars
<1>13. TypeOK'
  BY <1>1, <1>5 DEF TypeOK, IInv, borrowVars
<1> QED BY <1>4, <1>6, <1>9, <1>10, <1>11, <1>12, <1>13 DEF IInv

-----------------------------------------------------------------------------
(* The other actions.                                                      *)

\* Tables that do not change keep everything said of them.
LEMMA TablesStay ==
  ASSUME IInv, UNCHANGED <<live, tableVars>>,
         aborted' \in BOOLEAN, result' \in {"OK", "INVALID_ARGUMENT", "OUT_OF_MEMORY"},
         borrows' \subseteq Borrow, borrow_scope_depth' \in {0, 1},
         \A b \in borrows' : ValidPageRange(b.vpn, b.page_count),
         \A b \in borrows' : \A w \in VpnRange(b.vpn, b.page_count) :
           Grants(w, b.perms) /\ PteLoad(w).host = b.host + (w - b.vpn)
  PROVE  IInv' /\ \A x \in Vpns : PteLoad(x)' = PteLoad(x)
<1>1. \A x : PteLoad(x)' = PteLoad(x)
  BY DEF PteLoad, tableVars
<1>2. TypeOK'
  BY DEF TypeOK, IInv, tableVars
<1>3. PoolPartition' /\ FreeTablesClean' /\ FreeCountExact'
  BY DEF IInv, PoolPartition, FreeTablesClean, FreeCountExact, tableVars
<1>4. \A s \in Slots : MappedIn(s)' = MappedIn(s)
  BY <1>1 DEF MappedIn
<1>5. MappedCountExact'
  BY <1>4 DEF IInv, MappedCountExact, tableVars
<1>6. BackedByRam'
  BY <1>1 DEF IInv, BackedByRam
<1>7. BorrowsInSpace' /\ BorrowsStayValid'
  BY <1>1 DEF BorrowsInSpace, BorrowsStayValid, Grants
<1> QED BY <1>1, <1>2, <1>3, <1>5, <1>6, <1>7 DEF IInv

LEMMA NothingChanges ==
  ASSUME IInv, UNCHANGED <<live, tableVars, borrowVars>>,
         aborted' \in BOOLEAN, result' \in {"OK", "INVALID_ARGUMENT", "OUT_OF_MEMORY"}
  PROVE  IInv' /\ \A x \in Vpns : PteLoad(x)' = PteLoad(x)
BY TablesStay DEF IInv, TypeOK, BorrowsInSpace, BorrowsStayValid, borrowVars

\* A context that comes up or goes down has no table and no borrow.
LEMMA EmptyContext ==
  ASSUME l1' = [s \in Slots |-> NoTable], l2' \in [Tables -> [Entries -> Pte]],
         l2_freelist' = {}, l2_free_count' = 0, l2_carved_count' = 0,
         l2_mapped_count' = [s \in Slots |-> 0], borrows' = {}, borrow_scope_depth' = 0,
         live' \in BOOLEAN, aborted' \in BOOLEAN, result' = "OK"
  PROVE  IInv' /\ \A x \in Vpns : PteLoad(x)' = EmptyPte
<1> USE GeometryAssumption
<1>1. \A x \in Vpns : PteLoad(x)' = EmptyPte
  BY InSlots DEF PteLoad
<1>2. TypeOK'
  BY DEF TypeOK
<1>3. FreeTablesClean' /\ BackedByRam' /\ BorrowsInSpace' /\ BorrowsStayValid'
  BY <1>1 DEF FreeTablesClean, BackedByRam, BorrowsInSpace, BorrowsStayValid
<1>4. PoolPartition'
  <2>1. {l1'[s] : s \in Slots} = {NoTable}
    BY DEF Slots
  <2>2. {NoTable} = 0 .. 0
    BY DEF NoTable
  <2> QED BY <2>1, <2>2 DEF PoolPartition
<1>5. Cardinality({}) = 0
  BY FS_EmptySet
<1>6. FreeCountExact'
  BY <1>5 DEF FreeCountExact
<1>7. \A s \in Slots : MappedIn(s)' = {}
  BY <1>1 DEF MappedIn
<1>8. MappedCountExact'
  BY <1>5, <1>7 DEF MappedCountExact
<1> QED BY <1>1, <1>2, <1>3, <1>4, <1>6, <1>8 DEF IInv

LEMMA StaleTyped == StaleTables \in [Tables -> [Entries -> Pte]]
BY GuestRamBaseAssumption DEF StaleTables, FreeLink, Pte

LEMMA ContextKeeps ==
  ASSUME IInv, Create \/ Destroy
  PROVE  IInv' /\ \A x \in Vpns : PteLoad(x)' = EmptyPte
<1>1. /\ l1' = [s \in Slots |-> NoTable] /\ l2_freelist' = {} /\ l2_free_count' = 0
      /\ l2_carved_count' = 0 /\ l2_mapped_count' = [s \in Slots |-> 0]
      /\ borrows' = {} /\ borrow_scope_depth' = 0 /\ live' \in BOOLEAN /\ result' = "OK"
      /\ aborted' = aborted
  BY DEF Create, Destroy
<1>2. l2' \in [Tables -> [Entries -> Pte]]
  BY Types, StaleTyped DEF Create, Destroy
<1>3. aborted' \in BOOLEAN
  BY <1>1 DEF IInv, TypeOK
<1> QED BY <1>1, <1>2, <1>3, EmptyContext

LEMMA BorrowKeeps ==
  ASSUME IInv, NEW v \in Nat, NEW n \in Nat, NEW required, GuestToHost(v, n, required)
  PROVE  IInv' /\ \A x \in Vpns : PteLoad(x)' = PteLoad(x)
<1> DEFINE new == [vpn |-> v, page_count |-> n, host |-> PteLoad(v).host, perms |-> required]
<1>1. /\ UNCHANGED <<live, tableVars, borrow_scope_depth, aborted, result>>
      /\ borrows' = borrows \cup {new} /\ ValidPageRange(v, n)
      /\ \A w \in VpnRange(v, n) :
           Grants(w, required) /\ PteLoad(w).host = PteLoad(v).host + (w - v)
  BY DEF GuestToHost, CanBorrow, HostContiguous
<1>2. v \in VpnRange(v, n) /\ v \in Vpns
  BY <1>1, RangeInSpace
<1>3. PteLoad(v) \in Pte /\ required \subseteq PteLoad(v).perms
  BY <1>1, <1>2, Types DEF Grants
<1>4. new \in Borrow
  BY <1>2, <1>3 DEF Borrow, Pte
<1>5. borrows \subseteq Borrow /\ BorrowsInSpace /\ BorrowsStayValid
      /\ aborted \in BOOLEAN /\ borrow_scope_depth \in {0, 1}
      /\ result \in {"OK", "INVALID_ARGUMENT", "OUT_OF_MEMORY"}
  BY DEF IInv, TypeOK
<1>6. /\ \A b \in borrows' : ValidPageRange(b.vpn, b.page_count)
      /\ \A b \in borrows' : \A w \in VpnRange(b.vpn, b.page_count) :
           Grants(w, b.perms) /\ PteLoad(w).host = b.host + (w - b.vpn)
  BY <1>1, <1>5 DEF BorrowsInSpace, BorrowsStayValid
<1> HIDE DEF new
<1> QED BY <1>1, <1>4, <1>5, <1>6, TablesStay

LEMMA ScopeKeeps ==
  ASSUME IInv, BorrowScopeBegin \/ BorrowScopeEnd
  PROVE  IInv' /\ \A x \in Vpns : PteLoad(x)' = PteLoad(x)
<1>1. /\ UNCHANGED <<live, tableVars, aborted, result>> /\ borrows' = {}
      /\ borrow_scope_depth' \in {0, 1}
  BY DEF BorrowScopeBegin, BorrowScopeEnd
<1>2. aborted \in BOOLEAN /\ result \in {"OK", "INVALID_ARGUMENT", "OUT_OF_MEMORY"}
  BY DEF IInv, TypeOK
<1> QED BY <1>1, <1>2, TablesStay

\* A refused call, or an assertion that fires.
LEMMA RefusedOrAborted ==
  ASSUME IInv, NEW v \in Nat, NEW n \in Nat, NEW pa \in Nat, NEW perms,
         \/ MapRejected(v, n, pa, perms) \/ MapOutOfTables(v, n, pa, perms)
         \/ RangeRejected(v, n, perms) \/ MutationUnderBorrow(v, n, pa, perms)
         \/ BorrowMisused(v, n, perms) \/ ScopeMisused
  PROVE  /\ IInv' /\ live' = live
         /\ \A x \in Vpns : PteLoad(x)' = PteLoad(x)
         /\ \/ result' = result \/ result' = "INVALID_ARGUMENT"
            \/ result' = "OUT_OF_MEMORY" /\ live /\ MapAccepted(v, n, pa, perms)
<1>1. aborted \in BOOLEAN /\ result \in {"OK", "INVALID_ARGUMENT", "OUT_OF_MEMORY"}
  BY DEF IInv, TypeOK
<1>2. /\ UNCHANGED <<live, tableVars, borrowVars>>
      /\ aborted' \in BOOLEAN
      /\ \/ result' = result \/ result' = "INVALID_ARGUMENT"
         \/ result' = "OUT_OF_MEMORY" /\ live /\ MapAccepted(v, n, pa, perms)
  BY <1>1 DEF MapRejected, MapOutOfTables, RangeRejected, MutationUnderBorrow, BorrowMisused,
       ScopeMisused, Abort, Running
<1>3. result' \in {"OK", "INVALID_ARGUMENT", "OUT_OF_MEMORY"}
  BY <1>1, <1>2
<1> QED BY <1>2, <1>3, NothingChanges

-----------------------------------------------------------------------------
(* The invariant.                                                          *)

LEMMA InitIInv == Init => IInv
<1> SUFFICES ASSUME Init PROVE IInv
  OBVIOUS
<1> USE GeometryAssumption
<1>1. StaleL1 \in [Slots -> {NoTable} \cup Tables]
  BY DEF StaleL1, NoTable, Tables
<1>2. TypeOK
  <2>1. /\ live \in BOOLEAN /\ aborted \in BOOLEAN
        /\ l1 \in [Slots -> {NoTable} \cup Tables]
        /\ l2 \in [Tables -> [Entries -> Pte]]
    BY <1>1, StaleTyped DEF Init
  <2>2. /\ l2_freelist \subseteq Tables /\ l2_free_count \in Nat
        /\ l2_carved_count \in 0 .. TableCapacity
        /\ l2_mapped_count \in [Slots -> Nat]
    BY DEF Init
  <2> QED BY <2>1, <2>2 DEF Init, TypeOK
<1>3. Cardinality({}) = 0
  BY FS_EmptySet
<1> QED BY <1>2, <1>3 DEF Init, IInv, PoolPartition, FreeTablesClean, MappedCountExact,
       FreeCountExact, BackedByRam, BorrowsInSpace, BorrowsStayValid

\* A call of Next, by what it does to the map.
LEMMA Calls ==
  ASSUME Next
  PROVE  \/ Create \/ Destroy
         \/ \E v, n, pa \in Nat, perms \in PermArgs :
              \/ Map(v, n, pa, perms) \/ Reprotect(v, n, perms) \/ Unmap(v, n)
              \/ GuestToHost(v, n, perms)
              \/ MapRejected(v, n, pa, perms) \/ MapOutOfTables(v, n, pa, perms)
              \/ RangeRejected(v, n, perms) \/ MutationUnderBorrow(v, n, pa, perms)
              \/ BorrowMisused(v, n, perms)
         \/ \E v, n \in Nat : Unmap(v, n)
         \/ BorrowScopeBegin \/ BorrowScopeEnd \/ ScopeMisused
<1>1. RangeStarts \subseteq Nat /\ RangeSizes \subseteq Nat /\ 0 .. RamPages \subseteq Nat
  BY DEF RangeStarts, RangeSizes
<1>2. 0 \in Nat
  OBVIOUS
<1>3. CASE \E v \in RangeStarts, n \in RangeSizes, perms \in PermArgs, pa \in 0 .. RamPages :
             \/ MapRejected(v, n, pa, perms) \/ MapOutOfTables(v, n, pa, perms)
             \/ Map(v, n, pa, perms) \/ MutationUnderBorrow(v, n, pa, perms)
  BY <1>1, <1>3
<1>4. CASE \E v \in RangeStarts, n \in RangeSizes, perms \in PermArgs :
             \/ RangeRejected(v, n, perms) \/ Reprotect(v, n, perms)
             \/ GuestToHost(v, n, perms) \/ BorrowMisused(v, n, perms)
  BY <1>1, <1>2, <1>4
<1>5. CASE \E v \in RangeStarts, n \in RangeSizes : Unmap(v, n)
  BY <1>1, <1>5
<1> QED BY <1>3, <1>4, <1>5 DEF Next

LEMMA StepIInv == IInv /\ [Next]_vars => IInv'
<1> SUFFICES ASSUME IInv, [Next]_vars PROVE IInv'
  OBVIOUS
<1>1. CASE UNCHANGED vars
  <2>1. aborted \in BOOLEAN /\ result \in {"OK", "INVALID_ARGUMENT", "OUT_OF_MEMORY"}
    BY DEF IInv, TypeOK
  <2> QED BY <1>1, <2>1, NothingChanges DEF vars, tableVars, borrowVars
<1>2. ASSUME NEW v \in Nat, NEW n \in Nat, NEW pa \in Nat, NEW perms \in PermArgs,
              \/ Map(v, n, pa, perms) \/ Reprotect(v, n, perms)
              \/ GuestToHost(v, n, perms)
              \/ MapRejected(v, n, pa, perms) \/ MapOutOfTables(v, n, pa, perms)
              \/ RangeRejected(v, n, perms) \/ MutationUnderBorrow(v, n, pa, perms)
              \/ BorrowMisused(v, n, perms)
      PROVE  IInv'
  <2>1. CASE Map(v, n, pa, perms)
    BY <2>1, MapKeeps
  <2>2. CASE Reprotect(v, n, perms)
    BY <2>2, ReprotectKeeps
  <2>3. CASE GuestToHost(v, n, perms)
    BY <2>3, BorrowKeeps
  <2> QED BY <1>2, <2>1, <2>2, <2>3, RefusedOrAborted
<1>3. ASSUME NEW v \in Nat, NEW n \in Nat, Unmap(v, n) PROVE IInv'
  BY <1>3, UnmapKeeps
<1>4. CASE ScopeMisused
  <2>1. 0 \in Nat
    OBVIOUS
  <2> QED BY <1>4, <2>1, RefusedOrAborted
<1>5. CASE Next
  BY <1>2, <1>3, <1>4, <1>5, Calls, ContextKeeps, ScopeKeeps
<1> QED BY <1>1, <1>5

THEOREM PoolIsInductive == Spec => []IInv
BY InitIInv, StepIInv, PTL DEF Spec

\* Both counts give the tables still to be had exactly.
LEMMA AvailableExact == IInv => TablesAvailableExact
<1> SUFFICES ASSUME IInv, live
             PROVE  L2TablesAvailable = TableCapacity - Cardinality({s \in Slots : MappedIn(s) # {}})
  BY DEF TablesAvailableExact
<1> DEFINE S == {s \in Slots : MappedIn(s) # {}}
           I == {l1[s] : s \in S}
<1>1. /\ l1 \in Directory /\ l2_freelist \subseteq Tables /\ NoneShared(l1)
      /\ l2_carved_count \in Nat /\ l2_free_count = Cardinality(l2_freelist)
      /\ \A s \in Slots : l1[s] \notin l2_freelist /\ l1[s] \in 0 .. l2_carved_count
      /\ \A t \in l2_freelist : t \in 1 .. l2_carved_count
      /\ \A t \in 1 .. l2_carved_count : t \in l2_freelist \/ \E s \in Slots : l1[s] = t
  BY Types DEF IInv, FreeCountExact
<1>2. \A s \in Slots : s \in S <=> l1[s] # NoTable
  BY DEF IInv, MappedCountExact
<1>3. S \in SUBSET Slots
  OBVIOUS
<1> HIDE DEF S
<1>4. Cardinality(I) = Cardinality(S) /\ IsFiniteSet(I) /\ Cardinality(S) \in Nat
  BY <1>1, <1>2, <1>3, AsManyTables, FinitePages
<1>5. l2_freelist \cup I = 1 .. l2_carved_count
  <2>1. I \subseteq 1 .. l2_carved_count
    BY <1>1, <1>2, <1>3 DEF NoTable
  <2>2. ASSUME NEW t \in 1 .. l2_carved_count PROVE t \in l2_freelist \cup I
    BY <1>1, <1>2 DEF NoTable
  <2> QED BY <1>1, <2>1, <2>2
<1>6. l2_freelist \cap I = {}
  BY <1>1, <1>3
<1>7. IsFiniteSet(l2_freelist) /\ Cardinality(l2_freelist) \in Nat
  BY <1>1, FinitePages
<1>8. Cardinality(l2_freelist \cup I) = Cardinality(l2_freelist) + Cardinality(I) - Cardinality({})
  BY <1>4, <1>6, <1>7, FS_Union
<1>9. Cardinality({}) = 0
  BY FS_EmptySet
<1>10. Cardinality(1 .. l2_carved_count) = l2_carved_count
  BY <1>1, FS_Interval
<1>11. l2_free_count + Cardinality(S) = l2_carved_count
  <2>1. Cardinality(l2_freelist \cup I) = l2_carved_count
    BY <1>5, <1>10
  <2>2. Cardinality(I) = Cardinality(S) /\ Cardinality(l2_freelist) = l2_free_count
    BY <1>1, <1>4
  <2> QED BY <1>4, <1>7, <1>8, <1>9, <2>1, <2>2
<1>12. L2TablesAvailable = TableCapacity - Cardinality(S)
  BY <1>1, <1>4, <1>7, <1>11, GeometryAssumption DEF L2TablesAvailable
<1> QED BY <1>12 DEF S

\* No table of the pool is ever lost, in two slots, or on the freelist while a
\* slot has it; a free table is clean; the count that gives a table back and the
\* one that answers OUT_OF_MEMORY are exact.
THEOREM PoolIsSound == Spec => []PoolSound
<1>1. IInv => PoolSound
  BY AvailableExact DEF PoolSound, IInv
<1> QED BY <1>1, PoolIsInductive, PTL

\* A borrowed host pointer stays good over its whole extent while its scope is
\* open, whatever is mapped, unmapped and protected meanwhile.
THEOREM BorrowsAreValid == Spec => []BorrowsStayValid
<1>1. IInv => BorrowsStayValid
  BY DEF IInv
<1> QED BY <1>1, PoolIsInductive, PTL

-----------------------------------------------------------------------------
(* The refinement of PageMap, step by step.                                *)

FlatPages == [v \in Vpns |-> FlatPage(v)]

LEMMA FlatPageOf ==
  ASSUME IInv, NEW x \in Vpns, live
  PROVE  /\ FlatPages[x] = Flat!Unmapped <=> PteLoad(x) = EmptyPte
         /\ PteLoad(x) # EmptyPte =>
              FlatPages[x] = [pa |-> PteLoad(x).host - GuestRamBase, perms |-> PteLoad(x).perms]
<1>1. CASE PteLoad(x) = EmptyPte
  BY <1>1 DEF FlatPages, FlatPage, Flat!Unmapped
<1>2. CASE PteLoad(x) # EmptyPte
  <2>1. PteLoad(x) \in Pte /\ GuestRamBase <= PteLoad(x).host
    BY <1>2, Types DEF IInv, BackedByRam
  <2>2. FlatPages[x] = [pa |-> PteLoad(x).host - GuestRamBase, perms |-> PteLoad(x).perms]
    BY <1>2 DEF FlatPages, FlatPage
  <2>3. FlatPages[x].pa # -1
    BY <2>1, <2>2, GuestRamBaseAssumption DEF Pte
  <2> QED BY <1>2, <2>2, <2>3 DEF Flat!Unmapped
<1> QED BY <1>1, <1>2

LEMMA FlatPageThen ==
  ASSUME NEW x \in Vpns, live'
  PROVE  FlatPages'[x] = IF PteLoad(x)' = EmptyPte THEN Flat!Unmapped
                         ELSE [pa |-> PteLoad(x)'.host - GuestRamBase, perms |-> PteLoad(x)'.perms]
BY DEF FlatPages, FlatPage, Flat!Unmapped

\* A valid range is one of the flat map's.
LEMMA FlatRanges ==
  ASSUME NEW v \in Nat, NEW n \in Nat, ValidPageRange(v, n)
  PROVE  /\ n \in 1 .. PageTotal /\ v \in 0 .. (PageTotal - n)
         /\ Flat!InSpace(v, n) /\ Flat!FlatRange(v, n) = VpnRange(v, n)
         /\ Flat!Pages = Vpns
<1>1. PageTotal \in Nat
  BY GeometryAssumption, SMTT(30) DEF PageTotal
<1> QED BY <1>1 DEF ValidPageRange, Flat!InSpace, Flat!FlatRange, VpnRange, Flat!Pages, Vpns

LEMMA FlatMaps ==
  ASSUME IInv, NEW v \in Nat, NEW n \in Nat, NEW pa \in Nat, NEW perms, Map(v, n, pa, perms)
  PROVE  Flat!FlatNext
<1>1. /\ MapAccepted(v, n, pa, perms) /\ live /\ live' = live /\ result' = "OK"
  BY DEF Map, Running
<1>2. /\ ValidPageRange(v, n) /\ perms \in SUBSET Rights /\ pa + n <= RamPages /\ pa < RamPages
      /\ \A w \in VpnRange(v, n) : PteLoad(w) = EmptyPte
      /\ \A w \in VpnRange(v, n) : w \in Vpns /\ w \in Nat /\ v <= w
  BY <1>1, MapArguments, RangeInSpace
<1>3. \A x \in Vpns : PteLoad(x)' = IF x \in VpnRange(v, n)
                                    THEN MakePte(pa + (x - v), perms) ELSE PteLoad(x)
  BY MapKeeps
<1>4. /\ n \in 1 .. PageTotal /\ v \in 0 .. (PageTotal - n)
      /\ Flat!InSpace(v, n) /\ Flat!FlatRange(v, n) = VpnRange(v, n) /\ Flat!Pages = Vpns
  BY <1>2, FlatRanges
<1>5. ASSUME NEW x \in Vpns
      PROVE  FlatPages'[x] = IF x \in VpnRange(v, n) THEN [pa |-> pa + (x - v), perms |-> perms]
                             ELSE FlatPages[x]
  <2>1. CASE x \in VpnRange(v, n)
    <3>1. pa + (x - v) \in Nat
      BY <1>2, <2>1
    <3>2. /\ PteLoad(x)' # EmptyPte /\ PteLoad(x)'.host = GuestRamBase + (pa + (x - v))
          /\ PteLoad(x)'.perms = perms
      BY <1>2, <1>3, <2>1, <3>1, PteTypes DEF MakePte
    <3>3. (GuestRamBase + (pa + (x - v))) - GuestRamBase = pa + (x - v)
      BY <3>1, GuestRamBaseAssumption
    <3> QED BY <1>1, <2>1, <3>2, <3>3, FlatPageThen
  <2>2. CASE x \notin VpnRange(v, n)
    BY <1>1, <1>3, <2>2 DEF FlatPages, FlatPage
  <2> QED BY <2>1, <2>2
<1>6. FlatPages' = Flat!Mapped(FlatPages, v, n, pa, perms)
  <2>1. FlatPages' = [x \in Vpns |-> FlatPages'[x]]
    BY DEF FlatPages
  <2> QED BY <1>4, <1>5, <2>1 DEF Flat!Mapped
<1>7. Flat!AllHoles(FlatPages, v, n)
  BY <1>1, <1>2, <1>4, FlatPageOf DEF Flat!AllHoles
<1>8. Flat!FlatMap(v, n, pa, perms)
  BY <1>1, <1>2, <1>4, <1>6, <1>7 DEF Flat!FlatMap, FlatPages
<1>9. pa \in 0 .. (RamPages - 1)
  BY <1>2, GeometryAssumption
<1>10. Flat!FlatChange
  BY <1>2, <1>4, <1>8, <1>9 DEF Flat!FlatChange
<1> QED BY <1>1, <1>10 DEF Flat!FlatNext

LEMMA FlatUnmaps ==
  ASSUME IInv, NEW v \in Nat, NEW n \in Nat, Unmap(v, n)
  PROVE  Flat!FlatNext
<1>1. /\ RangeAccepted(v, n) /\ live /\ live' = live /\ result' = "OK"
  BY DEF Unmap, Running
<1>2. ValidPageRange(v, n) /\ \A w \in VpnRange(v, n) : w \in Vpns /\ PteLoad(w) # EmptyPte
  BY <1>1, WhatIsEmptied
<1>3. \A x \in Vpns : PteLoad(x)' = IF x \in VpnRange(v, n) THEN EmptyPte ELSE PteLoad(x)
  BY UnmapKeeps
<1>4. /\ n \in 1 .. PageTotal /\ v \in 0 .. (PageTotal - n)
      /\ Flat!InSpace(v, n) /\ Flat!FlatRange(v, n) = VpnRange(v, n) /\ Flat!Pages = Vpns
  BY <1>2, FlatRanges
<1>5. ASSUME NEW x \in Vpns
      PROVE  FlatPages'[x] = IF x \in VpnRange(v, n) THEN Flat!Unmapped ELSE FlatPages[x]
  <2>1. CASE x \in VpnRange(v, n)
    BY <1>1, <1>3, <2>1, FlatPageThen
  <2>2. CASE x \notin VpnRange(v, n)
    BY <1>1, <1>3, <2>2 DEF FlatPages, FlatPage
  <2> QED BY <2>1, <2>2
<1>6. FlatPages' = Flat!Holed(FlatPages, v, n)
  <2>1. FlatPages' = [x \in Vpns |-> FlatPages'[x]]
    BY DEF FlatPages
  <2> QED BY <1>4, <1>5, <2>1 DEF Flat!Holed
<1>7. Flat!AllMapped(FlatPages, v, n)
  BY <1>1, <1>2, <1>4, FlatPageOf DEF Flat!AllMapped
<1>8. Flat!FlatUnmap(v, n)
  BY <1>1, <1>4, <1>6, <1>7 DEF Flat!FlatUnmap, FlatPages
<1>9. Flat!FlatChange
  BY <1>4, <1>8 DEF Flat!FlatChange
<1> QED BY <1>1, <1>9 DEF Flat!FlatNext

LEMMA FlatReprotects ==
  ASSUME IInv, NEW v \in Nat, NEW n \in Nat, NEW perms, Reprotect(v, n, perms)
  PROVE  Flat!FlatNext
<1>1. /\ RangeAccepted(v, n) /\ live /\ live' = live /\ result' = "OK" /\ perms \in SUBSET Rights
  BY DEF Reprotect, Running
<1>2. ValidPageRange(v, n) /\ \A w \in VpnRange(v, n) : w \in Vpns /\ PteLoad(w) # EmptyPte
  BY <1>1, WhatIsEmptied
<1>3. \A x \in Vpns : PteLoad(x)' = IF x \in VpnRange(v, n)
                                    THEN [host |-> PteLoad(x).host, perms |-> perms] ELSE PteLoad(x)
  BY ReprotectKeeps
<1>4. /\ n \in 1 .. PageTotal /\ v \in 0 .. (PageTotal - n)
      /\ Flat!InSpace(v, n) /\ Flat!FlatRange(v, n) = VpnRange(v, n) /\ Flat!Pages = Vpns
  BY <1>2, FlatRanges
<1>5. ASSUME NEW x \in Vpns
      PROVE  FlatPages'[x] = IF x \in VpnRange(v, n) THEN [FlatPages[x] EXCEPT !.perms = perms]
                             ELSE FlatPages[x]
  <2>1. CASE x \in VpnRange(v, n)
    <3>1. /\ PteLoad(x) # EmptyPte /\ PteLoad(x) \in Pte /\ GuestRamBase <= PteLoad(x).host
          /\ FlatPages[x] = [pa |-> PteLoad(x).host - GuestRamBase, perms |-> PteLoad(x).perms]
      BY <1>1, <1>2, <2>1, Types, FlatPageOf DEF IInv, BackedByRam
    <3>2. PteLoad(x)' = [host |-> PteLoad(x).host, perms |-> perms]
      BY <1>3, <2>1
    <3>3. PteLoad(x)' # EmptyPte
      BY <3>1, <3>2, GuestRamBaseAssumption DEF EmptyPte, Pte
    <3>4. FlatPages'[x] = [pa |-> PteLoad(x).host - GuestRamBase, perms |-> perms]
      BY <1>1, <3>2, <3>3, FlatPageThen
    <3> QED BY <2>1, <3>1, <3>4
  <2>2. CASE x \notin VpnRange(v, n)
    BY <1>1, <1>3, <2>2 DEF FlatPages, FlatPage
  <2> QED BY <2>1, <2>2
<1>6. FlatPages' = Flat!Reprotected(FlatPages, v, n, perms)
  <2>1. FlatPages' = [x \in Vpns |-> FlatPages'[x]]
    BY DEF FlatPages
  <2> QED BY <1>4, <1>5, <2>1 DEF Flat!Reprotected
<1>7. Flat!AllMapped(FlatPages, v, n)
  BY <1>1, <1>2, <1>4, FlatPageOf DEF Flat!AllMapped
<1>8. Flat!FlatReprotect(v, n, perms)
  BY <1>1, <1>4, <1>6, <1>7 DEF Flat!FlatReprotect, FlatPages
<1>9. Flat!FlatChange
  BY <1>1, <1>4, <1>8 DEF Flat!FlatChange
<1> QED BY <1>1, <1>9 DEF Flat!FlatNext

\* A step that leaves the tables: the flat map stays.
LEMMA FlatStays ==
  ASSUME live' = live, \A x \in Vpns : PteLoad(x)' = PteLoad(x)
  PROVE  FlatPages' = FlatPages
BY DEF FlatPages, FlatPage

LEMMA FlatRefuses ==
  ASSUME IInv, NEW v \in Nat, NEW n \in Nat, NEW pa \in Nat, NEW perms,
         live' = live, \A x \in Vpns : PteLoad(x)' = PteLoad(x),
         \/ result' = result \/ result' = "INVALID_ARGUMENT"
         \/ result' = "OUT_OF_MEMORY" /\ live /\ MapAccepted(v, n, pa, perms)
  PROVE  Flat!FlatNext \/ UNCHANGED <<FlatPages, result>>
<1>1. FlatPages' = FlatPages
  BY FlatStays
<1>2. CASE result' = "INVALID_ARGUMENT"
  BY <1>1, <1>2 DEF Flat!FlatNext, Flat!FlatRefuse, FlatPages
<1>3. CASE result' = "OUT_OF_MEMORY" /\ live /\ MapAccepted(v, n, pa, perms)
  <2>1. ValidPageRange(v, n) /\ \A w \in VpnRange(v, n) : w \in Vpns /\ PteLoad(w) = EmptyPte
    BY <1>3, MapArguments, RangeInSpace
  <2>2. /\ n \in 1 .. PageTotal /\ v \in 0 .. (PageTotal - n) /\ Flat!FlatRange(v, n) = VpnRange(v, n)
    BY <2>1, FlatRanges
  <2>3. Flat!AllHoles(FlatPages, v, n)
    BY <1>3, <2>1, <2>2, FlatPageOf DEF Flat!AllHoles
  <2>4. Flat!FlatExhausted
    BY <1>1, <1>3, <2>2, <2>3 DEF Flat!FlatExhausted, FlatPages
  <2> QED BY <2>4 DEF Flat!FlatNext
<1> QED BY <1>1, <1>2, <1>3

LEMMA FlatClears ==
  ASSUME IInv, Create \/ Destroy
  PROVE  Flat!FlatNext
<1>1. result' = "OK" /\ \A x \in Vpns : PteLoad(x)' = EmptyPte
  BY ContextKeeps DEF Create, Destroy
<1>2. FlatPages' = Flat!Nothing
  BY <1>1 DEF FlatPages, FlatPage, Flat!Nothing, Flat!Unmapped, Flat!Pages, Vpns
<1> QED BY <1>1, <1>2 DEF Flat!FlatNext, Flat!FlatClear, FlatPages

LEMMA FlatInits == Init => Flat!FlatInit
BY DEF Init, Flat!FlatInit, FlatPage, Flat!Nothing, Flat!Unmapped, Flat!Pages, Vpns

LEMMA FlatSteps == IInv /\ [Next]_vars => [Flat!FlatNext]_<<FlatPages, result>>
<1> SUFFICES ASSUME IInv, [Next]_vars PROVE Flat!FlatNext \/ UNCHANGED <<FlatPages, result>>
  OBVIOUS
<1>1. CASE UNCHANGED vars
  BY <1>1 DEF vars, FlatPages, FlatPage, PteLoad
<1>2. ASSUME NEW v \in Nat, NEW n \in Nat, NEW pa \in Nat, NEW perms \in PermArgs,
              \/ Map(v, n, pa, perms) \/ Reprotect(v, n, perms)
              \/ GuestToHost(v, n, perms)
              \/ MapRejected(v, n, pa, perms) \/ MapOutOfTables(v, n, pa, perms)
              \/ RangeRejected(v, n, perms) \/ MutationUnderBorrow(v, n, pa, perms)
              \/ BorrowMisused(v, n, perms)
      PROVE  Flat!FlatNext \/ UNCHANGED <<FlatPages, result>>
  <2>1. CASE Map(v, n, pa, perms)
    BY <2>1, FlatMaps
  <2>2. CASE Reprotect(v, n, perms)
    BY <2>2, FlatReprotects
  <2>3. CASE GuestToHost(v, n, perms)
    <3>1. live' = live /\ result' = result /\ \A x \in Vpns : PteLoad(x)' = PteLoad(x)
      BY <2>3, BorrowKeeps DEF GuestToHost
    <3> QED BY <3>1, FlatStays
  <2>4. CASE \/ MapRejected(v, n, pa, perms) \/ MapOutOfTables(v, n, pa, perms)
             \/ RangeRejected(v, n, perms) \/ MutationUnderBorrow(v, n, pa, perms)
             \/ BorrowMisused(v, n, perms)
    BY <2>4, RefusedOrAborted, FlatRefuses
  <2> QED BY <1>2, <2>1, <2>2, <2>3, <2>4
<1>3. ASSUME NEW v \in Nat, NEW n \in Nat, Unmap(v, n) PROVE Flat!FlatNext
  BY <1>3, FlatUnmaps
<1>4. CASE ScopeMisused
  BY <1>4 DEF ScopeMisused, Abort, tableVars, FlatPages, FlatPage, PteLoad
<1>5. CASE BorrowScopeBegin \/ BorrowScopeEnd
  BY <1>5 DEF BorrowScopeBegin, BorrowScopeEnd, tableVars, FlatPages, FlatPage, PteLoad
<1>6. CASE Next
  BY <1>2, <1>3, <1>4, <1>5, <1>6, Calls, FlatClears
<1> QED BY <1>1, <1>6

\* The two levels of tables, their pool and every way a call is refused implement
\* the flat page map that changes a whole range at a time or not at all.
THEOREM Refines == Spec => ImplementsPageMap
<1>1. IInv /\ [Next]_vars => [Flat!FlatNext]_<<[v \in Vpns |-> FlatPage(v)], result>>
  BY FlatSteps DEF FlatPages
<1> QED BY <1>1, FlatInits, PoolIsInductive, PTL DEF Spec, ImplementsPageMap, Flat!FlatSpec

-----------------------------------------------------------------------------
(* The walks over the tables.                                              *)

(* Within a slot without a table every page is a hole. *)
LEMMA AbsentSlotIsHole ==
  ASSUME NEW v \in Nat, NEW w \in Nat, SlotOf(w) = SlotOf(v), AbsentSlot(v)
  PROVE  RunKey(w) = [mapped |-> FALSE, perms |-> {}]
BY DEF AbsentSlot, RunKey, PteLoad, EmptyPte

LEMMA HoleKey ==
  ASSUME NEW v, ~ RunKey(v).mapped
  PROVE  RunKey(v) = [mapped |-> FALSE, perms |-> {}]
<1>1. PICK a, p : /\ a \in BOOLEAN /\ a = (PteLoad(v) # EmptyPte)
                  /\ p = PteLoad(v).perms
  OBVIOUS
<1>2. RunKey(v) = [mapped |-> a, perms |-> p]
  BY <1>1 DEF RunKey
<1>3. a = FALSE
  <2>1. RunKey(v).mapped = a
    BY <1>2
  <2> QED BY <2>1
<1>4. p = {}
  <2>1. PteLoad(v) = EmptyPte
    BY <1>1, <1>3
  <2> QED BY <1>1, <2>1 DEF EmptyPte
<1> QED BY <1>2, <1>3, <1>4

LEMMA SameKey ==
  ASSUME NEW v, NEW w
  PROVE  SameRegion(v, w) <=> RunKey(v) = RunKey(w)
<1>1. PICK a, b, p, q :
        /\ a \in BOOLEAN /\ b \in BOOLEAN /\ a = (PteLoad(v) # EmptyPte) /\ b = (PteLoad(w) # EmptyPte)
        /\ p = PteLoad(v).perms /\ q = PteLoad(w).perms
  OBVIOUS
<1>2. RunKey(v) = [mapped |-> a, perms |-> p] /\ RunKey(w) = [mapped |-> b, perms |-> q]
  BY <1>1 DEF RunKey
<1>3. RunKey(v) = RunKey(w) <=> a = b /\ p = q
  BY <1>2
<1> QED BY <1>1, <1>3 DEF SameRegion

(* The pages of the slot that ends before page s, and of the one that      *)
(* begins with it.                                                         *)
LEMMA SlotBefore ==
  ASSUME NEW s \in Nat, s # 0, IndexOf(s) = 0
  PROVE  /\ s - L2Entries \in Nat
         /\ \A w \in (s - L2Entries) .. (s - 1) : w \in Nat /\ SlotOf(w) = SlotOf(s - 1)
<1> USE GeometryAssumption
<1>1. PICK a \in Nat : a = SlotOf(s) /\ s = a * L2Entries
  BY DivMod
<1>2. a # 0
  BY <1>1
<1>3. PICK b \in Nat : a = b + 1
  BY <1>2
<1>4. PICK bottom \in Nat : bottom = b * L2Entries /\ s = bottom + L2Entries
  BY <1>1, <1>3, SMTT(30)
<1>5. ASSUME NEW w \in bottom .. (s - 1) PROVE w \in Nat /\ SlotOf(w) = b
  <2>1. PICK e \in Entries : w = bottom + e
    <3>1. w - bottom \in Entries /\ w = bottom + (w - bottom)
      BY <1>4 DEF Entries
    <3> QED BY <3>1
  <2>2. w = b * L2Entries + e
    BY <1>4, <2>1
  <2> QED BY <1>4, <2>2, DivUnique
<1>6. s - 1 \in bottom .. (s - 1) /\ s - L2Entries = bottom
  BY <1>4
<1> QED BY <1>4, <1>5, <1>6

LEMMA SlotFrom ==
  ASSUME NEW s \in Nat, s < PageTotal, IndexOf(s) = 0
  PROVE  /\ s + L2Entries <= PageTotal
         /\ \A w \in s .. (s + L2Entries - 1) : w \in Nat /\ SlotOf(w) = SlotOf(s)
<1> USE GeometryAssumption
<1>1. PICK a \in Nat : a = SlotOf(s) /\ s = a * L2Entries
  BY DivMod
<1>2. a < L1Entries
  <2>1. s \in Vpns
    <3>1. PageTotal \in Nat
      BY SMTT(30) DEF PageTotal
    <3> QED BY <3>1 DEF Vpns
  <2> QED BY <1>1, <2>1, InSlots DEF Slots
<1>3. s + L2Entries <= PageTotal
  BY <1>1, <1>2, Times DEF PageTotal
<1>4. ASSUME NEW w \in s .. (s + L2Entries - 1) PROVE w \in Nat /\ SlotOf(w) = a
  <2>1. PICK e \in Entries : w = s + e
    <3>1. w - s \in Entries /\ w = s + (w - s)
      BY DEF Entries
    <3> QED BY <3>1
  <2>2. w = a * L2Entries + e
    BY <1>1, <2>1
  <2> QED BY <2>2, DivUnique
<1> QED BY <1>1, <1>3, <1>4

(* vmm_query's step outwards to the first page of the run.                 *)
LEMMA StartOfRun ==
  ASSUME NEW v \in Nat
  PROVE  LET start == QueryStart(v) IN
         /\ start \in 0 .. v /\ \A w \in start .. v : RunKey(w) = RunKey(v)
         /\ start > 0 => RunKey(start - 1) # RunKey(v)
<1> USE GeometryAssumption
<1> DEFINE hole == ~ RunKey(v).mapped
           stride(s) == hole /\ IndexOf(s) = 0 /\ AbsentSlot(s - 1)
           Stop == {s \in 0 .. v : s = 0 \/ (~ stride(s) /\ RunKey(s - 1) # RunKey(v))}
           next == [s \in 0 .. v |-> IF stride(s) THEN s - L2Entries ELSE s - 1]
           Body(f) == [s \in 0 .. v |->
             IF s = 0 THEN 0
             ELSE IF hole /\ IndexOf(s) = 0 /\ AbsentSlot(s - 1) THEN f[s - L2Entries]
             ELSE IF RunKey(s - 1) # RunKey(v) THEN s
             ELSE f[s - 1]]
           back == CHOOSE f : f = Body(f)
<1>1. ASSUME NEW s \in 0 .. v, s # 0
      PROVE  /\ stride(s) => /\ s - L2Entries \in 0 .. v /\ s - L2Entries < s
                             /\ \A w \in (s - L2Entries) .. (s - 1) : RunKey(w) = RunKey(v)
             /\ s - 1 \in 0 .. v
  <2>1. CASE stride(s)
    <3>1. /\ s - L2Entries \in Nat
          /\ \A w \in (s - L2Entries) .. (s - 1) : w \in Nat /\ SlotOf(w) = SlotOf(s - 1)
      BY <1>1, <2>1, SlotBefore
    <3>2. RunKey(v) = [mapped |-> FALSE, perms |-> {}] /\ AbsentSlot(s - 1) /\ s - 1 \in Nat
      BY <1>1, <2>1, HoleKey
    <3>3. \A w \in (s - L2Entries) .. (s - 1) : RunKey(w) = RunKey(v)
      BY <3>1, <3>2, AbsentSlotIsHole
    <3>4. s - L2Entries \in 0 .. v /\ s - L2Entries < s
      BY <3>1
    <3> QED BY <1>1, <3>3, <3>4
  <2> QED BY <1>1, <2>1
<1>2. PICK g : g = Body(g)
  <2> DEFINE place == [s \in 0 .. v |-> s]
  <2>1. GoesDown(0 .. v, Stop, next, place, v + 1)
    <3>1. \A s \in 0 .. v : place[s] \in Nat /\ place[s] < v + 1
      OBVIOUS
    <3>2. \A s \in 0 .. v : s \notin Stop => next[s] \in 0 .. v /\ place[next[s]] < place[s]
      BY <1>1
    <3> HIDE DEF place, next, Stop
    <3> QED BY <3>1, <3>2 DEF GoesDown
  <2>2. PICK f : f = [s \in 0 .. v |-> IF s \in Stop THEN place[s] ELSE f[next[s]]]
    <3> HIDE DEF place, next, Stop
    <3>1. PICK f : IsResult(f, 0 .. v, Stop, place, next)
      BY <2>1, LoopHasResult
    <3> QED BY <3>1 DEF IsResult
  <2>3. ASSUME NEW s \in 0 .. v
        PROVE  (IF s \in Stop THEN place[s] ELSE f[next[s]]) =
                 (IF s = 0 THEN 0
                  ELSE IF hole /\ IndexOf(s) = 0 /\ AbsentSlot(s - 1) THEN f[s - L2Entries]
                  ELSE IF RunKey(s - 1) # RunKey(v) THEN s
                  ELSE f[s - 1])
    OBVIOUS
  <2>4. f = Body(f)
    BY <2>2, <2>3
  <2> QED BY <2>4
<1>3. back = Body(back)
  BY <1>2
<1>4. QueryStart(v) = back[v]
  BY DEF QueryStart
<1> HIDE DEF back
<1>5. \A s \in 0 .. v :
        back[s] = IF s = 0 THEN 0
                  ELSE IF stride(s) THEN back[s - L2Entries]
                  ELSE IF RunKey(s - 1) # RunKey(v) THEN s
                  ELSE back[s - 1]
  BY <1>3
<1> DEFINE Good(s) == /\ back[s] \in 0 .. s
                      /\ \A w \in back[s] .. (s - 1) : RunKey(w) = RunKey(v)
                      /\ back[s] > 0 => RunKey(back[s] - 1) # RunKey(v)
           Bad == {s \in 0 .. v : ~ Good(s)}
<1>6. ASSUME Bad # {} PROVE FALSE
  <2>0. Bad \in SUBSET Nat
    <3> HIDE DEF Good
    <3> QED OBVIOUS
  <2>1. PICK s \in Bad : \A r \in Bad : s <= r
    <3> HIDE DEF Bad
    <3> QED BY <1>6, <2>0, LeastMember
  <2>2. s \in 0 .. v /\ ~ Good(s)
    OBVIOUS
  <2>3. \A r \in 0 .. v : r < s => Good(r)
    <3> HIDE DEF Good
    <3> QED BY <2>1
  <2>4. s # 0
    BY <1>5, <2>2
  <2>5. CASE stride(s)
    <3>1. PICK r \in 0 .. v : r = s - L2Entries /\ r < s
      BY <1>1, <2>2, <2>4, <2>5
    <3>2. Good(r) /\ back[s] = back[r]
      BY <1>5, <2>2, <2>3, <2>4, <2>5, <3>1
    <3>3. \A w \in r .. (s - 1) : RunKey(w) = RunKey(v)
      BY <1>1, <2>2, <2>4, <2>5, <3>1
    <3> HIDE DEF stride
    <3> QED BY <2>2, <3>1, <3>2, <3>3
  <2>6. CASE ~ stride(s) /\ RunKey(s - 1) # RunKey(v)
    <3>1. back[s] = s
      BY <1>5, <2>2, <2>4, <2>6
    <3> HIDE DEF stride
    <3> QED BY <2>2, <2>4, <2>6, <3>1
  <2>7. CASE ~ stride(s) /\ RunKey(s - 1) = RunKey(v)
    <3>1. PICK r \in 0 .. v : r = s - 1 /\ r < s
      BY <2>2, <2>4
    <3>2. Good(r) /\ back[s] = back[r]
      BY <1>5, <2>2, <2>3, <2>4, <2>7, <3>1
    <3> HIDE DEF stride
    <3> QED BY <2>2, <2>7, <3>1, <3>2
  <2> QED BY <2>5, <2>6, <2>7
<1>7. Good(v)
  <2> HIDE DEF Good
  <2> QED BY <1>6
<1> QED BY <1>4, <1>7

(* vmm_query's step outwards to the end of the run.                        *)
LEMMA EndOfRun ==
  ASSUME NEW v \in Nat, v < PageTotal
  PROVE  LET end == QueryEnd(v) IN
         /\ end \in (v + 1) .. PageTotal
         /\ \A w \in (v + 1) .. (end - 1) : RunKey(w) = RunKey(v)
         /\ end < PageTotal => RunKey(end) # RunKey(v)
<1> USE GeometryAssumption
<1>0. PICK total \in Nat : total = PageTotal /\ v < total
  BY SMTT(30) DEF PageTotal
<1> DEFINE hole == ~ RunKey(v).mapped
           stride(s) == hole /\ IndexOf(s) = 0 /\ AbsentSlot(s)
           Places == (v + 1) .. total
           Stop == {s \in Places : s = total \/ (~ stride(s) /\ RunKey(s) # RunKey(v))}
           next == [s \in Places |-> IF stride(s) THEN s + L2Entries ELSE s + 1]
           left == [s \in Places |-> total - s]
           place == [s \in Places |-> s]
           Body(f) == [s \in (v + 1) .. PageTotal |->
             IF s = PageTotal THEN s
             ELSE IF hole /\ IndexOf(s) = 0 /\ AbsentSlot(s) THEN f[s + L2Entries]
             ELSE IF RunKey(s) # RunKey(v) THEN s
             ELSE f[s + 1]]
           forth == CHOOSE f : f = Body(f)
<1>1. ASSUME NEW s \in Places, s # total
      PROVE  /\ s \in Nat
             /\ stride(s) => /\ s + L2Entries \in Places
                             /\ \A w \in s .. (s + L2Entries - 1) : RunKey(w) = RunKey(v)
             /\ s + 1 \in Places
  <2>1. CASE stride(s)
    <3>1. /\ s \in Nat /\ s + L2Entries <= total
          /\ \A w \in s .. (s + L2Entries - 1) : w \in Nat /\ SlotOf(w) = SlotOf(s)
      BY <1>0, <1>1, <2>1, SlotFrom
    <3>2. RunKey(v) = [mapped |-> FALSE, perms |-> {}] /\ AbsentSlot(s)
      BY <1>1, <2>1, HoleKey
    <3>3. \A w \in s .. (s + L2Entries - 1) : RunKey(w) = RunKey(v)
      BY <3>1, <3>2, AbsentSlotIsHole
    <3>4. s + L2Entries \in Places
      BY <3>1
    <3> QED BY <1>1, <3>1, <3>3, <3>4
  <2> QED BY <1>1, <2>1
<1>2. PICK g : g = Body(g)
  <2>1. GoesDown(Places, Stop, next, left, total + 1)
    <3>1. \A s \in Places : left[s] \in Nat /\ left[s] < total + 1
      OBVIOUS
    <3>2. \A s \in Places : s \notin Stop => next[s] \in Places /\ left[next[s]] < left[s]
      BY <1>1
    <3> HIDE DEF left, next, Stop, Places
    <3> QED BY <3>1, <3>2 DEF GoesDown
  <2>2. PICK f : f = [s \in Places |-> IF s \in Stop THEN place[s] ELSE f[next[s]]]
    <3> HIDE DEF place, next, Stop, Places
    <3>1. PICK f : IsResult(f, Places, Stop, place, next)
      BY <2>1, LoopHasResult
    <3> QED BY <3>1 DEF IsResult
  <2>3. ASSUME NEW s \in Places
        PROVE  (IF s \in Stop THEN place[s] ELSE f[next[s]]) =
                 (IF s = total THEN s
                  ELSE IF hole /\ IndexOf(s) = 0 /\ AbsentSlot(s) THEN f[s + L2Entries]
                  ELSE IF RunKey(s) # RunKey(v) THEN s
                  ELSE f[s + 1])
    OBVIOUS
  <2>4. f = Body(f)
    BY <1>0, <2>2, <2>3
  <2> QED BY <2>4
<1>3. forth = Body(forth)
  BY <1>2
<1>4. QueryEnd(v) = forth[v + 1]
  BY DEF QueryEnd
<1> HIDE DEF forth
<1>5. \A s \in Places :
        forth[s] = IF s = total THEN s
                   ELSE IF stride(s) THEN forth[s + L2Entries]
                   ELSE IF RunKey(s) # RunKey(v) THEN s
                   ELSE forth[s + 1]
  BY <1>0, <1>3
<1> DEFINE Good(s) == /\ forth[s] \in s .. total
                      /\ \A w \in s .. (forth[s] - 1) : RunKey(w) = RunKey(v)
                      /\ forth[s] < total => RunKey(forth[s]) # RunKey(v)
           Bad == {d \in Nat : d <= total - (v + 1) /\ ~ Good(total - d)}
<1>6. ASSUME Bad # {} PROVE FALSE
  <2>0. Bad \in SUBSET Nat
    <3> HIDE DEF Good
    <3> QED OBVIOUS
  <2>1. PICK d \in Bad : \A c \in Bad : d <= c
    <3> HIDE DEF Bad
    <3> QED BY <1>6, <2>0, LeastMember
  <2>2. PICK s \in Places : s = total - d /\ ~ Good(s)
    <3>1. d \in Nat /\ d <= total - (v + 1) /\ ~ Good(total - d)
      <4> HIDE DEF Good
      <4> QED OBVIOUS
    <3>2. total - d \in Places
      BY <1>0, <3>1
    <3> HIDE DEF Good, Places
    <3> QED BY <3>1, <3>2
  <2>3. ASSUME NEW r \in Places, s < r PROVE Good(r)
    <3>1. total - r \in Nat /\ total - r <= total - (v + 1) /\ total - (total - r) = r
          /\ ~ (d <= total - r)
      BY <1>0, <2>2, <2>3
    <3> HIDE DEF Good
    <3> QED BY <2>1, <3>1
  <2>4. s # total
    BY <1>5, <2>2
  <2>5. CASE stride(s)
    <3>1. PICK r \in Places : r = s + L2Entries /\ s < r
      BY <1>1, <2>2, <2>4, <2>5
    <3>2. Good(r) /\ forth[s] = forth[r]
      BY <1>5, <2>2, <2>3, <2>4, <2>5, <3>1
    <3>3. \A w \in s .. (r - 1) : RunKey(w) = RunKey(v)
      BY <1>1, <2>2, <2>4, <2>5, <3>1
    <3> HIDE DEF stride
    <3> QED BY <2>2, <3>1, <3>2, <3>3
  <2>6. CASE ~ stride(s) /\ RunKey(s) # RunKey(v)
    <3>1. forth[s] = s
      BY <1>5, <2>2, <2>4, <2>6
    <3> HIDE DEF stride
    <3> QED BY <2>2, <2>4, <2>6, <3>1
  <2>7. CASE ~ stride(s) /\ RunKey(s) = RunKey(v)
    <3>1. PICK r \in Places : r = s + 1 /\ s < r
      BY <1>1, <2>2, <2>4
    <3>2. Good(r) /\ forth[s] = forth[r]
      BY <1>5, <2>2, <2>3, <2>4, <2>7, <3>1
    <3> HIDE DEF stride
    <3> QED BY <2>2, <2>7, <3>1, <3>2
  <2> QED BY <2>5, <2>6, <2>7
<1>7. Good(v + 1)
  <2>1. PICK d \in Nat : d = total - (v + 1) /\ total - d = v + 1
    BY <1>0
  <2>2. d \notin Bad /\ d <= total - (v + 1)
    <3> HIDE DEF Bad
    <3> QED BY <1>6, <2>1
  <2> HIDE DEF Good
  <2> QED BY <2>1, <2>2
<1> HIDE DEF stride
<1> QED BY <1>0, <1>4, <1>7

(* vmm_query answers with the maximal run around every page.               *)
LEMMA RunsAreMaximal == QueryIsMaximalRun
<1> SUFFICES ASSUME NEW v \in Vpns
             PROVE  LET start == QueryStart(v) end == QueryEnd(v)
                    IN /\ start <= v /\ v < end
                       /\ \A w \in start .. (end - 1) : SameRegion(v, w)
                       /\ start > 0 => ~ SameRegion(v, start - 1)
                       /\ end < PageTotal => ~ SameRegion(v, end)
  BY DEF QueryIsMaximalRun
<1>1. PICK total \in Nat : total = PageTotal
  BY GeometryAssumption, SMTT(30) DEF PageTotal
<1>2. v \in Nat /\ v < total
  BY <1>1 DEF Vpns
<1>3. PICK start : /\ start = QueryStart(v) /\ start \in 0 .. v
                   /\ \A w \in start .. v : RunKey(w) = RunKey(v)
                   /\ start > 0 => RunKey(start - 1) # RunKey(v)
  BY <1>2, StartOfRun
<1>4. PICK end : /\ end = QueryEnd(v) /\ end \in (v + 1) .. total
                 /\ \A w \in (v + 1) .. (end - 1) : RunKey(w) = RunKey(v)
                 /\ end < total => RunKey(end) # RunKey(v)
  BY <1>1, <1>2, EndOfRun
<1>5. \A w \in start .. (end - 1) : RunKey(w) = RunKey(v)
  BY <1>2, <1>3, <1>4
<1>6. start <= v /\ v < end
  BY <1>2, <1>3, <1>4
<1> QED BY <1>1, <1>3, <1>4, <1>5, <1>6, SameKey

(* The bytes of a page.                                                    *)
LEMMA BytesOfPage ==
  ASSUME NEW b \in Nat
  PROVE  /\ PageOf(b) \in Nat /\ (b % PageBytes) \in 0 .. (PageBytes - 1)
         /\ b = PageOf(b) * PageBytes + (b % PageBytes)
         /\ NextPage(b) = PageOf(b) * PageBytes + PageBytes
         /\ NextPage(b) \in Nat /\ b < NextPage(b) /\ NextPage(b) <= b + PageBytes
         /\ NextPage(b) - b = PageBytes - (b % PageBytes)
<1>1. PICK q \in Nat, m \in Nat : /\ q = PageOf(b) /\ m = b % PageBytes
                                  /\ m < PageBytes /\ b = q * PageBytes + m
  BY PageBytesAssumption, SMTT(30) DEF PageOf
<1>2. PICK low \in Nat : low = q * PageBytes
  BY PageBytesAssumption, SMTT(30)
<1>3. NextPage(b) = low + PageBytes
  <2>1. (q + 1) * PageBytes = q * PageBytes + PageBytes
    BY PageBytesAssumption, SMTT(30)
  <2>2. NextPage(b) = (q + 1) * PageBytes
    BY <1>1 DEF NextPage
  <2> QED BY <1>2, <2>1, <2>2
<1>4. PICK size \in Nat : size = PageBytes /\ size > 0
  BY PageBytesAssumption
<1>5. PageOf(b) * PageBytes = low
  BY <1>1, <1>2
<1>6. /\ low + size \in Nat /\ b = low + m /\ b < low + size
      /\ low + size <= b + size /\ (low + size) - b = size - m
  <2>1. b = low + m /\ m < size
    BY <1>1, <1>2, <1>4
  <2> QED BY <2>1
<1>7. m \in 0 .. (size - 1)
  BY <1>1, <1>4
<1> QED BY <1>1, <1>3, <1>4, <1>5, <1>6, <1>7

LEMMA SamePage ==
  ASSUME NEW b \in Nat, NEW c \in Nat, b <= c, c < NextPage(b)
  PROVE  PageOf(c) = PageOf(b) /\ (c % PageBytes) = (b % PageBytes) + (c - b)
<1> USE PageBytesAssumption
<1>1. PICK q \in Nat, m \in Nat : q = PageOf(b) /\ m = b % PageBytes
  BY BytesOfPage
<1>2. PICK low \in Nat : low = q * PageBytes /\ b = low + m /\ c < low + PageBytes
  <2>1. q * PageBytes \in Nat
    BY SMTT(30)
  <2> QED BY <1>1, <2>1, BytesOfPage
<1>3. PICK e \in Nat : e = c - low /\ c = low + e /\ e < PageBytes
  BY <1>2
<1>4. c = q * PageBytes + e
  BY <1>2, <1>3
<1>5. c \div PageBytes = q /\ c % PageBytes = e
  BY <1>3, <1>4, SMTT(30)
<1>6. e = m + (c - b)
  BY <1>2, <1>3
<1> QED BY <1>1, <1>5, <1>6 DEF PageOf

LEMMA PageInSpace ==
  ASSUME NEW b \in Nat
  PROVE  /\ SpaceBytes \in Nat
         /\ b < SpaceBytes => PageOf(b) \in Vpns /\ NextPage(b) <= SpaceBytes
<1> USE GeometryAssumption, PageBytesAssumption
<1>1. PICK total \in Nat : total = PageTotal
  BY SMTT(30) DEF PageTotal
<1>2. PICK q \in Nat : q = PageOf(b)
  BY BytesOfPage
<1>3. SpaceBytes = total * PageBytes /\ total * PageBytes \in Nat
  BY <1>1, SMTT(30) DEF SpaceBytes
<1>4. ASSUME b < SpaceBytes PROVE q < total
  <2>1. ASSUME total <= q PROVE FALSE
    <3>1. total * PageBytes <= q * PageBytes /\ q * PageBytes \in Nat
      BY <2>1, SMTT(30)
    <3>2. q * PageBytes <= b
      BY <1>2, <3>1, BytesOfPage
    <3> QED BY <1>3, <1>4, <3>1, <3>2
  <2> QED BY <2>1
<1>5. ASSUME b < SpaceBytes PROVE NextPage(b) <= SpaceBytes
  <2>1. (q + 1) * PageBytes <= total * PageBytes
    BY <1>4, <1>5, SMTT(30)
  <2> QED BY <1>2, <1>3, <2>1 DEF NextPage
<1> QED BY <1>1, <1>2, <1>3, <1>4, <1>5 DEF Vpns

(* What an address of the space yields.                                    *)
LEMMA FaultIsAFault ==
  ASSUME NEW kind, NEW gva, NEW required
  PROVE  Fault(kind, gva, required) # NoFault
<1>1. "gva" \in DOMAIN Fault(kind, gva, required) /\ "gva" \notin DOMAIN NoFault
  BY DEF Fault, NoFault
<1> QED BY <1>1

LEMMA TranslationOf ==
  ASSUME NEW b \in Nat, b < SpaceBytes, NEW required
  PROVE  /\ Translates(b, required) = NoFault <=> Grants(PageOf(b), required)
         /\ ~ Grants(PageOf(b), required) =>
              Translates(b, required) = Fault(IF PteLoad(PageOf(b)) = EmptyPte
                                              THEN "unmapped" ELSE "permission", b, required)
<1>1. SpaceBytes \in Nat /\ ~ (b >= SpaceBytes)
  BY PageInSpace
<1>2. CASE PteLoad(PageOf(b)) = EmptyPte
  <2>1. Translates(b, required) = Fault("unmapped", b, required)
    BY <1>1, <1>2 DEF Translates
  <2> QED BY <1>2, <2>1, FaultIsAFault DEF Grants
<1>3. CASE PteLoad(PageOf(b)) # EmptyPte
  <2>1. Translates(b, required) = IF Grants(PageOf(b), required) THEN NoFault
                                  ELSE Fault("permission", b, required)
    BY <1>1, <1>3 DEF Translates
  <2> QED BY <1>3, <2>1, FaultIsAFault
<1> QED BY <1>2, <1>3

(* What validate_byte_range finds: nothing, if every byte can be accessed, *)
(* or what stopped it at the first byte that cannot.                       *)
FirstFault(fault, at, last, required) ==
  \/ fault = NoFault /\ \A b \in at .. last : Grants(PageOf(b), required)
  \/ \E b \in at .. last :
       /\ ~ Grants(PageOf(b), required) /\ fault = Translates(b, required)
       /\ \A c \in at .. (b - 1) : Grants(PageOf(c), required)

LEMMA WhatIsValidated ==
  ASSUME NEW gva \in Nat, NEW size \in Nat, NEW required, ValidByteRange(gva, size)
  PROVE  FirstFault(Validated(gva, size, required), gva, gva + size - 1, required)
<1> USE PageBytesAssumption
<1>0. PICK end \in Nat, top \in Nat :
        end = gva + size /\ top = gva + size + PageBytes /\ gva < end /\ end < top
  BY DEF ValidByteRange
<1>1. SpaceBytes \in Nat /\ end <= SpaceBytes
  BY <1>0, PageInSpace DEF ValidByteRange
<1> DEFINE Places == gva .. top
           Stop == {b \in Places : b >= end \/ Translates(b, required) # NoFault}
           out == [b \in Places |-> IF b >= end THEN NoFault ELSE Translates(b, required)]
           next == [b \in Places |-> NextPage(b)]
           left == [b \in Places |-> top - b]
           Body(f) == [at \in gva .. (gva + size + PageBytes) |->
             IF at >= gva + size THEN NoFault
             ELSE IF Translates(at, required) # NoFault THEN Translates(at, required)
             ELSE f[NextProbe(at)]]
           from == CHOOSE f : f = Body(f)
<1>2. ASSUME NEW b \in Places, b < end
      PROVE  /\ b \in Nat /\ b < SpaceBytes /\ NextPage(b) \in Places /\ b < NextPage(b)
             /\ \A c \in b .. (NextPage(b) - 1) : PageOf(c) = PageOf(b)
  <2>1. b \in Nat /\ b < SpaceBytes
    BY <1>1, <1>2
  <2>2. NextPage(b) \in Nat /\ b < NextPage(b) /\ NextPage(b) <= b + PageBytes
    BY <2>1, BytesOfPage
  <2>3. NextPage(b) \in Places
    BY <1>0, <1>2, <2>1, <2>2
  <2>4. ASSUME NEW c \in b .. (NextPage(b) - 1) PROVE PageOf(c) = PageOf(b)
    BY <2>1, <2>2, SamePage
  <2> QED BY <2>1, <2>2, <2>3, <2>4
<1>3. PICK g : g = Body(g)
  <2>1. GoesDown(Places, Stop, next, left, top + 1)
    <3>1. \A b \in Places : left[b] \in Nat /\ left[b] < top + 1
      OBVIOUS
    <3>2. \A b \in Places : b \notin Stop => next[b] \in Places /\ left[next[b]] < left[b]
      BY <1>2
    <3> HIDE DEF left, next, Stop, Places
    <3> QED BY <3>1, <3>2 DEF GoesDown
  <2>2. PICK f : f = [b \in Places |-> IF b \in Stop THEN out[b] ELSE f[next[b]]]
    <3> HIDE DEF out, next, Stop, Places
    <3>1. PICK f : IsResult(f, Places, Stop, out, next)
      BY <2>1, LoopHasResult
    <3> QED BY <3>1 DEF IsResult
  <2>3. ASSUME NEW b \in Places
        PROVE  (IF b \in Stop THEN out[b] ELSE f[next[b]]) =
                 (IF b >= end THEN NoFault
                  ELSE IF Translates(b, required) # NoFault THEN Translates(b, required)
                  ELSE f[NextProbe(b)])
    BY DEF NextProbe
  <2>4. f = Body(f)
    BY <1>0, <2>2, <2>3
  <2> QED BY <2>4
<1>4. from = Body(from)
  BY <1>3
<1>5. Validated(gva, size, required) = from[gva]
  BY DEF Validated
<1> HIDE DEF from
<1>6. \A b \in Places :
        from[b] = IF b >= end THEN NoFault
                  ELSE IF Translates(b, required) # NoFault THEN Translates(b, required)
                  ELSE from[NextPage(b)]
  BY <1>0, <1>4 DEF NextProbe
<1> DEFINE Good(b) == FirstFault(from[b], b, end - 1, required)
           Bad == {d \in Nat : d <= top - gva /\ ~ Good(top - d)}
<1>7. ASSUME Bad # {} PROVE FALSE
  <2>0. Bad \in SUBSET Nat
    <3> HIDE DEF Good
    <3> QED OBVIOUS
  <2>1. PICK d \in Bad : \A c \in Bad : d <= c
    <3> HIDE DEF Bad
    <3> QED BY <1>7, <2>0, LeastMember
  <2>2. PICK b \in Places : b = top - d /\ ~ Good(b)
    <3>1. d \in Nat /\ d <= top - gva /\ ~ Good(top - d)
      <4> HIDE DEF Good
      <4> QED OBVIOUS
    <3>2. top - d \in Places
      BY <1>0, <3>1
    <3> HIDE DEF Good, Places
    <3> QED BY <3>1, <3>2
  <2>3. ASSUME NEW r \in Places, b < r PROVE Good(r)
    <3>1. top - r \in Nat /\ top - r <= top - gva /\ top - (top - r) = r /\ ~ (d <= top - r)
      BY <1>0, <2>2, <2>3
    <3> HIDE DEF Good
    <3> QED BY <2>1, <3>1
  <2>4. b < end
    <3>1. ASSUME b >= end PROVE FALSE
      <4>1. from[b] = NoFault /\ \A c \in b .. (end - 1) : FALSE
        BY <1>6, <3>1
      <4> QED BY <2>2, <4>1 DEF FirstFault
    <3> QED BY <3>1
  <2>5. b \in Nat /\ b < SpaceBytes /\ b \in b .. (end - 1)
    BY <1>2, <2>4
  <2>6. CASE ~ Grants(PageOf(b), required)
    <3>1. from[b] = Translates(b, required)
      BY <1>6, <2>4, <2>5, <2>6, TranslationOf
    <3>2. \A c \in b .. (b - 1) : FALSE
      OBVIOUS
    <3>3. Good(b)
      BY <2>5, <2>6, <3>1, <3>2 DEF FirstFault
    <3> QED BY <2>2, <3>3
  <2>7. CASE Grants(PageOf(b), required)
    <3>1. PICK r \in Places : /\ r = NextPage(b) /\ b < r
                              /\ \A c \in b .. (r - 1) : PageOf(c) = PageOf(b)
      BY <1>2, <2>4
    <3>2. from[b] = from[r] /\ FirstFault(from[r], r, end - 1, required)
      BY <1>6, <2>3, <2>4, <2>5, <2>7, <3>1, TranslationOf
    <3>3. \A c \in b .. (r - 1) : Grants(PageOf(c), required)
      BY <2>7, <3>1
    <3>4. CASE from[r] = NoFault /\ \A c \in r .. (end - 1) : Grants(PageOf(c), required)
      <4>1. \A c \in b .. (end - 1) : Grants(PageOf(c), required)
        BY <3>1, <3>3, <3>4
      <4> QED BY <2>2, <3>2, <3>4, <4>1 DEF FirstFault
    <3>5. ASSUME NEW x \in r .. (end - 1), ~ Grants(PageOf(x), required),
                 from[r] = Translates(x, required),
                 \A c \in r .. (x - 1) : Grants(PageOf(c), required)
          PROVE  FALSE
      <4>1. x \in b .. (end - 1) /\ \A c \in b .. (x - 1) : Grants(PageOf(c), required)
        BY <3>1, <3>3, <3>5
      <4> QED BY <2>2, <3>2, <3>5, <4>1 DEF FirstFault
    <3> QED BY <3>2, <3>4, <3>5 DEF FirstFault
  <2> QED BY <2>6, <2>7
<1>8. Good(gva)
  <2>1. PICK d \in Nat : d = top - gva /\ top - d = gva
    BY <1>0
  <2>2. d \notin Bad /\ d <= top - gva
    <3> HIDE DEF Bad
    <3> QED BY <1>7, <2>1
  <2> HIDE DEF Good
  <2> QED BY <2>1, <2>2
<1> QED BY <1>0, <1>5, <1>8

(* What lies behind consecutive addresses.                                 *)
Bytes(b, n) == [i \in 1 .. n |-> HostByte(b + i - 1)]
Backed(b, n) == \A c \in b .. (b + n - 1) : PteLoad(PageOf(c)).host \in Nat

LEMMA BytesInAPage ==
  ASSUME NEW b \in Nat, NEW n \in Nat, n > 0, b + n <= NextPage(b), Backed(b, n)
  PROVE  Chunk(b, n) = Bytes(b, n)
<1>1. ASSUME NEW i \in 1 .. n PROVE HostByte(b) + i - 1 = HostByte(b + i - 1)
  <2>1. PICK c \in Nat : c = b + i - 1 /\ b <= c /\ c < NextPage(b)
    BY BytesOfPage
  <2>2. PageOf(c) = PageOf(b) /\ (c % PageBytes) = (b % PageBytes) + (c - b)
    BY <2>1, SamePage
  <2>3. PICK m \in Nat, k \in Nat : m = b % PageBytes /\ k = c % PageBytes /\ k = m + (i - 1)
    BY <2>1, <2>2, BytesOfPage
  <2>4. PICK host \in Nat : host = PteLoad(PageOf(b)).host /\ host = PteLoad(PageOf(c)).host
    <3>1. b \in b .. (b + n - 1)
      OBVIOUS
    <3> QED BY <2>2, <3>1 DEF Backed
  <2>5. PICK low \in Nat : low = host * PageBytes
    BY PageBytesAssumption, SMTT(30)
  <2>6. HostByte(b) = low + m /\ HostByte(c) = low + k
    BY <2>3, <2>4, <2>5 DEF HostByte
  <2> QED BY <2>1, <2>3, <2>6
<1>2. \A i \in 1 .. n : HostByte(b) + i - 1 = HostByte(b + i - 1)
  BY <1>1
<1> QED BY <1>2 DEF Chunk, Bytes

LEMMA ChunksOf ==
  ASSUME NEW b \in Nat, NEW n \in Nat, n > 0
  PROVE  /\ ChunkAt(b, n) \in 1 .. n /\ b + ChunkAt(b, n) <= NextPage(b)
         /\ b + n <= NextPage(b) => ChunkAt(b, n) = n
<1>1. PICK size \in Nat : size = PageBytes /\ size > 0
  BY PageBytesAssumption
<1>2. PICK m \in Nat : m = b % PageBytes /\ m < size
  <2>1. (b % PageBytes) \in 0 .. (size - 1)
    BY <1>1, BytesOfPage
  <2> QED BY <1>1, <2>1
<1>3. PICK near \in Nat : near = NextPage(b) /\ near - b = size - m
  BY <1>1, <1>2, BytesOfPage
<1>4. ChunkAt(b, n) = IF n < size - m THEN n ELSE size - m
  BY <1>1, <1>2 DEF ChunkAt
<1> QED BY <1>1, <1>2, <1>3, <1>4

HostBytes == {HostByte(x) : x \in Nat}
LEMMA BytesAre ==
  ASSUME NEW b \in Nat, NEW n \in Nat
  PROVE  /\ Bytes(b, n) \in Seq(HostBytes) /\ Len(Bytes(b, n)) = n
         /\ \A i \in 1 .. n : Bytes(b, n)[i] = HostByte(b + i - 1)
<1>1. Bytes(b, n) \in [1 .. n -> HostBytes]
  <2>1. \A i \in 1 .. n : HostByte(b + i - 1) \in HostBytes
    BY DEF HostBytes
  <2> QED BY <2>1 DEF Bytes
<1>2. \A i \in 1 .. n : Bytes(b, n)[i] = HostByte(b + i - 1)
  BY DEF Bytes
<1> QED BY <1>1, <1>2

Join(b, c, d, n, m) == Bytes(b, c) \o Bytes(d, n) = Bytes(b, m)
LEMMA BytesJoin ==
  ASSUME NEW b \in Nat, NEW c \in Nat, NEW d \in Nat, NEW n \in Nat, NEW m \in Nat,
         d = b + c, m = c + n
  PROVE  Join(b, c, d, n, m)
<1> DEFINE s == Bytes(b, c)
           t == Bytes(d, n)
           u == Bytes(b, m)
<1>1. s \in Seq(HostBytes) /\ Len(s) = c /\ \A i \in 1 .. c : s[i] = HostByte(b + i - 1)
  BY BytesAre
<1>2. t \in Seq(HostBytes) /\ Len(t) = n /\ \A i \in 1 .. n : t[i] = HostByte(d + i - 1)
  BY BytesAre
<1>3. u \in Seq(HostBytes) /\ Len(u) = m /\ \A i \in 1 .. m : u[i] = HostByte(b + i - 1)
  BY BytesAre
<1> HIDE DEF s, t, u
<1>4. /\ s \o t \in Seq(HostBytes) /\ Len(s \o t) = m
      /\ \A i \in 1 .. m : (s \o t)[i] = IF i <= c THEN s[i] ELSE t[i - c]
  <2>1. /\ s \o t \in Seq(HostBytes) /\ Len(s \o t) = Len(s) + Len(t)
        /\ \A i \in 1 .. Len(s) + Len(t) :
             (s \o t)[i] = IF i <= Len(s) THEN s[i] ELSE t[i - Len(s)]
    BY <1>1, <1>2, ConcatProperties, Zenon
  <2>2. Len(s) + Len(t) = m
    BY <1>1, <1>2
  <2> QED BY <1>1, <2>1, <2>2
<1>5. ASSUME NEW i \in 1 .. m PROVE (s \o t)[i] = u[i]
  <2>1. CASE i <= c
    <3>1. i \in 1 .. c
      BY <2>1
    <3> QED BY <1>1, <1>3, <1>4, <2>1, <3>1
  <2>2. CASE i > c
    <3>1. i - c \in 1 .. n /\ d + (i - c) - 1 = b + i - 1 /\ ~ (i <= c)
      BY <2>2
    <3>2. (s \o t)[i] = t[i - c]
      BY <1>4, <3>1
    <3> QED BY <1>2, <1>3, <3>1, <3>2
  <2>3. i <= c \/ i > c
    OBVIOUS
  <2> QED BY <2>1, <2>2, <2>3, Zenon
<1>6. s \o t = u
  BY <1>3, <1>4, <1>5, SeqEqual
<1> QED BY <1>6 DEF Join, s, t, u

LEMMA WhatIsCopied ==
  ASSUME NEW gva \in Nat, NEW size \in Nat, Backed(gva, size)
  PROVE  Copied(gva, size) = Bytes(gva, size)
<1>0. PICK end \in Nat : end = gva + size
  OBVIOUS
<1> DEFINE Places == gva .. end
           whole == [at \in Places |-> Bytes(at, end - at)]
           Body(f) == [at \in gva .. gva + size |->
             LET chunk == ChunkAt(at, gva + size - at) IN
             IF at = gva + size THEN <<>> ELSE Chunk(at, chunk) \o f[at + chunk]]
           from == CHOOSE f : f = Body(f)
<1>1. ASSUME NEW at \in Places, at # end
      PROVE  LET chunk == ChunkAt(at, end - at) IN
             /\ at + chunk \in Places /\ at < at + chunk
             /\ Chunk(at, chunk) \o Bytes(at + chunk, end - (at + chunk)) = Bytes(at, end - at)
  <2>1. PICK n \in Nat : n = end - at /\ n > 0 /\ at \in Nat
    BY <1>1
  <2>2. PICK c \in Nat : c = ChunkAt(at, n) /\ c \in 1 .. n /\ at + c <= NextPage(at)
    <3>1. ChunkAt(at, n) \in 1 .. n /\ at + ChunkAt(at, n) <= NextPage(at)
      <4> HIDE DEF Places
      <4> QED BY <2>1, ChunksOf
    <3> QED BY <2>1, <3>1
  <2>3. Backed(at, c)
    BY <1>0, <2>1, <2>2 DEF Backed
  <2>4. Chunk(at, c) = Bytes(at, c)
    BY <2>1, <2>2, <2>3, BytesInAPage
  <2>5. PICK rest \in Nat : rest = n - c /\ rest = end - (at + c) /\ c + rest = n
    BY <2>1, <2>2
  <2>6. Bytes(at, c) \o Bytes(at + c, rest) = Bytes(at, n)
    <3>1. PICK past \in Nat : past = at + c
      BY <2>1
    <3>2. Bytes(at, c) \o Bytes(past, rest) = Bytes(at, n)
      <4>1. /\ at \in Nat /\ c \in Nat /\ rest \in Nat /\ past \in Nat /\ n \in Nat
            /\ past = at + c /\ n = c + rest
        BY <2>1, <2>2, <2>5, <3>1
      <4>2. Join(at, c, past, rest, n)
        BY <4>1, BytesJoin
      <4> QED BY <4>2 DEF Join
    <3> QED BY <3>1, <3>2
  <2>7. at + c \in Places /\ at < at + c
    BY <2>1, <2>2
  <2> QED BY <2>1, <2>2, <2>4, <2>5, <2>6, <2>7
<1>2. Bytes(end, 0) = <<>>
  BY DEF Bytes
<1>3. whole = Body(whole)
  <2>1. ASSUME NEW at \in Places
        PROVE  Bytes(at, end - at) =
                 LET chunk == ChunkAt(at, end - at) IN
                 IF at = end THEN <<>> ELSE Chunk(at, chunk) \o whole[at + chunk]
    <3>1. CASE at = end
      BY <1>2, <3>1
    <3>2. CASE at # end
      <4>1. PICK chunk : chunk = ChunkAt(at, end - at)
        OBVIOUS
      <4>2. whole[at + chunk] = Bytes(at + chunk, end - (at + chunk))
        BY <1>1, <3>2, <4>1
      <4> QED BY <1>1, <3>2, <4>1, <4>2
    <3> QED BY <3>1, <3>2
  <2> QED BY <1>0, <2>1
<1>4. from = Body(from)
  BY <1>3
<1>5. Copied(gva, size) = from[gva]
  BY DEF Copied
<1> HIDE DEF from
<1>6. \A at \in Places :
        from[at] = LET chunk == ChunkAt(at, end - at) IN
                   IF at = end THEN <<>> ELSE Chunk(at, chunk) \o from[at + chunk]
  <2>1. ASSUME NEW at \in gva .. gva + size
        PROVE  from[at] = LET chunk == ChunkAt(at, gva + size - at) IN
                          IF at = gva + size THEN <<>> ELSE Chunk(at, chunk) \o from[at + chunk]
    BY <1>4
  <2> QED BY <1>0, <2>1
<1> DEFINE Bad == {d \in Nat : d <= size /\ from[end - d] # Bytes(end - d, d)}
<1>7. ASSUME Bad # {} PROVE FALSE
  <2>1. PICK d \in Bad : \A c \in Bad : d <= c
    <3>1. Bad \in SUBSET Nat
      OBVIOUS
    <3> HIDE DEF Bad
    <3> QED BY <1>7, <3>1, LeastMember
  <2>2. PICK at \in Places : at = end - d /\ d = end - at /\ from[at] # Bytes(at, d)
    BY <1>0
  <2>3. at # end
    BY <1>2, <1>6, <2>2
  <2>4. PICK chunk : chunk = ChunkAt(at, end - at)
    OBVIOUS
  <2>5. /\ at + chunk \in Places /\ at < at + chunk
        /\ Chunk(at, chunk) \o Bytes(at + chunk, end - (at + chunk)) = Bytes(at, end - at)
    BY <1>1, <2>3, <2>4
  <2>6. from[at] = Chunk(at, chunk) \o from[at + chunk]
    BY <1>6, <2>3, <2>4
  <2>7. PICK r \in Places : r = at + chunk /\ at < r
    BY <2>5
  <2>8. from[r] = Bytes(r, end - r)
    <3>1. PICK c \in Nat : c = end - r /\ c <= size /\ end - c = r /\ ~ (d <= c)
      BY <1>0, <2>2, <2>7
    <3>2. c \notin Bad
      <4> HIDE DEF Bad
      <4> QED BY <2>1, <3>1
    <3> QED BY <3>1, <3>2
  <2> QED BY <2>2, <2>5, <2>6, <2>7, <2>8
<1>8. from[gva] = Bytes(gva, size)
  <2>1. size \notin Bad /\ end - size = gva
    <3> HIDE DEF Bad
    <3> QED BY <1>0, <1>7
  <2> QED BY <2>1
<1> QED BY <1>5, <1>8

LEMMA BlockIsAllOrNothing ==
  ASSUME \A w \in Vpns : PteLoad(w).host \in Nat,
         NEW gva \in Nat, NEW size \in Nat, size > 0, gva <= SpaceBytes, NEW required
  PROVE  AccessIsAllOrNothing(gva, size, required)
<1> DEFINE range == gva .. (gva + size - 1)
           refused == {b \in range : b >= SpaceBytes \/ ~ Grants(PageOf(b), required)}
<1>1. SpaceBytes \in Nat
  BY PageInSpace
<1>2. PICK fault, bytes : /\ fault = Validated(gva, size, required)
                          /\ bytes = IF fault = NoFault THEN Copied(gva, size) ELSE <<>>
  OBVIOUS
<1>3. BlockAccess(gva, size, required) = [fault |-> fault, bytes |-> bytes]
  BY <1>2 DEF BlockAccess
<1>6. AccessIsAllOrNothing(gva, size, required) <=>
        IF refused = {} THEN fault = NoFault /\ bytes = Bytes(gva, size)
        ELSE /\ bytes = <<>>
             /\ IF \E b \in range : b >= SpaceBytes
                THEN fault = Fault("out of range", gva, required)
                ELSE \E b \in refused :
                       /\ \A other \in refused : b <= other
                       /\ fault = Fault(IF PteLoad(PageOf(b)) = EmptyPte
                                       THEN "unmapped" ELSE "permission", b, required)
  <2>1. PICK access : access = BlockAccess(gva, size, required)
    OBVIOUS
  <2>2. access.fault = fault /\ access.bytes = bytes
    BY <1>3, <2>1
  <2>3. access = [fault |-> NoFault, bytes |-> Bytes(gva, size)] <=>
          fault = NoFault /\ bytes = Bytes(gva, size)
    BY <1>3, <2>1
  <2> QED BY <2>1, <2>2, <2>3, Zenon DEF AccessIsAllOrNothing, Bytes
<1>4. CASE ~ ValidByteRange(gva, size)
  <2>1. fault = Fault("out of range", gva, required) /\ fault # NoFault
    BY <1>2, <1>4, FaultIsAFault DEF Validated
  <2>2. gva + size - 1 \in range /\ gva + size - 1 >= SpaceBytes
    BY <1>1, <1>4 DEF ValidByteRange
  <2>3. refused # {} /\ \E b \in range : b >= SpaceBytes
    BY <2>2
  <2>4. bytes = <<>>
    BY <1>2, <2>1
  <2> HIDE DEF range, refused
  <2> QED BY <1>6, <2>1, <2>3, <2>4
<1>5. CASE ValidByteRange(gva, size)
  <2>1. \A b \in range : b \in Nat /\ b < SpaceBytes /\ ~ (b >= SpaceBytes)
    BY <1>1, <1>5 DEF ValidByteRange
  <2>2. FirstFault(fault, gva, gva + size - 1, required)
    BY <1>2, <1>5, WhatIsValidated
  <2>3. CASE fault = NoFault /\ \A b \in range : Grants(PageOf(b), required)
    <3>1. refused = {}
      BY <2>1, <2>3
    <3>2. Backed(gva, size)
      BY <2>1, PageInSpace DEF Backed
    <3>3. bytes = Bytes(gva, size)
      BY <1>2, <2>3, <3>2, WhatIsCopied
    <3> HIDE DEF refused
    <3> QED BY <1>6, <2>3, <3>1, <3>3
  <2>4. ASSUME NEW b \in range, ~ Grants(PageOf(b), required), fault = Translates(b, required),
               \A c \in gva .. (b - 1) : Grants(PageOf(c), required)
        PROVE  AccessIsAllOrNothing(gva, size, required)
    <3>1. fault = Fault(IF PteLoad(PageOf(b)) = EmptyPte THEN "unmapped" ELSE "permission",
                        b, required)
      BY <2>1, <2>4, TranslationOf
    <3>2. fault # NoFault /\ bytes = <<>>
      BY <1>2, <3>1, FaultIsAFault
    <3>3. b \in refused
      BY <2>4
    <3>4. \A other \in refused : b <= other
      <4> SUFFICES ASSUME NEW other \in refused PROVE b <= other
        OBVIOUS
      <4>1. other \in range /\ ~ Grants(PageOf(other), required)
        BY <2>1
      <4>2. ASSUME other < b PROVE FALSE
        <5>1. other \in gva .. (b - 1)
          BY <4>1, <4>2
        <5> QED BY <2>4, <4>1, <5>1
      <4>3. other \in Nat /\ b \in Nat
        BY <2>1, <2>4, <4>1
      <4> QED BY <4>2, <4>3
    <3>5. ~ \E c \in range : c >= SpaceBytes
      BY <2>1
    <3> HIDE DEF range, refused
    <3> QED BY <1>6, <3>1, <3>2, <3>3, <3>4, <3>5
  <2> HIDE DEF range
  <2> QED BY <2>2, <2>3, <2>4 DEF FirstFault, range
<1> QED BY <1>4, <1>5

\* The fast path of a fixed width.
LEMMA WidthIsBlock ==
  ASSUME \A w \in Vpns : PteLoad(w).host \in Nat,
         NEW gva \in Nat, NEW size \in Nat, size > 0, gva <= SpaceBytes, NEW required
  PROVE  WidthAccess(gva, size, required) = BlockAccess(gva, size, required)
<1>1. CASE CrossesPage(gva, size)
  BY <1>1 DEF WidthAccess
<1>2. CASE ~ CrossesPage(gva, size)
  <2>1. PICK space \in Nat : space = SpaceBytes /\ gva <= space
    BY PageInSpace
  <2>2. gva + size <= NextPage(gva)
    <3>1. PICK m \in Nat : m = gva % PageBytes
      BY BytesOfPage
    <3>2. PICK near \in Nat, width \in Nat : near = NextPage(gva) /\ width = PageBytes /\ near - gva = width - m
      BY <3>1, BytesOfPage, PageBytesAssumption
    <3>3. ~ (m + size > width)
      BY <1>2, <3>1, <3>2 DEF CrossesPage
    <3> QED BY <3>2, <3>3
  <2>3. PICK fault, blocked :
          /\ fault = Translates(gva, required) /\ blocked = Validated(gva, size, required)
    OBVIOUS
  <2>4. /\ WidthAccess(gva, size, required) =
             [fault |-> fault, bytes |-> IF fault = NoFault THEN Chunk(gva, size) ELSE <<>>]
        /\ BlockAccess(gva, size, required) =
             [fault |-> blocked, bytes |-> IF blocked = NoFault THEN Copied(gva, size) ELSE <<>>]
    BY <1>2, <2>3 DEF WidthAccess, BlockAccess
  <2>5. CASE gva = space
    <3>0. gva >= SpaceBytes /\ ~ (gva < SpaceBytes)
      BY <2>1, <2>5
    <3>1. fault = Fault("out of range", gva, required)
      BY <2>3, <3>0 DEF Translates
    <3>2. blocked = Fault("out of range", gva, required)
      <4>1. ~ ValidByteRange(gva, size)
        BY <3>0 DEF ValidByteRange
      <4> QED BY <2>3, <4>1 DEF Validated
    <3> QED BY <2>4, <3>1, <3>2, FaultIsAFault
  <2>6. CASE gva < space
    <3>1. NextPage(gva) <= SpaceBytes /\ NextPage(gva) \in Nat
      BY <2>1, <2>6, PageInSpace, BytesOfPage
    <3>2. ValidByteRange(gva, size)
      BY <2>1, <2>2, <2>6, <3>1 DEF ValidByteRange
    <3>3. FirstFault(blocked, gva, gva + size - 1, required)
      BY <2>3, <3>2, WhatIsValidated
    <3>4. ASSUME NEW b \in gva .. (gva + size - 1) PROVE b \in Nat /\ PageOf(b) = PageOf(gva)
      <4>1. b \in Nat /\ gva <= b /\ b < NextPage(gva)
        BY <2>2, <3>1
      <4> QED BY <4>1, SamePage
    <3>5. PageOf(gva) \in Vpns
      BY <2>1, <2>6, PageInSpace
    <3>6. CASE Grants(PageOf(gva), required)
      <4>1. fault = NoFault
        BY <2>1, <2>3, <2>6, <3>6, TranslationOf
      <4>2. blocked = NoFault
        BY <3>3, <3>4, <3>6 DEF FirstFault
      <4>3. Backed(gva, size)
        BY <3>4, <3>5 DEF Backed
      <4>4. Chunk(gva, size) = Copied(gva, size)
        BY <2>2, <4>3, BytesInAPage, WhatIsCopied
      <4> QED BY <2>4, <4>1, <4>2, <4>4
    <3>7. CASE ~ Grants(PageOf(gva), required)
      <4>1. fault = Fault(IF PteLoad(PageOf(gva)) = EmptyPte THEN "unmapped" ELSE "permission",
                          gva, required)
        BY <2>1, <2>3, <2>6, <3>7, TranslationOf
      <4>2. gva \in gva .. (gva + size - 1)
        OBVIOUS
      <4>3. blocked = fault
        <5>1. PICK b \in gva .. (gva + size - 1) :
                /\ blocked = Translates(b, required)
                /\ \A c \in gva .. (b - 1) : Grants(PageOf(c), required)
          BY <3>3, <3>7, <4>2 DEF FirstFault
        <5>2. ~ (gva < b)
          <6>1. ASSUME gva < b PROVE gva \in gva .. (b - 1)
            BY <6>1
          <6> QED BY <3>7, <5>1, <6>1
        <5>3. b = gva
          BY <5>2
        <5> QED BY <2>3, <5>1, <5>3
      <4> QED BY <2>4, <4>1, <4>3, FaultIsAFault
    <3> QED BY <3>6, <3>7
  <2> QED BY <2>1, <2>5, <2>6
<1> QED BY <1>1, <1>2

\* What every reachable state of the tables answers to a query, a block copy and
\* an access of a fixed width is what the flat map says: although they stride
\* over absent tables, look at one byte of each page and copy chunk by chunk.  The
\* fault of a range that leaves the space is at its start, as vmm.c:453-455 has it.
THEOREM WalksAgree == Spec => []WalksAgreeWithMap
<1>1. ASSUME IInv PROVE WalksAgreeWithMap
  <2> SUFFICES ASSUME live PROVE WalksAgreeWithMap
    BY DEF WalksAgreeWithMap
  <2>1. \A w \in Vpns : PteLoad(w).host \in Nat
    BY <1>1, Types DEF Pte
  <2>2. PageBytes \in Nat /\ SpaceBytes \in Nat
    BY PageBytesAssumption, PageInSpace
  <2>3. ASSUME NEW gva \in 0 .. SpaceBytes, NEW required \in {{"R"}, {"W"}},
               NEW size \in 1 .. 2 * PageBytes + 1
        PROVE  AccessIsAllOrNothing(gva, size, required)
    <3>1. gva \in Nat /\ gva <= SpaceBytes /\ size \in Nat /\ size > 0
      BY <2>2
    <3> QED BY <2>1, <3>1, BlockIsAllOrNothing
  <2>4. ASSUME NEW gva \in 0 .. SpaceBytes, NEW required \in {{"R"}, {"W"}},
               NEW width \in 1 .. PageBytes
        PROVE  WidthAccess(gva, width, required) = BlockAccess(gva, width, required)
    <3>1. gva \in Nat /\ gva <= SpaceBytes /\ width \in Nat /\ width > 0
      BY <2>2
    <3> QED BY <2>1, <3>1, WidthIsBlock
  <2> QED BY <2>3, <2>4, RunsAreMaximal DEF WalksAgreeWithMap
<1> QED BY <1>1, PoolIsInductive, PTL
==============================================================================
