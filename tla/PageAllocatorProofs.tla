------------------------ MODULE PageAllocatorProofs -------------------------
(***************************************************************************)
(* For every number of pages and every freelist capacity: the allocator's  *)
(* freelist stays sound, the pages it has handed out are exactly the pages *)
(* its callers hold, an error changes nothing, and the allocator           *)
(* implements the abstract pool of PagePool.tla.                           *)
(*                                                                         *)
(* Conservation speaks of sets of pages; the induction uses its pointwise  *)
(* form (Accounted), which leaves linear arithmetic to the prover.         *)
(***************************************************************************)
EXTENDS PageAllocator, TLAPS

Cells == 0 .. (PageCount - 1)

InRun(p, run) == run.pa <= p /\ p < run.pa + run.page_count
InFreeRun(p)  == \E i \in RunIndices : InRun(p, free_runs[i])

(* Every page is held, or free, or ahead of the cursor, and only one of them. *)
Accounted == \A p \in Cells : p \in held <=> (p < used /\ ~InFreeRun(p))

IInv == TypeOK /\ FreelistSound /\ Accounted

-----------------------------------------------------------------------------
(* The pointwise account is Conservation. *)
LEMMA AccountedIsConservation ==
  ASSUME TypeOK, RunsBelowCursor
  PROVE  Accounted <=> Conservation
<1> USE PageCountAssumption, MaxFreeRunsAssumption
<1>1. \A p \in Int : p \in HandedOut <=> (0 <= p /\ p < used /\ ~InFreeRun(p))
  BY DEF HandedOut, FreeRunPages, RunPages, InFreeRun, InRun, TypeOK, PageRun, RunIndices
<1>2. HandedOut \subseteq Cells
  BY DEF HandedOut, RunPages, Cells, TypeOK
<1>3. held \subseteq Cells
  BY DEF TypeOK, Cells
<1>4. Cells \subseteq Int /\ \A p \in Cells : 0 <= p
  BY DEF Cells
<1>5. Accounted <=> \A p \in Cells : p \in held <=> p \in HandedOut
  BY <1>1, <1>4 DEF Accounted
<1> QED
  BY <1>2, <1>3, <1>5 DEF Conservation

(* A page run a caller returns touches no free run. *)
LEMMA ReturnedRunIsApart ==
  ASSUME IInv, NEW pa \in Nat, NEW n \in Nat, CallerReturns(pa, n),
         NEW i \in RunIndices
  PROVE  RunEnd(free_runs[i]) <= pa \/ pa + n <= free_runs[i].pa
<1> USE PageCountAssumption, MaxFreeRunsAssumption
<1> DEFINE run == free_runs[i]
           w   == IF run.pa <= pa THEN pa ELSE run.pa
<1>1. run.pa \in Nat /\ run.page_count \in Nat /\ run.page_count > 0
  BY DEF IInv, TypeOK, PageRun, RunIndices
<1>2. SUFFICES ASSUME ~(RunEnd(run) <= pa), ~(pa + n <= run.pa) PROVE FALSE
  BY DEF RunEnd
<1>3. n > 0
  BY DEF CallerReturns, WasHandedOut
<1>4. w \in RunPages(pa, n) /\ InRun(w, run)
  BY <1>1, <1>2, <1>3 DEF RunPages, RunEnd, InRun
<1>5. w \in held /\ w \in Cells
  BY <1>4 DEF CallerReturns, IInv, TypeOK, Cells
<1>6. InFreeRun(w)
  BY <1>4 DEF InFreeRun
<1> QED
  BY <1>5, <1>6 DEF IInv, Accounted

(* No page is in two free runs. *)
LEMMA PageInOneRun ==
  ASSUME IInv, NEW i \in RunIndices, NEW k \in RunIndices, i # k,
         NEW p \in Int, InRun(p, free_runs[i])
  PROVE  ~InRun(p, free_runs[k])
<1>1. \/ RunEnd(free_runs[i]) <= free_runs[k].pa
      \/ RunEnd(free_runs[k]) <= free_runs[i].pa
  BY DEF IInv, FreelistSound, RunsDisjoint
<1>2. free_runs[i] \in PageRun /\ free_runs[k] \in PageRun
  BY DEF IInv, TypeOK, RunIndices
<1> QED
  BY <1>1, <1>2, PageCountAssumption DEF RunEnd, InRun, PageRun

(* Removing entry i keeps every other entry, and no two places of the new  *)
(* array come from the same one.                                           *)
LEMMA RemoveRunKeepsOthers ==
  ASSUME TypeOK, NEW i \in RunIndices, RemoveRun(i)
  PROVE  /\ free_run_count' \in 0 .. MaxFreeRuns
         /\ free_runs' \in [1 .. free_run_count' -> PageRun]
         /\ RunIndices' = 1 .. (free_run_count - 1)
         /\ \E from \in [RunIndices' -> RunIndices \ {i}] :
              /\ \A j \in RunIndices' : free_runs'[j] = free_runs[from[j]]
              /\ \A j, k \in RunIndices' : j # k => from[j] # from[k]
              /\ \A k \in RunIndices \ {i} : \E j \in RunIndices' : from[j] = k
<1> USE MaxFreeRunsAssumption
<1>1. free_run_count \in Nat /\ free_run_count >= 1 /\ i \in 1 .. free_run_count
  BY DEF TypeOK, RunIndices
<1>2. /\ free_run_count' = free_run_count - 1
      /\ RunIndices' = 1 .. (free_run_count - 1)
  BY DEF RemoveRun, RunIndices
<1>3. free_runs' \in [1 .. free_run_count' -> PageRun]
  BY <1>1, <1>2 DEF RemoveRun, TypeOK
<1> DEFINE from == [j \in RunIndices' |-> IF j = i THEN free_run_count ELSE j]
<1>4. from \in [RunIndices' -> RunIndices \ {i}]
  BY <1>1, <1>2 DEF RunIndices
<1>5. \A j \in RunIndices' : free_runs'[j] = free_runs[from[j]]
  BY <1>1, <1>2 DEF RemoveRun
<1>6. \A j, k \in RunIndices' : j # k => from[j] # from[k]
  BY <1>1, <1>2
<1>7. \A k \in RunIndices \ {i} : \E j \in RunIndices' : from[j] = k
  <2> TAKE k \in RunIndices \ {i}
  <2>1. CASE k = free_run_count
    BY <1>1, <1>2, <2>1 DEF RunIndices
  <2>2. CASE k # free_run_count
    BY <1>1, <1>2, <2>2 DEF RunIndices
  <2> QED BY <2>1, <2>2
<1>8. free_run_count' \in 0 .. MaxFreeRuns
  BY <1>1, <1>2 DEF TypeOK
<1> QED
  BY <1>2, <1>3, <1>4, <1>5, <1>6, <1>7, <1>8

-----------------------------------------------------------------------------
(* Calls that fail change nothing but the result. *)
LEMMA UnchangedKeepsIInv ==
  ASSUME IInv, UNCHANGED <<used, free_run_count, free_runs, held>>, result' \in Results
  PROVE  IInv'
  BY DEF IInv, TypeOK, FreelistSound, RunsBelowCursor, RunsDisjoint, RunIndices,
         Accounted, InFreeRun

LEMMA FromFreelistKeepsIInv ==
  ASSUME IInv, NEW n \in Nat, AllocateFromFreelist(n)
  PROVE  IInv'
<1> USE PageCountAssumption, MaxFreeRunsAssumption
<1>1. PICK i \in RunIndices :
        /\ IsFirst(i, Fits(n))
        /\ IF free_runs[i].page_count = n
           THEN RemoveRun(i)
           ELSE /\ free_runs' = [free_runs EXCEPT
                     ![i] = [pa |-> @.pa + n, page_count |-> @.page_count - n]]
                /\ UNCHANGED free_run_count
        /\ held' = held \cup RunPages(free_runs[i].pa, n)
  BY DEF AllocateFromFreelist
<1> DEFINE run == free_runs[i]
<1>2. /\ n > 0 /\ UNCHANGED used /\ result' = "OK"
      /\ run \in PageRun /\ n <= run.page_count
      /\ run.pa \in Nat /\ run.page_count \in Nat /\ RunEnd(run) <= used
      /\ used \in Nat /\ used <= PageCount
  BY <1>1 DEF AllocateFromFreelist, IsFirst, Fits, IInv, TypeOK, PageRun, RunIndices,
              FreelistSound, RunsBelowCursor
<1>3. \A p \in Cells : p \in held' <=> (p \in held \/ (run.pa <= p /\ p < run.pa + n))
  BY <1>1, <1>2 DEF RunPages, Cells
<1>4. held' \subseteq Cells
  <2>1. RunPages(run.pa, n) \subseteq Cells
    BY <1>2 DEF RunPages, Cells, RunEnd
  <2>2. held \subseteq Cells
    BY DEF IInv, TypeOK, Cells
  <2> QED BY <1>1, <2>1, <2>2
<1>5. CASE run.page_count = n
  <2>1. RemoveRun(i)
    BY <1>1, <1>5
  <2>2. /\ free_run_count' \in 0 .. MaxFreeRuns
        /\ free_runs' \in [1 .. free_run_count' -> PageRun]
        /\ RunIndices' = 1 .. (free_run_count - 1)
    BY <2>1, RemoveRunKeepsOthers DEF IInv
  <2>3. PICK from \in [RunIndices' -> RunIndices \ {i}] :
              /\ \A j \in RunIndices' : free_runs'[j] = free_runs[from[j]]
              /\ \A j, k \in RunIndices' : j # k => from[j] # from[k]
              /\ \A k \in RunIndices \ {i} : \E j \in RunIndices' : from[j] = k
    BY <2>1, RemoveRunKeepsOthers DEF IInv
  <2>4. TypeOK'
    BY <1>2, <1>4, <2>2 DEF TypeOK, Cells, Results
  <2>5. RunsBelowCursor'
    BY <1>2, <2>3 DEF RunsBelowCursor, RunEnd, IInv, FreelistSound
  <2>6. RunsDisjoint'
    BY <2>3 DEF RunsDisjoint, IInv, FreelistSound
  <2>7. \A p \in Cells : InFreeRun(p)' <=> \E k \in RunIndices \ {i} : InRun(p, free_runs[k])
    BY <2>3 DEF InFreeRun
  <2>8. \A p \in Cells : InRun(p, run) => ~\E k \in RunIndices \ {i} : InRun(p, free_runs[k])
    BY PageInOneRun DEF Cells
  <2>9. Accounted'
    <3> SUFFICES ASSUME NEW p \in Cells
                 PROVE  p \in held' <=> (p < used' /\ ~InFreeRun(p)')
      BY DEF Accounted, Cells
    <3>1. InFreeRun(p) <=> (InRun(p, run) \/ InFreeRun(p)')
      BY <2>7 DEF InFreeRun
    <3>2. p \in held <=> (p < used /\ ~InFreeRun(p))
      BY DEF IInv, Accounted
    <3>3. InRun(p, run) <=> (run.pa <= p /\ p < run.pa + n)
      BY <1>5 DEF InRun
    <3>4. InRun(p, run) => p < used
      BY <1>2 DEF InRun, RunEnd, Cells
    <3>5. InRun(p, run) => ~InFreeRun(p)'
      BY <2>7, <2>8
    <3> QED BY <1>2, <1>3, <3>1, <3>2, <3>3, <3>4, <3>5
  <2> QED BY <2>4, <2>5, <2>6, <2>9 DEF IInv, FreelistSound
<1>6. CASE run.page_count # n
  <2> DEFINE rest == [pa |-> run.pa + n, page_count |-> run.page_count - n]
  <2>1. /\ free_runs' = [free_runs EXCEPT ![i] = rest]
        /\ UNCHANGED free_run_count /\ RunIndices' = RunIndices
    BY <1>1, <1>6 DEF RunIndices
  <2>2. rest \in PageRun
    BY <1>2, <1>6 DEF PageRun, RunEnd
  <2>3. /\ free_runs' \in [1 .. free_run_count' -> PageRun]
        /\ \A j \in RunIndices : free_runs'[j] = IF j = i THEN rest ELSE free_runs[j]
    BY <2>1, <2>2 DEF IInv, TypeOK, RunIndices
  <2>4. TypeOK'
    BY <1>2, <1>4, <2>1, <2>3 DEF TypeOK, Cells, Results, IInv
  <2>5. RunsBelowCursor'
    BY <1>2, <2>1, <2>3 DEF RunsBelowCursor, RunEnd, IInv, FreelistSound
  <2>6. RunsDisjoint'
    <3> SUFFICES ASSUME NEW j \in RunIndices, NEW k \in RunIndices, j # k
                 PROVE  \/ RunEnd(free_runs'[j]) <= free_runs'[k].pa
                        \/ RunEnd(free_runs'[k]) <= free_runs'[j].pa
      BY <2>1 DEF RunsDisjoint, RunEnd
    <3>1. \/ RunEnd(free_runs[j]) <= free_runs[k].pa
          \/ RunEnd(free_runs[k]) <= free_runs[j].pa
      BY DEF IInv, FreelistSound, RunsDisjoint
    <3>2. free_runs[j] \in PageRun /\ free_runs[k] \in PageRun
      BY DEF IInv, TypeOK, RunIndices
    <3>3. \A m \in RunIndices : /\ RunEnd(free_runs'[m]) = RunEnd(free_runs[m])
                                /\ free_runs[m].pa <= free_runs'[m].pa
      <4> TAKE m \in RunIndices
      <4>1. free_runs[m].pa \in Int
        BY DEF IInv, TypeOK, RunIndices, PageRun
      <4>2. CASE m = i
        BY <1>2, <2>3, <4>2 DEF RunEnd
      <4>3. CASE m # i
        BY <2>3, <4>1, <4>3
      <4> QED BY <4>2, <4>3
    <3>4. free_runs'[j] \in PageRun /\ free_runs'[k] \in PageRun
      BY <2>2, <2>3, <3>2
    <3>5. /\ free_runs'[j].pa \in Int /\ free_runs'[k].pa \in Int
          /\ free_runs[j].pa \in Int /\ free_runs[k].pa \in Int
          /\ RunEnd(free_runs[j]) \in Int /\ RunEnd(free_runs[k]) \in Int
      BY <3>2, <3>4 DEF PageRun, RunEnd
    <3> QED BY <3>1, <3>3, <3>5
  <2>7. Accounted'
    <3> SUFFICES ASSUME NEW p \in Cells
                 PROVE  p \in held' <=> (p < used' /\ ~InFreeRun(p)')
      BY DEF Accounted, Cells
    <3> DEFINE others == \E k \in RunIndices \ {i} : InRun(p, free_runs[k])
    <3>1. InFreeRun(p) <=> (InRun(p, run) \/ others)
      BY DEF InFreeRun
    <3>2. InFreeRun(p)' <=> (InRun(p, rest) \/ others)
      BY <2>1, <2>3 DEF InFreeRun
    <3>3. p \in held <=> (p < used /\ ~InFreeRun(p))
      BY DEF IInv, Accounted
    <3>4. InRun(p, run) => ~others /\ p < used
      BY <1>2, PageInOneRun DEF InRun, RunEnd, Cells
    <3>5. InRun(p, run) <=> (InRun(p, rest) \/ (run.pa <= p /\ p < run.pa + n))
      BY <1>2 DEF InRun, Cells
    <3>6. InRun(p, rest) => ~(run.pa <= p /\ p < run.pa + n)
      BY <1>2 DEF InRun, Cells
    <3> QED BY <1>2, <1>3, <3>1, <3>2, <3>3, <3>4, <3>5, <3>6
  <2> QED BY <2>4, <2>5, <2>6, <2>7 DEF IInv, FreelistSound
<1> QED BY <1>5, <1>6

LEMMA FromCursorKeepsIInv ==
  ASSUME IInv, NEW n \in Nat, AllocateFromCursor(n)
  PROVE  IInv'
<1> USE PageCountAssumption, MaxFreeRunsAssumption
<1>1. /\ n > 0 /\ n <= PageCount - used /\ used' = used + n
      /\ held' = held \cup RunPages(used, n) /\ result' = "OK"
      /\ UNCHANGED <<free_run_count, free_runs>> /\ RunIndices' = RunIndices
      /\ used \in Nat /\ used <= PageCount
  BY DEF AllocateFromCursor, RunIndices, IInv, TypeOK
<1>2. TypeOK'
  BY <1>1 DEF IInv, TypeOK, RunPages, Results
<1>3. FreelistSound'
  BY <1>1 DEF IInv, TypeOK, PageRun, RunIndices, FreelistSound, RunsBelowCursor, RunsDisjoint, RunEnd
<1>4. Accounted'
  <2> SUFFICES ASSUME NEW p \in Cells
               PROVE  p \in held' <=> (p < used' /\ ~InFreeRun(p)')
    BY DEF Accounted, Cells
  <2>1. InFreeRun(p)' <=> InFreeRun(p)
    BY <1>1 DEF InFreeRun
  <2>2. InFreeRun(p) => p < used
    BY <1>1 DEF InFreeRun, InRun, RunEnd, IInv, FreelistSound, RunsBelowCursor, TypeOK, PageRun, RunIndices, Cells
  <2>3. p \in held' <=> (p \in held \/ (used <= p /\ p < used + n))
    BY <1>1 DEF RunPages, Cells
  <2>4. p \in held <=> (p < used /\ ~InFreeRun(p))
    BY DEF IInv, Accounted
  <2>5. p < used' <=> (p < used \/ (used <= p /\ p < used + n))
    BY <1>1 DEF Cells
  <2> QED BY <1>1, <2>1, <2>2, <2>3, <2>4, <2>5 DEF Cells
<1> QED BY <1>2, <1>3, <1>4 DEF IInv

-----------------------------------------------------------------------------
LEMMA AtCursorKeepsIInv ==
  ASSUME IInv, NEW pa \in Nat, NEW n \in Nat, FreeAtCursor(pa, n)
  PROVE  IInv'
<1> USE PageCountAssumption, MaxFreeRunsAssumption
<1> DEFINE Ending == {i \in RunIndices : RunEnd(free_runs[i]) = used - n}
<1>1. /\ CallerReturns(pa, n) /\ n > 0 /\ pa + n = used
      /\ held' = held \ RunPages(pa, n) /\ result' = "OK"
      /\ used \in Nat /\ used <= PageCount
  BY DEF FreeAtCursor, CallerReturns, WasHandedOut, IInv, TypeOK
<1>2. \A p \in Cells : p \in held' <=> (p \in held /\ ~(pa <= p /\ p < pa + n))
  BY <1>1 DEF RunPages, Cells
<1>3. held' \subseteq Cells
  BY <1>1 DEF IInv, TypeOK, Cells
<1>4. \A i \in RunIndices : RunEnd(free_runs[i]) <= pa
  <2> TAKE i \in RunIndices
  <2>1. RunEnd(free_runs[i]) <= pa \/ used <= free_runs[i].pa
    BY <1>1, ReturnedRunIsApart
  <2>2. free_runs[i].pa \in Int /\ free_runs[i].page_count > 0 /\ RunEnd(free_runs[i]) <= used
    BY DEF IInv, TypeOK, PageRun, RunIndices, FreelistSound, RunsBelowCursor
  <2> QED BY <1>1, <2>1, <2>2 DEF RunEnd, IInv, TypeOK, PageRun, RunIndices
<1>5. CASE /\ Ending = {} /\ used' = used - n /\ UNCHANGED <<free_run_count, free_runs>>
  <2>1. RunIndices' = RunIndices /\ used' = pa
    BY <1>1, <1>5 DEF RunIndices
  <2>2. TypeOK'
    BY <1>1, <1>3, <1>5, <2>1 DEF IInv, TypeOK, Results, Cells
  <2>3. FreelistSound'
    BY <1>4, <1>5, <2>1 DEF IInv, FreelistSound, RunsBelowCursor, RunsDisjoint
  <2>4. Accounted'
    <3> SUFFICES ASSUME NEW p \in Cells
                 PROVE  p \in held' <=> (p < used' /\ ~InFreeRun(p)')
      BY DEF Accounted, Cells
    <3>1. InFreeRun(p)' <=> InFreeRun(p)
      BY <1>5, <2>1 DEF InFreeRun
    <3>2. p \in held <=> (p < used /\ ~InFreeRun(p))
      BY DEF IInv, Accounted
    <3>3. p < used /\ ~(pa <= p /\ p < pa + n) <=> p < used'
      BY <1>1, <2>1 DEF Cells
    <3> QED BY <1>2, <3>1, <3>2, <3>3
  <2> QED BY <2>2, <2>3, <2>4 DEF IInv
<1>6. ASSUME NEW i \in RunIndices, i \in Ending,
             used' = used - n - free_runs[i].page_count, RemoveRun(i)
      PROVE  IInv'
  <2> DEFINE run == free_runs[i]
  <2>1. /\ run \in PageRun /\ run.pa \in Nat /\ run.page_count \in Nat /\ run.page_count > 0
        /\ run.pa + run.page_count = pa /\ used' = run.pa
    <3>1. /\ run \in PageRun /\ run.pa \in Nat /\ run.page_count \in Nat /\ run.page_count > 0
      BY DEF IInv, TypeOK, PageRun, RunIndices
    <3>2. run.pa + run.page_count = used - n /\ used' = used - n - run.page_count
      BY <1>6 DEF RunEnd
    <3> QED BY <1>1, <3>1, <3>2
  <2>2. /\ free_run_count' \in 0 .. MaxFreeRuns
        /\ free_runs' \in [1 .. free_run_count' -> PageRun]
    BY <1>6, RemoveRunKeepsOthers DEF IInv
  <2>3. PICK from \in [RunIndices' -> RunIndices \ {i}] :
              /\ \A j \in RunIndices' : free_runs'[j] = free_runs[from[j]]
              /\ \A j, k \in RunIndices' : j # k => from[j] # from[k]
              /\ \A k \in RunIndices \ {i} : \E j \in RunIndices' : from[j] = k
    BY <1>6, RemoveRunKeepsOthers DEF IInv
  <2>4. TypeOK'
    BY <1>1, <1>3, <2>1, <2>2 DEF TypeOK, Cells, Results
  <2>5. \A k \in RunIndices \ {i} : RunEnd(free_runs[k]) <= run.pa
    <3> TAKE k \in RunIndices \ {i}
    <3>1. RunEnd(run) <= free_runs[k].pa \/ RunEnd(free_runs[k]) <= run.pa
      BY DEF IInv, FreelistSound, RunsDisjoint
    <3>2. free_runs[k] \in PageRun
      BY DEF IInv, TypeOK, RunIndices
    <3>3. RunEnd(free_runs[k]) <= pa
      BY <1>4
    <3> QED BY <2>1, <3>1, <3>2, <3>3 DEF RunEnd, PageRun
  <2>6. RunsBelowCursor'
    BY <2>1, <2>3, <2>5 DEF RunsBelowCursor, RunEnd
  <2>7. RunsDisjoint'
    BY <2>3 DEF RunsDisjoint, IInv, FreelistSound
  <2>8. Accounted'
    <3> SUFFICES ASSUME NEW p \in Cells
                 PROVE  p \in held' <=> (p < used' /\ ~InFreeRun(p)')
      BY DEF Accounted, Cells
    <3>1. InFreeRun(p)' <=> \E k \in RunIndices \ {i} : InRun(p, free_runs[k])
      BY <2>3 DEF InFreeRun
    <3>2. InFreeRun(p) <=> (InRun(p, run) \/ InFreeRun(p)')
      BY <3>1 DEF InFreeRun
    <3>3. p \in held <=> (p < used /\ ~InFreeRun(p))
      BY DEF IInv, Accounted
    <3>4. InRun(p, run) <=> (run.pa <= p /\ p < pa)
      BY <2>1 DEF InRun, Cells
    <3>5. (p < used /\ ~(pa <= p /\ p < pa + n) /\ ~(run.pa <= p /\ p < pa)) <=> p < used'
      BY <1>1, <2>1 DEF Cells
    <3> QED BY <1>2, <3>2, <3>3, <3>4, <3>5
  <2> QED BY <2>4, <2>6, <2>7, <2>8 DEF IInv, FreelistSound
<1> QED
  BY <1>5, <1>6 DEF FreeAtCursor, IsFirst

LEMMA CoalescedKeepsIInv ==
  ASSUME IInv, NEW pa \in Nat, NEW n \in Nat, FreeCoalesced(pa, n)
  PROVE  IInv'
<1> USE PageCountAssumption, MaxFreeRunsAssumption
<1>1. /\ CallerReturns(pa, n) /\ n > 0 /\ pa + n <= used
      /\ held' = held \ RunPages(pa, n) /\ result' = "OK"
      /\ used \in Nat /\ used <= PageCount /\ used' = used
      /\ free_run_count' = free_run_count /\ RunIndices' = RunIndices
  BY DEF FreeCoalesced, CallerReturns, WasHandedOut, IInv, TypeOK, RunIndices
<1>2. \A p \in Cells : p \in held' <=> (p \in held /\ ~(pa <= p /\ p < pa + n))
  BY <1>1 DEF RunPages, Cells
<1>3. PICK i \in RunIndices :
        /\ free_runs[i].pa = pa + n \/ RunEnd(free_runs[i]) = pa
        /\ free_runs' = [free_runs EXCEPT
             ![i] = [pa |-> IF @.pa = pa + n THEN pa ELSE @.pa,
                     page_count |-> @.page_count + n]]
  BY DEF FreeCoalesced, IsFirst, Adjacent
<1> DEFINE run   == free_runs[i]
           grown == [pa |-> IF run.pa = pa + n THEN pa ELSE run.pa,
                     page_count |-> run.page_count + n]
<1>4. /\ run \in PageRun /\ run.pa \in Nat /\ run.page_count \in Nat /\ run.page_count > 0
      /\ RunEnd(run) <= used
  BY DEF IInv, TypeOK, PageRun, RunIndices, FreelistSound, RunsBelowCursor
<1>5. grown \in PageRun /\ grown.pa + grown.page_count <= used
  BY <1>1, <1>3, <1>4 DEF PageRun, RunEnd
<1>6. /\ free_runs' \in [1 .. free_run_count' -> PageRun]
      /\ \A j \in RunIndices : free_runs'[j] = IF j = i THEN grown ELSE free_runs[j]
  BY <1>1, <1>3, <1>5 DEF IInv, TypeOK, RunIndices
<1>7. TypeOK'
  BY <1>1, <1>6 DEF IInv, TypeOK, Results
<1>8. RunsBelowCursor'
  BY <1>1, <1>5, <1>6 DEF RunsBelowCursor, RunEnd, IInv, FreelistSound
<1>9. \A k \in RunIndices : k # i =>
        RunEnd(grown) <= free_runs[k].pa \/ RunEnd(free_runs[k]) <= grown.pa
  <2> SUFFICES ASSUME NEW k \in RunIndices, k # i
               PROVE  RunEnd(grown) <= free_runs[k].pa \/ RunEnd(free_runs[k]) <= grown.pa
    OBVIOUS
  <2>1. RunEnd(run) <= free_runs[k].pa \/ RunEnd(free_runs[k]) <= run.pa
    BY DEF IInv, FreelistSound, RunsDisjoint
  <2>2. RunEnd(free_runs[k]) <= pa \/ pa + n <= free_runs[k].pa
    BY <1>1, ReturnedRunIsApart
  <2>3. free_runs[k].pa \in Nat /\ free_runs[k].page_count \in Nat /\ free_runs[k].page_count > 0
    BY DEF IInv, TypeOK, PageRun, RunIndices
  <2> QED BY <1>1, <1>3, <1>4, <2>1, <2>2, <2>3 DEF RunEnd
<1>10. RunsDisjoint'
  <2> SUFFICES ASSUME NEW j \in RunIndices, NEW k \in RunIndices, j # k
               PROVE  \/ RunEnd(free_runs'[j]) <= free_runs'[k].pa
                      \/ RunEnd(free_runs'[k]) <= free_runs'[j].pa
    BY <1>1 DEF RunsDisjoint, RunEnd
  <2>1. CASE j = i
    BY <1>6, <1>9, <2>1
  <2>2. CASE k = i
    BY <1>6, <1>9, <2>2
  <2>3. CASE j # i /\ k # i
    BY <1>6, <2>3 DEF IInv, FreelistSound, RunsDisjoint
  <2> QED BY <2>1, <2>2, <2>3
<1>11. Accounted'
  <2> SUFFICES ASSUME NEW p \in Cells
               PROVE  p \in held' <=> (p < used' /\ ~InFreeRun(p)')
    BY DEF Accounted, Cells
  <2> DEFINE others == \E k \in RunIndices \ {i} : InRun(p, free_runs[k])
  <2>1. InFreeRun(p) <=> (InRun(p, run) \/ others)
    BY DEF InFreeRun
  <2>2. InFreeRun(p)' <=> (InRun(p, grown) \/ others)
    BY <1>1, <1>6 DEF InFreeRun
  <2>3. p \in held <=> (p < used /\ ~InFreeRun(p))
    BY DEF IInv, Accounted
  <2>4. InRun(p, grown) <=> (InRun(p, run) \/ (pa <= p /\ p < pa + n))
    BY <1>1, <1>3, <1>4 DEF InRun, RunEnd, Cells
  <2> QED BY <1>1, <1>2, <2>1, <2>2, <2>3, <2>4
<1> QED BY <1>7, <1>8, <1>10, <1>11 DEF IInv, FreelistSound

LEMMA PushedKeepsIInv ==
  ASSUME IInv, NEW pa \in Nat, NEW n \in Nat, FreePushed(pa, n)
  PROVE  IInv'
<1> USE PageCountAssumption, MaxFreeRunsAssumption
<1> DEFINE last == free_run_count + 1
           run  == [pa |-> pa, page_count |-> n]
<1>1. /\ CallerReturns(pa, n) /\ n > 0 /\ pa + n <= used
      /\ held' = held \ RunPages(pa, n) /\ result' = "OK"
      /\ used \in Nat /\ used <= PageCount /\ used' = used
      /\ free_run_count \in Nat /\ free_run_count' = last /\ last <= MaxFreeRuns
      /\ RunIndices' = 1 .. last /\ RunIndices = 1 .. free_run_count
  BY DEF FreePushed, CallerReturns, WasHandedOut, IInv, TypeOK, RunIndices
<1>2. \A p \in Cells : p \in held' <=> (p \in held /\ ~(pa <= p /\ p < pa + n))
  BY <1>1 DEF RunPages, Cells
<1>3. run \in PageRun
  BY <1>1 DEF PageRun
<1>4. /\ free_runs'[last] = run
      /\ \A j \in RunIndices : free_runs'[j] = free_runs[j]
      /\ RunIndices' = RunIndices \cup {last} /\ last \notin RunIndices
  BY <1>1 DEF FreePushed
<1>5. free_runs' \in [1 .. free_run_count' -> PageRun]
  <2>1. free_runs' = [j \in 1 .. last |-> IF j = last THEN run ELSE free_runs[j]]
    BY DEF FreePushed
  <2>2. \A j \in 1 .. last : j # last => free_runs[j] \in PageRun
    BY <1>1 DEF IInv, TypeOK
  <2> QED BY <1>1, <1>3, <2>1, <2>2
<1>6. TypeOK'
  <2>1. held' \subseteq 0 .. (PageCount - 1)
    BY <1>1 DEF IInv, TypeOK
  <2> QED BY <1>1, <1>5, <2>1 DEF TypeOK, Results
<1>7. RunsBelowCursor'
  BY <1>1, <1>4 DEF RunsBelowCursor, RunEnd, IInv, FreelistSound
<1>8. \A k \in RunIndices : RunEnd(run) <= free_runs[k].pa \/ RunEnd(free_runs[k]) <= run.pa
  BY <1>1, ReturnedRunIsApart DEF RunEnd
<1>9. RunsDisjoint'
  <2> SUFFICES ASSUME NEW j \in RunIndices', NEW k \in RunIndices', j # k
               PROVE  \/ RunEnd(free_runs'[j]) <= free_runs'[k].pa
                      \/ RunEnd(free_runs'[k]) <= free_runs'[j].pa
    BY DEF RunsDisjoint, RunEnd
  <2>1. CASE j = last
    BY <1>4, <1>8, <2>1
  <2>2. CASE k = last
    BY <1>4, <1>8, <2>2
  <2>3. CASE j # last /\ k # last
    BY <1>4, <2>3 DEF IInv, FreelistSound, RunsDisjoint
  <2> QED BY <2>1, <2>2, <2>3
<1>10. Accounted'
  <2> SUFFICES ASSUME NEW p \in Cells
               PROVE  p \in held' <=> (p < used' /\ ~InFreeRun(p)')
    BY DEF Accounted, Cells
  <2>1. InFreeRun(p)' <=> (InRun(p, run) \/ InFreeRun(p))
    BY <1>4 DEF InFreeRun
  <2>2. p \in held <=> (p < used /\ ~InFreeRun(p))
    BY DEF IInv, Accounted
  <2>3. InRun(p, run) <=> (pa <= p /\ p < pa + n)
    BY DEF InRun
  <2> QED BY <1>1, <1>2, <2>1, <2>2, <2>3
<1> QED BY <1>6, <1>7, <1>9, <1>10 DEF IInv, FreelistSound

LEMMA ResetKeepsIInv ==
  ASSUME Reset
  PROVE  IInv'
<1>1. used' = 0 /\ free_run_count' = 0 /\ held' = {} /\ result' = "OK" /\ RunIndices' = {}
  BY DEF Reset, RunIndices
<1>2. free_runs' \in [1 .. free_run_count' -> PageRun]
  BY <1>1 DEF Reset
<1>3. TypeOK'
  BY <1>1, <1>2, PageCountAssumption, MaxFreeRunsAssumption DEF TypeOK, Results
<1>4. FreelistSound'
  BY <1>1 DEF FreelistSound, RunsBelowCursor, RunsDisjoint
<1>5. Accounted'
  BY <1>1 DEF Accounted, Cells
<1> QED BY <1>3, <1>4, <1>5 DEF IInv

-----------------------------------------------------------------------------
(* The inductive invariant *)

LEMMA InitEstablishesIInv == Init => IInv
<1> SUFFICES ASSUME Init PROVE IInv
  OBVIOUS
<1>1. used = 0 /\ free_run_count = 0 /\ held = {} /\ result = "OK" /\ RunIndices = {}
  BY DEF Init, RunIndices
<1>2. free_runs \in [1 .. free_run_count -> PageRun]
  BY <1>1 DEF Init
<1>3. TypeOK
  BY <1>1, <1>2, PageCountAssumption, MaxFreeRunsAssumption DEF TypeOK, Results
<1> QED
  BY <1>1, <1>3 DEF IInv, FreelistSound, RunsBelowCursor, RunsDisjoint, Accounted, Cells

LEMMA NextKeepsIInv == IInv /\ [Next]_vars => IInv'
<1> SUFFICES ASSUME IInv, [Next]_vars PROVE IInv'
  OBVIOUS
<1>1. ASSUME NEW n \in 0 .. (PageCount + 1), Allocate(n)
      PROVE  IInv'
  <2>1. n \in Nat
    BY PageCountAssumption
  <2>2. CASE AllocateRejected(n)
    BY <2>2, UnchangedKeepsIInv DEF AllocateRejected, Results
  <2>3. CASE AllocateFromFreelist(n)
    BY <2>1, <2>3, FromFreelistKeepsIInv
  <2>4. CASE AllocateFromCursor(n)
    BY <2>1, <2>4, FromCursorKeepsIInv
  <2>5. CASE AllocateExhausted(n)
    BY <2>5, UnchangedKeepsIInv DEF AllocateExhausted, Results
  <2>6. CASE AllocateCommitFails(n)
    BY <2>6, UnchangedKeepsIInv DEF AllocateCommitFails, Results
  <2> QED BY <1>1, <2>2, <2>3, <2>4, <2>5, <2>6 DEF Allocate
<1>2. ASSUME NEW pa \in 0 .. PageCount, NEW n \in 0 .. (PageCount + 1), Free(pa, n)
      PROVE  IInv'
  <2>1. pa \in Nat /\ n \in Nat
    BY PageCountAssumption
  <2>2. CASE FreeRejected(pa, n)
    BY <2>2, UnchangedKeepsIInv DEF FreeRejected, Results
  <2>3. CASE FreeAtCursor(pa, n)
    BY <2>1, <2>3, AtCursorKeepsIInv
  <2>4. CASE FreeCoalesced(pa, n)
    BY <2>1, <2>4, CoalescedKeepsIInv
  <2>5. CASE FreePushed(pa, n)
    BY <2>1, <2>5, PushedKeepsIInv
  <2>6. CASE FreeListFull(pa, n)
    BY <2>6, UnchangedKeepsIInv DEF FreeListFull, Results
  <2> QED BY <1>2, <2>2, <2>3, <2>4, <2>5, <2>6 DEF Free
<1>3. CASE Reset
  BY <1>3, ResetKeepsIInv
<1>4. CASE UNCHANGED vars
  <2>1. result' \in Results
    BY <1>4 DEF IInv, TypeOK, vars
  <2> QED BY <1>4, <2>1, UnchangedKeepsIInv DEF vars
<1> QED BY <1>1, <1>2, <1>3, <1>4 DEF Next

THEOREM InvariantHolds == Spec => []IInv
  BY InitEstablishesIInv, NextKeepsIInv, PTL DEF Spec

(* The cursor never leaves guest RAM and the freelist never outgrows its   *)
(* array.                                                                  *)
THEOREM TypeCorrect == Spec => []TypeOK
<1>1. IInv => TypeOK
  BY DEF IInv
<1> QED BY <1>1, InvariantHolds, PTL

(* Free runs are below the cursor and pairwise disjoint: the allocator has *)
(* no two ways to hand out the same page.                                  *)
THEOREM FreelistStaysSound == Spec => []FreelistSound
<1>1. IInv => FreelistSound
  BY DEF IInv
<1> QED BY <1>1, InvariantHolds, PTL

(* No page is lost and none is handed out twice, whatever the order in     *)
(* which callers allocate and return pieces of their runs.                 *)
THEOREM PagesConserved == Spec => []Conservation
<1>1. IInv => Conservation
  BY AccountedIsConservation DEF IInv, FreelistSound
<1> QED BY <1>1, InvariantHolds, PTL

(* A call that reports an error has left the allocator as it was.          *)
THEOREM ErrorsChangeNothing == Spec => FailedCallChangesNothing
<1>1. [Next]_vars =>
        [result' # "OK" => UNCHANGED <<used, free_run_count, free_runs, held>>]_vars
  BY DEF Next, Allocate, Free, Reset, AllocateRejected, AllocateFromFreelist,
         AllocateFromCursor, AllocateExhausted, AllocateCommitFails, FreeRejected,
         FreeAtCursor, FreeCoalesced, FreePushed, FreeListFull
<1> QED BY <1>1, PTL DEF Spec, FailedCallChangesNothing

-----------------------------------------------------------------------------
(* The refinement: under Conservation the abstract owner set is `held`. *)

LEMMA HeldIsHandedOut == IInv => held = HandedOut
  BY AccountedIsConservation DEF IInv, FreelistSound, Conservation

LEMMA HeldIsHandedOutNext == IInv' => (held = HandedOut)'
  BY HeldIsHandedOut, PTL

LEMMA AllocationRefines ==
  ASSUME IInv, IInv', NEW n \in 1 .. PageCount, NEW pa \in Nat,
         pa + n <= PageCount,
         \A p \in RunPages(pa, n) : p \notin held,
         held' = held \cup RunPages(pa, n)
  PROVE  Pool!PoolAllocate
<1>1. pa \in 0 .. (PageCount - n)
  BY PageCountAssumption
<1>2. /\ Pool!PoolRun(pa, n) \cap HandedOut = {}
      /\ HandedOut' = HandedOut \cup Pool!PoolRun(pa, n)
  BY HeldIsHandedOut, HeldIsHandedOutNext DEF Pool!PoolRun, RunPages
<1> QED BY <1>1, <1>2 DEF Pool!PoolAllocate

LEMMA FreeRefines ==
  ASSUME IInv, IInv', NEW n \in Nat, NEW pa \in Nat, CallerReturns(pa, n),
         held' = held \ RunPages(pa, n)
  PROVE  Pool!PoolFree
<1>1. n \in 1 .. PageCount /\ pa \in 0 .. (PageCount - n)
  BY PageCountAssumption DEF CallerReturns, WasHandedOut, IInv, TypeOK
<1>2. /\ Pool!PoolRun(pa, n) \subseteq HandedOut
      /\ HandedOut' = HandedOut \ Pool!PoolRun(pa, n)
  BY HeldIsHandedOut, HeldIsHandedOutNext DEF Pool!PoolRun, RunPages, CallerReturns
<1> QED BY <1>1, <1>2 DEF Pool!PoolFree

LEMMA StepRefines ==
  ASSUME IInv, IInv', [Next]_vars
  PROVE  [Pool!PoolNext]_HandedOut
<1> USE PageCountAssumption, MaxFreeRunsAssumption
<1>1. ASSUME UNCHANGED held PROVE UNCHANGED HandedOut
  BY <1>1, HeldIsHandedOut, HeldIsHandedOutNext
<1>2. ASSUME NEW n \in 0 .. (PageCount + 1), AllocateFromFreelist(n)
      PROVE  Pool!PoolAllocate
  <2>1. PICK i \in RunIndices : /\ IsFirst(i, Fits(n))
                                /\ held' = held \cup RunPages(free_runs[i].pa, n)
    BY <1>2 DEF AllocateFromFreelist
  <2> DEFINE run == free_runs[i]
  <2>2. /\ n > 0 /\ run.pa \in Nat /\ run.page_count \in Nat /\ n <= run.page_count
        /\ RunEnd(run) <= used /\ used \in Nat /\ used <= PageCount
    BY <1>2, <2>1 DEF AllocateFromFreelist, IsFirst, Fits, IInv, TypeOK, PageRun,
                      RunIndices, FreelistSound, RunsBelowCursor
  <2>3. n \in 1 .. PageCount /\ run.pa + n <= PageCount
    BY <2>2 DEF RunEnd
  <2>4. ASSUME NEW p \in RunPages(run.pa, n) PROVE p \notin held
    <3>1. InRun(p, run) /\ p \in Cells
      BY <2>2, <2>3 DEF RunPages, InRun, Cells
    <3> QED BY <3>1 DEF InFreeRun, IInv, Accounted
  <2> QED BY <2>1, <2>2, <2>3, <2>4, AllocationRefines
<1>3. ASSUME NEW n \in 0 .. (PageCount + 1), AllocateFromCursor(n)
      PROVE  Pool!PoolAllocate
  <2>1. /\ n > 0 /\ n <= PageCount - used /\ used \in Nat
        /\ held' = held \cup RunPages(used, n)
    BY <1>3 DEF AllocateFromCursor, IInv, TypeOK
  <2>2. ASSUME NEW p \in RunPages(used, n) PROVE p \notin held
    <3>1. p \in Cells /\ ~(p < used)
      BY <2>1 DEF RunPages, Cells
    <3> QED BY <3>1 DEF IInv, Accounted
  <2>3. n \in 1 .. PageCount /\ used + n <= PageCount
    BY <2>1
  <2> QED BY <2>1, <2>2, <2>3, AllocationRefines
<1>4. ASSUME NEW n \in 0 .. (PageCount + 1), Allocate(n)
      PROVE  [Pool!PoolNext]_HandedOut
  <2>1. CASE AllocateFromFreelist(n) \/ AllocateFromCursor(n)
    BY <1>2, <1>3, <2>1 DEF Pool!PoolNext
  <2>2. CASE AllocateRejected(n) \/ AllocateExhausted(n) \/ AllocateCommitFails(n)
    BY <1>1, <2>2 DEF AllocateRejected, AllocateExhausted, AllocateCommitFails
  <2> QED BY <1>4, <2>1, <2>2 DEF Allocate
<1>5. ASSUME NEW pa \in 0 .. PageCount, NEW n \in 0 .. (PageCount + 1), Free(pa, n)
      PROVE  [Pool!PoolNext]_HandedOut
  <2>1. CASE FreeAtCursor(pa, n) \/ FreeCoalesced(pa, n) \/ FreePushed(pa, n)
    <3>1. CallerReturns(pa, n) /\ held' = held \ RunPages(pa, n)
      BY <2>1 DEF FreeAtCursor, FreeCoalesced, FreePushed
    <3>2. pa \in Nat /\ n \in Nat
      OBVIOUS
    <3> QED BY <3>1, <3>2, FreeRefines DEF Pool!PoolNext
  <2>2. CASE FreeRejected(pa, n) \/ FreeListFull(pa, n)
    BY <1>1, <2>2 DEF FreeRejected, FreeListFull
  <2> QED BY <1>5, <2>1, <2>2 DEF Free
<1>6. CASE Reset
  <2>1. HandedOut' = {}
    BY <1>6, HeldIsHandedOut, HeldIsHandedOutNext DEF Reset
  <2> QED BY <2>1 DEF Pool!PoolNext, Pool!PoolReset
<1>7. CASE UNCHANGED vars
  BY <1>1, <1>7 DEF vars
<1> QED BY <1>4, <1>5, <1>6, <1>7 DEF Next

(* The allocator implements the pool: every step takes contiguous pages    *)
(* nobody held, returns pages that were held, or leaves ownership alone.   *)
THEOREM AllocatorImplementsPool == Spec => ImplementsPool
<1>1. Init => Pool!PoolInit
  BY InitEstablishesIInv, HeldIsHandedOut DEF Init, Pool!PoolInit
<1>2. IInv /\ IInv' /\ [Next]_vars => [Pool!PoolNext]_HandedOut
  BY StepRefines
<1> QED
  BY <1>1, <1>2, InvariantHolds, PTL DEF Spec, ImplementsPool, Pool!PoolSpec
=============================================================================
