----------------------------- MODULE AddressSpace -----------------------------
(***************************************************************************)
(* Where the regions of a guest process lie: address_space_init and        *)
(* address_region_contains (core/hle/kernel/address_space.c), in words of  *)
(* Word values.  A nonzero seed is mixed into any nonzero word.            *)
(***************************************************************************)
EXTENDS Integers

CONSTANTS
  Word,        \* number of values of an unsigned word, 2^64
  Page,        \* VMM_PAGE_SIZE
  SpaceStart, SpaceEnd,                        \* ADDRESS_SPACE_39_START, _END
  AliasSize, HeapSize, StackSize, TlsIoSize,   \* of the regions after the code
  Granule,     \* ADDRESS_SPACE_ASLR_GRANULE
  Types, Bits39  \* the descriptor's address spaces, and the one implemented

Words == 0 .. Word - 1
Span  == SpaceEnd - SpaceStart
FixedRegions == AliasSize + HeapSize + StackSize + TlsIoSize

ASSUME SizesAssumption ==
  /\ {Word, Page, Granule, AliasSize, HeapSize, StackSize, TlsIoSize} \subseteq Nat \ {0}
  /\ SpaceStart \in Nat /\ SpaceEnd \in Nat
  /\ SpaceStart + FixedRegions < SpaceEnd /\ SpaceEnd < Word
  /\ Page <= SpaceEnd

VARIABLES
  codeSize,  \* what the last caller asked for
  out,       \* its Address_Space; NoSpace if zeroed or never written
  result     \* "ok", "invalid" or "not implemented"

vars == <<codeSize, out, result>>

Region(base, size) == [base |-> base, size |-> size]
NoSpace == [name \in {"code", "alias", "heap", "stack", "tls_io"} |-> Region(0, 0)]

-----------------------------------------------------------------------------
\* The mask of a page offset cleared after an addition that may wrap.
AlignUpPage(value) == LET sum == (value + Page - 1) % Word IN sum - (sum % Page)

\* Mutant of Fits: the rounded size is trusted not to have wrapped.
FitsRounded(code_size) == AlignUpPage(code_size) <= Span - FixedRegions

Fits(code_size) ==
  AlignUpPage(code_size) >= code_size /\ AlignUpPage(code_size) <= Span - FixedRegions

\* How far the seed moves the regions; mixed is 0 without a seed.
AslrOffset(code_bytes, mixed) ==
  LET granules == (Span - FixedRegions - code_bytes) \div Granule
  IN IF mixed = 0 THEN 0 ELSE (mixed % (granules + 1)) * Granule

\* The regions back to back, the code first.
Placed(code_bytes, mixed) ==
  LET code  == SpaceStart + AslrOffset(code_bytes, mixed)
      alias == code + code_bytes
      heap  == alias + AliasSize
      stack == heap + HeapSize
  IN [NoSpace EXCEPT !["code"]  = Region(code, code_bytes),
                     !["alias"] = Region(alias, AliasSize),
                     !["heap"]  = Region(heap, HeapSize),
                     !["stack"] = Region(stack, StackSize),
                     !["tls_io"] = Region(stack + StackSize, TlsIoSize)]

\* Refused before out is touched.
RefuseArguments(type, code_size) ==
  /\ code_size = 0 \/ type # Bits39
  /\ result' = IF code_size = 0 THEN "invalid" ELSE "not implemented"
  /\ UNCHANGED out

RefuseSize(type, code_size) ==
  /\ code_size # 0 /\ type = Bits39 /\ ~Fits(code_size)
  /\ result' = "invalid" /\ out' = NoSpace

Accept(type, code_size, mixed) ==
  /\ code_size # 0 /\ type = Bits39 /\ Fits(code_size)
  /\ result' = "ok" /\ out' = Placed(AlignUpPage(code_size), mixed)

AddressSpaceInit(type, code_size, mixed) ==
  /\ codeSize' = code_size
  /\ \/ RefuseArguments(type, code_size)
     \/ RefuseSize(type, code_size)
     \/ Accept(type, code_size, mixed)

\* Mutant of Contains: the end of the range is computed, and may wrap.
ContainsEnd(region, gva, size) ==
  gva >= region.base /\ (gva + size) % Word <= region.base + region.size

\* address_region_contains: no sum of a base and a size is formed.
Contains(region, gva, size) ==
  /\ gva >= region.base
  /\ gva - region.base <= region.size
  /\ size <= region.size - (gva - region.base)

-----------------------------------------------------------------------------
Init == codeSize = 0 /\ out = NoSpace /\ result = "invalid"

Next == \E type \in Types, code_size \in Words, mixed \in Words :
          AddressSpaceInit(type, code_size, mixed)

Spec == Init /\ [][Next]_vars

-----------------------------------------------------------------------------
End(region) == region.base + region.size

TypeOK ==
  /\ codeSize \in Words
  /\ result \in {"ok", "invalid", "not implemented"}
  /\ out \in [{"code", "alias", "heap", "stack", "tls_io"} -> [base : Nat, size : Nat]]

\* For every code size and seed: the code region holds the code, and the
\* regions follow each other without a gap or an overlap, inside the space.
RegionsTileTheSpace ==
  result = "ok" =>
    /\ out["code"].size >= codeSize /\ codeSize > 0
    /\ out["code"].base >= SpaceStart
    /\ End(out["code"])  = out["alias"].base
    /\ End(out["alias"]) = out["heap"].base
    /\ End(out["heap"])  = out["stack"].base
    /\ End(out["stack"]) = out["tls_io"].base
    /\ End(out["tls_io"]) <= SpaceEnd

\* In a space that was handed out the containment test is exact for every
\* address and size a guest can pass, those whose sum leaves the word included.
ContainmentExact ==
  result = "ok" =>
    \A name \in DOMAIN out : \A gva, size \in Words :
      Contains(out[name], gva, size) <=>
        (gva >= out[name].base /\ gva + size <= End(out[name]))
==============================================================================
