------------------------------ MODULE VMMAccess ------------------------------
(***************************************************************************)
(* Byte accesses through the page tables of VMM: the translation of one    *)
(* address, the accessors of a fixed width with their fast path            *)
(* (core/common/vmm.h), and the block copies, which check a whole range    *)
(* page by page and then copy it chunk by chunk (core/common/vmm.c).       *)
(*                                                                         *)
(* An access yields the fault it stops at, which becomes last_fault, or    *)
(* the host byte behind each byte the caller asked for, in order; what a   *)
(* byte holds does not matter.                                             *)
(***************************************************************************)
EXTENDS VMM, Sequences

CONSTANT PageBytes     \* VMM_PAGE_SIZE

ASSUME PageBytesAssumption == PageBytes \in Nat \ {0}

SpaceBytes   == PageTotal * PageBytes      \* VMM_ADDRESS_SPACE_SIZE
PageOf(gva)  == gva \div PageBytes
NextPage(gva) == (PageOf(gva) + 1) * PageBytes
HostByte(gva) == PteLoad(PageOf(gva)).host * PageBytes + (gva % PageBytes)

NoFault == [kind |-> "none"]
Fault(kind, gva, required) == [kind |-> kind, gva |-> gva, required_perms |-> required]

(* vmm_translate_inline's verdict on one address. *)
Translates(gva, required) ==
  CASE gva >= SpaceBytes                  -> Fault("out of range", gva, required)
    [] gva < SpaceBytes /\ PteLoad(PageOf(gva)) = EmptyPte
                                          -> Fault("unmapped", gva, required)
    [] OTHER -> IF Grants(PageOf(gva), required) THEN NoFault
                ELSE Fault("permission", gva, required)

ValidByteRange(gva, size) == size > 0 /\ gva < SpaceBytes /\ size <= SpaceBytes - gva

NextPageByStride(gva) == gva + PageBytes                            \* mutant
(* Where validate_byte_range looks next: one byte of each page is enough. *)
NextProbe(gva) == NextPage(gva)

(* validate_byte_range: the first fault of the range. *)
Validated(gva, size, required) ==
  LET from[at \in gva .. (gva + size + PageBytes)] ==
        IF at >= gva + size THEN NoFault
        ELSE IF Translates(at, required) # NoFault THEN Translates(at, required)
        ELSE from[NextProbe(at)]
  IN IF ValidByteRange(gva, size) THEN from[gva]
     ELSE Fault("out of range", gva, required)

ChunkAt(gva, remaining) ==
  LET page_left == PageBytes - (gva % PageBytes)
  IN IF remaining < page_left THEN remaining ELSE page_left

(* A chunk is one memcpy from the host byte of its first address on. *)
Chunk(gva, size) == [i \in 1 .. size |-> HostByte(gva) + i - 1]

(* copy_guest_to_host and copy_host_to_guest. *)
Copied(gva, size) ==
  LET from[at \in gva .. gva + size] ==
        LET chunk == ChunkAt(at, gva + size - at) IN
        IF at = gva + size THEN <<>> ELSE Chunk(at, chunk) \o from[at + chunk]
  IN from[gva]

(* vmm_read_block and vmm_write_block of at least one byte. *)
BlockAccess(gva, size, required) ==
  LET fault == Validated(gva, size, required) IN
  [fault |-> fault, bytes |-> IF fault = NoFault THEN Copied(gva, size) ELSE <<>>]

(* vmm_read<bits> and vmm_write<bits>: within a page one translation does. *)
CrossesPage(gva, size) == (gva % PageBytes) + size > PageBytes
WidthAccess(gva, size, required) ==
  LET fault == Translates(gva, required) IN
  IF CrossesPage(gva, size) THEN BlockAccess(gva, size, required)
  ELSE [fault |-> fault, bytes |-> IF fault = NoFault THEN Chunk(gva, size) ELSE <<>>]

-----------------------------------------------------------------------------
(* Pages that are scattered, mirrored or differently protected: an access  *)
(* reaches exactly the byte behind each of its addresses or none of them   *)
(* ("all-or-nothing", vmm.h), although only one byte of each page is       *)
(* looked at.  A refused range that lies in the space names the first      *)
(* address that stopped it and why.  One that leaves the space is refused  *)
(* before any page of it is looked at, as "out of range" at its START,     *)
(* whatever stops it first and although that address may be in the space:  *)
(* so validate_byte_range and vmm_guest_to_host do it (vmm.c:453-455,      *)
(* 601-603), where vmm.h has the kind mean gva >= VMM_ADDRESS_SPACE_SIZE   *)
(* (vmm.h:124) and gva be the faulting byte (vmm.h:129-131).               *)
AccessIsAllOrNothing(gva, size, required) ==
  LET access  == BlockAccess(gva, size, required)
      range   == gva .. (gva + size - 1)
      refused == {b \in range : b >= SpaceBytes \/ ~Grants(PageOf(b), required)}
  IN IF refused = {}
     THEN access = [fault |-> NoFault,
                    bytes |-> [i \in 1 .. size |-> HostByte(gva + i - 1)]]
     ELSE /\ access.bytes = <<>>
          /\ IF \E b \in range : b >= SpaceBytes
             THEN access.fault = Fault("out of range", gva, required)
             ELSE \E b \in refused :
                    /\ \A other \in refused : b <= other
                    /\ access.fault = Fault(IF PteLoad(PageOf(b)) = EmptyPte
                                            THEN "unmapped" ELSE "permission", b, required)

(* The walks over the tables agree with the map they stand for: a query    *)
(* answers with the maximal run, a block copy is all-or-nothing with the   *)
(* fault said above, and the fast path of a fixed width does what the copy *)
(* of as many bytes does.                                                  *)
WalksAgreeWithMap ==
  live =>
    /\ QueryIsMaximalRun
    /\ \A gva \in 0 .. SpaceBytes, required \in {{"R"}, {"W"}} :
         /\ \A size \in 1 .. 2 * PageBytes + 1 : AccessIsAllOrNothing(gva, size, required)
         /\ \A width \in 1 .. PageBytes :
              WidthAccess(gva, width, required) = BlockAccess(gva, width, required)
==============================================================================
