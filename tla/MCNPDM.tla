------------------------------- MODULE MCNPDM -------------------------------
(***************************************************************************)
(* Bounds for NPDM: one good layout with each field in turn at its limit or*)
(* past it, and every sequence of up to two capability descriptors, calls of*)
(* type 4 and thread limits of type 3 among them.                          *)
(***************************************************************************)
EXTENDS Integers, Sequences

MCFileSize == 128 + 576 + 16 + 64 + 16
MCCalls(i, bits) == [type |-> 4, index |-> i, bits |-> bits]
MCThread(low, high, min, max) ==
  [type |-> 3, lowest |-> low, highest |-> high, minCore |-> min, maxCore |-> max]
MCDescriptors ==
  {MCCalls(0, {1, 4, 23}), MCCalls(1, {0, 9}), MCCalls(2, {15, 16}), MCCalls(7, {23}),
   MCThread(59, 28, 0, 2), MCThread(28, 59, 0, 2), MCThread(63, 64, 0, 0),
   MCThread(59, 28, 2, 1), MCThread(59, 28, 0, 4)}
  \cup {[type |-> t] : t \in {7, 13, 14, 15, 16, 32, 5}}
MCLists == UNION {[1 .. n -> MCDescriptors] : n \in 0 .. 2}
MCBlob(offset, size) == [offset |-> offset, size |-> size]
MCFileOf(acidList, list) ==
  [size |-> MCFileSize,
   meta |-> [magic |-> TRUE, space |-> 3, priority |-> 44, core |-> 3, stack |-> 8192],
   acid |-> [range |-> MCBlob(128, 592), magic |-> TRUE, min |-> 1, max |-> 3,
             caps |-> MCBlob(576, 4 * Len(acidList)), descriptors |-> acidList],
   aci0 |-> [range |-> MCBlob(720, 80), magic |-> TRUE, id |-> 2,
             fs |-> MCBlob(64, 4), sac |-> MCBlob(68, 4),
             caps |-> MCBlob(72, 4 * Len(list)), descriptors |-> list]]
MCOne == MCFileOf(<<MCCalls(0, {1})>>, <<MCCalls(0, {1, 4})>>)
MCBlobs == {MCBlob(o, s) : o \in {0, 64, 79, 80, 81, 720, 800}, s \in {0, 1, 16, 63, 64, 576, 81, 1000000}}
MCDescriptorFiles ==
  {MCFileOf(<<>>, l) : l \in MCLists} \cup {MCFileOf(l, <<>>) : l \in MCLists}
  \cup {[MCOne EXCEPT !.size = s] : s \in {127, 128, 799, 800, 1048576, 1048577}}
  \cup {[MCOne EXCEPT !.meta.priority = p] : p \in {63, 64}}
  \cup {[MCOne EXCEPT !.meta.stack = s] : s \in {0, 4096, 4100}}
  \cup {[MCOne EXCEPT !.acid.range = r] : r \in MCBlobs}
  \cup {[MCOne EXCEPT !.aci0.range = r] : r \in MCBlobs}
  \cup {[MCOne EXCEPT !.aci0.fs = r] : r \in MCBlobs}
  \cup {[MCOne EXCEPT !.aci0.sac = r] : r \in MCBlobs}
  \cup {[MCOne EXCEPT !.aci0.id = i] : i \in 0 .. 4}
  \cup {[MCOne EXCEPT !.acid.magic = FALSE], [MCOne EXCEPT !.aci0.magic = FALSE],
        [MCOne EXCEPT !.aci0.caps.size = 2], [MCOne EXCEPT !.acid.caps.size = 1000]}
==============================================================================
