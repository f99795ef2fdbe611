------------------------------- MODULE MCVMM --------------------------------
(***************************************************************************)
(* Three slots of two pages over two pages of guest RAM, which allows      *)
(* mirrors and scattered pages, and ranges that span slots or leave a slot *)
(* half mapped.  One permission word has a bit outside VMM_PERM_ALL.       *)
(*                                                                         *)
(* VMMPool.cfg has two tables for the three slots, so the pool runs out    *)
(* and recycles, and one kind of permission.  VMMBorrows.cfg has one table *)
(* and three kinds of permission, the unreadable mapped page among them.   *)
(***************************************************************************)
EXTENDS VMMAccess

PoolPermArgs   == {{"R"}, {"other"}}
BorrowPermArgs == {{}, {"R"}, {"R", "W"}, {"other"}}
=============================================================================
