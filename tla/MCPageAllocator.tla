-------------------------- MODULE MCPageAllocator ---------------------------
(***************************************************************************)
(* Eight pages and three freelist entries: enough for three separate runs  *)
(* with held pages around and between them, for a fourth that finds the    *)
(* list full, and for a retraction that absorbs one of the runs.           *)
(***************************************************************************)
EXTENDS PageAllocator

MCPageCount   == 8
MCMaxFreeRuns == 3
=============================================================================
