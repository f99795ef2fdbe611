---------------------------- MODULE MCIpcMessage ----------------------------
(***************************************************************************)
(* Bounds for IpcMessage: tables of every shape up to four commands, the   *)
(* declared sizes at every boundary of the 0x100-byte buffer.              *)
(***************************************************************************)
EXTENDS Integers, Sequences

MCTables == {<<>>, <<1, 2, 4, 5>>}
MCHeader(type, words, special, pid, odd) ==
  [type |-> type, words |-> words, special |-> special, pid |-> pid, odd |-> odd]
MCSpecials == {<<FALSE, FALSE>>, <<TRUE, FALSE>>, <<TRUE, TRUE>>}
MCHeaders ==
  {MCHeader(4, w, s[1], s[2], "no") :
     w \in {0} \cup 4 .. 7 \cup 59 .. 63 \cup {1023}, s \in MCSpecials}
  \cup {MCHeader(type, 12, TRUE, FALSE, odd) :
     type \in {0, 2, 4, 15, 17}, odd \in {"no", "descriptors", "receive list", "handles"}}
==============================================================================
