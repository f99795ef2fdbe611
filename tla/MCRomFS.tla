------------------------------- MODULE MCRomFS -------------------------------
(***************************************************************************)
(* Bounds for RomFS: a tree with one name under two parents, two buckets so*)
(* that chains hold entries of several directories, every path of up to    *)
(* three tokens and of four without empty components, and every word of    *)
(* the image replaced by every word that could matter: links into, between *)
(* and past the entries.                                                   *)
(***************************************************************************)
EXTENDS Integers, Sequences

MCSep     == 0        \* as Sep and NoEntry of RomFS
MCNoEntry == 100000
MCDirs == <<[parent |-> 1, name |-> 0], [parent |-> 1, name |-> 1],
            [parent |-> 2, name |-> 1]>>
MCFiles == <<[parent |-> 2, name |-> 2, size |-> 4], [parent |-> 1, name |-> 2, size |-> 8]>>
MCHash(parent, name) == parent \div 4 + name
MCTokens == {MCSep, 1, 2}
MCPaths ==
  {p \in UNION {[1 .. n -> MCTokens] : n \in 0 .. 4} :
     \A i \in 1 .. Len(p) - 1 :
       IF Len(p) = 4 THEN (p[i] = MCSep) # (p[i + 1] = MCSep)
                     ELSE p[i] = MCSep \/ p[i + 1] = MCSep}
MCDamage == {MCNoEntry, 0, 1, 2, 24, 36, 52, 80, 1000}
==============================================================================
