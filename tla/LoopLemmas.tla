------------------------------ MODULE LoopLemmas ------------------------------
(***************************************************************************)
(* What the proofs about loops rest on.  A loop of the code is a recursive *)
(* function, so a CHOOSE of the function that its equation defines: first  *)
(* that there is one, which takes a measure that the loop lowers, then     *)
(* what it computes, by way of a least counterexample.                     *)
(***************************************************************************)
EXTENDS Integers, WellFoundedInduction, TLAPS

(* Every nonempty set of naturals has a least member. *)
LEMMA LeastMember ==
  ASSUME NEW S \in SUBSET Nat, S # {}
  PROVE  \E x \in S : \A y \in S : x <= y
<1> DEFINE Below == OpToRel(<, Nat)
<1>1. IsWellFoundedOn(Below, Nat)
  BY NatLessThanWellFounded
<1>2. \A a, b \in Nat : a < b => <<a, b>> \in Below
  <2> SUFFICES ASSUME NEW a \in Nat, NEW b \in Nat, a < b
               PROVE  <<a, b>> \in {ss \in Nat \X Nat : ss[1] < ss[2]}
    BY DEF OpToRel
  <2> QED OBVIOUS
<1> HIDE DEF Below
<1>3. PICK x \in S : \A y \in S : <<y, x>> \notin Below
  BY <1>1, WFMin
<1>4. ASSUME NEW y \in S PROVE x <= y
  <2>1. x \in Nat /\ y \in Nat
    OBVIOUS
  <2>2. ~ (y < x)
    BY <1>2, <1>3, <2>1
  <2> QED BY <2>1, <2>2, SMT
<1> QED BY <1>4

(* A loop over the places S that stops in Stop and else goes on to a place *)
(* of lower rank has a result for every place.                             *)
GoesDown(S, Stop, next, rank, most) ==
  /\ most \in Nat
  /\ \A s \in S : rank[s] \in Nat /\ rank[s] < most
  /\ \A s \in S : s \notin Stop => next[s] \in S /\ rank[next[s]] < rank[s]
IsResult(f, S, Stop, out, next) ==
  f = [s \in S |-> IF s \in Stop THEN out[s] ELSE f[next[s]]]

LEMMA LoopHasResult ==
  ASSUME NEW S, NEW Stop, NEW out, NEW next, NEW rank, NEW most,
         GoesDown(S, Stop, next, rank, most)
  PROVE  \E f : IsResult(f, S, Stop, out, next)
<1> USE DEF GoesDown, IsResult
<1> DEFINE Part(n) == {s \in S : rank[s] < n}
           Done(f, n) == f = [s \in Part(n) |-> IF s \in Stop THEN out[s] ELSE f[next[s]]]
           Undone == {n \in Nat : ~ \E f : Done(f, n)}
<1>1. ASSUME Undone # {} PROVE FALSE
  <2>1. PICK n \in Undone : \A k \in Undone : n <= k
    BY <1>1, LeastMember
  <2>2. n \in Nat /\ ~ \E f : Done(f, n)
    OBVIOUS
  <2>3. n # 0
    <3>1. ASSUME n = 0 PROVE FALSE
      <4>1. Part(n) = {}
        BY <3>1
      <4> DEFINE none == [s \in {} |-> 0]
      <4>2. Done(none, n)
        BY <4>1
      <4> HIDE DEF Done, none
      <4> QED BY <2>2, <4>2
    <3> QED BY <3>1
  <2>4. n - 1 \in Nat /\ n - 1 \notin Undone
    <3>1. n - 1 \in Nat /\ ~ (n <= n - 1)
      BY <2>2, <2>3
    <3> HIDE DEF Undone
    <3> QED BY <2>1, <3>1
  <2>5. PICK f : Done(f, n - 1)
    BY <2>4
  <2> DEFINE g == [s \in Part(n) |-> IF s \in Stop THEN out[s] ELSE f[next[s]]]
  <2>6. ASSUME NEW s \in Part(n), s \notin Stop PROVE g[next[s]] = f[next[s]]
    <3>1. PICK t : t = next[s]
      OBVIOUS
    <3>2. t \in Part(n - 1) /\ t \in Part(n)
      BY <2>2, <2>3, <2>6, <3>1
    <3>3. f[t] = IF t \in Stop THEN out[t] ELSE f[next[t]]
      BY <2>5, <3>2
    <3>4. g[t] = IF t \in Stop THEN out[t] ELSE f[next[t]]
      BY <3>2
    <3> QED BY <3>1, <3>3, <3>4
  <2>7. Done(g, n)
    BY <2>6
  <2> HIDE DEF g, Done
  <2> QED BY <2>2, <2>7
<1>2. PICK f : Done(f, most)
  BY <1>1
<1>3. Part(most) = S
  OBVIOUS
<1> QED BY <1>2, <1>3


(* What holds at 0 and goes on from each number to the next holds up to n. *)
LEMMA Reaches ==
  ASSUME NEW n \in Nat, NEW S, 0 \in S, \A i \in 1 .. n : i - 1 \in S => i \in S
  PROVE  0 .. n \subseteq S
<1> DEFINE Missing == {i \in Nat : i <= n /\ i \notin S}
<1>1. ASSUME Missing # {} PROVE FALSE
  <2>1. PICK i \in Missing : \A j \in Missing : i <= j
    BY <1>1, LeastMember
  <2>2. i \in 1 .. n /\ i \notin S
    <3>1. i \in Nat /\ i <= n /\ i \notin S
      OBVIOUS
    <3> QED BY <3>1
  <2>3. i - 1 \in S
    <3>1. i - 1 \in Nat /\ i - 1 <= n /\ ~ (i <= i - 1)
      BY <2>2
    <3>2. i - 1 \notin Missing
      <4> HIDE DEF Missing
      <4> QED BY <2>1, <3>1
    <3> QED BY <3>1, <3>2
  <2> QED BY <2>2, <2>3
<1>2. ASSUME NEW i \in 0 .. n PROVE i \in S
  BY <1>1
<1> QED BY <1>2

(* A fold over 1 .. n has a result after each element. *)
IsFold(f, n, base, step) ==
  f = [i \in 0 .. n |-> IF i = 0 THEN base ELSE step[<<f[i - 1], i>>]]

LEMMA FoldHasResult ==
  ASSUME NEW n \in Nat, NEW V, NEW base \in V, NEW step \in [V \X (1 .. n) -> V]
  PROVE  \E f \in [0 .. n -> V] : IsFold(f, n, base, step)
<1> DEFINE S == {m \in 0 .. n : \E f \in [0 .. m -> V] : IsFold(f, m, base, step)}
<1>1. 0 \in S
  <2> DEFINE f == [i \in 0 .. 0 |-> base]
  <2>1. f \in [0 .. 0 -> V] /\ IsFold(f, 0, base, step)
    BY DEF IsFold
  <2> HIDE DEF f
  <2> QED BY <2>1
<1>2. ASSUME NEW m \in 1 .. n, m - 1 \in S PROVE m \in S
  <2>1. PICK f \in [0 .. m - 1 -> V] : IsFold(f, m - 1, base, step)
    BY <1>2
  <2> DEFINE g == [i \in 0 .. m |-> IF i = m THEN step[<<f[m - 1], m>>] ELSE f[i]]
  <2>2. f[m - 1] \in V /\ step[<<f[m - 1], m>>] \in V
    <3>1. m - 1 \in 0 .. m - 1
      BY <1>2
    <3>2. f[m - 1] \in V
      BY <3>1
    <3> QED BY <3>2
  <2>3. g \in [0 .. m -> V]
    <3>1. \A i \in 0 .. m : i # m => i \in 0 .. m - 1
      BY <1>2
    <3> QED BY <2>2, <3>1
  <2>4. ASSUME NEW i \in 0 .. m
        PROVE  g[i] = IF i = 0 THEN base ELSE step[<<g[i - 1], i>>]
    <3>1. CASE i = m
      <4>1. i # 0 /\ i - 1 \in 0 .. m /\ i - 1 # m
        BY <1>2, <3>1
      <4>2. g[i - 1] = f[i - 1]
        BY <4>1
      <4> QED BY <3>1, <4>1, <4>2
    <3>2. CASE i # m /\ i # 0
      <4>1. i \in 0 .. m - 1 /\ i - 1 \in 0 .. m /\ i - 1 # m
        BY <1>2, <3>2
      <4>2. f[i] = step[<<f[i - 1], i>>]
        BY <2>1, <3>2, <4>1 DEF IsFold
      <4>3. g[i - 1] = f[i - 1] /\ g[i] = f[i]
        BY <3>2, <4>1
      <4> QED BY <3>2, <4>2, <4>3
    <3>3. CASE i # m /\ i = 0
      <4>1. 0 \in 0 .. m - 1
        BY <1>2
      <4>2. f[0] = base
        BY <2>1, <4>1 DEF IsFold
      <4> QED BY <3>3, <4>2
    <3> QED BY <3>1, <3>2, <3>3
  <2>5. IsFold(g, m, base, step)
    <3>1. g = [i \in 0 .. m |-> g[i]]
      OBVIOUS
    <3> HIDE DEF g
    <3> QED BY <2>4, <3>1 DEF IsFold
  <2> HIDE DEF g
  <2> QED BY <1>2, <2>3, <2>5
<1> HIDE DEF S
<1>3. n \in S
  BY <1>1, <1>2, Reaches
<1> USE DEF S
<1> QED BY <1>3
==============================================================================
