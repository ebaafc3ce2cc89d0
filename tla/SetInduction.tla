---------------------------- MODULE SetInduction ----------------------------
(***************************************************************************)
(* Induction over numbers stated with a set in place of a predicate, and   *)
(* the existence of functions that are defined by recursion on 0 .. m,     *)
(* stated with a function in place of an operator.  In this form a prover  *)
(* without operator variables can instantiate them.                        *)
(***************************************************************************)
EXTENDS Integers, TLAPS, WellFoundedInduction

(* A set that has 0 and every successor of its members has every natural   *)
(* number: otherwise there is a least one that it lacks.                   *)
LEMMA NatSetInduction ==
    ASSUME NEW T, 0 \in T, \A n \in Nat : n \in T => n + 1 \in T
    PROVE  \A n \in Nat : n \in T
<1> DEFINE Bad == Nat \ T
<1>1. SUFFICES ASSUME Bad # {} PROVE FALSE
  OBVIOUS
<1>2. PICK m \in Bad : \A k \in Bad : <<k, m>> \notin OpToRel(<, Nat)
  BY <1>1, NatLessThanWellFounded, WFMin
<1>3. m # 0 /\ m - 1 \in Nat
  OBVIOUS
<1>4. m - 1 \in Bad
  BY <1>3
<1>5. <<m - 1, m>> \in OpToRel(<, Nat)
  BY <1>3 DEF OpToRel
<1>6. QED
  BY <1>2, <1>4, <1>5

(* f starts with v and goes on as step says, up to m. *)
Iterates(f, m, v, step) ==
    f[0] = v /\ \A i \in 1 .. m : f[i] = step[<<i, f[i - 1]>>]

(* Iterating a function m times gives a sequence of values. *)
LEMMA IteratesExist ==
    ASSUME NEW m \in Nat, NEW V, NEW v \in V, NEW step \in [(1 .. m) \X V -> V]
    PROVE  \E f \in [0 .. m -> V] : Iterates(f, m, v, step)
<1> DEFINE T == {n \in Nat : n =< m =>
                     \E f \in [0 .. n -> V] : Iterates(f, n, v, step)}
<1>1. 0 \in T
  <2> DEFINE f == [i \in 0 .. 0 |-> v]
  <2>1. f \in [0 .. 0 -> V] /\ Iterates(f, 0, v, step)
    BY DEF Iterates
  <2>2. QED
    BY <2>1
<1>2. ASSUME NEW n \in Nat, n \in T PROVE n + 1 \in T
  <2>1. SUFFICES ASSUME n + 1 =< m
                 PROVE  \E f \in [0 .. n + 1 -> V] : Iterates(f, n + 1, v, step)
    OBVIOUS
  <2>2. PICK f \in [0 .. n -> V] : Iterates(f, n, v, step)
    BY <1>2, <2>1
  <2> DEFINE last == step[<<n + 1, f[n]>>]
             g == [i \in 0 .. n + 1 |-> IF i =< n THEN f[i] ELSE last]
  <2>3. f[n] \in V /\ <<n + 1, f[n]>> \in (1 .. m) \X V
    BY <2>1
  <2>4. last \in V
    BY <2>3
  <2>5. g \in [0 .. n + 1 -> V]
    BY <2>4
  <2>6. g[0] = v
    BY <2>2 DEF Iterates
  <2>7. ASSUME NEW i \in 1 .. n + 1 PROVE g[i] = step[<<i, g[i - 1]>>]
    <3>1. CASE i = n + 1
      <4>1. g[i - 1] = f[n] /\ g[i] = last
        BY <3>1
      <4>2. QED
        BY <3>1, <4>1
    <3>2. CASE i # n + 1
      <4>1. i \in 1 .. n /\ g[i - 1] = f[i - 1] /\ g[i] = f[i]
        BY <3>2
      <4>2. QED
        BY <4>1, <2>2 DEF Iterates
    <3>3. QED
      BY <3>1, <3>2
  <2>8. Iterates(g, n + 1, v, step)
    <3> HIDE DEF g
    <3>1. QED
      BY <2>6, <2>7 DEF Iterates
  <2>9. QED
    BY <2>5, <2>8
<1>3. m \in T
  <2> HIDE DEF T
  <2>1. QED
    BY <1>1, <1>2, NatSetInduction
<1>4. QED
  BY <1>3
=============================================================================
