------------------------- MODULE RsgGeneratorProofs -------------------------
(***************************************************************************)
(* Proofs about RsgGenerator for every grammar and every bound: the types, *)
(* TreesAreTrees, SeedsReplay, SeedsAreKept and FavPathsHaveFav.           *)
(***************************************************************************)
EXTENDS RsgGenerator, SetInduction, FiniteSetTheorems, FunctionTheorems,
        SequenceTheorems

(* No node has n as a child. *)
NoParent(h, n) == \A m \in DOMAIN h : n \notin Range(h[m].kids)

(* The children of n that are there have rules of the symbols of its rule. *)
KidsRuled(h, n) ==
    LET r == h[n].rule
    IN  r # NoRule =>
        \A k \in SymbolsOf(r) :
            LET p == Place(SymbolsOf(r), k)
            IN  p \in DOMAIN h[n].kids =>
                h[h[n].kids[p]].rule \in RulesOf(Items(r)[k]) \cup {NoRule}

(* Every child is on the heap. *)
Closed(h) ==
    /\ DOMAIN h \subseteq Nodes
    /\ \A n \in DOMAIN h : Range(h[n].kids) \subseteq DOMAIN h

(* A node is the child of one node at most, and at one place. *)
OneParent(h) ==
    \A m, n \in DOMAIN h : \A j \in DOMAIN h[m].kids, k \in DOMAIN h[n].kids :
        h[m].kids[j] = h[n].kids[k] => m = n /\ j = k

(* The nodes of a heap form trees, and children have rules of their symbols.*)
HeapOK(h) ==
    /\ Closed(h) /\ OneParent(h)
    /\ \A n \in DOMAIN h : h[n] \in PathNodes /\ KidsRuled(h, n)

(* n is the root of a derivation of t. *)
RootOK(h, n, t) ==
    /\ n \in DOMAIN h /\ NoParent(h, n)
    /\ h[n].rule \in RulesOf(t) \cup {NoRule}

(* The roots of the saved derivations. *)
Seeds(sv, fv) == UNION {Range(sv[t]) \cup Range(fv[t]) : t \in Roots}

(* What is saved for t is a derivation of t, and a favorite one has a      *)
(* favorite node.                                                          *)
PathsOK(h, sv, fv) ==
    \A t \in Roots :
        /\ \A n \in Range(sv[t]) \cup Range(fv[t]) : RootOK(h, n, t)
        /\ \A n \in Range(fv[t]) : \E m \in Tree(h, {n}) : h[m].fav

(* The symbols of r before its item i. *)
Below(r, i) == Cardinality({k \in SymbolsOf(r) : k < i})

(* An activation that adds children to its node. *)
Growing(f) == f.item > 0 /\ ~f.replaying

(* An activation has handled one child for each symbol before its item,    *)
(* unless it cut one: then its node has no rule.                           *)
FrameOK(h, f) ==
    /\ f.node \in DOMAIN h
    /\ f.replaying => f.item > 0
    /\ f.item = 0 => f.kid = 0
    /\ f.item > 0 => f.rule # NoRule
    /\ h[f.node].rule # NoRule /\ f.item > 0 =>
          /\ f.rule = h[f.node].rule
          /\ Below(f.rule, f.item) =
                IF f.replaying THEN f.kid ELSE Len(h[f.node].kids)
    /\ h[f.node].rule = NoRule /\ f.replaying => h[f.node].kids = <<>>

(* f called g for the item before its own. *)
LinkOK(h, f, g) ==
    LET k == f.item - 1
        p == Place(SymbolsOf(f.rule), k)
    IN  /\ f.item > 0 /\ k \in SymbolsOf(f.rule) /\ g.name = Items(f.rule)[k]
        /\ g.node \in Range(h[f.node].kids)
        /\ h[f.node].rule # NoRule =>
              p \in DOMAIN h[f.node].kids /\ h[f.node].kids[p] = g.node
        /\ g.item = 0 /\ h[g.node].rule # NoRule => f.replaying

(* The activations follow a branch of the tree of root, which is not part  *)
(* of the saved trees with the nodes S, and replay before they generate.   *)
StackOK(h, st, root, t, S) ==
    /\ st \in Seq(Frames)
    /\ st # <<>> => st[1].node = root /\ st[1].name = t
    /\ \A k \in DOMAIN st : FrameOK(h, st[k]) /\ st[k].node \notin S
    /\ \A k \in DOMAIN st : k + 1 \in DOMAIN st => LinkOK(h, st[k], st[k + 1])
    /\ \A j, k \in DOMAIN st : st[j].node = st[k].node => j = k
    /\ \A j, k \in DOMAIN st : j < k /\ st[k].replaying => st[j].replaying

(* A node with a rule has a child for each symbol, but for those that an   *)
(* activation still adds children to.                                      *)
Complete(h, n) ==
    h[n].rule # NoRule => Len(h[n].kids) = Cardinality(SymbolsOf(h[n].rule))
WholeOK(h, st) ==
    \A n \in DOMAIN h :
        Complete(h, n) \/ \E k \in DOMAIN st : st[k].node = n /\ Growing(st[k])

(* Activations exist only while generate runs, and the type is known then.  *)
ControlOK ==
    /\ tries < MaxTries
    /\ pc # "run" => stack = <<>> /\ genRoot = 0
    /\ pc = "run" => genRoot # 0
    /\ pc # "idle" \/ curPath # 0 => curType \in Roots

(* The derivations sv and fv, the path cp and the derivation gr of ct that *)
(* st generates lie on the heap h.                                         *)
OnHeap(h, sv, fv, cp, gr, ct, st) ==
    /\ HeapOK(h)
    /\ PathsOK(h, sv, fv)
    /\ cp # 0 => RootOK(h, cp, ct)
    /\ gr # 0 => RootOK(h, gr, ct)
    /\ StackOK(h, st, gr, ct, Tree(h, Seeds(sv, fv)))
    /\ WholeOK(h, st)

(* The part of the invariant about the heap, for the variables as they are. *)
HeapInv == OnHeap(heap, saved, favs, curPath, genRoot, curType, stack)

(* The types of the variables that HeapInv does not bound. *)
PlainOK ==
    /\ uniqueHash \in [Rules -> Hashes] /\ edges \subseteq Hashes
    /\ curType \in Roots \cup {""}
    /\ saved \in [Roots -> Seq(Nodes)] /\ favs \in [Roots -> Seq(Nodes)]
    /\ pc \in {"idle", "start", "run"}
    /\ tries \in 0 .. MaxTries /\ text \in BOOLEAN

(* The inductive invariant. *)
IInv == PlainOK /\ ControlOK /\ HeapInv

(* A step changes no node of a saved derivation. *)
SeedNodesStay ==
    \A n \in Tree(heap, SeedRoots) \cap DOMAIN heap' : heap'[n] = heap[n]

-----------------------------------------------------------------------------
(* Trees.                                                                  *)

(* The union of the levels of the trees down to level k is closed or has   *)
(* at least k + 1 nodes, so that all levels down to MaxNodes are closed:   *)
(* Tree is the least set with the roots that has all children of its nodes.*)
LEMMA TreeFacts ==
    ASSUME NEW h, Closed(h), NEW roots, roots \subseteq DOMAIN h
    PROVE  LET T == Tree(h, roots)
           IN  /\ roots \subseteq T /\ T \subseteq DOMAIN h
               /\ \A n \in T : Range(h[n].kids) \subseteq T
               /\ \A S : /\ roots \subseteq S
                         /\ \A n \in S \cap DOMAIN h : Range(h[n].kids) \subseteq S
                         => T \subseteq S
<1> DEFINE m == MaxNodes
           V == SUBSET DOMAIN h
           Kids(X) == UNION {Range(h[n].kids) : n \in X}
           level[k \in 0 .. MaxNodes] ==
               IF k = 0 THEN roots ELSE UNION {Range(h[n].kids) : n \in level[k-1]}
           step == [p \in (1 .. m) \X V |-> Kids(p[2])]
<1>1. m \in Nat /\ roots \in V
  BY BoundAssumption
<1>2. ASSUME NEW X \in V PROVE Kids(X) \in V
  BY DEF Closed
<1>3. step \in [(1 .. m) \X V -> V]
  <2> HIDE DEF V, Kids, m
  <2>1. QED
    BY <1>2
<1>4. PICK f \in [0 .. m -> V] : Iterates(f, m, roots, step)
  <2> HIDE DEF m, V, step
  <2>1. QED
    BY <1>1, <1>3, IteratesExist
<1>5. ASSUME NEW i \in 1 .. m PROVE f[i] = Kids(f[i - 1])
  <2> HIDE DEF V, level, Kids
  <2>1. f[i] = step[<<i, f[i - 1]>>]
    BY <1>4 DEF Iterates
  <2>2. i - 1 \in 0 .. m
    BY <1>1
  <2>3. f[i - 1] \in V
    BY <2>2
  <2>4. QED
    BY <2>1, <2>3
<1>6. f = [k \in 0 .. m |-> IF k = 0 THEN roots ELSE Kids(f[k - 1])]
  <2> HIDE DEF V, level, m, step, Kids
  <2>1. f[0] = roots
    BY <1>4 DEF Iterates
  <2>2. ASSUME NEW k \in 0 .. m
        PROVE  f[k] = IF k = 0 THEN roots ELSE Kids(f[k - 1])
    <3>1. CASE k = 0
      BY <2>1, <3>1
    <3>2. CASE k # 0
      <4>1. k \in 1 .. m
        BY <1>1, <3>2
      <4>2. QED
        BY <1>5, <4>1, <3>2
    <3>3. QED
      BY <3>1, <3>2
  <2>3. QED
    BY <2>2
<1>7. level = [k \in 0 .. m |-> IF k = 0 THEN roots ELSE Kids(level[k - 1])]
  BY <1>6
<1>8. Tree(h, roots) = UNION {level[k] : k \in 0 .. m}
  BY DEF Tree
<1> HIDE DEF level, step
<1>9. level[0] = roots /\ \A k \in 1 .. m : level[k] = Kids(level[k - 1])
  <2> HIDE DEF Kids, m
  <2>1. level[0] = roots
    BY <1>1, <1>7
  <2>2. ASSUME NEW k \in 1 .. m PROVE level[k] = Kids(level[k - 1])
    <3>1. k \in 0 .. m /\ k # 0
      BY <1>1
    <3>2. QED
      BY <1>7, <3>1
  <2>3. QED
    BY <2>1, <2>2
<1>10. \A k \in 0 .. m : level[k] \in V
  <2> DEFINE Good == {k \in Nat : k =< m => level[k] \in V}
  <2> HIDE DEF V, Kids, m
  <2>1. 0 \in Good
    BY <1>1, <1>9
  <2>2. ASSUME NEW k \in Nat, k \in Good PROVE k + 1 \in Good
    <3>1. SUFFICES ASSUME k + 1 =< m PROVE level[k + 1] \in V
      OBVIOUS
    <3>2. level[k] \in V /\ k + 1 \in 1 .. m /\ (k + 1) - 1 = k
      BY <1>1, <2>2, <3>1
    <3>3. QED
      BY <1>2, <1>9, <3>2
  <2> HIDE DEF Good
  <2>3. \A k \in Nat : k \in Good
    BY <2>1, <2>2, NatSetInduction
  <2>4. QED
    BY <1>1, <2>3 DEF Good
<1>11. ASSUME NEW S, roots \subseteq S,
              \A n \in S \cap DOMAIN h : Range(h[n].kids) \subseteq S
       PROVE  \A k \in 0 .. m : level[k] \subseteq S
  <2> DEFINE Good == {k \in Nat : k =< m => level[k] \subseteq S}
  <2>1. 0 \in Good
    BY <1>1, <1>9, <1>11
  <2>2. ASSUME NEW k \in Nat, k \in Good PROVE k + 1 \in Good
    <3>1. SUFFICES ASSUME k + 1 =< m PROVE level[k + 1] \subseteq S
      OBVIOUS
    <3>2. level[k] \subseteq S /\ k + 1 \in 1 .. m /\ (k + 1) - 1 = k /\ k \in 0 .. m
      BY <1>1, <2>2, <3>1
    <3>3. level[k] \subseteq S \cap DOMAIN h
      BY <1>10, <3>2
    <3>4. level[k + 1] = Kids(level[k])
      BY <1>9, <3>2
    <3>5. QED
      BY <1>11, <3>3, <3>4
  <2> HIDE DEF Good
  <2>3. \A k \in Nat : k \in Good
    BY <2>1, <2>2, NatSetInduction
  <2>4. QED
    BY <1>1, <2>3 DEF Good
<1> DEFINE Upto(k) == UNION {level[j] : j \in 0 .. k}
           Done(k) == Kids(Upto(k)) \subseteq Upto(k)
<1>12. ASSUME NEW k \in 0 .. m PROVE Upto(k) \subseteq DOMAIN h
  <2>1. \A j \in 0 .. k : j \in 0 .. m
    BY <1>1
  <2>2. QED
    BY <1>10, <2>1
<1>13. ASSUME NEW k \in 0 .. m, k + 1 =< m
       PROVE  Upto(k + 1) = Upto(k) \cup level[k + 1] /\ Kids(Upto(k)) \subseteq Upto(k + 1)
  <2>1. 0 .. k + 1 = (0 .. k) \cup {k + 1}
    BY <1>1
  <2>2. Upto(k + 1) = Upto(k) \cup level[k + 1]
    BY <2>1
  <2>3. ASSUME NEW n \in Upto(k) PROVE Range(h[n].kids) \subseteq Upto(k + 1)
    <3>1. PICK j \in 0 .. k : n \in level[j]
      BY <2>3
    <3>2. j + 1 \in 1 .. m /\ (j + 1) - 1 = j /\ j + 1 \in 0 .. k + 1
      BY <1>1, <1>13
    <3>3. level[j + 1] = Kids(level[j])
      BY <1>9, <3>2
    <3>4. Range(h[n].kids) \subseteq level[j + 1]
      BY <3>1, <3>3
    <3>5. QED
      BY <3>2, <3>4
  <2>4. QED
    BY <2>2, <2>3
<1>14. IsFiniteSet(DOMAIN h) /\ Cardinality(DOMAIN h) =< m
  <2>1. IsFiniteSet(Nodes) /\ Cardinality(Nodes) = m
    BY <1>1, FS_Interval DEF Nodes
  <2>2. QED
    BY <2>1, FS_Subset DEF Closed
<1>15. \A k \in 0 .. m : Done(k) \/ Cardinality(Upto(k)) >= k + 1
  <2> DEFINE Good == {k \in Nat : k =< m => Done(k) \/ Cardinality(Upto(k)) >= k + 1}
  <2>1. 0 \in Good
    <3>1. Upto(0) = roots
      <4>1. 0 .. 0 = {0}
        OBVIOUS
      <4>2. QED
        BY <1>9, <4>1
    <3>2. IsFiniteSet(roots) /\ Cardinality(roots) \in Nat
      BY <1>14, FS_Subset, FS_CardinalityType
    <3>3. CASE roots = {}
      <4>1. Done(0)
        BY <3>1, <3>3
      <4>2. QED
        BY <4>1
    <3>4. CASE roots # {}
      <4>1. Cardinality(roots) >= 0 + 1
        BY <3>2, <3>4, FS_EmptySet
      <4>2. Cardinality(Upto(0)) >= 0 + 1
        BY <3>1, <4>1
      <4>3. QED
        BY <4>2
    <3>5. QED
      BY <3>3, <3>4
  <2>2. ASSUME NEW k \in Nat, k \in Good PROVE k + 1 \in Good
    <3>1. SUFFICES ASSUME k + 1 =< m
                   PROVE  Done(k + 1) \/ Cardinality(Upto(k + 1)) >= (k + 1) + 1
      OBVIOUS
    <3>2. k \in 0 .. m /\ k + 1 \in 0 .. m /\ k + 1 \in 1 .. m /\ (k + 1) - 1 = k
      BY <1>1, <3>1
    <3>3. Done(k) \/ Cardinality(Upto(k)) >= k + 1
      BY <2>2, <3>2
    <3>4. /\ Upto(k + 1) = Upto(k) \cup level[k + 1]
          /\ Kids(Upto(k)) \subseteq Upto(k + 1)
          /\ level[k + 1] = Kids(level[k]) /\ level[k] \subseteq Upto(k)
      BY <1>9, <1>13, <3>1, <3>2
    <3>5. CASE Done(k)
      <4>1. Upto(k + 1) = Upto(k)
        BY <3>4, <3>5
      <4> HIDE DEF Upto
      <4>2. Done(k + 1)
        BY <3>5, <4>1
      <4>3. QED
        BY <4>2
    <3>6. CASE ~Done(k)
      <4> HIDE DEF Upto, Kids
      <4>1. PICK n : n \in Kids(Upto(k)) /\ n \notin Upto(k)
        BY <3>6
      <4>2. n \in Upto(k + 1) /\ Upto(k) \subseteq Upto(k + 1)
        BY <3>4, <4>1
      <4>3. /\ IsFiniteSet(Upto(k)) /\ Cardinality(Upto(k)) \in Nat
            /\ IsFiniteSet(Upto(k + 1)) /\ Cardinality(Upto(k + 1)) \in Nat
        BY <1>12, <1>14, <3>2, FS_Subset, FS_CardinalityType
      <4>4. Cardinality(Upto(k) \cup {n}) = Cardinality(Upto(k)) + 1
        BY <4>1, <4>3, FS_AddElement
      <4>5. Cardinality(Upto(k) \cup {n}) =< Cardinality(Upto(k + 1))
        BY <4>2, <4>3, FS_Subset
      <4>6. Cardinality(Upto(k)) >= k + 1
        BY <3>3, <3>6
      <4> DEFINE a == Cardinality(Upto(k))
                 b == Cardinality(Upto(k + 1))
      <4>7. a + 1 =< b /\ a >= k + 1 /\ a \in Nat /\ b \in Nat
        BY <4>3, <4>4, <4>5, <4>6
      <4> HIDE DEF a, b
      <4>8. b >= (k + 1) + 1
        BY <4>7
      <4>9. QED
        BY <4>8 DEF b
    <3>7. QED
      BY <3>5, <3>6
  <2> HIDE DEF Good
  <2>3. \A k \in Nat : k \in Good
    BY <2>1, <2>2, NatSetInduction
  <2> HIDE DEF Done, Upto
  <2>4. QED
    BY <1>1, <2>3 DEF Good
<1>16. Done(m)
  <2> HIDE DEF Upto, Done
  <2>1. m \in 0 .. m
    BY <1>1
  <2>2. Cardinality(Upto(m)) =< Cardinality(DOMAIN h) /\ Cardinality(Upto(m)) \in Nat
        /\ Cardinality(DOMAIN h) \in Nat
    BY <1>12, <1>14, <2>1, FS_Subset, FS_CardinalityType
  <2> DEFINE a == Cardinality(Upto(m))
             b == Cardinality(DOMAIN h)
  <2>3. a =< b /\ b =< m /\ a \in Nat /\ b \in Nat
    BY <1>14, <2>2
  <2> HIDE DEF a, b, m
  <2>4. ~(a >= m + 1)
    BY <1>1, <2>3
  <2>5. QED
    BY <1>15, <2>1, <2>4 DEF a
<1>17. Tree(h, roots) = Upto(m)
  BY <1>8
<1>18. roots \subseteq Upto(m)
  <2>1. 0 \in 0 .. m
    BY <1>1
  <2>2. QED
    BY <1>9, <2>1
<1>19. Upto(m) \subseteq DOMAIN h
  BY <1>1, <1>12
<1>20. \A n \in Upto(m) : Range(h[n].kids) \subseteq Upto(m)
  BY <1>16
<1>21. ASSUME NEW S, roots \subseteq S,
              \A n \in S \cap DOMAIN h : Range(h[n].kids) \subseteq S
       PROVE  Upto(m) \subseteq S
  BY <1>11, <1>21
<1> HIDE DEF Upto, Done, Kids, V
<1>22. QED
  BY <1>17, <1>18, <1>19, <1>20, <1>21

(* The trees of the same roots are the same on two heaps that have the     *)
(* same children there.                                                    *)
LEMMA TreeSame ==
    ASSUME NEW h, NEW h2, Closed(h), Closed(h2), NEW roots, roots \subseteq DOMAIN h,
           \A n \in Tree(h, roots) : n \in DOMAIN h2 /\ h2[n].kids = h[n].kids
    PROVE  Tree(h2, roots) = Tree(h, roots)
<1> DEFINE T == Tree(h, roots)
           T2 == Tree(h2, roots)
<1>1. /\ roots \subseteq T /\ T \subseteq DOMAIN h
      /\ \A n \in T : Range(h[n].kids) \subseteq T
      /\ \A S : /\ roots \subseteq S
                /\ \A n \in S \cap DOMAIN h : Range(h[n].kids) \subseteq S
                => T \subseteq S
  BY TreeFacts
<1>2. roots \subseteq DOMAIN h2
  BY <1>1
<1>3. /\ roots \subseteq T2 /\ T2 \subseteq DOMAIN h2
      /\ \A n \in T2 : Range(h2[n].kids) \subseteq T2
      /\ \A S : /\ roots \subseteq S
                /\ \A n \in S \cap DOMAIN h2 : Range(h2[n].kids) \subseteq S
                => T2 \subseteq S
  BY <1>2, TreeFacts
<1> HIDE DEF T, T2
<1>4. T2 \subseteq T
  <2>1. \A n \in T \cap DOMAIN h2 : Range(h2[n].kids) \subseteq T
    BY <1>1 DEF T
  <2>2. QED
    BY <1>1, <1>3, <2>1
<1>5. T \subseteq T2
  <2>1. \A n \in T2 \cap DOMAIN h : Range(h[n].kids) \subseteq T2
    BY <1>3, <1>4 DEF T
  <2>2. QED
    BY <1>1, <1>3, <2>1
<1>6. QED
  BY <1>4, <1>5 DEF T, T2

(* Nodes of a tree have their trees in it. *)
LEMMA TreeWithin ==
    ASSUME NEW h, Closed(h), NEW roots, roots \subseteq DOMAIN h,
           NEW some, some \subseteq Tree(h, roots)
    PROVE  some \subseteq DOMAIN h /\ Tree(h, some) \subseteq Tree(h, roots)
<1> DEFINE T == Tree(h, roots)
<1>1. T \subseteq DOMAIN h /\ \A n \in T : Range(h[n].kids) \subseteq T
  BY TreeFacts
<1>2. some \subseteq DOMAIN h
  BY <1>1
<1>3. \A S : /\ some \subseteq S
             /\ \A n \in S \cap DOMAIN h : Range(h[n].kids) \subseteq S
             => Tree(h, some) \subseteq S
  BY <1>2, TreeFacts
<1> HIDE DEF T
<1>4. \A n \in T \cap DOMAIN h : Range(h[n].kids) \subseteq T
  BY <1>1
<1>5. some \subseteq T
  BY DEF T
<1>6. Tree(h, some) \subseteq T
  BY <1>3, <1>4, <1>5
<1>7. QED
  BY <1>2, <1>6 DEF T

(* A node of a tree is a root or the child of a node of the tree. *)
LEMMA TreeInner ==
    ASSUME NEW h, Closed(h), NEW roots, roots \subseteq DOMAIN h,
           NEW n \in Tree(h, roots)
    PROVE  n \in roots \/ \E m \in Tree(h, roots) : n \in Range(h[m].kids)
<1> DEFINE T == Tree(h, roots)
           S == {c \in T : c \in roots \/ \E m \in T : c \in Range(h[m].kids)}
<1>1. /\ roots \subseteq T /\ T \subseteq DOMAIN h
      /\ \A c \in T : Range(h[c].kids) \subseteq T
  BY TreeFacts
<1>2. \A C : (roots \subseteq C /\ \A c \in C \cap DOMAIN h : Range(h[c].kids) \subseteq C)
               => T \subseteq C
  <2> HIDE DEF S
  <2>1. QED
    BY TreeFacts
<1> HIDE DEF T
<1>3. roots \subseteq S /\ \A c \in S \cap DOMAIN h : Range(h[c].kids) \subseteq S
  BY <1>1
<1> HIDE DEF S
<1>4. T \subseteq S
  BY <1>2, <1>3
<1>5. QED
  BY <1>4 DEF S, T

(* A node outside of some trees, with a child that is no root and has one  *)
(* parent: the child is outside too.                                       *)
LEMMA TreeOutside ==
    ASSUME NEW h, Closed(h), OneParent(h), NEW roots, roots \subseteq DOMAIN h,
           \A n \in roots : NoParent(h, n),
           NEW m \in DOMAIN h, m \notin Tree(h, roots), NEW n \in Range(h[m].kids)
    PROVE  n \notin Tree(h, roots)
<1>1. SUFFICES ASSUME n \in Tree(h, roots) PROVE FALSE
  OBVIOUS
<1>2. n \notin roots
  BY DEF NoParent
<1>3. PICK a \in Tree(h, roots) : n \in Range(h[a].kids)
  BY <1>1, <1>2, TreeInner
<1>4. a \in DOMAIN h
  BY TreeFacts
<1>5. PICK j \in DOMAIN h[m].kids : n = h[m].kids[j]
  BY DEF Range
<1>6. PICK k \in DOMAIN h[a].kids : n = h[a].kids[k]
  BY <1>3 DEF Range
<1>7. a = m
  BY <1>4, <1>5, <1>6 DEF OneParent
<1>8. QED
  BY <1>3, <1>7

(* What is kept of a heap is a heap, with the same nodes. *)
LEMMA CollectedFacts ==
    ASSUME NEW h, HeapOK(h), NEW roots, roots \ {0} \subseteq DOMAIN h
    PROVE  LET h2 == Collected(h, roots)
           IN  /\ DOMAIN h2 = Tree(h, roots \ {0}) /\ DOMAIN h2 \subseteq DOMAIN h
               /\ roots \ {0} \subseteq DOMAIN h2
               /\ \A n \in DOMAIN h2 : /\ h2[n] = h[n]
                                       /\ Range(h[n].kids) \subseteq DOMAIN h2
               /\ HeapOK(h2)
               /\ \A n \in DOMAIN h2 : NoParent(h, n) => NoParent(h2, n)
<1> DEFINE h2 == Collected(h, roots)
           T == Tree(h, roots \ {0})
<1>1. Closed(h) /\ OneParent(h) /\ \A n \in DOMAIN h : h[n] \in PathNodes /\ KidsRuled(h, n)
  BY DEF HeapOK
<1>2. /\ roots \ {0} \subseteq T /\ T \subseteq DOMAIN h
      /\ \A n \in T : Range(h[n].kids) \subseteq T
  BY <1>1, TreeFacts
<1> HIDE DEF T
<1>3. DOMAIN h2 = T /\ \A n \in T : h2[n] = h[n]
  BY DEF Collected, T
<1> HIDE DEF h2
<1>4. Closed(h2)
  BY <1>1, <1>2, <1>3 DEF Closed
<1>5. OneParent(h2)
  BY <1>1, <1>2, <1>3 DEF OneParent
<1>6. ASSUME NEW n \in T PROVE KidsRuled(h2, n)
  <2>1. KidsRuled(h, n)
    BY <1>1, <1>2
  <2>2. \A p \in DOMAIN h[n].kids : h2[h[n].kids[p]] = h[h[n].kids[p]]
    BY <1>2, <1>3 DEF Range
  <2>3. QED
    BY <1>3, <2>1, <2>2 DEF KidsRuled
<1>7. HeapOK(h2)
  BY <1>1, <1>2, <1>3, <1>4, <1>5, <1>6 DEF HeapOK
<1>8. \A n \in T : NoParent(h, n) => NoParent(h2, n)
  BY <1>2, <1>3 DEF NoParent
<1>9. QED
  BY <1>2, <1>3, <1>7, <1>8 DEF h2, T

-----------------------------------------------------------------------------
(* The symbols of a rule.                                                  *)

(* The places of the symbols of a rule are items of it, and NoRule is none. *)
LEMMA RuleFacts ==
    ASSUME NEW r \in Rules
    PROVE  /\ Items(r) \in Seq(STRING)
           /\ SymbolsOf(r) \subseteq 1 .. Len(Items(r))
           /\ \A k \in SymbolsOf(r) : Items(r)[k] \in Names
           /\ r # NoRule
<1>1. PICK b \in DOMAIN Productions : \E c \in DOMAIN Productions[b].rules : r = <<b, c>>
  BY DEF Rules
<1> PICK c \in DOMAIN Productions[b].rules : r = <<b, c>>
  BY <1>1
<1>2. Productions[b].rules \in Seq(Seq(STRING)) /\ b # 0
  <2> DEFINE P == [name : STRING, rules : Seq(Seq(STRING))]
  <2>1. Productions \in Seq(P)
    BY GrammarAssumption
  <2>2. Productions[b] \in P /\ b # 0
    <3> HIDE DEF P
    <3>1. QED
      BY <2>1
  <2>3. QED
    BY <2>2
<1>3. Items(r) = Productions[b].rules[c]
  BY <1>1 DEF Items
<1>4. Items(r) \in Seq(STRING)
  BY <1>2, <1>3
<1>5. SymbolsOf(r) \subseteq 1 .. Len(Items(r))
  BY <1>4 DEF SymbolsOf
<1>6. \A k \in SymbolsOf(r) : Items(r)[k] \in Names
  BY DEF SymbolsOf, Symbols
<1>7. r # NoRule
  BY <1>1, <1>2 DEF NoRule
<1>8. QED
  BY <1>4, <1>5, <1>6, <1>7

(* Every part of the symbols of a rule is finite. *)
LEMMA PartFacts ==
    ASSUME NEW r \in Rules, NEW A, NEW B, A \subseteq B, B \subseteq SymbolsOf(r)
    PROVE  /\ IsFiniteSet(A) /\ IsFiniteSet(B)
           /\ Cardinality(A) \in Nat /\ Cardinality(B) \in Nat
           /\ Cardinality(A) =< Cardinality(B)
           /\ A # B => Cardinality(A) < Cardinality(B)
<1>1. SymbolsOf(r) \subseteq 1 .. Len(Items(r)) /\ Len(Items(r)) \in Nat
  BY RuleFacts
<1>2. IsFiniteSet(1 .. Len(Items(r)))
  BY <1>1, FS_Interval
<1>3. IsFiniteSet(B)
  BY <1>1, <1>2, FS_Subset
<1>4. QED
  BY <1>3, FS_Subset, FS_CardinalityType

(* Counting the symbols of a rule item by item. *)
LEMMA BelowStep ==
    ASSUME NEW r \in Rules, NEW i \in Nat
    PROVE  /\ Below(r, i) \in Nat
           /\ i \in SymbolsOf(r) =>
                 /\ Below(r, i + 1) = Below(r, i) + 1
                 /\ Place(SymbolsOf(r), i) = Below(r, i) + 1
           /\ i \notin SymbolsOf(r) => Below(r, i + 1) = Below(r, i)
           /\ i =< 1 => Below(r, i) = 0
           /\ i > Len(Items(r)) => Below(r, i) = Cardinality(SymbolsOf(r))
<1> DEFINE S == SymbolsOf(r)
           A == {k \in S : k < i}
           B == {k \in S : k < i + 1}
<1>1. S \subseteq 1 .. Len(Items(r)) /\ Len(Items(r)) \in Nat
  BY RuleFacts
<1>2. IsFiniteSet(A) /\ Cardinality(A) \in Nat
  BY PartFacts
<1>3. ASSUME i \in S
      PROVE  Cardinality(B) = Cardinality(A) + 1
  <2>1. B = A \cup {i} /\ i \notin A
    BY <1>1, <1>3
  <2> HIDE DEF A, B
  <2>2. QED
    BY <1>2, <2>1, FS_AddElement
<1>4. {m \in S : m =< i} = B
  BY <1>1
<1>5. i \notin S => B = A
  BY <1>1
<1>6. ASSUME i =< 1 PROVE Cardinality(A) = 0
  <2>1. A = {}
    BY <1>1, <1>6
  <2>2. QED
    BY <2>1, FS_EmptySet
<1>7. i > Len(Items(r)) => A = S
  BY <1>1
<1>8. Below(r, i) = Cardinality(A) /\ Below(r, i + 1) = Cardinality(B)
  BY DEF Below
<1>9. Place(S, i) = Cardinality(B)
  BY <1>4 DEF Place
<1> HIDE DEF A, B
<1>10. QED
  BY <1>2, <1>3, <1>5, <1>6, <1>7, <1>8, <1>9

(* The places of the symbols of a rule are 1, 2, ... in order.             *)
LEMMA PlaceFacts ==
    ASSUME NEW r \in Rules, NEW k \in SymbolsOf(r)
    PROVE  /\ Place(SymbolsOf(r), k) \in 1 .. Cardinality(SymbolsOf(r))
           /\ \A l \in SymbolsOf(r) :
                Place(SymbolsOf(r), k) = Place(SymbolsOf(r), l) => k = l
<1> DEFINE S == SymbolsOf(r)
           P(l) == {m \in S : m =< l}
<1>1. S \subseteq Nat
  BY RuleFacts
<1>2. \A l : Place(S, l) = Cardinality(P(l))
  BY DEF Place
<1>3. Cardinality(P(k)) \in Nat /\ Cardinality(S) \in Nat /\ Cardinality(P(k)) =< Cardinality(S)
  BY PartFacts
<1>4. Cardinality(P(k)) # 0
  <2>1. IsFiniteSet(P(k)) /\ k \in P(k)
    BY <1>1, PartFacts
  <2>2. QED
    BY <2>1, FS_EmptySet
<1>5. ASSUME NEW l \in S, NEW n \in S, l < n
      PROVE  Cardinality(P(l)) < Cardinality(P(n)) /\ Cardinality(P(l)) \in Nat
             /\ Cardinality(P(n)) \in Nat
  <2>1. P(l) \subseteq P(n) /\ n \in P(n) /\ n \notin P(l) /\ P(n) \subseteq S
    BY <1>1, <1>5
  <2> HIDE DEF P
  <2>2. QED
    BY <2>1, PartFacts
<1>6. ASSUME NEW l \in S, Cardinality(P(k)) = Cardinality(P(l)) PROVE k = l
  <2> HIDE DEF P, S
  <2>1. ~(k < l) /\ ~(l < k)
    BY <1>5, <1>6 DEF S
  <2>2. QED
    BY <1>1, <2>1 DEF S
<1> HIDE DEF P
<1>7. QED
  BY <1>2, <1>3, <1>4, <1>6

-----------------------------------------------------------------------------
(* The changes that GenerateMySQL makes to the heap.                       *)

(* The parts of a node have their types, and its children are on the heap.  *)
LEMMA NodeFacts ==
    ASSUME NEW h, HeapOK(h), NEW n \in DOMAIN h
    PROVE  /\ h[n] \in PathNodes /\ n \in Nodes
           /\ h[n].rule \in Rules \cup {NoRule} /\ h[n].kids \in Seq(Nodes)
           /\ Range(h[n].kids) \subseteq DOMAIN h
           /\ \A p \in DOMAIN h[n].kids : h[n].kids[p] \in DOMAIN h
<1>1. h[n] \in PathNodes /\ n \in Nodes /\ Range(h[n].kids) \subseteq DOMAIN h
  BY DEF HeapOK, Closed
<1>2. h[n].rule \in Rules \cup {NoRule} /\ h[n].kids \in Seq(Nodes)
  BY <1>1 DEF PathNodes
<1>3. QED
  BY <1>1, <1>2 DEF Range

(* A new node without rule and children. *)
LEMMA AllocatedFacts ==
    ASSUME HeapOK(heap), NEW n \in Nodes, n \notin DOMAIN heap,
           NEW node \in PathNodes, node.rule = NoRule, node.kids = <<>>
    PROVE  LET h2 == Allocated(n, node)
           IN  /\ DOMAIN h2 = DOMAIN heap \cup {n}
               /\ h2[n] = node /\ \A m \in DOMAIN heap : h2[m] = heap[m]
               /\ HeapOK(h2)
               /\ NoParent(h2, n) /\ \A m : NoParent(heap, m) => NoParent(h2, m)
<1> DEFINE h2 == Allocated(n, node)
<1>1. /\ DOMAIN h2 = DOMAIN heap \cup {n}
      /\ h2[n] = node /\ \A m \in DOMAIN heap : h2[m] = heap[m]
  BY DEF Allocated
<1> HIDE DEF h2
<1>2. DOMAIN node.kids = {} /\ Range(node.kids) = {}
  BY DEF Range
<1>3. Closed(heap) /\ OneParent(heap) /\ \A m \in DOMAIN heap : heap[m] \in PathNodes /\ KidsRuled(heap, m)
  BY DEF HeapOK
<1>4. Closed(h2)
  BY <1>1, <1>2, <1>3 DEF Closed
<1>5. OneParent(h2)
  BY <1>1, <1>2, <1>3 DEF OneParent
<1>6. \A m \in DOMAIN h2 : h2[m] \in PathNodes
  BY <1>1, <1>3
<1>7. ASSUME NEW m \in DOMAIN heap PROVE KidsRuled(h2, m)
  <2>1. \A p \in DOMAIN heap[m].kids : h2[heap[m].kids[p]] = heap[heap[m].kids[p]]
    BY <1>1, <1>3 DEF Closed, Range
  <2>2. QED
    BY <1>1, <1>3, <2>1 DEF KidsRuled
<1>8. KidsRuled(h2, n)
  BY <1>1, <1>2 DEF KidsRuled
<1>9. HeapOK(h2)
  BY <1>1, <1>4, <1>5, <1>6, <1>7, <1>8 DEF HeapOK
<1>10. NoParent(h2, n)
  BY <1>1, <1>2, <1>3 DEF NoParent, Closed
<1>11. \A m : NoParent(heap, m) => NoParent(h2, m)
  BY <1>1, <1>2 DEF NoParent
<1>12. QED
  BY <1>1, <1>9, <1>10, <1>11 DEF h2

(* One more child, without rule and without parent. *)
Grown(h, n, c) == [h EXCEPT ![n].kids = Append(@, c)]

(* A child appended to n keeps a heap well formed and changes only n.       *)
LEMMA AppendedFacts ==
    ASSUME NEW h, HeapOK(h), NEW n \in DOMAIN h, NEW c \in DOMAIN h,
           NoParent(h, c), h[c].rule = NoRule
    PROVE  LET h2 == Grown(h, n, c)
           IN  /\ DOMAIN h2 = DOMAIN h
               /\ h2[n].rule = h[n].rule /\ h2[n].kids = Append(h[n].kids, c)
               /\ \A m \in DOMAIN h \ {n} : h2[m] = h[m]
               /\ HeapOK(h2)
               /\ \A m : NoParent(h, m) /\ m # c => NoParent(h2, m)
<1> DEFINE h2 == Grown(h, n, c)
           kids == h[n].kids
           kids2 == Append(kids, c)
<1>1. Closed(h) /\ OneParent(h) /\ \A m \in DOMAIN h : h[m] \in PathNodes /\ KidsRuled(h, m)
  BY DEF HeapOK
<1>2. kids \in Seq(Nodes) /\ c \in Nodes /\ \A m \in DOMAIN h : Range(h[m].kids) \subseteq DOMAIN h
  BY NodeFacts
<1>3. /\ DOMAIN h2 = DOMAIN h /\ h2[n] = [h[n] EXCEPT !.kids = kids2]
      /\ \A m \in DOMAIN h \ {n} : h2[m] = h[m]
  BY DEF Grown
<1>4. h2[n].rule = h[n].rule /\ h2[n].kids = kids2 /\ h2[n] \in PathNodes
  <2>1. kids2 \in Seq(Nodes)
    BY <1>2
  <2>2. h[n] \in PathNodes
    BY <1>1
  <2> HIDE DEF kids2, h2
  <2>3. QED
    BY <1>3, <2>1, <2>2 DEF PathNodes
<1>5. /\ DOMAIN kids2 = DOMAIN kids \cup {Len(kids) + 1}
      /\ kids2[Len(kids) + 1] = c /\ \A p \in DOMAIN kids : kids2[p] = kids[p]
      /\ Len(kids) + 1 \notin DOMAIN kids
  BY <1>2
<1> DEFINE last == Len(kids) + 1
<1> HIDE DEF h2, kids2, kids, last
<1>6. Range(kids2) = Range(kids) \cup {c}
  BY <1>5 DEF Range, last
<1>7. \A m \in DOMAIN h : \A p \in DOMAIN h[m].kids : h[m].kids[p] # c
  BY DEF NoParent, Range
<1>8. Closed(h2)
  BY <1>1, <1>2, <1>3, <1>4, <1>6 DEF Closed, kids
<1>9. OneParent(h2)
  <2>1. \A a, b \in DOMAIN h : \A j \in DOMAIN h[a].kids, k \in DOMAIN h[b].kids :
           h[a].kids[j] = h[b].kids[k] => a = b /\ j = k
    BY <1>1 DEF OneParent
  <2>2. SUFFICES ASSUME NEW a \in DOMAIN h, NEW b \in DOMAIN h,
                        NEW j \in DOMAIN h2[a].kids, NEW k \in DOMAIN h2[b].kids,
                        h2[a].kids[j] = h2[b].kids[k]
                 PROVE  a = b /\ j = k
    BY <1>3 DEF OneParent
  <2>3. ASSUME NEW m \in DOMAIN h, NEW i \in DOMAIN h2[m].kids
        PROVE  \/ i \in DOMAIN h[m].kids /\ h2[m].kids[i] = h[m].kids[i]
               \/ m = n /\ i = last /\ h2[m].kids[i] = c
    BY <1>3, <1>4, <1>5 DEF last, kids
  <2>4. CASE h2[a].kids[j] = c
    <3>1. a = n /\ j = last
      BY <1>7, <2>3, <2>4
    <3>2. b = n /\ k = last
      BY <1>7, <2>2, <2>3, <2>4
    <3>3. QED
      BY <3>1, <3>2
  <2>5. CASE h2[a].kids[j] # c
    BY <2>1, <2>2, <2>3, <2>5
  <2>6. QED
    BY <2>4, <2>5
<1>10. \A m \in DOMAIN h : h2[m].rule = h[m].rule
  BY <1>3, <1>4
<1>11. ASSUME NEW m \in DOMAIN h PROVE KidsRuled(h2, m)
  <2>1. KidsRuled(h, m)
    BY <1>1
  <2>2. SUFFICES ASSUME h[m].rule # NoRule, NEW k \in SymbolsOf(h[m].rule),
                        Place(SymbolsOf(h[m].rule), k) \in DOMAIN h2[m].kids
                 PROVE  h2[h2[m].kids[Place(SymbolsOf(h[m].rule), k)]].rule
                            \in RulesOf(Items(h[m].rule)[k]) \cup {NoRule}
    BY <1>10 DEF KidsRuled
  <2> DEFINE p == Place(SymbolsOf(h[m].rule), k)
  <2>3. p \in DOMAIN h[m].kids => h[h[m].kids[p]].rule \in RulesOf(Items(h[m].rule)[k]) \cup {NoRule}
    BY <2>1, <2>2 DEF KidsRuled
  <2> HIDE DEF p
  <2>4. \/ p \in DOMAIN h[m].kids /\ h2[m].kids[p] = h[m].kids[p]
        \/ h2[m].kids[p] = c
    BY <1>3, <1>4, <1>5, <2>2 DEF p, kids
  <2>5. CASE p \in DOMAIN h[m].kids /\ h2[m].kids[p] = h[m].kids[p]
    <3>1. h[m].kids[p] \in DOMAIN h
      BY <2>5, NodeFacts
    <3>2. QED
      BY <1>10, <2>3, <2>5, <3>1 DEF p
  <2>6. CASE h2[m].kids[p] = c
    BY <1>10, <2>6 DEF p
  <2>7. QED
    BY <2>4, <2>5, <2>6
<1>12. HeapOK(h2)
  <2>1. \A m \in DOMAIN h2 : h2[m] \in PathNodes
    BY <1>1, <1>3, <1>4
  <2>2. QED
    BY <1>3, <1>8, <1>9, <1>11, <2>1 DEF HeapOK
<1>13. ASSUME NEW m, NoParent(h, m), m # c PROVE NoParent(h2, m)
  BY <1>3, <1>4, <1>6, <1>13 DEF NoParent, kids
<1>14. QED
  BY <1>3, <1>4, <1>12, <1>13 DEF h2, kids2, kids

(* r is a rule of each symbol that n is the child for. *)
Fits(h, n, r) ==
    \A m \in DOMAIN h : h[m].rule # NoRule =>
        \A k \in SymbolsOf(h[m].rule) :
            LET p == Place(SymbolsOf(h[m].rule), k)
            IN  p \in DOMAIN h[m].kids /\ h[m].kids[p] = n =>
                    r \in RulesOf(Items(h[m].rule)[k]) \cup {NoRule}

(* Another rule, and no children. *)
Reset(h, n, r) == [h EXCEPT ![n].rule = r, ![n].kids = <<>>]

(* Resetting n keeps a heap well formed and changes only n.                 *)
LEMMA ResetFacts ==
    ASSUME NEW h, HeapOK(h), NEW n \in DOMAIN h, NEW r \in Rules \cup {NoRule},
           Fits(h, n, r)
    PROVE  LET h2 == Reset(h, n, r)
           IN  /\ DOMAIN h2 = DOMAIN h
               /\ h2[n].rule = r /\ h2[n].kids = <<>> /\ h2[n].fav = h[n].fav
               /\ \A m \in DOMAIN h \ {n} : h2[m] = h[m]
               /\ HeapOK(h2)
               /\ \A m : NoParent(h, m) => NoParent(h2, m)
<1> DEFINE h2 == Reset(h, n, r)
<1>1. Closed(h) /\ OneParent(h) /\ \A m \in DOMAIN h : h[m] \in PathNodes /\ KidsRuled(h, m)
  BY DEF HeapOK
<1>2. /\ DOMAIN h2 = DOMAIN h /\ h2[n] = [h[n] EXCEPT !.rule = r, !.kids = <<>>]
      /\ \A m \in DOMAIN h \ {n} : h2[m] = h[m]
  BY DEF Reset
<1>3. /\ h2[n].rule = r /\ h2[n].kids = <<>> /\ h2[n].fav = h[n].fav
      /\ h2[n] \in PathNodes
  <2>1. h[n] \in PathNodes
    BY <1>1
  <2>2. <<>> \in Seq(Nodes)
    OBVIOUS
  <2> HIDE DEF h2
  <2>3. QED
    BY <1>2, <2>1, <2>2 DEF PathNodes
<1> HIDE DEF h2
<1>4. DOMAIN h2[n].kids = {} /\ Range(h2[n].kids) = {}
  BY <1>3 DEF Range
<1>5. Closed(h2)
  BY <1>1, <1>2, <1>4 DEF Closed
<1>6. OneParent(h2)
  <2>1. SUFFICES ASSUME NEW a \in DOMAIN h, NEW b \in DOMAIN h,
                        NEW j \in DOMAIN h2[a].kids, NEW k \in DOMAIN h2[b].kids,
                        h2[a].kids[j] = h2[b].kids[k]
                 PROVE  a = b /\ j = k
    BY <1>2 DEF OneParent
  <2>2. a # n /\ b # n
    BY <1>4
  <2>3. h2[a] = h[a] /\ h2[b] = h[b]
    BY <1>2, <2>2
  <2>4. QED
    BY <1>1, <2>1, <2>3 DEF OneParent
<1>7. ASSUME NEW m \in DOMAIN h, m # n PROVE KidsRuled(h2, m)
  <2>1. KidsRuled(h, m) /\ h2[m] = h[m]
    BY <1>1, <1>2, <1>7
  <2>2. \A p \in DOMAIN h[m].kids : h[m].kids[p] \in DOMAIN h
    BY NodeFacts
  <2>3. SUFFICES ASSUME h[m].rule # NoRule, NEW k \in SymbolsOf(h[m].rule),
                        Place(SymbolsOf(h[m].rule), k) \in DOMAIN h[m].kids
                 PROVE  h2[h[m].kids[Place(SymbolsOf(h[m].rule), k)]].rule
                            \in RulesOf(Items(h[m].rule)[k]) \cup {NoRule}
    BY <2>1 DEF KidsRuled
  <2> DEFINE p == Place(SymbolsOf(h[m].rule), k)
  <2>4. h[h[m].kids[p]].rule \in RulesOf(Items(h[m].rule)[k]) \cup {NoRule}
    BY <2>1, <2>3 DEF KidsRuled
  <2>5. h[m].kids[p] = n => r \in RulesOf(Items(h[m].rule)[k]) \cup {NoRule}
    BY <2>3 DEF Fits
  <2> HIDE DEF p
  <2>6. CASE h[m].kids[p] = n
    BY <1>3, <2>5, <2>6 DEF p
  <2>7. CASE h[m].kids[p] # n
    BY <1>2, <2>2, <2>3, <2>4, <2>7 DEF p
  <2>8. QED
    BY <2>6, <2>7
<1>8. KidsRuled(h2, n)
  BY <1>4 DEF KidsRuled
<1>9. HeapOK(h2)
  <2>1. \A m \in DOMAIN h2 : h2[m] \in PathNodes
    BY <1>1, <1>2, <1>3
  <2>2. \A m \in DOMAIN h2 : KidsRuled(h2, m)
    BY <1>2, <1>7, <1>8
  <2>3. QED
    BY <1>5, <1>6, <2>1, <2>2 DEF HeapOK
<1>10. ASSUME NEW m, NoParent(h, m) PROVE NoParent(h2, m)
  BY <1>2, <1>4, <1>10 DEF NoParent
<1>11. QED
  BY <1>2, <1>3, <1>9, <1>10 DEF h2

(* If there is room, the nodes of a copy are distinct and new. *)
LEMMA NewNodesFacts ==
    ASSUME HeapOK(heap), NEW seed \in DOMAIN heap,
           Cardinality(Tree(heap, {seed})) =< Cardinality(Free)
    PROVE  /\ NewNodes(seed) \in [Tree(heap, {seed}) -> Free]
           /\ IsInjective(NewNodes(seed))
<1> DEFINE T == Tree(heap, {seed})
           t == Cardinality(T)
           f == Cardinality(Free)
<1>1. T \subseteq Nodes
  BY TreeFacts DEF HeapOK, Closed
<1>2. IsFiniteSet(Nodes)
  BY BoundAssumption, FS_Interval DEF Nodes
<1>3. IsFiniteSet(T) /\ IsFiniteSet(Free)
  BY <1>1, <1>2, FS_Subset DEF Free
<1> HIDE DEF T, t, f
<1>4. t \in Nat /\ f \in Nat /\ t =< f
  BY <1>3, FS_CardinalityType DEF T, t, f
<1>5. PICK a : a \in Bijection(1 .. t, T)
  BY <1>3, FS_CardinalityType, Zenon DEF ExistsBijection, t
<1>6. PICK b : b \in Bijection(1 .. f, Free)
  BY <1>3, FS_CardinalityType, Zenon DEF ExistsBijection, f
<1>7. /\ a \in [1 .. t -> T] /\ \A i, j \in 1 .. t : a[i] = a[j] => i = j
      /\ \A n \in T : \E i \in 1 .. t : a[i] = n
  BY <1>5 DEF Bijection, Injection, Surjection, IsInjective
<1>8. b \in [1 .. f -> Free] /\ \A i, j \in 1 .. f : b[i] = b[j] => i = j
  BY <1>6 DEF Bijection, Injection, Surjection, IsInjective
<1> DEFINE place(n) == CHOOSE i \in 1 .. t : a[i] = n
           copy == [n \in T |-> b[place(n)]]
<1>9. \A n \in T : place(n) \in 1 .. t /\ a[place(n)] = n
  BY <1>7
<1> HIDE DEF place
<1>10. \A n \in T : place(n) \in 1 .. f
  BY <1>4, <1>9
<1>11. copy \in [T -> Free]
  BY <1>8, <1>10
<1>12. ASSUME NEW m \in T, NEW n \in T, copy[m] = copy[n] PROVE m = n
  <2>1. b[place(m)] = b[place(n)]
    BY <1>12
  <2>2. place(m) = place(n)
    BY <1>8, <1>10, <2>1
  <2>3. QED
    BY <1>9, <2>2
<1>13. IsInjective(copy)
  BY <1>12 DEF IsInjective
<1> HIDE DEF copy
<1>14. \E c \in [T -> Free] : IsInjective(c)
  BY <1>11, <1>13
<1>15. QED
  BY <1>14 DEF NewNodes, T

(* A copy is a tree of its own on the larger heap. *)
LEMMA DeepCopyFacts ==
    ASSUME HeapOK(heap), NEW seed \in DOMAIN heap, NoParent(heap, seed),
           NEW copy \in [Tree(heap, {seed}) -> Free], IsInjective(copy)
    PROVE  LET D == DeepCopy(copy)
           IN  /\ DOMAIN D = DOMAIN heap \cup Range(copy)
               /\ \A m \in DOMAIN heap : D[m] = heap[m]
               /\ \A n \in Tree(heap, {seed}) :
                     /\ D[copy[n]].rule = heap[n].rule
                     /\ Len(D[copy[n]].kids) = Len(heap[n].kids)
               /\ HeapOK(D)
               /\ \A m \in DOMAIN heap : NoParent(heap, m) => NoParent(D, m)
               /\ NoParent(D, copy[seed]) /\ seed \in Tree(heap, {seed})
               /\ copy[seed] \in Tree(D, {copy[seed]})
               /\ Tree(D, {copy[seed]}) \subseteq Range(copy)
               /\ Range(copy) \cap DOMAIN heap = {} /\ Range(copy) \subseteq Nodes
<1> DEFINE D == DeepCopy(copy)
           T == Tree(heap, {seed})
<1>1. Closed(heap) /\ OneParent(heap)
      /\ \A m \in DOMAIN heap : heap[m] \in PathNodes /\ KidsRuled(heap, m)
  BY DEF HeapOK
<1>2. seed \in T /\ T \subseteq DOMAIN heap /\ \A n \in T : Range(heap[n].kids) \subseteq T
  BY <1>1, TreeFacts
<1> HIDE DEF T
<1>3. /\ copy \in [T -> Free] /\ DOMAIN copy = T
      /\ \A m, n \in T : copy[m] = copy[n] => m = n
  BY DEF IsInjective, T
<1>4. Range(copy) \cap DOMAIN heap = {} /\ Range(copy) \subseteq Nodes
  <2>1. \A n \in DOMAIN copy : copy[n] \in Nodes /\ copy[n] \notin DOMAIN heap
    BY <1>3 DEF Free
  <2>2. QED
    BY <2>1 DEF Range
<1>5. \A m \in Range(copy) : \E n \in T : copy[n] = m
  BY <1>3 DEF Range
<1>6. DOMAIN D = DOMAIN heap \cup Range(copy) /\ \A m \in DOMAIN heap : D[m] = heap[m]
  BY DEF DeepCopy
<1>7. ASSUME NEW n \in T
      PROVE  D[copy[n]] = [heap[n] EXCEPT !.kids = [k \in DOMAIN @ |-> copy[@[k]]]]
  <2>1. (CHOOSE a \in DOMAIN copy : copy[a] = copy[n]) = n
    <3> DEFINE src == CHOOSE a \in DOMAIN copy : copy[a] = copy[n]
    <3>1. src \in DOMAIN copy /\ copy[src] = copy[n]
      BY <1>3
    <3> HIDE DEF src
    <3>2. src = n
      BY <1>3, <3>1
    <3>3. QED
      BY <3>2 DEF src
  <2>2. copy[n] \in Range(copy) /\ copy[n] \notin DOMAIN heap
    BY <1>3, <1>4 DEF Range
  <2> DEFINE src(m) == CHOOSE a \in DOMAIN copy : copy[a] = m
             node(m) == [heap[src(m)] EXCEPT !.kids = [k \in DOMAIN @ |-> copy[@[k]]]]
  <2>3. D = [m \in DOMAIN heap \cup Range(copy) |->
                 IF m \in DOMAIN heap THEN heap[m] ELSE node(m)]
    BY DEF DeepCopy
  <2>4. src(copy[n]) = n
    BY <2>1
  <2> HIDE DEF D, node
  <2>5. D[copy[n]] = node(copy[n])
    BY <2>2, <2>3
  <2> HIDE DEF src
  <2>6. node(copy[n]) = [heap[n] EXCEPT !.kids = [k \in DOMAIN @ |-> copy[@[k]]]]
    BY <2>4 DEF node
  <2>7. QED
    BY <2>5, <2>6
<1> DEFINE kids(n) == [k \in DOMAIN heap[n].kids |-> copy[heap[n].kids[k]]]
<1>8. ASSUME NEW n \in T
      PROVE  /\ D[copy[n]].rule = heap[n].rule /\ D[copy[n]].kids = kids(n)
             /\ D[copy[n]] \in PathNodes
             /\ DOMAIN kids(n) = DOMAIN heap[n].kids
             /\ \A k \in DOMAIN heap[n].kids :
                   /\ heap[n].kids[k] \in T
                   /\ kids(n)[k] = copy[heap[n].kids[k]] /\ kids(n)[k] \in Range(copy)
             /\ Len(kids(n)) = Len(heap[n].kids)
  <2>1. heap[n] \in PathNodes
    BY <1>1, <1>2
  <2>2. heap[n].kids \in Seq(Nodes)
    BY <2>1 DEF PathNodes
  <2>3. \A k \in DOMAIN heap[n].kids : heap[n].kids[k] \in T
    BY <1>2 DEF Range
  <2>4. \A k \in DOMAIN heap[n].kids : kids(n)[k] \in Nodes /\ kids(n)[k] \in Range(copy)
    BY <1>3, <1>4, <2>3 DEF Range
  <2>5. DOMAIN heap[n].kids = 1 .. Len(heap[n].kids) /\ Len(heap[n].kids) \in Nat
    BY <2>2
  <2>6. kids(n) \in Seq(Nodes) /\ Len(kids(n)) = Len(heap[n].kids)
    <3> DEFINE L == Len(heap[n].kids)
    <3>1. kids(n) \in [1 .. L -> Nodes]
      BY <2>4, <2>5
    <3> HIDE DEF kids, L
    <3>2. QED
      BY <2>5, <3>1 DEF L
  <2>7. D[copy[n]] = [heap[n] EXCEPT !.kids = kids(n)]
    BY <1>7
  <2> HIDE DEF kids, D
  <2>8. D[copy[n]].rule = heap[n].rule /\ D[copy[n]].kids = kids(n) /\ D[copy[n]] \in PathNodes
    BY <2>1, <2>6, <2>7 DEF PathNodes
  <2>9. QED
    BY <2>3, <2>4, <2>6, <2>8 DEF kids
<1> HIDE DEF D, kids
<1>9. \A n \in T : Range(D[copy[n]].kids) \subseteq Range(copy)
  <2>1. ASSUME NEW n \in T, NEW k \in DOMAIN D[copy[n]].kids
        PROVE  D[copy[n]].kids[k] \in Range(copy)
    BY <1>8
  <2> HIDE DEF T
  <2>2. ASSUME NEW f, \A k \in DOMAIN f : f[k] \in Range(copy) PROVE Range(f) \subseteq Range(copy)
    BY <2>2 DEF Range
  <2>3. QED
    BY <2>1, <2>2
<1>10. Closed(D)
  BY <1>1, <1>4, <1>5, <1>6, <1>9 DEF Closed
<1>11. OneParent(D)
  <2>1. SUFFICES ASSUME NEW a \in DOMAIN D, NEW b \in DOMAIN D,
                        NEW j \in DOMAIN D[a].kids, NEW k \in DOMAIN D[b].kids,
                        D[a].kids[j] = D[b].kids[k]
                 PROVE  a = b /\ j = k
    BY DEF OneParent
  <2>2. ASSUME NEW m \in DOMAIN heap, NEW i \in DOMAIN D[m].kids
        PROVE  D[m].kids[i] = heap[m].kids[i] /\ D[m].kids[i] \in DOMAIN heap
               /\ i \in DOMAIN heap[m].kids
    BY <1>6, NodeFacts
  <2>3. ASSUME NEW n \in T, NEW i \in DOMAIN D[copy[n]].kids
        PROVE  /\ i \in DOMAIN heap[n].kids /\ heap[n].kids[i] \in T
               /\ D[copy[n]].kids[i] = copy[heap[n].kids[i]]
               /\ D[copy[n]].kids[i] \in Range(copy)
    BY <1>8
  <2>4. CASE a \in DOMAIN heap /\ b \in DOMAIN heap
    <3>1. heap[a].kids[j] = heap[b].kids[k] /\ j \in DOMAIN heap[a].kids /\ k \in DOMAIN heap[b].kids
      BY <2>1, <2>2, <2>4
    <3>2. QED
      BY <1>1, <2>4, <3>1 DEF OneParent
  <2>5. CASE a \in DOMAIN heap /\ b \notin DOMAIN heap
    <3>1. PICK n \in T : b = copy[n]
      BY <1>5, <1>6, <2>5
    <3>2. D[b].kids[k] \in Range(copy) /\ D[a].kids[j] \in DOMAIN heap
      BY <2>2, <2>3, <2>5, <3>1
    <3>3. QED
      BY <1>4, <2>1, <3>2
  <2>6. CASE a \notin DOMAIN heap /\ b \in DOMAIN heap
    <3>1. PICK n \in T : a = copy[n]
      BY <1>5, <1>6, <2>6
    <3>2. D[a].kids[j] \in Range(copy) /\ D[b].kids[k] \in DOMAIN heap
      BY <2>2, <2>3, <2>6, <3>1
    <3>3. QED
      BY <1>4, <2>1, <3>2
  <2>7. CASE a \notin DOMAIN heap /\ b \notin DOMAIN heap
    <3>1. PICK m \in T : a = copy[m]
      BY <1>5, <1>6, <2>7
    <3>2. PICK n \in T : b = copy[n]
      BY <1>5, <1>6, <2>7
    <3>3. /\ j \in DOMAIN heap[m].kids /\ heap[m].kids[j] \in T
          /\ D[a].kids[j] = copy[heap[m].kids[j]]
      BY <2>3, <3>1
    <3>4. /\ k \in DOMAIN heap[n].kids /\ heap[n].kids[k] \in T
          /\ D[b].kids[k] = copy[heap[n].kids[k]]
      BY <2>3, <3>2
    <3>5. heap[m].kids[j] = heap[n].kids[k]
      BY <1>3, <2>1, <3>3, <3>4
    <3>6. m = n /\ j = k
      BY <1>1, <1>2, <3>3, <3>4, <3>5 DEF OneParent
    <3>7. QED
      BY <3>1, <3>2, <3>6
  <2>8. QED
    BY <2>4, <2>5, <2>6, <2>7
<1>12. ASSUME NEW m \in DOMAIN heap PROVE D[m] \in PathNodes /\ KidsRuled(D, m)
  <2>1. D[m] = heap[m] /\ \A p \in DOMAIN heap[m].kids : D[heap[m].kids[p]] = heap[heap[m].kids[p]]
    BY <1>6, NodeFacts
  <2>2. QED
    BY <1>1, <2>1 DEF KidsRuled
<1>13. ASSUME NEW n \in T PROVE KidsRuled(D, copy[n])
  <2>1. KidsRuled(heap, n)
    BY <1>1, <1>2
  <2>2. \A p \in DOMAIN heap[n].kids :
           D[D[copy[n]].kids[p]].rule = heap[heap[n].kids[p]].rule
    <3>1. SUFFICES ASSUME NEW p \in DOMAIN heap[n].kids
                   PROVE  D[D[copy[n]].kids[p]].rule = heap[heap[n].kids[p]].rule
      OBVIOUS
    <3>2. D[copy[n]].kids[p] = copy[heap[n].kids[p]] /\ heap[n].kids[p] \in T
      BY <1>8
    <3>3. QED
      BY <1>8, <3>2
  <2>3. D[copy[n]].rule = heap[n].rule /\ DOMAIN D[copy[n]].kids = DOMAIN heap[n].kids
    BY <1>8
  <2>4. QED
    BY <2>1, <2>2, <2>3 DEF KidsRuled
<1>14. HeapOK(D)
  <2>1. ASSUME NEW m \in DOMAIN D PROVE D[m] \in PathNodes /\ KidsRuled(D, m)
    <3>1. CASE m \in DOMAIN heap
      BY <1>12, <3>1
    <3>2. CASE m \notin DOMAIN heap
      <4>1. PICK n \in T : m = copy[n]
        BY <1>5, <1>6, <3>2
      <4>2. QED
        BY <1>8, <1>13, <4>1
    <3>3. QED
      BY <3>1, <3>2
  <2>2. QED
    BY <1>10, <1>11, <2>1 DEF HeapOK
<1>15. ASSUME NEW m \in DOMAIN heap, NoParent(heap, m) PROVE NoParent(D, m)
  <2>1. \A a \in DOMAIN heap : m \notin Range(D[a].kids)
    BY <1>6, <1>15 DEF NoParent
  <2>2. \A n \in T : m \notin Range(D[copy[n]].kids)
    BY <1>4, <1>9
  <2>3. QED
    BY <1>5, <1>6, <2>1, <2>2 DEF NoParent
<1>16. NoParent(D, copy[seed])
  <2>1. copy[seed] \in Range(copy)
    BY <1>2, <1>3 DEF Range
  <2>2. \A a \in DOMAIN heap : copy[seed] \notin Range(D[a].kids)
    BY <1>1, <1>4, <1>6, <2>1 DEF Closed
  <2>3. ASSUME NEW n \in T, NEW k \in DOMAIN D[copy[n]].kids
        PROVE  D[copy[n]].kids[k] # copy[seed]
    <3>1. /\ k \in DOMAIN heap[n].kids /\ heap[n].kids[k] \in T
          /\ D[copy[n]].kids[k] = copy[heap[n].kids[k]]
      BY <1>8
    <3>2. heap[n].kids[k] # seed
      BY <1>2, <3>1 DEF NoParent, Range
    <3>3. QED
      BY <1>2, <1>3, <3>1, <3>2
  <2>4. \A n \in T : copy[seed] \notin Range(D[copy[n]].kids)
    BY <2>3 DEF Range
  <2>5. QED
    BY <1>5, <1>6, <2>2, <2>4 DEF NoParent
<1>17. {copy[seed]} \subseteq Tree(D, {copy[seed]}) /\ Tree(D, {copy[seed]}) \subseteq Range(copy)
  <2>1. {copy[seed]} \subseteq Range(copy) /\ {copy[seed]} \subseteq DOMAIN D
    BY <1>2, <1>3, <1>6 DEF Range
  <2> DEFINE R == {copy[seed]}
  <2>2. R \subseteq Tree(D, R)
        /\ \A S : (R \subseteq S /\ \A n \in S \cap DOMAIN D : Range(D[n].kids) \subseteq S)
                  => Tree(D, R) \subseteq S
    <3>1. R \subseteq DOMAIN D
      BY <2>1
    <3> HIDE DEF R
    <3>2. QED
      BY <1>10, <3>1, TreeFacts
  <2>3. \A n \in Range(copy) \cap DOMAIN D : Range(D[n].kids) \subseteq Range(copy)
    BY <1>5, <1>9
  <2>4. QED
    BY <2>1, <2>2, <2>3
<1>18. \A n \in T : D[copy[n]].rule = heap[n].rule /\ Len(D[copy[n]].kids) = Len(heap[n].kids)
  BY <1>8
<1>19. QED
  BY <1>2, <1>4, <1>6, <1>14, <1>15, <1>16, <1>17, <1>18 DEF D, T

-----------------------------------------------------------------------------
(* Saved derivations.                                                      *)

(* The roots of saved derivations are nodes of the heap without parent.     *)
LEMMA SeedsFacts ==
    ASSUME NEW h, HeapOK(h), NEW sv, NEW fv, PathsOK(h, sv, fv)
    PROVE  /\ Seeds(sv, fv) \subseteq DOMAIN h
           /\ \A n \in Seeds(sv, fv) : NoParent(h, n)
           /\ 0 \notin Seeds(sv, fv)
<1>1. \A n \in Seeds(sv, fv) : n \in DOMAIN h /\ NoParent(h, n)
  BY DEF Seeds, PathsOK, RootOK
<1>2. 0 \notin DOMAIN h
  BY BoundAssumption DEF HeapOK, Closed, Nodes
<1>3. QED
  BY <1>1, <1>2

(* They stay as long as their trees stay and their roots get no parent.    *)
LEMMA PathsSame ==
    ASSUME NEW h, HeapOK(h), NEW h2, HeapOK(h2), NEW sv, NEW fv, PathsOK(h, sv, fv),
           \A n \in Tree(h, Seeds(sv, fv)) : n \in DOMAIN h2 /\ h2[n] = h[n],
           \A n \in Seeds(sv, fv) : NoParent(h2, n)
    PROVE  PathsOK(h2, sv, fv) /\ Tree(h2, Seeds(sv, fv)) = Tree(h, Seeds(sv, fv))
<1> DEFINE R == Seeds(sv, fv)
           T == Tree(h, R)
<1>1. Closed(h) /\ Closed(h2) /\ R \subseteq DOMAIN h
  BY SeedsFacts DEF HeapOK
<1>2. R \subseteq T
  <2> HIDE DEF R
  <2>1. QED
    BY <1>1, TreeFacts
<1>3. Tree(h2, R) = T
  <2> HIDE DEF R
  <2>1. QED
    BY <1>1, TreeSame DEF R
<1>4. ASSUME NEW n \in R PROVE Tree(h2, {n}) = Tree(h, {n}) /\ Tree(h, {n}) \subseteq T
  <2> DEFINE some == {n}
  <2>1. some \subseteq T /\ some \subseteq DOMAIN h
    BY <1>1, <1>2, <1>4
  <2> HIDE DEF some, R
  <2>2. Tree(h, some) \subseteq T
    BY <1>1, <2>1, TreeWithin
  <2>3. Tree(h2, some) = Tree(h, some)
    BY <1>1, <2>1, <2>2, TreeSame DEF R
  <2>4. QED
    BY <2>2, <2>3 DEF some
<1>5. ASSUME NEW t \in Roots, NEW n \in Range(sv[t]) \cup Range(fv[t])
      PROVE  RootOK(h2, n, t) /\ n \in R
  <2>1. n \in R /\ RootOK(h, n, t)
    BY <1>5 DEF Seeds, PathsOK
  <2>2. n \in DOMAIN h2 /\ h2[n] = h[n] /\ NoParent(h2, n)
    BY <1>2, <2>1
  <2>3. QED
    BY <2>1, <2>2 DEF RootOK
<1>6. ASSUME NEW t \in Roots, NEW n \in Range(fv[t])
      PROVE  \E m \in Tree(h2, {n}) : h2[m].fav
  <2>1. n \in R
    BY <1>5
  <2>2. PICK m \in Tree(h, {n}) : h[m].fav
    BY <1>6 DEF PathsOK
  <2>3. m \in Tree(h2, {n}) /\ h2[m] = h[m]
    BY <1>4, <2>1
  <2>4. QED
    BY <2>2, <2>3
<1> HIDE DEF R, T
<1>7. PathsOK(h2, sv, fv)
  BY <1>5, <1>6 DEF PathsOK
<1>8. QED
  BY <1>3, <1>7 DEF R, T

(* Derivations taken out of the queues leave the others as they are.       *)
LEMMA PathsFewer ==
    ASSUME NEW h, HeapOK(h), NEW sv, NEW fv, NEW fv2, PathsOK(h, sv, fv),
           \A t \in Roots : Range(fv2[t]) \subseteq Range(fv[t])
    PROVE  /\ PathsOK(h, sv, fv2) /\ Seeds(sv, fv2) \subseteq Seeds(sv, fv)
           /\ Tree(h, Seeds(sv, fv2)) \subseteq Tree(h, Seeds(sv, fv))
<1> DEFINE R == Seeds(sv, fv)
           R2 == Seeds(sv, fv2)
<1>1. PathsOK(h, sv, fv2)
  BY DEF PathsOK
<1>2. R2 \subseteq R
  BY DEF Seeds
<1>3. Closed(h) /\ R \subseteq DOMAIN h
  BY SeedsFacts DEF HeapOK
<1> HIDE DEF R, R2
<1>4. R2 \subseteq Tree(h, R)
  BY <1>2, <1>3, TreeFacts
<1>5. Tree(h, R2) \subseteq Tree(h, R)
  BY <1>3, <1>4, TreeWithin
<1>6. QED
  BY <1>1, <1>2, <1>5 DEF R, R2

-----------------------------------------------------------------------------
(* The stack.                                                              *)

(* A stack that is not empty has a first and an innermost activation.       *)
LEMMA FrameFacts ==
    ASSUME NEW st \in Seq(Frames), st # <<>>
    PROVE  /\ Len(st) \in Nat /\ Len(st) > 0 /\ DOMAIN st = 1 .. Len(st)
           /\ Len(st) \in DOMAIN st /\ 1 \in DOMAIN st
           /\ \A k \in DOMAIN st : st[k] \in Frames
           /\ \A k \in DOMAIN st : k \in Nat
<1>1. Len(st) \in Nat /\ Len(st) # 0 /\ DOMAIN st = 1 .. Len(st)
  OBVIOUS
<1>2. QED
  BY <1>1

(* The fields of an activation have their types.                           *)
LEMMA FrameTypes ==
    ASSUME NEW f \in Frames
    PROVE  /\ f.node \in Nodes /\ f.name \in Names /\ f.hash \in Hashes /\ f.depth \in Int
           /\ f.rule \in Rules \cup {NoRule} /\ f.item \in Nat /\ f.kid \in Nat
           /\ f.replaying \in BOOLEAN /\ f.comp \in BOOLEAN /\ f.fav \in BOOLEAN
BY DEF Frames

(* h2 has the same rule and children at the node of f. *)
SameAt(h, h2, f) ==
    /\ f.node \in DOMAIN h2
    /\ h2[f.node].rule = h[f.node].rule /\ h2[f.node].kids = h[f.node].kids

(* An activation depends on nothing but its node.                          *)
LEMMA FrameSame ==
    ASSUME NEW h, NEW h2, NEW f, SameAt(h, h2, f), FrameOK(h, f)
    PROVE  FrameOK(h2, f)
BY DEF SameAt, FrameOK

(* A call depends on nothing but the nodes of caller and callee.           *)
LEMMA LinkSame ==
    ASSUME NEW h, NEW h2, NEW f, NEW g, SameAt(h, h2, f), SameAt(h, h2, g),
           LinkOK(h, f, g)
    PROVE  LinkOK(h2, f, g)
BY DEF SameAt, LinkOK

(* A stack depends on nothing but the nodes of its activations.            *)
LEMMA StackSame ==
    ASSUME NEW h, NEW h2, NEW st, NEW root, NEW t, NEW S, NEW S2 \in SUBSET S,
           StackOK(h, st, root, t, S), \A k \in DOMAIN st : SameAt(h, h2, st[k])
    PROVE  StackOK(h2, st, root, t, S2)
<1>1. \A k \in DOMAIN st : FrameOK(h2, st[k]) /\ st[k].node \notin S2
  BY FrameSame DEF StackOK
<1>2. \A k \in DOMAIN st : k + 1 \in DOMAIN st => LinkOK(h2, st[k], st[k + 1])
  BY LinkSame DEF StackOK
<1>3. QED
  BY <1>1, <1>2 DEF StackOK

(* The innermost activation goes on. *)
LEMMA StackTop ==
    ASSUME NEW h, NEW h2, NEW st, NEW root, NEW t, NEW S, NEW S2 \in SUBSET S,
           StackOK(h, st, root, t, S), st # <<>>,
           \A k \in 1 .. Len(st) - 1 : SameAt(h, h2, st[k]),
           NEW f \in Frames, f.node = st[Len(st)].node, f.name = st[Len(st)].name,
           f.item > 0, FrameOK(h2, f),
           f.replaying => \A k \in 1 .. Len(st) - 1 : st[k].replaying
    PROVE  StackOK(h2, [st EXCEPT ![Len(st)] = f], root, t, S2)
<1> DEFINE L == Len(st)
           st2 == [st EXCEPT ![L] = f]
<1>1. st \in Seq(Frames)
  BY DEF StackOK
<1>2. L \in Nat /\ L > 0 /\ DOMAIN st = 1 .. L /\ L \in DOMAIN st
  BY <1>1, FrameFacts
<1>3. st2 \in Seq(Frames) /\ DOMAIN st2 = 1 .. L
  BY <1>1, <1>2
<1>4. st2[L] = f /\ \A k \in 1 .. L : k # L => st2[k] = st[k]
  BY <1>2
<1>5. \A k \in 1 .. L : st2[k].node = st[k].node /\ st2[k].name = st[k].name
  BY <1>4
<1>0. /\ \A k \in 1 .. L - 1 : SameAt(h, h2, st[k])
      /\ f.node = st[L].node /\ f.name = st[L].name
      /\ f.replaying => \A k \in 1 .. L - 1 : st[k].replaying
  OBVIOUS
<1> HIDE DEF st2, L
<1>6. \A k \in 1 .. L : k # L => k \in 1 .. L - 1
  BY <1>2
<1>7. \A k \in 1 .. L : FrameOK(h2, st2[k]) /\ st2[k].node \notin S2
  BY <1>0, <1>2, <1>4, <1>5, <1>6, FrameSame DEF StackOK
<1>8. ASSUME NEW k \in 1 .. L, k + 1 \in 1 .. L PROVE LinkOK(h2, st2[k], st2[k + 1])
  <2>1. LinkOK(h, st[k], st[k + 1]) /\ st2[k] = st[k] /\ SameAt(h, h2, st[k])
    <3>1. k # L
      BY <1>2, <1>8
    <3>2. QED
      BY <1>0, <1>2, <1>4, <1>6, <1>8, <3>1 DEF StackOK
  <2>2. CASE k + 1 # L
    <3>1. SameAt(h, h2, st[k + 1]) /\ st2[k + 1] = st[k + 1]
      BY <1>0, <1>4, <1>6, <1>8, <2>2
    <3>2. QED
      BY <2>1, <3>1, LinkSame
  <2>3. CASE k + 1 = L
    <3>1. /\ st2[k + 1] = f /\ f.node = st[k + 1].node /\ f.name = st[k + 1].name
          /\ f.item # 0
      BY <1>0, <1>4, <2>3
    <3>2. QED
      BY <2>1, <3>1 DEF LinkOK, SameAt
  <2>4. QED
    BY <2>2, <2>3
<1>9. ASSUME NEW j \in 1 .. L, NEW k \in 1 .. L, st2[j].node = st2[k].node PROVE j = k
  BY <1>2, <1>5, <1>9 DEF StackOK
<1>10. ASSUME NEW j \in 1 .. L, NEW k \in 1 .. L, j < k, st2[k].replaying
       PROVE  st2[j].replaying
  <2>1. j \in 1 .. L - 1 /\ st2[j] = st[j]
    BY <1>2, <1>4, <1>10
  <2>2. CASE k = L
    BY <1>0, <1>4, <1>10, <2>1, <2>2
  <2>3. CASE k # L
    <3>1. st[k].replaying
      BY <1>4, <1>10, <2>3
    <3>2. QED
      BY <1>2, <1>10, <2>1, <3>1 DEF StackOK
  <2>4. QED
    BY <2>2, <2>3
<1>11. st2[1].node = root /\ st2[1].name = t
  BY <1>2, <1>5 DEF StackOK
<1>12. QED
  BY <1>3, <1>7, <1>8, <1>9, <1>10, <1>11 DEF StackOK, st2, L

(* It calls another one. *)
LEMMA StackPush ==
    ASSUME NEW h, NEW st, NEW root, NEW t, NEW S, StackOK(h, st, root, t, S), st # <<>>,
           NEW g \in Frames, FrameOK(h, g), LinkOK(h, st[Len(st)], g), g.node \notin S,
           \A k \in DOMAIN st : st[k].node # g.node, ~g.replaying
    PROVE  StackOK(h, Append(st, g), root, t, S)
<1> DEFINE L == Len(st)
           st2 == Append(st, g)
<1>1. st \in Seq(Frames)
  BY DEF StackOK
<1>2. L \in Nat /\ L > 0 /\ DOMAIN st = 1 .. L /\ L \in DOMAIN st
  BY <1>1, FrameFacts
<1>3. st2 \in Seq(Frames) /\ DOMAIN st2 = 1 .. L + 1 /\ 1 \in 1 .. L
  BY <1>1, <1>2
<1>4. st2[L + 1] = g /\ \A k \in 1 .. L : st2[k] = st[k]
  BY <1>1, <1>2
<1>0. LinkOK(h, st[L], g)
  OBVIOUS
<1> HIDE DEF st2, L
<1>5. \A k \in 1 .. L + 1 : k # L + 1 => k \in 1 .. L
  BY <1>2
<1>6. \A k \in 1 .. L + 1 : FrameOK(h, st2[k]) /\ st2[k].node \notin S
  BY <1>2, <1>4, <1>5 DEF StackOK
<1>7. ASSUME NEW k \in 1 .. L + 1, k + 1 \in 1 .. L + 1 PROVE LinkOK(h, st2[k], st2[k + 1])
  <2>1. k \in 1 .. L /\ st2[k] = st[k]
    BY <1>2, <1>4, <1>7
  <2>2. CASE k = L
    BY <1>0, <1>4, <2>1, <2>2
  <2>3. CASE k # L
    <3>1. k + 1 \in 1 .. L /\ st2[k + 1] = st[k + 1]
      BY <1>2, <1>4, <2>1, <2>3
    <3>2. QED
      BY <1>2, <2>1, <3>1 DEF StackOK
  <2>4. QED
    BY <2>2, <2>3
<1>8. ASSUME NEW j \in 1 .. L + 1, NEW k \in 1 .. L + 1, st2[j].node = st2[k].node PROVE j = k
  <2>1. CASE j \in 1 .. L /\ k \in 1 .. L
    BY <1>2, <1>4, <1>8, <2>1 DEF StackOK
  <2>2. CASE j = L + 1 \/ k = L + 1
    BY <1>2, <1>4, <1>5, <1>8, <2>2
  <2>3. QED
    BY <1>5, <2>1, <2>2
<1>9. ASSUME NEW j \in 1 .. L + 1, NEW k \in 1 .. L + 1, j < k, st2[k].replaying
      PROVE  st2[j].replaying
  <2>1. k # L + 1
    BY <1>4, <1>9
  <2>2. k \in 1 .. L /\ j \in 1 .. L /\ st2[k] = st[k] /\ st2[j] = st[j]
    BY <1>2, <1>4, <1>9, <2>1
  <2>3. QED
    BY <1>2, <1>9, <2>2 DEF StackOK
<1>10. st2[1].node = root /\ st2[1].name = t
  BY <1>3, <1>4 DEF StackOK
<1>11. QED
  BY <1>3, <1>6, <1>7, <1>8, <1>9, <1>10 DEF StackOK, st2, L

(* It returns. *)
LEMMA StackPop ==
    ASSUME NEW h, NEW st, NEW root, NEW t, NEW S, StackOK(h, st, root, t, S), st # <<>>
    PROVE  LET st2 == SubSeq(st, 1, Len(st) - 1)
           IN  /\ DOMAIN st2 = 1 .. Len(st) - 1
               /\ \A k \in 1 .. Len(st) - 1 : k \in DOMAIN st /\ st2[k] = st[k]
               /\ st2 \in Seq(Frames)
               /\ StackOK(h, st2, root, t, S)
<1> DEFINE L == Len(st)
           st2 == SubSeq(st, 1, L - 1)
<1>1. st \in Seq(Frames)
  BY DEF StackOK
<1>2. L \in Nat /\ L > 0 /\ DOMAIN st = 1 .. L
  BY <1>1, FrameFacts
<1>3. st2 \in Seq(Frames) /\ Len(st2) = L - 1
  BY <1>1, <1>2, SubSeqProperties
<1>4. DOMAIN st2 = 1 .. L - 1
  BY <1>2, <1>3
<1>5. \A k \in 1 .. L - 1 : k \in DOMAIN st /\ st2[k] = st[k]
  BY <1>1, <1>2
<1> HIDE DEF st2
<1>6. st2 # <<>> => 1 \in 1 .. L - 1
  BY <1>2, <1>3, <1>4
<1>7. StackOK(h, st2, root, t, S)
  BY <1>1, <1>2, <1>3, <1>4, <1>5, <1>6 DEF StackOK
<1>8. QED
  BY <1>3, <1>4, <1>5, <1>7 DEF st2

(* The first activation of a generation. *)
LEMMA StackFirst ==
    ASSUME NEW h, NEW f \in Frames, NEW S, FrameOK(h, f), f.node \notin S
    PROVE  StackOK(h, <<f>>, f.node, f.name, S)
<1>1. <<f>> \in Seq(Frames) /\ DOMAIN <<f>> = {1} /\ <<f>>[1] = f
  OBVIOUS
<1> DEFINE st == <<f>>
<1> HIDE DEF st
<1>2. st \in Seq(Frames) /\ DOMAIN st = {1} /\ st[1] = f
  BY <1>1 DEF st
<1>3. \A k \in DOMAIN st : k + 1 \notin DOMAIN st
  BY <1>2
<1>4. StackOK(h, st, f.node, f.name, S)
  BY <1>2, <1>3 DEF StackOK
<1>5. QED
  BY <1>4 DEF st

(* No activation is the end of any generation.                             *)
LEMMA StackEmpty ==
    ASSUME NEW h, NEW root, NEW t, NEW S
    PROVE  StackOK(h, <<>>, root, t, S)
<1>1. <<>> \in Seq(Frames) /\ DOMAIN <<>> = {}
  OBVIOUS
<1>2. QED
  BY <1>1 DEF StackOK

(* The nodes of the stack are in the trees that the first one is in.       *)
LEMMA StackInTree ==
    ASSUME NEW h, HeapOK(h), NEW st, NEW root, NEW t, NEW S, StackOK(h, st, root, t, S),
           NEW roots, roots \subseteq DOMAIN h, st # <<>> => root \in roots
    PROVE  \A k \in DOMAIN st : st[k].node \in Tree(h, roots)
<1>1. SUFFICES ASSUME st # <<>> PROVE \A k \in DOMAIN st : st[k].node \in Tree(h, roots)
  OBVIOUS
<1> DEFINE T == Tree(h, roots)
<1>2. roots \subseteq T /\ \A n \in T : Range(h[n].kids) \subseteq T
  BY TreeFacts DEF HeapOK
<1>3. st \in Seq(Frames) /\ st[1].node \in T
  BY <1>1, <1>2 DEF StackOK
<1>4. DOMAIN st = 1 .. Len(st) /\ Len(st) \in Nat
  BY <1>3
<1> DEFINE Good == {k \in Nat : k \in DOMAIN st => st[k].node \in T}
<1> HIDE DEF T
<1>5. 0 \in Good
  BY <1>4
<1>6. ASSUME NEW k \in Nat, k \in Good PROVE k + 1 \in Good
  <2>1. SUFFICES ASSUME k + 1 \in DOMAIN st PROVE st[k + 1].node \in T
    OBVIOUS
  <2>2. CASE k = 0
    BY <1>3, <2>2
  <2>3. CASE k # 0
    <3>1. k \in DOMAIN st
      BY <1>4, <2>1, <2>3
    <3>2. LinkOK(h, st[k], st[k + 1])
      BY <2>1, <3>1 DEF StackOK
    <3>3. st[k + 1].node \in Range(h[st[k].node].kids) /\ st[k].node \in T
      BY <1>6, <3>1, <3>2 DEF LinkOK
    <3>4. QED
      BY <1>2, <3>3
  <2>4. QED
    BY <2>2, <2>3
<1> HIDE DEF Good
<1>7. \A k \in Nat : k \in Good
  BY <1>5, <1>6, NatSetInduction
<1>8. QED
  BY <1>4, <1>7 DEF Good, T

(* The first activation is at the root, any other at a child of the node   *)
(* of the one before.                                                      *)
LEMMA StackPlace ==
    ASSUME NEW h, NEW st, NEW root, NEW t, NEW S, StackOK(h, st, root, t, S),
           NEW k \in DOMAIN st
    PROVE  \/ k = 1 /\ st[k].node = root /\ st[k].name = t
           \/ /\ k > 1 /\ k - 1 \in DOMAIN st
              /\ LinkOK(h, st[k - 1], st[k]) /\ FrameOK(h, st[k - 1])
              /\ st[k].node \in Range(h[st[k - 1].node].kids)
<1>1. st \in Seq(Frames) /\ st # <<>>
  BY DEF StackOK
<1>2. DOMAIN st = 1 .. Len(st) /\ Len(st) \in Nat
  BY <1>1
<1>3. CASE k = 1
  BY <1>1, <1>3 DEF StackOK
<1>4. CASE k # 1
  <2>1. k > 1 /\ k - 1 \in DOMAIN st /\ (k - 1) + 1 = k
    BY <1>2, <1>4
  <2>2. LinkOK(h, st[k - 1], st[k]) /\ FrameOK(h, st[k - 1])
    BY <2>1 DEF StackOK
  <2>3. QED
    BY <2>1, <2>2 DEF LinkOK
<1>5. QED
  BY <1>3, <1>4

-----------------------------------------------------------------------------
(* All of it on a heap.                                                    *)

(* Dropping what nothing refers to changes nothing that counts. *)
LEMMA CollectedKeeps ==
    ASSUME NEW h, NEW sv, NEW fv, NEW cp, NEW gr, NEW ct, NEW st,
           OnHeap(h, sv, fv, cp, gr, ct, st), st # <<>> => gr # 0,
           NEW roots, roots \ {0} \subseteq DOMAIN h, Seeds(sv, fv) \subseteq roots,
           cp \in roots \cup {0}, gr \in roots \cup {0}
    PROVE  /\ OnHeap(Collected(h, roots), sv, fv, cp, gr, ct, st)
           /\ DOMAIN Collected(h, roots) \subseteq DOMAIN h
           /\ \A n \in DOMAIN Collected(h, roots) : Collected(h, roots)[n] = h[n]
<1> DEFINE h2 == Collected(h, roots)
           R == roots \ {0}
           S == Seeds(sv, fv)
<1>1. /\ HeapOK(h) /\ PathsOK(h, sv, fv) /\ StackOK(h, st, gr, ct, Tree(h, S))
      /\ WholeOK(h, st) /\ Closed(h)
  BY DEF OnHeap, HeapOK
<1>2. /\ DOMAIN h2 = Tree(h, R) /\ DOMAIN h2 \subseteq DOMAIN h
      /\ R \subseteq DOMAIN h2
      /\ \A n \in DOMAIN h2 : h2[n] = h[n]
      /\ HeapOK(h2)
      /\ \A n \in DOMAIN h2 : NoParent(h, n) => NoParent(h2, n)
  BY <1>1, CollectedFacts
<1>3. S \subseteq R /\ S \subseteq DOMAIN h /\ \A n \in S : NoParent(h, n)
  BY <1>1, SeedsFacts
<1> HIDE DEF h2, R
<1>4. Tree(h, S) \subseteq DOMAIN h2
  <2>1. S \subseteq Tree(h, R) /\ R \subseteq DOMAIN h
    BY <1>2, <1>3
  <2> HIDE DEF S
  <2>2. QED
    BY <1>1, <1>2, <2>1, TreeWithin
<1>5. PathsOK(h2, sv, fv) /\ Tree(h2, S) = Tree(h, S)
  <2>1. \A n \in S : NoParent(h2, n)
    BY <1>2, <1>3
  <2>2. \A n \in Tree(h, S) : n \in DOMAIN h2 /\ h2[n] = h[n]
    BY <1>2, <1>4
  <2>3. QED
    BY <1>1, <1>2, <2>1, <2>2, PathsSame
<1>6. ASSUME NEW n, n # 0, n \in roots, RootOK(h, n, ct) PROVE RootOK(h2, n, ct)
  BY <1>2, <1>6 DEF RootOK, R
<1>7. (cp # 0 => RootOK(h2, cp, ct)) /\ (gr # 0 => RootOK(h2, gr, ct))
  BY <1>6 DEF OnHeap
<1>8. \A k \in DOMAIN st : st[k].node \in DOMAIN h2
  <2>1. R \subseteq DOMAIN h /\ (st # <<>> => gr \in R)
    BY <1>2 DEF R
  <2>2. QED
    BY <1>1, <1>2, <2>1, StackInTree
<1>9. StackOK(h2, st, gr, ct, Tree(h2, S))
  <2>1. \A k \in DOMAIN st : SameAt(h, h2, st[k])
    BY <1>2, <1>8 DEF SameAt
  <2> DEFINE T == Tree(h, S)
  <2> HIDE DEF S, T
  <2>2. StackOK(h2, st, gr, ct, T)
    BY <1>1, <2>1, StackSame DEF T
  <2>3. QED
    BY <1>5, <2>2 DEF T
<1>10. WholeOK(h2, st)
  BY <1>1, <1>2 DEF WholeOK, Complete
<1>11. OnHeap(h2, sv, fv, cp, gr, ct, st)
  BY <1>2, <1>5, <1>7, <1>9, <1>10 DEF OnHeap, S
<1>12. QED
  BY <1>2, <1>11 DEF h2

(* The start of a generation from node n. *)
LEMMA Started ==
    ASSUME NEW h, HeapOK(h), NEW sv, NEW fv, PathsOK(h, sv, fv), NEW ct \in Roots,
           NEW cp, cp # 0 => RootOK(h, cp, ct), NEW n, RootOK(h, n, ct),
           n \notin Tree(h, Seeds(sv, fv)), \A m \in DOMAIN h : Complete(h, m)
    PROVE  OnHeap(h, sv, fv, cp, n, ct, <<Frame(n, ct, {}, Depth)>>)
<1> DEFINE f == Frame(n, ct, {}, Depth)
<1>1. n \in DOMAIN h /\ n \in Nodes
  BY DEF RootOK, HeapOK, Closed
<1>2. ct \in Names /\ {} \in Hashes /\ Depth \in Int
  BY GrammarAssumption, BoundAssumption DEF Hashes
<1>3. /\ f.node = n /\ f.name = ct /\ f.item = 0 /\ f.kid = 0 /\ f.replaying = FALSE
      /\ f \in Frames
  BY <1>1, <1>2 DEF Frame, Frames
<1> HIDE DEF f
<1>4. FrameOK(h, f)
  BY <1>1, <1>3 DEF FrameOK
<1>5. StackOK(h, <<f>>, n, ct, Tree(h, Seeds(sv, fv)))
  BY <1>3, <1>4, StackFirst
<1>6. WholeOK(h, <<f>>)
  BY DEF WholeOK
<1>7. QED
  BY <1>5, <1>6 DEF OnHeap, f

(* Between two generations. *)
LEMMA Idle ==
    ASSUME IInv, pc # "run"
    PROVE  /\ stack = <<>> /\ genRoot = 0
           /\ HeapOK(heap) /\ PathsOK(heap, saved, favs) /\ SeedRoots = Seeds(saved, favs)
           /\ \A n \in DOMAIN heap : Complete(heap, n)
           /\ curPath # 0 => RootOK(heap, curPath, curType)
           /\ SeedRoots \subseteq DOMAIN heap /\ Tree(heap, SeedRoots) \subseteq DOMAIN heap
<1>1. stack = <<>> /\ genRoot = 0
  BY DEF IInv, ControlOK
<1>2. /\ HeapOK(heap) /\ PathsOK(heap, saved, favs)
      /\ curPath # 0 => RootOK(heap, curPath, curType)
      /\ WholeOK(heap, stack)
  BY DEF IInv, HeapInv, OnHeap
<1>3. SeedRoots = Seeds(saved, favs)
  BY DEF SeedRoots, Seeds
<1>4. \A n \in DOMAIN heap : Complete(heap, n)
  <2>1. DOMAIN stack = {}
    BY <1>1
  <2>2. QED
    BY <1>2, <2>1 DEF WholeOK
<1>5. SeedRoots \subseteq DOMAIN heap
  BY <1>2, <1>3, SeedsFacts
<1>6. Tree(heap, SeedRoots) \subseteq DOMAIN heap
  BY <1>2, <1>5, TreeFacts DEF HeapOK
<1>7. QED
  BY <1>1, <1>2, <1>3, <1>4, <1>5, <1>6

-----------------------------------------------------------------------------
(* Generate and generate.                                                  *)

(* Generate drops the path that was not credited.                          *)
LEMMA GenerateKeeps ==
    ASSUME IInv, NEW root \in Roots, Generate(root)
    PROVE  IInv' /\ SeedNodesStay
<1>1. pc = "idle"
  BY DEF Generate
<1>2. /\ stack = <<>> /\ genRoot = 0 /\ HeapOK(heap) /\ PathsOK(heap, saved, favs)
      /\ SeedRoots = Seeds(saved, favs) /\ \A n \in DOMAIN heap : Complete(heap, n)
      /\ SeedRoots \subseteq DOMAIN heap
  BY <1>1, Idle
<1>3. WholeOK(heap, <<>>)
  BY <1>2 DEF WholeOK
<1>4. OnHeap(heap, saved, favs, 0, 0, root, <<>>)
  BY <1>2, <1>3, StackEmpty DEF OnHeap
<1>5. SeedRoots \ {0} \subseteq DOMAIN heap
  BY <1>2
<1>6. /\ OnHeap(heap', saved, favs, 0, 0, root, <<>>)
      /\ \A n \in DOMAIN heap' : heap'[n] = heap[n]
  BY <1>2, <1>4, <1>5, CollectedKeeps DEF Generate
<1>7. HeapInv'
  BY <1>2, <1>6 DEF HeapInv, Generate
<1>8. PlainOK' /\ ControlOK'
  BY <1>2 DEF IInv, PlainOK, ControlOK, Generate, covVars
<1>9. QED
  BY <1>6, <1>7, <1>8 DEF IInv, SeedNodesStay

(* A new root is the only node that is added.                              *)
LEMMA StartFreshKeeps ==
    ASSUME IInv, StartFresh
    PROVE  IInv' /\ SeedNodesStay
<1> DEFINE n == NewNode
<1>1. pc = "start" /\ curType \in Roots
  BY DEF StartFresh, IInv, ControlOK
<1>2. /\ HeapOK(heap) /\ PathsOK(heap, saved, favs)
      /\ SeedRoots = Seeds(saved, favs) /\ \A m \in DOMAIN heap : Complete(heap, m)
      /\ curPath # 0 => RootOK(heap, curPath, curType)
      /\ SeedRoots \subseteq DOMAIN heap /\ Tree(heap, SeedRoots) \subseteq DOMAIN heap
  BY <1>1, Idle
<1>3. n \in Nodes /\ n \notin DOMAIN heap /\ n # 0
  <2>1. n \in Free
    BY DEF StartFresh, NewNode
  <2>2. QED
    BY <2>1, BoundAssumption DEF Free, Nodes
<1> HIDE DEF n
<1>4. Blank \in PathNodes /\ Blank.rule = NoRule /\ Blank.kids = <<>>
  BY DEF Blank, PathNodes
<1>5. /\ DOMAIN heap' = DOMAIN heap \cup {n}
      /\ heap'[n] = Blank /\ \A m \in DOMAIN heap : heap'[m] = heap[m]
      /\ HeapOK(heap')
      /\ NoParent(heap', n) /\ \A m : NoParent(heap, m) => NoParent(heap', m)
  BY <1>2, <1>3, <1>4, AllocatedFacts DEF StartFresh, n
<1>6. PathsOK(heap', saved, favs)
      /\ Tree(heap', Seeds(saved, favs)) = Tree(heap, Seeds(saved, favs))
  <2>1. \A m \in Seeds(saved, favs) : NoParent(heap', m)
    BY <1>2, <1>5, SeedsFacts
  <2>2. QED
    BY <1>2, <1>5, <2>1, PathsSame
<1>7. RootOK(heap', n, curType) /\ (curPath # 0 => RootOK(heap', curPath, curType))
  BY <1>2, <1>4, <1>5 DEF RootOK
<1>8. n \notin Tree(heap', Seeds(saved, favs))
  BY <1>2, <1>3, <1>6
<1>9. \A m \in DOMAIN heap' : Complete(heap', m)
  BY <1>2, <1>4, <1>5 DEF Complete
<1>10. OnHeap(heap', saved, favs, curPath, n, curType, <<Frame(n, curType, {}, Depth)>>)
  BY <1>1, <1>5, <1>6, <1>7, <1>8, <1>9, Started
<1>11. HeapInv'
  BY <1>10 DEF HeapInv, StartFresh, StartAt, n
<1>12. PlainOK' /\ ControlOK'
  BY <1>1, <1>3 DEF IInv, PlainOK, ControlOK, StartFresh, StartAt, covVars, n
<1>13. QED
  BY <1>2, <1>5, <1>11, <1>12 DEF IInv, SeedNodesStay

(* The tree of the generation becomes the path.                            *)
LEMMA FinishKeeps ==
    ASSUME IInv, Finish
    PROVE  IInv' /\ SeedNodesStay
<1>1. stack = <<>> /\ pc = "run" /\ genRoot # 0 /\ curType \in Roots
  BY DEF Finish, IInv, ControlOK
<1>2. /\ HeapOK(heap) /\ PathsOK(heap, saved, favs) /\ WholeOK(heap, <<>>)
      /\ RootOK(heap, genRoot, curType)
  BY <1>1 DEF IInv, HeapInv, OnHeap
<1>3. SeedRoots = Seeds(saved, favs) /\ SeedRoots \subseteq DOMAIN heap
  BY <1>2, SeedsFacts DEF SeedRoots, Seeds
<1>4. OnHeap(heap, saved, favs, genRoot, 0, curType, <<>>)
  BY <1>2, StackEmpty DEF OnHeap
<1>5. (SeedRoots \cup {genRoot}) \ {0} \subseteq DOMAIN heap
  BY <1>2, <1>3 DEF RootOK
<1>6. heap' = Collected(heap, SeedRoots \cup {genRoot})
  BY DEF Finish
<1>7. /\ OnHeap(heap', saved, favs, genRoot, 0, curType, <<>>)
      /\ \A n \in DOMAIN heap' : heap'[n] = heap[n]
  <2> DEFINE R == SeedRoots \cup {genRoot}
  <2>1. R \ {0} \subseteq DOMAIN heap /\ Seeds(saved, favs) \subseteq R /\ genRoot \in R
    BY <1>3, <1>5
  <2>2. heap' = Collected(heap, R)
    BY <1>6
  <2> HIDE DEF R
  <2>3. QED
    BY <1>4, <2>1, <2>2, CollectedKeeps
<1>8. HeapInv'
  BY <1>1, <1>7 DEF HeapInv, Finish
<1>9. PlainOK' /\ ControlOK'
  <2>1. tries \in Nat /\ tries < MaxTries /\ MaxTries \in Nat \ {0}
    <3>1. tries \in 0 .. MaxTries /\ tries < MaxTries
      BY DEF IInv, PlainOK, ControlOK
    <3>2. QED
      BY <3>1, BoundAssumption
  <2>2. tries' \in 0 .. MaxTries /\ tries' < MaxTries /\ pc' \in {"idle", "start"}
    BY <2>1 DEF Finish, NextTry
  <2>3. QED
    BY <1>1, <2>2 DEF IInv, PlainOK, ControlOK, Finish, covVars
<1>10. QED
  BY <1>7, <1>8, <1>9 DEF IInv, SeedNodesStay

(* A copy of a saved derivation with one node regenerated: sv and fv are   *)
(* the derivations that stay.                                              *)
LEMMA ReplayKeeps ==
    ASSUME IInv, pc = "start", NEW seed, NEW usingFav, Replay(seed, usingFav),
           seed \in SeedRoots, RootOK(heap, seed, curType),
           \A t \in Roots : Range(favs'[t]) \subseteq Range(favs[t]),
           favs' \in [Roots -> Seq(Nodes)]
    PROVE  IInv' /\ SeedNodesStay
<1> DEFINE copy == NewNodes(seed)
           D == DeepCopy(copy)
           root == copy[seed]
           R == SeedRoots \cup {curPath, root}
           S2 == Seeds(saved, favs')
<1>1. curType \in Roots
  BY DEF IInv, ControlOK
<1>2. /\ HeapOK(heap) /\ PathsOK(heap, saved, favs)
      /\ SeedRoots = Seeds(saved, favs) /\ \A m \in DOMAIN heap : Complete(heap, m)
      /\ curPath # 0 => RootOK(heap, curPath, curType)
      /\ SeedRoots \subseteq DOMAIN heap /\ Tree(heap, SeedRoots) \subseteq DOMAIN heap
  BY Idle
<1>3. /\ seed \in DOMAIN heap /\ NoParent(heap, seed)
      /\ heap[seed].rule \in RulesOf(curType) \cup {NoRule}
  BY DEF RootOK
<1>4. copy \in [Tree(heap, {seed}) -> Free] /\ IsInjective(copy)
  BY <1>2, <1>3, NewNodesFacts DEF Replay
<1> HIDE DEF copy
<1>5. /\ DOMAIN D = DOMAIN heap \cup Range(copy)
      /\ \A m \in DOMAIN heap : D[m] = heap[m]
      /\ \A n \in Tree(heap, {seed}) :
            /\ D[copy[n]].rule = heap[n].rule
            /\ Len(D[copy[n]].kids) = Len(heap[n].kids)
      /\ HeapOK(D)
      /\ \A m \in DOMAIN heap : NoParent(heap, m) => NoParent(D, m)
      /\ NoParent(D, copy[seed]) /\ seed \in Tree(heap, {seed})
      /\ copy[seed] \in Tree(D, {copy[seed]})
      /\ Tree(D, {copy[seed]}) \subseteq Range(copy)
      /\ Range(copy) \cap DOMAIN heap = {} /\ Range(copy) \subseteq Nodes
  BY <1>2, <1>3, <1>4, DeepCopyFacts
<1> HIDE DEF D
<1>6. PICK node \in Mutable(D, root, usingFav) :
          /\ StartAt(root)
          /\ heap' = Collected([D EXCEPT ![node].rule = NoRule, ![node].kids = <<>>], R)
  BY DEF Replay, copy, D
<1> DEFINE E == Reset(D, node, NoRule)
<1>7. node \in Range(copy) /\ node \in DOMAIN D /\ node \notin DOMAIN heap
  <2>1. node \in Tree(D, {root})
    BY <1>5, <1>6 DEF Mutable
  <2>2. QED
    BY <1>5, <2>1
<1>8. /\ DOMAIN E = DOMAIN D
      /\ E[node].rule = NoRule /\ \A m \in DOMAIN D \ {node} : E[m] = D[m]
      /\ HeapOK(E)
      /\ \A m : NoParent(D, m) => NoParent(E, m)
  <2>1. Fits(D, node, NoRule)
    BY DEF Fits
  <2>2. HeapOK(D) /\ node \in DOMAIN D /\ NoRule \in Rules \cup {NoRule}
    BY <1>5, <1>7
  <2>3. QED
    BY <2>1, <2>2, ResetFacts
<1> HIDE DEF E
<1>9. \A m \in DOMAIN heap : m \in DOMAIN E /\ E[m] = heap[m] /\ (NoParent(heap, m) => NoParent(E, m))
  BY <1>5, <1>7, <1>8
<1>10. PathsOK(E, saved, favs) /\ Tree(E, SeedRoots) = Tree(heap, SeedRoots)
  <2>1. \A m \in Seeds(saved, favs) : NoParent(E, m)
    BY <1>2, <1>9, SeedsFacts
  <2>2. \A m \in Tree(heap, Seeds(saved, favs)) : m \in DOMAIN E /\ E[m] = heap[m]
    BY <1>2, <1>9
  <2>3. QED
    BY <1>2, <1>8, <2>1, <2>2, PathsSame
<1>11. PathsOK(E, saved, favs') /\ S2 \subseteq SeedRoots /\ Tree(E, S2) \subseteq Tree(heap, SeedRoots)
  BY <1>2, <1>8, <1>10, PathsFewer
<1>12. root \in DOMAIN D /\ root \in Range(copy) /\ NoParent(D, root) /\ root \notin DOMAIN heap
       /\ D[root].rule = heap[seed].rule
  BY <1>5
<1>13. RootOK(E, root, curType)
  <2>1. root \in DOMAIN E /\ NoParent(E, root)
    BY <1>8, <1>12
  <2>2. E[root].rule \in {D[root].rule, NoRule}
    BY <1>8, <1>12
  <2>3. QED
    BY <1>3, <1>12, <2>1, <2>2 DEF RootOK
<1>14. curPath # 0 => RootOK(E, curPath, curType)
  BY <1>2, <1>9 DEF RootOK
<1>15. ASSUME NEW m \in DOMAIN E PROVE Complete(E, m)
  <2>1. CASE m \in DOMAIN heap
    BY <1>2, <1>9, <2>1 DEF Complete
  <2>2. CASE m = node
    BY <1>8, <2>2 DEF Complete
  <2>3. CASE m \notin DOMAIN heap /\ m # node
    <3>1. m \in Range(copy) /\ E[m] = D[m]
      BY <1>5, <1>8, <2>3
    <3>2. PICK n \in Tree(heap, {seed}) : m = copy[n]
      BY <1>4, <3>1 DEF Range
    <3>3. n \in DOMAIN heap
      <4> DEFINE only == {seed}
      <4>1. only \subseteq DOMAIN heap
        BY <1>3
      <4> HIDE DEF only
      <4>2. Tree(heap, only) \subseteq DOMAIN heap
        BY <1>2, <4>1, TreeFacts DEF HeapOK
      <4>3. QED
        BY <3>2, <4>2 DEF only
    <3>4. Complete(heap, n) /\ E[m].rule = heap[n].rule /\ Len(E[m].kids) = Len(heap[n].kids)
      BY <1>2, <1>5, <3>1, <3>2, <3>3
    <3>5. QED
      BY <3>4 DEF Complete
  <2>4. QED
    BY <2>1, <2>2, <2>3
<1> DEFINE st == <<Frame(root, curType, {}, Depth)>>
<1>16. OnHeap(E, saved, favs', curPath, root, curType, st)
  <2>1. root \notin Tree(E, Seeds(saved, favs'))
    BY <1>2, <1>11, <1>12
  <2> HIDE DEF root
  <2>2. QED
    BY <1>1, <1>8, <1>11, <1>13, <1>14, <1>15, <2>1, Started
<1>17. /\ OnHeap(heap', saved, favs', curPath, root, curType, st)
       /\ \A n \in DOMAIN heap' : n \in DOMAIN E /\ heap'[n] = E[n]
  <2>1. R \ {0} \subseteq DOMAIN E
    BY <1>2, <1>9, <1>13, <1>14 DEF RootOK
  <2>2. Seeds(saved, favs') \subseteq R /\ curPath \in R \cup {0} /\ root \in R \cup {0}
    BY <1>11
  <2>3. heap' = Collected(E, R)
    BY <1>6 DEF E, Reset
  <2>4. root # 0
    BY <1>5, <1>12, BoundAssumption DEF Nodes
  <2> HIDE DEF R, st, root
  <2>5. QED
    BY <1>16, <2>1, <2>2, <2>3, <2>4, CollectedKeeps
<1>18. HeapInv'
  BY <1>6, <1>17 DEF HeapInv, StartAt
<1>19. root # 0
  BY <1>5, <1>12, BoundAssumption DEF Nodes
<1>20. PlainOK' /\ ControlOK'
  BY <1>1, <1>6, <1>19 DEF IInv, PlainOK, ControlOK, StartAt, covVars
<1>21. SeedNodesStay
  BY <1>2, <1>9, <1>17 DEF SeedNodesStay
<1>22. QED
  BY <1>18, <1>20, <1>21 DEF IInv

(* A saved derivation is copied and stays saved.                           *)
LEMMA StartFromSavedKeeps ==
    ASSUME IInv, StartFromSaved
    PROVE  IInv' /\ SeedNodesStay
<1>1. pc = "start" /\ favs' = favs /\ curType \in Roots
  BY DEF StartFromSaved, IInv, ControlOK
<1>2. PICK seed \in Range(saved[curType]) : Replay(seed, FALSE)
  BY DEF StartFromSaved
<1>3. seed \in SeedRoots
  BY <1>1 DEF SeedRoots
<1>4. RootOK(heap, seed, curType)
  BY <1>1 DEF IInv, HeapInv, OnHeap, PathsOK
<1>5. favs' \in [Roots -> Seq(Nodes)] /\ \A t \in Roots : Range(favs'[t]) \subseteq Range(favs[t])
  BY <1>1 DEF IInv, PlainOK
<1>6. QED
  BY <1>1, <1>2, <1>3, <1>4, <1>5, ReplayKeeps

(* A favorite derivation is copied and leaves the queue.                   *)
LEMMA StartFromFavKeeps ==
    ASSUME IInv, StartFromFav
    PROVE  IInv' /\ SeedNodesStay
<1>1. /\ pc = "start" /\ curType \in Roots /\ favs \in [Roots -> Seq(Nodes)]
      /\ favs' = [favs EXCEPT ![curType] = Tail(@)] /\ favs[curType] # <<>>
  BY DEF StartFromFav, IInv, ControlOK, PlainOK
<1> DEFINE queue == favs[curType]
<1>2. queue \in Seq(Nodes) /\ queue # <<>>
  BY <1>1
<1> HIDE DEF queue
<1>3. Head(queue) \in Range(queue) /\ Tail(queue) \in Seq(Nodes)
      /\ Range(Tail(queue)) \subseteq Range(queue)
  <2>1. 1 \in DOMAIN queue /\ Head(queue) = queue[1]
    BY <1>2
  <2>2. \A i \in DOMAIN Tail(queue) : i + 1 \in DOMAIN queue /\ Tail(queue)[i] = queue[i + 1]
    BY <1>2
  <2>3. QED
    BY <1>2, <2>1, <2>2 DEF Range
<1>4. Replay(Head(queue), TRUE)
  BY DEF StartFromFav, queue
<1>5. Head(queue) \in SeedRoots
  BY <1>1, <1>3 DEF SeedRoots, queue
<1>6. RootOK(heap, Head(queue), curType)
  BY <1>1, <1>3 DEF IInv, HeapInv, OnHeap, PathsOK, queue
<1>7. favs' \in [Roots -> Seq(Nodes)] /\ \A t \in Roots : Range(favs'[t]) \subseteq Range(favs[t])
  BY <1>1, <1>3 DEF queue
<1>8. QED
  BY <1>1, <1>4, <1>5, <1>6, <1>7, ReplayKeeps

-----------------------------------------------------------------------------
(* GenerateMySQL.                                                          *)

(* What the innermost activation finds. *)
LEMMA RunFacts ==
    ASSUME IInv, Running
    PROVE  /\ pc = "run" /\ genRoot # 0 /\ curType \in Roots
           /\ HeapOK(heap) /\ PathsOK(heap, saved, favs) /\ WholeOK(heap, stack)
           /\ SeedRoots = Seeds(saved, favs) /\ SeedRoots \subseteq DOMAIN heap
           /\ Tree(heap, SeedRoots) \subseteq DOMAIN heap
           /\ RootOK(heap, genRoot, curType)
           /\ curPath # 0 => RootOK(heap, curPath, curType)
           /\ stack # <<>> /\ stack \in Seq(Frames)
           /\ StackOK(heap, stack, genRoot, curType, Tree(heap, SeedRoots))
           /\ Top \in Frames /\ FrameOK(heap, Top)
           /\ Top.node \in DOMAIN heap /\ Top.node \notin Tree(heap, SeedRoots)
           /\ \A k \in DOMAIN stack : stack[k].node = Top.node => k = Len(stack)
<1>1. pc = "run" /\ stack # <<>>
  BY DEF Running
<1>2. genRoot # 0 /\ curType \in Roots
  BY <1>1 DEF IInv, ControlOK
<1>3. SeedRoots = Seeds(saved, favs)
  BY DEF SeedRoots, Seeds
<1>4. /\ HeapOK(heap) /\ PathsOK(heap, saved, favs) /\ WholeOK(heap, stack)
      /\ RootOK(heap, genRoot, curType)
      /\ curPath # 0 => RootOK(heap, curPath, curType)
      /\ StackOK(heap, stack, genRoot, curType, Tree(heap, SeedRoots))
  BY <1>2, <1>3 DEF IInv, HeapInv, OnHeap
<1>5. stack \in Seq(Frames)
  BY <1>4 DEF StackOK
<1>6. Len(stack) \in DOMAIN stack /\ Top \in Frames
  BY <1>1, <1>5, FrameFacts DEF Top
<1>7. FrameOK(heap, Top) /\ Top.node \notin Tree(heap, SeedRoots)
      /\ \A k \in DOMAIN stack : stack[k].node = Top.node => k = Len(stack)
  BY <1>4, <1>6 DEF StackOK, Top
<1>8. Top.node \in DOMAIN heap
  BY <1>7 DEF FrameOK
<1>9. SeedRoots \subseteq DOMAIN heap
  BY <1>3, <1>4, SeedsFacts
<1>10. Tree(heap, SeedRoots) \subseteq DOMAIN heap
  BY <1>4, <1>9, TreeFacts DEF HeapOK
<1>11. QED
  BY <1>1, <1>2, <1>3, <1>4, <1>5, <1>6, <1>7, <1>8, <1>9, <1>10

(* A rule of its symbol fits the node of the innermost activation. *)
LEMMA TopFits ==
    ASSUME IInv, Running, NEW r \in RulesOf(Top.name)
    PROVE  Fits(heap, Top.node, r)
<1> DEFINE L == Len(stack)
<1>1. /\ HeapOK(heap) /\ RootOK(heap, genRoot, curType)
      /\ StackOK(heap, stack, genRoot, curType, Tree(heap, SeedRoots))
      /\ stack # <<>> /\ stack \in Seq(Frames)
  BY RunFacts
<1>2. L \in DOMAIN stack /\ Top = stack[L] /\ \A k \in DOMAIN stack : stack[k] \in Frames
  BY <1>1, FrameFacts DEF Top
<1> HIDE DEF L
<1>3. SUFFICES ASSUME NEW m \in DOMAIN heap, heap[m].rule # NoRule,
                      NEW k \in SymbolsOf(heap[m].rule),
                      Place(SymbolsOf(heap[m].rule), k) \in DOMAIN heap[m].kids,
                      heap[m].kids[Place(SymbolsOf(heap[m].rule), k)] = Top.node
               PROVE  r \in RulesOf(Items(heap[m].rule)[k])
  BY DEF Fits
<1>4. Top.node \in Range(heap[m].kids)
  BY <1>3 DEF Range
<1>5. Top.node # genRoot
  BY <1>1, <1>4 DEF RootOK, NoParent
<1> DEFINE f == stack[L - 1]
<1>6. /\ LinkOK(heap, f, Top) /\ FrameOK(heap, f)
      /\ Top.node \in Range(heap[f.node].kids)
  BY <1>1, <1>2, <1>5, StackPlace
<1> HIDE DEF f
<1>7. f.node \in DOMAIN heap
  BY <1>6 DEF FrameOK
<1>8. PICK q \in DOMAIN heap[f.node].kids : heap[f.node].kids[q] = Top.node
  BY <1>6 DEF Range
<1>9. OneParent(heap)
  BY <1>1 DEF HeapOK
<1>10. m = f.node
  BY <1>3, <1>7, <1>8, <1>9 DEF OneParent
<1>11. f.item > 0 /\ f.rule = heap[m].rule
  BY <1>3, <1>6, <1>10 DEF LinkOK, FrameOK
<1> DEFINE c == f.item - 1
           p == Place(SymbolsOf(f.rule), c)
<1>12. /\ c \in SymbolsOf(f.rule) /\ Top.name = Items(f.rule)[c]
       /\ p \in DOMAIN heap[m].kids /\ heap[m].kids[p] = Top.node
  BY <1>3, <1>6, <1>10 DEF LinkOK
<1>13. Place(SymbolsOf(heap[m].rule), k) = p
  BY <1>3, <1>9, <1>12 DEF OneParent
<1>14. heap[m].rule \in Rules
  BY <1>1, <1>3, NodeFacts
<1> HIDE DEF c
<1>15. k = c
  BY <1>3, <1>11, <1>12, <1>13, <1>14, PlaceFacts
<1>16. QED
  BY <1>11, <1>12, <1>15

(* Nothing but the node of the innermost activation changed, and that      *)
(* activation goes on as f.                                                *)
LEMMA TopChanged ==
    ASSUME IInv, Running, NEW h2, HeapOK(h2),
           \A m \in DOMAIN heap \ {Top.node} : m \in DOMAIN h2 /\ h2[m] = heap[m],
           Top.node \in DOMAIN h2,
           h2[Top.node].rule \in RulesOf(Top.name) \cup {NoRule, heap[Top.node].rule},
           \A m \in DOMAIN heap : NoParent(heap, m) => NoParent(h2, m),
           NEW f \in Frames, f.node = Top.node, f.name = Top.name, f.item > 0,
           FrameOK(h2, f),
           f.replaying => \A k \in 1 .. Len(stack) - 1 : stack[k].replaying
    PROVE  /\ PathsOK(h2, saved, favs) /\ RootOK(h2, genRoot, curType)
           /\ curPath # 0 => RootOK(h2, curPath, curType)
           /\ Tree(h2, SeedRoots) = Tree(heap, SeedRoots)
           /\ StackOK(h2, SetTop(f), genRoot, curType, Tree(h2, SeedRoots))
           /\ \A m \in Tree(heap, SeedRoots) : m \in DOMAIN h2 /\ h2[m] = heap[m]
<1> DEFINE L == Len(stack)
           T == Tree(heap, SeedRoots)
<1>1. /\ HeapOK(heap) /\ PathsOK(heap, saved, favs)
      /\ SeedRoots = Seeds(saved, favs) /\ SeedRoots \subseteq DOMAIN heap
      /\ T \subseteq DOMAIN heap
      /\ RootOK(heap, genRoot, curType)
      /\ curPath # 0 => RootOK(heap, curPath, curType)
      /\ StackOK(heap, stack, genRoot, curType, T)
      /\ stack # <<>> /\ stack \in Seq(Frames) /\ Top.node \notin T
      /\ \A k \in DOMAIN stack : stack[k].node = Top.node => k = Len(stack)
  BY RunFacts
<1>2. /\ L \in Nat /\ L > 0 /\ DOMAIN stack = 1 .. L /\ L \in DOMAIN stack
      /\ Top = stack[L]
  BY <1>1, FrameFacts DEF Top
<1>3. \A m \in T : m \in DOMAIN h2 /\ h2[m] = heap[m]
  BY <1>1
<1>4. PathsOK(h2, saved, favs) /\ Tree(h2, SeedRoots) = T
  <2>1. \A m \in Seeds(saved, favs) : NoParent(h2, m)
    BY <1>1, SeedsFacts
  <2>2. QED
    BY <1>1, <1>3, <2>1, PathsSame
<1>5. ASSUME NEW n, RootOK(heap, n, curType) PROVE RootOK(h2, n, curType)
  <2>1. n \in DOMAIN h2 /\ NoParent(h2, n)
    BY <1>5 DEF RootOK
  <2>2. CASE n # Top.node
    BY <1>5, <2>1, <2>2 DEF RootOK
  <2>3. CASE n = Top.node
    <3>1. \A m \in DOMAIN heap : Top.node \notin Range(heap[m].kids)
      BY <1>5, <2>3 DEF RootOK, NoParent
    <3>2. ASSUME NEW g, FrameOK(heap, g) PROVE Top.node \notin Range(heap[g.node].kids)
      BY <3>1, <3>2 DEF FrameOK
    <3>3. Top.name = curType
      BY <1>1, <1>2, <3>2, StackPlace
    <3>4. QED
      BY <1>5, <2>1, <2>3, <3>3 DEF RootOK
  <2>4. QED
    BY <2>2, <2>3
<1>6. StackOK(h2, SetTop(f), genRoot, curType, T)
  <2>1. ASSUME NEW k \in 1 .. L - 1 PROVE SameAt(heap, h2, stack[k])
    <3>1. k \in DOMAIN stack /\ k # L
      BY <1>2, <2>1
    <3>2. stack[k].node # Top.node
      BY <1>1, <3>1
    <3>3. stack[k].node \in DOMAIN heap
      BY <1>1, <3>1 DEF StackOK, FrameOK
    <3>4. QED
      BY <3>2, <3>3 DEF SameAt
  <2> HIDE DEF T
  <2>2. T \in SUBSET T /\ f.node = stack[Len(stack)].node /\ f.name = stack[Len(stack)].name
    BY DEF Top
  <2>3. QED
    BY <1>1, <2>1, <2>2, StackTop DEF SetTop
<1>7. QED
  BY <1>1, <1>3, <1>4, <1>5, <1>6

(* Incomplete nodes are still those of activations that add children. *)
LEMMA WholeTop ==
    ASSUME NEW h, NEW st \in Seq(Frames), st # <<>>, WholeOK(h, st), NEW h2, NEW st2,
           \A n \in DOMAIN h2 \ {st[Len(st)].node} :
              Complete(h2, n) \/ (n \in DOMAIN h /\ h2[n] = h[n]),
           \A k \in 1 .. Len(st) - 1 : k \in DOMAIN st2 /\ st2[k] = st[k],
           \/ st[Len(st)].node \in DOMAIN h2 => Complete(h2, st[Len(st)].node)
           \/ \E k \in DOMAIN st2 : st2[k].node = st[Len(st)].node /\ Growing(st2[k])
    PROVE  WholeOK(h2, st2)
<1> DEFINE X == st[Len(st)].node
<1>1. DOMAIN st = 1 .. Len(st) /\ Len(st) \in Nat
  OBVIOUS
<1>2. ASSUME NEW n \in DOMAIN h2
      PROVE  Complete(h2, n) \/ \E k \in DOMAIN st2 : st2[k].node = n /\ Growing(st2[k])
  <2>1. CASE n = X
    BY <1>2, <2>1
  <2>2. CASE n # X
    <3>1. SUFFICES ASSUME ~Complete(h2, n)
                   PROVE  \E k \in DOMAIN st2 : st2[k].node = n /\ Growing(st2[k])
      OBVIOUS
    <3>2. n \in DOMAIN h /\ h2[n] = h[n]
      BY <2>2, <3>1
    <3>3. ~Complete(h, n)
      BY <3>1, <3>2 DEF Complete
    <3>4. PICK k \in DOMAIN st : st[k].node = n /\ Growing(st[k])
      BY <3>2, <3>3 DEF WholeOK
    <3>5. k # Len(st)
      BY <2>2, <3>4
    <3>6. k \in 1 .. Len(st) - 1
      BY <1>1, <3>5
    <3>7. QED
      BY <3>4, <3>6
  <2>3. QED
    BY <2>1, <2>2
<1>3. QED
  BY <1>2 DEF WholeOK

(* An activation that adds no children stands at a complete node. *)
LEMMA TopComplete ==
    ASSUME IInv, Running, ~Growing(Top)
    PROVE  Complete(heap, Top.node)
<1>1. /\ WholeOK(heap, stack) /\ Top.node \in DOMAIN heap
      /\ \A k \in DOMAIN stack : stack[k].node = Top.node => k = Len(stack)
  BY RunFacts
<1>2. \A k \in DOMAIN stack : stack[k].node = Top.node => stack[k] = Top
  BY <1>1 DEF Top
<1>3. QED
  BY <1>1, <1>2 DEF WholeOK

(* The innermost activation returns from a complete node. *)
LEMMA PopKeeps ==
    ASSUME IInv, Running, Complete(heap, Top.node), stack' = Pop,
           UNCHANGED <<covVars, heap, pathVars, pc, tries, text, genRoot>>
    PROVE  IInv' /\ SeedNodesStay
<1>1. /\ HeapOK(heap) /\ PathsOK(heap, saved, favs) /\ WholeOK(heap, stack)
      /\ SeedRoots = Seeds(saved, favs)
      /\ RootOK(heap, genRoot, curType)
      /\ curPath # 0 => RootOK(heap, curPath, curType)
      /\ StackOK(heap, stack, genRoot, curType, Tree(heap, SeedRoots))
      /\ stack # <<>> /\ stack \in Seq(Frames) /\ pc = "run"
  BY RunFacts
<1>2. /\ StackOK(heap, stack', genRoot, curType, Tree(heap, SeedRoots))
      /\ DOMAIN stack' = 1 .. Len(stack) - 1
      /\ \A k \in 1 .. Len(stack) - 1 : k \in DOMAIN stack /\ stack'[k] = stack[k]
  BY <1>1, StackPop DEF Pop
<1>3. WholeOK(heap, stack')
  BY <1>1, <1>2, WholeTop DEF Top
<1>4. OnHeap(heap, saved, favs, curPath, genRoot, curType, stack')
  BY <1>1, <1>2, <1>3 DEF OnHeap
<1>5. HeapInv'
  BY <1>4 DEF HeapInv, pathVars
<1>6. PlainOK' /\ ControlOK'
  BY <1>1 DEF IInv, PlainOK, ControlOK, covVars, pathVars
<1>7. QED
  BY <1>5, <1>6 DEF IInv, SeedNodesStay

(* A refused symbol leaves a node without rule.                            *)
LEMMA RefuseRootKeeps ==
    ASSUME IInv, RefuseRoot
    PROVE  IInv' /\ SeedNodesStay
<1>1. Running /\ ~Growing(Top)
  BY DEF RefuseRoot, Growing
<1>2. Complete(heap, Top.node)
  BY <1>1, TopComplete
<1>3. QED
  BY <1>1, <1>2, PopKeeps DEF RefuseRoot

(* All items are handled: there is a child for each symbol of the rule.    *)
LEMMA ReturnKeeps ==
    ASSUME IInv, Return
    PROVE  IInv' /\ SeedNodesStay
<1>1. Running /\ Top.item > 0 /\ Top.item > Len(Items(Top.rule))
  BY DEF Return
<1>2. Top \in Frames /\ FrameOK(heap, Top) /\ Top.node \in DOMAIN heap
  BY <1>1, RunFacts
<1>3. Top.item \in Nat /\ Top.rule \in Rules /\ Top.replaying \in BOOLEAN
  <2>1. Top.item \in Nat /\ Top.rule \in Rules \cup {NoRule} /\ Top.replaying \in BOOLEAN
    BY <1>2, FrameTypes
  <2>2. Top.rule # NoRule
    BY <1>1, <1>2 DEF FrameOK
  <2>3. QED
    BY <2>1, <2>2
<1>4. Complete(heap, Top.node)
  <2>1. CASE Top.replaying
    BY <1>1, <2>1, TopComplete DEF Growing
  <2>2. CASE ~Top.replaying
    <3>1. SUFFICES ASSUME heap[Top.node].rule # NoRule
                   PROVE  Len(heap[Top.node].kids) = Cardinality(SymbolsOf(heap[Top.node].rule))
      BY DEF Complete
    <3>2. Top.rule = heap[Top.node].rule /\ Below(Top.rule, Top.item) = Len(heap[Top.node].kids)
      BY <1>1, <1>2, <2>2, <3>1 DEF FrameOK
    <3>3. Below(Top.rule, Top.item) = Cardinality(SymbolsOf(Top.rule))
      BY <1>1, <1>3, BelowStep
    <3>4. QED
      BY <3>2, <3>3
  <2>3. QED
    BY <2>1, <2>2
<1>5. QED
  BY <1>1, <1>4, PopKeeps DEF Return

(* A shifted and combined hash has no more bits than a hash has.           *)
LEMMA EdgeType ==
    ASSUME NEW hash \in Hashes, NEW r \in Rules, uniqueHash \in [Rules -> Hashes]
    PROVE  Edge(hash, r) \in Hashes
<1>1. uniqueHash[r] \in Hashes
  OBVIOUS
<1>2. HashBits \in Nat
  BY BoundAssumption
<1>3. {b - 1 : b \in hash \ {0}} \in Hashes
  BY <1>2 DEF Hashes
<1>4. QED
  BY <1>1, <1>3 DEF Edge, Xor, Hashes

(* What an activation becomes when it has chosen a rule. *)
Chosen(f, r, a, b) == [f EXCEPT !.rule = r, !.item = 1, !.fav = a, !.comp = b]

(* It is an activation still. *)
LEMMA ChosenFrame ==
    ASSUME NEW f \in Frames, NEW r \in Rules, NEW a \in BOOLEAN, NEW b \in BOOLEAN
    PROVE  LET g == Chosen(f, r, a, b)
           IN  /\ g \in Frames /\ g.node = f.node /\ g.name = f.name
               /\ g.rule = r /\ g.item = 1 /\ g.kid = f.kid /\ g.replaying = f.replaying
BY DEF Frames, Chosen

(* What an activation becomes when it takes the rule of the saved node.    *)
LEMMA ReplayingFrame ==
    ASSUME NEW f \in Frames, NEW r \in Rules
    PROVE  LET g == [f EXCEPT !.rule = r, !.item = 1, !.replaying = TRUE]
           IN  /\ g \in Frames /\ g.node = f.node /\ g.name = f.name
               /\ g.rule = r /\ g.item = 1 /\ g.kid = f.kid /\ g.replaying = TRUE
BY DEF Frames

(* The chosen rule is one of the symbol that the parent has at this place. *)
LEMMA ChooseRuleKeeps ==
    ASSUME IInv, NEW r \in Rules, ChooseRule(r)
    PROVE  IInv' /\ SeedNodesStay
<1> DEFINE a == CheckIsFav(Top.name, Top.hash, edges')
           b == IsInCompProds(Top.name, r)
           f == Chosen(Top, r, a, b)
           L == Len(stack)
<1>1. /\ Running /\ Top.item = 0 /\ heap[Top.node].rule = NoRule /\ r \in RulesOf(Top.name)
      /\ edges' = edges \cup {Edge(Top.hash, r)}
      /\ heap' = WithRule(Top.node, r) /\ stack' = SetTop(f)
      /\ UNCHANGED <<uniqueHash, pathVars, pc, tries, text, genRoot>>
  BY DEF ChooseRule, Chosen
<1>2. a \in BOOLEAN /\ b \in BOOLEAN
  BY DEF CheckIsFav, IsInCompProds
<1> HIDE DEF a, b
<1>3. /\ HeapOK(heap) /\ WholeOK(heap, stack) /\ SeedRoots = Seeds(saved, favs)
      /\ stack # <<>> /\ stack \in Seq(Frames) /\ pc = "run"
      /\ Top \in Frames /\ FrameOK(heap, Top) /\ Top.node \in DOMAIN heap
  BY <1>1, RunFacts
<1>4. Top.kid = 0 /\ Top.replaying \in BOOLEAN /\ ~Top.replaying /\ Top.hash \in Hashes
  BY <1>1, <1>3, FrameTypes DEF FrameOK
<1>5. /\ f \in Frames /\ f.node = Top.node /\ f.name = Top.name
      /\ f.rule = r /\ f.item = 1 /\ f.kid = 0 /\ f.replaying = Top.replaying
  BY <1>2, <1>3, <1>4, ChosenFrame
<1> HIDE DEF f
<1>6. r # NoRule /\ Below(r, 1) = 0
  BY RuleFacts, BelowStep
<1>7. /\ DOMAIN heap' = DOMAIN heap
      /\ heap'[Top.node].rule = r /\ heap'[Top.node].kids = <<>>
      /\ \A m \in DOMAIN heap \ {Top.node} : heap'[m] = heap[m]
      /\ HeapOK(heap')
      /\ \A m : NoParent(heap, m) => NoParent(heap', m)
  <2>1. Fits(heap, Top.node, r) /\ r \in Rules \cup {NoRule}
    BY <1>1, TopFits
  <2>2. heap' = Reset(heap, Top.node, r)
    BY <1>1 DEF WithRule, Reset
  <2>3. QED
    BY <1>3, <2>1, <2>2, ResetFacts
<1>8. FrameOK(heap', f)
  <2>1. Len(heap'[Top.node].kids) = 0
    BY <1>7
  <2>2. QED
    BY <1>3, <1>4, <1>5, <1>6, <1>7, <2>1 DEF FrameOK
<1>9. /\ PathsOK(heap', saved, favs) /\ RootOK(heap', genRoot, curType)
      /\ curPath # 0 => RootOK(heap', curPath, curType)
      /\ Tree(heap', SeedRoots) = Tree(heap, SeedRoots)
      /\ StackOK(heap', SetTop(f), genRoot, curType, Tree(heap', SeedRoots))
      /\ \A m \in Tree(heap, SeedRoots) : m \in DOMAIN heap' /\ heap'[m] = heap[m]
  <2>1. \A m \in DOMAIN heap \ {Top.node} : m \in DOMAIN heap' /\ heap'[m] = heap[m]
    BY <1>7
  <2>2. heap'[Top.node].rule \in RulesOf(Top.name) \cup {NoRule, heap[Top.node].rule}
    BY <1>1, <1>7
  <2>3. f.item > 0 /\ ~f.replaying
    BY <1>4, <1>5
  <2>4. QED
    BY <1>1, <1>3, <1>5, <1>7, <1>8, <2>1, <2>2, <2>3, TopChanged
<1>10. WholeOK(heap', stack')
  <2>1. /\ L \in DOMAIN stack' /\ stack'[L] = f
        /\ \A k \in 1 .. L - 1 : k \in DOMAIN stack' /\ stack'[k] = stack[k]
    BY <1>1, <1>3 DEF SetTop
  <2>2. Growing(f) /\ f.node = stack[L].node
    BY <1>4, <1>5 DEF Growing, Top
  <2> HIDE DEF L
  <2>3. QED
    BY <1>3, <1>7, <2>1, <2>2, WholeTop DEF L, Top
<1>11. HeapInv'
  <2>1. OnHeap(heap', saved, favs, curPath, genRoot, curType, stack')
    BY <1>1, <1>3, <1>7, <1>9, <1>10 DEF OnHeap
  <2>2. QED
    BY <1>1, <2>1 DEF HeapInv, pathVars
<1>12. PlainOK' /\ ControlOK'
  <2>1. edges' \subseteq Hashes
    BY <1>1, <1>4, EdgeType DEF IInv, PlainOK
  <2>2. QED
    BY <1>1, <1>3, <2>1 DEF IInv, PlainOK, ControlOK, pathVars
<1>13. QED
  BY <1>9, <1>11, <1>12 DEF IInv, SeedNodesStay

(* The heap stays and the innermost activation goes on as f, which adds    *)
(* children if it did before.                                              *)
LEMMA TopKeeps ==
    ASSUME IInv, Running, NEW f \in Frames, f.node = Top.node, f.name = Top.name,
           f.item > 0, FrameOK(heap, f), Growing(Top) => Growing(f),
           f.replaying => \A k \in 1 .. Len(stack) - 1 : stack[k].replaying
    PROVE  /\ StackOK(heap, SetTop(f), genRoot, curType, Tree(heap, SeedRoots))
           /\ WholeOK(heap, SetTop(f))
           /\ OnHeap(heap, saved, favs, curPath, genRoot, curType, SetTop(f))
<1> DEFINE L == Len(stack)
<1>1. /\ HeapOK(heap) /\ WholeOK(heap, stack) /\ PathsOK(heap, saved, favs)
      /\ SeedRoots = Seeds(saved, favs)
      /\ RootOK(heap, genRoot, curType)
      /\ curPath # 0 => RootOK(heap, curPath, curType)
      /\ stack # <<>> /\ stack \in Seq(Frames)
      /\ Top.node \in DOMAIN heap
  BY RunFacts
<1>2. StackOK(heap, SetTop(f), genRoot, curType, Tree(heap, SeedRoots))
  BY <1>1, TopChanged
<1>3. WholeOK(heap, SetTop(f))
  <2>1. /\ L \in DOMAIN SetTop(f) /\ SetTop(f)[L] = f
        /\ \A k \in 1 .. L - 1 : k \in DOMAIN SetTop(f) /\ SetTop(f)[k] = stack[k]
    BY <1>1 DEF SetTop
  <2>2. Complete(heap, Top.node) \/ (f.node = stack[L].node /\ Growing(f))
    BY TopComplete DEF Top
  <2> HIDE DEF L
  <2>3. QED
    BY <1>1, <2>1, <2>2, WholeTop DEF L, Top
<1>4. QED
  BY <1>1, <1>2, <1>3 DEF OnHeap

(* Only a replaying caller has called for a node that has a rule already.  *)
LEMMA ReuseRuleKeeps ==
    ASSUME IInv, ReuseRule
    PROVE  IInv' /\ SeedNodesStay
<1> DEFINE r == heap[Top.node].rule
           f == [Top EXCEPT !.rule = r, !.item = 1, !.replaying = TRUE]
<1>1. /\ Running /\ Top.item = 0 /\ r # NoRule /\ stack' = SetTop(f)
      /\ UNCHANGED <<covVars, heap, pathVars, pc, tries, text, genRoot>>
  BY DEF ReuseRule
<1>2. /\ HeapOK(heap) /\ pc = "run" /\ stack # <<>> /\ stack \in Seq(Frames)
      /\ StackOK(heap, stack, genRoot, curType, Tree(heap, SeedRoots))
      /\ Top \in Frames /\ FrameOK(heap, Top) /\ Top.node \in DOMAIN heap
  BY <1>1, RunFacts
<1>3. r \in Rules
  BY <1>1, <1>2, NodeFacts
<1> HIDE DEF r
<1>4. /\ f \in Frames /\ f.node = Top.node /\ f.name = Top.name
      /\ f.rule = r /\ f.item = 1 /\ f.kid = 0 /\ f.replaying = TRUE
  BY <1>1, <1>2, <1>3, ReplayingFrame DEF FrameOK
<1> HIDE DEF f
<1>5. Below(r, 1) = 0
  BY <1>3, BelowStep
<1>6. FrameOK(heap, f)
  BY <1>1, <1>2, <1>4, <1>5 DEF FrameOK, r
<1>7. ASSUME NEW k \in 1 .. Len(stack) - 1 PROVE stack[k].replaying
  <2> DEFINE L == Len(stack)
  <2>1. /\ DOMAIN stack = 1 .. L /\ L \in Nat /\ L \in DOMAIN stack /\ Top = stack[L]
    BY <1>2, FrameFacts DEF Top
  <2>0. k \in 1 .. L - 1
    OBVIOUS
  <2> HIDE DEF L
  <2>2. L # 1 /\ L - 1 \in DOMAIN stack /\ k \in DOMAIN stack /\ (k < L - 1 \/ k = L - 1)
    BY <2>0, <2>1
  <2>3. LinkOK(heap, stack[L - 1], Top)
    BY <1>2, <2>1, <2>2, StackPlace
  <2>4. stack[L - 1].replaying
    BY <1>1, <2>3 DEF LinkOK, r
  <2>5. QED
    BY <1>2, <2>2, <2>4 DEF StackOK
<1>8. ~Growing(Top)
  BY <1>1 DEF Growing
<1>9. OnHeap(heap, saved, favs, curPath, genRoot, curType, SetTop(f))
  BY <1>1, <1>4, <1>6, <1>7, <1>8, TopKeeps
<1>10. HeapInv'
  BY <1>1, <1>9 DEF HeapInv, pathVars
<1>11. PlainOK' /\ ControlOK'
  BY <1>1, <1>2 DEF IInv, PlainOK, ControlOK, covVars, pathVars
<1>12. QED
  BY <1>1, <1>10, <1>11 DEF IInv, SeedNodesStay

(* The activations below one that replays do so too. *)
LEMMA AllReplaying ==
    ASSUME IInv, Running, Top.replaying
    PROVE  \A k \in DOMAIN stack : stack[k].replaying
<1>1. /\ stack # <<>> /\ stack \in Seq(Frames)
      /\ StackOK(heap, stack, genRoot, curType, Tree(heap, SeedRoots))
  BY RunFacts
<1> DEFINE L == Len(stack)
<1>2. DOMAIN stack = 1 .. L /\ L \in Nat /\ L \in DOMAIN stack /\ Top = stack[L]
  BY <1>1, FrameFacts DEF Top
<1> HIDE DEF L
<1>3. ASSUME NEW k \in DOMAIN stack PROVE stack[k].replaying
  <2>1. k < L \/ k = L
    BY <1>2
  <2>2. QED
    BY <1>1, <1>2, <2>1 DEF StackOK
<1>4. QED
  BY <1>3

(* Going on by one item, or by one child, changes nothing else.            *)
LEMMA NextFrame ==
    ASSUME NEW f \in Frames
    PROVE  /\ LET g == [f EXCEPT !.item = @ + 1]
              IN  /\ g \in Frames /\ g.node = f.node /\ g.name = f.name /\ g.rule = f.rule
                  /\ g.item = f.item + 1 /\ g.kid = f.kid /\ g.replaying = f.replaying
           /\ LET g == [f EXCEPT !.kid = @ + 1]
              IN  /\ g \in Frames /\ g.node = f.node /\ g.name = f.name /\ g.rule = f.rule
                  /\ g.item = f.item /\ g.kid = f.kid + 1 /\ g.replaying = f.replaying
<1>1. f.item + 1 \in Nat /\ f.kid + 1 \in Nat
  BY DEF Frames
<1>2. LET g == [f EXCEPT !.item = f.item + 1]
      IN  /\ g \in Frames /\ g.node = f.node /\ g.name = f.name /\ g.rule = f.rule
          /\ g.item = f.item + 1 /\ g.kid = f.kid /\ g.replaying = f.replaying
  BY <1>1 DEF Frames
<1>3. LET g == [f EXCEPT !.kid = f.kid + 1]
      IN  /\ g \in Frames /\ g.node = f.node /\ g.name = f.name /\ g.rule = f.rule
          /\ g.item = f.item /\ g.kid = f.kid + 1 /\ g.replaying = f.replaying
  BY <1>1 DEF Frames
<1>4. QED
  BY <1>2, <1>3

(* What the innermost activation finds at an item of its rule. *)
LEMMA ItemFacts ==
    ASSUME IInv, AtItem
    PROVE  /\ Running /\ Top.rule \in Rules /\ Top.item \in Nat /\ Top.item > 0
           /\ Top.replaying \in BOOLEAN /\ Top.kid \in Nat
           /\ Item \in Symbols <=> Top.item \in SymbolsOf(Top.rule)
           /\ NextItem \in Frames /\ NextItem.node = Top.node /\ NextItem.name = Top.name
           /\ NextItem.rule = Top.rule /\ NextItem.item = Top.item + 1
           /\ NextItem.kid = Top.kid /\ NextItem.replaying = Top.replaying
           /\ NextItem.item > 0
           /\ Growing(Top) => Growing(NextItem)
           /\ NextItem.replaying => \A k \in 1 .. Len(stack) - 1 : stack[k].replaying
<1>1. Running /\ Top.item > 0 /\ Top.item =< Len(Items(Top.rule))
  BY DEF AtItem
<1>2. Top \in Frames /\ FrameOK(heap, Top) /\ stack # <<>> /\ stack \in Seq(Frames)
  BY <1>1, RunFacts
<1>3. /\ Top.item \in Nat /\ Top.rule \in Rules \cup {NoRule}
      /\ Top.replaying \in BOOLEAN /\ Top.kid \in Nat
  BY <1>2, FrameTypes
<1>4. Top.rule \in Rules
  BY <1>1, <1>2, <1>3 DEF FrameOK
<1>5. /\ NextItem \in Frames /\ NextItem.node = Top.node /\ NextItem.name = Top.name
      /\ NextItem.rule = Top.rule /\ NextItem.item = Top.item + 1
      /\ NextItem.kid = Top.kid /\ NextItem.replaying = Top.replaying
  BY <1>2, NextFrame DEF NextItem
<1>6. Item \in Symbols <=> Top.item \in SymbolsOf(Top.rule)
  <2>1. Items(Top.rule) \in Seq(STRING)
    BY <1>4, RuleFacts
  <2>2. Top.item \in DOMAIN Items(Top.rule)
    BY <1>1, <1>3, <2>1
  <2>3. QED
    BY <2>2 DEF Item, SymbolsOf
<1>7. NextItem.item > 0
  BY <1>3, <1>5
<1>8. Growing(Top) => Growing(NextItem)
  BY <1>5, <1>7 DEF Growing
<1>9. NextItem.replaying => \A k \in 1 .. Len(stack) - 1 : stack[k].replaying
  <2>1. \A k \in 1 .. Len(stack) - 1 : k \in DOMAIN stack
    BY <1>2
  <2>2. QED
    BY <1>1, <1>5, <2>1, AllReplaying
<1>10. QED
  BY <1>1, <1>3, <1>4, <1>5, <1>6, <1>7, <1>8, <1>9

(* An item without node is passed.                                         *)
LEMMA EmitKeeps ==
    ASSUME IInv, Emit
    PROVE  IInv' /\ SeedNodesStay
<1> DEFINE f == NextItem
<1>1. /\ AtItem /\ Item \notin Symbols /\ text' = TRUE /\ stack' = SetTop(f)
      /\ UNCHANGED <<covVars, heap, pathVars, pc, tries, genRoot>>
  BY DEF Emit
<1>2. /\ Running /\ Top.rule \in Rules /\ Top.item \in Nat /\ Top.item > 0
      /\ Top.item \notin SymbolsOf(Top.rule)
      /\ f \in Frames /\ f.node = Top.node /\ f.name = Top.name
      /\ f.rule = Top.rule /\ f.item = Top.item + 1
      /\ f.kid = Top.kid /\ f.replaying = Top.replaying /\ f.item > 0
      /\ Growing(Top) => Growing(f)
      /\ f.replaying => \A k \in 1 .. Len(stack) - 1 : stack[k].replaying
  BY <1>1, ItemFacts
<1> HIDE DEF f
<1>3. pc = "run" /\ FrameOK(heap, Top)
  BY <1>2, RunFacts
<1>4. Below(Top.rule, Top.item + 1) = Below(Top.rule, Top.item)
  BY <1>2, BelowStep
<1>5. FrameOK(heap, f)
  BY <1>2, <1>3, <1>4 DEF FrameOK
<1>6. OnHeap(heap, saved, favs, curPath, genRoot, curType, SetTop(f))
  BY <1>2, <1>5, TopKeeps
<1>7. HeapInv'
  BY <1>1, <1>6 DEF HeapInv, pathVars
<1>8. PlainOK' /\ ControlOK'
  BY <1>1, <1>3 DEF IInv, PlainOK, ControlOK, covVars, pathVars
<1>9. QED
  BY <1>1, <1>7, <1>8 DEF IInv, SeedNodesStay

(* The node of the cut item loses its rule and children, which leaves the  *)
(* nodes of all activations in the tree.                                   *)
LEMMA CutItemKeeps ==
    ASSUME IInv, CutItem
    PROVE  IInv' /\ SeedNodesStay
<1> DEFINE f == NextItem
           E == Reset(heap, Top.node, NoRule)
           R == SeedRoots \cup {curPath, genRoot}
           L == Len(stack)
<1>1. /\ AtItem /\ text' = TRUE /\ stack' = SetTop(f)
      /\ heap' = Collected(E, R)
      /\ UNCHANGED <<covVars, pathVars, pc, tries, genRoot>>
  BY DEF CutItem, Forgotten, Reset
<1>2. /\ Running /\ Top.rule \in Rules /\ Top.item \in Nat /\ Top.item > 0
      /\ f \in Frames /\ f.node = Top.node /\ f.name = Top.name
      /\ f.rule = Top.rule /\ f.item = Top.item + 1
      /\ f.kid = Top.kid /\ f.replaying = Top.replaying /\ f.item > 0
      /\ f.replaying => \A k \in 1 .. Len(stack) - 1 : stack[k].replaying
  BY <1>1, ItemFacts
<1> HIDE DEF f
<1>3. /\ pc = "run" /\ FrameOK(heap, Top) /\ HeapOK(heap) /\ WholeOK(heap, stack)
      /\ SeedRoots = Seeds(saved, favs) /\ SeedRoots \subseteq DOMAIN heap
      /\ stack # <<>> /\ stack \in Seq(Frames) /\ Top.node \in DOMAIN heap /\ genRoot # 0
      /\ RootOK(heap, genRoot, curType)
      /\ curPath # 0 => RootOK(heap, curPath, curType)
  BY <1>2, RunFacts
<1>4. /\ DOMAIN E = DOMAIN heap
      /\ E[Top.node].rule = NoRule /\ E[Top.node].kids = <<>>
      /\ \A m \in DOMAIN heap \ {Top.node} : E[m] = heap[m]
      /\ HeapOK(E)
      /\ \A m : NoParent(heap, m) => NoParent(E, m)
  <2>1. Fits(heap, Top.node, NoRule) /\ NoRule \in Rules \cup {NoRule}
    BY DEF Fits
  <2>2. QED
    BY <1>3, <2>1, ResetFacts
<1> HIDE DEF E
<1>5. FrameOK(E, f)
  BY <1>2, <1>3, <1>4 DEF FrameOK
<1>6. /\ PathsOK(E, saved, favs) /\ RootOK(E, genRoot, curType)
      /\ curPath # 0 => RootOK(E, curPath, curType)
      /\ Tree(E, SeedRoots) = Tree(heap, SeedRoots)
      /\ StackOK(E, SetTop(f), genRoot, curType, Tree(E, SeedRoots))
      /\ \A m \in Tree(heap, SeedRoots) : m \in DOMAIN E /\ E[m] = heap[m]
  <2>1. \A m \in DOMAIN heap \ {Top.node} : m \in DOMAIN E /\ E[m] = heap[m]
    BY <1>4
  <2>2. E[Top.node].rule \in RulesOf(Top.name) \cup {NoRule, heap[Top.node].rule}
    BY <1>4
  <2>3. QED
    BY <1>2, <1>3, <1>4, <1>5, <2>1, <2>2, TopChanged
<1>7. WholeOK(E, SetTop(f))
  <2>1. \A k \in 1 .. L - 1 : k \in DOMAIN SetTop(f) /\ SetTop(f)[k] = stack[k]
    BY <1>3 DEF SetTop
  <2>2. Complete(E, Top.node)
    BY <1>4 DEF Complete
  <2> HIDE DEF L
  <2>3. QED
    BY <1>3, <1>4, <2>1, <2>2, WholeTop DEF L, Top
<1>8. OnHeap(E, saved, favs, curPath, genRoot, curType, SetTop(f))
  BY <1>3, <1>4, <1>6, <1>7 DEF OnHeap
<1>9. /\ OnHeap(heap', saved, favs, curPath, genRoot, curType, SetTop(f))
      /\ \A n \in DOMAIN heap' : n \in DOMAIN E /\ heap'[n] = E[n]
  <2>1. R \ {0} \subseteq DOMAIN E
    BY <1>3, <1>4 DEF RootOK
  <2>2. Seeds(saved, favs) \subseteq R /\ curPath \in R \cup {0} /\ genRoot \in R \cup {0}
    BY <1>3
  <2> HIDE DEF R
  <2>3. QED
    BY <1>1, <1>3, <1>8, <2>1, <2>2, CollectedKeeps
<1>10. HeapInv'
  BY <1>1, <1>9 DEF HeapInv, pathVars
<1>11. PlainOK' /\ ControlOK'
  BY <1>1, <1>3 DEF IInv, PlainOK, ControlOK, covVars, pathVars
<1>12. QED
  BY <1>6, <1>9, <1>10, <1>11 DEF IInv, SeedNodesStay

(* The heap is now h2 and the innermost activation, now f, calls g. *)
LEMMA CallKeeps ==
    ASSUME IInv, Running, NEW h2, HeapOK(h2), NEW f \in Frames, NEW g \in Frames,
           f.node = Top.node, PathsOK(h2, saved, favs),
           RootOK(h2, genRoot, curType), curPath # 0 => RootOK(h2, curPath, curType),
           StackOK(h2, SetTop(f), genRoot, curType, Tree(h2, SeedRoots)),
           \A n \in DOMAIN h2 \ {Top.node} :
              Complete(h2, n) \/ (n \in DOMAIN heap /\ h2[n] = heap[n]),
           Complete(h2, Top.node) \/ Growing(f),
           g.node \in DOMAIN h2, g.item = 0, g.kid = 0, ~g.replaying,
           LinkOK(h2, f, g), g.node \notin Tree(h2, SeedRoots),
           \A k \in DOMAIN stack : stack[k].node # g.node
    PROVE  OnHeap(h2, saved, favs, curPath, genRoot, curType, Push(SetTop(f), g))
<1> DEFINE st == SetTop(f)
           st2 == Push(st, g)
           L == Len(stack)
<1>1. /\ stack # <<>> /\ stack \in Seq(Frames) /\ WholeOK(heap, stack)
      /\ SeedRoots = Seeds(saved, favs)
  BY RunFacts
<1>2. L \in Nat /\ L > 0 /\ DOMAIN stack = 1 .. L /\ L \in DOMAIN stack /\ Top = stack[L]
  BY <1>1, FrameFacts DEF Top
<1>3. st \in Seq(Frames) /\ Len(st) = L /\ st # <<>> /\ DOMAIN st = 1 .. L
  BY <1>1, <1>2 DEF SetTop
<1>4. st[L] = f /\ \A k \in 1 .. L - 1 : st[k] = stack[k]
  <2>1. st = [stack EXCEPT ![L] = f]
    BY DEF SetTop
  <2> HIDE DEF st, L
  <2>2. QED
    BY <1>2, <2>1
<1>5. \A k \in DOMAIN st : st[k].node = stack[k].node
  BY <1>2, <1>3 DEF SetTop
<1>6. \A k \in DOMAIN st2 : st2[k] = IF k = L + 1 THEN g ELSE st[k]
  BY <1>3 DEF Push
<1>7. DOMAIN st2 = 1 .. L + 1
  BY <1>3 DEF Push
<1> HIDE DEF st
<1>8. FrameOK(h2, g)
  BY DEF FrameOK
<1>9. StackOK(h2, st2, genRoot, curType, Tree(h2, SeedRoots))
  <2>1. \A k \in DOMAIN st : st[k].node # g.node
    BY <1>2, <1>3, <1>5
  <2>2. LinkOK(h2, st[Len(st)], g)
    BY <1>3, <1>4
  <2>3. StackOK(h2, st, genRoot, curType, Tree(h2, SeedRoots))
    BY DEF st
  <2>4. QED
    BY <1>3, <1>8, <2>1, <2>2, <2>3, StackPush DEF Push
<1> HIDE DEF st2, L
<1>10. WholeOK(h2, st2)
  <2>1. \A k \in 1 .. L - 1 : k \in DOMAIN st2 /\ st2[k] = stack[k]
    BY <1>2, <1>4, <1>6, <1>7
  <2>2. L \in DOMAIN st2 /\ st2[L] = f
    BY <1>2, <1>4, <1>6, <1>7
  <2>3. f.node = stack[L].node
    BY <1>2
  <2>4. QED
    BY <1>1, <1>2, <2>1, <2>2, <2>3, WholeTop DEF L
<1>11. QED
  BY <1>1, <1>9, <1>10 DEF OnHeap, st, st2

(* The new child comes at the place of its symbol.                         *)
LEMMA FreshChildKeeps ==
    ASSUME IInv, FreshChild
    PROVE  IInv' /\ SeedNodesStay
<1> DEFINE c == NewNode
           node == [Blank EXCEPT !.fav = Top.fav]
           A == Allocated(c, node)
           n == Top.node
           f == NextItem
           g == Frame(c, Item, uniqueHash[Top.rule], ChildDepth(Top))
<1>1. /\ AtItem /\ Item \in Symbols /\ ~Top.replaying /\ Free # {}
      /\ heap' = Grown(A, n, c) /\ stack' = Push(SetTop(f), g)
      /\ UNCHANGED <<covVars, pathVars, pc, tries, text, genRoot>>
  BY DEF FreshChild, Grown
<1>2. /\ Running /\ Top.rule \in Rules /\ Top.item \in Nat /\ Top.item > 0
      /\ Top.item \in SymbolsOf(Top.rule)
      /\ f \in Frames /\ f.node = Top.node /\ f.name = Top.name
      /\ f.rule = Top.rule /\ f.item = Top.item + 1
      /\ f.kid = Top.kid /\ f.replaying = Top.replaying /\ f.item > 0
      /\ f.replaying => \A k \in 1 .. Len(stack) - 1 : stack[k].replaying
  BY <1>1, ItemFacts
<1> HIDE DEF f
<1>3. /\ pc = "run" /\ FrameOK(heap, Top) /\ HeapOK(heap) /\ Top \in Frames
      /\ Tree(heap, SeedRoots) \subseteq DOMAIN heap
      /\ StackOK(heap, stack, genRoot, curType, Tree(heap, SeedRoots))
      /\ n \in DOMAIN heap
  BY <1>2, RunFacts
<1>4. c \in Nodes /\ c \notin DOMAIN heap
  <2>1. c \in Free
    BY <1>1 DEF NewNode
  <2>2. QED
    BY <2>1 DEF Free
<1> HIDE DEF c
<1>5. node \in PathNodes /\ node.rule = NoRule /\ node.kids = <<>>
  <2>1. Top.fav \in BOOLEAN
    BY <1>3, FrameTypes
  <2>2. <<>> \in Seq(Nodes)
    OBVIOUS
  <2>3. QED
    BY <2>1, <2>2 DEF Blank, PathNodes
<1> HIDE DEF node
<1>6. /\ DOMAIN A = DOMAIN heap \cup {c}
      /\ A[c] = node /\ \A m \in DOMAIN heap : A[m] = heap[m]
      /\ HeapOK(A)
      /\ NoParent(A, c) /\ \A m : NoParent(heap, m) => NoParent(A, m)
  BY <1>3, <1>4, <1>5, AllocatedFacts
<1> HIDE DEF A
<1>7. n \in DOMAIN A /\ c \in DOMAIN A /\ A[c].rule = NoRule /\ n # c
  BY <1>3, <1>4, <1>5, <1>6
<1> HIDE DEF n
<1>8. /\ DOMAIN heap' = DOMAIN A
      /\ heap'[n].rule = A[n].rule /\ heap'[n].kids = Append(A[n].kids, c)
      /\ \A m \in DOMAIN A \ {n} : heap'[m] = A[m]
      /\ HeapOK(heap')
      /\ \A m : NoParent(A, m) /\ m # c => NoParent(heap', m)
  BY <1>1, <1>6, <1>7, AppendedFacts
<1>9. /\ heap'[n].rule = heap[n].rule /\ heap'[n].kids = Append(heap[n].kids, c)
      /\ heap'[c].rule = NoRule /\ n \in DOMAIN heap' /\ c \in DOMAIN heap'
      /\ \A m \in DOMAIN heap \ {n} : m \in DOMAIN heap' /\ heap'[m] = heap[m]
      /\ \A m \in DOMAIN heap : NoParent(heap, m) => NoParent(heap', m)
  BY <1>3, <1>4, <1>5, <1>6, <1>7, <1>8 DEF n
<1> DEFINE kids == heap[n].kids
           r == Top.rule
           i == Top.item
<1>10. /\ kids \in Seq(Nodes) /\ Len(kids) \in Nat
       /\ Len(Append(kids, c)) = Len(kids) + 1
       /\ Len(kids) + 1 \in DOMAIN Append(kids, c)
       /\ Append(kids, c)[Len(kids) + 1] = c
       /\ c \in Range(Append(kids, c))
  <2>1. kids \in Seq(Nodes)
    BY <1>3, NodeFacts DEF n
  <2> HIDE DEF kids
  <2>2. /\ Len(kids) \in Nat /\ Len(Append(kids, c)) = Len(kids) + 1
        /\ Len(kids) + 1 \in DOMAIN Append(kids, c)
        /\ Append(kids, c)[Len(kids) + 1] = c
    BY <1>4, <2>1
  <2>3. QED
    BY <2>1, <2>2 DEF Range
<1>11. /\ Below(r, i + 1) = Below(r, i) + 1 /\ Place(SymbolsOf(r), i) = Below(r, i) + 1
  BY <1>2, BelowStep
<1>12. heap[n].rule # NoRule => r = heap[n].rule /\ Below(r, i) = Len(kids)
  BY <1>1, <1>2, <1>3 DEF FrameOK, n
<1>13. FrameOK(heap', f)
  BY <1>1, <1>2, <1>3, <1>9, <1>10, <1>11, <1>12 DEF FrameOK, n
<1>14. /\ PathsOK(heap', saved, favs) /\ RootOK(heap', genRoot, curType)
       /\ curPath # 0 => RootOK(heap', curPath, curType)
       /\ Tree(heap', SeedRoots) = Tree(heap, SeedRoots)
       /\ StackOK(heap', SetTop(f), genRoot, curType, Tree(heap', SeedRoots))
       /\ \A m \in Tree(heap, SeedRoots) : m \in DOMAIN heap' /\ heap'[m] = heap[m]
  <2>1. heap'[Top.node].rule \in RulesOf(Top.name) \cup {NoRule, heap[Top.node].rule}
    BY <1>9 DEF n
  <2>2. QED
    BY <1>2, <1>8, <1>9, <1>13, <2>1, TopChanged DEF n
<1>15. /\ g \in Frames /\ g.node = c /\ g.name = Item
       /\ g.item = 0 /\ g.kid = 0 /\ g.replaying = FALSE
  <2>1. Item \in Names
    BY <1>1 DEF Symbols
  <2>2. uniqueHash[r] \in Hashes
    BY <1>2 DEF IInv, PlainOK
  <2>3. ChildDepth(Top) \in Int
    BY <1>3, FrameTypes DEF ChildDepth
  <2> DEFINE name == Item
             hash == uniqueHash[Top.rule]
             depth == ChildDepth(Top)
  <2>4. g = Frame(c, name, hash, depth)
    OBVIOUS
  <2>5. name \in Names /\ hash \in Hashes /\ depth \in Int /\ c \in Nodes
    BY <1>4, <2>1, <2>2, <2>3
  <2> HIDE DEF g, name, hash, depth
  <2>6. /\ g \in Frames /\ g.node = c /\ g.name = name
        /\ g.item = 0 /\ g.kid = 0 /\ g.replaying = FALSE
    BY <2>4, <2>5 DEF Frame, Frames
  <2>7. QED
    BY <2>6 DEF name
<1> HIDE DEF g
<1>16. LinkOK(heap', f, g)
  <2>1. f.item - 1 = i /\ f.rule = r /\ f.node = n /\ i \in SymbolsOf(r)
    BY <1>2 DEF n
  <2>2. g.name = Items(r)[i]
    BY <1>15 DEF Item
  <2>3. g.node \in Range(heap'[n].kids)
    BY <1>9, <1>10, <1>15
  <2>4. heap'[n].rule # NoRule =>
           /\ Place(SymbolsOf(r), i) \in DOMAIN heap'[n].kids
           /\ heap'[n].kids[Place(SymbolsOf(r), i)] = g.node
    BY <1>9, <1>10, <1>11, <1>12, <1>15
  <2>5. heap'[g.node].rule = NoRule
    BY <1>9, <1>15
  <2> HIDE DEF r, i
  <2>6. QED
    BY <1>2, <2>1, <2>2, <2>3, <2>4, <2>5 DEF LinkOK
<1>17. OnHeap(heap', saved, favs, curPath, genRoot, curType, Push(SetTop(f), g))
  <2>1. \A m \in DOMAIN heap' \ {Top.node} :
           Complete(heap', m) \/ (m \in DOMAIN heap /\ heap'[m] = heap[m])
    BY <1>6, <1>8, <1>9 DEF Complete, n
  <2>2. Growing(f)
    BY <1>1, <1>2 DEF Growing
  <2>3. g.node \in DOMAIN heap' /\ g.node \notin Tree(heap', SeedRoots)
    BY <1>3, <1>4, <1>9, <1>14, <1>15
  <2>4. \A k \in DOMAIN stack : stack[k].node # g.node
    BY <1>3, <1>4, <1>15 DEF StackOK, FrameOK
  <2>5. QED
    BY <1>2, <1>8, <1>14, <1>15, <1>16, <2>1, <2>2, <2>3, <2>4, CallKeeps
<1>18. HeapInv'
  BY <1>1, <1>17 DEF HeapInv, pathVars
<1>19. PlainOK' /\ ControlOK'
  BY <1>1, <1>3, RunFacts, <1>2 DEF IInv, PlainOK, ControlOK, covVars, pathVars
<1>20. QED
  BY <1>14, <1>18, <1>19 DEF IInv, SeedNodesStay

(* The next child is at the place of its symbol and is no node of another  *)
(* activation, or the replay is given up at a heap that is whole.          *)
LEMMA ReplayChildKeeps ==
    ASSUME IInv, ReplayChild
    PROVE  IInv' /\ SeedNodesStay
<1> DEFINE n == Top.node
           kids == heap[n].kids
           c == kids[Top.kid + 1]
           f == [NextItem EXCEPT !.kid = @ + 1]
           g == Frame(c, Item, uniqueHash[Top.rule], Top.depth)
           r == Top.rule
           i == Top.item
<1>1. /\ AtItem /\ Item \in Symbols /\ Top.replaying
      /\ UNCHANGED <<covVars, heap, pathVars, pc, tries, genRoot>>
      /\ \/ Top.kid >= Len(kids) /\ stack' = <<>> /\ text' = FALSE
         \/ ~(Top.kid >= Len(kids)) /\ stack' = Push(SetTop(f), g) /\ text' = text
  BY DEF ReplayChild
<1>2. /\ Running /\ r \in Rules /\ i \in Nat /\ i > 0 /\ Top.kid \in Nat
      /\ i \in SymbolsOf(r)
      /\ NextItem \in Frames /\ NextItem.node = Top.node /\ NextItem.name = Top.name
      /\ NextItem.rule = r /\ NextItem.item = i + 1
      /\ NextItem.kid = Top.kid /\ NextItem.replaying = Top.replaying
      /\ NextItem.replaying => \A k \in 1 .. Len(stack) - 1 : stack[k].replaying
  BY <1>1, ItemFacts
<1>3. /\ f \in Frames /\ f.node = Top.node /\ f.name = Top.name
      /\ f.rule = r /\ f.item = i + 1 /\ f.kid = Top.kid + 1 /\ f.replaying = Top.replaying
  BY <1>2, NextFrame
<1> HIDE DEF f
<1>4. /\ pc = "run" /\ FrameOK(heap, Top) /\ HeapOK(heap) /\ Top \in Frames
      /\ PathsOK(heap, saved, favs) /\ WholeOK(heap, stack)
      /\ SeedRoots = Seeds(saved, favs) /\ SeedRoots \subseteq DOMAIN heap
      /\ StackOK(heap, stack, genRoot, curType, Tree(heap, SeedRoots))
      /\ RootOK(heap, genRoot, curType)
      /\ curPath # 0 => RootOK(heap, curPath, curType)
      /\ stack # <<>> /\ stack \in Seq(Frames)
      /\ n \in DOMAIN heap /\ n \notin Tree(heap, SeedRoots)
      /\ \A k \in DOMAIN stack : stack[k].node = n => k = Len(stack)
  BY <1>2, RunFacts
<1>5. PlainOK' /\ ControlOK'
  <2>1. text' \in BOOLEAN
    BY <1>1 DEF IInv, PlainOK
  <2>2. QED
    BY <1>1, <1>4, <2>1 DEF IInv, PlainOK, ControlOK, covVars, pathVars
<1>6. CASE stack' = <<>>
  <2>1. \A k \in DOMAIN stack : ~Growing(stack[k])
    BY <1>1, <1>2, AllReplaying DEF Growing
  <2>2. WholeOK(heap, <<>>)
    BY <1>4, <2>1 DEF WholeOK
  <2>3. OnHeap(heap, saved, favs, curPath, genRoot, curType, <<>>)
    BY <1>4, <2>2, StackEmpty DEF OnHeap
  <2>4. HeapInv'
    BY <1>1, <1>6, <2>3 DEF HeapInv, pathVars
  <2>5. QED
    BY <1>1, <1>5, <2>4 DEF IInv, SeedNodesStay
<1>7. CASE ~(Top.kid >= Len(kids)) /\ stack' = Push(SetTop(f), g)
  <2>1. kids \in Seq(Nodes) /\ \A p \in DOMAIN kids : kids[p] \in DOMAIN heap
    BY <1>4, NodeFacts
  <2> HIDE DEF kids
  <2>2. Top.kid + 1 \in DOMAIN kids /\ kids # <<>>
    BY <1>2, <1>7, <2>1
  <2>3. c \in DOMAIN heap /\ c \in Range(kids) /\ c \in Nodes
    BY <2>1, <2>2 DEF Range
  <2>4. /\ Below(r, i + 1) = Below(r, i) + 1 /\ Place(SymbolsOf(r), i) = Below(r, i) + 1
    BY <1>2, BelowStep
  <2>5. /\ heap[n].rule # NoRule
        /\ r = heap[n].rule /\ Below(r, i) = Top.kid
    BY <1>1, <1>2, <1>4, <2>2 DEF FrameOK, kids
  <2>6. FrameOK(heap, f)
    BY <1>1, <1>2, <1>3, <1>4, <2>4, <2>5 DEF FrameOK
  <2>7. ~Growing(Top) /\ f.item > 0
    BY <1>1, <1>2, <1>3 DEF Growing
  <2>8. StackOK(heap, SetTop(f), genRoot, curType, Tree(heap, SeedRoots))
    BY <1>2, <1>3, <2>6, <2>7, TopKeeps
  <2>9. Complete(heap, n)
    BY <1>2, <2>7, TopComplete
  <2>10. /\ g \in Frames /\ g.node = c /\ g.name = Item
         /\ g.item = 0 /\ g.kid = 0 /\ g.replaying = FALSE
    <3>1. Item \in Names
      BY <1>1 DEF Symbols
    <3>2. uniqueHash[r] \in Hashes
      BY <1>2 DEF IInv, PlainOK
    <3>3. Top.depth \in Int
      BY <1>4, FrameTypes
    <3> DEFINE name == Item
               hash == uniqueHash[Top.rule]
               depth == Top.depth
    <3>4. g = Frame(c, name, hash, depth)
      OBVIOUS
    <3>5. name \in Names /\ hash \in Hashes /\ depth \in Int /\ c \in Nodes
      BY <2>3, <3>1, <3>2, <3>3
    <3> HIDE DEF c, g, name, hash, depth
    <3>6. /\ g \in Frames /\ g.node = c /\ g.name = name
          /\ g.item = 0 /\ g.kid = 0 /\ g.replaying = FALSE
      BY <3>4, <3>5 DEF Frame, Frames
    <3>7. QED
      BY <3>6 DEF name
  <2> HIDE DEF g
  <2>11. LinkOK(heap, f, g)
    <3>1. f.item - 1 = i /\ f.rule = r /\ f.node = n /\ f.item > 0
      BY <1>2, <1>3
    <3>2. g.name = Items(r)[i]
      BY <2>10 DEF Item
    <3>3. g.node \in Range(heap[n].kids)
      BY <2>3, <2>10 DEF kids
    <3>4. /\ Place(SymbolsOf(r), i) \in DOMAIN heap[n].kids
          /\ heap[n].kids[Place(SymbolsOf(r), i)] = g.node
      BY <2>2, <2>4, <2>5, <2>10 DEF kids
    <3>5. f.replaying
      BY <1>1, <1>3
    <3> HIDE DEF r, i, n
    <3>6. QED
      BY <1>2, <3>1, <3>2, <3>3, <3>4, <3>5 DEF LinkOK
  <2>12. c \notin Tree(heap, SeedRoots)
    <3>1. \A m \in SeedRoots : NoParent(heap, m)
      BY <1>4, SeedsFacts
    <3>2. c \in Range(heap[n].kids)
      BY <2>3 DEF kids
    <3> HIDE DEF c, n
    <3>3. QED
      BY <1>4, <3>1, <3>2, TreeOutside DEF HeapOK
  <2>13. ASSUME NEW k \in DOMAIN stack PROVE stack[k].node # c
    <3>1. c # genRoot
      BY <1>4, <2>3 DEF RootOK, NoParent, kids
    <3>2. SUFFICES ASSUME stack[k].node = c PROVE FALSE
      OBVIOUS
    <3> DEFINE b == stack[k - 1]
    <3>3. k > 1 /\ k - 1 \in DOMAIN stack /\ FrameOK(heap, b) /\ c \in Range(heap[b.node].kids)
      BY <1>4, <3>1, <3>2, StackPlace
    <3>4. PICK p \in DOMAIN heap[b.node].kids : heap[b.node].kids[p] = c
      BY <3>3 DEF Range
    <3>5. b.node \in DOMAIN heap
      BY <3>3 DEF FrameOK
    <3>6. b.node = n
      BY <1>4, <2>2, <3>4, <3>5 DEF HeapOK, OneParent, kids
    <3>7. k - 1 = Len(stack)
      BY <1>4, <3>3, <3>6
    <3>8. DOMAIN stack = 1 .. Len(stack) /\ Len(stack) \in Nat
      BY <1>4
    <3>9. QED
      BY <3>7, <3>8
  <2>14. OnHeap(heap, saved, favs, curPath, genRoot, curType, Push(SetTop(f), g))
    <3>1. \A m \in DOMAIN heap \ {Top.node} :
             Complete(heap, m) \/ (m \in DOMAIN heap /\ heap[m] = heap[m])
      OBVIOUS
    <3> HIDE DEF c
    <3>2. QED
      BY <1>2, <1>3, <1>4, <2>3, <2>8, <2>9, <2>10, <2>11, <2>12, <2>13, <3>1, CallKeeps
  <2>15. HeapInv'
    BY <1>1, <1>7, <2>14 DEF HeapInv, pathVars
  <2>16. QED
    BY <1>1, <1>5, <2>15 DEF IInv, SeedNodesStay
<1>8. QED
  BY <1>1, <1>6, <1>7

-----------------------------------------------------------------------------
(* Feedback.                                                               *)

(* The path is credited or not, and forgotten. *)
LEMMA ForgetKeeps ==
    ASSUME IInv, pc = "idle", Forget, PathsOK(heap, saved', favs'),
           saved' \in [Roots -> Seq(Nodes)], favs' \in [Roots -> Seq(Nodes)]
    PROVE  IInv' /\ SeedNodesStay
<1> DEFINE S2 == Seeds(saved', favs')
<1>1. /\ stack = <<>> /\ genRoot = 0 /\ HeapOK(heap)
      /\ \A n \in DOMAIN heap : Complete(heap, n)
  BY Idle
<1>2. WholeOK(heap, <<>>)
  BY <1>1 DEF WholeOK
<1>3. OnHeap(heap, saved', favs', 0, 0, curType, <<>>)
  BY <1>1, <1>2, StackEmpty DEF OnHeap
<1>4. S2 \subseteq DOMAIN heap
  BY <1>1, SeedsFacts
<1>5. heap' = Collected(heap, S2)
  BY DEF Forget, Seeds
<1>6. /\ OnHeap(heap', saved', favs', 0, 0, curType, <<>>)
      /\ \A n \in DOMAIN heap' : heap'[n] = heap[n]
  <2>1. S2 \ {0} \subseteq DOMAIN heap /\ Seeds(saved', favs') \subseteq S2
    BY <1>4
  <2> HIDE DEF S2
  <2>2. QED
    BY <1>3, <1>5, <2>1, CollectedKeeps
<1>7. HeapInv'
  BY <1>1, <1>6 DEF HeapInv, Forget
<1>8. PlainOK' /\ ControlOK'
  BY <1>1 DEF IInv, PlainOK, ControlOK, Forget, covVars
<1>9. QED
  BY <1>6, <1>7, <1>8 DEF IInv, SeedNodesStay

(* Appending adds one element to the range.                                *)
LEMMA AppendRange ==
    ASSUME NEW X, NEW s \in Seq(X), NEW x \in X
    PROVE  Append(s, x) \in Seq(X) /\ Range(Append(s, x)) = Range(s) \cup {x}
<1> DEFINE t == Append(s, x)
<1>1. /\ t \in Seq(X) /\ DOMAIN t = DOMAIN s \cup {Len(s) + 1}
      /\ t[Len(s) + 1] = x /\ \A i \in DOMAIN s : t[i] = s[i]
  OBVIOUS
<1> HIDE DEF t
<1>2. Range(t) = Range(s) \cup {x}
  BY <1>1 DEF Range
<1>3. QED
  BY <1>1, <1>2 DEF t

(* A credited path is a derivation of its type, and has a favorite node if *)
(* it goes to the favorite ones.                                           *)
LEMMA CreditedFacts ==
    ASSUME IInv, pc = "idle", curPath # 0, SaveFavPath,
           saved' = saved \/ saved' = [saved EXCEPT ![curType] = Append(@, curPath)]
    PROVE  /\ PathsOK(heap, saved', favs')
           /\ saved' \in [Roots -> Seq(Nodes)] /\ favs' \in [Roots -> Seq(Nodes)]
<1>1. /\ HeapOK(heap) /\ PathsOK(heap, saved, favs) /\ RootOK(heap, curPath, curType)
      /\ curType \in Roots
      /\ saved \in [Roots -> Seq(Nodes)] /\ favs \in [Roots -> Seq(Nodes)]
  BY Idle DEF IInv, ControlOK, PlainOK
<1>2. curPath \in Nodes
  BY <1>1 DEF RootOK, HeapOK, Closed
<1>3. favs' = favs \/ (favs' = [favs EXCEPT ![curType] = Append(@, curPath)] /\ IsFavPath)
  BY DEF SaveFavPath
<1>4. ASSUME NEW a, NEW b, a \in [Roots -> Seq(Nodes)],
             b = a \/ b = [a EXCEPT ![curType] = Append(@, curPath)]
      PROVE  /\ b \in [Roots -> Seq(Nodes)]
             /\ \A t \in Roots : Range(b[t]) \subseteq
                    Range(a[t]) \cup (IF t = curType THEN {curPath} ELSE {})
  <2>1. CASE b = a
    BY <1>4, <2>1
  <2>2. CASE b = [a EXCEPT ![curType] = Append(@, curPath)]
    <3>1. a[curType] \in Seq(Nodes)
      BY <1>1, <1>4
    <3>2. /\ Append(a[curType], curPath) \in Seq(Nodes)
          /\ Range(Append(a[curType], curPath)) = Range(a[curType]) \cup {curPath}
      BY <1>2, <3>1, AppendRange
    <3>3. b[curType] = Append(a[curType], curPath)
          /\ \A t \in Roots : t # curType => b[t] = a[t]
      BY <1>1, <1>4, <2>2
    <3>4. b \in [Roots -> Seq(Nodes)]
      BY <1>1, <1>4, <2>2, <3>2
    <3>5. QED
      BY <3>2, <3>3, <3>4
  <2>3. QED
    BY <1>4, <2>1, <2>2
<1>5. /\ saved' \in [Roots -> Seq(Nodes)]
      /\ \A t \in Roots : Range(saved'[t]) \subseteq
             Range(saved[t]) \cup (IF t = curType THEN {curPath} ELSE {})
  BY <1>1, <1>4
<1>6. /\ favs' \in [Roots -> Seq(Nodes)]
      /\ \A t \in Roots : Range(favs'[t]) \subseteq
             Range(favs[t]) \cup (IF t = curType THEN {curPath} ELSE {})
  BY <1>1, <1>3, <1>4
<1>7. favs' = favs \/ \E m \in Tree(heap, {curPath}) : heap[m].fav
  BY <1>3 DEF IsFavPath
<1>8. ASSUME NEW t \in Roots, NEW n \in Range(saved'[t]) \cup Range(favs'[t])
      PROVE  RootOK(heap, n, t)
  <2>1. n \in Range(saved[t]) \cup Range(favs[t]) \/ (n = curPath /\ t = curType)
    BY <1>5, <1>6, <1>8
  <2>2. QED
    BY <1>1, <2>1 DEF PathsOK
<1>9. ASSUME NEW t \in Roots, NEW n \in Range(favs'[t])
      PROVE  \E m \in Tree(heap, {n}) : heap[m].fav
  <2>1. n \in Range(favs[t]) \/ (n = curPath /\ favs' # favs)
    BY <1>6, <1>9
  <2>2. CASE n \in Range(favs[t])
    BY <1>1, <2>2 DEF PathsOK
  <2>3. CASE n = curPath /\ favs' # favs
    BY <1>7, <2>3
  <2>4. QED
    BY <2>1, <2>2, <2>3
<1>10. PathsOK(heap, saved', favs')
  BY <1>8, <1>9 DEF PathsOK
<1>11. QED
  BY <1>5, <1>6, <1>10

(* Crediting, dropping and ignoring a path.                                *)
LEMMA FeedbackKeeps ==
    ASSUME IInv, IncrementSucceed \/ IncrementFailed \/ ClearChosenExpr
    PROVE  IInv' /\ SeedNodesStay
<1>1. CASE IncrementSucceed
  <2>1. /\ pc = "idle" /\ curPath # 0 /\ SaveFavPath /\ Forget
        /\ saved' = [saved EXCEPT ![curType] = Append(@, curPath)]
    BY <1>1 DEF IncrementSucceed
  <2>2. QED
    BY <2>1, CreditedFacts, ForgetKeeps
<1>2. CASE IncrementFailed
  <2>1. pc = "idle" /\ curPath # 0 /\ SaveFavPath /\ Forget /\ saved' = saved
    BY <1>2 DEF IncrementFailed
  <2>2. QED
    BY <2>1, CreditedFacts, ForgetKeeps
<1>3. CASE ClearChosenExpr
  <2>1. pc = "idle" /\ Forget /\ saved' = saved /\ favs' = favs
    BY <1>3 DEF ClearChosenExpr
  <2>2. PathsOK(heap, saved', favs')
    BY <2>1, Idle
  <2>3. saved' \in [Roots -> Seq(Nodes)] /\ favs' \in [Roots -> Seq(Nodes)]
    BY <2>1 DEF IInv, PlainOK
  <2>4. QED
    BY <2>1, <2>2, <2>3, ForgetKeeps
<1>4. QED
  BY <1>1, <1>2, <1>3

-----------------------------------------------------------------------------
(* The invariant.                                                          *)

(* Nothing has been generated yet. *)
LEMMA Initial == Init => IInv
<1>1. SUFFICES ASSUME Init PROVE IInv
  OBVIOUS
<1>2. /\ heap = <<>> /\ stack = <<>> /\ curPath = 0 /\ genRoot = 0 /\ pc = "idle"
      /\ tries = 0 /\ text = FALSE /\ edges = {} /\ curType = ""
      /\ saved = [t \in Roots |-> <<>>] /\ favs = [t \in Roots |-> <<>>]
  BY <1>1 DEF Init
<1>3. uniqueHash \in [Rules -> Hashes]
  <2>1. PICK h \in [{r \in Rules : Repeated(r[1])} -> Hashes] :
            uniqueHash = [r \in Rules |-> IF Repeated(r[1]) THEN h[r] ELSE {}]
    BY <1>1 DEF Init
  <2>2. {} \in Hashes
    BY DEF Hashes
  <2>3. \A r \in Rules : (IF Repeated(r[1]) THEN h[r] ELSE {}) \in Hashes
    BY <2>2
  <2>4. QED
    BY <2>1, <2>3
<1>4. PlainOK
  <2>1. <<>> \in Seq(Nodes) /\ 0 \in 0 .. MaxTries
    BY BoundAssumption
  <2>2. QED
    BY <1>2, <1>3, <2>1 DEF PlainOK
<1>5. ControlOK
  <2>1. 0 < MaxTries
    BY BoundAssumption
  <2>2. tries < MaxTries
    BY <1>2, <2>1
  <2>3. QED
    BY <1>2, <2>2 DEF ControlOK
<1>6. DOMAIN heap = {}
  <2>1. DOMAIN <<>> = {}
    OBVIOUS
  <2>2. heap = <<>>
    BY <1>2
  <2>3. QED
    BY <2>1, <2>2
<1>7. HeapOK(heap) /\ WholeOK(heap, stack)
  BY <1>6 DEF HeapOK, Closed, OneParent, WholeOK
<1>8. PathsOK(heap, saved, favs)
  <2>1. \A t \in Roots : saved[t] = <<>> /\ favs[t] = <<>>
    BY <1>2
  <2>2. Range(<<>>) = {}
    BY DEF Range
  <2>3. QED
    BY <2>1, <2>2 DEF PathsOK
<1>9. HeapInv
  BY <1>2, <1>7, <1>8, StackEmpty DEF HeapInv, OnHeap
<1>10. QED
  BY <1>4, <1>5, <1>9 DEF IInv

(* Every step keeps the invariant, and the nodes of the saved derivations. *)
LEMMA StepKeeps ==
    ASSUME IInv, [Next]_vars
    PROVE  IInv' /\ SeedNodesStay
<1>1. CASE \E root \in Roots : Generate(root)
  BY <1>1, GenerateKeeps
<1>2. CASE GenStep
  <2>1. CASE StartFresh
    BY <2>1, StartFreshKeeps
  <2>2. CASE StartFromSaved
    BY <2>2, StartFromSavedKeeps
  <2>3. CASE StartFromFav
    BY <2>3, StartFromFavKeeps
  <2>4. CASE Finish
    BY <2>4, FinishKeeps
  <2>5. CASE RefuseRoot
    BY <2>5, RefuseRootKeeps
  <2>6. CASE \E r \in Rules : ChooseRule(r)
    BY <2>6, ChooseRuleKeeps
  <2>7. CASE ReuseRule
    BY <2>7, ReuseRuleKeeps
  <2>8. CASE Emit
    BY <2>8, EmitKeeps
  <2>9. CASE CutItem
    BY <2>9, CutItemKeeps
  <2>10. CASE FreshChild
    BY <2>10, FreshChildKeeps
  <2>11. CASE ReplayChild
    BY <2>11, ReplayChildKeeps
  <2>12. CASE Return
    BY <2>12, ReturnKeeps
  <2>13. QED
    BY <1>2, <2>1, <2>2, <2>3, <2>4, <2>5, <2>6, <2>7, <2>8, <2>9, <2>10, <2>11, <2>12
       DEF GenStep
<1>3. CASE IncrementSucceed \/ IncrementFailed \/ ClearChosenExpr
  BY <1>3, FeedbackKeeps
<1>4. CASE UNCHANGED vars
  <2>1. /\ uniqueHash' = uniqueHash /\ edges' = edges /\ heap' = heap
        /\ curType' = curType /\ curPath' = curPath /\ saved' = saved /\ favs' = favs
        /\ pc' = pc /\ tries' = tries /\ text' = text
        /\ genRoot' = genRoot /\ stack' = stack
    BY <1>4 DEF vars, covVars, pathVars
  <2>2. PlainOK' /\ ControlOK' /\ HeapInv'
    BY <2>1 DEF IInv, PlainOK, ControlOK, HeapInv
  <2>3. QED
    BY <2>1, <2>2 DEF IInv, SeedNodesStay
<1>5. QED
  BY <1>1, <1>2, <1>3, <1>4 DEF Next

(* The derivations on the heap are well formed at every moment: no matter  *)
(* how Generate, the activations of GenerateMySQL and the feedback follow  *)
(* each other.                                                             *)
THEOREM Invariance == Spec => []IInv
<1>1. IInv /\ [Next]_vars => IInv'
  BY StepKeeps
<1>2. QED
  BY Initial, <1>1, PTL DEF Spec

(* Each variable keeps its type: the indices of allTriggerEdges fit in it, *)
(* and an activation that is past its rule's choice has a rule.            *)
THEOREM TypeCorrect == Spec => []TypeOK
<1>1. IInv => TypeOK
  <2>1. SUFFICES ASSUME IInv PROVE TypeOK
    OBVIOUS
  <2>2. /\ HeapOK(heap) /\ StackOK(heap, stack, genRoot, curType, Tree(heap, Seeds(saved, favs)))
        /\ curPath # 0 => RootOK(heap, curPath, curType)
        /\ genRoot # 0 => RootOK(heap, genRoot, curType)
    BY <2>1 DEF IInv, HeapInv, OnHeap
  <2>3. /\ DOMAIN heap \subseteq Nodes /\ \A n \in DOMAIN heap : heap[n] \in PathNodes
        /\ curPath \in Nodes \cup {0} /\ genRoot \in Nodes \cup {0}
    BY <2>2 DEF HeapOK, Closed, RootOK
  <2>4. /\ stack \in Seq(Frames)
        /\ \A k \in DOMAIN stack : stack[k].item > 0 => stack[k].rule # NoRule
    BY <2>2 DEF StackOK, FrameOK
  <2>5. QED
    BY <2>1, <2>3, <2>4 DEF TypeOK, IInv, PlainOK
<1>2. QED
  BY Invariance, <1>1, PTL

(* Whatever is saved can be replayed: a node that has a rule has a rule of *)
(* its symbol and a child for each symbol of the rule, although activations*)
(* add children to nodes that are already linked into the tree.            *)
THEOREM SeedsCanReplay == Spec => []SeedsReplay
<1>1. IInv => SeedsReplay
  <2>1. SUFFICES ASSUME IInv PROVE SeedsReplay
    OBVIOUS
  <2> DEFINE T == Tree(heap, SeedRoots)
  <2>2. SeedRoots = Seeds(saved, favs)
    BY DEF SeedRoots, Seeds
  <2>3. /\ HeapOK(heap) /\ PathsOK(heap, saved, favs) /\ WholeOK(heap, stack)
        /\ StackOK(heap, stack, genRoot, curType, T)
    BY <2>1, <2>2 DEF IInv, HeapInv, OnHeap
  <2>4. SeedRoots \subseteq DOMAIN heap
    BY <2>2, <2>3, SeedsFacts
  <2>5. /\ SeedRoots \subseteq T /\ T \subseteq DOMAIN heap
        /\ \A n \in T : Range(heap[n].kids) \subseteq T
    BY <2>3, <2>4, TreeFacts DEF HeapOK
  <2> HIDE DEF T
  <2>6. ASSUME NEW n \in T PROVE Complete(heap, n)
    BY <2>3, <2>5 DEF WholeOK, StackOK
  <2>7. ASSUME NEW n \in T, NEW name, heap[n].rule \in RulesOf(name) \cup {NoRule}
        PROVE  Replayable(n, name)
    BY <2>6, <2>7 DEF Replayable, Complete
  <2>8. ASSUME NEW t \in Roots, NEW n \in Range(saved[t]) \cup Range(favs[t])
        PROVE  Replayable(n, t)
    <3>1. n \in T
      BY <2>5 DEF SeedRoots
    <3>2. heap[n].rule \in RulesOf(t) \cup {NoRule}
      BY <2>3 DEF PathsOK, RootOK
    <3>3. QED
      BY <2>7, <3>1, <3>2
  <2>9. ASSUME NEW n \in T, heap[n].rule # NoRule, NEW k \in SymbolsOf(heap[n].rule)
        PROVE  Replayable(heap[n].kids[Place(SymbolsOf(heap[n].rule), k)],
                          Items(heap[n].rule)[k])
    <3> DEFINE r == heap[n].rule
               p == Place(SymbolsOf(r), k)
    <3>1. r \in Rules /\ heap[n].kids \in Seq(Nodes)
      BY <2>3, <2>5, <2>9, NodeFacts
    <3>2. Len(heap[n].kids) = Cardinality(SymbolsOf(r))
      BY <2>6, <2>9 DEF Complete
    <3>3. p \in 1 .. Cardinality(SymbolsOf(r))
      BY <2>9, <3>1, PlaceFacts
    <3> HIDE DEF p
    <3>4. p \in DOMAIN heap[n].kids
      BY <3>1, <3>2, <3>3
    <3>5. heap[n].kids[p] \in T
      BY <2>5, <3>4 DEF Range
    <3>6. KidsRuled(heap, n)
      BY <2>3, <2>5 DEF HeapOK
    <3>7. heap[heap[n].kids[p]].rule \in RulesOf(Items(r)[k]) \cup {NoRule}
      BY <2>9, <3>4, <3>6 DEF KidsRuled, p
    <3>8. Replayable(heap[n].kids[p], Items(r)[k])
      BY <2>7, <3>5, <3>7
    <3>9. QED
      BY <3>8 DEF p
  <2>10. QED
    BY <2>8, <2>9 DEF SeedsReplay, T
<1>2. QED
  BY Invariance, <1>1, PTL

(* The nodes form trees: copying, cutting, regenerating and adding         *)
(* children never give a node a second parent or a root a parent, so that  *)
(* deleting one path cannot free a node of another.                        *)
THEOREM TreesStayTrees == Spec => []TreesAreTrees
<1>1. IInv => TreesAreTrees
  <2>1. SUFFICES ASSUME IInv PROVE TreesAreTrees
    OBVIOUS
  <2>2. SeedRoots = Seeds(saved, favs)
    BY DEF SeedRoots, Seeds
  <2>3. /\ HeapOK(heap) /\ OneParent(heap) /\ PathsOK(heap, saved, favs)
        /\ curPath # 0 => RootOK(heap, curPath, curType)
        /\ genRoot # 0 => RootOK(heap, genRoot, curType)
    BY <2>1 DEF IInv, HeapInv, OnHeap, HeapOK
  <2>4. 0 \notin DOMAIN heap
    BY <2>3, BoundAssumption DEF HeapOK, Closed, Nodes
  <2>5. SUFFICES ASSUME NEW n \in DOMAIN heap
                 PROVE  LET places == UNION {{<<m, k>> : k \in {k \in DOMAIN heap[m].kids :
                                          heap[m].kids[k] = n}} : m \in DOMAIN heap}
                        IN  Cardinality(places) =<
                                IF n \in SeedRoots \cup {curPath, genRoot} THEN 0 ELSE 1
    BY DEF TreesAreTrees
  <2> DEFINE places == UNION {{<<m, k>> : k \in {k \in DOMAIN heap[m].kids :
                                   heap[m].kids[k] = n}} : m \in DOMAIN heap}
  <2>6. ASSUME NEW q \in places
        PROVE  \E m \in DOMAIN heap : \E k \in DOMAIN heap[m].kids :
                  heap[m].kids[k] = n /\ q = <<m, k>>
    OBVIOUS
  <2> HIDE DEF places
  <2>7. Cardinality({}) = 0
    BY FS_EmptySet
  <2>8. CASE n \in SeedRoots \cup {curPath, genRoot}
    <3>1. NoParent(heap, n)
      BY <2>2, <2>3, <2>4, <2>8, SeedsFacts DEF RootOK
    <3>2. \A m \in DOMAIN heap : \A k \in DOMAIN heap[m].kids : heap[m].kids[k] # n
      BY <3>1 DEF NoParent, Range
    <3>3. places = {}
      BY <2>6, <3>2
    <3>4. QED
      BY <2>7, <2>8, <3>3 DEF places
  <2>9. CASE n \notin SeedRoots \cup {curPath, genRoot}
    <3>1. CASE places = {}
      BY <2>7, <2>9, <3>1 DEF places
    <3>2. CASE places # {}
      <4>1. PICK p \in places : TRUE
        BY <3>2
      <4>2. \A q \in places : q = p
        BY <2>3, <2>6 DEF OneParent
      <4>3. places = {p}
        BY <4>2
      <4>4. Cardinality(places) = 1
        BY <4>3, FS_Singleton
      <4>5. QED
        BY <2>9, <4>4 DEF places
    <3>3. QED
      BY <3>1, <3>2
  <2>10. QED
    BY <2>8, <2>9
<1>2. QED
  BY Invariance, <1>1, PTL

(* A path that is taken from the favorite queue has a favorite node, so    *)
(* that regenerating one never finds none.                                 *)
THEOREM FavPaths == Spec => []FavPathsHaveFav
<1>1. IInv => FavPathsHaveFav
  BY DEF IInv, HeapInv, OnHeap, PathsOK, FavPathsHaveFav
<1>2. QED
  BY Invariance, <1>1, PTL

(* No step changes a node of a derivation that was saved and stays saved.  *)
THEOREM SeedsKept == Spec => SeedsAreKept
<1>1. IInv /\ IInv' /\ [Next]_vars
        => [\A n \in Tree(heap, SeedRoots) \cap Tree(heap', SeedRoots') :
                heap'[n] = heap[n]]_vars
  <2>1. SUFFICES ASSUME IInv, IInv', [Next]_vars,
                        NEW n \in Tree(heap, SeedRoots), n \in Tree(heap', SeedRoots')
                 PROVE  heap'[n] = heap[n]
    OBVIOUS
  <2>2. (SeedRoots = Seeds(saved, favs))'
    BY DEF SeedRoots, Seeds
  <2>3. HeapOK(heap') /\ PathsOK(heap', saved', favs')
    BY <2>1 DEF IInv, HeapInv, OnHeap
  <2>4. SeedRoots' \subseteq DOMAIN heap'
    BY <2>2, <2>3, SeedsFacts
  <2>5. Tree(heap', SeedRoots') \subseteq DOMAIN heap'
    BY <2>3, <2>4, TreeFacts DEF HeapOK
  <2>6. SeedNodesStay
    BY <2>1, StepKeeps
  <2>7. QED
    BY <2>1, <2>5, <2>6 DEF SeedNodesStay
<1>2. QED
  BY Invariance, <1>1, PTL DEF Spec, SeedsAreKept
=============================================================================
