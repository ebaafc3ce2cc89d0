---------------------------- MODULE RsgGenerator ----------------------------
(***************************************************************************)
(* The grammar-based generator (src/rsg): RSG.Generate derives a statement *)
(* from a root symbol, anew or by replaying a saved derivation with one    *)
(* node regenerated; RSGExecSucceed and RSGExecFailed save the derivation  *)
(* or drop it.                                                             *)
(*                                                                         *)
(* A derivation is a tree of PathNodes on the heap.  curChosenPath and the *)
(* saved paths are lists of all nodes of a tree, root first; each is       *)
(* modelled by its root.  GenerateMySQL is recursive: its activations are  *)
(* the frames of a stack.  Since its choices are random, any rule of a     *)
(* symbol may be chosen at any depth, so that reward scores and the rule   *)
(* sets of PrioritizeParserRules decide only how often.  The text is       *)
(* abstracted to whether there is any.                                     *)
(***************************************************************************)
EXTENDS Integers, Sequences, FiniteSets, Functions

CONSTANTS
    Productions,    \* the grammar file: a sequence of named productions
    CompNames,      \* the symbols that IsMySQLCompNode accepts
    CutNames,       \* "expr", "subquery" and "table_factor": the last is not
                    \* one that IsMySQLCompNode accepts
    Tokens,         \* names that its switch spells out: "ident", "NUM", ...
    Forbidden,      \* the roots that GenerateMySQL refuses, "set" etc.
    Roots,          \* the symbols that fuzz_one generates from
    HashBits,       \* 16: the bits of a UniqueHash
    Depth,          \* depth of RSGQueryGenerate, 2 for MySQL
    MaxNodes,       \* bound: PathNodes on the heap
    MaxSaved,       \* bound: saved paths of a root, and favorite ones
    MaxSeed,        \* bound: PathNodes of a saved path
    MaxTries        \* how often Generate tries, 1000

Names == {Productions[b].name : b \in DOMAIN Productions}
Rules == UNION {{b} \X DOMAIN Productions[b].rules : b \in DOMAIN Productions}
NoRule == <<0, 0>>                                   \* ExprProds = nil
RulesOf(name) == {r \in Rules : Productions[r[1]].name = name}
Items(r) == Productions[r[1]].rules[r[2]]
Symbols == Names \ Tokens                 \* an item of these gets a PathNode
Nodes == 1 .. MaxNodes
Hashes == SUBSET (0 .. HashBits - 1)      \* a hash as the set of its bits

ASSUME GrammarAssumption ==
    /\ Productions \in Seq([name : STRING, rules : Seq(Seq(STRING))])
    /\ Roots \subseteq Names
    /\ \A b \in DOMAIN Productions : Productions[b].rules # <<>>
ASSUME BoundAssumption ==
    /\ MaxNodes \in Nat /\ MaxSaved \in Nat /\ MaxSeed \in Nat
    /\ MaxTries \in Nat \ {0}
    /\ HashBits \in Nat /\ Depth \in Nat

VARIABLES
    uniqueHash,     \* UniqueHash of each rule
    edges,          \* indices of allTriggerEdges that are not 0
    heap,           \* the PathNodes that something refers to
    curType,        \* curMutatingType
    curPath,        \* root of curChosenPath, 0 when it is empty
    saved, favs,    \* allSavedPath, allSavedFavPath: roots of trees
    pc, tries, text,
    genRoot,        \* rootPathNode of generate
    stack           \* the activations of GenerateMySQL, innermost last

pathVars == <<curType, curPath, saved, favs>>
covVars == <<edges, uniqueHash>>
vars == <<covVars, heap, pathVars, pc, tries, text, genRoot, stack>>

Blank == [rule |-> NoRule, kids |-> <<>>, fav |-> FALSE]
PathNodes == [rule : Rules \cup {NoRule}, kids : Seq(Nodes), fav : BOOLEAN]
Frame(node, name, hash, depth) ==
    [node |-> node, name |-> name, hash |-> hash, depth |-> depth,
     rule |-> NoRule, item |-> 0, kid |-> 0,
     replaying |-> FALSE, comp |-> FALSE, fav |-> FALSE]
Frames == [node : Nodes, name : Names, hash : Hashes, depth : Int,
           rule : Rules \cup {NoRule}, item : Nat, kid : Nat,
           replaying : BOOLEAN, comp : BOOLEAN, fav : BOOLEAN]

(* The type of every variable; an edge index has HashBits bits, for        *)
(* allTriggerEdges has 2^HashBits elements.                                *)
TypeOK ==
    /\ uniqueHash \in [Rules -> Hashes]
    /\ edges \subseteq Hashes
    /\ DOMAIN heap \subseteq Nodes /\ \A n \in DOMAIN heap : heap[n] \in PathNodes
    /\ curType \in Roots \cup {""}
    /\ curPath \in Nodes \cup {0}
    /\ saved \in [Roots -> Seq(Nodes)] /\ favs \in [Roots -> Seq(Nodes)]
    /\ pc \in {"idle", "start", "run"}
    /\ tries \in 0 .. MaxTries /\ text \in BOOLEAN
    /\ genRoot \in Nodes \cup {0}
    /\ stack \in Seq(Frames)
    /\ \A k \in DOMAIN stack : stack[k].item > 0 => stack[k].rule # NoRule

(* NewRSG gives a hash to the rules of a production whose name has         *)
(* occurred before; the others keep the 0 they were created with.          *)
Repeated(b) == \E a \in DOMAIN Productions :
                    a < b /\ Productions[a].name = Productions[b].name

Init ==
    /\ \E h \in [{r \in Rules : Repeated(r[1])} -> Hashes] :
          uniqueHash = [r \in Rules |-> IF Repeated(r[1]) THEN h[r] ELSE {}]
    /\ edges = {}
    /\ heap = <<>>
    /\ curType = "" /\ curPath = 0
    /\ saved = [t \in Roots |-> <<>>] /\ favs = [t \in Roots |-> <<>>]
    /\ pc = "idle" /\ tries = 0 /\ text = FALSE
    /\ genRoot = 0 /\ stack = <<>>

-----------------------------------------------------------------------------
(* The heap.                                                               *)

(* The nodes of the trees with these roots: GatherAllPathNodes.            *)
Tree(h, roots) ==
    LET level[k \in 0 .. MaxNodes] ==
            IF k = 0 THEN roots ELSE UNION {Range(h[n].kids) : n \in level[k-1]}
    IN  UNION {level[k] : k \in 0 .. MaxNodes}

SeedRoots == UNION {Range(saved[t]) \cup Range(favs[t]) : t \in Roots}
Free == Nodes \ DOMAIN heap

NewNode == CHOOSE n \in Free : TRUE

(* What stays of h when nothing but roots is referred to. *)
Collected(h, roots) == [n \in Tree(h, roots \ {0}) |-> h[n]]

Allocated(n, node) == [m \in DOMAIN heap \cup {n} |->
                          IF m = n THEN node ELSE heap[m]]

(* deepCopyPathNode: new nodes for those of the tree of root, and the heap *)
(* with them.                                                              *)
NoNewNodes(root) == [n \in Tree(heap, {root}) |-> n]             \* mutant
NewNodes(root) ==
    CHOOSE copy \in [Tree(heap, {root}) -> Free] : IsInjective(copy)
SharedChildren(copy) ==                                          \* mutant
    [m \in DOMAIN heap \cup Range(copy) |->
        IF m \in DOMAIN heap THEN heap[m]
        ELSE heap[CHOOSE n \in DOMAIN copy : copy[n] = m]]
DeepCopy(copy) ==
    [m \in DOMAIN heap \cup Range(copy) |->
        IF m \in DOMAIN heap THEN heap[m]
        ELSE LET n == CHOOSE n \in DOMAIN copy : copy[n] = m
             IN  [heap[n] EXCEPT !.kids = [k \in DOMAIN @ |-> copy[@[k]]]]]

-----------------------------------------------------------------------------
(* Coverage of grammar edges.                                              *)

Xor(a, b) == (a \ b) \cup (b \ a)
ShiftedUp(parentHash, r) ==                                      \* mutant
    Xor({b + 1 : b \in parentHash}, uniqueHash[r])
Edge(parentHash, r) ==
    Xor({b - 1 : b \in parentHash \ {0}}, uniqueHash[r])

(* CheckIsFav: does the symbol have a rule that was not seen below parent? *)
CheckIsFav(name, parentHash, marked) ==
    \E r \in RulesOf(name) : Edge(parentHash, r) \notin marked

(* IsInCompProds, after ClassifyEdges: a rule is complex if it nests its   *)
(* own symbol, or has a complex item or one all of whose rules have one.   *)
IsInCompProds(name, r) ==
    \/ \E x \in Range(Items(r)) :
        \/ x \in CompNames \cup {name}
        \/ /\ x \in Names
           /\ \A c \in RulesOf(x) : Range(Items(c)) \cap CompNames # {}
    \/ name = "query_primary" /\ name \notin Range(Items(r))

-----------------------------------------------------------------------------
(* Generate and generate.                                                  *)

(* A path that was not credited is not read again: Finish overwrites it.   *)
Generate(root) ==
    /\ pc = "idle"
    /\ curType' = root
    /\ pc' = "start"
    /\ curPath' = 0
    /\ heap' = Collected(heap, SeedRoots)
    /\ UNCHANGED <<covVars, saved, favs, tries, text, genRoot, stack>>

StartAt(node) ==
    /\ genRoot' = node
    /\ stack' = <<Frame(node, curType, {}, Depth)>>
    /\ text' = FALSE
    /\ pc' = "run"
    /\ UNCHANGED <<covVars, curType, curPath, saved, tries>>

(* A new statement. *)
StartFresh ==
    /\ pc = "start"
    /\ Free # {}
    /\ StartAt(NewNode)
    /\ heap' = Allocated(NewNode, Blank)
    /\ UNCHANGED favs

(* The nodes of a retrieved path that may be picked to be generated anew.  *)
Mutable(h, root, usingFav) ==
    LET path == Tree(h, {root})
        fav == {n \in path : h[n].fav}
    IN  IF Cardinality(path) =< 2 THEN {root}
        ELSE IF usingFav /\ fav # {} THEN fav
        ELSE (path \ {root}) \cup fav

(* A copy of a saved derivation, less what hangs below the picked node.    *)
Replay(seed, usingFav) ==
    /\ Cardinality(Tree(heap, {seed})) =< Cardinality(Free)
    /\ \E copy \in {NewNodes(seed)} :
       \E node \in Mutable(DeepCopy(copy), copy[seed], usingFav) :
          /\ StartAt(copy[seed])
          /\ heap' = Collected([DeepCopy(copy) EXCEPT
                                  ![node].rule = NoRule, ![node].kids = <<>>],
                               SeedRoots \cup {curPath, copy[seed]})

StartFromSaved ==
    /\ pc = "start"
    /\ \E seed \in Range(saved[curType]) : Replay(seed, FALSE)
    /\ UNCHANGED favs

(* The first favorite path is taken off the queue.                         *)
StartFromFav ==
    /\ pc = "start"
    /\ saved[curType] # <<>> /\ favs[curType] # <<>>
    /\ Replay(Head(favs[curType]), TRUE)
    /\ favs' = [favs EXCEPT ![curType] = Tail(@)]

SameTry == tries                                                 \* mutant
NextTry == tries + 1

(* The end of generate, with the nodes of the new tree as curChosenPath,   *)
(* and of Generate once there is some text.                                *)
Finish ==
    /\ pc = "run" /\ stack = <<>>
    /\ curPath' = genRoot
    /\ genRoot' = 0
    /\ heap' = Collected(heap, SeedRoots \cup {genRoot})
    /\ IF text \/ NextTry = MaxTries
       THEN pc' = "idle" /\ tries' = 0
       ELSE pc' = "start" /\ tries' = NextTry
    /\ text' = FALSE
    /\ UNCHANGED <<covVars, curType, saved, favs, stack>>

-----------------------------------------------------------------------------
(* GenerateMySQL: the steps of the innermost activation.                   *)

Top == stack[Len(stack)]
SetTop(frame) == [stack EXCEPT ![Len(stack)] = frame]
Push(frames, frame) == Append(frames, frame)
Pop == SubSeq(stack, 1, Len(stack) - 1)
Running == pc = "run" /\ stack # <<>>

RefuseRoot ==
    /\ Running /\ Top.item = 0
    /\ Top.name \in Forbidden
    /\ stack' = Pop
    /\ UNCHANGED <<covVars, heap, pathVars, pc, tries, text, genRoot>>

WithRule(node, r) == [heap EXCEPT ![node].rule = r, ![node].kids = <<>>]

ChooseRule(r) ==
    /\ Running /\ Top.item = 0
    /\ Top.name \notin Forbidden
    /\ heap[Top.node].rule = NoRule
    /\ r \in RulesOf(Top.name)
    /\ edges' = edges \cup {Edge(Top.hash, r)}
    /\ heap' = WithRule(Top.node, r)
    /\ stack' = SetTop([Top EXCEPT !.rule = r, !.item = 1,
                            !.fav = CheckIsFav(Top.name, Top.hash, edges'),
                            !.comp = IsInCompProds(Top.name, r)])
    /\ UNCHANGED <<uniqueHash, pathVars, pc, tries, text, genRoot>>

ReuseRule ==
    /\ Running /\ Top.item = 0
    /\ Top.name \notin Forbidden
    /\ heap[Top.node].rule # NoRule
    /\ stack' = SetTop([Top EXCEPT !.rule = heap[Top.node].rule, !.item = 1,
                            !.replaying = TRUE])
    /\ UNCHANGED <<covVars, heap, pathVars, pc, tries, text, genRoot>>

AtItem == Running /\ Top.item > 0 /\ Top.item =< Len(Items(Top.rule))
Item == Items(Top.rule)[Top.item]
CutHere == Top.depth < 0 /\ Item \in CutNames
NextItem == [Top EXCEPT !.item = @ + 1]

Emit ==
    /\ AtItem
    /\ ~CutHere /\ Item \notin Symbols
    /\ text' = TRUE
    /\ stack' = SetTop(NextItem)
    /\ UNCHANGED <<covVars, heap, pathVars, pc, tries, genRoot>>

(* Too deep: a constant stands for the symbol, and the node forgets its    *)
(* rule, so that a replay would choose again.                              *)
RuleKept(node) == [heap EXCEPT ![node].kids = <<>>]              \* mutant
Forgotten(node) == [heap EXCEPT ![node].rule = NoRule, ![node].kids = <<>>]

CutItem ==
    /\ AtItem
    /\ CutHere
    /\ text' = TRUE
    /\ heap' = Collected(Forgotten(Top.node),
                         SeedRoots \cup {curPath, genRoot})
    /\ stack' = SetTop(NextItem)
    /\ UNCHANGED <<covVars, pathVars, pc, tries, genRoot>>

ChildDepth(frame) == IF frame.comp THEN frame.depth - 1 ELSE frame.depth

FreshChild ==
    /\ AtItem
    /\ ~CutHere /\ Item \in Symbols
    /\ ~Top.replaying
    /\ Free # {}
    /\ LET child == NewNode
       IN  /\ heap' = [Allocated(child, [Blank EXCEPT !.fav = Top.fav])
                          EXCEPT ![Top.node].kids = Append(@, child)]
           /\ stack' = Push(SetTop(NextItem),
                            Frame(child, Item, uniqueHash[Top.rule],
                                  ChildDepth(Top)))
    /\ UNCHANGED <<covVars, pathVars, pc, tries, text, genRoot>>

(* The next child of the saved tree, at the same depth.  If there is none, *)
(* the replay is given up.                                                 *)
ReplayChild ==
    /\ AtItem
    /\ ~CutHere /\ Item \in Symbols
    /\ Top.replaying
    /\ LET kids == heap[Top.node].kids
       IN  IF Top.kid >= Len(kids)
           THEN stack' = <<>> /\ text' = FALSE
           ELSE /\ stack' = Push(SetTop([NextItem EXCEPT !.kid = @ + 1]),
                                 Frame(kids[Top.kid + 1], Item,
                                       uniqueHash[Top.rule], Top.depth))
                /\ UNCHANGED text
    /\ UNCHANGED <<covVars, heap, pathVars, pc, tries, genRoot>>

Return ==
    /\ Running
    /\ Top.item > 0 /\ Top.item > Len(Items(Top.rule))
    /\ stack' = Pop
    /\ UNCHANGED <<covVars, heap, pathVars, pc, tries, text, genRoot>>

-----------------------------------------------------------------------------
(* Feedback.                                                               *)

(* isFavPath *)
AnyPath == TRUE                                                  \* mutant
IsFavPath == \E n \in Tree(heap, {curPath}) :
                heap[n].fav /\ heap[n].rule # NoRule

Forget ==
    /\ curPath' = 0
    /\ heap' = Collected(heap, UNION {Range(saved'[t]) \cup Range(favs'[t]) : t \in Roots})
    /\ UNCHANGED <<covVars, curType, pc, tries, text, genRoot, stack>>

SaveFavPath ==
    favs' = IF IsFavPath THEN [favs EXCEPT ![curType] = Append(@, curPath)]
                         ELSE favs

Small == /\ Cardinality(Tree(heap, {curPath})) =< MaxSeed
         /\ Len(favs[curType]) < MaxSaved

IncrementSucceed ==
    /\ pc = "idle" /\ curPath # 0
    /\ Small /\ Len(saved[curType]) < MaxSaved
    /\ saved' = [saved EXCEPT ![curType] = Append(@, curPath)]
    /\ SaveFavPath
    /\ Forget

IncrementFailed ==
    /\ pc = "idle" /\ curPath # 0
    /\ Small
    /\ SaveFavPath
    /\ UNCHANGED saved
    /\ Forget

(* Without coverage feedback the path is dropped. *)
ClearChosenExpr ==
    /\ pc = "idle" /\ curPath # 0
    /\ UNCHANGED <<saved, favs>>
    /\ Forget

-----------------------------------------------------------------------------
GenStep ==
    \/ StartFresh \/ StartFromSaved \/ StartFromFav \/ Finish
    \/ RefuseRoot \/ (\E r \in Rules : ChooseRule(r)) \/ ReuseRule
    \/ Emit \/ CutItem \/ FreshChild \/ ReplayChild \/ Return

Next ==
    \/ \E root \in Roots : Generate(root)
    \/ GenStep
    \/ IncrementSucceed \/ IncrementFailed \/ ClearChosenExpr

Spec == Init /\ [][Next]_vars

(* generate runs to its end: nothing in it waits. *)
FairSpec == Spec /\ WF_vars(GenStep)

-----------------------------------------------------------------------------
(* Properties.                                                             *)

SymbolsOf(r) == {k \in DOMAIN Items(r) : Items(r)[k] \in Symbols}

(* The place of n in a set of numbers. *)
Place(S, n) == Cardinality({m \in S : m =< n})

(* A saved derivation can be replayed as the type it is saved for: a node  *)
(* that has a rule has a rule of its symbol, and one child for each symbol *)
(* of that rule, in order.  GenerateMySQL follows the children by position *)
(* and gives up when there are too few.                                    *)
Replayable(n, name) ==
    LET r == heap[n].rule
    IN  r # NoRule =>
        /\ r \in RulesOf(name)
        /\ Len(heap[n].kids) = Cardinality(SymbolsOf(r))
SeedsReplay ==
    /\ \A t \in Roots : \A n \in Range(saved[t]) \cup Range(favs[t]) :
          Replayable(n, t)
    /\ \A n \in Tree(heap, SeedRoots) :
          LET r == heap[n].rule
          IN  r # NoRule => \A k \in SymbolsOf(r) :
                Replayable(heap[n].kids[Place(SymbolsOf(r), k)], Items(r)[k])

(* No node is the child of two nodes, or twice of one, and no root is one: *)
(* GatherAllPathNodes ends, counts each node once, and a mutation of one   *)
(* node shows at one place of one statement.                               *)
TreesAreTrees ==
    \A n \in DOMAIN heap :
        LET places == UNION {{<<m, k>> : k \in {k \in DOMAIN heap[m].kids :
                                heap[m].kids[k] = n}} : m \in DOMAIN heap}
        IN  Cardinality(places) =<
                IF n \in SeedRoots \cup {curPath, genRoot} THEN 0 ELSE 1

(* Replaying, regenerating, cutting and crediting leave every saved        *)
(* derivation as it was saved.                                             *)
SeedsAreKept ==
    [][\A n \in Tree(heap, SeedRoots) \cap Tree(heap', SeedRoots') :
            heap'[n] = heap[n]]_vars

(* A path of the favorite queue has a favorite node to regenerate: the     *)
(* "FAV PATH SIZE 0" that generate once reported does not happen.          *)
FavPathsHaveFav ==
    \A t \in Roots : \A n \in Range(favs[t]) :
        \E m \in Tree(heap, {n}) : heap[m].fav

(* Generate returns: the depth runs out, and empty texts are not retried   *)
(* for ever.                                                               *)
GenerationEnds == pc = "start" ~> pc = "idle"
=============================================================================
