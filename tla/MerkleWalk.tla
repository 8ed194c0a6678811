------------------------------ MODULE MerkleWalk ------------------------------
(***************************************************************************)
(* Walks over the node numbers of merkle trees of every depth up to        *)
(* HashBits, as sync sessions (server/sync.go) and updates make them, to   *)
(* compare the arithmetic on node numbers with what a binary tree is.      *)
(***************************************************************************)
EXTENDS MerkleTree

VARIABLES treeDepth, node

walkVars == <<treeDepth, node>>

WalkTypeOK == treeDepth \in 1..HashBits /\ node \in Nodes(treeDepth)

WalkInit == treeDepth \in 1..HashBits /\ node = RootNode(treeDepth)

Down == node' \in {LeftChild(node), RightChild(node)} /\ UNCHANGED treeDepth

Up == node # RootNode(treeDepth) /\ node' = ParentNode(node) /\ UNCHANGED treeDepth

\* The peer with a tree of another depth looks at the node it stands for.
TranslateUnguarded ==
  \E e \in 1..HashBits : node' = TranslateNode(treeDepth, node, e) /\ treeDepth' = e
Translate ==
  \E e \in 1..HashBits :
    /\ Level(treeDepth, node) <= e
    /\ node' = TranslateNode(treeDepth, node, e)
    /\ treeDepth' = e

WalkNext == Down \/ Up \/ Translate

WalkSpec == WalkInit /\ [][WalkNext]_walkVars
-----------------------------------------------------------------------------
\* The key hashes whose rows are below a node.
Below(d, n) == {h \in 0..(Pow2(HashBits) - 1) : LeafNode(h, d) \in SubRangeMin(n)..(SubRangeMax(n) - 1)}

\* The children of a node share out exactly its keys, and going up undoes
\* going down: a difference found at a node is found at one of its children.
ChildrenPartition ==
  ~IsLeaf(treeDepth, node) =>
    LET l == LeftChild(node)
        r == RightChild(node)
    IN  /\ Below(treeDepth, l) \cap Below(treeDepth, r) = {}
        /\ Below(treeDepth, l) \cup Below(treeDepth, r) = Below(treeDepth, node)
        /\ ParentNode(l) = node /\ ParentNode(r) = node
        /\ Level(treeDepth, l) = Level(treeDepth, node) + 1 /\ Level(treeDepth, r) = Level(treeDepth, node) + 1

\* CountTrailingZeros is right for the numbers of every tree allowed, up to
\* depth 28 (MerkleMaxDepth): all its conditional shifts are exercised.
ZerosCounted ==
  \A k \in 0..(MerkleMaxDepth - HashBits) :
    LET n == node * Pow2(k)
        z == CountTrailingZeros(n)
    IN  n % Pow2(z) = 0 /\ n % Pow2(z + 1) # 0

\* Peers that use trees of different depths talk about the same keys.
TranslationKeepsKeys ==
  [][treeDepth' # treeDepth => Below(treeDepth', node') = Below(treeDepth, node)]_walkVars

\* The arithmetic on node numbers (LeftChild, RightChild, Level, SubRangeMin and
\* SubRangeMax of merkle.go) means what a binary tree means.
TreeArithmetic == WalkTypeOK /\ ChildrenPartition /\ ZerosCounted
=============================================================================
