------------------------------ MODULE MerkleTree ------------------------------
(***************************************************************************)
(* The merkle tree of a store (merkle/merkle.go). Nodes are numbered in    *)
(* order, 1 .. 2^d - 1 for a tree of depth d: leaves are the odd numbers   *)
(* and 2^(d-1) is the root. The hash of a node is the exclusive or of the  *)
(* hashes of the rows below it. Row hashes are taken to be independent, so *)
(* a hash is the set of the rows that go into it an odd number of times    *)
(* and the exclusive or is the symmetric difference.                       *)
(***************************************************************************)
EXTENDS Integers, SequencesExt

CONSTANT HashBits      \* leading bits of a key's hash that can matter: the
                       \* depth of the deepest tree

\* The deepest tree NewMerkleTree makes.
MerkleMaxDepth == 28

ASSUME DepthAssumption == HashBits \in 1..MerkleMaxDepth

Xor(a, b) == (a \ b) \cup (b \ a)
-----------------------------------------------------------------------------
(* Node numbers *)

\* 1 << k, and math.Pow(2, k)
Pow2(k) == 2^k

NodeLimit(d) == Pow2(d)
Nodes(d) == 1..(NodeLimit(d) - 1)
RootNode(d) == Pow2(d - 1)

\* One of the conditional shifts of CountTrailingZeros.
ShiftIfZero(x, k) ==
  IF x.n % Pow2(k) = 0 THEN [n |-> x.n \div Pow2(k), c |-> x.c + k] ELSE x

CountTrailingZerosShort(n) ==
  IF n % 2 = 1 THEN 0
  ELSE LET x == ShiftIfZero(ShiftIfZero([n |-> n, c |-> 1], 4), 2) IN x.c
CountTrailingZeros(n) ==
  IF n % 2 = 1 THEN 0
  ELSE LET x == ShiftIfZero(ShiftIfZero(ShiftIfZero(ShiftIfZero([n |-> n, c |-> 1], 16), 8), 4), 2)
       IN  x.c - (x.n % 2)

\* The counts of all node numbers, computed once.
Zeros == [n \in 1..Pow2(HashBits) |-> CountTrailingZeros(n)]

IsLeaf(d, n) == n % 2 = 1 /\ n < Pow2(d)

LeafNode(h, d) == LET n == h \div Pow2(HashBits - d) IN IF n % 2 = 1 THEN n ELSE n + 1

ParentNode(n) ==
  LET shift == Zeros[n]
  IN  IF (n \div Pow2(shift + 1)) % 2 = 1 THEN n - Pow2(shift) ELSE n + Pow2(shift)

LeftChild(n) == IF n % 2 = 1 THEN n ELSE n - Pow2(Zeros[n] - 1)
RightChildUp(n) == IF n % 2 = 1 THEN n ELSE n + Pow2(Zeros[n])
RightChild(n) == IF n % 2 = 1 THEN n ELSE n + Pow2(Zeros[n] - 1)

SubRangeMin(n) == n - Pow2(Zeros[n])
SubRangeMax(n) == n + Pow2(Zeros[n])

Level(d, n) == d - Zeros[n]

\* The node of a tree of depth e that stands for node n of a tree of depth d.
TranslateNodeUp(d, n, e) == IF d < e THEN n * Pow2(e - d) + 1 ELSE n \div Pow2(d - e)
TranslateNode(d, n, e) == IF d < e THEN n * Pow2(e - d) ELSE n \div Pow2(d - e)
-----------------------------------------------------------------------------
(* Hash updates; t is the function from nodes to hashes *)

Combined(t, n) ==
  IF n % 2 = 1 THEN t ELSE [t EXCEPT ![n] = Xor(t[LeftChild(n)], t[RightChild(n)])]

\* The queue of Update has as many places as the update has keys and drops
\* what does not fit.
Enqueue(q, capacity, n) == IF Len(q) = capacity THEN q ELSE Append(q, n)

\* One round of the loop that carries changed leaves up to the root.
UpdateRound(d, capacity, s) ==
  IF s.queue = <<>> THEN s
  ELSE LET n == Head(s.queue)
       IN  [tree  |-> Combined(s.tree, n),
            queue |-> IF n # RootNode(d) THEN Enqueue(Tail(s.queue), capacity, ParentNode(n))
                      ELSE Tail(s.queue)]

Rounds(n) == [i \in 1..n |-> i]

\* Update and UndoUpdate: diffs is a sequence of records [leaf, old, new]
\* with the hashes of a row before and after.
Update(d, t, diffs) ==
  LET atLeaf(u, x) == [u EXCEPT ![x.leaf] = Xor(Xor(@, x.old), x.new)]
      loop(s, i) == UpdateRound(d, Len(diffs), s)
  IN  FoldLeft(loop,
               [tree  |-> FoldLeft(atLeaf, t, diffs),
                queue |-> [i \in 1..Len(diffs) |-> diffs[i].leaf]],
               Rounds(Len(diffs) * d)).tree

\* UpdateLeafHash: the new hash of a leaf and of all nodes above it.
UpdateLeafHash(d, t, leaf, hash) ==
  LET climb(s, i) ==
        IF s.node = ParentNode(RootNode(d)) THEN s
        ELSE [tree |-> Combined(s.tree, s.node), node |-> ParentNode(s.node)]
  IN  IF ~IsLeaf(d, leaf) THEN t
      ELSE FoldLeft(climb, [tree |-> [t EXCEPT ![leaf] = hash], node |-> leaf], Rounds(d + 1)).tree

EmptyTree(d) == [n \in Nodes(d) |-> {}]
=============================================================================
