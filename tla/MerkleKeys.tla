------------------------------ MODULE MerkleKeys ------------------------------
(* The keys of a bucket and where they are in its merkle trees.            *)
EXTENDS MerkleTree

CONSTANTS
  MaxKey,        \* keys are 1..MaxKey in byte order
  KeyHash        \* KeyHash[k]: the leading HashBits bits of the key's hash

Key == 1..MaxKey

ASSUME KeysAssumption ==
  /\ MaxKey \in Nat \ {0}
  /\ KeyHash \in [Key -> 0..(Pow2(HashBits) - 1)]

\* The keys below node n of a tree of depth d.
KeysAt(d, n) == {k \in Key : LeafNode(KeyHash[k], d) \in SubRangeMin(n)..(SubRangeMax(n) - 1)}

\* The elements of a set of numbers, as an iterator over keys or leaves meets them.
InOrder(K) == CHOOSE q \in [1..Cardinality(K) -> K] : \A i, j \in DOMAIN q : i < j => q[i] < q[j]
=============================================================================
