---------------------------- MODULE MCMerkleStore -----------------------------
(* Model checking of MerkleStore: three keys, of which 1 and 3 are on one   *)
(* leaf of a tree of depth 2 and on different leaves at depth 3.            *)
EXTENDS MerkleStore

ThreeKeys == <<4, 0, 6>>
=============================================================================
