----------------------------- MODULE MerkleStore ------------------------------
(***************************************************************************)
(* A store's rows and the two other things it keeps of them: the merkle    *)
(* tree in memory, whose leaf hashes are also on disk, and the index of    *)
(* rows by leaf that sync sessions read (bucket/store.go). Writers run     *)
(* concurrently and are kept apart by key locks and leaf locks; a storage  *)
(* batch may fail; the process may die at any step, also while it rebuilds *)
(* leaves and index for a new merkle depth, and start again.               *)
(*                                                                         *)
(* A row's content is abstracted to what its hash tells apart: none (no    *)
(* row), tomb (only tombstones, which hash to zero) or a value.            *)
(***************************************************************************)
EXTENDS MerkleKeys

CONSTANTS
  Value,         \* values of rows
  Depths,        \* merkle depths an operator may configure
  Writer,        \* goroutines running Batch or Merge
  MaxBatches,    \* bound on batches
  MaxErrors,     \* bound on storage errors of Batch and Merge
  MaxForgetErrors, \* bound on storage errors of Forget
  MaxCrashes,    \* bound on restarts
  MayRevert      \* TRUE: the old depth may come back before a rebuild ends

ASSUME MerkleAssumption ==
  /\ "none" \notin Value /\ "tomb" \notin Value
  /\ Depths \subseteq 1..HashBits
  /\ {MaxBatches, MaxErrors, MaxForgetErrors, MaxCrashes} \subseteq Nat
  /\ MayRevert \in BOOLEAN

VARIABLES
  stored, leaves, index,   \* on disk: row contents, leaf hashes, leaf index
  dbDepth, dbFormat,       \* on disk: metadata, 0 if missing
  depth, tree, format,     \* in memory: configured depth, merkle tree, format read
  phase,                   \* what the process is doing
  todo,                    \* keys or leaves a startup phase still has to write
  rebuilding,              \* history: a rebuild has begun and is not recorded
  pc, wanted, got, diffs,  \* writers: place, locks in order, how many it has, rows
  batches, errors, forgetErrors, crashes

disk == <<stored, leaves, index, dbDepth, dbFormat>>
writers == <<pc, wanted, got, diffs>>
storeBounds == <<batches, errors, forgetErrors, crashes>>
memory == <<depth, tree, format>>
storeVars == <<disk, memory, phase, todo, rebuilding, writers, storeBounds>>

NoRow == "none"
Tomb == "tomb"
Content == {NoRow, Tomb} \cup Value
AllLeaves == {n \in Nodes(HashBits) : n % 2 = 1}

RowHash(k, c) == IF c \in Value THEN {<<k, c>>} ELSE {}

Leaf(k) == LeafNode(KeyHash[k], depth)

StoredLeaf(l) == IF l \in DOMAIN leaves THEN leaves[l] ELSE {}

StoreTypeOK ==
  /\ stored \in [Key -> Content]
  /\ DOMAIN leaves \subseteq AllLeaves
  /\ index \subseteq AllLeaves \X Key
  /\ dbDepth \in Depths \cup {0} /\ dbFormat \in {0, 1}
  /\ depth \in Depths /\ DOMAIN tree = Nodes(depth) /\ format \in {0, 1}
  /\ phase \in {"down", "clear", "reindex", "releaf", "upgrade", "record", "load", "up"}
  /\ todo \subseteq Key \cup AllLeaves /\ rebuilding \in BOOLEAN
  /\ pc \in [Writer -> {"idle", "locking", "updated"}]
  /\ \A w \in Writer : got[w] \in 0..Len(wanted[w])

StoreInit ==
  /\ stored = [k \in Key |-> NoRow] /\ leaves = << >> /\ index = {}
  /\ dbDepth = 0 /\ dbFormat = 0
  /\ depth \in Depths /\ tree = EmptyTree(depth) /\ format = 0
  /\ phase = "down" /\ todo = {} /\ rebuilding = FALSE
  /\ pc = [w \in Writer |-> "idle"] /\ wanted = [w \in Writer |-> <<>>]
  /\ got = [w \in Writer |-> 0] /\ diffs = [w \in Writer |-> {}]
  /\ batches = 0 /\ errors = 0 /\ forgetErrors = 0 /\ crashes = 0
-----------------------------------------------------------------------------
(* Startup: Initialize and RebuildMerkleLeafs *)

\* The process starts with depth d and reads the metadata.
Initialize(d) ==
  /\ phase = "down"
  /\ MayRevert \/ ~(rebuilding /\ d = dbDepth)
  /\ depth' = d /\ tree' = EmptyTree(d) /\ format' = dbFormat
  /\ phase' = IF dbDepth # d THEN "clear" ELSE IF dbFormat # 1 THEN "upgrade" ELSE "load"
  /\ rebuilding' = (rebuilding \/ dbDepth # d)
  /\ UNCHANGED <<disk, todo, writers, storeBounds>>

\* The entries under the leaf and index prefixes are deleted one by one in
\* key order. The metadata is under the index prefix (encodeMetadataKey) and
\* its names sort after all leaf numbers.
ClearLeaf ==
  /\ phase = "clear" /\ DOMAIN leaves # {}
  /\ leaves' = [l \in DOMAIN leaves \ {Min(DOMAIN leaves)} |-> leaves[l]]
  /\ UNCHANGED <<stored, index, dbDepth, dbFormat, memory, phase, todo, rebuilding, writers, storeBounds>>

ClearIndex ==
  /\ phase = "clear" /\ DOMAIN leaves = {} /\ index # {}
  /\ LET l == Min({e[1] : e \in index})
         k == Min({e[2] : e \in {x \in index : x[1] = l}})
     IN  index' = index \ {<<l, k>>}
  /\ UNCHANGED <<stored, leaves, dbDepth, dbFormat, memory, phase, todo, rebuilding, writers, storeBounds>>

ClearMetadata ==
  /\ phase = "clear" /\ DOMAIN leaves = {} /\ index = {}
  /\ dbDepth # 0 \/ dbFormat # 0
  /\ dbDepth' = 0
  /\ dbFormat' = IF dbDepth = 0 THEN 0 ELSE dbFormat
  /\ UNCHANGED <<stored, leaves, index, memory, phase, todo, rebuilding, writers, storeBounds>>

ClearDone ==
  /\ phase = "clear" /\ DOMAIN leaves = {} /\ index = {} /\ dbDepth = 0 /\ dbFormat = 0
  /\ phase' = "reindex"
  /\ todo' = {k \in Key : stored[k] # NoRow}
  /\ UNCHANGED <<disk, memory, rebuilding, writers, storeBounds>>

\* The hash of leaf l according to the rows on disk, and the leaves with one.
LeafHashOfRows(l) == {e \in UNION {RowHash(k, stored[k]) : k \in Key} : Leaf(e[1]) = l}
NonzeroLeaves == {Leaf(k) : k \in {j \in Key : stored[j] \in Value}}

\* Every row is entered in the index under its new leaf.
Reindex ==
  /\ phase = "reindex"
  /\ IF todo # {}
     THEN /\ index' = index \cup {<<Leaf(Min(todo)), Min(todo)>>}
          /\ todo' = todo \ {Min(todo)} /\ UNCHANGED phase
     ELSE phase' = "releaf" /\ todo' = NonzeroLeaves /\ UNCHANGED index
  /\ UNCHANGED <<stored, leaves, dbDepth, dbFormat, memory, rebuilding, writers, storeBounds>>

\* The leaf hashes that are not zero are written.
Releaf ==
  /\ phase = "releaf"
  /\ IF todo # {}
     THEN LET l == Min(todo)
          IN  /\ leaves' = [m \in DOMAIN leaves \cup {l} |-> IF m = l THEN LeafHashOfRows(l) ELSE leaves[m]]
              /\ todo' = todo \ {l} /\ UNCHANGED phase
     ELSE phase' = (IF format # 1 THEN "upgrade" ELSE "record") /\ UNCHANGED <<leaves, todo>>
  /\ UNCHANGED <<stored, index, dbDepth, dbFormat, memory, rebuilding, writers, storeBounds>>

\* UpgradeStorageFormat rewrites all rows, numbering them from 0.
UpgradeStorageFormat ==
  /\ phase = "upgrade"
  /\ phase' = "record"
  /\ UNCHANGED <<disk, memory, todo, rebuilding, writers, storeBounds>>

RecordMetadata ==
  /\ phase = "record"
  /\ dbDepth' = depth /\ dbFormat' = 1 /\ rebuilding' = FALSE
  /\ phase' = "load"
  /\ UNCHANGED <<stored, leaves, index, memory, todo, writers, storeBounds>>

\* initializeMerkleTree: the stored leaf hashes are entered one after another.
InitializeMerkleTree ==
  /\ phase = "load"
  /\ LET enter(t, l) == UpdateLeafHash(depth, t, l, leaves[l])
     IN  tree' = FoldLeft(enter, EmptyTree(depth), InOrder(DOMAIN leaves))
  /\ phase' = "up"
  /\ UNCHANGED <<disk, depth, format, todo, rebuilding, writers, storeBounds>>

\* The process dies. Only the disk is left.
Crash ==
  /\ phase # "down" /\ crashes < MaxCrashes
  /\ crashes' = crashes + 1
  /\ phase' = "down" /\ todo' = {}
  /\ pc' = [w \in Writer |-> "idle"] /\ wanted' = [w \in Writer |-> <<>>]
  /\ got' = [w \in Writer |-> 0] /\ diffs' = [w \in Writer |-> {}]
  /\ UNCHANGED <<disk, memory, rebuilding, batches, errors, forgetErrors>>
-----------------------------------------------------------------------------
(* Batch and Merge *)

\* sortedLockKeys: the keys in order, then the leaves they are on in order.
LockKeysOnly(K) == [i \in 1..Cardinality(K) |-> <<"key", InOrder(K)[i]>>]
LockKeysInterleaved(K) ==
  LET take(q, k) == IF <<"leaf", Leaf(k)>> \in ToSet(q) THEN Append(q, <<"key", k>>)
                    ELSE q \o <<<<"key", k>>, <<"leaf", Leaf(k)>>>>
  IN  FoldLeft(take, <<>>, InOrder(K))
SortedLockKeys(K) ==
  LET L == {Leaf(k) : k \in K}
  IN  [i \in 1..Cardinality(K) |-> <<"key", InOrder(K)[i]>>]
        \o [i \in 1..Cardinality(L) |-> <<"leaf", InOrder(L)[i]>>]

Held(w) == {wanted[w][i] : i \in 1..got[w]}
Free(x) == \A w \in Writer : x \notin Held(w)

Begin(w, K) ==
  /\ phase = "up" /\ pc[w] = "idle" /\ batches < MaxBatches
  /\ batches' = batches + 1
  /\ wanted' = [wanted EXCEPT ![w] = SortedLockKeys(K)]
  /\ got' = [got EXCEPT ![w] = 0]
  /\ pc' = [pc EXCEPT ![w] = "locking"]
  /\ UNCHANGED <<disk, memory, phase, todo, rebuilding, diffs, errors, forgetErrors, crashes>>

Acquire(w) ==
  /\ pc[w] = "locking" /\ got[w] < Len(wanted[w])
  /\ Free(wanted[w][got[w] + 1])
  /\ got' = [got EXCEPT ![w] = got[w] + 1]
  /\ UNCHANGED <<disk, memory, phase, todo, rebuilding, pc, wanted, diffs, storeBounds>>

KeysOf(w) == {x[2] : x \in {y \in Held(w) : y[1] = "key"}}

Diff(x) == [leaf |-> Leaf(x.key), old |-> RowHash(x.key, x.old), new |-> RowHash(x.key, x.new)]
Updated(D) == Update(depth, tree, [i \in 1..Cardinality(D) |-> Diff(SetToSeq(D)[i])])

\* store.batch: the keys that change get a new content and the tree is
\* updated with it. A key without siblings cannot become a tombstone.
UpdateTree(w) ==
  /\ pc[w] = "locking" /\ got[w] = Len(wanted[w])
  /\ \E U \in SUBSET KeysOf(w) : \E f \in [U -> {Tomb} \cup Value] :
       /\ \A k \in U : ~(stored[k] = NoRow /\ f[k] = Tomb)
       /\ LET D == {[key |-> k, old |-> stored[k], new |-> f[k]] : k \in U}
          IN  diffs' = [diffs EXCEPT ![w] = D] /\ tree' = Updated(D)
  /\ pc' = [pc EXCEPT ![w] = "updated"]
  /\ UNCHANGED <<disk, depth, format, phase, todo, rebuilding, wanted, got, storeBounds>>

ReleaseKeepingCount(w) ==
  /\ pc' = [pc EXCEPT ![w] = "idle"] /\ wanted' = [wanted EXCEPT ![w] = <<>>]
  /\ diffs' = [diffs EXCEPT ![w] = {}] /\ UNCHANGED got
Release(w) ==
  /\ pc' = [pc EXCEPT ![w] = "idle"] /\ wanted' = [wanted EXCEPT ![w] = <<>>]
  /\ got' = [got EXCEPT ![w] = 0] /\ diffs' = [diffs EXCEPT ![w] = {}]

\* The storage batch succeeds: rows, index entries and leaf hashes at once.
Persist(w) ==
  /\ pc[w] = "updated"
  /\ LET L == {Leaf(x.key) : x \in diffs[w]}
     IN  /\ leaves' = [l \in DOMAIN leaves \cup L |-> IF l \in L THEN tree[l] ELSE leaves[l]]
         /\ index' = index \cup {<<Leaf(x.key), x.key>> : x \in diffs[w]}
         /\ stored' = [k \in Key |-> IF \E x \in diffs[w] : x.key = k
                                   THEN (CHOOSE x \in diffs[w] : x.key = k).new ELSE stored[k]]
  /\ Release(w)
  /\ UNCHANGED <<dbDepth, dbFormat, memory, phase, todo, rebuilding, storeBounds>>

\* The storage batch fails and the tree is put back (UndoUpdate).
StorageErrorNoUndo(w) ==
  /\ pc[w] = "updated" /\ errors < MaxErrors
  /\ errors' = errors + 1
  /\ Release(w)
  /\ UNCHANGED <<disk, memory, phase, todo, rebuilding, batches, forgetErrors, crashes>>
StorageError(w) ==
  /\ pc[w] = "updated" /\ errors < MaxErrors
  /\ errors' = errors + 1
  /\ tree' = Updated(diffs[w])
  /\ Release(w)
  /\ UNCHANGED <<disk, depth, format, phase, todo, rebuilding, batches, forgetErrors, crashes>>
-----------------------------------------------------------------------------
(* Garbage collection and Forget: one key at a time, under its locks *)

Lockable(k) == phase = "up" /\ Free(<<"key", k>>) /\ Free(<<"leaf", Leaf(k)>>)

\* GarbageCollect leaves the tree alone: tombstones hash to zero.
GarbageCollectKeepingIndex(k) ==
  /\ Lockable(k) /\ stored[k] = Tomb
  /\ stored' = [stored EXCEPT ![k] = NoRow]
  /\ UNCHANGED <<index, leaves, dbDepth, dbFormat, memory, phase, todo, rebuilding, writers, storeBounds>>
GarbageCollect(k) ==
  /\ Lockable(k) /\ stored[k] = Tomb
  /\ stored' = [stored EXCEPT ![k] = NoRow]
  /\ index' = index \ {<<Leaf(k), k>>}
  /\ UNCHANGED <<leaves, dbDepth, dbFormat, memory, phase, todo, rebuilding, writers, storeBounds>>

ForgottenLeaf(k) == Xor(tree[Leaf(k)], RowHash(k, stored[k]))

Forget(k) ==
  /\ Lockable(k) /\ stored[k] # NoRow
  /\ tree' = UpdateLeafHash(depth, tree, Leaf(k), ForgottenLeaf(k))
  /\ stored' = [stored EXCEPT ![k] = NoRow]
  /\ index' = index \ {<<Leaf(k), k>>}
  /\ leaves' = [l \in DOMAIN leaves \cup {Leaf(k)} |-> IF l = Leaf(k) THEN ForgottenLeaf(k) ELSE leaves[l]]
  /\ UNCHANGED <<dbDepth, dbFormat, depth, format, phase, todo, rebuilding, writers, storeBounds>>

\* Forget's storage batch fails after the tree has been changed.
ForgetError(k) ==
  /\ Lockable(k) /\ stored[k] # NoRow /\ forgetErrors < MaxForgetErrors
  /\ forgetErrors' = forgetErrors + 1
  /\ tree' = UpdateLeafHash(depth, tree, Leaf(k), ForgottenLeaf(k))
  /\ UNCHANGED <<disk, depth, format, phase, todo, rebuilding, writers, batches, errors, crashes>>
-----------------------------------------------------------------------------
Startup ==
  \/ \E d \in Depths : Initialize(d)
  \/ ClearLeaf \/ ClearIndex \/ ClearMetadata \/ ClearDone \/ Reindex \/ Releaf
  \/ UpgradeStorageFormat \/ RecordMetadata \/ InitializeMerkleTree

WriterStep(w) == Acquire(w) \/ UpdateTree(w) \/ Persist(w) \/ StorageError(w)

StoreNext ==
  \/ Startup \/ Crash
  \/ \E w \in Writer : WriterStep(w) \/ \E K \in SUBSET Key \ {{}} : Begin(w, K)
  \/ \E k \in Key : GarbageCollect(k) \/ Forget(k) \/ ForgetError(k)

StoreSpec == StoreInit /\ [][StoreNext]_storeVars

\* A writer that has begun is a goroutine and is scheduled again and again.
StoreFairSpec == StoreSpec /\ \A w \in Writer : WF_storeVars(WriterStep(w))
-----------------------------------------------------------------------------
(* Properties *)

\* What the tree should know of key k: a writer that has updated the tree is
\* ahead of the disk.
Pending(k) ==
  LET D == {x \in UNION {diffs[w] : w \in {v \in Writer : pc[v] = "updated"}} : x.key = k}
  IN  IF D = {} THEN stored[k] ELSE (CHOOSE x \in D : TRUE).new

\* Every node of the tree in memory, at every moment, is the exclusive or of
\* the rows below it: no order of concurrent updates, undone updates and
\* removals leaves a stale hash, which would hide a row from sync sessions.
\* (Forget does not undo its change of the tree when its storage batch
\* fails, so all bets are off after such an error.)
TreeMatchesRows ==
  phase = "up" /\ forgetErrors = 0 =>
    \A n \in Nodes(depth) :
      tree[n] = UNION {RowHash(k, Pending(k)) : k \in KeysAt(depth, n)}

\* The leaf hashes on disk are those of the rows on disk at every moment at
\* which the process could die: a restart never brings back a wrong tree.
\* (Again as long as no Forget has failed.)
LeavesDurable == phase = "up" /\ forgetErrors = 0 => \A l \in AllLeaves : StoredLeaf(l) = LeafHashOfRows(l)

\* Sync sessions find every row of a leaf, and no other, through the index.
IndexComplete == phase = "up" => index = {<<Leaf(k), k>> : k \in {j \in Key : stored[j] # NoRow}}

\* Rows already in the current format are not numbered again: their local
\* versions are the serial numbers watching clients resume from.
NeverRenumbered == phase = "upgrade" => \A k \in Key : stored[k] = NoRow

\* Batches never wait for each other's locks forever.
WritersFinish == \A w \in Writer : pc[w] = "locking" ~> pc[w] = "idle"

\* After Batch, Merge, their undo, Forget, rebuild and restart the tree in memory
\* is the tree of the stored rows.
TreeSound == StoreTypeOK /\ TreeMatchesRows

\* What initializeMerkleTree and the sync sessions read after the next start,
\* leaf hashes and leaf index, is what the rows say.
DiskMatchesRows == LeavesDurable /\ IndexComplete
=============================================================================
