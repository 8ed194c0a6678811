---------------------------- MODULE ReplicatedKey ----------------------------
(***************************************************************************)
(* One key of one bucket on several replicas: client updates coordinated   *)
(* by any replica (Store.Batch), anti-entropy and replication between them *)
(* (Store.Merge) and tombstone garbage collection (Store.GarbageCollect).  *)
(* Store.lock gives a key to one of these at a time, so each is one step.  *)
(*                                                                         *)
(* A sibling set read at some replica at some time may be delivered to any *)
(* replica at any later time, any number of times, or never: sync sessions *)
(* push rows from a storage iterator, ClusterIO and partition transfers    *)
(* send copies over the network. A client context is the join of such a    *)
(* set, read earlier and possibly at another replica.                      *)
(***************************************************************************)
EXTENDS SiblingSets

CONSTANTS
  Values,       \* values a client can put (naturals above Nil)
  Timestamps,   \* physical clock readings; clocks of replicas are unrelated
  MaxWrites,    \* bound on the number of client updates
  Strategy      \* "default" or "lww": the bucket's conflict resolution

ASSUME ConstantsAssumption ==
  /\ MaxWrites \in Nat
  /\ Values \subseteq Nat \ {Nil}
  /\ Timestamps \subseteq Nat
  /\ Strategy \in {"default", "lww"}

VARIABLES
  store,        \* store[r]: the sibling set replica r holds for the key
  snaps,        \* every sibling set a replica has held, with what it knew
  known,        \* history: the updates replica r has taken in
  seen,         \* history: the updates each update was based on
  writes,       \* history: every sibling Batch has created
  nextId        \* the number of the next client update

vars == <<store, snaps, known, seen, writes, nextId>>

Update == 1..MaxWrites

Snapshots == [sibs : SUBSET Siblings, known : SUBSET Update]

TypeOK ==
  /\ store \in [Node -> SUBSET Siblings]
  /\ snaps \subseteq Snapshots
  /\ known \in [Node -> SUBSET Update]
  /\ seen \in [Update -> SUBSET Update]
  /\ writes \subseteq Siblings
  /\ nextId \in 1..(MaxWrites + 1)

Init ==
  /\ store = [r \in Node |-> {}]
  /\ snaps = {[sibs |-> {}, known |-> {}]}
  /\ known = [r \in Node |-> {}]
  /\ seen = [i \in Update |-> {}]
  /\ writes = {}
  /\ nextId = 1

ResolveConflicts(S) == IF Strategy = "lww" THEN LastWriterWins(S) ELSE MultiValue(S)

Save(r, S, K) ==
  /\ store' = [store EXCEPT ![r] = S]
  /\ known' = [known EXCEPT ![r] = K]
-----------------------------------------------------------------------------
\* The context the update is stamped with: the client's, or everything the
\* replica holds if the client sent none.
UpdateContextEmpty(r, ctx) == ctx
UpdateContext(r, ctx) == IF ctx = EmptyClock THEN Join(store[r]) ELSE ctx

\* A delete of a key that holds only tombstones keeps the oldest timestamp.
UpdateTimestamp(r, v, now) ==
  IF v = Nil /\ store[r] # {} /\ IsTombstoneSet(store[r]) THEN OldestTombstone(store[r]) ELSE now

NewSibling(r, ctx, v, now) ==
  [node |-> r, count |-> EventCount(store[r], UpdateContext(r, ctx), r),
   ctx |-> UpdateContext(r, ctx), val |-> v, ts |-> UpdateTimestamp(r, v, now), id |-> nextId]

\* Replica r applies an update made by a client whose context comes from the
\* snapshot x. A delete of a key with no siblings changes nothing.
Batch(r, x, v, now) ==
  LET ctx == Join(x.sibs)
      new == NewSibling(r, ctx, v, now)
      based == IF ctx = EmptyClock THEN known[r] ELSE x.known
  IN  /\ nextId <= MaxWrites
      /\ ~(v = Nil /\ store[r] = {})
      /\ \E S \in ResolveConflicts(Sync(Discard(store[r], new), {new})) :
           Save(r, S, known[r] \cup based \cup {nextId})
      /\ seen' = [seen EXCEPT ![nextId] = based]
      /\ writes' = writes \cup {new}
      /\ nextId' = nextId + 1

\* Replica r merges a sibling set. Siblings are compared by pointer, so the
\* row is rewritten whenever an incoming or a re-dotted sibling survives.
MergeResultsKeepOwn(S, T, r) ==
  UNION {IF R \cap S # {} THEN {S} ELSE ResolveConflicts(R) : R \in MergeSync(S, T, r)}
MergeResults(S, T, r) ==
  UNION {IF R \cap T = {} /\ R \subseteq S THEN {S} ELSE ResolveConflicts(R) : R \in MergeSync(S, T, r)}

Merge(r, x) ==
  /\ \E S \in MergeResults(store[r], x.sibs, r) : Save(r, S, known[r] \cup x.known)
  /\ UNCHANGED <<seen, writes, nextId>>

\* Tombstones older than the purge age are dropped, with their history.
GarbageCollect(r, cutoff) ==
  /\ store[r] # {}
  /\ CanPurge(store[r], cutoff)
  /\ Save(r, {}, {})
  /\ UNCHANGED <<snaps, seen, writes, nextId>>
-----------------------------------------------------------------------------
Live(r) == [sibs |-> store[r], known |-> known[r]]

Nothing == [sibs |-> {}, known |-> {}]

\* Copies of what r now stores may reach anyone from here on.
Copied(r) == snaps' = snaps \cup {Live(r)'}

\* One anti-entropy exchange that brings the row of q to r. It happens only
\* if the hashes the two replicas have for the key differ.
Exchange(q, r) ==
  /\ Hash(store[q]) # Hash(store[r])
  /\ Merge(r, Live(q))
  /\ Copied(r)

ClientUpdate(r, x) == \E v \in Values \cup {Nil}, now \in Timestamps : Batch(r, x, v, now)

\* Clients, and a network that delays, duplicates, reorders and loses.
Next == \E r \in Node, x \in snaps : (ClientUpdate(r, x) \/ Merge(r, x)) /\ Copied(r)

Spec == Init /\ [][Next]_vars

\* Replicas sync with one another again and again: sync_scheduler.go keeps
\* starting sessions with every peer.
FairSpec == Spec /\ \A q, r \in Node : WF_vars(Exchange(q, r))

\* The same with clients that never put a value that was put before.
NextDistinct == Next /\ \A w \in writes' \ writes : w.val \in {Nil, w.id}

DistinctSpec == Init /\ [][NextDistinct]_vars /\ \A q, r \in Node : WF_vars(Exchange(q, r))

\* The same replicas over a network that delivers at once: whatever goes
\* wrong here needs no late message.
NextLive ==
  /\ \E r \in Node, x \in {Live(q) : q \in Node} \cup {Nothing} : ClientUpdate(r, x) \/ Merge(r, x)
  /\ UNCHANGED snaps

SpecLive == Init /\ [][NextLive]_vars

\* The same with tombstones being garbage collected.
NextGC == NextLive \/ \E r \in Node, now \in Timestamps : GarbageCollect(r, now)

SpecGC == Init /\ [][NextGC]_vars
-----------------------------------------------------------------------------
(* Properties *)

Ids(S) == {s.id : s \in S}

\* No sibling a replica stores is overwritten by another one it stores: what
\* Batch and Merge write back are concurrent versions only. Sync compares
\* the two sets with each other and never a set with itself, so this rests
\* on every earlier write, on re-dotting and on the event numbers.
Antichain == \A r \in Node : \A s, t \in store[r] : ~HappenedBefore(s, t)

\* No two updates are ever given the same dot. Event counts from what the
\* replica has stored, so a replica must never forget its own last event.
DotsUnique == \A s, t \in writes : s.node = t.node /\ s.count = t.count => s = t

\* Every update a replica coordinated is covered by what it still stores.
OwnHistoryKept == \A w \in writes : w.count <= JoinOne(store[w.node], w.node)

\* The replicas implement the causal register: a read returns exactly the
\* updates the replica has taken in and that no other one of them was based on.
Register == INSTANCE CausalRegister WITH
              visible <- [r \in Node |-> Ids(store[r])],
              views <- {x.known : x \in snaps}
ImplementsRegister == Register!Spec

\* Once clients stop, anti-entropy brings all replicas to the same values,
\* although it looks only at keys whose hashes differ and although tombstones
\* do not count in a hash (README.md, Buckets: "replicated to every node").
ReadValues(r) == {s.val : s \in Visible(store[r])}
Converges == <>[](\A q, r \in Node : ReadValues(q) = ReadValues(r))

\* A value a replica coordinated itself never disappears from that replica
\* unless the client of another update had seen it (sibling_set.go, the
\* CLD-434 comment of MergeSync).
OwnUpdateSurvives ==
  [][\A r \in Node : \A s \in store[r] :
       s.node = r /\ ~IsTombstone(s)
         => \E t \in store'[r] : t.val = s.val \/ s.id \in seen'[t.id]]_vars

\* Under last-writer-wins a stored version gives way only to one that is at
\* least as new or whose client had seen it (README.md, Conflicts).
NewestKept ==
  [][\A r \in Node : \A s \in store[r] :
       s.id \notin Ids(store'[r])
         => \E t \in store'[r] : t.ts >= s.ts \/ s.id \in seen'[t.id]]_vars

\* What Batch and Merge leave in a row is well typed and concurrent.
SiblingsSound == TypeOK /\ Antichain

\* No update is numbered like another one, at any replica, however much of the
\* history was overwritten: a replica keeps knowing its own last event.
HistoryKept == DotsUnique /\ OwnHistoryKept
=============================================================================
