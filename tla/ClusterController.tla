--------------------------- MODULE ClusterController ---------------------------
(***************************************************************************)
(* The cluster state that every cloud node keeps by applying the same log  *)
(* of commands (cluster/state.go, cluster/controller.go), as node Local    *)
(* sees it: members and their capacities, the ring of tokens, the holders  *)
(* of partition replicas, and what Local derives from them: its caches of  *)
(* partition owners and the deltas it acts upon. A delta that says that    *)
(* Local has gained ownership of a replica makes it start a transfer.      *)
(*                                                                         *)
(* Ownership follows from the tokens and changes at once; a replica is     *)
(* held by whoever took it last. Tokens and held replicas are kept twice,  *)
(* in the ring or replica table and in the configurations of the nodes.    *)
(*                                                                         *)
(* A node that lags behind may be brought up to date by a snapshot of the  *)
(* state of another one. While it lags, the variables of the replicated    *)
(* state are those of the other nodes and seen is the state Local is in.   *)
(***************************************************************************)
EXTENDS Partitioning

CONSTANTS
  Node,              \* node IDs
  Local,             \* the node whose view is modelled
  Capacities,        \* capacities a node can be given
  PartitionCounts,   \* partition counts that may be proposed
  ReplicationFactors,\* replication factors that may be proposed
  Wanted,            \* bound: the partitions whose replicas nodes try to take
  MaxTakes,          \* bound on replicas taken
  MaxSnapshots       \* bound on snapshots applied

ASSUME ClusterAssumption ==
  /\ Node \subseteq Nat \ {Nobody} /\ Local \in Node
  /\ Capacities \subseteq Nat
  /\ PartitionCounts \subseteq Nat \ {0} /\ ReplicationFactors \subseteq Nat \ {0}
  /\ MaxTakes \in Nat /\ MaxSnapshots \in Nat

VARIABLES
  capacity,          \* the members of the cluster and their capacities
  removed,           \* IDs of former members
  partitions, replicationFactor,  \* ClusterSettings, 0 until they are set
  tokens,            \* the owner of each token
  nodeTokens,        \* the tokens of each member, by its configuration
  holder,            \* the holder of each partition replica
  nodeReplicas,      \* the replicas held by each member, by its configuration
  ownersCache,       \* partitionOwnersCache: owners of some partitions
  ownedCache,        \* localNodeOwnedPartitionReplicaCache: nil or a set
  told,              \* replicas that the deltas say Local owns
  toldHeld,          \* replicas that the deltas say Local holds
  lagging, seen,     \* whether Local lags, and the state it is in
  takes, snapshots

settings == <<partitions, replicationFactor>>
state == <<capacity, removed, settings, tokens, nodeTokens, holder, nodeReplicas>>
derived == <<ownersCache, ownedCache, told, toldHeld>>
vars == <<state, derived, lagging, seen, takes, snapshots>>

Members == DOMAIN capacity
AreInitialized == partitions # 0 /\ replicationFactor # 0
Replicas == Tokens(partitions) \X (0..(replicationFactor - 1))
Nil == {}

\* The replicas node n owns by the token assignment owner.
OwnedBy(n, owner, rf) ==
  {x \in (DOMAIN owner) \X (0..(rf - 1)) : Owners(owner, x[1], rf)[x[2] + 1] = n}

TypeOK ==
  /\ Members \subseteq Node /\ removed \subseteq Node
  /\ \A n \in Members : capacity[n] \in Capacities
  /\ partitions \in {0} \cup PartitionCounts /\ replicationFactor \in {0} \cup ReplicationFactors
  /\ DOMAIN tokens = IF AreInitialized THEN Tokens(partitions) ELSE {}
  /\ DOMAIN holder = IF AreInitialized THEN Replicas ELSE {}
  /\ DOMAIN nodeTokens = Members /\ DOMAIN nodeReplicas = Members
  /\ lagging \in BOOLEAN

Init ==
  /\ capacity = <<>> /\ removed = {}
  /\ partitions = 0 /\ replicationFactor = 0
  /\ tokens = <<>> /\ nodeTokens = <<>>
  /\ holder = <<>> /\ nodeReplicas = <<>>
  /\ ownersCache = <<>> /\ ownedCache = Nil
  /\ told = {} /\ toldHeld = {}
  /\ lagging = FALSE /\ seen = Nil
  /\ takes = 0 /\ snapshots = 0
-----------------------------------------------------------------------------
(* What Local derives from the state *)

AllOwners(owner, rf) == [p \in DOMAIN owner |-> Owners(owner, p, rf)]

ClearCaches == IF lagging THEN UNCHANGED <<ownersCache, ownedCache>> ELSE ownersCache' = <<>> /\ ownedCache' = Nil

\* Local compares what it owned by the assignment before with what it owns
\* by the one after, having dropped its caches, and fills them on the way.
DiffOwnedOldCache(before, after, rf) ==
  LET was == OwnedBy(Local, before, rf)
      is == OwnedBy(Local, after, rf)
  IN  /\ ownersCache' = AllOwners(before, rf)
      /\ ownedCache' = {was}
      /\ told' = (told \ (was \ is)) \cup (is \ was)
DiffOwnedGains(before, after, rf) ==
  LET was == OwnedBy(Local, before, rf)
      is == OwnedBy(Local, after, rf)
  IN  /\ ownersCache' = AllOwners(after, rf)
      /\ ownedCache' = {is}
      /\ told' = told \cup (is \ was)
DiffOwned(before, after, rf) ==
  IF lagging THEN UNCHANGED <<ownersCache, ownedCache, told>>
  ELSE LET was == OwnedBy(Local, before, rf)
           is == OwnedBy(Local, after, rf)
       IN  /\ ownersCache' = AllOwners(after, rf)
           /\ ownedCache' = {is}
           /\ told' = (told \ (was \ is)) \cup (is \ was)

DiffHeld(before, after) ==
  toldHeld' = IF lagging THEN toldHeld ELSE (toldHeld \ (before \ after)) \cup (after \ before)

HeldBy(n, m) == IF n \in DOMAIN m THEN m[n] ELSE {}

\* partitionOwners: from the cache, which is filled if need be.
PartitionOwners(p) ==
  IF p \in DOMAIN ownersCache /\ ~lagging THEN ownersCache[p] ELSE Owners(tokens, p, replicationFactor)
CacheOwners(p) ==
  ownersCache' = IF lagging THEN ownersCache
                 ELSE [q \in DOMAIN ownersCache \cup {p} |-> IF q = p THEN PartitionOwners(p) ELSE ownersCache[q]]
-----------------------------------------------------------------------------
(* Tokens *)

\* AssignToken for every token that is assigned to new: it leaves the
\* configuration of its owner, enters the ring and the one of its new owner.
AssignEachKeeping(cap, owner, has, new) ==
  /\ tokens' = [t \in DOMAIN owner |-> new[t]]
  /\ nodeTokens' = [n \in DOMAIN cap |-> has[n] \cup {t \in DOMAIN owner : new[t] = n}]
AssignEach(cap, owner, has, new) ==
  LET valid(t) == t \in DOMAIN new /\ new[t] \in DOMAIN cap \cup {Nobody}
  IN  /\ tokens' = [t \in DOMAIN owner |-> IF valid(t) THEN new[t] ELSE owner[t]]
      /\ nodeTokens' = [n \in DOMAIN cap |->
           (has[n] \ {t \in DOMAIN owner : valid(t) /\ owner[t] = n})
             \cup {t \in DOMAIN owner : valid(t) /\ new[t] = n}]

\* assignTokens, in a state with these members and this ring.
Reassign(cap, owner, has, rf) ==
  /\ AssignEach(cap, owner, has, AssignTokens(cap, has, owner))
  /\ DiffOwned(owner, tokens', rf)

ReassignIfInitialized(cap, owner, has) ==
  IF AreInitialized THEN Reassign(cap, owner, has, replicationFactor)
  ELSE tokens' = owner /\ nodeTokens' = has /\ UNCHANGED <<ownersCache, ownedCache, told>>
-----------------------------------------------------------------------------
(* Commands *)

UpdateNodeConfig(n, c) ==
  /\ n \in Members /\ capacity[n] # c
  /\ capacity' = [capacity EXCEPT ![n] = c]
  /\ ReassignIfInitialized(capacity', tokens, nodeTokens)
  /\ UNCHANGED <<removed, settings, holder, nodeReplicas, toldHeld, lagging, seen, takes, snapshots>>

\* IDs of members, and of former members, are refused.
With(f, n, x) == [m \in DOMAIN f \cup {n} |-> IF m = n THEN x ELSE f[m]]
Without(f, n) == [m \in DOMAIN f \ {n} |-> f[m]]

AddNode(n, c) ==
  /\ n \notin Members \cup removed
  /\ capacity' = With(capacity, n, c)
  /\ nodeReplicas' = With(nodeReplicas, n, {})
  /\ ReassignIfInitialized(capacity', tokens, With(nodeTokens, n, {}))
  /\ UNCHANGED <<removed, settings, holder, toldHeld, lagging, seen, takes, snapshots>>

\* ClusterState.RemoveNode: whatever node n held is held by nobody.
ReleaseReplicasKeeping(n) ==
  /\ holder' = [x \in DOMAIN holder |-> IF x \in nodeReplicas[n] THEN Nobody ELSE holder[x]]
  /\ removed' = removed \cup {n}
  /\ UNCHANGED nodeReplicas
ReleaseReplicas(n) ==
  /\ holder' = [x \in DOMAIN holder |-> IF x \in nodeReplicas[n] THEN Nobody ELSE holder[x]]
  /\ nodeReplicas' = Without(nodeReplicas, n)
  /\ removed' = removed \cup {n}
ReleasedTokens(n) == [t \in DOMAIN tokens |-> IF t \in nodeTokens[n] THEN Nobody ELSE tokens[t]]

RemoveNode(n) ==
  /\ n \in Members
  /\ capacity' = Without(capacity, n)
  /\ ReleaseReplicas(n)
  /\ ReassignIfInitialized(capacity', ReleasedTokens(n), Without(nodeTokens, n))
  /\ UNCHANGED <<settings, toldHeld, lagging, seen, takes, snapshots>>

\* The replacement m must be a member without tokens. It is given the
\* capacity and the tokens of n; nothing else moves.
ReplaceNode(n, m) ==
  /\ n \in Members /\ m \in Members \ {n} /\ nodeTokens[m] = {}
  /\ capacity' = Without([capacity EXCEPT ![m] = capacity[n]], n)
  /\ ReleaseReplicas(n)
  /\ tokens' = [t \in DOMAIN tokens |-> IF t \in nodeTokens[n] THEN m ELSE tokens[t]]
  /\ nodeTokens' = Without([nodeTokens EXCEPT ![m] = nodeTokens[n]], n)
  /\ IF AreInitialized THEN DiffOwned(tokens, tokens', replicationFactor) ELSE ClearCaches /\ UNCHANGED told
  /\ UNCHANGED <<settings, toldHeld, lagging, seen, takes, snapshots>>

\* A replica leaves the configuration of its holder and enters that of n.
AssignPartitionReplicaKeeping(x, n) ==
  /\ holder' = [holder EXCEPT ![x] = n]
  /\ nodeReplicas' = [nodeReplicas EXCEPT ![n] = @ \cup {x}]
AssignPartitionReplica(x, n) ==
  /\ holder' = [holder EXCEPT ![x] = n]
  /\ nodeReplicas' = [m \in Members |-> (IF m = holder[x] THEN nodeReplicas[m] \ {x} ELSE nodeReplicas[m])
                                          \cup (IF m = n THEN {x} ELSE {})]

\* A node becomes the holder of a replica that it owns.
TakePartitionReplica(p, r, n) ==
  /\ CacheOwners(p)
  /\ IF r + 1 \in DOMAIN PartitionOwners(p) /\ PartitionOwners(p)[r + 1] = n /\ n \in Members
     THEN /\ takes < MaxTakes /\ takes' = takes + 1
          /\ AssignPartitionReplica(<<p, r>>, n)
          /\ DiffHeld(HeldBy(Local, nodeReplicas), HeldBy(Local, nodeReplicas'))
     ELSE UNCHANGED <<holder, nodeReplicas, toldHeld, takes>>
  /\ UNCHANGED <<capacity, removed, settings, tokens, nodeTokens, ownedCache, told, lagging, seen, snapshots>>

\* The settings can be made once. The second one initializes the ring.
InitializeClusterIfReady ==
  IF partitions' # 0 /\ replicationFactor' # 0
  THEN LET unassigned == [t \in Tokens(partitions') |-> Nobody]
       IN  /\ holder' = [x \in Tokens(partitions') \X (0..(replicationFactor' - 1)) |-> Nobody]
           /\ Reassign(capacity, unassigned, nodeTokens, replicationFactor')
  ELSE UNCHANGED <<tokens, nodeTokens, holder, ownersCache, ownedCache, told>>

SetReplicationFactor(k) ==
  /\ replicationFactor = 0
  /\ replicationFactor' = k /\ partitions' = partitions
  /\ InitializeClusterIfReady
  /\ UNCHANGED <<capacity, removed, nodeReplicas, toldHeld, lagging, seen, takes, snapshots>>

SetPartitionCount(k) ==
  /\ partitions = 0
  /\ partitions' = k /\ replicationFactor' = replicationFactor
  /\ InitializeClusterIfReady
  /\ UNCHANGED <<capacity, removed, nodeReplicas, toldHeld, lagging, seen, takes, snapshots>>
-----------------------------------------------------------------------------
(* Snapshots *)

\* Local, a member, falls behind: from here on it does not see the commands.
Lag ==
  /\ ~lagging /\ snapshots < MaxSnapshots /\ Local \in Members
  /\ lagging' = TRUE /\ snapshots' = snapshots + 1
  /\ seen' = {[tokens |-> tokens, rf |-> replicationFactor, init |-> AreInitialized,
               held |-> HeldBy(Local, nodeReplicas)]}
  /\ UNCHANGED <<state, derived, takes>>

\* The caches are dropped, and filled again for the comparison before the
\* new state is read from the snapshot.
ApplySnapshot ==
  /\ lagging
  /\ LET old == CHOOSE s \in seen : TRUE
         was == IF old.init THEN OwnedBy(Local, old.tokens, old.rf) ELSE {}
         is == IF old.init THEN was
               ELSE IF AreInitialized THEN OwnedBy(Local, tokens, replicationFactor) ELSE {}
     IN  /\ ownersCache' = IF old.init THEN AllOwners(old.tokens, old.rf)
                           ELSE IF AreInitialized THEN AllOwners(tokens, replicationFactor) ELSE <<>>
         /\ ownedCache' = IF old.init \/ AreInitialized THEN {is} ELSE Nil
         /\ told' = (told \ (was \ is)) \cup (is \ was)
         /\ toldHeld' = IF Local \notin Members THEN toldHeld
                        ELSE (toldHeld \ (old.held \ nodeReplicas[Local])) \cup (nodeReplicas[Local] \ old.held)
  /\ lagging' = FALSE /\ seen' = Nil
  /\ UNCHANGED <<state, takes, snapshots>>
-----------------------------------------------------------------------------
Step ==
  \/ \E n \in Node, c \in Capacities : UpdateNodeConfig(n, c) \/ AddNode(n, c)
  \/ \E n \in Node : RemoveNode(n) \/ \E m \in Node : ReplaceNode(n, m)
  \/ \E p \in Tokens(partitions) \cap Wanted, r \in 0..replicationFactor, n \in Node : TakePartitionReplica(p, r, n)
  \/ \E k \in ReplicationFactors : SetReplicationFactor(k)
  \/ \E k \in PartitionCounts : SetPartitionCount(k)

Spec == Init /\ [][Step]_vars

SpecSnapshots == Init /\ [][Step \/ Lag \/ ApplySnapshot]_vars
-----------------------------------------------------------------------------
(* Properties *)

\* The ring and the configurations of the nodes agree: "a token is owned by
\* exactly one node at a time" (state.go:273), and by no former member.
TokensAgree ==
  /\ \A t \in DOMAIN tokens : tokens[t] \in Members \cup {Nobody}
  /\ \A n \in Members : nodeTokens[n] = {t \in DOMAIN tokens : tokens[t] = n}

\* The table of holders and the configurations of the nodes agree as well.
HoldersAgree ==
  /\ \A x \in DOMAIN holder : holder[x] \in Members \cup {Nobody}
  /\ \A n \in Members : nodeReplicas[n] = {x \in DOMAIN holder : holder[x] = n}

AvailableMembers == {n \in Members : capacity[n] # 0}

\* As long as there have not been more nodes than partitions, every token is
\* at a node that stays in the cluster and every such node has its share (the
\* invariants stated in AssignTokens, but for the upper bound).
SharesAssigned ==
  AreInitialized /\ AvailableMembers # {} /\ Cardinality(Members \cup removed) <= partitions =>
    /\ \A t \in DOMAIN tokens : tokens[t] \in AvailableMembers
    /\ \A n \in AvailableMembers :
         Cardinality(nodeTokens[n]) >= TokenCountFloor(partitions, Cardinality(AvailableMembers))

\* The upper bound: "at most tokenCountCeil tokens" (partitioner.go:316).
SharesBounded ==
  AreInitialized /\ AvailableMembers # {} /\ Cardinality(Members \cup removed) <= partitions =>
    \A n \in AvailableMembers :
      Cardinality(nodeTokens[n]) <= TokenCountCeil(partitions, Cardinality(AvailableMembers))

\* Local never answers from an outdated cache.
CachesFresh ==
  ~lagging =>
    /\ \A p \in DOMAIN ownersCache : ownersCache[p] = Owners(tokens, p, replicationFactor)
    /\ \A S \in ownedCache : S = OwnedBy(Local, tokens, replicationFactor)

\* A member that has acted upon every delta knows what it owns and holds:
\* it has started a transfer for each replica it owns, and for no other.
LocalNodeTold ==
  Local \in Members /\ ~lagging =>
    /\ told = OwnedBy(Local, tokens, replicationFactor)
    /\ toldHeld = nodeReplicas[Local]

\* Both books of tokens and both books of replicas agree, and have the entries
\* that the settings and the members call for.
BooksAgree == TypeOK /\ TokensAgree /\ HoldersAgree
=============================================================================
