------------------------ MODULE ClusterController_proof ------------------------
(***************************************************************************)
(* Proofs about ClusterController, for any nodes, capacities, settings and *)
(* numbers of commands. The first part assumes nothing about the tokens    *)
(* that AssignTokens computes: AssignToken refuses what is not a member.   *)
(* The second part proves what AssignTokens computes, by induction over    *)
(* the steps of its loops, and what follows from it for the cluster.       *)
(***************************************************************************)
EXTENDS ClusterController, FiniteSetTheorems, WellFoundedInduction, TLAPS

\* Without snapshots Local never lags; that its caches are up to date is what
\* makes a replica be taken only if it exists.
IInv == TypeOK /\ TokensAgree /\ HoldersAgree /\ CachesFresh /\ lagging = FALSE

LEMMA InitIInv == Init => IInv
<1> SUFFICES ASSUME Init PROVE IInv
  OBVIOUS
<1>1. \A f : f = <<>> => DOMAIN f = {}
  OBVIOUS
<1>2. /\ Members = {} /\ DOMAIN tokens = {} /\ DOMAIN holder = {}
      /\ DOMAIN nodeTokens = {} /\ DOMAIN nodeReplicas = {}
  BY <1>1, Zenon DEF Init, Members
<1>3. ~AreInitialized /\ partitions = 0 /\ replicationFactor = 0 /\ removed = {} /\ lagging = FALSE
  BY DEF Init, AreInitialized
<1>4. TypeOK
  BY <1>2, <1>3 DEF TypeOK
<1>5. CachesFresh
  <2>1. DOMAIN ownersCache = {} /\ ownedCache = {}
    BY <1>1, Zenon DEF Init, Nil
  <2> QED BY <2>1 DEF CachesFresh
<1> QED BY <1>2, <1>3, <1>4, <1>5 DEF IInv, TokensAgree, HoldersAgree

\* What AssignToken does to the ring and to the configurations, whatever the
\* new assignment is: owner and has are the ring and the configurations
\* before, which agree for the members in cap and may name former members
\* in no place.
LEMMA AssignEachAgrees ==
  ASSUME NEW cap, NEW owner, NEW has, NEW new,
         DOMAIN cap \subseteq Node,
         \A t \in DOMAIN owner : owner[t] \in DOMAIN cap \cup {Nobody},
         \A n \in DOMAIN cap : has[n] = {t \in DOMAIN owner : owner[t] = n},
         AssignEach(cap, owner, has, new)
  PROVE  /\ DOMAIN tokens' = DOMAIN owner
         /\ DOMAIN nodeTokens' = DOMAIN cap
         /\ \A t \in DOMAIN owner : tokens'[t] \in DOMAIN cap \cup {Nobody}
         /\ \A n \in DOMAIN cap : nodeTokens'[n] = {t \in DOMAIN owner : tokens'[t] = n}
<1> DEFINE valid(t) == t \in DOMAIN new /\ new[t] \in DOMAIN cap \cup {Nobody}
<1>1. tokens' = [t \in DOMAIN owner |-> IF valid(t) THEN new[t] ELSE owner[t]]
  BY DEF AssignEach
<1>2. nodeTokens' = [n \in DOMAIN cap |->
           (has[n] \ {t \in DOMAIN owner : valid(t) /\ owner[t] = n})
             \cup {t \in DOMAIN owner : valid(t) /\ new[t] = n}]
  BY DEF AssignEach
<1>3. \A t \in DOMAIN owner : tokens'[t] \in DOMAIN cap \cup {Nobody}
  BY <1>1
<1>4. ASSUME NEW n \in DOMAIN cap
      PROVE  nodeTokens'[n] = {t \in DOMAIN owner : tokens'[t] = n}
  <2>1. has[n] = {t \in DOMAIN owner : owner[t] = n}
    OBVIOUS
  <2>2. nodeTokens'[n] = (has[n] \ {t \in DOMAIN owner : valid(t) /\ owner[t] = n})
                            \cup {t \in DOMAIN owner : valid(t) /\ new[t] = n}
    BY <1>2
  <2>3. \A t \in DOMAIN owner : tokens'[t] = IF valid(t) THEN new[t] ELSE owner[t]
    BY <1>1
  <2> HIDE DEF valid
  <2> QED BY <2>1, <2>2, <2>3
<1> QED BY <1>1, <1>2, <1>3, <1>4

\* The same for assignTokens and for its omission before initialization.
LEMMA ReassignAgrees ==
  ASSUME NEW cap, NEW owner, NEW has,
         DOMAIN cap \subseteq Node, DOMAIN has = DOMAIN cap,
         \A t \in DOMAIN owner : owner[t] \in DOMAIN cap \cup {Nobody},
         \A n \in DOMAIN cap : has[n] = {t \in DOMAIN owner : owner[t] = n},
         ReassignIfInitialized(cap, owner, has)
  PROVE  /\ DOMAIN tokens' = DOMAIN owner
         /\ DOMAIN nodeTokens' = DOMAIN cap
         /\ \A t \in DOMAIN owner : tokens'[t] \in DOMAIN cap \cup {Nobody}
         /\ \A n \in DOMAIN cap : nodeTokens'[n] = {t \in DOMAIN owner : tokens'[t] = n}
<1> DEFINE new == AssignTokens(cap, has, owner)
<1>1. CASE AreInitialized
  <2>1. AssignEach(cap, owner, has, new)
    BY <1>1, Zenon DEF ReassignIfInitialized, Reassign
  <2> HIDE DEF new
  <2> QED BY <2>1, AssignEachAgrees
<1>2. CASE ~AreInitialized
  <2>1. tokens' = owner /\ nodeTokens' = has
    BY <1>2, Zenon DEF ReassignIfInitialized
  <2> QED BY <2>1
<1> QED BY <1>1, <1>2

\* An empty ring has no owners.
LEMMA EmptyRing ==
  ASSUME NEW owner, DOMAIN owner = {}
  PROVE  /\ \A p, rf : Owners(owner, p, rf) = <<>>
         /\ \A n, rf : OwnedBy(n, owner, rf) = {}
<1>1. \A p, rf : Owners(owner, p, rf) = <<>>
  BY Zenon DEF Owners
<1>2. \A n, rf : OwnedBy(n, owner, rf) = {}
  BY DEF OwnedBy
<1> QED BY <1>1, <1>2

\* The caches are those of the ring after the comparison.
LEMMA DiffOwnedFresh ==
  ASSUME lagging = FALSE, NEW before, NEW after, NEW rf, DiffOwned(before, after, rf)
  PROVE  /\ \A p \in DOMAIN ownersCache' : ownersCache'[p] = Owners(after, p, rf)
         /\ \A S \in ownedCache' : S = OwnedBy(Local, after, rf)
<1>1. ownersCache' = AllOwners(after, rf) /\ ownedCache' = {OwnedBy(Local, after, rf)}
  BY Zenon DEF DiffOwned
<1>2. ownersCache' = [p \in DOMAIN after |-> Owners(after, p, rf)]
  BY <1>1, Zenon DEF AllOwners
<1>3. \A p \in DOMAIN ownersCache' : ownersCache'[p] = Owners(after, p, rf)
  BY <1>2, Zenon
<1>4. \A S \in ownedCache' : S = OwnedBy(Local, after, rf)
  BY <1>1, Zenon
<1> QED BY <1>3, <1>4

LEMMA ReassignFresh ==
  ASSUME IInv, NEW cap, NEW owner, NEW has, DOMAIN owner = DOMAIN tokens,
         ReassignIfInitialized(cap, owner, has)
  PROVE  /\ \A p \in DOMAIN ownersCache' : ownersCache'[p] = Owners(tokens', p, replicationFactor)
         /\ \A S \in ownedCache' : S = OwnedBy(Local, tokens', replicationFactor)
<1>1. lagging = FALSE
  BY DEF IInv
<1>2. CASE AreInitialized
  <2>1. DiffOwned(owner, tokens', replicationFactor)
    BY <1>2, Zenon DEF ReassignIfInitialized, Reassign
  <2> QED BY <1>1, <2>1, DiffOwnedFresh, Zenon
<1>3. CASE ~AreInitialized
  <2>1. tokens' = owner /\ ownersCache' = ownersCache /\ ownedCache' = ownedCache
    BY <1>3, Zenon DEF ReassignIfInitialized
  <2>2. DOMAIN tokens = {} /\ DOMAIN tokens' = {}
    BY <1>3, <2>1 DEF IInv, TypeOK
  <2>3. \A p \in DOMAIN ownersCache : ownersCache[p] = <<>>
    BY <1>1, <2>2, EmptyRing, Zenon DEF IInv, CachesFresh
  <2>4. \A S \in ownedCache : S = {}
    BY <1>1, <2>2, EmptyRing, Zenon DEF IInv, CachesFresh
  <2>5. /\ \A p : Owners(tokens', p, replicationFactor) = <<>>
        /\ OwnedBy(Local, tokens', replicationFactor) = {}
    BY <2>2, EmptyRing, Zenon
  <2> QED BY <2>1, <2>3, <2>4, <2>5, Zenon
<1> QED BY <1>2, <1>3
-----------------------------------------------------------------------------
\* One lemma per command that changes tokens or replicas.
LEMMA UpdateNodeConfigStep ==
  ASSUME IInv, NEW n \in Node, NEW c \in Capacities, UpdateNodeConfig(n, c)
  PROVE  IInv'
<1>1. capacity' = [capacity EXCEPT ![n] = c] /\ n \in Members
  BY DEF UpdateNodeConfig
<1>2. Members' = Members /\ \A m \in Members : capacity'[m] \in Capacities
  BY <1>1 DEF IInv, TypeOK, Members
<1>3. UNCHANGED <<removed, partitions, replicationFactor, holder, nodeReplicas, lagging>>
  BY DEF UpdateNodeConfig, settings
<1>4. /\ DOMAIN tokens' = DOMAIN tokens /\ DOMAIN nodeTokens' = Members
      /\ \A t \in DOMAIN tokens : tokens'[t] \in Members \cup {Nobody}
      /\ \A m \in Members : nodeTokens'[m] = {t \in DOMAIN tokens : tokens'[t] = m}
  <2> DEFINE cap == capacity'
  <2>1. DOMAIN cap = Members
    BY <1>2 DEF Members
  <2>2. ReassignIfInitialized(cap, tokens, nodeTokens)
    BY DEF UpdateNodeConfig
  <2> HIDE DEF cap
  <2> QED BY <2>1, <2>2, ReassignAgrees DEF IInv, TypeOK, TokensAgree
<1>5. TypeOK'
  BY <1>2, <1>3, <1>4 DEF IInv, TypeOK, AreInitialized, Replicas
<1>6. CachesFresh'
  <2>1. ReassignIfInitialized(capacity', tokens, nodeTokens)
    BY DEF UpdateNodeConfig
  <2>2. replicationFactor' = replicationFactor
    BY <1>3
  <2> QED BY <2>1, <2>2, ReassignFresh, Zenon DEF CachesFresh
<1>7. lagging' = FALSE
  BY <1>3 DEF IInv
<1> QED BY <1>2, <1>3, <1>4, <1>5, <1>6, <1>7 DEF IInv, TokensAgree, HoldersAgree

LEMMA AddNodeStep ==
  ASSUME IInv, NEW n \in Node, NEW c \in Capacities, AddNode(n, c)
  PROVE  IInv'
<1>1. capacity' = With(capacity, n, c) /\ n \notin Members
  BY DEF AddNode
<1>2. Members' = Members \cup {n} /\ \A m \in Members' : capacity'[m] \in Capacities
  BY <1>1 DEF IInv, TypeOK, Members, With
<1>3. UNCHANGED <<removed, partitions, replicationFactor, holder, lagging>>
  BY DEF AddNode, settings
<1>4. n # Nobody
  BY ClusterAssumption
<1>5. /\ DOMAIN nodeReplicas' = Members \cup {n}
      /\ \A m \in Members : nodeReplicas'[m] = nodeReplicas[m]
      /\ nodeReplicas'[n] = {}
  BY <1>1 DEF AddNode, With, IInv, TypeOK
<1>6. /\ DOMAIN tokens' = DOMAIN tokens /\ DOMAIN nodeTokens' = Members'
      /\ \A t \in DOMAIN tokens : tokens'[t] \in Members' \cup {Nobody}
      /\ \A m \in Members' : nodeTokens'[m] = {t \in DOMAIN tokens : tokens'[t] = m}
  <2> DEFINE cap == capacity'
             has == With(nodeTokens, n, {})
  <2>1. DOMAIN cap = Members \cup {n} /\ DOMAIN cap = Members'
    BY <1>2 DEF Members
  <2>2. DOMAIN has = Members \cup {n} /\ has[n] = {} /\ \A m \in Members : has[m] = nodeTokens[m]
    BY <1>1 DEF With, IInv, TypeOK
  <2>3. \A t \in DOMAIN tokens : tokens[t] # n
    BY <1>1, <1>4 DEF IInv, TokensAgree
  <2>4. ReassignIfInitialized(cap, tokens, has)
    BY DEF AddNode
  <2> HIDE DEF cap, has
  <2>5. \A m \in DOMAIN cap : has[m] = {t \in DOMAIN tokens : tokens[t] = m}
    BY <2>1, <2>2, <2>3 DEF IInv, TokensAgree
  <2>6. \A t \in DOMAIN tokens : tokens[t] \in DOMAIN cap \cup {Nobody}
    BY <2>1 DEF IInv, TokensAgree
  <2>7. DOMAIN cap \subseteq Node /\ DOMAIN has = DOMAIN cap
    BY <2>1, <2>2 DEF IInv, TypeOK
  <2>8. /\ DOMAIN tokens' = DOMAIN tokens /\ DOMAIN nodeTokens' = DOMAIN cap
        /\ \A t \in DOMAIN tokens : tokens'[t] \in DOMAIN cap \cup {Nobody}
        /\ \A m \in DOMAIN cap : nodeTokens'[m] = {t \in DOMAIN tokens : tokens'[t] = m}
    BY <2>4, <2>5, <2>6, <2>7, ReassignAgrees
  <2> QED BY <2>1, <2>8
<1>7. TypeOK'
  BY <1>2, <1>3, <1>5, <1>6 DEF IInv, TypeOK, AreInitialized, Replicas
<1>8. TokensAgree'
  BY <1>6 DEF TokensAgree
<1>9. HoldersAgree'
  <2>1. \A x \in DOMAIN holder : holder[x] # n
    BY <1>1, <1>4 DEF IInv, HoldersAgree
  <2> QED BY <2>1, <1>2, <1>3, <1>5 DEF IInv, HoldersAgree
<1>10. CachesFresh'
  <2>1. ReassignIfInitialized(capacity', tokens, With(nodeTokens, n, {}))
    BY DEF AddNode
  <2>2. replicationFactor' = replicationFactor
    BY <1>3
  <2> QED BY <2>1, <2>2, ReassignFresh, Zenon DEF CachesFresh
<1>11. lagging' = FALSE
  BY <1>3 DEF IInv
<1> QED BY <1>7, <1>8, <1>9, <1>10, <1>11 DEF IInv

\* Whatever a node that leaves the cluster held is held by nobody.
LEMMA ReleaseReplicasAgrees ==
  ASSUME IInv, NEW n \in Members, ReleaseReplicas(n)
  PROVE  /\ DOMAIN holder' = DOMAIN holder /\ DOMAIN nodeReplicas' = Members \ {n}
         /\ removed' \subseteq Node
         /\ \A x \in DOMAIN holder : holder'[x] \in (Members \ {n}) \cup {Nobody}
         /\ \A m \in Members \ {n} : nodeReplicas'[m] = {x \in DOMAIN holder : holder'[x] = m}
<1>1. /\ holder' = [x \in DOMAIN holder |-> IF x \in nodeReplicas[n] THEN Nobody ELSE holder[x]]
      /\ removed' = removed \cup {n}
  BY DEF ReleaseReplicas
<1>2. DOMAIN nodeReplicas' = Members \ {n} /\ \A m \in Members \ {n} : nodeReplicas'[m] = nodeReplicas[m]
  BY DEF ReleaseReplicas, Without, IInv, TypeOK
<1>3. \A m \in Members : nodeReplicas[m] = {x \in DOMAIN holder : holder[x] = m}
  BY DEF IInv, HoldersAgree
<1>4. \A m \in Members : m # Nobody
  BY ClusterAssumption DEF IInv, TypeOK
<1>5. \A x \in DOMAIN holder : holder'[x] = IF holder[x] = n THEN Nobody ELSE holder[x]
  BY <1>1, <1>3
<1>6. ASSUME NEW m \in Members \ {n} PROVE nodeReplicas'[m] = {x \in DOMAIN holder : holder'[x] = m}
  BY <1>2, <1>3, <1>4, <1>5
<1>7. \A x \in DOMAIN holder : holder'[x] \in (Members \ {n}) \cup {Nobody}
  BY <1>5 DEF IInv, HoldersAgree
<1>8. removed' \subseteq Node
  BY <1>1 DEF IInv, TypeOK
<1> QED BY <1>1, <1>2, <1>6, <1>7, <1>8

LEMMA RemoveNodeStep ==
  ASSUME IInv, NEW n \in Node, RemoveNode(n)
  PROVE  IInv'
<1>1. n \in Members /\ capacity' = Without(capacity, n) /\ ReleaseReplicas(n)
  BY DEF RemoveNode
<1>2. Members' = Members \ {n} /\ \A m \in Members' : capacity'[m] \in Capacities
  BY <1>1 DEF IInv, TypeOK, Members, Without
<1>3. UNCHANGED <<partitions, replicationFactor, lagging>>
  BY DEF RemoveNode, settings
<1>4. /\ DOMAIN holder' = DOMAIN holder /\ DOMAIN nodeReplicas' = Members \ {n}
      /\ removed' \subseteq Node
      /\ \A x \in DOMAIN holder : holder'[x] \in (Members \ {n}) \cup {Nobody}
      /\ \A m \in Members \ {n} : nodeReplicas'[m] = {x \in DOMAIN holder : holder'[x] = m}
  BY <1>1, ReleaseReplicasAgrees
<1>5. /\ DOMAIN tokens' = DOMAIN tokens /\ DOMAIN nodeTokens' = Members'
      /\ \A t \in DOMAIN tokens : tokens'[t] \in Members' \cup {Nobody}
      /\ \A m \in Members' : nodeTokens'[m] = {t \in DOMAIN tokens : tokens'[t] = m}
  <2> DEFINE cap == capacity'
             has == Without(nodeTokens, n)
             owner == ReleasedTokens(n)
  <2>1. DOMAIN cap = Members \ {n} /\ DOMAIN cap = Members'
    BY <1>2 DEF Members
  <2>2. DOMAIN has = Members \ {n} /\ \A m \in Members \ {n} : has[m] = nodeTokens[m]
    BY DEF Without, IInv, TypeOK
  <2>3. \A m \in Members : nodeTokens[m] = {t \in DOMAIN tokens : tokens[t] = m}
    BY DEF IInv, TokensAgree
  <2>4. DOMAIN owner = DOMAIN tokens /\ \A t \in DOMAIN tokens : owner[t] = IF tokens[t] = n THEN Nobody ELSE tokens[t]
    BY <1>1, <2>3 DEF ReleasedTokens
  <2>5. ReassignIfInitialized(cap, owner, has)
    BY DEF RemoveNode
  <2>6. \A m \in Members : m # Nobody
    BY ClusterAssumption DEF IInv, TypeOK
  <2> HIDE DEF cap, has, owner
  <2>7. \A m \in DOMAIN cap : has[m] = {t \in DOMAIN owner : owner[t] = m}
    <3> SUFFICES ASSUME NEW m \in Members \ {n} PROVE has[m] = {t \in DOMAIN owner : owner[t] = m}
      BY <2>1
    <3> QED BY <2>2, <2>3, <2>4, <2>6
  <2>8. \A t \in DOMAIN owner : owner[t] \in DOMAIN cap \cup {Nobody}
    BY <2>1, <2>4 DEF IInv, TokensAgree
  <2>9. DOMAIN cap \subseteq Node /\ DOMAIN has = DOMAIN cap
    BY <2>1, <2>2 DEF IInv, TypeOK
  <2>10. /\ DOMAIN tokens' = DOMAIN owner /\ DOMAIN nodeTokens' = DOMAIN cap
         /\ \A t \in DOMAIN owner : tokens'[t] \in DOMAIN cap \cup {Nobody}
         /\ \A m \in DOMAIN cap : nodeTokens'[m] = {t \in DOMAIN owner : tokens'[t] = m}
    BY <2>5, <2>7, <2>8, <2>9, ReassignAgrees
  <2> QED BY <2>1, <2>4, <2>10
<1>6. TypeOK'
  BY <1>2, <1>3, <1>4, <1>5 DEF IInv, TypeOK, AreInitialized, Replicas
<1>7. TokensAgree'
  BY <1>5 DEF TokensAgree
<1>8. HoldersAgree'
  BY <1>2, <1>4 DEF HoldersAgree
<1>9. CachesFresh'
  <2>1. ReassignIfInitialized(capacity', ReleasedTokens(n), Without(nodeTokens, n))
    BY DEF RemoveNode
  <2>2. replicationFactor' = replicationFactor
    BY <1>3
  <2>3. DOMAIN ReleasedTokens(n) = DOMAIN tokens
    BY DEF ReleasedTokens
  <2> QED BY <2>1, <2>2, <2>3, ReassignFresh, Zenon DEF CachesFresh
<1>10. lagging' = FALSE
  BY <1>3 DEF IInv
<1> QED BY <1>6, <1>7, <1>8, <1>9, <1>10 DEF IInv

LEMMA ReplaceNodeStep ==
  ASSUME IInv, NEW n \in Node, NEW m \in Node, ReplaceNode(n, m)
  PROVE  IInv'
<1>1. n \in Members /\ m \in Members \ {n} /\ nodeTokens[m] = {} /\ ReleaseReplicas(n)
  BY DEF ReplaceNode
<1>2. Members' = Members \ {n} /\ \A k \in Members' : capacity'[k] \in Capacities
  <2>1. capacity' = Without([capacity EXCEPT ![m] = capacity[n]], n)
    BY DEF ReplaceNode
  <2> QED BY <1>1, <2>1 DEF IInv, TypeOK, Members, Without
<1>3. UNCHANGED <<partitions, replicationFactor, lagging>>
  BY DEF ReplaceNode, settings
<1>4. /\ DOMAIN holder' = DOMAIN holder /\ DOMAIN nodeReplicas' = Members \ {n}
      /\ removed' \subseteq Node
      /\ \A x \in DOMAIN holder : holder'[x] \in (Members \ {n}) \cup {Nobody}
      /\ \A k \in Members \ {n} : nodeReplicas'[k] = {x \in DOMAIN holder : holder'[x] = k}
  BY <1>1, ReleaseReplicasAgrees
<1>5. /\ DOMAIN tokens' = DOMAIN tokens /\ DOMAIN nodeTokens' = Members'
      /\ \A t \in DOMAIN tokens : tokens'[t] \in Members' \cup {Nobody}
      /\ \A k \in Members' : nodeTokens'[k] = {t \in DOMAIN tokens : tokens'[t] = k}
  <2>1. \A k \in Members : nodeTokens[k] = {t \in DOMAIN tokens : tokens[t] = k}
    BY DEF IInv, TokensAgree
  <2>2. DOMAIN tokens' = DOMAIN tokens /\ \A t \in DOMAIN tokens : tokens'[t] = IF tokens[t] = n THEN m ELSE tokens[t]
    BY <1>1, <2>1 DEF ReplaceNode
  <2>3. nodeTokens' = Without([nodeTokens EXCEPT ![m] = nodeTokens[n]], n)
    BY DEF ReplaceNode
  <2>4. DOMAIN nodeTokens' = Members'
    BY <1>1, <1>2, <2>3 DEF Without, IInv, TypeOK
  <2>5. \A k \in Members' : nodeTokens'[k] = IF k = m THEN nodeTokens[n] ELSE nodeTokens[k]
    BY <1>1, <1>2, <2>3 DEF Without, IInv, TypeOK
  <2>6. \A t \in DOMAIN tokens : tokens[t] # m
    BY <1>1, <2>1
  <2>7. ASSUME NEW k \in Members' PROVE nodeTokens'[k] = {t \in DOMAIN tokens : tokens'[t] = k}
    <3>1. k \in Members /\ k # n
      BY <1>2
    <3>2. CASE k = m
      BY <1>1, <2>1, <2>2, <2>5, <2>6, <3>2
    <3>3. CASE k # m
      BY <2>1, <2>2, <2>5, <3>1, <3>3
    <3> QED BY <3>2, <3>3
  <2>8. \A t \in DOMAIN tokens : tokens'[t] \in Members' \cup {Nobody}
    BY <1>1, <1>2, <2>2 DEF IInv, TokensAgree
  <2> QED BY <2>2, <2>4, <2>7, <2>8
<1>6. TypeOK'
  BY <1>2, <1>3, <1>4, <1>5 DEF IInv, TypeOK, AreInitialized, Replicas
<1>7. TokensAgree'
  BY <1>5 DEF TokensAgree
<1>8. HoldersAgree'
  BY <1>2, <1>4 DEF HoldersAgree
<1>9. lagging = FALSE /\ lagging' = FALSE
  BY <1>3 DEF IInv
<1>10. CachesFresh'
  <2>1. replicationFactor' = replicationFactor
    BY <1>3
  <2>2. CASE AreInitialized
    <3>1. DiffOwned(tokens, tokens', replicationFactor)
      BY <2>2 DEF ReplaceNode
    <3> QED BY <1>9, <2>1, <3>1, DiffOwnedFresh, Zenon DEF CachesFresh
  <2>3. CASE ~AreInitialized
    <3>1. ClearCaches
      BY <2>3 DEF ReplaceNode
    <3>2. ownersCache' = <<>> /\ ownedCache' = {}
      BY <1>9, <3>1 DEF ClearCaches, Nil
    <3>3. DOMAIN ownersCache' = {}
      BY <3>2
    <3> QED BY <3>2, <3>3 DEF CachesFresh
  <2> QED BY <2>2, <2>3
<1> QED BY <1>6, <1>7, <1>8, <1>9, <1>10 DEF IInv

\* There are owners for the replicas 0..rf - 1 of a partition of the ring.
LEMMA OwnersDomain ==
  ASSUME NEW owner, NEW p, NEW rf, NEW i \in DOMAIN Owners(owner, p, rf)
  PROVE  p \in DOMAIN owner /\ i \in 1..rf
<1>1. CASE p \notin DOMAIN owner
  <2>1. Owners(owner, p, rf) = <<>>
    BY <1>1, Zenon DEF Owners
  <2> QED BY <2>1
<1>2. CASE p \in DOMAIN owner
  <2>1. DOMAIN Owners(owner, p, rf) = 1..rf
    BY <1>2, Zenon DEF Owners
  <2> QED BY <1>2, <2>1
<1> QED BY <1>1, <1>2

LEMMA TakePartitionReplicaStep ==
  ASSUME IInv, NEW p \in Tokens(partitions), NEW r \in 0..replicationFactor, NEW n \in Node,
         TakePartitionReplica(p, r, n)
  PROVE  IInv'
<1> DEFINE owners == PartitionOwners(p)
           taken == r + 1 \in DOMAIN owners /\ owners[r + 1] = n /\ n \in Members
           x == <<p, r>>
<1>1. UNCHANGED <<capacity, removed, partitions, replicationFactor, tokens, nodeTokens, ownedCache, lagging>>
  BY DEF TakePartitionReplica, settings
<1>2. lagging = FALSE /\ lagging' = FALSE
  BY <1>1 DEF IInv
<1>3. Members' = Members
  BY <1>1 DEF Members
<1>4. owners = Owners(tokens, p, replicationFactor)
  BY <1>2, Zenon DEF PartitionOwners, IInv, CachesFresh
<1>5. CachesFresh'
  <2>1. ownersCache' = [q \in DOMAIN ownersCache \cup {p} |-> IF q = p THEN owners ELSE ownersCache[q]]
    BY <1>2, Zenon DEF TakePartitionReplica, CacheOwners
  <2>2. \A q \in DOMAIN ownersCache : ownersCache[q] = Owners(tokens, q, replicationFactor)
    BY <1>2, Zenon DEF IInv, CachesFresh
  <2> HIDE DEF owners
  <2>3. \A q \in DOMAIN ownersCache' : ownersCache'[q] = Owners(tokens, q, replicationFactor)
    BY <1>4, <2>1, <2>2, Zenon
  <2>4. \A S \in ownedCache : S = OwnedBy(Local, tokens, replicationFactor)
    BY <1>2, Zenon DEF IInv, CachesFresh
  <2>5. tokens' = tokens /\ replicationFactor' = replicationFactor /\ ownedCache' = ownedCache
    BY <1>1
  <2> QED BY <2>3, <2>4, <2>5, Zenon DEF CachesFresh
<1>6. /\ DOMAIN holder' = DOMAIN holder /\ DOMAIN nodeReplicas' = Members
      /\ \A y \in DOMAIN holder : holder'[y] \in Members \cup {Nobody}
      /\ \A m \in Members : nodeReplicas'[m] = {y \in DOMAIN holder : holder'[y] = m}
  <2>1. CASE taken
    <3>1. AssignPartitionReplica(x, n)
      BY <2>1 DEF TakePartitionReplica
    <3>2. x \in DOMAIN holder
      <4>1. p \in DOMAIN tokens /\ r + 1 \in 1..replicationFactor
        BY <1>4, <2>1, OwnersDomain
      <4>2. AreInitialized
        BY <4>1 DEF IInv, TypeOK
      <4>3. replicationFactor \in Nat /\ r \in Nat
        BY ClusterAssumption DEF IInv, TypeOK
      <4>4. r \in 0..(replicationFactor - 1)
        BY <4>1, <4>3
      <4> QED BY <4>2, <4>4 DEF IInv, TypeOK, Replicas
    <3> HIDE DEF x
    <3>3. /\ DOMAIN holder' = DOMAIN holder
          /\ \A y \in DOMAIN holder : holder'[y] = IF y = x THEN n ELSE holder[y]
      BY <3>1, <3>2 DEF AssignPartitionReplica
    <3>4. /\ DOMAIN nodeReplicas' = Members
          /\ \A m \in Members :
               nodeReplicas'[m] = (IF m = holder[x] THEN nodeReplicas[m] \ {x} ELSE nodeReplicas[m])
                                    \cup (IF m = n THEN {x} ELSE {})
      BY <3>1 DEF AssignPartitionReplica
    <3>5. \A m \in Members : nodeReplicas[m] = {y \in DOMAIN holder : holder[y] = m}
      BY DEF IInv, HoldersAgree
    <3>6. \A y \in DOMAIN holder : holder'[y] \in Members \cup {Nobody}
      BY <2>1, <3>3 DEF IInv, HoldersAgree
    <3>7. ASSUME NEW m \in Members PROVE nodeReplicas'[m] = {y \in DOMAIN holder : holder'[y] = m}
      <4>1. CASE m = n
        BY <3>2, <3>3, <3>4, <3>5, <4>1
      <4>2. CASE m # n
        BY <3>2, <3>3, <3>4, <3>5, <4>2
      <4> QED BY <4>1, <4>2
    <3> QED BY <3>3, <3>4, <3>6, <3>7
  <2>2. CASE ~taken
    <3>1. holder' = holder /\ nodeReplicas' = nodeReplicas
      BY <2>2 DEF TakePartitionReplica
    <3> QED BY <3>1 DEF IInv, TypeOK, HoldersAgree
  <2> QED BY <2>1, <2>2
<1>7. TypeOK'
  BY <1>1, <1>3, <1>6 DEF IInv, TypeOK, AreInitialized, Replicas
<1>8. TokensAgree'
  BY <1>1, <1>3 DEF IInv, TokensAgree
<1>9. HoldersAgree'
  BY <1>3, <1>6 DEF HoldersAgree
<1> QED BY <1>2, <1>5, <1>7, <1>8, <1>9 DEF IInv

\* Both settings: the first one leaves the ring empty, the second one makes
\* a ring without owners and assigns its tokens.
LEMMA SettingsStep ==
  ASSUME IInv, partitions = 0 \/ replicationFactor = 0,
         partitions' \in {0} \cup PartitionCounts, replicationFactor' \in {0} \cup ReplicationFactors,
         InitializeClusterIfReady,
         UNCHANGED <<capacity, removed, nodeReplicas, lagging>>
  PROVE  IInv'
<1>1. ~AreInitialized /\ DOMAIN tokens = {} /\ DOMAIN holder = {}
  BY DEF IInv, TypeOK, AreInitialized
<1>2. lagging = FALSE /\ lagging' = FALSE /\ Members' = Members
  BY DEF IInv, Members
<1>3. /\ \A m \in Members : nodeTokens[m] = {} /\ nodeReplicas[m] = {} /\ m # Nobody
      /\ DOMAIN nodeTokens = Members
  BY <1>1, ClusterAssumption DEF IInv, TypeOK, TokensAgree, HoldersAgree
<1>4. CASE partitions' # 0 /\ replicationFactor' # 0
  <2> DEFINE owner == [t \in Tokens(partitions') |-> Nobody]
             new == AssignTokens(capacity, nodeTokens, owner)
             all == Tokens(partitions') \X (0..(replicationFactor' - 1))
  <2>1. /\ holder' = [y \in all |-> Nobody]
        /\ Reassign(capacity, owner, nodeTokens, replicationFactor')
    BY <1>4, Zenon DEF InitializeClusterIfReady
  <2>2. AssignEach(capacity, owner, nodeTokens, new) /\ DiffOwned(owner, tokens', replicationFactor')
    BY <2>1, Zenon DEF Reassign
  <2>3. DOMAIN owner = Tokens(partitions') /\ \A t \in DOMAIN owner : owner[t] = Nobody
    OBVIOUS
  <2> HIDE DEF owner, new
  <2>4. /\ DOMAIN tokens' = DOMAIN owner /\ DOMAIN nodeTokens' = DOMAIN capacity
        /\ \A t \in DOMAIN owner : tokens'[t] \in DOMAIN capacity \cup {Nobody}
        /\ \A m \in DOMAIN capacity : nodeTokens'[m] = {t \in DOMAIN owner : tokens'[t] = m}
    <3>1. \A t \in DOMAIN owner : owner[t] \in DOMAIN capacity \cup {Nobody}
      BY <2>3
    <3>2. \A m \in DOMAIN capacity : nodeTokens[m] = {t \in DOMAIN owner : owner[t] = m}
      BY <1>3, <2>3 DEF Members
    <3>3. DOMAIN capacity \subseteq Node
      BY DEF IInv, TypeOK, Members
    <3> QED BY <2>2, <3>1, <3>2, <3>3, AssignEachAgrees
  <2>5. AreInitialized' /\ Replicas' = all
    BY <1>4 DEF AreInitialized, Replicas
  <2> HIDE DEF all
  <2>6. DOMAIN holder' = all /\ \A y \in all : holder'[y] = Nobody
    BY <2>1
  <2>7. TypeOK'
    BY <1>2, <2>3, <2>4, <2>5, <2>6 DEF IInv, TypeOK, Members
  <2>8. TokensAgree'
    BY <1>2, <2>4 DEF TokensAgree, Members
  <2>9. HoldersAgree'
    BY <1>2, <1>3, <2>6 DEF HoldersAgree
  <2>10. CachesFresh'
    BY <1>2, <2>2, DiffOwnedFresh, Zenon DEF CachesFresh
  <2> QED BY <1>2, <2>7, <2>8, <2>9, <2>10 DEF IInv
<1>5. CASE ~(partitions' # 0 /\ replicationFactor' # 0)
  <2>1. UNCHANGED <<tokens, nodeTokens, holder, ownersCache, ownedCache>>
    BY <1>5, Zenon DEF InitializeClusterIfReady
  <2>2. TypeOK'
    BY <1>1, <1>2, <1>5, <2>1 DEF IInv, TypeOK, AreInitialized
  <2>3. TokensAgree' /\ HoldersAgree'
    BY <1>2, <2>1 DEF IInv, TokensAgree, HoldersAgree
  <2>4. CachesFresh'
    <3>1. /\ \A p, rf : Owners(tokens, p, rf) = <<>>
          /\ \A m, rf : OwnedBy(m, tokens, rf) = {}
      BY <1>1, EmptyRing, Zenon
    <3>2. /\ \A p \in DOMAIN ownersCache : ownersCache[p] = <<>>
          /\ \A S \in ownedCache : S = {}
      BY <1>2, <3>1, Zenon DEF IInv, CachesFresh
    <3>3. tokens' = tokens /\ ownersCache' = ownersCache /\ ownedCache' = ownedCache
      BY <2>1
    <3> QED BY <3>1, <3>2, <3>3, Zenon DEF CachesFresh
  <2> QED BY <1>2, <2>2, <2>3, <2>4 DEF IInv
<1> QED BY <1>4, <1>5
-----------------------------------------------------------------------------
LEMMA StepIInv == IInv /\ [Step]_vars => IInv'
<1> SUFFICES ASSUME IInv, [Step]_vars PROVE IInv'
  OBVIOUS
<1>1. ASSUME NEW n \in Node, NEW c \in Capacities, UpdateNodeConfig(n, c) \/ AddNode(n, c) PROVE IInv'
  BY <1>1, UpdateNodeConfigStep, AddNodeStep
<1>2. ASSUME NEW n \in Node, RemoveNode(n) PROVE IInv'
  BY <1>2, RemoveNodeStep
<1>3. ASSUME NEW n \in Node, NEW m \in Node, ReplaceNode(n, m) PROVE IInv'
  BY <1>3, ReplaceNodeStep
<1>4. ASSUME NEW p \in Tokens(partitions) \cap Wanted, NEW r \in 0..replicationFactor, NEW n \in Node,
             TakePartitionReplica(p, r, n)
      PROVE  IInv'
  BY <1>4, TakePartitionReplicaStep
<1>5. ASSUME NEW k \in ReplicationFactors, SetReplicationFactor(k) PROVE IInv'
  <2>1. /\ replicationFactor = 0 /\ replicationFactor' = k /\ partitions' = partitions
        /\ InitializeClusterIfReady /\ UNCHANGED <<capacity, removed, nodeReplicas, lagging>>
    BY <1>5, Zenon DEF SetReplicationFactor
  <2>2. partitions' \in {0} \cup PartitionCounts /\ replicationFactor' \in {0} \cup ReplicationFactors
    BY <2>1 DEF IInv, TypeOK
  <2> QED BY <2>1, <2>2, SettingsStep
<1>6. ASSUME NEW k \in PartitionCounts, SetPartitionCount(k) PROVE IInv'
  <2>1. /\ partitions = 0 /\ partitions' = k /\ replicationFactor' = replicationFactor
        /\ InitializeClusterIfReady /\ UNCHANGED <<capacity, removed, nodeReplicas, lagging>>
    BY <1>6, Zenon DEF SetPartitionCount
  <2>2. partitions' \in {0} \cup PartitionCounts /\ replicationFactor' \in {0} \cup ReplicationFactors
    BY <2>1 DEF IInv, TypeOK
  <2> QED BY <2>1, <2>2, SettingsStep
<1>7. CASE UNCHANGED vars
  BY <1>7 DEF IInv, TypeOK, TokensAgree, HoldersAgree, CachesFresh, Members, AreInitialized, Replicas,
              vars, state, derived, settings
<1> QED BY <1>1, <1>2, <1>3, <1>4, <1>5, <1>6, <1>7, Zenon DEF Step

LEMMA Inductive == Spec => []IInv
BY InitIInv, StepIInv, PTL DEF Spec

\* Tokens and held replicas exist as long as both settings have been made,
\* and each member has both entries in its configuration.
THEOREM ClusterTypeCorrect == Spec => []TypeOK
BY Inductive, PTL DEF IInv

\* Whatever the assignment strategy computes, each token is owned by one
\* member or by nobody, and the ring and the configurations agree on it
\* (AssignToken, RemoveNode).
THEOREM TokensOwnedOnce == Spec => []TokensAgree
BY Inductive, PTL DEF IInv

\* The same for the holders of partition replicas (TakePartitionReplica,
\* RemoveNode).
THEOREM ReplicasHeldOnce == Spec => []HoldersAgree
BY Inductive, PTL DEF IInv

\* Local never decides from an outdated cache, as long as it sees every
\* command (partitionOwners, localNodeOwnedPartitionReplicas).
THEOREM CachedOwnersFresh == Spec => []CachesFresh
BY Inductive, PTL DEF IInv

\* Whatever commands are applied, in any order, the two books of tokens and
\* the two books of replicas agree and are complete: the invariant that the
\* run of three nodes checks.
THEOREM BooksStayAgreed == Spec => []BooksAgree
BY ClusterTypeCorrect, TokensOwnedOnce, ReplicasHeldOnce, PTL DEF BooksAgree
-----------------------------------------------------------------------------
(* Induction and folds *)

\* A non-empty set of naturals has a least element.
LEMMA NatMin ==
  ASSUME NEW S, S \subseteq Nat, S # {}
  PROVE  \E x \in S : \A y \in S : x <= y
<1> DEFINE R == {ss \in Nat \X Nat : ss[1] < ss[2]}
<1>1. IsWellFoundedOn(R, Nat)
  BY NatLessThanWellFounded, Zenon DEF OpToRel
<1>2. PICK x \in S : \A y \in S : ~ (<<y, x>> \in R)
  <2> HIDE DEF R
  <2> QED BY <1>1, WFMin, Zenon
<1>3. ASSUME NEW y \in S PROVE x <= y
  <2>1. ~ (<<y, x>> \in R)
    BY <1>2
  <2>2. x \in Nat /\ y \in Nat
    BY <1>2
  <2> QED BY <2>1, <2>2
<1> QED BY <1>2, <1>3

\* Induction up to n.
LEMMA Induct ==
  ASSUME NEW n \in Nat, NEW S, 0 \in S, \A i \in 1..n : i - 1 \in S => i \in S
  PROVE  \A i \in 0..n : i \in S
<1> SUFFICES ASSUME NEW j \in 0..n, j \notin S PROVE FALSE
  OBVIOUS
<1> DEFINE B == {i \in 0..n : i \notin S}
<1>1. B \subseteq Nat /\ B # {}
  OBVIOUS
<1>2. PICK x \in B : \A y \in B : x <= y
  <2> HIDE DEF B
  <2> QED BY <1>1, NatMin
<1>3. x # 0 /\ x \in 1..n
  BY <1>2
<1>4. x - 1 \notin B /\ x - 1 \in 0..n
  BY <1>2, <1>3
<1> QED BY <1>2, <1>3, <1>4

\* A non-empty set of the numbers up to n has a greatest element.
LEMMA MaxIs ==
  ASSUME NEW n \in Nat, NEW s \in SUBSET (1..n), s # {}
  PROVE  Max(s) \in s /\ \A y \in s : y <= Max(s)
<1> DEFINE U == {u \in Nat : \A x \in s : x <= u}
<1>1. n \in U /\ U \subseteq Nat
  OBVIOUS
<1>2. PICK m \in U : \A y \in U : m <= y
  <2> HIDE DEF U
  <2> QED BY <1>1, NatMin
<1>3. m \in s
  <2> SUFFICES ASSUME m \notin s PROVE FALSE
    OBVIOUS
  <2>1. m \in Nat /\ \A x \in s : x <= m - 1 /\ m - 1 >= 1
    BY <1>2
  <2>2. m - 1 \in Nat
    <3>1. PICK x \in s : TRUE
      OBVIOUS
    <3> QED BY <2>1, <3>1
  <2>3. m - 1 \in U
    BY <2>1, <2>2
  <2> QED BY <2>1, <2>3, <1>2
<1>4. \A y \in s : m >= y
  BY <1>2
<1> HIDE DEF U
<1>5. Max(s) \in s /\ \A y \in s : Max(s) >= y
  BY <1>3, <1>4, Zenon DEF Max
<1> QED BY <1>5

\* The greatest element of 1..i, without which the rest is 1..(i - 1).
LEMMA Interval ==
  ASSUME NEW i \in Nat, i > 0
  PROVE  Max(1..i) = i /\ (1..i) \ {i} = 1..(i - 1) /\ 1..i # {}
<1>1. 1..i \in SUBSET (1..i) /\ 1..i # {} /\ i \in 1..i
  OBVIOUS
<1>2. Max(1..i) \in 1..i /\ \A y \in 1..i : y <= Max(1..i)
  BY <1>1, MaxIs
<1> QED BY <1>1, <1>2

\* The recursion behind a fold of the steps F over 1..n has a solution.
Solves(g, n, b, F) ==
  \A s \in SUBSET (1..n) : g[s] = IF s = {} THEN b ELSE F[<<g[s \ {Max(s)}], Max(s)>>]

LEMMA FoldExists ==
  ASSUME NEW n \in Nat, NEW St, NEW b \in St, NEW F \in [St \X (1..n) -> St]
  PROVE  \E g \in [SUBSET (1..n) -> St] : Solves(g, n, b, F)
<1> DEFINE small(k) == {s \in SUBSET (1..n) : Cardinality(s) <= k}
           SolvesSmall(k, g) == \A s \in small(k) :
                             g[s] = IF s = {} THEN b ELSE F[<<g[s \ {Max(s)}], Max(s)>>]
           K == {k \in 0..n : \E g \in [small(k) -> St] : SolvesSmall(k, g)}
<1>1. IsFiniteSet(1..n) /\ Cardinality(1..n) = n
  BY FS_Interval
<1>2. ASSUME NEW s \in SUBSET (1..n)
      PROVE  IsFiniteSet(s) /\ Cardinality(s) \in Nat /\ Cardinality(s) <= n
  <2>1. IsFiniteSet(s) /\ Cardinality(s) <= Cardinality(1..n)
    BY <1>1, FS_Subset, Zenon
  <2>2. Cardinality(s) \in Nat
    BY <2>1, FS_CardinalityType
  <2> QED BY <1>1, <2>1, <2>2
<1>3. ASSUME NEW s \in SUBSET (1..n), s # {}
      PROVE  /\ Max(s) \in 1..n /\ s \ {Max(s)} \in SUBSET (1..n)
             /\ Cardinality(s) > 0 /\ Cardinality(s \ {Max(s)}) = Cardinality(s) - 1
  <2>1. Max(s) \in s
    BY <1>3, MaxIs
  <2>2. Cardinality(s) # 0 /\ Cardinality(s) \in Nat /\ IsFiniteSet(s)
    BY <1>2, <1>3, FS_EmptySet
  <2>3. Cardinality(s \ {Max(s)}) = Cardinality(s) - 1
    BY <2>1, <2>2, FS_RemoveElement
  <2>4. Max(s) \in 1..n /\ s \ {Max(s)} \in SUBSET (1..n)
    BY <2>1
  <2>5. Cardinality(s) > 0
    BY <2>2
  <2> QED BY <2>3, <2>4, <2>5
<1>4. 0 \in K
  <2>1. ASSUME NEW s \in small(0) PROVE s = {}
    <3>1. s \in SUBSET (1..n) /\ Cardinality(s) <= 0
      OBVIOUS
    <3>2. ~(Cardinality(s) > 0)
      BY <1>2, <3>1
    <3> QED BY <1>3, <3>1, <3>2, Zenon
  <2> DEFINE g == [s \in small(0) |-> b]
  <2>2. g \in [small(0) -> St] /\ SolvesSmall(0, g)
    <3> HIDE DEF small
    <3> QED BY <2>1
  <2> HIDE DEF g, small, SolvesSmall
  <2> QED BY <2>2
<1>5. ASSUME NEW k \in 1..n, k - 1 \in K PROVE k \in K
  <2>1. PICK f \in [small(k - 1) -> St] : SolvesSmall(k - 1, f)
    BY <1>5
  <2>2. ASSUME NEW s \in small(k), s # {}
        PROVE  s \ {Max(s)} \in small(k - 1) /\ Max(s) \in 1..n
    BY <1>2, <1>3, <2>2
  <2>3. \A s \in small(k - 1) : s \in small(k)
    BY <1>2
  <2> DEFINE g == [s \in small(k) |-> IF s = {} THEN b ELSE F[<<f[s \ {Max(s)}], Max(s)>>]]
  <2> HIDE DEF small
  <2>4. g \in [small(k) -> St]
    BY <2>2
  <2>5. ASSUME NEW s \in small(k - 1) PROVE g[s] = f[s]
    BY <2>1, <2>3
  <2>6. SolvesSmall(k, g)
    <3> SUFFICES ASSUME NEW s \in small(k)
                 PROVE  g[s] = IF s = {} THEN b ELSE F[<<g[s \ {Max(s)}], Max(s)>>]
      OBVIOUS
    <3>1. CASE s = {}
      BY <3>1
    <3>2. CASE s # {}
      <4>1. g[s \ {Max(s)}] = f[s \ {Max(s)}]
        BY <2>2, <2>5, <3>2
      <4> HIDE DEF g
      <4>2. g[s] = F[<<f[s \ {Max(s)}], Max(s)>>]
        BY <3>2 DEF g
      <4> QED BY <3>2, <4>1, <4>2
    <3> QED BY <3>1, <3>2
  <2> HIDE DEF g, SolvesSmall
  <2> QED BY <2>4, <2>6
<1>6. n \in K
  <2> HIDE DEF K
  <2> QED BY <1>4, <1>5, Induct
<1>7. PICK g \in [small(n) -> St] : SolvesSmall(n, g)
  BY <1>6
<1>8. small(n) = SUBSET (1..n)
  BY <1>2
<1> HIDE DEF small
<1>9. g \in [SUBSET (1..n) -> St]
  BY <1>7, <1>8
<1>10. \A s \in SUBSET (1..n) : g[s] = IF s = {} THEN b ELSE F[<<g[s \ {Max(s)}], Max(s)>>]
  BY <1>7, <1>8
<1> QED BY <1>9, <1>10 DEF Solves
-----------------------------------------------------------------------------
(* Counting tokens *)

Share(o, n) == {t \in DOMAIN o : o[t] = n}
ShareOfAll(o, B) == {t \in DOMAIN o : o[t] \in B}

\* Tokens of a finite ring can be counted.
LEMMA SharesAreFinite ==
  ASSUME NEW o, IsFiniteSet(DOMAIN o)
  PROVE  /\ \A n : IsFiniteSet(Share(o, n)) /\ Cardinality(Share(o, n)) \in Nat
         /\ \A B : IsFiniteSet(ShareOfAll(o, B)) /\ Cardinality(ShareOfAll(o, B)) \in Nat
<1>1. ASSUME NEW U \in SUBSET (DOMAIN o) PROVE IsFiniteSet(U) /\ Cardinality(U) \in Nat
  <2>1. IsFiniteSet(U)
    BY FS_Subset, Zenon
  <2> QED BY <2>1, FS_CardinalityType, Zenon
<1>2. (\A n : Share(o, n) \in SUBSET (DOMAIN o)) /\ \A B : ShareOfAll(o, B) \in SUBSET (DOMAIN o)
  BY DEF Share, ShareOfAll
<1> QED BY <1>1, <1>2, Zenon

\* What a set of nodes has is what one of them has and what the others have.
LEMMA ShareOfOneMore ==
  ASSUME NEW o, IsFiniteSet(DOMAIN o), NEW B, NEW x \in B
  PROVE  Cardinality(ShareOfAll(o, B)) = Cardinality(ShareOfAll(o, B \ {x})) + Cardinality(Share(o, x))
<1>1. /\ ShareOfAll(o, B) = ShareOfAll(o, B \ {x}) \cup Share(o, x)
      /\ ShareOfAll(o, B \ {x}) \cap Share(o, x) = {}
  BY DEF ShareOfAll, Share
<1>2. Cardinality({}) = 0
  BY FS_EmptySet
<1>3. IsFiniteSet(ShareOfAll(o, B \ {x})) /\ IsFiniteSet(Share(o, x))
  BY SharesAreFinite
<1>4. Cardinality(ShareOfAll(o, B \ {x}) \cup Share(o, x)) =
        Cardinality(ShareOfAll(o, B \ {x})) + Cardinality(Share(o, x))
          - Cardinality(ShareOfAll(o, B \ {x}) \cap Share(o, x))
  BY <1>3, FS_Union, Zenon
<1>5. Cardinality(ShareOfAll(o, B \ {x})) \in Nat /\ Cardinality(Share(o, x)) \in Nat
  BY SharesAreFinite
<1>6. Cardinality(ShareOfAll(o, B \ {x}) \cap Share(o, x)) = 0
  BY <1>1, <1>2, Zenon
<1>7. Cardinality(ShareOfAll(o, B)) =
        Cardinality(ShareOfAll(o, B \ {x})) + Cardinality(Share(o, x)) - 0
  BY <1>1, <1>4, <1>6, Zenon
<1> QED BY <1>5, <1>7

\* What each node of a set has at least, or at most, the set has as often as
\* it has nodes.
LEMMA SharesAdd ==
  ASSUME NEW o, IsFiniteSet(DOMAIN o), NEW A, IsFiniteSet(A), NEW b \in Nat
  PROVE  /\ (\A n \in A : Cardinality(Share(o, n)) >= b) => Cardinality(ShareOfAll(o, A)) >= b * Cardinality(A)
         /\ (\A n \in A : Cardinality(Share(o, n)) <= b) => Cardinality(ShareOfAll(o, A)) <= b * Cardinality(A)
<1> DEFINE AtLeast(B) == \A n \in B : Cardinality(Share(o, n)) >= b
           AtMost(B) == \A n \in B : Cardinality(Share(o, n)) <= b
           c(B) == Cardinality(ShareOfAll(o, B))
           Adds(B, k) == (AtLeast(B) => c(B) >= b * k) /\ (AtMost(B) => c(B) <= b * k)
           K == {k \in 0..Cardinality(A) : \A B \in SUBSET A : Cardinality(B) = k => Adds(B, k)}
<1>1. ASSUME NEW B \in SUBSET A PROVE IsFiniteSet(B) /\ Cardinality(B) \in Nat
  <2>1. IsFiniteSet(B)
    BY FS_Subset, Zenon
  <2> QED BY <2>1, FS_CardinalityType, Zenon
<1>2. Cardinality(A) \in Nat
  BY FS_CardinalityType, Zenon
<1>3. 0 \in K
  <2>1. ASSUME NEW B \in SUBSET A, Cardinality(B) = 0 PROVE Adds(B, 0)
    <3>1. B = {}
      BY <1>1, <2>1, FS_EmptySet
    <3>2. ShareOfAll(o, B) = {}
      BY <3>1 DEF ShareOfAll
    <3>3. c(B) = 0
      BY <3>2, FS_EmptySet
    <3> QED BY <3>3
  <2> HIDE DEF Adds
  <2> QED BY <1>2, <2>1
<1>4. ASSUME NEW k \in 1..Cardinality(A), k - 1 \in K PROVE k \in K
  <2>1. ASSUME NEW B \in SUBSET A, Cardinality(B) = k PROVE Adds(B, k)
    <3>1. PICK x \in B : TRUE
      <4>1. B # {}
        BY <2>1, <1>2, FS_EmptySet
      <4> QED BY <4>1
    <3>2. B \ {x} \in SUBSET A /\ Cardinality(B \ {x}) = k - 1
      BY <1>1, <2>1, FS_RemoveElement
    <3>3. Adds(B \ {x}, k - 1)
      <4> HIDE DEF Adds
      <4> QED BY <1>4, <3>2
    <3>4. c(B) = c(B \ {x}) + Cardinality(Share(o, x))
      BY ShareOfOneMore
    <3>5. c(B \ {x}) \in Nat /\ Cardinality(Share(o, x)) \in Nat
      BY SharesAreFinite
    <3>6. b * k = b * (k - 1) + b
      BY <1>2
    <3>7. b * (k - 1) \in Int
      BY <1>2
    <3> HIDE DEF c
    <3>8. AtLeast(B) => c(B) >= b * k
      BY <3>1, <3>3, <3>4, <3>5, <3>6, <3>7
    <3>9. AtMost(B) => c(B) <= b * k
      BY <3>1, <3>3, <3>4, <3>5, <3>6, <3>7
    <3> QED BY <3>8, <3>9
  <2> HIDE DEF Adds
  <2> QED BY <1>4, <2>1
<1>5. Cardinality(A) \in K
  <2> HIDE DEF K
  <2> QED BY <1>2, <1>3, <1>4, Induct
<1> HIDE DEF Adds
<1>6. Adds(A, Cardinality(A))
  BY <1>5
<1> QED BY <1>6 DEF Adds
-----------------------------------------------------------------------------
(* The elements of a set in order *)

\* Every element is met once, in ascending order.
LEMMA SortedIs ==
  ASSUME NEW S, IsFiniteSet(S), S \subseteq Nat
  PROVE  /\ Sorted(S) \in Seq(S) /\ Len(Sorted(S)) = Cardinality(S)
         /\ \A i, j \in 1..Len(Sorted(S)) : i < j => Sorted(S)[i] < Sorted(S)[j]
         /\ \A u \in S : \E i \in 1..Len(Sorted(S)) : Sorted(S)[i] = u
<1> DEFINE n == Cardinality(S)
           below(u) == {v \in S : v < u}
           f == [u \in S |-> Cardinality(below(u)) + 1]
<1>0. \A x \in S : x \in Nat
  OBVIOUS
<1>1. n \in Nat /\ IsFiniteSet(1..n) /\ Cardinality(1..n) = n
  <2>1. n \in Nat
    BY FS_CardinalityType
  <2> QED BY <2>1, FS_Interval
<1>2. ASSUME NEW u \in S PROVE IsFiniteSet(below(u)) /\ Cardinality(below(u)) \in Nat
  <2>1. below(u) \in SUBSET S
    OBVIOUS
  <2>2. IsFiniteSet(below(u))
    BY <2>1, FS_Subset, Zenon
  <2> QED BY <2>2, FS_CardinalityType, Zenon
<1>3. ASSUME NEW u \in S, NEW v \in S, u < v
      PROVE  Cardinality(below(u)) < Cardinality(below(v))
  <2>1. below(u) \in SUBSET below(v) /\ u \in below(v) /\ u \notin below(u)
    <3>1. u \in Nat /\ v \in Nat
      BY <1>0
    <3>2. ASSUME NEW x \in below(u) PROVE x \in below(v)
      <4>1. x \in Nat /\ x < u /\ x \in S
        BY <1>0
      <4> QED BY <1>3, <3>1, <4>1
    <3>3. below(u) \in SUBSET below(v)
      <4> HIDE DEF below
      <4> QED BY <3>2
    <3>4. u \in below(v) /\ u \notin below(u)
      BY <1>3, <3>1
    <3> QED BY <3>3, <3>4
  <2>2. below(u) # below(v)
    BY <2>1
  <2>3. Cardinality(below(u)) <= Cardinality(below(v)) /\ Cardinality(below(u)) # Cardinality(below(v))
    <3> HIDE DEF below
    <3> QED BY <2>1, <2>2, <1>2, FS_Subset
  <2> QED BY <2>3, <1>2
<1>4. ASSUME NEW u \in S PROVE Cardinality(below(u)) < n
  <2>1. below(u) \in SUBSET S /\ u \notin below(u)
    BY <1>0
  <2>2. below(u) # S
    BY <2>1
  <2>3. Cardinality(below(u)) <= n /\ Cardinality(below(u)) # n
    <3> HIDE DEF below
    <3> QED BY <2>1, <2>2, FS_Subset
  <2> HIDE DEF below, n
  <2> QED BY <2>3, <1>1, <1>2
<1>5. f \in Injection(S, 1..n)
  <2> HIDE DEF below, n
  <2>1. f \in [S -> 1..n]
    BY <1>1, <1>2, <1>4
  <2>2. ASSUME NEW u \in S, NEW v \in S, f[u] = f[v] PROVE u = v
    <3>1. Cardinality(below(u)) = Cardinality(below(v))
      BY <2>2, <1>2
    <3>2. ~(u < v) /\ ~(v < u)
      BY <3>1, <1>2, <1>3
    <3> QED BY <3>2, <1>0
  <2>3. IsInjective(f)
    BY <2>2, Zenon DEF IsInjective
  <2> QED BY <2>1, <2>3 DEF Injection
<1>6. f \in Surjection(S, 1..n)
  <2> HIDE DEF f, n
  <2> QED BY <1>1, <1>5, FS_Injection DEF n
<1>7. ASSUME NEW i \in 1..n PROVE \E u \in S : Cardinality(below(u)) = i - 1
  <2>1. PICK u \in S : f[u] = i
    BY <1>6 DEF Surjection
  <2> HIDE DEF below, n
  <2> QED BY <2>1, <1>2
<1> DEFINE g(i) == CHOOSE u \in S : Cardinality(below(u)) = i - 1
           q == [i \in 1..n |-> g(i)]
<1>8. Sorted(S) = q
  BY Zenon DEF Sorted
<1>9. ASSUME NEW i \in 1..n PROVE q[i] \in S /\ Cardinality(below(q[i])) = i - 1
  <2> DEFINE P(u) == Cardinality(below(u)) = i - 1
  <2>1. q[i] = CHOOSE u \in S : P(u)
    OBVIOUS
  <2>2. \E u \in S : P(u)
    BY <1>7
  <2>3. q[i] \in S /\ P(q[i])
    <3> HIDE DEF P, q
    <3> QED BY <2>1, <2>2, Zenon
  <2> QED BY <2>3
<1>10. q \in [1..n -> S]
  <2>1. \A i \in 1..n : g(i) \in S
    BY <1>9
  <2> HIDE DEF g, n, below
  <2> QED BY <2>1
<1> HIDE DEF q, n, below, f
<1>11. q \in Seq(S) /\ Len(q) = n
  BY <1>1, <1>10
<1>12. ASSUME NEW i \in 1..n, NEW j \in 1..n, i < j PROVE q[i] < q[j]
  <2>1. q[i] \in S /\ q[j] \in S /\ Cardinality(below(q[i])) < Cardinality(below(q[j]))
    BY <1>9, <1>12, <1>1
  <2>2. q[j] < q[i] => Cardinality(below(q[j])) < Cardinality(below(q[i]))
    BY <2>1, <1>3, Zenon
  <2>3. /\ Cardinality(below(q[i])) \in Nat /\ Cardinality(below(q[j])) \in Nat
        /\ q[i] \in Nat /\ q[j] \in Nat
    BY <2>1, <1>0, <1>2
  <2>4. q[i] # q[j]
    BY <2>1, <2>3
  <2> QED BY <2>1, <2>2, <2>3, <2>4
<1>13. ASSUME NEW u \in S PROVE \E i \in 1..n : q[i] = u
  <2>1. f[u] \in 1..n /\ f[u] = Cardinality(below(u)) + 1
    BY <1>1, <1>2, <1>4 DEF f
  <2>2. q[f[u]] \in S /\ Cardinality(below(q[f[u]])) = Cardinality(below(u))
    BY <2>1, <1>2, <1>9
  <2>3. /\ u < q[f[u]] => Cardinality(below(u)) < Cardinality(below(q[f[u]]))
        /\ q[f[u]] < u => Cardinality(below(q[f[u]])) < Cardinality(below(u))
    BY <2>2, <1>3, Zenon
  <2>4. u \in Nat /\ q[f[u]] \in Nat /\ Cardinality(below(u)) \in Nat
    BY <2>2, <1>0, <1>2
  <2>5. u = q[f[u]]
    BY <2>2, <2>3, <2>4
  <2> QED BY <2>1, <2>5
<1> QED BY <1>8, <1>11, <1>12, <1>13 DEF n

LEMMA MinOfTwo ==
  ASSUME NEW a \in Nat, NEW b \in Nat
  PROVE  Min({a, b}) = IF a <= b THEN a ELSE b
<1>1. \E x \in {a, b} : \A y \in {a, b} : x =< y
  OBVIOUS
<1>2. Min({a, b}) \in {a, b} /\ \A y \in {a, b} : Min({a, b}) =< y
  BY <1>1, Zenon DEF Min
<1> QED BY <1>2

\* The nodes that AssignTokens considers: at most one per partition, and all
\* members if there are no more of them.
LEMMA ConsideredIs ==
  ASSUME NEW cap, DOMAIN cap \subseteq Nat, IsFiniteSet(DOMAIN cap), NEW P \in Nat
  PROVE  /\ Considered(cap, P) \in Seq(DOMAIN cap)
         /\ Len(Considered(cap, P)) = IF Cardinality(DOMAIN cap) <= P THEN Cardinality(DOMAIN cap) ELSE P
         /\ Cardinality(DOMAIN cap) <= P =>
              \A n \in DOMAIN cap : \E i \in 1..Len(Considered(cap, P)) : Considered(cap, P)[i] = n
<1> DEFINE D == DOMAIN cap
           q == Sorted(D)
           l == Min({Len(q), P})
<1>1. /\ q \in Seq(D) /\ Len(q) = Cardinality(D) /\ Cardinality(D) \in Nat
      /\ \A u \in D : \E i \in 1..Len(q) : q[i] = u
  BY SortedIs, FS_CardinalityType
<1>2. Considered(cap, P) = SubSeq(q, 1, l)
  BY Zenon DEF Considered
<1>3. l = (IF Cardinality(D) <= P THEN Cardinality(D) ELSE P) /\ l \in 0..Len(q)
  <2> DEFINE c == Cardinality(D)
  <2>1. c \in Nat /\ Len(q) = c /\ l = Min({c, P})
    BY <1>1
  <2> HIDE DEF c, l, q
  <2>2. Min({c, P}) = IF c <= P THEN c ELSE P
    BY <2>1, MinOfTwo
  <2>3. l = (IF c <= P THEN c ELSE P) /\ l \in 0..Len(q)
    BY <2>1, <2>2
  <2> QED BY <2>3 DEF c
<1> HIDE DEF D, q, l
<1>4. /\ SubSeq(q, 1, l) \in Seq(D) /\ Len(SubSeq(q, 1, l)) = l
      /\ \A i \in 1..l : SubSeq(q, 1, l)[i] = q[i]
  BY <1>1, <1>3
<1>5. Cardinality(D) <= P => \A u \in D : \E i \in 1..l : q[i] = u
  BY <1>1, <1>3
<1> QED BY <1>2, <1>3, <1>4, <1>5 DEF D
-----------------------------------------------------------------------------
(* One token is given away *)

\* The states of the assignment of the tokens T to the nodes D, in which
\* those in C are counted.
Assignments(T, D, C) == [owner : [T -> D \cup {Nobody}], count : [C -> Int], next : Int]
Exact(a) == \A n \in DOMAIN a.count : a.count[n] = Cardinality(Share(a.owner, n))

\* The token is at its new owner and is counted there.
LEMMA GiveIs ==
  ASSUME NEW T, NEW D, NEW C, NEW a \in Assignments(T, D, C), NEW t \in T, NEW from, NEW to \in D
  PROVE  /\ Give(a, t, from, to) \in Assignments(T, D, C)
         /\ Give(a, t, from, to).owner = [a.owner EXCEPT ![t] = to]
         /\ Give(a, t, from, to).next = a.next
         /\ \A n \in C : Give(a, t, from, to).count[n] =
                           a.count[n] + (IF n = to THEN 1 ELSE 0) - (IF n = from THEN 1 ELSE 0)
<1> DEFINE o == [a.owner EXCEPT ![t] = to]
           c == [n \in C |-> a.count[n] + (IF n = to THEN 1 ELSE 0) - (IF n = from THEN 1 ELSE 0)]
<1>1. /\ a = [owner |-> a.owner, count |-> a.count, next |-> a.next]
      /\ a.owner \in [T -> D \cup {Nobody}] /\ a.count \in [C -> Int] /\ a.next \in Int
      /\ DOMAIN a.count = C
  BY DEF Assignments
<1>2. o \in [T -> D \cup {Nobody}] /\ c \in [C -> Int]
  BY <1>1
<1>3. Give(a, t, from, to) =
        [a EXCEPT !.owner = o,
                  !.count = [n \in DOMAIN a.count |-> a.count[n] + (IF n = to THEN 1 ELSE 0) - (IF n = from THEN 1 ELSE 0)]]
  BY <1>1 DEF Give
<1>4. Give(a, t, from, to) = [owner |-> o, count |-> c, next |-> a.next]
  BY <1>1, <1>3
<1> HIDE DEF o
<1>5. Give(a, t, from, to) \in Assignments(T, D, C)
  <2> HIDE DEF c
  <2> QED BY <1>1, <1>2, <1>4 DEF Assignments
<1> QED BY <1>4, <1>5 DEF o

\* The place to go on from is independent of the rest.
LEMMA NextIs ==
  ASSUME NEW T, NEW D, NEW C, NEW a \in Assignments(T, D, C), NEW nx \in Int
  PROVE  /\ [a EXCEPT !.next = nx] \in Assignments(T, D, C)
         /\ [a EXCEPT !.next = nx].owner = a.owner /\ [a EXCEPT !.next = nx].count = a.count
         /\ [a EXCEPT !.next = nx].next = nx
BY DEF Assignments

\* The counts stay exact if the token was accounted to its owner.
LEMMA GiveExact ==
  ASSUME NEW T, IsFiniteSet(T), NEW D, NEW C, NEW a \in Assignments(T, D, C), NEW t \in T, NEW to \in D,
         Exact(a), a.owner[t] # to
  PROVE  Exact(Give(a, t, a.owner[t], to))
<1> DEFINE g == Give(a, t, a.owner[t], to)
<1>1. /\ g \in Assignments(T, D, C) /\ g.owner = [a.owner EXCEPT ![t] = to]
      /\ \A n \in C : g.count[n] = a.count[n] + (IF n = to THEN 1 ELSE 0) - (IF n = a.owner[t] THEN 1 ELSE 0)
  BY GiveIs
<1>2. /\ a.owner \in [T -> D \cup {Nobody}] /\ DOMAIN a.count = C
      /\ g.owner \in [T -> D \cup {Nobody}] /\ DOMAIN g.count = C
  BY <1>1 DEF Assignments
<1>3. \A n : Share(g.owner, n) = IF n = to THEN Share(a.owner, n) \cup {t}
                                 ELSE IF n = a.owner[t] THEN Share(a.owner, n) \ {t} ELSE Share(a.owner, n)
  BY <1>1, <1>2 DEF Share
<1>4. \A n : /\ IsFiniteSet(Share(a.owner, n)) /\ Cardinality(Share(a.owner, n)) \in Nat
             /\ t \in Share(a.owner, n) <=> n = a.owner[t]
  <2>1. \A n : IsFiniteSet(Share(a.owner, n)) /\ Cardinality(Share(a.owner, n)) \in Nat
    BY <1>2, SharesAreFinite
  <2>2. \A n : t \in Share(a.owner, n) <=> n = a.owner[t]
    BY <1>2 DEF Share
  <2> QED BY <2>1, <2>2
<1> HIDE DEF g
<1>5. ASSUME NEW n \in C
      PROVE  Cardinality(Share(g.owner, n)) =
               a.count[n] + (IF n = to THEN 1 ELSE 0) - (IF n = a.owner[t] THEN 1 ELSE 0)
  <2>1. a.count[n] = Cardinality(Share(a.owner, n))
    BY <1>2 DEF Exact
  <2>2. CASE n = to
    <3>1. Cardinality(Share(a.owner, n) \cup {t}) = Cardinality(Share(a.owner, n)) + 1
      BY <1>4, <2>2, FS_AddElement
    <3> QED BY <1>3, <1>4, <2>1, <2>2, <3>1, SMTT(40)
  <2>3. CASE n # to /\ n = a.owner[t]
    <3>1. Cardinality(Share(a.owner, n) \ {t}) = Cardinality(Share(a.owner, n)) - 1
      BY <1>4, <2>3, FS_RemoveElement
    <3>2. Share(g.owner, n) = Share(a.owner, n) \ {t}
      BY <1>3, <2>3
    <3> QED BY <1>4, <2>1, <2>3, <3>1, <3>2
  <2>4. CASE n # to /\ n # a.owner[t]
    <3>1. Share(g.owner, n) = Share(a.owner, n)
      BY <1>3, <2>4
    <3> QED BY <1>4, <2>1, <2>4, <3>1
  <2> QED BY <2>2, <2>3, <2>4
<1> QED BY <1>1, <1>2, <1>5 DEF Exact, g
-----------------------------------------------------------------------------
(* Unplaced tokens *)

\* Going round from any place, every place is met.
LEMMA Round ==
  ASSUME NEW L \in Nat, NEW x \in 1..L
  PROVE  /\ \A i \in Nat : ((x - 1 + i) % L) + 1 \in 1..L
         /\ \A i \in Nat : (i % L) + 1 \in 1..L
         /\ \A j \in 1..L : \E i \in 0..(L - 1) : ((x - 1 + i) % L) + 1 = j
<1>1. \A i \in Nat : (i % L) \in 0..(L - 1)
  OBVIOUS
<1>2. ASSUME NEW j \in 1..L PROVE \E i \in 0..(L - 1) : ((x - 1 + i) % L) + 1 = j
  <2>1. CASE j >= x
    <3>1. (j - 1) % L = j - 1 /\ x - 1 + (j - x) = j - 1 /\ j - x \in 0..(L - 1)
      BY <2>1
    <3>2. ((x - 1 + (j - x)) % L) + 1 = j
      BY <3>1
    <3> QED BY <3>1, <3>2
  <2>2. CASE j < x
    <3>1. (j - 1 + L) % L = j - 1 /\ x - 1 + (j - x + L) = j - 1 + L /\ j - x + L \in 0..(L - 1)
      BY <2>2
    <3>2. ((x - 1 + (j - x + L)) % L) + 1 = j
      BY <3>1
    <3> QED BY <3>1, <3>2
  <2> QED BY <2>1, <2>2
<1>3. \A i \in Nat : x - 1 + i \in Nat
  OBVIOUS
<1> QED BY <1>1, <1>2, <1>3

\* Min is the least element.
LEMMA LeastIs ==
  ASSUME NEW s, s \subseteq Nat, s # {}
  PROVE  Min(s) \in s /\ \A y \in s : Min(s) <= y
<1>1. \E x \in s : \A y \in s : x =< y
  BY NatMin
<1> QED BY <1>1, Zenon DEF Min

\* The nodes of a sequence, and those of them that stay.
LEMMA AvailableIs ==
  ASSUME NEW D, NEW ns \in Seq(D), NEW cap
  PROVE  /\ Len(ns) \in Nat /\ \A i \in 1..Len(ns) : ns[i] \in D /\ ns[i] \in ToSet(ns)
         /\ \A n : n \in ToSet(ns) <=> \E i \in 1..Len(ns) : ns[i] = n
         /\ ToSet(ns) \subseteq D /\ IsFiniteSet(ToSet(ns)) /\ Cardinality(ToSet(ns)) <= Len(ns)
         /\ IsFiniteSet(Available(ns, cap)) /\ Cardinality(Available(ns, cap)) \in Nat
         /\ Cardinality(Available(ns, cap)) <= Len(ns)
         /\ Available(ns, cap) \subseteq ToSet(ns)
         /\ \A n : n \in Available(ns, cap) <=> n \in ToSet(ns) /\ cap[n] # 0
<1>1. Len(ns) \in Nat /\ ns \in [1..Len(ns) -> D] /\ DOMAIN ns = 1..Len(ns)
  OBVIOUS
<1>2. ToSet(ns) = {ns[i] : i \in 1..Len(ns)}
  BY <1>1 DEF ToSet
<1>3. IsFiniteSet(1..Len(ns)) /\ Cardinality(1..Len(ns)) = Len(ns)
  BY <1>1, FS_Interval, SMTT(40)
<1>4. ns \in Surjection(1..Len(ns), ToSet(ns))
  BY <1>1, <1>2 DEF Surjection
<1>5. IsFiniteSet(ToSet(ns)) /\ Cardinality(ToSet(ns)) <= Len(ns)
  BY <1>3, <1>4, FS_Surjection
<1>6. Available(ns, cap) = {n \in ToSet(ns) : cap[n] # 0}
  BY Zenon DEF Available
<1>7. Available(ns, cap) \in SUBSET ToSet(ns)
  BY <1>6
<1>8. /\ IsFiniteSet(Available(ns, cap)) /\ Cardinality(Available(ns, cap)) \in Nat
      /\ Cardinality(Available(ns, cap)) <= Cardinality(ToSet(ns)) /\ Cardinality(ToSet(ns)) \in Nat
  BY <1>5, <1>7, FS_Subset, FS_CardinalityType
<1> QED BY <1>1, <1>2, <1>5, <1>6, <1>8

\* As long as a token is unplaced some node has less than the ceiling.
LEMMA SomeNodeFits ==
  ASSUME NEW T, IsFiniteSet(T), NEW D, NEW C, NEW A, IsFiniteSet(A), A \subseteq C, Nobody \notin A,
         NEW ceil \in Nat, ceil * Cardinality(A) >= Cardinality(T),
         NEW a \in Assignments(T, D, C), Exact(a), NEW t \in T, a.owner[t] = Nobody
  PROVE  \E n \in A : a.count[n] < ceil
<1> SUFFICES ASSUME \A n \in A : ~(a.count[n] < ceil) PROVE FALSE
  OBVIOUS
<1>1. DOMAIN a.owner = T /\ DOMAIN a.count = C
  BY DEF Assignments
<1>2. \A n \in A : Cardinality(Share(a.owner, n)) >= ceil
  <2>1. \A n \in A : a.count[n] = Cardinality(Share(a.owner, n)) /\ Cardinality(Share(a.owner, n)) \in Nat
    BY <1>1, SharesAreFinite DEF Exact
  <2> QED BY <2>1
<1>3. Cardinality(ShareOfAll(a.owner, A)) >= ceil * Cardinality(A)
  BY <1>1, <1>2, SharesAdd
<1>4. ShareOfAll(a.owner, A) \in SUBSET (T \ {t})
  BY <1>1 DEF ShareOfAll
<1>5. IsFiniteSet(T \ {t}) /\ Cardinality(T \ {t}) = Cardinality(T) - 1
  BY FS_RemoveElement
<1>6. Cardinality(ShareOfAll(a.owner, A)) <= Cardinality(T) - 1
  BY <1>4, <1>5, FS_Subset
<1>7. Cardinality(T) \in Nat /\ Cardinality(ShareOfAll(a.owner, A)) \in Nat /\ ceil * Cardinality(A) \in Nat
  BY <1>1, SharesAreFinite, FS_CardinalityType
<1> QED BY <1>3, <1>6, <1>7

\* Every token is placed, and no token is taken from a node.
LEMMA PlaceUnplacedIs ==
  ASSUME NEW T, T \subseteq Nat, IsFiniteSet(T), NEW D, Nobody \notin D,
         NEW ns \in Seq(D), NEW cap, Available(ns, cap) # {},
         NEW ceil \in Nat, ceil * Cardinality(Available(ns, cap)) >= Cardinality(T),
         NEW start \in Assignments(T, D, ToSet(ns)), start.next = 1, Exact(start),
         NEW e, e = PlaceUnplaced(ns, cap, ceil, start)
  PROVE  /\ e \in Assignments(T, D, ToSet(ns)) /\ Exact(e)
         /\ \A t \in T : \/ e.owner[t] = start.owner[t] /\ start.owner[t] # Nobody
                         \/ e.owner[t] \in Available(ns, cap)
<1> DEFINE A == Available(ns, cap)
           L == Len(ns)
           C == ToSet(ns)
           kept(a, t) == a.owner[t] = start.owner[t] \/ (start.owner[t] = Nobody /\ a.owner[t] \in A)
           St == {a \in Assignments(T, D, C) : a.next \in 1..L /\ Exact(a) /\ \A t \in T : kept(a, t)}
           turn(a, i) == ((a.next - 1 + i) % Len(ns)) + 1
           fits(a) == {i \in 0..(Len(ns) - 1) : LET n == ns[turn(a, i)] IN cap[n] # 0 /\ a.count[n] < ceil}
           place(a, t) ==
             IF a.owner[t] # Nobody \/ fits(a) = {} THEN a
             ELSE LET j == turn(a, Min(fits(a)))
                  IN  [Give(a, t, Nobody, ns[j]) EXCEPT !.next = (j % Len(ns)) + 1]
           q == Sorted(DOMAIN start.owner)
           E(g) == g = [s \in SUBSET (1..Len(q)) |-> IF s = {} THEN start ELSE place(g[s \ {Max(s)}], q[Max(s)])]
           h == CHOOSE g : E(g)
<1>1. DOMAIN start.owner = T
  BY DEF Assignments
<1>2. /\ q \in Seq(T) /\ Len(q) \in Nat /\ DOMAIN q = 1..Len(q)
      /\ (\A i \in 1..Len(q) : q[i] \in T) /\ \A t \in T : \E i \in 1..Len(q) : q[i] = t
  <2>1. q \in Seq(T) /\ \A t \in T : \E i \in 1..Len(q) : q[i] = t
    BY <1>1, SortedIs
  <2> HIDE DEF q
  <2> QED BY <2>1
<1>3. PlaceUnplaced(ns, cap, ceil, start) =
        (CHOOSE g : g = [s \in SUBSET (DOMAIN q) |-> IF s = {} THEN start ELSE place(g[s \ {Max(s)}], q[Max(s)])])[DOMAIN q]
  BY DEF PlaceUnplaced, FoldLeft, MapThenFoldSet
<1> HIDE DEF q
<1>4. e = h[1..Len(q)]
  BY <1>2, <1>3, ZenonT(60)
<1>5. /\ L \in Nat /\ L > 0 /\ A \subseteq C /\ IsFiniteSet(A) /\ C \subseteq D /\ Nobody \notin A
      /\ \A i \in 1..L : ns[i] \in C
  BY AvailableIs
<1>6. ASSUME NEW a \in St, NEW t \in T
      PROVE  /\ place(a, t) \in St /\ place(a, t).owner[t] # Nobody
             /\ \A x \in T : a.owner[x] # Nobody => place(a, t).owner[x] # Nobody
  <2>1. a \in Assignments(T, D, C) /\ a.next \in 1..L /\ Exact(a)
    OBVIOUS
  <2>2. CASE a.owner[t] # Nobody
    BY <2>2
  <2>3. CASE a.owner[t] = Nobody
    <3>1. PICK n \in A : a.count[n] < ceil
      BY <1>5, <2>1, <2>3, SomeNodeFits
    <3>2. PICK z \in 1..L : ns[z] = n
      BY <1>5, <3>1, AvailableIs
    <3>3. PICK i \in 0..(L - 1) : turn(a, i) = z
      BY <2>1, <1>5, Round, ZenonT(60)
    <3>4. i \in fits(a) /\ fits(a) \subseteq Nat
      <4>1. cap[n] # 0
        BY <3>1, AvailableIs
      <4>2. ns[turn(a, i)] = n
        BY <3>2, <3>3
      <4> HIDE DEF turn
      <4> QED BY <3>1, <4>1, <4>2
    <3>5. Min(fits(a)) \in fits(a)
      <4> HIDE DEF fits
      <4> QED BY <3>4, LeastIs
    <3>6. PICK j \in 1..L : j = turn(a, Min(fits(a)))
      <4>1. Min(fits(a)) \in Nat
        BY <3>4, <3>5
      <4> HIDE DEF fits
      <4> QED BY <2>1, <1>5, <4>1, Round, SMTT(40)
    <3>7. ns[j] \in A
      BY <3>5, <3>6, <1>5, AvailableIs, ZenonT(60)
    <3> DEFINE g == Give(a, t, Nobody, ns[j])
               nx == (j % Len(ns)) + 1
    <3>8. place(a, t) = [g EXCEPT !.next = nx]
      BY <2>3, <3>4, <3>6
    <3>9. /\ g \in Assignments(T, D, C) /\ g.owner = [a.owner EXCEPT ![t] = ns[j]] /\ Exact(g)
      BY <1>5, <2>1, <2>3, <3>7, GiveIs, GiveExact, SMTT(30)
    <3>10. nx \in 1..L
      BY <1>5, Round
    <3> HIDE DEF place, g, nx
    <3>11. /\ place(a, t) \in Assignments(T, D, C) /\ place(a, t).owner = g.owner
           /\ place(a, t).count = g.count /\ place(a, t).next = nx
      BY <1>5, <3>8, <3>9, <3>10, NextIs
    <3>12. Exact(place(a, t))
      BY <3>9, <3>11 DEF Exact
    <3>13. place(a, t).owner[t] = ns[j] /\ \A x \in T \ {t} : place(a, t).owner[x] = a.owner[x]
      BY <2>1, <3>9, <3>11 DEF Assignments
    <3>14. \A x \in T : kept(place(a, t), x)
      BY <2>3, <3>7, <3>13
    <3> QED BY <1>5, <3>7, <3>10, <3>11, <3>12, <3>13, <3>14
  <2> QED BY <2>2, <2>3
<1>7. start \in St
  BY <1>5
<1> HIDE DEF St, place
<1>8. E(h)
  <2> DEFINE F == [z \in St \X (1..Len(q)) |-> place(z[1], q[z[2]])]
  <2>1. F \in [St \X (1..Len(q)) -> St]
    BY <1>2, <1>6
  <2>2. PICK g \in [SUBSET (1..Len(q)) -> St] : Solves(g, Len(q), start, F)
    <3> HIDE DEF F
    <3> QED BY <1>2, <1>7, <2>1, FoldExists
  <2>3. ASSUME NEW s \in SUBSET (1..Len(q)), s # {}
        PROVE  F[<<g[s \ {Max(s)}], Max(s)>>] = place(g[s \ {Max(s)}], q[Max(s)])
    <3>1. Max(s) \in 1..Len(q) /\ g[s \ {Max(s)}] \in St
      BY <1>2, <2>2, <2>3, MaxIs
    <3> QED BY <3>1
  <2>4. E(g)
    <3> HIDE DEF F
    <3> QED BY <2>2, <2>3 DEF Solves
  <2> HIDE DEF E
  <2> QED BY <2>4, Zenon
<1> HIDE DEF h
<1>9. /\ h[{}] = start
      /\ \A i \in 1..Len(q) : h[1..i] = place(h[1..(i - 1)], q[i])
  <2>1. h[{}] = start
    BY <1>8
  <2>2. ASSUME NEW i \in 1..Len(q) PROVE h[1..i] = place(h[1..(i - 1)], q[i])
    <3>1. 1..i \in SUBSET (1..Len(q)) /\ i \in Nat /\ i > 0
      BY <1>2
    <3>2. Max(1..i) = i /\ (1..i) \ {i} = 1..(i - 1) /\ 1..i # {}
      BY <3>1, Interval
    <3> QED BY <1>8, <3>1, <3>2
  <2> QED BY <2>1, <2>2
<1> DEFINE K == {i \in 0..Len(q) : h[1..i] \in St /\ \A x \in 1..i : h[1..i].owner[q[x]] # Nobody}
<1>10. 0 \in K
  BY <1>2, <1>7, <1>9
<1>11. ASSUME NEW i \in 1..Len(q), i - 1 \in K PROVE i \in K
  <2>1. /\ h[1..i] \in St /\ h[1..i].owner[q[i]] # Nobody
    <3>1. q[i] \in T /\ h[1..(i - 1)] \in St /\ h[1..i] = place(h[1..(i - 1)], q[i])
      BY <1>2, <1>9, <1>11
    <3> QED BY <1>6, <3>1
  <2>2. ASSUME NEW x \in 1..i PROVE h[1..i].owner[q[x]] # Nobody
    <3>1. CASE x = i
      BY <2>1, <3>1
    <3>2. CASE x # i
      <4>1. x \in 1..(i - 1) /\ q[x] \in T /\ q[i] \in T /\ h[1..(i - 1)] \in St
        BY <1>2, <1>11, <3>2
      <4>2. h[1..(i - 1)].owner[q[x]] # Nobody
        BY <1>11, <4>1
      <4> QED BY <1>6, <1>9, <4>1, <4>2
    <3> QED BY <3>1, <3>2
  <2> QED BY <2>1, <2>2
<1>12. Len(q) \in K
  <2> HIDE DEF K
  <2>1. Len(q) \in Nat /\ Len(q) \in 0..Len(q)
    BY <1>2
  <2> QED BY <2>1, <1>10, <1>11, Induct
<1>13. e \in St /\ \A t \in T : e.owner[t] # Nobody
  BY <1>2, <1>4, <1>12
<1> QED BY <1>13 DEF St
-----------------------------------------------------------------------------
(* The first pass *)

\* The tokens have been accounted to their owners, all of which are counted.
Accounted(a) == Exact(a) /\ \A t \in DOMAIN a.owner : a.owner[t] \in DOMAIN a.count

\* What the passes do for node n: nobody else gains a token, and who had the
\* floor keeps it.
Served(floor, n, a, b) ==
  /\ \A t \in DOMAIN a.owner : b.owner[t] = a.owner[t] \/ b.owner[t] = n
  /\ Accounted(a) => /\ Exact(b)
                     /\ \A m \in DOMAIN a.count : a.count[m] >= floor => b.count[m] >= floor

\* The first pass takes nothing from who has just the floor, or less.
LEMMA TakeSpreadIs ==
  ASSUME NEW T, T \subseteq Nat, IsFiniteSet(T), NEW D,
         NEW ns \in Seq(D), NEW n \in ToSet(ns), NEW floor \in Nat, floor > 0,
         NEW start \in Assignments(T, D, ToSet(ns)),
         NEW e, e = TakeSpread(ns, floor, n, start)
  PROVE  e \in Assignments(T, D, ToSet(ns)) /\ Served(floor, n, start, e)
<1> DEFINE C == ToSet(ns)
           b == [start EXCEPT !.next = 0]
           P == Cardinality(DOMAIN start.owner)
           every == P \div floor
           skip == IF every > 1 THEN every - 1 ELSE every
           account(a, t) == IF a.owner[t] \in ToSet(ns) THEN a.owner[t] ELSE ns[1]
           take(a, t) ==
             IF t < a.next \/ a.count[n] >= floor \/ a.count[account(a, t)] <= floor THEN a
             ELSE [Give(a, t, account(a, t), n) EXCEPT !.next = t + skip + 1]
           St == {a \in Assignments(T, D, C) : Served(floor, n, start, a)}
           q == Sorted(DOMAIN start.owner)
           E(g) == g = [s \in SUBSET (1..Len(q)) |-> IF s = {} THEN b ELSE take(g[s \ {Max(s)}], q[Max(s)])]
           h == CHOOSE g : E(g)
<1>1. DOMAIN start.owner = T /\ DOMAIN start.count = C /\ start.count \in [C -> Int]
  BY DEF Assignments
<1>2. /\ q \in Seq(T) /\ Len(q) \in Nat /\ DOMAIN q = 1..Len(q)
      /\ \A i \in 1..Len(q) : q[i] \in T
  <2>1. q \in Seq(T)
    BY <1>1, SortedIs, ZenonT(60)
  <2> HIDE DEF q
  <2> QED BY <2>1
<1>3. TakeSpread(ns, floor, n, start) =
        (CHOOSE g : g = [s \in SUBSET (DOMAIN q) |-> IF s = {} THEN b ELSE take(g[s \ {Max(s)}], q[Max(s)])])[DOMAIN q]
  BY ZenonT(60) DEF TakeSpread, FoldLeft, MapThenFoldSet
<1> HIDE DEF q
<1>4. e = h[1..Len(q)]
  BY <1>2, <1>3
<1>5. n \in D /\ C \subseteq D /\ ns[1] \in C /\ skip \in Int
  <2>1. Len(ns) > 0
    BY AvailableIs
  <2>2. P \in Nat
    BY <1>1, FS_CardinalityType
  <2>3. every \in Int
    BY <2>2
  <2> QED BY <2>1, <2>3, AvailableIs
<1> HIDE DEF skip
<1>6. ASSUME NEW a \in St, NEW t \in T PROVE take(a, t) \in St
  <2>1. /\ a \in Assignments(T, D, C) /\ Served(floor, n, start, a)
        /\ DOMAIN a.owner = T /\ DOMAIN a.count = C /\ a.count \in [C -> Int]
    BY DEF Assignments
  <2> DEFINE m == account(a, t)
             skips == t < a.next \/ a.count[n] >= floor \/ a.count[m] <= floor
             g == Give(a, t, m, n)
             nx == t + skip + 1
  <2>2. CASE skips
    BY <2>2
  <2>3. CASE ~skips
    <3>1. take(a, t) = [g EXCEPT !.next = nx]
      BY <2>3
    <3>2. m \in C /\ n \in C /\ m # n /\ nx \in Int /\ a.count[m] > floor /\ a.count[m] \in Int /\ a.count[n] \in Int
      <4>1. m \in C
        BY <1>5
      <4> HIDE DEF m
      <4>2. a.count[m] \in Int /\ a.count[n] \in Int
        BY <2>1, <4>1
      <4>3. ~(a.count[n] >= floor) /\ ~(a.count[m] <= floor)
        BY <2>3
      <4>4. nx \in Int
        BY <1>5
      <4> QED BY <4>1, <4>2, <4>3, <4>4
    <3> HIDE DEF take, nx, skips
    <3>3. /\ g \in Assignments(T, D, C) /\ g.owner = [a.owner EXCEPT ![t] = n]
          /\ \A x \in C : g.count[x] = a.count[x] + (IF x = n THEN 1 ELSE 0) - (IF x = m THEN 1 ELSE 0)
      <4> HIDE DEF m
      <4> QED BY <1>5, <2>1, GiveIs
    <3>4. Accounted(start) => Exact(g)
      <4> SUFFICES ASSUME Accounted(start) PROVE Exact(g)
        OBVIOUS
      <4>1. a.owner[t] \in C /\ Exact(a)
        BY <1>1, <2>1, <1>5 DEF Accounted, Served
      <4>2. m = a.owner[t]
        BY <4>1
      <4> QED BY <1>5, <2>1, <3>2, <4>1, <4>2, GiveExact
    <3>5. \A x \in T : g.owner[x] = a.owner[x] \/ g.owner[x] = n
      BY <2>1, <3>3 DEF Assignments
    <3>6. ASSUME NEW x \in C, a.count[x] >= floor PROVE g.count[x] >= floor
      <4>1. a.count[x] \in Int /\ (x = m => a.count[x] > floor)
        BY <2>1, <3>2
      <4> HIDE DEF m, g
      <4> QED BY <3>2, <3>3, <3>6, <4>1, SMTT(40)
    <3> HIDE DEF g, m
    <3>7. /\ take(a, t) \in Assignments(T, D, C) /\ take(a, t).owner = g.owner /\ take(a, t).count = g.count
      BY <3>1, <3>2, <3>3, NextIs
    <3>8. Served(floor, n, start, take(a, t))
      <4>1. \A x \in T : take(a, t).owner[x] = start.owner[x] \/ take(a, t).owner[x] = n
        BY <1>1, <2>1, <3>5, <3>7 DEF Served
      <4>2. Accounted(start) => Exact(take(a, t))
        BY <3>4, <3>7 DEF Exact
      <4>3. Accounted(start) => \A x \in C : start.count[x] >= floor => take(a, t).count[x] >= floor
        BY <1>1, <2>1, <3>6, <3>7 DEF Served
      <4> QED BY <1>1, <4>1, <4>2, <4>3 DEF Served
    <3> QED BY <3>7, <3>8
  <2> QED BY <2>2, <2>3
<1>7. b \in St
  <2>1. b \in Assignments(T, D, C) /\ b.owner = start.owner /\ b.count = start.count
    BY NextIs
  <2> HIDE DEF b
  <2>2. Served(floor, n, start, b)
    BY <2>1 DEF Served, Exact, Accounted
  <2> QED BY <2>1, <2>2
<1> HIDE DEF St, take, b
<1>8. E(h)
  <2> DEFINE F == [z \in St \X (1..Len(q)) |-> take(z[1], q[z[2]])]
  <2>1. F \in [St \X (1..Len(q)) -> St]
    BY <1>2, <1>6
  <2>2. PICK g \in [SUBSET (1..Len(q)) -> St] : Solves(g, Len(q), b, F)
    <3> HIDE DEF F
    <3> QED BY <1>2, <1>7, <2>1, FoldExists
  <2>3. ASSUME NEW s \in SUBSET (1..Len(q)), s # {}
        PROVE  F[<<g[s \ {Max(s)}], Max(s)>>] = take(g[s \ {Max(s)}], q[Max(s)])
    <3>1. Max(s) \in 1..Len(q) /\ g[s \ {Max(s)}] \in St
      BY <1>2, <2>2, <2>3, MaxIs
    <3> QED BY <3>1
  <2>4. E(g)
    <3> HIDE DEF F
    <3> QED BY <2>2, <2>3 DEF Solves
  <2> HIDE DEF E
  <2> QED BY <2>4, Zenon
<1> HIDE DEF h
<1> DEFINE K == {i \in 0..Len(q) : h[1..i] \in St}
<1>9. 0 \in K
  BY <1>2, <1>7, <1>8
<1>10. ASSUME NEW i \in 1..Len(q), i - 1 \in K PROVE i \in K
  <2>1. 1..i \in SUBSET (1..Len(q)) /\ i \in Nat /\ i > 0
    BY <1>2
  <2>2. Max(1..i) = i /\ (1..i) \ {i} = 1..(i - 1) /\ 1..i # {}
    BY <2>1, Interval
  <2>3. h[1..i] = take(h[1..(i - 1)], q[i])
    BY <1>8, <2>1, <2>2
  <2>4. q[i] \in T /\ h[1..(i - 1)] \in St
    BY <1>2, <1>10
  <2>5. h[1..i] \in St
    BY <1>6, <2>3, <2>4
  <2> QED BY <2>5
<1>11. Len(q) \in K
  <2> HIDE DEF K
  <2>1. Len(q) \in 0..Len(q)
    BY <1>2
  <2> QED BY <1>2, <2>1, <1>9, <1>10, Induct
<1> QED BY <1>4, <1>11 DEF St
-----------------------------------------------------------------------------
(* The second pass *)

GiveAll(a, taken, m, n) == FoldLeft(LAMBDA b, t : Give(b, t, m, n), a, taken)

\* A sequence of tokens is taken from m: every count changes accordingly, and
\* the counts stay exact if the tokens were m's, each met once.
Given(T, D, C, a, taken, m, n, e) ==
  /\ e \in Assignments(T, D, C)
  /\ \A t \in T : e.owner[t] = a.owner[t] \/ e.owner[t] = n
  /\ \A x \in C : e.count[x] = a.count[x] + (IF x = n THEN Len(taken) ELSE 0)
                                          - (IF x = m THEN Len(taken) ELSE 0)
  /\ (/\ Exact(a) /\ \A i \in 1..Len(taken) : a.owner[taken[i]] = m
      /\ \A i, j \in 1..Len(taken) : i < j => taken[i] # taken[j]) => Exact(e)

LEMMA GiveAllIs ==
  ASSUME NEW T, IsFiniteSet(T), NEW D, NEW C, NEW a \in Assignments(T, D, C),
         NEW m, NEW n \in D, m # n, NEW taken \in Seq(T)
  PROVE  Given(T, D, C, a, taken, m, n, GiveAll(a, taken, m, n))
<1> DEFINE St == Assignments(T, D, C)
           L == Len(taken)
           E(g) == g = [s \in SUBSET (1..L) |-> IF s = {} THEN a ELSE Give(g[s \ {Max(s)}], taken[Max(s)], m, n)]
           h == CHOOSE g : E(g)
           owned == \A i \in 1..L : a.owner[taken[i]] = m
           once == \A i, j \in 1..L : i < j => taken[i] # taken[j]
           counts(b, k) == \A x \in C : b.count[x] = a.count[x] + (IF x = n THEN k ELSE 0) - (IF x = m THEN k ELSE 0)
           exact(b, k) == Exact(a) /\ owned /\ once => Exact(b) /\ \A j \in (k + 1)..L : b.owner[taken[j]] = m
           owners(b) == \A t \in T : b.owner[t] = a.owner[t] \/ b.owner[t] = n
<1>1. L \in Nat /\ DOMAIN taken = 1..L /\ \A i \in 1..L : taken[i] \in T
  OBVIOUS
<1>2. GiveAll(a, taken, m, n) =
        (CHOOSE g : g = [s \in SUBSET (DOMAIN taken) |->
                           IF s = {} THEN a ELSE Give(g[s \ {Max(s)}], taken[Max(s)], m, n)])[DOMAIN taken]
  BY DEF GiveAll, FoldLeft, MapThenFoldSet
<1> HIDE DEF L
<1> DEFINE e == GiveAll(a, taken, m, n)
<1>3. e = h[1..L]
  BY <1>1, <1>2
<1> HIDE DEF e
<1>4. ASSUME NEW b \in St, NEW t \in T
      PROVE  Give(b, t, m, n) \in St
  BY GiveIs
<1> HIDE DEF St
<1>5. a \in St
  BY DEF St
<1>6. E(h)
  <2> DEFINE F == [z \in St \X (1..L) |-> Give(z[1], taken[z[2]], m, n)]
  <2>1. F \in [St \X (1..L) -> St]
    BY <1>1, <1>4
  <2>2. PICK g \in [SUBSET (1..L) -> St] : Solves(g, L, a, F)
    <3> HIDE DEF F
    <3> QED BY <1>1, <1>5, <2>1, FoldExists
  <2>3. ASSUME NEW s \in SUBSET (1..L), s # {}
        PROVE  F[<<g[s \ {Max(s)}], Max(s)>>] = Give(g[s \ {Max(s)}], taken[Max(s)], m, n)
    <3>1. Max(s) \in 1..L /\ g[s \ {Max(s)}] \in St
      BY <1>1, <2>2, <2>3, MaxIs
    <3> QED BY <3>1
  <2>4. E(g)
    <3> HIDE DEF F
    <3> QED BY <2>2, <2>3 DEF Solves
  <2> HIDE DEF E
  <2> QED BY <2>4, Zenon
<1> HIDE DEF h
<1> DEFINE K == {i \in 0..L : h[1..i] \in St /\ owners(h[1..i]) /\ counts(h[1..i], i) /\ exact(h[1..i], i)}
<1>7. 0 \in K
  <2>1. h[{}] = a /\ 1..0 = {}
    BY <1>1, <1>6
  <2>2. counts(a, 0)
    BY DEF Assignments
  <2>3. exact(a, 0)
    OBVIOUS
  <2> QED BY <1>1, <1>5, <2>1, <2>2, <2>3
<1>8. ASSUME NEW i \in 1..L, i - 1 \in K PROVE i \in K
  <2> DEFINE b == h[1..(i - 1)]
             t == taken[i]
             c == Give(b, t, m, n)
  <2>1. h[1..i] = c
    <3>1. 1..i \in SUBSET (1..L) /\ i \in Nat /\ i > 0
      BY <1>1
    <3>2. Max(1..i) = i /\ (1..i) \ {i} = 1..(i - 1) /\ 1..i # {}
      BY <3>1, Interval
    <3> QED BY <1>6, <3>1, <3>2
  <2>2. b \in St /\ owners(b) /\ counts(b, i - 1) /\ exact(b, i - 1)
    BY <1>8
  <2>3. t \in T
    BY <1>1
  <2> HIDE DEF b, t
  <2>4. /\ c \in St /\ c.owner = [b.owner EXCEPT ![t] = n]
        /\ \A x \in C : c.count[x] = b.count[x] + (IF x = n THEN 1 ELSE 0) - (IF x = m THEN 1 ELSE 0)
    BY <2>2, <2>3, GiveIs DEF St
  <2>5. b.owner \in [T -> D \cup {Nobody}] /\ \A x \in C : a.count[x] \in Int /\ b.count[x] \in Int
    BY <2>2 DEF St, Assignments
  <2>6. owners(c)
    BY <2>2, <2>4, <2>5
  <2>7. counts(c, i)
    <3> SUFFICES ASSUME NEW x \in C
                 PROVE  c.count[x] = a.count[x] + (IF x = n THEN i ELSE 0) - (IF x = m THEN i ELSE 0)
      OBVIOUS
    <3>1. b.count[x] = a.count[x] + (IF x = n THEN i - 1 ELSE 0) - (IF x = m THEN i - 1 ELSE 0)
      BY <2>2
    <3>2. c.count[x] = b.count[x] + (IF x = n THEN 1 ELSE 0) - (IF x = m THEN 1 ELSE 0)
      BY <2>4
    <3>3. a.count[x] \in Int /\ b.count[x] \in Int /\ i \in Int
      BY <2>5
    <3> HIDE DEF c
    <3> QED BY <3>1, <3>2, <3>3
  <2>8. exact(c, i)
    <3> SUFFICES ASSUME Exact(a), owned, once
                 PROVE  Exact(c) /\ \A j \in (i + 1)..L : c.owner[taken[j]] = m
      OBVIOUS
    <3>1. Exact(b) /\ \A j \in i..L : b.owner[taken[j]] = m
      BY <2>2
    <3>2. b.owner[t] = m
      BY <1>1, <3>1 DEF t
    <3>3. Exact(c)
      BY <2>2, <2>3, <3>1, <3>2, GiveExact DEF St
    <3>4. ASSUME NEW j \in (i + 1)..L PROVE c.owner[taken[j]] = m
      <4>1. j \in i..L /\ j \in 1..L /\ i < j
        BY <1>1
      <4>2. taken[j] # t /\ taken[j] \in T
        BY <1>1, <4>1 DEF t
      <4> QED BY <2>4, <2>5, <3>1, <4>1, <4>2
    <3> QED BY <3>3, <3>4
  <2> HIDE DEF c, owners, counts, exact
  <2> QED BY <2>1, <2>4, <2>6, <2>7, <2>8
<1>9. L \in K
  <2> HIDE DEF K
  <2>1. L \in 0..L
    BY <1>1
  <2> QED BY <1>1, <2>1, <1>7, <1>8, Induct
<1>10. e \in St /\ owners(e) /\ counts(e, L) /\ exact(e, L)
  BY <1>3, <1>9
<1> QED BY <1>10 DEF St, L, Given, e

\* What node n takes from node m.
Strip(floor, n, a, m) ==
  LET mine == Sorted({t \in DOMAIN a.owner : a.owner[t] = m})
      taken == SubSeq(mine, 1, Min({Len(mine), a.count[m] - floor}))
  IN  IF m = n \/ a.count[n] >= floor \/ a.count[m] <= floor THEN a ELSE GiveAll(a, taken, m, n)

Stripped(T, D, C, floor, n, a, m, c) ==
  /\ c \in Assignments(T, D, C)
  /\ \A t \in T : c.owner[t] = a.owner[t] \/ c.owner[t] = n
  /\ Exact(a) => Exact(c)
  /\ \A x \in C : a.count[x] >= floor => c.count[x] >= floor
  /\ c.count[n] >= a.count[n] /\ \A x \in C \ {n} : c.count[x] <= a.count[x]
  /\ Exact(a) /\ m # n => c.count[n] >= floor \/ c.count[m] <= floor

LEMMA StripIs ==
  ASSUME NEW T, T \subseteq Nat, IsFiniteSet(T), NEW D, NEW C, C \subseteq D,
         NEW n \in C, NEW m \in C, NEW floor \in Nat, NEW a \in Assignments(T, D, C)
  PROVE  Stripped(T, D, C, floor, n, a, m, Strip(floor, n, a, m))
<1> DEFINE S == {t \in DOMAIN a.owner : a.owner[t] = m}
           mine == Sorted(S)
           l == Min({Len(mine), a.count[m] - floor})
           taken == SubSeq(mine, 1, l)
           c == Strip(floor, n, a, m)
<1>1. /\ DOMAIN a.owner = T /\ DOMAIN a.count = C /\ \A x \in C : a.count[x] \in Int
      /\ n \in D
  BY DEF Assignments
<1>2. CASE m = n \/ a.count[n] >= floor \/ a.count[m] <= floor
  <2>1. c = a
    BY <1>2 DEF Strip
  <2> HIDE DEF c
  <2> QED BY <1>1, <1>2, <2>1 DEF Stripped, c
<1>3. CASE ~(m = n \/ a.count[n] >= floor \/ a.count[m] <= floor)
  <2>1. c = GiveAll(a, taken, m, n)
    BY <1>3 DEF Strip
  <2> HIDE DEF c
  <2>2. /\ m # n /\ a.count[n] < floor /\ a.count[m] > floor
        /\ a.count[m] \in Int /\ a.count[n] \in Int /\ a.count[m] - floor \in Nat
    BY <1>1, <1>3
  <2>3. Exact(a) => Cardinality(S) = a.count[m]
    BY <1>1, Zenon DEF Exact, Share
  <2>4. S \subseteq T /\ IsFiniteSet(S) /\ S \subseteq Nat
    <3>1. S \in SUBSET T
      BY <1>1
    <3>2. IsFiniteSet(S)
      BY <3>1, FS_Subset, Zenon
    <3> QED BY <3>1, <3>2
  <2>5. /\ mine \in Seq(S) /\ Len(mine) = Cardinality(S)
        /\ \A i, j \in 1..Len(mine) : i < j => mine[i] < mine[j]
    BY <2>4, SortedIs
  <2>6. \A t \in S : a.owner[t] = m /\ t \in T /\ t \in Nat
    BY <2>4
  <2> HIDE DEF S, mine
  <2>7. Len(mine) \in Nat /\ l = (IF Len(mine) <= a.count[m] - floor THEN Len(mine) ELSE a.count[m] - floor)
    BY <2>2, <2>5, MinOfTwo
  <2> HIDE DEF l
  <2>8. l \in Nat /\ l <= a.count[m] - floor /\ l <= Len(mine)
    BY <2>2, <2>7
  <2>9. taken \in Seq(S) /\ Len(taken) = l /\ \A i \in 1..l : taken[i] = mine[i] /\ mine[i] \in S
    BY <2>5, <2>8
  <2> HIDE DEF taken
  <2>10. taken \in Seq(T)
    <3>1. taken \in [1..l -> S] /\ l \in Nat
      BY <2>8, <2>9
    <3>2. taken \in [1..l -> T]
      BY <2>4, <3>1
    <3> QED BY <3>1, <3>2
  <2>11. \A i \in 1..Len(taken) : a.owner[taken[i]] = m
    BY <2>6, <2>9
  <2>12. \A i, j \in 1..Len(taken) : i < j => taken[i] # taken[j]
    <3> SUFFICES ASSUME NEW i \in 1..l, NEW j \in 1..l, i < j PROVE taken[i] # taken[j]
      BY <2>9
    <3>1. i \in 1..Len(mine) /\ j \in 1..Len(mine)
      BY <2>8, <2>7
    <3>2. mine[i] < mine[j] /\ mine[i] \in Nat /\ mine[j] \in Nat
      BY <2>5, <2>6, <2>9, <3>1
    <3> QED BY <2>9, <3>2
  <2>13. /\ c \in Assignments(T, D, C)
         /\ \A t \in T : c.owner[t] = a.owner[t] \/ c.owner[t] = n
         /\ \A x \in C : c.count[x] = a.count[x] + (IF x = n THEN l ELSE 0) - (IF x = m THEN l ELSE 0)
         /\ Exact(a) => Exact(c)
    <3>1. Given(T, D, C, a, taken, m, n, GiveAll(a, taken, m, n))
      BY <1>1, <2>2, <2>10, GiveAllIs
    <3> QED BY <2>1, <2>9, <2>11, <2>12, <3>1 DEF Given
  <2>14. ASSUME NEW x \in C, a.count[x] >= floor PROVE c.count[x] >= floor
    <3>1. /\ c.count[x] = a.count[x] + (IF x = n THEN l ELSE 0) - (IF x = m THEN l ELSE 0)
          /\ a.count[x] \in Int
      BY <1>1, <2>13
    <3>2. CASE x = m
      <4>1. c.count[m] = a.count[m] - l
        BY <2>2, <2>8, <3>1, <3>2
      <4> QED BY <2>2, <2>8, <3>2, <4>1
    <3>3. CASE x # m
      BY <2>8, <2>14, <3>1, <3>3
    <3> QED BY <3>2, <3>3
  <2>15. c.count[n] >= a.count[n] /\ \A x \in C \ {n} : c.count[x] <= a.count[x]
    BY <1>1, <2>2, <2>8, <2>13, SMTT(40)
  <2>16. Exact(a) => c.count[m] <= floor
    <3> SUFFICES ASSUME Exact(a) PROVE c.count[m] <= floor
      OBVIOUS
    <3>1. Len(mine) = a.count[m]
      BY <2>3, <2>5
    <3>2. l = a.count[m] - floor
      BY <2>2, <2>7, <3>1
    <3> QED BY <2>2, <2>13, <3>2
  <2> QED BY <2>13, <2>14, <2>15, <2>16 DEF Stripped, c
<1> QED BY <1>2, <1>3

\* After the second pass n has its floor, or no other node has more than that.
LEMMA TakeSurplusIs ==
  ASSUME NEW T, T \subseteq Nat, IsFiniteSet(T), NEW D,
         NEW ns \in Seq(D), NEW n \in ToSet(ns), NEW floor \in Nat,
         NEW start \in Assignments(T, D, ToSet(ns)),
         NEW e, e = TakeSurplus(ns, floor, n, start)
  PROVE  /\ e \in Assignments(T, D, ToSet(ns)) /\ Served(floor, n, start, e)
         /\ Accounted(start) => e.count[n] >= floor \/ \A x \in ToSet(ns) \ {n} : e.count[x] <= floor
<1> DEFINE C == ToSet(ns)
           L == Len(ns)
           St == {a \in Assignments(T, D, C) : Served(floor, n, start, a)}
           E(g) == g = [s \in SUBSET (1..L) |-> IF s = {} THEN start ELSE Strip(floor, n, g[s \ {Max(s)}], ns[Max(s)])]
           h == CHOOSE g : E(g)
<1>1. DOMAIN start.owner = T /\ DOMAIN start.count = C /\ start.count \in [C -> Int]
  BY DEF Assignments
<1>2. L \in Nat /\ DOMAIN ns = 1..L /\ C \subseteq D /\ \A i \in 1..L : ns[i] \in C
  BY AvailableIs, SMTT(60)
<1>3. TakeSurplus(ns, floor, n, start) =
        (CHOOSE g : g = [s \in SUBSET (DOMAIN ns) |->
                           IF s = {} THEN start ELSE Strip(floor, n, g[s \ {Max(s)}], ns[Max(s)])])[DOMAIN ns]
  BY DEF TakeSurplus, Strip, GiveAll, FoldLeft, MapThenFoldSet
<1>4. e = h[1..L]
  BY <1>2, <1>3
<1>5. ASSUME NEW a \in St, NEW m \in C PROVE Strip(floor, n, a, m) \in St
  <2> DEFINE c == Strip(floor, n, a, m)
  <2>0. c = Strip(floor, n, a, m)
    OBVIOUS
  <2>1. a \in Assignments(T, D, C) /\ Served(floor, n, start, a)
    OBVIOUS
  <2>10. Stripped(T, D, C, floor, n, a, m, Strip(floor, n, a, m))
    BY <1>2, <2>1, StripIs
  <2> HIDE DEF c, C, St
  <2>2. /\ c \in Assignments(T, D, C)
        /\ \A t \in T : c.owner[t] = a.owner[t] \/ c.owner[t] = n
        /\ Exact(a) => Exact(c)
        /\ \A x \in C : a.count[x] >= floor => c.count[x] >= floor
    BY <2>0, <2>10 DEF Stripped
  <2>3. Served(floor, n, start, c)
    BY <1>1, <2>1, <2>2 DEF Served
  <2> QED BY <2>2, <2>3 DEF c, St
<1>6. start \in St
  BY <1>1 DEF Served, Accounted
<1>7. \A a \in St : a \in Assignments(T, D, C) /\ (Accounted(start) => Exact(a))
  BY DEF Served
<1> HIDE DEF St, L
<1>8. E(h)
  <2> DEFINE F == [z \in St \X (1..L) |-> Strip(floor, n, z[1], ns[z[2]])]
  <2>1. F \in [St \X (1..L) -> St]
    BY <1>2, <1>5
  <2>2. PICK g \in [SUBSET (1..L) -> St] : Solves(g, L, start, F)
    <3> HIDE DEF F
    <3> QED BY <1>2, <1>6, <2>1, FoldExists
  <2>3. ASSUME NEW s \in SUBSET (1..L), s # {}
        PROVE  F[<<g[s \ {Max(s)}], Max(s)>>] = Strip(floor, n, g[s \ {Max(s)}], ns[Max(s)])
    <3>1. Max(s) \in 1..L /\ g[s \ {Max(s)}] \in St
      BY <1>2, <2>2, <2>3, MaxIs
    <3> QED BY <3>1
  <2>4. E(g)
    <3> HIDE DEF F
    <3> QED BY <2>2, <2>3 DEF Solves
  <2> HIDE DEF E
  <2> QED BY <2>4, Zenon
<1> HIDE DEF h
<1> DEFINE done(a, i) == Accounted(start) =>
                           a.count[n] >= floor \/ \A j \in 1..i : ns[j] # n => a.count[ns[j]] <= floor
           K == {i \in 0..L : h[1..i] \in St /\ done(h[1..i], i)}
<1>9. 0 \in K
  BY <1>2, <1>6, <1>8
<1>10. ASSUME NEW i \in 1..L, i - 1 \in K PROVE i \in K
  <2> DEFINE b == h[1..(i - 1)]
             c == h[1..i]
  <2>1. b \in St /\ done(b, i - 1) /\ ns[i] \in C
    BY <1>2, <1>10
  <2>2. c = Strip(floor, n, b, ns[i])
    <3>1. 1..i \in SUBSET (1..L) /\ i \in Nat /\ i > 0
      BY <1>2
    <3>2. Max(1..i) = i /\ (1..i) \ {i} = 1..(i - 1) /\ 1..i # {}
      BY <3>1, Interval
    <3> QED BY <1>8, <3>1, <3>2
  <2> HIDE DEF b, c
  <2>3. c \in St
    BY <1>5, <2>1, <2>2
  <2>4. /\ c.count[n] >= b.count[n] /\ \A x \in C \ {n} : c.count[x] <= b.count[x]
        /\ Exact(b) /\ ns[i] # n => c.count[n] >= floor \/ c.count[ns[i]] <= floor
    <3>1. b \in Assignments(T, D, C)
      BY <1>7, <2>1
    <3>2. Stripped(T, D, C, floor, n, b, ns[i], Strip(floor, n, b, ns[i]))
      BY <1>2, <2>1, <3>1, StripIs
    <3> QED BY <2>2, <3>2 DEF Stripped
  <2>5. \A x \in C : b.count[x] \in Int /\ c.count[x] \in Int
    BY <1>7, <2>1, <2>3 DEF Assignments
  <2>6. done(c, i)
    <3> SUFFICES ASSUME Accounted(start), ~(c.count[n] >= floor), NEW j \in 1..i, ns[j] # n
                 PROVE  c.count[ns[j]] <= floor
      OBVIOUS
    <3>1. CASE j = i
      BY <1>7, <2>1, <2>4, <3>1
    <3>2. CASE j # i
      <4>1. j \in 1..(i - 1) /\ j \in 1..L /\ ns[j] \in C \ {n}
        BY <1>2, <3>2
      <4>2. ~(b.count[n] >= floor)
        BY <2>4, <2>5
      <4>3. b.count[ns[j]] <= floor
        BY <2>1, <4>1, <4>2
      <4> QED BY <2>4, <2>5, <4>1, <4>3
    <3> QED BY <3>1, <3>2
  <2> HIDE DEF done
  <2> QED BY <2>3, <2>6 DEF c
<1>11. L \in K
  <2> HIDE DEF K
  <2>1. L \in 0..L
    BY <1>2
  <2> QED BY <1>2, <2>1, <1>9, <1>10, Induct
<1>12. e \in St /\ done(e, L)
  BY <1>4, <1>11
<1>13. \A x \in C : \E j \in 1..L : ns[j] = x
  BY AvailableIs DEF L
<1> QED BY <1>12, <1>13 DEF St
-----------------------------------------------------------------------------
(* Both passes, for every node *)

\* Every token is at one of the nodes A, and is counted there.
Placed(A, a) == Exact(a) /\ \A t \in DOMAIN a.owner : a.owner[t] \in A

\* If every other node has at most the floor, then so has n at least.
LEMMA EnoughForAll ==
  ASSUME NEW T, IsFiniteSet(T), NEW D, NEW C, NEW A, IsFiniteSet(A), A \subseteq C, NEW n \in A,
         NEW floor \in Nat, floor * Cardinality(A) <= Cardinality(T),
         NEW a \in Assignments(T, D, C), Placed(A, a), \A x \in A \ {n} : a.count[x] <= floor
  PROVE  a.count[n] >= floor
<1> DEFINE o == a.owner
           k == Cardinality(A)
<1>1. DOMAIN o = T /\ DOMAIN a.count = C /\ \A x \in A : a.count[x] = Cardinality(Share(o, x))
  BY DEF Assignments, Placed, Exact
<1>2. IsFiniteSet(A \ {n}) /\ Cardinality(A \ {n}) = k - 1 /\ k \in Nat
  BY FS_RemoveElement, FS_CardinalityType
<1>3. \A x \in A \ {n} : Cardinality(Share(o, x)) <= floor
  BY <1>1
<1>4. Cardinality(ShareOfAll(o, A \ {n})) <= floor * (k - 1)
  <2>1. Cardinality(ShareOfAll(o, A \ {n})) <= floor * Cardinality(A \ {n})
    BY <1>1, <1>2, <1>3, SharesAdd
  <2> QED BY <1>2, <2>1
<1>5. Cardinality(ShareOfAll(o, A)) = Cardinality(ShareOfAll(o, A \ {n})) + a.count[n]
  BY <1>1, ShareOfOneMore
<1>6. ShareOfAll(o, A) = T
  BY <1>1 DEF ShareOfAll, Placed
<1>7. a.count[n] \in Nat /\ Cardinality(ShareOfAll(o, A \ {n})) \in Nat /\ Cardinality(T) \in Nat
  BY <1>1, SharesAreFinite, FS_CardinalityType
<1>8. floor * (k - 1) = floor * k - floor /\ floor * k \in Int
  BY <1>2
<1> HIDE DEF o, k
<1> QED BY <1>4, <1>5, <1>6, <1>7, <1>8 DEF k

Serve(ns, cap, floor, a, n) ==
  IF cap[n] = 0 THEN a ELSE TakeSurplus(ns, floor, n, TakeSpread(ns, floor, n, a))

ServedToo(T, D, ns, cap, floor, n, a, c) ==
  /\ c \in Assignments(T, D, ToSet(ns))
  /\ \A t \in T : c.owner[t] = a.owner[t] \/ c.owner[t] \in Available(ns, cap)
  /\ Placed(Available(ns, cap), a) =>
       /\ Placed(Available(ns, cap), c)
       /\ cap[n] # 0 => c.count[n] >= floor
       /\ \A m \in Available(ns, cap) : a.count[m] >= floor => c.count[m] >= floor

LEMMA ServeIs ==
  ASSUME NEW T, T \subseteq Nat, IsFiniteSet(T), NEW D, NEW ns \in Seq(D), NEW cap,
         NEW n \in ToSet(ns), NEW floor \in Nat, floor > 0,
         floor * Cardinality(Available(ns, cap)) <= Cardinality(T),
         NEW a \in Assignments(T, D, ToSet(ns))
  PROVE  ServedToo(T, D, ns, cap, floor, n, a, Serve(ns, cap, floor, a, n))
<1> DEFINE A == Available(ns, cap)
           C == ToSet(ns)
           b == TakeSpread(ns, floor, n, a)
           c == TakeSurplus(ns, floor, n, b)
<1>1. IsFiniteSet(A) /\ A \subseteq C
  BY AvailableIs
<1>2. CASE cap[n] = 0
  BY <1>2 DEF Serve, ServedToo
<1>3. CASE cap[n] # 0
  <2>1. Serve(ns, cap, floor, a, n) = c
    BY <1>3 DEF Serve
  <2>2. b \in Assignments(T, D, C) /\ Served(floor, n, a, b)
    BY TakeSpreadIs
  <2> HIDE DEF b
  <2>3. /\ c \in Assignments(T, D, C) /\ Served(floor, n, b, c)
        /\ Accounted(b) => c.count[n] >= floor \/ \A x \in C \ {n} : c.count[x] <= floor
    BY <2>2, TakeSurplusIs
  <2> HIDE DEF c
  <2>4. n \in A
    BY <1>3, AvailableIs
  <2>5. /\ DOMAIN a.owner = T /\ DOMAIN b.owner = T /\ DOMAIN c.owner = T
        /\ DOMAIN a.count = C /\ DOMAIN b.count = C /\ DOMAIN c.count = C
        /\ \A x \in C : a.count[x] \in Int /\ b.count[x] \in Int /\ c.count[x] \in Int
    BY <2>2, <2>3 DEF Assignments
  <2> HIDE DEF A, C
  <2>6. \A t \in T : c.owner[t] = a.owner[t] \/ c.owner[t] \in A
    BY <2>2, <2>3, <2>4, <2>5 DEF Served
  <2>7. ASSUME Placed(A, a)
        PROVE  /\ Placed(A, c) /\ c.count[n] >= floor
               /\ \A m \in A : a.count[m] >= floor => c.count[m] >= floor
    <3>1. Accounted(a)
      BY <1>1, <2>5, <2>7 DEF Accounted, Placed
    <3>2. Placed(A, b) /\ Accounted(b)
      BY <1>1, <2>2, <2>4, <2>5, <2>7, <3>1 DEF Accounted, Placed, Served
    <3>3. Placed(A, c)
      BY <2>3, <2>4, <2>5, <3>2 DEF Placed, Served
    <3>4. \A m \in A : a.count[m] >= floor => c.count[m] >= floor
      BY <1>1, <2>2, <2>3, <2>5, <3>1, <3>2 DEF Served
    <3>5. c.count[n] >= floor
      <4> SUFFICES ASSUME ~(c.count[n] >= floor) PROVE FALSE
        OBVIOUS
      <4>1. \A x \in A \ {n} : c.count[x] <= floor
        BY <1>1, <2>3, <3>2
      <4>2. floor * Cardinality(A) <= Cardinality(T)
        BY DEF A
      <4> QED BY <1>1, <2>3, <2>4, <3>3, <4>1, <4>2, EnoughForAll
    <3> QED BY <3>3, <3>4, <3>5
  <2> QED BY <2>1, <2>3, <2>6, <2>7 DEF ServedToo, A, C
<1> QED BY <1>2, <1>3

LevelledToo(T, D, ns, cap, floor, start, e) ==
  /\ e \in Assignments(T, D, ToSet(ns))
  /\ \A t \in T : e.owner[t] = start.owner[t] \/ e.owner[t] \in Available(ns, cap)
  /\ Placed(Available(ns, cap), start) =>
       /\ Placed(Available(ns, cap), e)
       /\ \A n \in Available(ns, cap) : e.count[n] >= floor

LEMMA LevelIs ==
  ASSUME NEW T, T \subseteq Nat, IsFiniteSet(T), NEW D, NEW ns \in Seq(D), NEW cap,
         NEW floor \in Nat, floor > 0, floor * Cardinality(Available(ns, cap)) <= Cardinality(T),
         NEW start \in Assignments(T, D, ToSet(ns))
  PROVE  LevelledToo(T, D, ns, cap, floor, start, Level(ns, cap, floor, start))
<1> DEFINE A == Available(ns, cap)
           C == ToSet(ns)
           L == Len(ns)
           St == Assignments(T, D, C)
           E(g) == g = [s \in SUBSET (1..L) |->
                          IF s = {} THEN start ELSE Serve(ns, cap, floor, g[s \ {Max(s)}], ns[Max(s)])]
           h == CHOOSE g : E(g)
           e == Level(ns, cap, floor, start)
<1>1. L \in Nat /\ DOMAIN ns = 1..L /\ \A i \in 1..L : ns[i] \in C
  BY AvailableIs
<1>2. Level(ns, cap, floor, start) =
        (CHOOSE g : g = [s \in SUBSET (DOMAIN ns) |->
                           IF s = {} THEN start ELSE Serve(ns, cap, floor, g[s \ {Max(s)}], ns[Max(s)])])[DOMAIN ns]
  BY DEF Level, Serve, FoldLeft, MapThenFoldSet
<1>3. e = h[1..L]
  BY <1>1, <1>2
<1> HIDE DEF e, L
<1>4. ASSUME NEW a \in St, NEW n \in C
      PROVE  ServedToo(T, D, ns, cap, floor, n, a, Serve(ns, cap, floor, a, n))
  BY ServeIs
<1>5. ASSUME NEW a \in St, NEW n \in C PROVE Serve(ns, cap, floor, a, n) \in St
  <2>1. ServedToo(T, D, ns, cap, floor, n, a, Serve(ns, cap, floor, a, n))
    BY <1>4
  <2> QED BY <2>1 DEF ServedToo
<1> HIDE DEF St, C
<1>6. start \in St
  BY DEF St, C
<1>7. E(h)
  <2> DEFINE F == [z \in St \X (1..L) |-> Serve(ns, cap, floor, z[1], ns[z[2]])]
  <2>1. F \in [St \X (1..L) -> St]
    BY <1>1, <1>5
  <2>2. PICK g \in [SUBSET (1..L) -> St] : Solves(g, L, start, F)
    <3> HIDE DEF F
    <3> QED BY <1>1, <1>6, <2>1, FoldExists
  <2>3. ASSUME NEW s \in SUBSET (1..L), s # {}
        PROVE  F[<<g[s \ {Max(s)}], Max(s)>>] = Serve(ns, cap, floor, g[s \ {Max(s)}], ns[Max(s)])
    <3>1. Max(s) \in 1..L /\ g[s \ {Max(s)}] \in St
      BY <1>1, <2>2, <2>3, MaxIs
    <3> QED BY <3>1
  <2>4. E(g)
    <3> HIDE DEF F
    <3> QED BY <2>2, <2>3 DEF Solves
  <2> HIDE DEF E
  <2> QED BY <2>4, Zenon
<1> HIDE DEF h, A
<1> DEFINE owners(a) == \A t \in T : a.owner[t] = start.owner[t] \/ a.owner[t] \in A
           done(a, i) == Placed(A, start) =>
                           Placed(A, a) /\ \A j \in 1..i : ns[j] \in A => a.count[ns[j]] >= floor
           K == {i \in 0..L : h[1..i] \in St /\ owners(h[1..i]) /\ done(h[1..i], i)}
<1>8. 0 \in K
  BY <1>1, <1>6, <1>7
<1>9. ASSUME NEW i \in 1..L, i - 1 \in K PROVE i \in K
  <2> DEFINE b == h[1..(i - 1)]
             c == h[1..i]
             n == ns[i]
  <2>1. b \in St /\ owners(b) /\ done(b, i - 1) /\ n \in C
    BY <1>1, <1>9
  <2>2. c = Serve(ns, cap, floor, b, n)
    <3>1. 1..i \in SUBSET (1..L) /\ i \in Nat /\ i > 0
      BY <1>1
    <3>2. Max(1..i) = i /\ (1..i) \ {i} = 1..(i - 1) /\ 1..i # {}
      BY <3>1, Interval
    <3> QED BY <1>7, <3>1, <3>2
  <2> HIDE DEF b, c, n
  <2>3. ServedToo(T, D, ns, cap, floor, n, b, c)
    BY <1>4, <2>1, <2>2
  <2>4. c \in St
    BY <1>5, <2>1, <2>2
  <2>5. owners(c)
    BY <2>1, <2>3 DEF ServedToo, A
  <2>6. done(c, i)
    <3> SUFFICES ASSUME Placed(A, start)
                 PROVE  Placed(A, c) /\ \A j \in 1..i : ns[j] \in A => c.count[ns[j]] >= floor
      OBVIOUS
    <3>1. Placed(A, b)
      BY <2>1
    <3>2. /\ Placed(A, c) /\ cap[n] # 0 => c.count[n] >= floor
          /\ \A m \in A : b.count[m] >= floor => c.count[m] >= floor
      BY <2>3, <3>1 DEF ServedToo, A
    <3>3. Placed(A, c)
      BY <2>3, <3>1 DEF ServedToo, A
    <3>4. ASSUME NEW j \in 1..i, ns[j] \in A PROVE c.count[ns[j]] >= floor
      <4>1. CASE j = i
        <5>1. n \in A
          BY <3>4, <4>1 DEF n
        <5>2. cap[n] # 0
          BY <5>1, AvailableIs DEF A
        <5> QED BY <3>2, <3>3, <4>1, <5>2 DEF n
      <4>2. CASE j # i
        <5>1. j \in 1..(i - 1)
          BY <1>1, <4>2
        <5>2. b.count[ns[j]] >= floor
          BY <2>1, <3>4, <5>1
        <5> QED BY <3>2, <3>4, <5>2
      <4> QED BY <4>1, <4>2
    <3> QED BY <3>3, <3>4
  <2> HIDE DEF done, owners
  <2> QED BY <2>4, <2>5, <2>6 DEF c
<1>10. L \in K
  <2> HIDE DEF K
  <2>1. L \in 0..L
    BY <1>1
  <2> QED BY <1>1, <2>1, <1>8, <1>9, Induct
<1>11. e \in St /\ owners(e) /\ done(e, L)
  BY <1>3, <1>10
<1>12. \A x \in A : \E j \in 1..L : ns[j] = x
  BY AvailableIs DEF L, A
<1> QED BY <1>11, <1>12 DEF St, C, A, e, LevelledToo
-----------------------------------------------------------------------------
(* The new assignment *)

\* The floors of all nodes fit into P tokens, P tokens fit into their ceilings.
LEMMA FloorAndCeiling ==
  ASSUME NEW P \in Nat, NEW k \in Nat, k > 0
  PROVE  /\ TokenCountFloor(P, k) \in Nat /\ TokenCountFloor(P, k) * k <= P
         /\ k <= P => TokenCountFloor(P, k) > 0
         /\ TokenCountCeil(P, k) \in Nat /\ TokenCountCeil(P, k) * k >= P
<1> DEFINE q == P \div k
           r == P % k
<1>1. q \in Nat /\ r \in 0..(k - 1) /\ P = k * q + r
  OBVIOUS
<1>2. k * q = q * k /\ (q + 1) * k = q * k + k /\ q * k \in Nat
  BY <1>1
<1>3. TokenCountFloor(P, k) = q /\ TokenCountCeil(P, k) = IF r # 0 THEN q + 1 ELSE q
  BY <1>1 DEF TokenCountFloor, TokenCountCeil
<1> HIDE DEF q, r
<1>4. k <= P => q > 0
  <2> SUFFICES ASSUME k <= P, q = 0 PROVE FALSE
    BY <1>1
  <2>1. k * q = 0
    OBVIOUS
  <2> QED BY <1>1, <2>1
<1> QED BY <1>1, <1>2, <1>3, <1>4

\* Tokens of nodes with capacity 0 are released, and nothing else changes.
ReleasedFrom(T, D, ns, cap, owner, e) ==
  /\ e \in Assignments(T, D, ToSet(ns)) /\ e.next = 1 /\ Exact(e)
  /\ \A t \in T : e.owner[t] = owner[t] \/ e.owner[t] = Nobody
  /\ \A t \in T : e.owner[t] \in ToSet(ns) => cap[e.owner[t]] # 0

LEMMA ReleaseDecommissionedIs ==
  ASSUME NEW T, IsFiniteSet(T), NEW D, Nobody \notin D, NEW ns \in Seq(D), NEW cap, NEW has,
         NEW owner \in [T -> D \cup {Nobody}],
         \A n \in D : has[n] = {t \in T : owner[t] = n}
  PROVE  ReleasedFrom(T, D, ns, cap, owner, ReleaseDecommissioned(ns, cap, has, owner))
<1> DEFINE C == ToSet(ns)
           gone == {n \in C : cap[n] = 0}
           o == [t \in DOMAIN owner |-> IF \E n \in gone : t \in has[n] THEN Nobody ELSE owner[t]]
           c == [n \in C |-> IF n \in gone THEN 0 ELSE Cardinality(has[n])]
           e == ReleaseDecommissioned(ns, cap, has, owner)
<1>1. e = [owner |-> o, count |-> c, next |-> 1]
  BY Zenon DEF ReleaseDecommissioned
<1>2. C \subseteq D /\ DOMAIN owner = T /\ Nobody \notin C
  BY AvailableIs
<1> HIDE DEF e, C
<1>3. \A t \in T : o[t] = IF owner[t] \in gone THEN Nobody ELSE owner[t]
  BY <1>2
<1>4. o \in [T -> D \cup {Nobody}]
  BY <1>2
<1>5. \A n \in D : IsFiniteSet(has[n]) /\ Cardinality(has[n]) \in Nat
  <2>1. \A n \in D : has[n] = Share(owner, n)
    BY <1>2 DEF Share
  <2> QED BY <1>2, <2>1, SharesAreFinite
<1>6. c \in [C -> Int]
  BY <1>2, <1>5
<1>7. ASSUME NEW n \in C PROVE c[n] = Cardinality(Share(o, n))
  <2>1. DOMAIN o = T
    BY <1>2
  <2>2. CASE n \in gone
    <3>1. \A t \in T : o[t] # n
      BY <1>2, <1>3, <2>2
    <3> HIDE DEF o
    <3>2. Share(o, n) = {}
      BY <2>1, <3>1 DEF Share
    <3> QED BY <2>2, <3>2, FS_EmptySet
  <2>3. CASE n \notin gone
    <3>1. \A t \in T : o[t] = n <=> owner[t] = n
      BY <1>2, <1>3, <2>3
    <3>2. has[n] = {t \in T : owner[t] = n}
      BY <1>2
    <3> HIDE DEF o, gone
    <3>3. Share(o, n) = has[n]
      BY <2>1, <3>1, <3>2 DEF Share
    <3> QED BY <2>3, <3>3
  <2> QED BY <2>2, <2>3
<1>8. \A t \in T : (o[t] = owner[t] \/ o[t] = Nobody) /\ (o[t] \in C => cap[o[t]] # 0)
  BY <1>2, <1>3
<1> HIDE DEF o, c
<1>9. e.owner = o /\ e.count = c /\ e.next = 1 /\ e \in Assignments(T, D, C)
  BY <1>1, <1>4, <1>6 DEF Assignments
<1>10. Exact(e)
  <2>1. DOMAIN c = C
    BY <1>6
  <2> QED BY <1>7, <1>9, <2>1 DEF Exact
<1> QED BY <1>8, <1>9, <1>10 DEF ReleasedFrom, C, e

\* The tokens are given to members, or to nobody at all; as long as there are
\* no more members than tokens, and one that stays, each that stays gets its
\* share and nobody else gets anything.
NewAssignment(T, D, cap, new) ==
  /\ new \in [T -> D \cup {Nobody}]
  /\ (\A t \in T : new[t] = Nobody) \/ (\A t \in T : new[t] \in D)
  /\ Cardinality(D) <= Cardinality(T) /\ {n \in D : cap[n] # 0} # {} =>
       /\ \A t \in T : new[t] \in D /\ cap[new[t]] # 0
       /\ \A n \in D : cap[n] # 0 =>
            Cardinality(Share(new, n)) >= TokenCountFloor(Cardinality(T), Cardinality({m \in D : cap[m] # 0}))

LEMMA AssignTokensIs ==
  ASSUME NEW T, T \subseteq Nat, IsFiniteSet(T), NEW D, D \subseteq Nat, IsFiniteSet(D), Nobody \notin D,
         NEW cap, DOMAIN cap = D, NEW has, NEW owner \in [T -> D \cup {Nobody}],
         \A n \in D : has[n] = {t \in T : owner[t] = n}
  PROVE  NewAssignment(T, D, cap, AssignTokens(cap, has, owner))
<1> DEFINE P == Cardinality(T)
           ns == Considered(cap, P)
           C == ToSet(ns)
           A == Available(ns, cap)
           k == Cardinality(A)
           floor == TokenCountFloor(P, k)
           ceil == TokenCountCeil(P, k)
           a == ReleaseDecommissioned(ns, cap, has, owner)
           b == PlaceUnplaced(ns, cap, ceil, a)
           c == Level(ns, cap, floor, b)
           new == AssignTokens(cap, has, owner)
           S == {n \in D : cap[n] # 0}
<1>1. P \in Nat /\ DOMAIN owner = T
  BY FS_CardinalityType
<1>2. /\ ns \in Seq(D) /\ Len(ns) = IF Cardinality(D) <= P THEN Cardinality(D) ELSE P
      /\ Cardinality(D) <= P => \A n \in D : \E i \in 1..Len(ns) : ns[i] = n
  <2> HIDE DEF P
  <2> QED BY <1>1, ConsideredIs
<1> HIDE DEF ns
<1>3. /\ C \subseteq D /\ Len(ns) \in Nat /\ IsFiniteSet(A) /\ k \in Nat /\ k <= Len(ns)
      /\ \A n : n \in A <=> n \in C /\ cap[n] # 0
      /\ \A n : n \in C <=> \E i \in 1..Len(ns) : ns[i] = n
  BY <1>2, AvailableIs
<1>4. k <= P
  <2>1. Cardinality(D) \in Nat
    BY FS_CardinalityType
  <2> QED BY <1>1, <1>2, <1>3, <2>1
<1>5. Cardinality(D) <= P => C = D /\ A = S
  BY <1>2, <1>3
<1>6. new = IF k = 0 THEN [t \in T |-> Nobody] ELSE c.owner
  <2>1. ~ \E t \in DOMAIN owner : owner[t] \notin DOMAIN cap \cup {Nobody}
    BY <1>1
  <2> QED BY <1>1, <2>1, Zenon DEF AssignTokens, ns
<1> HIDE DEF new
<1>7. CASE k = 0
  <2>1. A = {}
    BY <1>3, <1>7, FS_EmptySet
  <2>2. new = [t \in T |-> Nobody]
    BY <1>6, <1>7
  <2> QED BY <1>5, <2>1, <2>2 DEF NewAssignment, new
<1>8. CASE k # 0
  <2>1. k > 0 /\ A # {}
    BY <1>3, <1>8, FS_EmptySet
  <2>2. /\ floor \in Nat /\ floor > 0 /\ floor * k <= P
        /\ ceil \in Nat /\ ceil * k >= P
    <3> HIDE DEF P, k
    <3> QED BY <1>1, <1>3, <1>4, <2>1, FloorAndCeiling
  <2>3. ReleasedFrom(T, D, ns, cap, owner, a)
    BY <1>2, ReleaseDecommissionedIs
  <2> HIDE DEF a, floor, ceil
  <2>4. a \in Assignments(T, D, C) /\ a.next = 1 /\ Exact(a)
    BY <2>3 DEF ReleasedFrom
  <2>5. /\ b \in Assignments(T, D, C) /\ Exact(b)
        /\ \A t \in T : \/ b.owner[t] = a.owner[t] /\ a.owner[t] # Nobody
                        \/ b.owner[t] \in A
    BY <1>2, <2>1, <2>2, <2>4, PlaceUnplacedIs, SMTT(40)
  <2> HIDE DEF b
  <2>6. LevelledToo(T, D, ns, cap, floor, b, c)
    BY <1>2, <2>2, <2>5, LevelIs
  <2> HIDE DEF c
  <2>7. /\ c \in Assignments(T, D, C)
        /\ \A t \in T : c.owner[t] = b.owner[t] \/ c.owner[t] \in A
        /\ Placed(A, b) => Placed(A, c) /\ \A n \in A : c.count[n] >= floor
    BY <2>6 DEF LevelledToo
  <2>8. new = c.owner /\ new \in [T -> D \cup {Nobody}] /\ DOMAIN new = T
    BY <1>6, <1>8, <2>7 DEF Assignments
  <2>9. \A t \in T : b.owner[t] \in D
    BY <1>3, <2>4, <2>5 DEF Assignments
  <2>10. \A t \in T : new[t] \in D
    BY <1>3, <2>7, <2>8, <2>9
  <2>11. ASSUME Cardinality(D) <= P
         PROVE  (\A t \in T : new[t] \in S) /\ \A n \in S : Cardinality(Share(new, n)) >= floor
    <3>1. C = D /\ A = S
      BY <1>5, <2>11
    <3>2. \A t \in T : b.owner[t] \in A
      <4>1. \A t \in T : a.owner[t] \in C => a.owner[t] \in A
        BY <1>3, <2>3 DEF ReleasedFrom
      <4>2. \A t \in T : a.owner[t] \in D \cup {Nobody}
        BY <2>4 DEF Assignments
      <4> QED BY <2>5, <3>1, <4>1, <4>2
    <3>3. DOMAIN b.owner = T /\ DOMAIN c.owner = T /\ DOMAIN c.count = C
      BY <2>5, <2>7 DEF Assignments
    <3>4. Placed(A, b)
      BY <2>5, <3>2, <3>3 DEF Placed
    <3>5. Placed(A, c) /\ \A n \in A : c.count[n] >= floor
      BY <2>7, <3>4
    <3>6. \A n \in A : c.count[n] = Cardinality(Share(new, n))
      BY <1>3, <2>8, <3>3, <3>5 DEF Placed, Exact
    <3> QED BY <2>8, <3>1, <3>3, <3>5, <3>6 DEF Placed
  <2>12. Cardinality(D) <= P => floor = TokenCountFloor(P, Cardinality(S))
    BY <1>5 DEF floor
  <2> HIDE DEF P, floor
  <2> QED BY <2>8, <2>10, <2>11, <2>12 DEF NewAssignment, P, new
<1> QED BY <1>7, <1>8
-----------------------------------------------------------------------------
(* The owners of a partition *)

\* The distances at which nodes are met for the first time on the way round
\* the ring from p, and the token at which replica r's owner is met.
Firsts(owner, p, P) == {i \in 0..(P - 1) : \A j \in 0..(i - 1) : owner[(p + j) % P] # owner[(p + i) % P]}
TokenOf(F, p, P, rf, r) ==
  (p + Sorted(F)[((r - 1) % Min({Len(Sorted(F)), rf})) + 1]) % P

\* The owner of a replica is the owner of a token of the ring.
LEMMA OwnersIs ==
  ASSUME NEW P \in Nat, P > 0, NEW owner, DOMAIN owner = Tokens(P), NEW p \in Tokens(P),
         NEW rf \in Nat, NEW r \in 1..rf
  PROVE  /\ Owners(owner, p, rf)[r] = owner[TokenOf(Firsts(owner, p, P), p, P, rf, r)]
         /\ TokenOf(Firsts(owner, p, P), p, P, rf, r) \in Tokens(P)
<1> DEFINE F == Firsts(owner, p, P)
           size == Cardinality(DOMAIN owner)
           at(i) == owner[(p + i) % size]
           G == {i \in 0..(size - 1) : \A j \in 0..(i - 1) : at(j) # at(i)}
           q == Sorted(F)
           d == Min({Len(q), rf})
<1>1. size = P
  <2>1. Cardinality(0..(P - 1)) = (P - 1) - 0 + 1
    BY FS_Interval
  <2> QED BY <2>1 DEF Tokens
<1>2. G = F
  BY <1>1, Zenon DEF Firsts
<1>3. Owners(owner, p, rf) = [x \in 1..rf |-> at(q[((x - 1) % d) + 1])]
  BY <1>2, Zenon DEF Owners
<1>4. F \subseteq Nat /\ IsFiniteSet(F) /\ 0 \in F
  <2>1. F \in SUBSET (0..(P - 1)) /\ 0 \in F
    BY DEF Firsts
  <2>2. IsFiniteSet(0..(P - 1))
    BY FS_Interval
  <2>3. IsFiniteSet(F)
    BY <2>1, <2>2, FS_Subset, Zenon
  <2> QED BY <2>1, <2>3
<1> HIDE DEF F
<1>5. q \in Seq(F) /\ \E i \in 1..Len(q) : q[i] = 0
  BY <1>4, SortedIs
<1> HIDE DEF q
<1>6. Len(q) \in Nat /\ Len(q) > 0
  BY <1>5
<1>7. d \in Nat /\ d > 0 /\ d <= Len(q)
  BY <1>6, MinOfTwo
<1> HIDE DEF d
<1>8. ((r - 1) % d) + 1 \in 1..Len(q)
  <2>1. (r - 1) % d \in 0..(d - 1)
    BY <1>7
  <2> QED BY <1>6, <1>7, <2>1
<1>9. q[((r - 1) % d) + 1] \in Nat
  <2>1. \A i \in 1..Len(q) : q[i] \in F
    BY <1>5
  <2> QED BY <1>4, <1>8, <2>1
<1>10. TokenOf(F, p, P, rf, r) = (p + q[((r - 1) % d) + 1]) % P
  BY Zenon DEF TokenOf, q, d
<1>11. TokenOf(F, p, P, rf, r) \in Tokens(P)
  <2> DEFINE u == q[((r - 1) % d) + 1]
  <2>1. u \in Nat /\ TokenOf(F, p, P, rf, r) = (p + u) % P
    BY <1>9, <1>10
  <2> HIDE DEF u
  <2>2. p \in Nat /\ p + u \in Nat
    BY <2>1 DEF Tokens
  <2>3. (p + u) % P \in 0..(P - 1)
    BY <2>2
  <2> QED BY <2>1, <2>3 DEF Tokens
<1>12. Owners(owner, p, rf)[r] = at(q[((r - 1) % d) + 1])
  BY <1>3
<1> QED BY <1>1, <1>10, <1>11, <1>12 DEF F

\* A node that has no token owns no replica.
LEMMA NoTokensNoReplicas ==
  ASSUME NEW P \in Nat, P > 0, NEW owner, DOMAIN owner = Tokens(P), NEW rf \in Nat, NEW n,
         \A t \in Tokens(P) : owner[t] # n
  PROVE  OwnedBy(n, owner, rf) = {}
<1> SUFFICES ASSUME NEW x \in OwnedBy(n, owner, rf) PROVE FALSE
  OBVIOUS
<1>1. x[1] \in Tokens(P) /\ x[2] + 1 \in 1..rf /\ Owners(owner, x[1], rf)[x[2] + 1] = n
  BY DEF OwnedBy
<1>2. \E t \in Tokens(P) : Owners(owner, x[1], rf)[x[2] + 1] = owner[t]
  BY <1>1, OwnersIs
<1> QED BY <1>1, <1>2

\* If every token is at a node, a node keeps what it owns when the tokens of
\* another one are released.
LEMMA ReleaseKeepsOwned ==
  ASSUME NEW P \in Nat, P > 0, NEW owner, DOMAIN owner = Tokens(P), NEW new, DOMAIN new = Tokens(P),
         NEW rf \in Nat, NEW n, NEW x, x # n, x # Nobody,
         \A t \in Tokens(P) : owner[t] # Nobody /\ new[t] = IF owner[t] = n THEN Nobody ELSE owner[t]
  PROVE  OwnedBy(x, new, rf) = OwnedBy(x, owner, rf)
<1>1. ASSUME NEW p \in Tokens(P) PROVE Firsts(new, p, P) = Firsts(owner, p, P)
  <2>1. ASSUME NEW i \in 0..(P - 1), NEW j \in 0..(i - 1)
        PROVE  new[(p + j) % P] # new[(p + i) % P] <=> owner[(p + j) % P] # owner[(p + i) % P]
    <3>1. (p + j) % P \in Tokens(P) /\ (p + i) % P \in Tokens(P)
      BY DEF Tokens
    <3> QED BY <3>1
  <2> QED BY <2>1 DEF Firsts
<1>2. ASSUME NEW p \in Tokens(P), NEW r \in 0..(rf - 1)
      PROVE  Owners(new, p, rf)[r + 1] = x <=> Owners(owner, p, rf)[r + 1] = x
  <2> DEFINE t == TokenOf(Firsts(owner, p, P), p, P, rf, r + 1)
  <2>1. r + 1 \in 1..rf
    OBVIOUS
  <2>2. Owners(owner, p, rf)[r + 1] = owner[t] /\ t \in Tokens(P)
    BY <2>1, OwnersIs
  <2>3. Owners(new, p, rf)[r + 1] = new[t]
    BY <1>1, <2>1, OwnersIs
  <2> HIDE DEF t
  <2> QED BY <2>2, <2>3
<1>3. \A y \in Tokens(P) \X (0..(rf - 1)) : y[1] \in Tokens(P) /\ y[2] \in 0..(rf - 1)
  OBVIOUS
<1>4. \A y \in Tokens(P) \X (0..(rf - 1)) :
         Owners(new, y[1], rf)[y[2] + 1] = x <=> Owners(owner, y[1], rf)[y[2] + 1] = x
  BY <1>2, <1>3
<1> QED BY <1>4, Zenon DEF OwnedBy
-----------------------------------------------------------------------------
(* What is assigned and what Local is told *)

FewNodes == IsFiniteSet(Members) /\ IsFiniteSet(removed) /\ Members \cap removed = {}

AllOrNothing ==
  (\A t \in DOMAIN tokens : tokens[t] = Nobody) \/ (\A t \in DOMAIN tokens : tokens[t] \in Members)

\* Local is told what it owns and holds from the start, and no longer once it
\* has been removed.
TellsLocal ==
  Local \notin removed => /\ told = OwnedBy(Local, tokens, replicationFactor)
                          /\ toldHeld = HeldBy(Local, nodeReplicas)

RingIsFunction == tokens = [t \in DOMAIN tokens |-> tokens[t]]

SharesInv == IInv /\ RingIsFunction /\ FewNodes /\ AllOrNothing /\ SharesAssigned /\ TellsLocal

\* The ring of a cluster whose settings have been made.
LEMMA RingIs ==
  ASSUME IInv
  PROVE  /\ AreInitialized => /\ partitions \in Nat /\ partitions > 0 /\ replicationFactor \in Nat
                              /\ DOMAIN tokens = Tokens(partitions)
         /\ ~AreInitialized => DOMAIN tokens = {}
         /\ Members \subseteq Nat /\ Nobody \notin Members /\ Members \subseteq Node
<1>1. /\ partitions \in {0} \cup PartitionCounts /\ replicationFactor \in {0} \cup ReplicationFactors
      /\ DOMAIN tokens = IF AreInitialized THEN Tokens(partitions) ELSE {}
      /\ Members \subseteq Node
  BY DEF IInv, TypeOK
<1>2. /\ PartitionCounts \subseteq Nat \ {0} /\ ReplicationFactors \subseteq Nat \ {0}
      /\ Node \subseteq Nat \ {Nobody}
  BY ClusterAssumption
<1>3. AreInitialized <=> partitions # 0 /\ replicationFactor # 0
  BY DEF AreInitialized
<1>4. AreInitialized => partitions \in PartitionCounts /\ replicationFactor \in ReplicationFactors
  BY <1>1, <1>3
<1>5. ASSUME AreInitialized PROVE partitions \in Nat /\ partitions > 0 /\ replicationFactor \in Nat
  <2>1. partitions \in PartitionCounts /\ replicationFactor \in ReplicationFactors
    BY <1>4, <1>5
  <2> QED BY <1>2, <2>1
<1>6. Members \subseteq Nat /\ Nobody \notin Members
  BY <1>1, <1>2
<1> QED BY <1>1, <1>5, <1>6

LEMMA TokensAreFinite ==
  ASSUME NEW P \in Nat
  PROVE  Tokens(P) \subseteq Nat /\ IsFiniteSet(Tokens(P)) /\ Cardinality(Tokens(P)) = P
<1>1. IsFiniteSet(0..(P - 1)) /\ Cardinality(0..(P - 1)) = IF 0 > P - 1 THEN 0 ELSE (P - 1) - 0 + 1
  BY FS_Interval
<1> QED BY <1>1 DEF Tokens

\* What was just assigned has the shares and is all or nothing.
LEMMA AssignedWell ==
  ASSUME IInv', FewNodes', partitions' = 0 \/ partitions' \in PartitionCounts,
         AreInitialized' => NewAssignment(Tokens(partitions'), Members', capacity', tokens')
  PROVE  SharesAssigned' /\ AllOrNothing'
<1>1. CASE ~AreInitialized'
  BY <1>1 DEF IInv, TypeOK, SharesAssigned, AllOrNothing
<1>2. CASE AreInitialized'
  <2> DEFINE P == partitions'
             D == Members'
             A == {m \in D : capacity'[m] # 0}
             new == tokens'
  <2>1. P \in Nat /\ DOMAIN new = Tokens(P) /\ Cardinality(Tokens(P)) = P
    <3>1. P \in Nat
      <4>1. P \in PartitionCounts
        BY <1>2 DEF AreInitialized
      <4> QED BY <4>1, ClusterAssumption
    <3>2. DOMAIN new = Tokens(P)
      BY <1>2 DEF IInv, TypeOK
    <3> HIDE DEF P
    <3> QED BY <3>1, <3>2, TokensAreFinite
  <2>2. NewAssignment(Tokens(P), D, capacity', new)
    BY <1>2
  <2>3. AvailableMembers' = A
    BY DEF AvailableMembers
  <2>4. Cardinality(D) <= Cardinality(D \cup removed') /\ Cardinality(D) \in Nat /\ Cardinality(D \cup removed') \in Nat
    <3>1. IsFiniteSet(D) /\ IsFiniteSet(removed')
      BY DEF FewNodes
    <3> HIDE DEF D
    <3>2. IsFiniteSet(D \cup removed') /\ D \in SUBSET (D \cup removed')
      BY <3>1, FS_Union
    <3> QED BY <3>1, <3>2, FS_Subset, FS_CardinalityType
  <2>5. \A n \in D : nodeTokens'[n] = Share(new, n)
    BY DEF IInv, TokensAgree, Share
  <2>6. AllOrNothing'
    BY <2>1, <2>2 DEF NewAssignment, AllOrNothing
  <2>7. ASSUME A # {}, Cardinality(D \cup removed') <= P
        PROVE  /\ \A t \in DOMAIN new : new[t] \in A
               /\ \A n \in A : Cardinality(nodeTokens'[n]) >= TokenCountFloor(P, Cardinality(A))
    <3>1. Cardinality(D) <= Cardinality(Tokens(P))
      BY <2>1, <2>4, <2>7
    <3> HIDE DEF P, D, new
    <3>2. /\ \A t \in Tokens(P) : new[t] \in D /\ capacity'[new[t]] # 0
          /\ \A n \in D : capacity'[n] # 0 => Cardinality(Share(new, n)) >= TokenCountFloor(Cardinality(Tokens(P)), Cardinality(A))
      BY <2>2, <2>7, <3>1 DEF NewAssignment
    <3> QED BY <2>1, <2>5, <3>2
  <2>8. SharesAssigned'
    <3> HIDE DEF A
    <3> QED BY <2>3, <2>7 DEF SharesAssigned
  <2> QED BY <2>6, <2>8
<1> QED BY <1>1, <1>2

\* A ring and configurations of the members in cap that agree.
Agreed(cap, owner, has) ==
  /\ DOMAIN cap \subseteq Node /\ IsFiniteSet(DOMAIN cap)
  /\ owner \in [DOMAIN owner -> DOMAIN cap \cup {Nobody}]
  /\ \A n \in DOMAIN cap : has[n] = {t \in DOMAIN owner : owner[t] = n}

\* The ring and what Local is told after assignTokens.
LEMMA ReassignIs ==
  ASSUME lagging = FALSE, NEW P \in Nat, NEW cap, NEW owner, NEW has, NEW rf,
         Agreed(cap, owner, has), DOMAIN owner = Tokens(P), Reassign(cap, owner, has, rf)
  PROVE  /\ NewAssignment(Tokens(P), DOMAIN cap, cap, tokens')
         /\ told = OwnedBy(Local, owner, rf) => told' = OwnedBy(Local, tokens', rf)
<1> DEFINE new == AssignTokens(cap, has, owner)
           D == DOMAIN cap
           T == Tokens(P)
<1>1. AssignEach(cap, owner, has, new) /\ DiffOwned(owner, tokens', rf)
  BY Zenon DEF Reassign
<1>2. NewAssignment(T, D, cap, new)
  <2>1. T \subseteq Nat /\ IsFiniteSet(T)
    BY TokensAreFinite
  <2>2. /\ owner \in [T -> D \cup {Nobody}] /\ IsFiniteSet(D) /\ D \subseteq Nat /\ Nobody \notin D
        /\ \A n \in D : has[n] = {t \in T : owner[t] = n}
    BY ClusterAssumption DEF Agreed
  <2> QED BY <2>1, <2>2, AssignTokensIs
<1> HIDE DEF new
<1>3. tokens' = new
  <2>1. new \in [T -> D \cup {Nobody}]
    BY <1>2 DEF NewAssignment
  <2>2. tokens' = [t \in DOMAIN owner |-> IF t \in DOMAIN new /\ new[t] \in DOMAIN cap \cup {Nobody}
                                          THEN new[t] ELSE owner[t]]
    BY <1>1, Zenon DEF AssignEach
  <2> QED BY <2>1, <2>2
<1>4. told' = (told \ (OwnedBy(Local, owner, rf) \ OwnedBy(Local, tokens', rf)))
                \cup (OwnedBy(Local, tokens', rf) \ OwnedBy(Local, owner, rf))
  BY <1>1, Zenon DEF DiffOwned
<1>5. told = OwnedBy(Local, owner, rf) => told' = OwnedBy(Local, tokens', rf)
  BY <1>4
<1> QED BY <1>2, <1>3, <1>5

\* The same when nothing is assigned before the settings have been made.
LEMMA ReassignTells ==
  ASSUME SharesInv, NEW cap, NEW owner, NEW has, Agreed(cap, owner, has), DOMAIN owner = DOMAIN tokens,
         ReassignIfInitialized(cap, owner, has)
  PROVE  /\ AreInitialized => NewAssignment(Tokens(partitions), DOMAIN cap, cap, tokens')
         /\ RingIsFunction'
         /\ Local \notin removed /\ (AreInitialized => OwnedBy(Local, owner, replicationFactor) = told) =>
              told' = OwnedBy(Local, tokens', replicationFactor)
<1>1. IInv /\ lagging = FALSE
  BY DEF SharesInv, IInv
<1>2. CASE AreInitialized
  <2>1. Reassign(cap, owner, has, replicationFactor)
    BY <1>2, Zenon DEF ReassignIfInitialized
  <2>2. partitions \in Nat /\ DOMAIN owner = Tokens(partitions)
    BY <1>1, <1>2, RingIs
  <2>3. /\ NewAssignment(Tokens(partitions), DOMAIN cap, cap, tokens')
        /\ told = OwnedBy(Local, owner, replicationFactor) => told' = OwnedBy(Local, tokens', replicationFactor)
    BY <1>1, <2>1, <2>2, ReassignIs
  <2>4. RingIsFunction'
    BY <2>3 DEF RingIsFunction, NewAssignment
  <2> QED BY <1>2, <2>3, <2>4
<1>3. CASE ~AreInitialized
  <2>1. tokens' = owner /\ told' = told
    BY <1>3, Zenon DEF ReassignIfInitialized
  <2>2. DOMAIN tokens = {} /\ DOMAIN owner = {}
    BY <1>1, <1>3, RingIs
  <2>3. OwnedBy(Local, tokens, replicationFactor) = {} /\ OwnedBy(Local, owner, replicationFactor) = {}
    BY <2>2, EmptyRing, Zenon
  <2>4. Local \notin removed => told = {}
    BY <2>3 DEF SharesInv, TellsLocal
  <2>5. RingIsFunction'
    BY <2>1 DEF RingIsFunction, Agreed
  <2> QED BY <1>3, <2>1, <2>3, <2>4, <2>5
<1> QED BY <1>2, <1>3

\* A command that ends with assignTokens.
LEMMA AfterReassign ==
  ASSUME SharesInv, IInv', FewNodes', UNCHANGED <<partitions, replicationFactor>>,
         NEW owner, NEW has, Agreed(capacity', owner, has), DOMAIN owner = DOMAIN tokens,
         ReassignIfInitialized(capacity', owner, has),
         Local \notin removed' =>
           /\ Local \notin removed
           /\ AreInitialized => OwnedBy(Local, owner, replicationFactor) = OwnedBy(Local, tokens, replicationFactor)
           /\ HeldBy(Local, nodeReplicas') = HeldBy(Local, nodeReplicas),
         toldHeld' = toldHeld
  PROVE  SharesInv'
<1> DEFINE cap == capacity'
<1>1. Agreed(cap, owner, has) /\ ReassignIfInitialized(cap, owner, has) /\ DOMAIN cap = Members'
  BY DEF Members
<1> HIDE DEF cap
<1>2. /\ AreInitialized => NewAssignment(Tokens(partitions), DOMAIN cap, cap, tokens')
      /\ RingIsFunction'
      /\ Local \notin removed /\ (AreInitialized => OwnedBy(Local, owner, replicationFactor) = told) =>
           told' = OwnedBy(Local, tokens', replicationFactor)
  BY <1>1, ReassignTells
<1>3. AreInitialized' <=> AreInitialized
  BY DEF AreInitialized
<1>4. partitions' = 0 \/ partitions' \in PartitionCounts
  BY DEF IInv, TypeOK
<1>5. AreInitialized' => NewAssignment(Tokens(partitions'), Members', capacity', tokens')
  BY <1>1, <1>2, <1>3 DEF cap
<1>6. SharesAssigned' /\ AllOrNothing'
  BY <1>4, <1>5, AssignedWell
<1>7. TellsLocal'
  <2> SUFFICES ASSUME Local \notin removed'
               PROVE  /\ told' = OwnedBy(Local, tokens', replicationFactor')
                      /\ toldHeld' = HeldBy(Local, nodeReplicas')
    BY DEF TellsLocal
  <2>1. told = OwnedBy(Local, tokens, replicationFactor) /\ toldHeld = HeldBy(Local, nodeReplicas)
    BY DEF SharesInv, TellsLocal
  <2>2. told' = OwnedBy(Local, tokens', replicationFactor)
    BY <1>2, <2>1
  <2> QED BY <2>1, <2>2
<1> QED BY <1>2, <1>6, <1>7 DEF SharesInv

\* One lemma per command, from here to SettingsAssign.
LEMMA UpdateNodeConfigAssigns ==
  ASSUME SharesInv, NEW n \in Node, NEW c \in Capacities, UpdateNodeConfig(n, c)
  PROVE  SharesInv'
<1>0. IInv
  BY DEF SharesInv
<1>1. IInv'
  BY <1>0, UpdateNodeConfigStep
<1>2. Members' = Members
  BY DEF UpdateNodeConfig, Members
<1>3. UNCHANGED <<partitions, replicationFactor, removed, nodeReplicas, toldHeld>>
  BY DEF UpdateNodeConfig, settings
<1>4. FewNodes'
  BY <1>2, <1>3 DEF SharesInv, FewNodes
<1>5. Agreed(capacity', tokens, nodeTokens)
  <2>1. DOMAIN capacity' = Members
    BY <1>2 DEF Members
  <2>2. Members \subseteq Node /\ IsFiniteSet(Members)
    BY <1>0, RingIs DEF SharesInv, FewNodes
  <2>3. tokens \in [DOMAIN tokens -> Members \cup {Nobody}]
    BY DEF SharesInv, IInv, TokensAgree, RingIsFunction
  <2>4. \A m \in Members : nodeTokens[m] = {t \in DOMAIN tokens : tokens[t] = m}
    BY DEF SharesInv, IInv, TokensAgree
  <2> QED BY <2>1, <2>2, <2>3, <2>4 DEF Agreed
<1>6. ReassignIfInitialized(capacity', tokens, nodeTokens)
  BY DEF UpdateNodeConfig
<1> QED BY <1>1, <1>3, <1>4, <1>5, <1>6, AfterReassign

LEMMA AddNodeAssigns ==
  ASSUME SharesInv, NEW n \in Node, NEW c \in Capacities, AddNode(n, c)
  PROVE  SharesInv'
<1> DEFINE has == With(nodeTokens, n, {})
<1>0. IInv
  BY DEF SharesInv
<1>1. IInv'
  BY <1>0, AddNodeStep
<1>2. Members' = Members \cup {n} /\ n \notin Members /\ n \notin removed /\ n # Nobody
  BY ClusterAssumption DEF AddNode, Members, With
<1>3. UNCHANGED <<partitions, replicationFactor, removed, toldHeld>>
  BY DEF AddNode, settings
<1>4. FewNodes'
  <2>1. IsFiniteSet(Members \cup {n})
    BY FS_AddElement DEF SharesInv, FewNodes
  <2> QED BY <1>2, <1>3, <2>1 DEF SharesInv, FewNodes
<1>5. Agreed(capacity', tokens, has)
  <2>1. DOMAIN capacity' = Members \cup {n}
    BY <1>2 DEF Members
  <2>2. Members \cup {n} \subseteq Node /\ IsFiniteSet(Members \cup {n})
    BY <1>0, <1>2, <1>4, RingIs DEF FewNodes
  <2>3. tokens \in [DOMAIN tokens -> Members \cup {n} \cup {Nobody}]
    BY DEF SharesInv, IInv, TokensAgree, RingIsFunction
  <2>4. \A m \in Members : nodeTokens[m] = {t \in DOMAIN tokens : tokens[t] = m}
    BY DEF SharesInv, IInv, TokensAgree
  <2>5. has[n] = {} /\ \A m \in Members : has[m] = nodeTokens[m]
    BY <1>0, <1>2 DEF With, IInv, TypeOK
  <2>6. {t \in DOMAIN tokens : tokens[t] = n} = {}
    BY <1>2 DEF SharesInv, IInv, TokensAgree
  <2> HIDE DEF has
  <2>7. \A m \in Members \cup {n} : has[m] = {t \in DOMAIN tokens : tokens[t] = m}
    BY <2>4, <2>5, <2>6
  <2> QED BY <2>1, <2>2, <2>3, <2>7 DEF Agreed
<1>6. ReassignIfInitialized(capacity', tokens, has)
  BY DEF AddNode
<1>7. HeldBy(Local, nodeReplicas') = HeldBy(Local, nodeReplicas)
  <2>1. nodeReplicas' = With(nodeReplicas, n, {}) /\ DOMAIN nodeReplicas = Members
    BY <1>0 DEF AddNode, IInv, TypeOK
  <2> QED BY <1>2, <2>1 DEF HeldBy, With
<1> HIDE DEF has
<1> QED BY <1>1, <1>3, <1>4, <1>5, <1>6, <1>7, AfterReassign

\* The tokens of the node that leaves are released before they are assigned:
\* Local compares with a ring that has holes.
LEMMA RemoveNodeAssigns ==
  ASSUME SharesInv, NEW n \in Node, RemoveNode(n)
  PROVE  SharesInv'
<1> DEFINE owner == ReleasedTokens(n)
           has == Without(nodeTokens, n)
<1>0. IInv
  BY DEF SharesInv
<1>1. IInv'
  BY <1>0, RemoveNodeStep
<1>2. n \in Members /\ Members' = Members \ {n} /\ removed' = removed \cup {n}
  BY DEF RemoveNode, ReleaseReplicas, Members, Without
<1>3. UNCHANGED <<partitions, replicationFactor, toldHeld>>
  BY DEF RemoveNode, settings
<1>4. FewNodes'
  <2>1. IsFiniteSet(Members \ {n}) /\ IsFiniteSet(removed \cup {n})
    BY FS_RemoveElement, FS_AddElement DEF SharesInv, FewNodes
  <2> QED BY <1>2, <2>1 DEF SharesInv, FewNodes
<1>5. \A m \in Members : m # Nobody /\ nodeTokens[m] = {t \in DOMAIN tokens : tokens[t] = m}
  BY <1>0, RingIs DEF IInv, TokensAgree
<1>6. /\ DOMAIN owner = DOMAIN tokens
      /\ \A t \in DOMAIN tokens : owner[t] = IF tokens[t] = n THEN Nobody ELSE tokens[t]
  BY <1>2, <1>5 DEF ReleasedTokens
<1>7. Agreed(capacity', owner, has)
  <2>1. DOMAIN capacity' = Members \ {n}
    BY <1>2 DEF Members
  <2>2. Members \ {n} \subseteq Node /\ IsFiniteSet(Members \ {n})
    BY <1>0, <1>2, <1>4, RingIs DEF FewNodes
  <2>3. owner = [t \in DOMAIN owner |-> owner[t]]
    BY <1>6 DEF ReleasedTokens
  <2>4. \A m \in Members \ {n} : has[m] = nodeTokens[m]
    BY <1>0 DEF Without, IInv, TypeOK
  <2> HIDE DEF has, owner
  <2>5. \A t \in DOMAIN owner : owner[t] \in (Members \ {n}) \cup {Nobody}
    BY <1>0, <1>6 DEF IInv, TokensAgree
  <2>6. owner \in [DOMAIN owner -> (Members \ {n}) \cup {Nobody}]
    BY <2>3, <2>5
  <2>7. ASSUME NEW m \in Members \ {n} PROVE has[m] = {t \in DOMAIN owner : owner[t] = m}
    BY <1>5, <1>6, <2>4
  <2> QED BY <2>1, <2>2, <2>6, <2>7 DEF Agreed
<1>8. ReassignIfInitialized(capacity', owner, has)
  BY DEF RemoveNode
<1>9. ASSUME Local \notin removed', AreInitialized
      PROVE  OwnedBy(Local, owner, replicationFactor) = OwnedBy(Local, tokens, replicationFactor)
  <2> DEFINE P == partitions
             rf == replicationFactor
  <2>1. P \in Nat /\ P > 0 /\ rf \in Nat /\ DOMAIN tokens = Tokens(P)
    BY <1>0, <1>9, RingIs
  <2>2. Local # n /\ Local # Nobody
    BY <1>2, <1>9, ClusterAssumption
  <2> HIDE DEF P, rf, owner
  <2>3. CASE \A t \in DOMAIN tokens : tokens[t] = Nobody
    <3>1. (\A t \in Tokens(P) : tokens[t] # Local) /\ \A t \in Tokens(P) : owner[t] # Local
      BY <1>6, <2>1, <2>2, <2>3
    <3>2. OwnedBy(Local, owner, rf) = {} /\ OwnedBy(Local, tokens, rf) = {}
      BY <1>6, <2>1, <3>1, NoTokensNoReplicas
    <3> QED BY <3>2 DEF rf
  <2>4. CASE \A t \in DOMAIN tokens : tokens[t] \in Members
    <3>1. \A t \in Tokens(P) : tokens[t] # Nobody /\ owner[t] = IF tokens[t] = n THEN Nobody ELSE tokens[t]
      BY <1>5, <1>6, <2>1, <2>4
    <3>2. OwnedBy(Local, owner, rf) = OwnedBy(Local, tokens, rf)
      BY <1>6, <2>1, <2>2, <3>1, ReleaseKeepsOwned
    <3> QED BY <3>2 DEF rf
  <2> QED BY <2>3, <2>4 DEF SharesInv, AllOrNothing
<1>10. Local \notin removed' => HeldBy(Local, nodeReplicas') = HeldBy(Local, nodeReplicas)
  <2>1. nodeReplicas' = Without(nodeReplicas, n)
    BY DEF RemoveNode, ReleaseReplicas
  <2> QED BY <1>2, <2>1 DEF HeldBy, Without
<1> HIDE DEF has, owner
<1> QED BY <1>1, <1>2, <1>3, <1>4, <1>6, <1>7, <1>8, <1>9, <1>10, AfterReassign

\* The replacement had no tokens: as long as everybody has a share, it was not
\* to stay, and it takes the place of the node that leaves.
LEMMA ReplaceNodeShares ==
  ASSUME SharesInv, NEW n \in Members, NEW m \in Members \ {n}, nodeTokens[m] = {},
         Members' = Members \ {n}, removed' = removed \cup {n}, UNCHANGED <<partitions, replicationFactor>>,
         \A k \in Members \ {n} : capacity'[k] = IF k = m THEN capacity[n] ELSE capacity[k],
         DOMAIN tokens' = DOMAIN tokens,
         \A t \in DOMAIN tokens : tokens'[t] = IF tokens[t] = n THEN m ELSE tokens[t],
         \A k \in Members \ {n} : nodeTokens'[k] = IF k = m THEN nodeTokens[n] ELSE nodeTokens[k]
  PROVE  SharesAssigned'
<1> DEFINE A == AvailableMembers
           B == AvailableMembers'
           all == Members \cup removed
           P == partitions
           floor == TokenCountFloor(P, Cardinality(A))
<1>1. AreInitialized' = AreInitialized
  BY DEF AreInitialized
<1>2. A = {k \in Members : capacity[k] # 0} /\ B = {k \in Members \ {n} : capacity'[k] # 0}
  BY DEF AvailableMembers
<1>3. \A k : k \in B <=> (k \in A /\ k # n /\ k # m) \/ (k = m /\ n \in A)
  BY <1>2
<1> SUFFICES ASSUME AreInitialized, B # {}, Cardinality(all) <= P
             PROVE  /\ \A t \in DOMAIN tokens : tokens'[t] \in B
                    /\ \A k \in B : Cardinality(nodeTokens'[k]) >= TokenCountFloor(P, Cardinality(B))
  <2>1. Members' \cup removed' = all
    OBVIOUS
  <2> HIDE DEF all, B, A
  <2> QED BY <1>1, <2>1 DEF SharesAssigned, B
<1> HIDE DEF A, B
<1>4. A # {}
  BY <1>3
<1>5. /\ \A t \in DOMAIN tokens : tokens[t] \in A
      /\ \A k \in A : Cardinality(nodeTokens[k]) >= floor
  BY <1>4 DEF SharesInv, SharesAssigned, A
<1>6. IsFiniteSet(A) /\ Cardinality(A) \in Nat /\ Cardinality(A) > 0 /\ Cardinality(A) <= P /\ P \in Nat
  <2>1. IsFiniteSet(all) /\ A \in SUBSET all
    BY <1>2, FS_Union DEF SharesInv, FewNodes
  <2> HIDE DEF all
  <2>2. IsFiniteSet(A) /\ Cardinality(A) <= Cardinality(all)
    BY <2>1, FS_Subset, Zenon
  <2>3. Cardinality(A) \in Nat /\ Cardinality(all) \in Nat /\ Cardinality(A) # 0
    BY <1>4, <2>1, <2>2, FS_CardinalityType, FS_EmptySet
  <2>4. P \in Nat
    BY RingIs DEF SharesInv
  <2> QED BY <2>2, <2>3, <2>4
<1>7. floor > 0 /\ floor \in Nat
  <2> HIDE DEF P
  <2> QED BY <1>6, FloorAndCeiling
<1>8. m \notin A
  <2>1. Cardinality(nodeTokens[m]) = 0
    BY FS_EmptySet
  <2> HIDE DEF floor
  <2> QED BY <1>5, <1>7, <2>1
<1>9. Cardinality(B) = Cardinality(A)
  <2>1. CASE n \in A
    <3>1. B = (A \ {n}) \cup {m} /\ m \notin A \ {n}
      BY <1>3, <1>8, <2>1
    <3>2. IsFiniteSet(A \ {n}) /\ Cardinality(A \ {n}) = Cardinality(A) - 1
      BY <1>6, <2>1, FS_RemoveElement
    <3>3. Cardinality((A \ {n}) \cup {m}) = Cardinality(A \ {n}) + 1
      BY <3>1, <3>2, FS_AddElement
    <3> QED BY <1>6, <3>1, <3>2, <3>3
  <2>2. CASE n \notin A
    <3>1. B = A
      BY <1>3, <1>8, <2>2
    <3> QED BY <3>1
  <2> QED BY <2>1, <2>2
<1>10. \A t \in DOMAIN tokens : tokens'[t] \in B
  BY <1>3, <1>5, <1>8
<1>11. \A k \in B : Cardinality(nodeTokens'[k]) >= floor
  <2>1. \A k \in B : k \in Members \ {n}
    BY <1>2, <1>3
  <2> HIDE DEF floor
  <2> QED BY <1>3, <1>5, <2>1
<1> QED BY <1>9, <1>10, <1>11

LEMMA ReplaceNodeAssigns ==
  ASSUME SharesInv, NEW n \in Node, NEW m \in Node, ReplaceNode(n, m)
  PROVE  SharesInv'
<1>0. IInv
  BY DEF SharesInv
<1>1. IInv'
  BY <1>0, ReplaceNodeStep
<1>2. /\ n \in Members /\ m \in Members \ {n} /\ nodeTokens[m] = {}
      /\ removed' = removed \cup {n} /\ nodeReplicas' = Without(nodeReplicas, n)
      /\ capacity' = Without([capacity EXCEPT ![m] = capacity[n]], n)
      /\ tokens' = [t \in DOMAIN tokens |-> IF t \in nodeTokens[n] THEN m ELSE tokens[t]]
      /\ nodeTokens' = Without([nodeTokens EXCEPT ![m] = nodeTokens[n]], n)
      /\ UNCHANGED <<partitions, replicationFactor, toldHeld>>
  BY DEF ReplaceNode, ReleaseReplicas, settings
<1>3. Members' = Members \ {n}
  BY <1>2 DEF Members, Without
<1>4. \A k \in Members \ {n} : capacity'[k] = IF k = m THEN capacity[n] ELSE capacity[k]
  BY <1>2 DEF Members, Without
<1>5. \A k \in Members \ {n} : nodeTokens'[k] = IF k = m THEN nodeTokens[n] ELSE nodeTokens[k]
  BY <1>0, <1>2 DEF Without, IInv, TypeOK
<1>6. /\ DOMAIN tokens' = DOMAIN tokens
      /\ \A t \in DOMAIN tokens : tokens'[t] = IF tokens[t] = n THEN m ELSE tokens[t]
  BY <1>0, <1>2 DEF IInv, TokensAgree
<1>7. FewNodes'
  <2>1. IsFiniteSet(Members \ {n}) /\ IsFiniteSet(removed \cup {n})
    BY FS_RemoveElement, FS_AddElement DEF SharesInv, FewNodes
  <2> QED BY <1>2, <1>3, <2>1 DEF SharesInv, FewNodes
<1>8. RingIsFunction'
  BY <1>2 DEF RingIsFunction
<1>9. AllOrNothing'
  <2>1. n # Nobody
    BY ClusterAssumption
  <2> QED BY <1>2, <1>3, <1>6, <2>1 DEF SharesInv, AllOrNothing
<1>10. SharesAssigned'
  <2>1. UNCHANGED <<partitions, replicationFactor>>
    BY <1>2
  <2> QED BY <1>2, <1>3, <1>4, <1>5, <1>6, <2>1, ReplaceNodeShares
<1>11. TellsLocal'
  <2> SUFFICES ASSUME Local \notin removed'
               PROVE  /\ told' = OwnedBy(Local, tokens', replicationFactor')
                      /\ toldHeld' = HeldBy(Local, nodeReplicas')
    BY DEF TellsLocal
  <2>1. /\ told = OwnedBy(Local, tokens, replicationFactor) /\ toldHeld = HeldBy(Local, nodeReplicas)
        /\ Local # n /\ replicationFactor' = replicationFactor /\ lagging = FALSE
    BY <1>2 DEF SharesInv, IInv, TellsLocal
  <2>2. HeldBy(Local, nodeReplicas') = HeldBy(Local, nodeReplicas)
    BY <1>2, <2>1 DEF HeldBy, Without
  <2>3. CASE AreInitialized
    <3>1. told' = (told \ (OwnedBy(Local, tokens, replicationFactor) \ OwnedBy(Local, tokens', replicationFactor)))
                    \cup (OwnedBy(Local, tokens', replicationFactor) \ OwnedBy(Local, tokens, replicationFactor))
      BY <2>1, <2>3, Zenon DEF ReplaceNode, DiffOwned
    <3> QED BY <1>2, <2>1, <2>2, <3>1
  <2>4. CASE ~AreInitialized
    <3>1. told' = told
      BY <2>4 DEF ReplaceNode
    <3>2. DOMAIN tokens = {} /\ DOMAIN tokens' = {}
      BY <1>0, <1>6, <2>4, RingIs
    <3>3. OwnedBy(Local, tokens, replicationFactor) = {} /\ OwnedBy(Local, tokens', replicationFactor) = {}
      BY <3>2, EmptyRing, Zenon
    <3> QED BY <1>2, <2>1, <2>2, <3>1, <3>3
  <2> QED BY <2>3, <2>4
<1> QED BY <1>1, <1>7, <1>8, <1>9, <1>10, <1>11 DEF SharesInv

LEMMA TakePartitionReplicaAssigns ==
  ASSUME SharesInv, NEW p \in Tokens(partitions), NEW r \in 0..replicationFactor, NEW n \in Node,
         TakePartitionReplica(p, r, n)
  PROVE  SharesInv'
<1>0. IInv
  BY DEF SharesInv
<1>1. IInv'
  BY <1>0, TakePartitionReplicaStep
<1>2. UNCHANGED <<capacity, removed, partitions, replicationFactor, tokens, nodeTokens, told>>
  BY DEF TakePartitionReplica, settings
<1>3. Members' = Members /\ AreInitialized' = AreInitialized /\ AvailableMembers' = AvailableMembers
  BY <1>2 DEF Members, AreInitialized, AvailableMembers
<1>4. FewNodes' /\ RingIsFunction' /\ AllOrNothing' /\ SharesAssigned'
  BY <1>2, <1>3 DEF SharesInv, FewNodes, RingIsFunction, AllOrNothing, SharesAssigned
<1>5. TellsLocal'
  <2> SUFFICES ASSUME Local \notin removed
               PROVE  /\ told' = OwnedBy(Local, tokens', replicationFactor')
                      /\ toldHeld' = HeldBy(Local, nodeReplicas')
    BY <1>2 DEF TellsLocal
  <2>1. /\ told = OwnedBy(Local, tokens, replicationFactor) /\ toldHeld = HeldBy(Local, nodeReplicas)
        /\ lagging = FALSE
    BY DEF SharesInv, IInv, TellsLocal
  <2> DEFINE was == HeldBy(Local, nodeReplicas)
             is == HeldBy(Local, nodeReplicas')
  <2>2. \/ DiffHeld(was, is)
        \/ nodeReplicas' = nodeReplicas /\ toldHeld' = toldHeld
    BY Zenon DEF TakePartitionReplica
  <2>3. CASE nodeReplicas' = nodeReplicas /\ toldHeld' = toldHeld
    BY <1>2, <2>1, <2>3
  <2>4. CASE DiffHeld(was, is)
    <3>1. toldHeld' = (toldHeld \ (was \ is)) \cup (is \ was)
      BY <2>1, <2>4, Zenon DEF DiffHeld
    <3> HIDE DEF was, is
    <3>2. toldHeld' = is
      BY <2>1, <3>1 DEF was
    <3> QED BY <1>2, <2>1, <3>2 DEF is
  <2> QED BY <2>2, <2>3, <2>4
<1> QED BY <1>1, <1>4, <1>5 DEF SharesInv

\* The second setting makes a ring without owners and assigns it.
LEMMA SettingsAssign ==
  ASSUME SharesInv, partitions = 0 \/ replicationFactor = 0,
         partitions' \in {0} \cup PartitionCounts, replicationFactor' \in {0} \cup ReplicationFactors,
         InitializeClusterIfReady,
         UNCHANGED <<capacity, removed, nodeReplicas, toldHeld, lagging>>
  PROVE  SharesInv'
<1>0. IInv /\ ~AreInitialized
  BY DEF SharesInv, AreInitialized
<1>1. IInv'
  BY <1>0, SettingsStep
<1>2. /\ Members' = Members /\ lagging = FALSE /\ DOMAIN tokens = {}
      /\ FewNodes' /\ IsFiniteSet(Members) /\ Members \subseteq Node
      /\ \A m \in Members : nodeTokens[m] = {}
  BY <1>0, RingIs DEF SharesInv, IInv, TokensAgree, FewNodes, Members
<1>3. AreInitialized' <=> partitions' # 0 /\ replicationFactor' # 0
  BY DEF AreInitialized
<1>4. Local \notin removed => told = {} /\ toldHeld = HeldBy(Local, nodeReplicas)
  <2>1. OwnedBy(Local, tokens, replicationFactor) = {}
    BY <1>2, EmptyRing, Zenon
  <2> QED BY <2>1 DEF SharesInv, TellsLocal
<1>5. partitions' = 0 \/ partitions' \in PartitionCounts
  OBVIOUS
<1>6. CASE AreInitialized'
  <2> DEFINE P == partitions'
             rf == replicationFactor'
             owner == [t \in Tokens(P) |-> Nobody]
  <2>1. Reassign(capacity, owner, nodeTokens, rf)
    BY <1>3, <1>6, Zenon DEF InitializeClusterIfReady
  <2>2. P \in Nat /\ P > 0 /\ rf \in Nat
    <3>1. P \in PartitionCounts /\ rf \in ReplicationFactors
      BY <1>3, <1>6
    <3> QED BY <3>1, ClusterAssumption
  <2>3. DOMAIN owner = Tokens(P) /\ owner \in [Tokens(P) -> {Nobody}]
    OBVIOUS
  <2> HIDE DEF owner, P, rf
  <2>4. Agreed(capacity, owner, nodeTokens)
    <3>1. DOMAIN capacity = Members /\ \A m \in Members : m # Nobody
      BY <1>2, ClusterAssumption DEF Members
    <3>2. owner \in [DOMAIN owner -> Members \cup {Nobody}]
      BY <2>3
    <3>3. \A m \in Members : nodeTokens[m] = {t \in DOMAIN owner : owner[t] = m}
      BY <1>2, <2>3, <3>1
    <3> QED BY <1>2, <3>1, <3>2, <3>3 DEF Agreed
  <2>5. /\ NewAssignment(Tokens(P), DOMAIN capacity, capacity, tokens')
        /\ told = OwnedBy(Local, owner, rf) => told' = OwnedBy(Local, tokens', rf)
    BY <1>2, <2>1, <2>2, <2>3, <2>4, ReassignIs
  <2>6. NewAssignment(Tokens(P), Members', capacity', tokens')
    BY <1>2, <2>5 DEF Members
  <2>7. SharesAssigned' /\ AllOrNothing'
    BY <1>1, <1>2, <1>5, <2>6, AssignedWell DEF P
  <2>8. RingIsFunction'
    BY <2>6 DEF RingIsFunction, NewAssignment
  <2>9. OwnedBy(Local, owner, rf) = {}
    <3>1. \A t \in Tokens(P) : owner[t] # Local
      BY <2>3, ClusterAssumption
    <3> QED BY <2>2, <2>3, <3>1, NoTokensNoReplicas
  <2>10. TellsLocal'
    BY <1>4, <2>5, <2>9 DEF TellsLocal, rf
  <2> QED BY <1>1, <1>2, <2>7, <2>8, <2>10 DEF SharesInv
<1>7. CASE ~AreInitialized'
  <2>1. UNCHANGED <<tokens, told>>
    BY <1>3, <1>7, Zenon DEF InitializeClusterIfReady
  <2>2. SharesAssigned' /\ AllOrNothing'
    BY <1>1, <1>2, <1>5, <1>7, AssignedWell
  <2>3. RingIsFunction'
    BY <2>1 DEF SharesInv, RingIsFunction
  <2>4. TellsLocal'
    <3>1. OwnedBy(Local, tokens', replicationFactor') = {}
      BY <1>2, <2>1, EmptyRing
    <3> QED BY <1>4, <2>1, <3>1 DEF TellsLocal
  <2> QED BY <1>1, <1>2, <2>2, <2>3, <2>4 DEF SharesInv
<1> QED BY <1>6, <1>7
-----------------------------------------------------------------------------
LEMMA InitSharesInv == Init => SharesInv
<1> SUFFICES ASSUME Init PROVE SharesInv
  OBVIOUS
<1>1. IInv
  BY InitIInv
<1>2. \A f : f = <<>> => DOMAIN f = {} /\ f = [t \in DOMAIN f |-> f[t]]
  OBVIOUS
<1>3. Members = {} /\ DOMAIN tokens = {} /\ RingIsFunction /\ DOMAIN nodeReplicas = {}
  BY <1>2, Zenon DEF Init, Members, RingIsFunction
<1>4. removed = {} /\ told = {} /\ toldHeld = {} /\ partitions = 0
  BY DEF Init
<1>5. FewNodes
  BY <1>3, <1>4, FS_EmptySet DEF FewNodes
<1>6. AllOrNothing /\ SharesAssigned
  BY <1>3, <1>4 DEF AllOrNothing, SharesAssigned, AreInitialized
<1>7. TellsLocal
  <2>1. OwnedBy(Local, tokens, replicationFactor) = {}
    BY <1>3, EmptyRing, Zenon
  <2>2. HeldBy(Local, nodeReplicas) = {}
    BY <1>3 DEF HeldBy
  <2> QED BY <1>4, <2>1, <2>2 DEF TellsLocal
<1> QED BY <1>1, <1>3, <1>5, <1>6, <1>7 DEF SharesInv

LEMMA StepSharesInv == SharesInv /\ [Step]_vars => SharesInv'
<1> SUFFICES ASSUME SharesInv, [Step]_vars PROVE SharesInv'
  OBVIOUS
<1>1. ASSUME NEW n \in Node, NEW c \in Capacities, UpdateNodeConfig(n, c) \/ AddNode(n, c) PROVE SharesInv'
  BY <1>1, UpdateNodeConfigAssigns, AddNodeAssigns
<1>2. ASSUME NEW n \in Node, RemoveNode(n) PROVE SharesInv'
  BY <1>2, RemoveNodeAssigns
<1>3. ASSUME NEW n \in Node, NEW m \in Node, ReplaceNode(n, m) PROVE SharesInv'
  BY <1>3, ReplaceNodeAssigns
<1>4. ASSUME NEW p \in Tokens(partitions) \cap Wanted, NEW r \in 0..replicationFactor, NEW n \in Node,
             TakePartitionReplica(p, r, n)
      PROVE  SharesInv'
  BY <1>4, TakePartitionReplicaAssigns
<1>5. ASSUME NEW k \in ReplicationFactors, SetReplicationFactor(k) PROVE SharesInv'
  <2>1. /\ replicationFactor = 0 /\ replicationFactor' = k /\ partitions' = partitions
        /\ InitializeClusterIfReady /\ UNCHANGED <<capacity, removed, nodeReplicas, toldHeld, lagging>>
    BY <1>5, Zenon DEF SetReplicationFactor
  <2>2. partitions' \in {0} \cup PartitionCounts /\ replicationFactor' \in {0} \cup ReplicationFactors
    BY <2>1 DEF SharesInv, IInv, TypeOK
  <2> QED BY <2>1, <2>2, SettingsAssign
<1>6. ASSUME NEW k \in PartitionCounts, SetPartitionCount(k) PROVE SharesInv'
  <2>1. /\ partitions = 0 /\ partitions' = k /\ replicationFactor' = replicationFactor
        /\ InitializeClusterIfReady /\ UNCHANGED <<capacity, removed, nodeReplicas, toldHeld, lagging>>
    BY <1>6, Zenon DEF SetPartitionCount
  <2>2. partitions' \in {0} \cup PartitionCounts /\ replicationFactor' \in {0} \cup ReplicationFactors
    BY <2>1 DEF SharesInv, IInv, TypeOK
  <2> QED BY <2>1, <2>2, SettingsAssign
<1>7. CASE UNCHANGED vars
  <2>1. UNCHANGED <<capacity, removed, partitions, replicationFactor, tokens, nodeTokens, nodeReplicas, told, toldHeld>>
    BY <1>7 DEF vars, state, derived, settings
  <2>2. IInv'
    BY <1>7, StepIInv DEF SharesInv
  <2>3. Members' = Members /\ AreInitialized' = AreInitialized /\ AvailableMembers' = AvailableMembers
    BY <2>1 DEF Members, AreInitialized, AvailableMembers
  <2> QED BY <2>1, <2>2, <2>3 DEF SharesInv, FewNodes, RingIsFunction, AllOrNothing, SharesAssigned, TellsLocal
<1> QED BY <1>1, <1>2, <1>3, <1>4, <1>5, <1>6, <1>7, Zenon DEF Step

\* The inductive invariant: without AllOrNothing a removed node could leave holes in
\* the ring that Local has not been told of.
LEMMA InductiveShares == Spec => []SharesInv
BY InitSharesInv, StepSharesInv, PTL DEF Spec

\* As long as there have not been more nodes than partitions, every token is at
\* a member that stays and every member that stays has at least its share, of
\* whatever members, capacities and partitions (AssignTokens).
THEOREM SharesStayAssigned == Spec => []SharesAssigned
BY InductiveShares, PTL DEF SharesInv

\* A member that acts upon every delta knows what it owns and what it holds
\* (assignTokens, ClusterController.Step).
THEOREM LocalStaysTold == Spec => []LocalNodeTold
<1>1. SharesInv => LocalNodeTold
  BY DEF SharesInv, FewNodes, TellsLocal, LocalNodeTold, HeldBy, IInv, TypeOK
<1> QED BY <1>1, InductiveShares, PTL
=============================================================================
