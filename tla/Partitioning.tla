----------------------------- MODULE Partitioning -----------------------------
(***************************************************************************)
(* SimplePartitioningStrategy (cluster/partitioner.go): which node is      *)
(* given which tokens of the ring, and which nodes own the replicas of a   *)
(* partition. A token assignment is a function on 0..(partitions - 1) and  *)
(* gives 0 for a token nobody owns; capacity maps the nodes of the cluster *)
(* to their capacities, 0 for a node that is being decommissioned; has     *)
(* maps them to the sets of tokens recorded in their configurations.       *)
(***************************************************************************)
EXTENDS Integers, SequencesExt

Nobody == 0
Tokens(partitions) == 0..(partitions - 1)

\* The elements of a set of numbers in ascending order.
Sorted(S) == [i \in 1..Cardinality(S) |-> CHOOSE x \in S : Cardinality({y \in S : y < x}) = i - 1]

\* The nodes that are considered: all of them in the order of their IDs,
\* except that there must not be more nodes than partitions.
Considered(capacity, partitions) ==
  LET ns == Sorted(DOMAIN capacity)
  IN  SubSeq(ns, 1, Min({Len(ns), partitions}))

Available(ns, capacity) == {n \in ToSet(ns) : capacity[n] # 0}

TokenCountFloor(partitions, available) == partitions \div available
TokenCountCeil(partitions, available) ==
  (partitions \div available) + (IF partitions % available # 0 THEN 1 ELSE 0)

Give(a, t, from, to) ==
  [a EXCEPT !.owner[t] = to,
            !.count = [n \in DOMAIN @ |-> @[n] + (IF n = to THEN 1 ELSE 0) - (IF n = from THEN 1 ELSE 0)]]

\* Tokens of decommissioned nodes are released.
ReleaseDecommissioned(ns, capacity, has, owner) ==
  LET gone == {n \in ToSet(ns) : capacity[n] = 0}
  IN  [owner |-> [t \in DOMAIN owner |-> IF \E n \in gone : t \in has[n] THEN Nobody ELSE owner[t]],
       count |-> [n \in ToSet(ns) |-> IF n \in gone THEN 0 ELSE Cardinality(has[n])],
       next  |-> 1]

\* Unplaced tokens go round robin to nodes that have less than the ceiling.
PlaceAnywhere(ns, capacity, ceil, start) ==
  LET place(a, t) == IF a.owner[t] # Nobody THEN a
                     ELSE [Give(a, t, Nobody, ns[a.next]) EXCEPT !.next = (a.next % Len(ns)) + 1]
  IN  FoldLeft(place, start, Sorted(DOMAIN start.owner))
PlaceUnplaced(ns, capacity, ceil, start) ==
  LET turn(a, i) == ((a.next - 1 + i) % Len(ns)) + 1
      fits(a) == {i \in 0..(Len(ns) - 1) : LET n == ns[turn(a, i)] IN capacity[n] # 0 /\ a.count[n] < ceil}
      place(a, t) ==
        IF a.owner[t] # Nobody \/ fits(a) = {} THEN a
        ELSE LET j == turn(a, Min(fits(a)))
             IN  [Give(a, t, Nobody, ns[j]) EXCEPT !.next = (j % Len(ns)) + 1]
  IN  FoldLeft(place, start, Sorted(DOMAIN start.owner))

\* Pass 1: node n takes tokens of nodes with more than the floor, leaving
\* gaps between the tokens it takes. A token whose owner is not considered
\* is accounted to the first node.
TakeSpread(ns, floor, n, start) ==
  LET partitions == Cardinality(DOMAIN start.owner)
      every == partitions \div floor
      skip == IF every > 1 THEN every - 1 ELSE every
      account(a, t) == IF a.owner[t] \in ToSet(ns) THEN a.owner[t] ELSE ns[1]
      take(a, t) ==
        IF t < a.next \/ a.count[n] >= floor \/ a.count[account(a, t)] <= floor THEN a
        ELSE [Give(a, t, account(a, t), n) EXCEPT !.next = t + skip + 1]
  IN  FoldLeft(take, [start EXCEPT !.next = 0], Sorted(DOMAIN start.owner))

\* Pass 2: node n takes all that another node has above the floor, from one
\* node after another until it has enough itself.
TakeSurplus(ns, floor, n, start) ==
  LET surplus(a, m) == {t \in DOMAIN a.owner : a.owner[t] = m}
      strip(a, m) ==
        IF m = n \/ a.count[n] >= floor \/ a.count[m] <= floor THEN a
        ELSE LET mine == Sorted(surplus(a, m))
                 taken == SubSeq(mine, 1, Min({Len(mine), a.count[m] - floor}))
             IN  FoldLeft(LAMBDA b, t : Give(b, t, m, n), a, taken)
  IN  FoldLeft(strip, start, ns)

Level(ns, capacity, floor, start) ==
  LET serve(a, n) == IF capacity[n] = 0 THEN a
                     ELSE TakeSurplus(ns, floor, n, TakeSpread(ns, floor, n, a))
  IN  FoldLeft(serve, start, ns)

\* The new assignment. The old one must only name nodes of the cluster.
AssignTokens(capacity, has, owner) ==
  LET partitions == Cardinality(DOMAIN owner)
      ns == Considered(capacity, partitions)
      available == Cardinality(Available(ns, capacity))
      floor == TokenCountFloor(partitions, available)
  IN  CASE \E t \in DOMAIN owner : owner[t] \notin DOMAIN capacity \cup {Nobody} -> owner
        [] available = 0 -> [t \in DOMAIN owner |-> Nobody]
        [] OTHER -> Level(ns, capacity, floor,
                          PlaceUnplaced(ns, capacity, TokenCountCeil(partitions, available),
                                        ReleaseDecommissioned(ns, capacity, has, owner))).owner

\* The owners of the replicas of a partition: the first nodes met on the way
\* round the ring from the partition's token. They repeat if there are fewer
\* of them than replicas. A token that nobody owns counts as one of node 0.
Owners(owner, partition, replicationFactor) ==
  LET size == Cardinality(DOMAIN owner)
      at(i) == owner[(partition + i) % size]
      firsts == Sorted({i \in 0..(size - 1) : \A j \in 0..(i - 1) : at(j) # at(i)})
      distinct == Min({Len(firsts), replicationFactor})
  IN  IF partition \notin DOMAIN owner THEN <<>>
      ELSE [r \in 1..replicationFactor |-> at(firsts[((r - 1) % distinct) + 1])]
=============================================================================
