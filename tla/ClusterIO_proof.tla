---------------------------- MODULE ClusterIO_proof ----------------------------
(***************************************************************************)
(* Proofs about ClusterIO, for any cluster, replica sets and operations.   *)
(***************************************************************************)
EXTENDS ClusterIO, FiniteSetTheorems, TLAPS

Reads == {"get", "matches"}

OpType ==
  [ phase : {"idle", "batching", "collecting", "stuck", "ended"},
    client : {"none", "waiting", "iterating", "ok", "ENoQuorum"} \cup Refusals,
    left : SUBSET Nodes, need : Nat, call : [Nodes -> {"none", "sent", "done"} \cup Answers],
    applied : Nat, error : {"none", "ENoQuorum"} \cup Refusals, patch : SUBSET Dots,
    value : [Nodes -> SUBSET Dots], seen : SUBSET Nodes, keys : BOOLEAN, result : SUBSET Dots,
    count : Nat, due : SUBSET Dots, open : BOOLEAN ]

TypeInv ==
  /\ replicas \in SUBSET Nodes /\ plan \in Plans /\ noSite \in SUBSET Nodes
  /\ store \in [Nodes -> SUBSET Dots]
  /\ op \in [Ops -> OpType]
  /\ late \in SUBSET (Ops \X Nodes \X Writes)
  /\ repair \in [Ops -> [Nodes -> SUBSET Dots]]
  /\ stopped \in BOOLEAN /\ settled \in SUBSET Dots

\* The replicas in R that store all of S.
Holding(R, S, st) == {n \in R : S \subseteq st[n]}

\* The node that ran the batch counts before merge() starts.
Base(kind) == IF kind = "batch" THEN 1 ELSE 0

\* What is true of every operation: no call is counted before it was answered.
Counted(r, R) ==
  /\ r.applied <= Cardinality({n \in R : r.call[n] = "done"})
  /\ r.seen \subseteq {n \in R : r.call[n] = "done"}
  /\ r.left \subseteq R /\ \A n \in Nodes : r.call[n] # "none" => n \in R
  /\ r.phase = "idle" => /\ r.client = "none" /\ r.applied = 0 /\ r.count = 0
                         /\ r.seen = {} /\ r.patch = {} /\ \A n \in Nodes : r.call[n] = "none"

\* Batch has asked the nodes that are not left, one after the other.
Batching(o, r, st) ==
  /\ r.client = "waiting" /\ r.applied = 0 /\ r.count = 0 /\ r.seen = {}
  /\ \A n \in Nodes : r.call[n] # "none" => n \notin r.left
  /\ \A n \in Nodes : r.call[n] = "ok" => <<o, n>> \in st[n]

\* merge() counts replicas that have the patch and are not waited for any more.
Merging(kind, r, R, st) ==
  /\ r.need + Base(kind) = NQuorum(Cardinality(R))
  /\ \A n \in Nodes : r.call[n] = "ok" => r.patch \subseteq st[n]
  /\ r.applied + Base(kind) <= Cardinality({n \in Holding(R, r.patch, st) : r.call[n] \in {"none", "done"}})
  /\ IF r.client = "waiting" THEN r.count = Base(kind)
     ELSE r.applied >= r.need \/ \A n \in Nodes : r.call[n] = "none"

WriteSound(o, kind, r, R, st) ==
  /\ r.phase = "batching" => kind = "batch" /\ Batching(o, r, st)
  /\ r.phase = "collecting" => Merging(kind, r, R, st)
  /\ r.count = 0 \/ r.count <= Cardinality(Holding(R, r.patch, st))
  /\ r.client # "iterating" /\ (r.client = "ok" => r.count >= NQuorum(Cardinality(R)))

\* The replicas that still can or did return d to a read, given those counted.
Witnesses(r, R, st, counted, d) ==
  {n \in R : d \in st[n] /\ (r.call[n] = "ok" \/ n \in counted => d \in r.value[n])}

\* The replicas that a read counts have returned all they had when it began.
ReadCount(r, R, st) ==
  \E counted \in SUBSET R :
     /\ \A n \in counted : r.call[n] = "done" /\ (n \in r.seen \/ r.value[n] = {})
     /\ Cardinality(counted) = r.applied
     /\ \A d \in r.due : Cardinality(Witnesses(r, R, st, counted, d)) >= NQuorum(Cardinality(R))

ReadSound(r, R, st) ==
  /\ r.phase # "batching"
  /\ \A n \in Nodes : r.value[n] \subseteq st[n]
  /\ r.phase = "collecting" => ReadCount(r, R, st)
  /\ r.client = "iterating" => r.due \subseteq Merged(r) /\ (r.due # {} => r.keys)
  /\ r.client = "ok" => r.due \subseteq r.result

OpSound(o, kind, r, R, st) ==
  /\ Counted(r, R)
  /\ IF kind \in Writes THEN WriteSound(o, kind, r, R, st) ELSE r.count = 0 /\ r.phase # "batching"
  /\ kind \in Reads => ReadSound(r, R, st)

IInv ==
  /\ TypeInv
  /\ \A o \in Ops : OpSound(o, plan[o], op[o], replicas, store)
  /\ SettledAtQuorum
-----------------------------------------------------------------------------
(* Counting replicas *)

LEMMA CardSubset ==
  ASSUME NEW R, IsFiniteSet(R), NEW S \in SUBSET R, NEW T \in SUBSET S
  PROVE  /\ IsFiniteSet(S) /\ IsFiniteSet(T)
         /\ Cardinality(S) \in Nat /\ Cardinality(T) \in Nat
         /\ Cardinality(T) <= Cardinality(S)
<1>1. IsFiniteSet(S)
  BY FS_Subset
<1>2. IsFiniteSet(T) /\ Cardinality(T) <= Cardinality(S)
  BY <1>1, FS_Subset
<1> QED BY <1>1, <1>2, FS_CardinalityType

\* Any two quorums of the replicas have a replica in common.
LEMMA QuorumsMeet ==
  ASSUME NEW R, IsFiniteSet(R), NEW S \in SUBSET R, NEW T \in SUBSET R,
         Cardinality(S) >= NQuorum(Cardinality(R)), Cardinality(T) >= NQuorum(Cardinality(R))
  PROVE  S \cap T # {}
<1>1. /\ IsFiniteSet(S) /\ IsFiniteSet(T) /\ Cardinality(R) \in Nat
      /\ Cardinality(S) \in Nat /\ Cardinality(T) \in Nat
  BY CardSubset, FS_CardinalityType
<1>2. Cardinality(S \cup T) = Cardinality(S) + Cardinality(T) - Cardinality(S \cap T)
  BY <1>1, FS_Union
<1>3. Cardinality(S \cup T) <= Cardinality(R)
  BY FS_Subset
<1>4. Cardinality(S) + Cardinality(T) > Cardinality(R)
  <2>1. \A c \in Nat : 2 * NQuorum(c) > c /\ NQuorum(c) \in Nat
    BY DEF NQuorum
  <2> QED BY <1>1, <2>1
<1>5. Cardinality(S \cap T) # 0
  <2>1. Cardinality(S \cap T) \in Nat
    BY CardSubset
  <2> QED BY <1>1, <1>2, <1>3, <1>4, <2>1
<1> QED BY <1>5, FS_EmptySet

LEMMA CardAdded ==
  ASSUME NEW R, IsFiniteSet(R), NEW S \in SUBSET R, NEW T \in SUBSET R, NEW n \in T, n \notin S, S \subseteq T
  PROVE  Cardinality(S) + 1 <= Cardinality(T)
<1>1. S \cup {n} \in SUBSET T /\ IsFiniteSet(S)
  BY CardSubset
<1>2. Cardinality(S \cup {n}) = Cardinality(S) + 1
  BY <1>1, FS_AddElement
<1>3. Cardinality(S \cup {n}) <= Cardinality(T)
  BY <1>1, CardSubset
<1> QED BY <1>2, <1>3

LEMMA QuorumIs ==
  ASSUME TypeInv
  PROVE  /\ IsFiniteSet(replicas) /\ Cardinality(replicas) \in Nat
         /\ Quorum = NQuorum(Cardinality(replicas)) /\ Quorum \in Nat /\ Quorum >= 1
<1>1. IsFiniteSet(replicas)
  BY NodesAssumption, FS_Subset DEF TypeInv
<1>2. Cardinality(replicas) \in Nat
  BY <1>1, FS_CardinalityType
<1>3. \A c \in Nat : NQuorum(c) \in Nat /\ NQuorum(c) >= 1
  BY DEF NQuorum
<1> QED BY <1>1, <1>2, <1>3 DEF Quorum

-----------------------------------------------------------------------------
(* Stores only grow *)

LEMMA GrownSound ==
  ASSUME NEW o, NEW kind, NEW r \in OpType, NEW R \in SUBSET Nodes,
         NEW st, NEW st2, \A n \in Nodes : st[n] \subseteq st2[n], OpSound(o, kind, r, R, st)
  PROVE  OpSound(o, kind, r, R, st2)
<1>1. IsFiniteSet(R)
  BY NodesAssumption, FS_Subset
<1>2. Counted(r, R)
  BY DEF OpSound
<1>3. /\ Cardinality(Holding(R, r.patch, st)) <= Cardinality(Holding(R, r.patch, st2))
      /\ Cardinality(Holding(R, r.patch, st)) \in Nat /\ Cardinality(Holding(R, r.patch, st2)) \in Nat
  <2>1. Holding(R, r.patch, st) \subseteq Holding(R, r.patch, st2) /\ Holding(R, r.patch, st2) \subseteq R
    BY DEF Holding
  <2> QED BY <1>1, <2>1, CardSubset
<1>4. ASSUME kind \in Writes PROVE WriteSound(o, kind, r, R, st2)
  <2>1. WriteSound(o, kind, r, R, st)
    BY <1>4 DEF OpSound
  <2>2. ASSUME r.phase = "collecting" PROVE Merging(kind, r, R, st2)
    <3> DEFINE X == {n \in Holding(R, r.patch, st) : r.call[n] \in {"none", "done"}}
               Y == {n \in Holding(R, r.patch, st2) : r.call[n] \in {"none", "done"}}
    <3>1. Merging(kind, r, R, st)
      BY <2>1, <2>2 DEF WriteSound
    <3>2. X \subseteq Y /\ Y \subseteq R
      BY DEF Holding
    <3>3. Cardinality(X) <= Cardinality(Y) /\ Cardinality(X) \in Nat /\ Cardinality(Y) \in Nat
      <4> HIDE DEF X, Y
      <4> QED BY <1>1, <3>2, CardSubset
    <3>4. r.applied + Base(kind) <= Cardinality(X)
      BY <3>1 DEF Merging
    <3>5. r.applied + Base(kind) \in Nat
      BY DEF OpType, Base
    <3>6. r.applied + Base(kind) <= Cardinality(Y)
      <4> HIDE DEF X, Y
      <4> QED BY <3>3, <3>4, <3>5
    <3>7. \A n \in Nodes : r.call[n] = "ok" => r.patch \subseteq st2[n]
      BY <3>1 DEF Merging
    <3> QED BY <3>1, <3>6, <3>7 DEF Merging
  <2>3. r.phase = "batching" => kind = "batch" /\ Batching(o, r, st2)
    BY <2>1 DEF WriteSound, Batching
  <2>4. r.count = 0 \/ r.count <= Cardinality(Holding(R, r.patch, st2))
    BY <1>3, <2>1 DEF WriteSound, OpType
  <2> QED BY <2>1, <2>2, <2>3, <2>4 DEF WriteSound
<1>5. ASSUME kind \in Reads PROVE ReadSound(r, R, st2)
  <2>1. ReadSound(r, R, st)
    BY <1>5 DEF OpSound
  <2>2. ASSUME r.phase = "collecting" PROVE ReadCount(r, R, st2)
    <3>1. PICK counted \in SUBSET R :
             /\ \A n \in counted : r.call[n] = "done" /\ (n \in r.seen \/ r.value[n] = {})
             /\ Cardinality(counted) = r.applied
             /\ \A d \in r.due : Cardinality(Witnesses(r, R, st, counted, d)) >= NQuorum(Cardinality(R))
      BY <2>1, <2>2 DEF ReadSound, ReadCount
    <3>2. ASSUME NEW d \in r.due
          PROVE  Cardinality(Witnesses(r, R, st2, counted, d)) >= NQuorum(Cardinality(R))
      <4>1. Witnesses(r, R, st, counted, d) \subseteq Witnesses(r, R, st2, counted, d)
            /\ Witnesses(r, R, st2, counted, d) \subseteq R
        BY DEF Witnesses
      <4>2. Cardinality(Witnesses(r, R, st, counted, d)) <= Cardinality(Witnesses(r, R, st2, counted, d))
            /\ Cardinality(Witnesses(r, R, st, counted, d)) \in Nat
            /\ Cardinality(Witnesses(r, R, st2, counted, d)) \in Nat
        BY <1>1, <4>1, CardSubset
      <4>3. NQuorum(Cardinality(R)) \in Nat
        BY <1>1, FS_CardinalityType DEF NQuorum
      <4> QED BY <3>1, <4>2, <4>3
    <3> QED BY <3>1, <3>2 DEF ReadCount
  <2>3. \A n \in Nodes : r.value[n] \subseteq st2[n]
    BY <2>1 DEF ReadSound
  <2> QED BY <2>1, <2>2, <2>3 DEF ReadSound
<1> QED BY <1>2, <1>4, <1>5 DEF OpSound

\* A step of operation o after which its record is r.
LEMMA StepKeeps ==
  ASSUME IInv, UNCHANGED <<replicas, plan, noSite>>,
         store' \in [Nodes -> SUBSET Dots], \A n \in Nodes : store[n] \subseteq store'[n],
         NEW o \in Ops, NEW r \in OpType, op' = [op EXCEPT ![o] = r],
         OpSound(o, plan[o], r, replicas, store'),
         late' \in SUBSET (Ops \X Nodes \X Writes), repair' \in [Ops -> [Nodes -> SUBSET Dots]],
         stopped' \in BOOLEAN, settled' \in SUBSET Dots,
         \A d \in settled' \ settled : Cardinality(Holding(replicas, {d}, store')) >= Quorum
  PROVE  IInv'
<1>1. TypeInv'
  BY DEF IInv, TypeInv
<1>2. ASSUME NEW p \in Ops PROVE OpSound(p, plan[p], op'[p], replicas, store')
  <2>1. CASE p = o
    BY <2>1 DEF IInv, TypeInv
  <2>2. CASE p # o
    <3>1. op'[p] = op[p] /\ op[p] \in OpType /\ OpSound(p, plan[p], op[p], replicas, store)
      BY <2>2 DEF IInv, TypeInv
    <3>2. replicas \in SUBSET Nodes
      BY DEF IInv, TypeInv
    <3> QED BY <3>1, <3>2, GrownSound
  <2> QED BY <2>1, <2>2
<1>3. ASSUME NEW d \in settled' PROVE Cardinality(Holding(replicas, {d}, store')) >= Quorum
  <2>1. CASE d \in settled
    <3>1. Cardinality(Holding(replicas, {d}, store)) >= Quorum
      BY <2>1 DEF IInv, SettledAtQuorum, Copies, Holding
    <3>2. Holding(replicas, {d}, store) \subseteq Holding(replicas, {d}, store')
          /\ Holding(replicas, {d}, store') \subseteq replicas
      BY DEF Holding, IInv, TypeInv
    <3>3. Cardinality(Holding(replicas, {d}, store)) <= Cardinality(Holding(replicas, {d}, store'))
          /\ Cardinality(Holding(replicas, {d}, store)) \in Nat
          /\ Cardinality(Holding(replicas, {d}, store')) \in Nat
      BY <3>2, QuorumIs, CardSubset DEF IInv
    <3> QED BY <3>1, <3>3, QuorumIs DEF IInv
  <2> QED BY <2>1
<1>4. SettledAtQuorum'
  BY <1>3 DEF SettledAtQuorum, Copies, Holding, Quorum
<1> QED BY <1>1, <1>2, <1>4 DEF IInv
\* A step of operation o that changes nothing else.
LEMMA OpKeeps ==
  ASSUME IInv, UNCHANGED <<replicas, plan, noSite, store, late, repair, stopped, settled>>,
         NEW o \in Ops, NEW r \in OpType, op' = [op EXCEPT ![o] = r],
         OpSound(o, plan[o], r, replicas, store)
  PROVE  IInv'
<1>1. TypeInv
  BY DEF IInv
<1> QED BY <1>1, StepKeeps DEF TypeInv

LEMMA InitInv == Init => IInv
<1> SUFFICES ASSUME Init PROVE IInv
  OBVIOUS
<1>1. NewOp \in OpType
  BY DEF NewOp, OpType, Refusals
<1>2. TypeInv
  <2>1. <<0, Local>> \in Dots
    BY NodesAssumption DEF Dots
  <2> QED BY <1>1, <2>1, PlansAssumption DEF Init, TypeInv
<1>3. ASSUME NEW o \in Ops PROVE OpSound(o, plan[o], op[o], replicas, store)
  <2>1. op[o] = NewOp
    BY DEF Init
  <2>2. Cardinality({n \in replicas : NewOp.call[n] = "done"}) \in Nat
    <3>1. IsFiniteSet(replicas)
      BY <1>2, QuorumIs
    <3> QED BY <3>1, CardSubset
  <2>3. Counted(NewOp, replicas)
    BY <2>2 DEF Counted, NewOp
  <2>4. \A n \in Nodes : NewOp.value[n] = {}
    BY DEF NewOp
  <2> QED BY <2>1, <2>3, <2>4 DEF OpSound, WriteSound, ReadSound, NewOp
<1> QED BY <1>2, <1>3 DEF IInv, SettledAtQuorum, Init

-----------------------------------------------------------------------------
(* Starting an operation *)

LEMMA StartBatchInv ==
  ASSUME IInv, NEW o \in Ops, StartBatch(o)
  PROVE  IInv'
<1> DEFINE r == [op[o] EXCEPT !.phase = "batching", !.client = "waiting", !.open = TRUE, !.left = replicas]
<1>1. op[o] \in OpType /\ OpSound(o, plan[o], op[o], replicas, store) /\ op[o].phase = "idle"
      /\ replicas \in SUBSET Nodes
  BY DEF IInv, TypeInv, StartBatch, Started
<1>2. /\ r.phase = "batching" /\ r.client = "waiting" /\ r.left = replicas
      /\ r.applied = op[o].applied /\ r.count = op[o].count /\ r.call = op[o].call
      /\ r.seen = op[o].seen /\ r.patch = op[o].patch
  BY <1>1 DEF OpType
<1>3. r \in OpType
  BY <1>1 DEF OpType
<1>4. op' = [op EXCEPT ![o] = r]
  BY DEF StartBatch
<1> HIDE DEF r
<1>5. Counted(r, replicas) /\ r.applied = 0 /\ r.count = 0 /\ r.seen = {} /\ \A n \in Nodes : r.call[n] = "none"
  BY <1>1, <1>2 DEF OpSound, Counted
<1>6. OpSound(o, plan[o], r, replicas, store)
  BY <1>2, <1>5 DEF OpSound, WriteSound, Batching, StartBatch, Reads, Writes
<1> QED BY <1>3, <1>4, <1>6, OpKeeps DEF StartBatch

LEMMA CallsIs ==
  ASSUME NEW S \in SUBSET Nodes
  PROVE  /\ Calls(S) \in [Nodes -> {"none", "sent", "done"} \cup Answers]
         /\ \A n \in Nodes : Calls(S)[n] = IF n \in S THEN "sent" ELSE "none"
BY DEF Calls

\* merge() starts: m is what MergePhase makes of the operation's record r.
MergeRecord(m, r, S, k, patch) ==
  /\ m \in OpType
  /\ m.phase = "collecting" /\ m.left = S /\ m.need = k /\ m.patch = patch /\ m.call = Calls(S)
  /\ m.client = (IF S # {} THEN "waiting" ELSE IF k = 0 THEN "ok" ELSE r.error)
  /\ m.applied = r.applied /\ m.count = r.count /\ m.seen = r.seen /\ m.value = r.value

LEMMA MergePhaseIs ==
  ASSUME NEW r \in OpType, NEW S \in SUBSET Nodes, NEW k \in Nat, NEW patch \in SUBSET Dots
  PROVE  MergeRecord(MergePhase(r, S, k, patch), r, S, k, patch)
<1> DEFINE c == IF S # {} THEN "waiting" ELSE IF k = 0 THEN "ok" ELSE r.error
           m == [r EXCEPT !.phase = "collecting", !.left = S, !.need = k, !.patch = patch, !.call = Calls(S),
                          !.client = c]
<1>1. c \in {"none", "waiting", "iterating", "ok", "ENoQuorum"} \cup Refusals
  BY DEF OpType
<1>2. Calls(S) \in [Nodes -> {"none", "sent", "done"} \cup Answers]
  BY CallsIs
<1>3. MergePhase(r, S, k, patch) = m
  BY DEF MergePhase
<1>4. c = (IF S # {} THEN "waiting" ELSE IF k = 0 THEN "ok" ELSE r.error)
  OBVIOUS
<1> HIDE DEF c
<1>5. m \in OpType
  BY <1>1, <1>2 DEF OpType
<1>6. /\ m.phase = "collecting" /\ m.left = S /\ m.need = k /\ m.patch = patch /\ m.call = Calls(S)
      /\ m.client = c
      /\ m.applied = r.applied /\ m.count = r.count /\ m.seen = r.seen /\ m.value = r.value
  BY DEF OpType
<1> HIDE DEF m
<1>7. MergeRecord(m, r, S, k, patch)
  BY <1>4, <1>5, <1>6 DEF MergeRecord
<1> QED BY <1>3, <1>7

LEMMA StartMergeInv ==
  ASSUME IInv, NEW o \in Ops, StartMerge(o)
  PROVE  IInv'
<1> DEFINE m == MergePhase(op[o], replicas, Quorum, {<<o, Local>>})
           r == [m EXCEPT !.open = TRUE]
           Have == {n \in Holding(replicas, {<<o, Local>>}, store) : Calls(replicas)[n] \in {"none", "done"}}
<1>1. /\ op[o] \in OpType /\ OpSound(o, plan[o], op[o], replicas, store) /\ op[o].phase = "idle"
      /\ replicas \in SUBSET Nodes /\ Quorum \in Nat /\ Quorum >= 1 /\ <<o, Local>> \in Dots
      /\ Quorum = NQuorum(Cardinality(replicas))
  BY QuorumIs, NodesAssumption DEF IInv, TypeInv, StartMerge, Started, Dots
<1>0. /\ m \in OpType
      /\ m.phase = "collecting" /\ m.left = replicas /\ m.need = Quorum /\ m.patch = {<<o, Local>>}
      /\ m.call = Calls(replicas)
      /\ m.client = (IF replicas # {} THEN "waiting" ELSE IF Quorum = 0 THEN "ok" ELSE op[o].error)
      /\ m.applied = op[o].applied /\ m.count = op[o].count /\ m.seen = op[o].seen
  <2>1. {<<o, Local>>} \in SUBSET Dots
    BY <1>1
  <2>2. MergeRecord(m, op[o], replicas, Quorum, {<<o, Local>>})
    BY <1>1, <2>1, MergePhaseIs
  <2> HIDE DEF m
  <2> QED BY <2>2 DEF MergeRecord
<1> HIDE DEF m
<1>2. /\ r.phase = "collecting" /\ r.left = replicas /\ r.need = Quorum /\ r.patch = {<<o, Local>>}
      /\ r.call = Calls(replicas) /\ r.client = (IF replicas # {} THEN "waiting" ELSE op[o].error)
      /\ r.applied = op[o].applied /\ r.count = op[o].count /\ r.seen = op[o].seen
  BY <1>0, <1>1 DEF OpType
<1>3. r \in OpType
  BY <1>0 DEF OpType
<1>4. op' = [op EXCEPT ![o] = r]
  BY DEF StartMerge, m
<1> HIDE DEF r
<1>5. r.applied = 0 /\ r.count = 0 /\ r.seen = {}
  BY <1>1, <1>2 DEF OpSound, Counted
<1>6. Cardinality({n \in replicas : r.call[n] = "done"}) \in Nat /\ Cardinality(Have) \in Nat
      /\ Cardinality(Holding(replicas, {<<o, Local>>}, store)) \in Nat
  <2>1. Have \in SUBSET replicas /\ Holding(replicas, {<<o, Local>>}, store) \in SUBSET replicas
        /\ {n \in replicas : r.call[n] = "done"} \in SUBSET replicas
    BY DEF Holding
  <2> HIDE DEF Have
  <2> QED BY <2>1, QuorumIs, CardSubset DEF IInv
<1>7. Counted(r, replicas)
  BY <1>1, <1>2, <1>5, <1>6, CallsIs DEF Counted
<1>8. Merging("merge", r, replicas, store)
  <2>1. r.client # "waiting" => \A n \in Nodes : r.call[n] = "none"
    BY <1>1, <1>2, CallsIs
  <2>2. Cardinality({n \in Holding(replicas, r.patch, store) : r.call[n] \in {"none", "done"}}) \in Nat
    BY <1>2, <1>6
  <2> QED BY <1>1, <1>2, <1>5, <2>1, <2>2, CallsIs DEF Merging, Base
<1>9. r.client # "ok" \/ r.client = op[o].error
  BY <1>2
<1>10. OpSound(o, plan[o], r, replicas, store)
  <2>1. r.client # "ok" /\ r.client # "iterating"
    BY <1>1, <1>2, <1>9 DEF OpType, Refusals
  <2>2. WriteSound(o, "merge", r, replicas, store)
    BY <1>2, <1>5, <1>8, <2>1 DEF WriteSound
  <2> QED BY <1>7, <2>2 DEF OpSound, StartMerge, Writes, Reads
<1> QED BY <1>3, <1>4, <1>10, OpKeeps DEF StartMerge

LEMMA StartReadInv ==
  ASSUME IInv, NEW o \in Ops, StartRead(o)
  PROVE  IInv'
<1> DEFINE r == [op[o] EXCEPT
              !.phase = "collecting", !.client = "waiting", !.open = TRUE,
              !.left = replicas, !.call = Calls(replicas), !.due = settled,
              !.error = IF plan[o] = "status" THEN "none" ELSE "ENoQuorum"]
<1>1. /\ op[o] \in OpType /\ OpSound(o, plan[o], op[o], replicas, store) /\ op[o].phase = "idle"
      /\ replicas \in SUBSET Nodes /\ settled \in SUBSET Dots
      /\ Quorum = NQuorum(Cardinality(replicas)) /\ IsFiniteSet(replicas)
  BY QuorumIs DEF IInv, TypeInv, StartRead, Started
<1>2. /\ r.phase = "collecting" /\ r.left = replicas /\ r.client = "waiting"
      /\ r.call = Calls(replicas) /\ r.due = settled /\ r.value = op[o].value
      /\ r.applied = op[o].applied /\ r.count = op[o].count /\ r.seen = op[o].seen
  BY <1>1 DEF OpType
<1>3. r \in OpType
  BY <1>1, CallsIs, ZenonT(60) DEF OpType
<1>4. op' = [op EXCEPT ![o] = r]
  BY DEF StartRead
<1> HIDE DEF r
<1>5. r.applied = 0 /\ r.count = 0 /\ r.seen = {}
  BY <1>1, <1>2 DEF OpSound, Counted
<1>6. Cardinality({n \in replicas : r.call[n] = "done"}) \in Nat
  BY <1>1, CardSubset
<1>7. Counted(r, replicas)
  BY <1>1, <1>2, <1>5, <1>6, CallsIs DEF Counted
<1>8. ReadCount(r, replicas, store)
  <2>1. ASSUME NEW d \in settled
        PROVE  Cardinality(Witnesses(r, replicas, store, {}, d)) >= NQuorum(Cardinality(replicas))
    <3>1. Witnesses(r, replicas, store, {}, d) = Copies({d})
      BY <1>1, <1>2, CallsIs DEF Witnesses, Copies
    <3> QED BY <1>1, <3>1 DEF IInv, SettledAtQuorum
  <2>2. Cardinality({}) = 0
    BY FS_EmptySet
  <2> QED BY <1>2, <1>5, <2>1, <2>2 DEF ReadCount
<1>9. plan[o] \in Reads => ReadSound(r, replicas, store)
  BY <1>1, <1>2, <1>8 DEF OpSound, ReadSound
<1>10. OpSound(o, plan[o], r, replicas, store)
  BY <1>2, <1>5, <1>7, <1>9 DEF OpSound, StartRead, Writes
<1> QED BY <1>3, <1>4, <1>10, OpKeeps DEF StartRead
-----------------------------------------------------------------------------
(* At the nodes *)

\* The record of an operation that got node n's answer.
AnswerOf(r, n, a, v) == [r EXCEPT !.call[n] = a, !.value[n] = v]

LEMMA AnswerIs ==
  ASSUME NEW r \in OpType, NEW n \in Nodes, NEW a \in Answers, NEW v \in SUBSET Dots,
         NEW m, m = AnswerOf(r, n, a, v)
  PROVE  /\ m \in OpType
         /\ m.phase = r.phase /\ m.client = r.client /\ m.left = r.left /\ m.need = r.need
         /\ m.applied = r.applied /\ m.patch = r.patch /\ m.seen = r.seen /\ m.keys = r.keys
         /\ m.result = r.result /\ m.count = r.count /\ m.due = r.due
         /\ m.call[n] = a /\ m.value[n] = v
         /\ \A k \in Nodes \ {n} : m.call[k] = r.call[k] /\ m.value[k] = r.value[k]
<1>1. m = [r EXCEPT !.call = [r.call EXCEPT ![n] = a], !.value = [r.value EXCEPT ![n] = v]]
  BY DEF AnswerOf, OpType
<1>2. [r.call EXCEPT ![n] = a] \in [Nodes -> {"none", "sent", "done"} \cup Answers]
      /\ [r.value EXCEPT ![n] = v] \in [Nodes -> SUBSET Dots]
  BY DEF OpType
<1>3. m \in OpType
  BY <1>1, <1>2 DEF OpType
<1>4. m.call = [r.call EXCEPT ![n] = a] /\ m.value = [r.value EXCEPT ![n] = v]
  BY <1>1 DEF OpType
<1>5. \A k \in Nodes : /\ m.call[k] = IF k = n THEN a ELSE r.call[k]
                       /\ m.value[k] = IF k = n THEN v ELSE r.value[k]
  BY <1>4 DEF OpType
<1> QED BY <1>1, <1>3, <1>5 DEF OpType

\* An answer that tells the truth about the node keeps what is true of the operation.
LEMMA AnsweredSound ==
  ASSUME NEW o, NEW kind, NEW r \in OpType, NEW R \in SUBSET Nodes, NEW st, OpSound(o, kind, r, R, st),
         NEW n \in Nodes, r.call[n] = "sent", NEW a \in Answers, NEW v \in SUBSET Dots,
         r.phase = "batching" /\ a = "ok" => <<o, n>> \in st[n],
         kind \in Writes /\ r.phase = "collecting" /\ a = "ok" => r.patch \subseteq st[n],
         kind \in Reads => v \subseteq st[n] /\ (a = "ok" => v = st[n])
  PROVE  OpSound(o, kind, AnswerOf(r, n, a, v), R, st)
<1> DEFINE m == AnswerOf(r, n, a, v)
<1>1. /\ m \in OpType
      /\ m.phase = r.phase /\ m.client = r.client /\ m.left = r.left /\ m.need = r.need
      /\ m.applied = r.applied /\ m.patch = r.patch /\ m.seen = r.seen /\ m.keys = r.keys
      /\ m.result = r.result /\ m.count = r.count /\ m.due = r.due
      /\ m.call[n] = a /\ m.value[n] = v
      /\ \A k \in Nodes \ {n} : m.call[k] = r.call[k] /\ m.value[k] = r.value[k]
  BY AnswerIs
<1> HIDE DEF m
<1>2. a \notin {"none", "sent", "done"}
  BY DEF Answers, Refusals
<1>3. {k \in R : m.call[k] = "done"} = {k \in R : r.call[k] = "done"}
  BY <1>1, <1>2
<1>4. Counted(m, R)
  BY <1>1, <1>2, <1>3 DEF OpSound, Counted
<1>5. ASSUME kind \in Writes PROVE WriteSound(o, kind, m, R, st)
  <2>1. WriteSound(o, kind, r, R, st)
    BY <1>5 DEF OpSound
  <2>2. ASSUME m.phase = "batching" PROVE kind = "batch" /\ Batching(o, m, st)
    BY <1>1, <1>2, <2>1, <2>2 DEF WriteSound, Batching
  <2>3. ASSUME m.phase = "collecting" PROVE Merging(kind, m, R, st)
    <3>1. Merging(kind, r, R, st)
      BY <1>1, <2>1, <2>3 DEF WriteSound
    <3>2. {k \in Holding(R, m.patch, st) : m.call[k] \in {"none", "done"}}
          = {k \in Holding(R, r.patch, st) : r.call[k] \in {"none", "done"}}
      BY <1>1, <1>2 DEF Holding
    <3>3. \A k \in Nodes : m.call[k] = "ok" => m.patch \subseteq st[k]
      BY <1>1, <1>5, <2>3, <3>1 DEF Merging
    <3>4. m.client # "waiting" => m.applied >= m.need
      BY <1>1, <3>1 DEF Merging
    <3> QED BY <1>1, <3>1, <3>2, <3>3, <3>4 DEF Merging
  <2> QED BY <1>1, <2>1, <2>2, <2>3 DEF WriteSound
<1>6. ASSUME kind \in Reads PROVE ReadSound(m, R, st)
  <2>1. ReadSound(r, R, st)
    BY <1>6 DEF OpSound
  <2>2. r.seen \subseteq Nodes \ {n} /\ Merged(m) = Merged(r)
    <3>1. r.seen \subseteq Nodes \ {n}
      BY <1>1 DEF OpSound, Counted
    <3>2. {m.value[k] : k \in m.seen} = {r.value[k] : k \in r.seen}
      BY <1>1, <3>1
    <3> QED BY <3>1, <3>2 DEF Merged
  <2>3. ASSUME m.phase = "collecting" PROVE ReadCount(m, R, st)
    <3>1. PICK counted \in SUBSET R :
             /\ \A k \in counted : r.call[k] = "done" /\ (k \in r.seen \/ r.value[k] = {})
             /\ Cardinality(counted) = r.applied
             /\ \A d \in r.due : Cardinality(Witnesses(r, R, st, counted, d)) >= NQuorum(Cardinality(R))
      BY <1>1, <2>1, <2>3 DEF ReadSound, ReadCount
    <3>2. n \notin counted
      BY <3>1
    <3>3. ASSUME NEW d PROVE Witnesses(m, R, st, counted, d) = Witnesses(r, R, st, counted, d)
      BY <1>1, <1>6, <3>2 DEF Witnesses
    <3>4. \A k \in counted : m.call[k] = "done" /\ (k \in m.seen \/ m.value[k] = {})
      BY <1>1, <3>1, <3>2
    <3> QED BY <1>1, <3>1, <3>3, <3>4 DEF ReadCount
  <2>4. \A k \in Nodes : m.value[k] \subseteq st[k]
    BY <1>1, <1>6, <2>1 DEF ReadSound
  <2> QED BY <1>1, <2>1, <2>2, <2>3, <2>4 DEF ReadSound
<1>7. OpSound(o, kind, m, R, st)
  BY <1>1, <1>4, <1>5, <1>6 DEF OpSound
<1> QED BY <1>7 DEF m

\* What holds of the store after node n handled a request.
Grown == store' \in [Nodes -> SUBSET Dots] /\ \A n \in Nodes : store[n] \subseteq store'[n]

LEMMA WithGrows ==
  ASSUME TypeInv, NEW n \in Nodes, NEW dots \in SUBSET Dots, store' = With(n, dots)
  PROVE  Grown /\ store'[n] = store[n] \cup dots
<1>1. store \in [Nodes -> SUBSET Dots]
  BY DEF TypeInv
<1>2. store[n] \cup dots \in SUBSET Dots
  BY <1>1
<1>3. store' = [store EXCEPT ![n] = store[n] \cup dots]
  BY DEF With
<1>4. \A k \in Nodes : store'[k] = IF k = n THEN store[n] \cup dots ELSE store[k]
  BY <1>1, <1>3
<1>5. store' \in [Nodes -> SUBSET Dots]
  BY <1>1, <1>2, <1>3
<1> QED BY <1>1, <1>4, <1>5 DEF Grown

LEMMA SameGrows ==
  ASSUME TypeInv, store' = store
  PROVE  Grown
BY DEF TypeInv, Grown

\* Node n answers the truth, and the step is one of operation o alone.
LEMMA AnsweredInv ==
  ASSUME IInv, NEW o \in Ops, NEW n \in Nodes, op[o].call[n] = "sent",
         NEW a \in Answers, NEW v \in SUBSET Dots, Answered(o, n, a, v), Grown,
         op[o].phase = "batching" /\ a = "ok" => <<o, n>> \in store'[n],
         plan[o] \in Writes /\ op[o].phase = "collecting" /\ a = "ok" => op[o].patch \subseteq store'[n],
         plan[o] \in Reads => v \subseteq store'[n] /\ (a = "ok" => v = store'[n])
  PROVE  IInv'
<1>1. op[o] \in OpType /\ OpSound(o, plan[o], op[o], replicas, store) /\ replicas \in SUBSET Nodes
      /\ op \in [Ops -> OpType]
  BY DEF IInv, TypeInv
<1>2. OpSound(o, plan[o], op[o], replicas, store')
  BY <1>1, GrownSound DEF Grown
<1> DEFINE m == AnswerOf(op[o], n, a, v)
<1>3. OpSound(o, plan[o], m, replicas, store')
  BY <1>1, <1>2, AnsweredSound
<1>4. m \in OpType
  BY <1>1, AnswerIs
<1>5. op' = [op EXCEPT ![o] = m]
  BY <1>1 DEF Answered, AnswerOf, OpType
<1> HIDE DEF m
<1>6. UNCHANGED <<replicas, plan, noSite, late, repair, stopped, settled>>
  BY DEF Answered
<1>7. late \in SUBSET (Ops \X Nodes \X Writes) /\ repair \in [Ops -> [Nodes -> SUBSET Dots]]
      /\ stopped \in BOOLEAN /\ settled \in SUBSET Dots
  BY DEF IInv, TypeInv
<1> QED BY <1>3, <1>4, <1>5, <1>6, <1>7, StepKeeps DEF Grown

LEMMA ServeInv ==
  ASSUME IInv, NEW o \in Ops, NEW n \in Nodes, Serve(o, n)
  PROVE  IInv'
<1>1. TypeInv /\ OpSound(o, plan[o], op[o], replicas, store) /\ op[o] \in OpType
      /\ store[n] \in SUBSET Dots
  BY DEF IInv, TypeInv
<1>2. CASE ServeBatch(o, n)
  <2>1. PICK answer \in Answers : NodeBatch(o, n, answer) /\ Answered(o, n, answer, {})
    BY <1>2 DEF ServeBatch
  <2>2. {<<o, n>>} \in SUBSET Dots
    BY DEF Dots
  <2>3. \/ store' = store /\ answer # "ok"
        \/ store' = With(n, {<<o, n>>})
    BY <2>1 DEF NodeBatch, Effects
  <2>4. Grown /\ (answer = "ok" => <<o, n>> \in store'[n])
    BY <1>1, <2>2, <2>3, WithGrows, SameGrows
  <2>5. op[o].call[n] = "sent" /\ op[o].phase = "batching" /\ plan[o] \notin Reads
    BY <1>1, <1>2 DEF ServeBatch, OpSound, ReadSound
  <2> QED BY <2>1, <2>4, <2>5, AnsweredInv
<1>3. CASE ServeMerge(o, n)
  <2>1. PICK answer \in Answers : NodeMerge(op[o].patch, n, answer) /\ Answered(o, n, answer, {})
    BY <1>3 DEF ServeMerge
  <2>2. op[o].patch \in SUBSET Dots
    BY <1>1 DEF OpType
  <2>3. \/ store' = store /\ answer # "ok"
        \/ store' = With(n, op[o].patch)
    BY <2>1 DEF NodeMerge, Effects
  <2>4. Grown /\ (answer = "ok" => op[o].patch \subseteq store'[n])
    BY <1>1, <2>2, <2>3, WithGrows, SameGrows
  <2>5. op[o].call[n] = "sent" /\ op[o].phase = "collecting" /\ plan[o] \notin Reads
    BY <1>3 DEF ServeMerge, Reads, Writes
  <2>6. /\ op[o].phase = "batching" /\ answer = "ok" => <<o, n>> \in store'[n]
        /\ plan[o] \in Writes /\ op[o].phase = "collecting" /\ answer = "ok" => op[o].patch \subseteq store'[n]
        /\ plan[o] \in Reads => {} \subseteq store'[n] /\ (answer = "ok" => {} = store'[n])
        /\ {} \in SUBSET Dots
    BY <2>4, <2>5
  <2> QED BY <2>1, <2>4, <2>5, <2>6, AnsweredInv
<1>4. CASE ServeRead(o, n)
  <2>1. PICK answer \in Answers :
       /\ NodeRead(o, n, answer)
       /\ \E v \in CASE answer = "ok" -> {store[n]}
                    [] answer = "iterError" -> {{}, store[n]}
                    [] OTHER -> {{}} :
            Answered(o, n, answer, v)
    BY <1>4 DEF ServeRead
  <2>2. PICK v \in SUBSET Dots : /\ Answered(o, n, answer, v)
                                 /\ v \subseteq store[n] /\ (answer = "ok" => v = store[n])
    BY <1>1, <2>1
  <2>3. store' = store
    BY <2>1 DEF NodeRead, Effects
  <2>4. op[o].call[n] = "sent" /\ plan[o] \notin Writes /\ op[o].phase # "batching"
    BY <1>1, <1>4 DEF ServeRead, Reads, Writes, OpSound, ReadSound
  <2>5. Grown
    BY <1>1, <2>3, SameGrows
  <2> QED BY <2>2, <2>3, <2>4, <2>5, AnsweredInv
<1>5. CASE ServeStatus(o, n)
  <2>1. PICK answer \in Answers : NodeStatus(n, answer) /\ Answered(o, n, answer, {})
    BY <1>5 DEF ServeStatus
  <2>2. Grown
    BY <1>1, <2>1, SameGrows DEF NodeStatus
  <2>3. op[o].call[n] = "sent" /\ plan[o] \notin Writes /\ plan[o] \notin Reads
    BY <1>5 DEF ServeStatus, Reads, Writes
  <2>4. op[o].phase # "batching"
    BY <1>1, <2>3 DEF OpSound
  <2>5. /\ op[o].phase = "batching" /\ answer = "ok" => <<o, n>> \in store'[n]
        /\ plan[o] \in Writes /\ op[o].phase = "collecting" /\ answer = "ok" => op[o].patch \subseteq store'[n]
        /\ plan[o] \in Reads => {} \subseteq store'[n] /\ (answer = "ok" => {} = store'[n])
        /\ {} \in SUBSET Dots /\ op[o].call[n] = "sent"
    BY <2>3, <2>4
  <2> QED BY <2>1, <2>2, <2>5, AnsweredInv
<1> QED BY <1>2, <1>3, <1>4, <1>5 DEF Serve

LEMMA GiveUpInv ==
  ASSUME IInv, NEW o \in Ops, NEW n \in Nodes, GiveUp(o, n)
  PROVE  IInv'
<1>1. /\ op[o] \in OpType /\ OpSound(o, plan[o], op[o], replicas, store) /\ replicas \in SUBSET Nodes
      /\ op \in [Ops -> OpType] /\ op[o].value[n] \in SUBSET Dots
  BY DEF IInv, TypeInv, OpType
<1> DEFINE m == AnswerOf(op[o], n, "error", op[o].value[n])
<1>2. "error" \in Answers
  BY DEF Answers, Refusals
<1>3. op[o].call[n] = "sent" /\ UNCHANGED <<replicas, plan, noSite, store, repair, stopped, settled>>
  BY DEF GiveUp
<1>4. plan[o] \in Reads => op[o].value[n] \subseteq store[n]
  BY <1>1 DEF OpSound, ReadSound
<1>5. OpSound(o, plan[o], m, replicas, store)
  BY <1>1, <1>2, <1>3, <1>4, AnsweredSound
<1>6. m \in OpType
  BY <1>1, <1>2, AnswerIs
<1>7. op' = [op EXCEPT ![o] = m]
  <2>1. m = [op[o] EXCEPT !.call[n] = "error"]
    BY <1>1 DEF AnswerOf, OpType
  <2> QED BY <1>1, <2>1 DEF GiveUp
<1> HIDE DEF m
<1>8. late' \in SUBSET (Ops \X Nodes \X Writes)
  <2>1. late \in SUBSET (Ops \X Nodes \X Writes)
    BY DEF IInv, TypeInv
  <2> QED BY <2>1 DEF GiveUp, Writes
<1>9. /\ store' \in [Nodes -> SUBSET Dots] /\ \A k \in Nodes : store[k] \subseteq store'[k]
      /\ repair' \in [Ops -> [Nodes -> SUBSET Dots]] /\ stopped' \in BOOLEAN /\ settled' \in SUBSET Dots
  BY <1>3 DEF IInv, TypeInv
<1>10. OpSound(o, plan[o], m, replicas, store')
  BY <1>3, <1>5
<1> QED BY <1>3, <1>6, <1>7, <1>8, <1>9, <1>10, StepKeeps

\* A step that leaves the operations alone.
LEMMA GrownKeeps ==
  ASSUME IInv, UNCHANGED <<replicas, plan, noSite, op>>, Grown,
         late' \in SUBSET (Ops \X Nodes \X Writes), repair' \in [Ops -> [Nodes -> SUBSET Dots]],
         stopped' \in BOOLEAN, settled' \in SUBSET Dots,
         \A d \in settled' \ settled : Cardinality(Holding(replicas, {d}, store')) >= Quorum,
         NEW o \in Ops
  PROVE  IInv'
<1>1. op' = [op EXCEPT ![o] = op[o]] /\ op[o] \in OpType
  BY DEF IInv, TypeInv
<1>2. OpSound(o, plan[o], op[o], replicas, store')
  BY <1>1, GrownSound DEF Grown, IInv, TypeInv
<1> QED BY <1>1, <1>2, StepKeeps DEF Grown

LEMMA ServeLateInv ==
  ASSUME IInv, NEW o \in Ops, NEW n \in Nodes, NEW w \in Writes, ServeLate(o, n, w)
  PROVE  IInv'
<1>1. TypeInv /\ op[o] \in OpType
  BY DEF IInv, TypeInv
<1> DEFINE dots == IF w = "batch" THEN {<<o, n>>} ELSE op[o].patch
<1>2. dots \in SUBSET Dots
  BY <1>1 DEF OpType, Dots
<1>3. store' = With(n, dots)
  BY DEF ServeLate
<1> HIDE DEF dots
<1>4. Grown
  BY <1>1, <1>2, <1>3, WithGrows
<1>5. /\ UNCHANGED <<replicas, plan, noSite, op, repair, stopped, settled>>
      /\ late' \in SUBSET (Ops \X Nodes \X Writes)
  BY <1>1 DEF ServeLate, TypeInv
<1>6. repair \in [Ops -> [Nodes -> SUBSET Dots]] /\ stopped \in BOOLEAN /\ settled \in SUBSET Dots
  BY <1>1 DEF TypeInv
<1> QED BY <1>4, <1>5, <1>6, GrownKeeps

-----------------------------------------------------------------------------
(* Agent.Batch *)

LEMMA TryBatchInv ==
  ASSUME IInv, NEW o \in Ops, TryBatch(o)
  PROVE  IInv'
<1>1. /\ op[o] \in OpType /\ OpSound(o, plan[o], op[o], replicas, store) /\ op[o].phase = "batching"
      /\ UNCHANGED <<replicas, plan, noSite, store, late, repair, stopped, settled>>
  BY DEF IInv, TypeInv, TryBatch
<1>2. plan[o] \notin Reads /\ plan[o] = "batch" /\ Batching(o, op[o], store)
  <2>1. plan[o] \notin Reads
    BY <1>1 DEF OpSound, ReadSound
  <2>2. plan[o] \in Writes
    BY <1>1 DEF OpSound
  <2> QED BY <1>1, <2>1, <2>2 DEF OpSound, WriteSound
<1>3. CASE op[o].left = {}
  <2> DEFINE r == [op[o] EXCEPT !.phase = "ended", !.client = op[o].error]
  <2>1. op' = [op EXCEPT ![o] = r]
    BY <1>3 DEF TryBatch
  <2>2. /\ r \in OpType /\ r.phase = "ended" /\ r.client = op[o].error /\ r.applied = op[o].applied
        /\ r.count = op[o].count /\ r.call = op[o].call /\ r.seen = op[o].seen /\ r.left = op[o].left
        /\ r.client # "ok" /\ r.client # "iterating"
    BY <1>1 DEF OpType, Refusals
  <2> HIDE DEF r
  <2>3. Counted(r, replicas)
    BY <1>1, <2>2 DEF OpSound, Counted
  <2>4. OpSound(o, plan[o], r, replicas, store)
    BY <1>2, <2>2, <2>3 DEF OpSound, WriteSound, Batching, Writes
  <2> QED BY <1>1, <2>1, <2>2, <2>4, OpKeeps
<1>4. CASE op[o].left # {}
  <2>1. PICK n \in op[o].left : op' = [op EXCEPT ![o] = [op[o] EXCEPT !.left = @ \ {n}, !.call[n] = "sent"]]
    BY <1>4 DEF TryBatch
  <2> DEFINE r == [op[o] EXCEPT !.left = op[o].left \ {n}, !.call[n] = "sent"]
  <2>2. op' = [op EXCEPT ![o] = r]
    <3>1. [op[o] EXCEPT !.left = @ \ {n}, !.call[n] = "sent"] = r
      BY <1>1 DEF OpType
    <3> QED BY <2>1, <3>1
  <2>3. n \in Nodes /\ n \in replicas /\ op[o].left \in SUBSET Nodes
    BY <1>1 DEF OpSound, Counted, OpType
  <2>4. [op[o].call EXCEPT ![n] = "sent"] \in [Nodes -> {"none", "sent", "done"} \cup Answers]
    BY <1>1 DEF OpType
  <2>5. r = [op[o] EXCEPT !.left = op[o].left \ {n}, !.call = [op[o].call EXCEPT ![n] = "sent"]]
    BY <1>1 DEF OpType
  <2>6. /\ r \in OpType /\ r.phase = op[o].phase /\ r.client = op[o].client /\ r.applied = op[o].applied
        /\ r.count = op[o].count /\ r.seen = op[o].seen /\ r.left = op[o].left \ {n} /\ r.patch = op[o].patch
    BY <1>1, <2>3, <2>4, <2>5 DEF OpType
  <2>7. \A k \in Nodes : r.call[k] = IF k = n THEN "sent" ELSE op[o].call[k]
    BY <1>1, <2>5 DEF OpType
  <2> HIDE DEF r
  <2>8. op[o].call[n] = "none"
    BY <1>2, <2>3 DEF Batching
  <2>9. {k \in replicas : r.call[k] = "done"} = {k \in replicas : op[o].call[k] = "done"}
    BY <1>1, <2>7, <2>8 DEF IInv, TypeInv
  <2>10. Counted(r, replicas)
    BY <1>1, <2>3, <2>6, <2>7, <2>9 DEF OpSound, Counted
  <2>11. Batching(o, r, store)
    BY <1>2, <2>6, <2>7 DEF Batching
  <2>12. OpSound(o, plan[o], r, replicas, store)
    BY <1>1, <1>2, <2>6, <2>10, <2>11 DEF OpSound, WriteSound, Batching, Writes
  <2> QED BY <1>1, <2>2, <2>6, <2>12, OpKeeps
<1> QED BY <1>3, <1>4

LEMMA BatchAnswerInv ==
  ASSUME IInv, NEW o \in Ops, NEW n \in Nodes, BatchAnswer(o, n)
  PROVE  IInv'
<1>1. /\ op[o] \in OpType /\ OpSound(o, plan[o], op[o], replicas, store) /\ op[o].phase = "batching"
      /\ UNCHANGED <<replicas, plan, noSite, store, late, repair, stopped>>
      /\ op[o].call[n] \in Answers /\ replicas \in SUBSET Nodes /\ settled \in SUBSET Dots
  BY DEF IInv, TypeInv, BatchAnswer
<1>2. plan[o] \notin Reads /\ plan[o] = "batch" /\ Batching(o, op[o], store)
  <2>1. plan[o] \notin Reads
    BY <1>1 DEF OpSound, ReadSound
  <2>2. plan[o] \in Writes
    BY <1>1 DEF OpSound
  <2> QED BY <1>1, <2>1, <2>2 DEF OpSound, WriteSound
<1>3. op[o].call[n] \notin {"none", "sent", "done"}
  BY <1>1 DEF Answers, Refusals
<1>4. n \in replicas /\ n \notin op[o].left /\ op[o].left \in SUBSET replicas /\ op[o].left \in SUBSET Nodes
  BY <1>1, <1>2, <1>3 DEF OpSound, Counted, Batching, OpType
<1>5. CASE op[o].call[n] = "ok"
  <2> DEFINE d == <<o, n>>
             m == MergePhase(op[o], op[o].left, Quorum - 1, {d})
             r == [m EXCEPT !.count = 1]
  <2>1. op' = [op EXCEPT ![o] = r] /\ settled' = IF m.client = "ok" THEN settled \cup m.patch ELSE settled
    BY <1>5 DEF BatchAnswer
  <2>2. Quorum \in Nat /\ Quorum - 1 \in Nat /\ Quorum = NQuorum(Cardinality(replicas)) /\ IsFiniteSet(replicas)
    BY QuorumIs DEF IInv
  <2>3. d \in Dots /\ {d} \in SUBSET Dots /\ d \in store[n]
    BY <1>2, <1>5 DEF Dots, Batching
  <2>4. MergeRecord(m, op[o], op[o].left, Quorum - 1, {d})
    BY <1>1, <1>4, <2>2, <2>3, MergePhaseIs
  <2> HIDE DEF m, d
  <2>5. /\ m \in OpType /\ m.phase = "collecting" /\ m.left = op[o].left /\ m.need = Quorum - 1 /\ m.patch = {d}
        /\ m.call = Calls(op[o].left)
        /\ m.client = (IF op[o].left # {} THEN "waiting" ELSE IF Quorum - 1 = 0 THEN "ok" ELSE op[o].error)
        /\ m.applied = 0 /\ m.seen = {}
    BY <1>2, <2>4 DEF Batching, MergeRecord
  <2>6. /\ r \in OpType /\ r.phase = m.phase /\ r.left = m.left /\ r.need = m.need /\ r.patch = m.patch
        /\ r.call = m.call /\ r.client = m.client /\ r.applied = m.applied /\ r.seen = m.seen /\ r.count = 1
    BY <2>5 DEF OpType
  <2> HIDE DEF r
  <2>7. \A k \in Nodes : r.call[k] = IF k \in op[o].left THEN "sent" ELSE "none"
    BY <1>4, <2>5, <2>6, CallsIs
  <2> DEFINE Have == {k \in Holding(replicas, {d}, store) : r.call[k] \in {"none", "done"}}
             Hold == Holding(replicas, {d}, store)
  <2>8. n \in Have /\ Have \subseteq Hold /\ Hold \subseteq replicas
    BY <1>4, <2>3, <2>7 DEF Holding
  <2>9. 1 <= Cardinality(Have) /\ 1 <= Cardinality(Hold)
    <3> HIDE DEF Have, Hold
    <3>1. Cardinality({}) + 1 <= Cardinality(Have) /\ Cardinality({}) + 1 <= Cardinality(Hold)
      BY <2>2, <2>8, CardAdded
    <3> QED BY <3>1, FS_EmptySet
  <2>10. Counted(r, replicas)
    <3>1. Cardinality({k \in replicas : r.call[k] = "done"}) \in Nat
      BY <2>2, CardSubset
    <3> QED BY <1>4, <2>5, <2>6, <2>7, <3>1 DEF Counted
  <2>11. Merging("batch", r, replicas, store)
    <3>1. r.client # "waiting" => \A k \in Nodes : r.call[k] = "none"
      BY <2>5, <2>6, <2>7
    <3>2. \A k \in Nodes : r.call[k] # "ok"
      BY <2>7
    <3> QED BY <2>2, <2>5, <2>6, <2>9, <3>1, <3>2 DEF Merging, Base
  <2>12. r.client # "iterating" /\ (r.client = "ok" => 1 >= Quorum)
    <3>1. op[o].error # "ok" /\ op[o].error # "iterating"
      BY <1>1 DEF OpType, Refusals
    <3> QED BY <2>2, <2>5, <2>6, <3>1
  <2>13. OpSound(o, plan[o], r, replicas, store)
    <3>1. WriteSound(o, "batch", r, replicas, store)
      BY <2>2, <2>5, <2>6, <2>9, <2>11, <2>12 DEF WriteSound
    <3> QED BY <1>2, <2>10, <3>1 DEF OpSound, Writes
  <2>14. \A e \in settled' \ settled : Cardinality(Holding(replicas, {e}, store')) >= Quorum
    <3>1. ASSUME NEW e \in settled' \ settled PROVE Cardinality(Holding(replicas, {e}, store)) >= Quorum
      <4>1. e = d /\ r.client = "ok"
        BY <2>1, <2>5, <2>6
      <4>2. Cardinality(Hold) \in Nat
        BY <2>2, <2>8, CardSubset
      <4> QED BY <2>2, <2>9, <2>12, <4>1, <4>2
    <3> QED BY <1>1, <3>1
  <2>15. settled' \in SUBSET Dots
    BY <1>1, <2>1, <2>3, <2>5
  <2> QED BY <1>1, <2>1, <2>6, <2>13, <2>14, <2>15, StepKeeps DEF IInv, TypeInv
<1>6. CASE op[o].call[n] # "ok"
  <2> DEFINE e == ErrorAfter(op[o].error, op[o].call[n])
             r == [op[o] EXCEPT !.call[n] = "done", !.error = e]
  <2>1. op' = [op EXCEPT ![o] = r] /\ settled' = settled
    BY <1>6 DEF BatchAnswer, ErrorAfter
  <2>2. e \in {"none", "ENoQuorum"} \cup Refusals
    BY <1>1 DEF ErrorAfter, OpType, Refusals
  <2> HIDE DEF e
  <2>3. [op[o].call EXCEPT ![n] = "done"] \in [Nodes -> {"none", "sent", "done"} \cup Answers]
    BY <1>1 DEF OpType
  <2>4. r = [op[o] EXCEPT !.call = [op[o].call EXCEPT ![n] = "done"], !.error = e]
    BY <1>1 DEF OpType
  <2>5. /\ r \in OpType /\ r.phase = op[o].phase /\ r.client = op[o].client /\ r.applied = op[o].applied
        /\ r.count = op[o].count /\ r.seen = op[o].seen /\ r.left = op[o].left /\ r.patch = op[o].patch
    BY <1>1, <2>2, <2>3, <2>4 DEF OpType
  <2>6. \A k \in Nodes : r.call[k] = IF k = n THEN "done" ELSE op[o].call[k]
    BY <1>1, <2>4 DEF OpType
  <2> HIDE DEF r
  <2>7. Counted(r, replicas)
    <3>1. Cardinality({k \in replicas : r.call[k] = "done"}) \in Nat
      BY CardSubset, QuorumIs DEF IInv
    <3>2. r.applied = 0 /\ r.seen = {}
      BY <1>2, <2>5 DEF Batching
    <3> QED BY <1>1, <1>4, <2>5, <2>6, <3>1, <3>2 DEF OpSound, Counted
  <2>8. Batching(o, r, store)
    BY <1>2, <1>4, <2>5, <2>6 DEF Batching
  <2>9. OpSound(o, plan[o], r, replicas, store)
    BY <1>1, <1>2, <2>5, <2>7, <2>8 DEF OpSound, WriteSound, Batching, Writes
  <2> QED BY <1>1, <2>1, <2>5, <2>9, OpKeeps
<1> QED BY <1>5, <1>6

-----------------------------------------------------------------------------
(* The collector goroutines *)

\* A collector takes node n's answer: r is the record before, m after.
Taken(m, r, n) ==
  /\ m \in OpType /\ r.call[n] \in Answers
  /\ m.call = [r.call EXCEPT ![n] = "done"]
  /\ m.applied \in {r.applied, r.applied + 1} /\ m.seen \in {r.seen, r.seen \cup {n}}
  /\ m.left = r.left /\ m.value = r.value /\ m.due = r.due /\ m.patch = r.patch /\ m.need = r.need
  /\ m.phase \notin {"idle", "batching"}

LEMMA TakenCounted ==
  ASSUME NEW r \in OpType, NEW m, NEW n \in Nodes, Taken(m, r, n), NEW R \in SUBSET Nodes, Counted(r, R)
  PROVE  /\ Counted(m, R) /\ n \in R /\ r.call[n] \notin {"none", "sent", "done"}
         /\ \A k \in Nodes : m.call[k] = IF k = n THEN "done" ELSE r.call[k]
<1>1. \A k \in Nodes : m.call[k] = IF k = n THEN "done" ELSE r.call[k]
  BY DEF Taken, OpType
<1>2. r.call[n] \notin {"none", "sent", "done"}
  BY DEF Taken, Answers, Refusals
<1>3. n \in R
  BY <1>2 DEF Counted
<1> DEFINE D == {k \in R : r.call[k] = "done"}
           E == {k \in R : m.call[k] = "done"}
<1>4. D \in SUBSET R /\ E \in SUBSET R /\ D \subseteq E /\ n \in E /\ n \notin D /\ IsFiniteSet(R)
  BY <1>1, <1>2, <1>3, NodesAssumption, FS_Subset
<1>5. r.applied <= Cardinality(D) /\ r.seen \subseteq D
  BY DEF Counted
<1>6. m.applied <= Cardinality(E) /\ m.seen \subseteq E
  <2> HIDE DEF D, E
  <2>1. Cardinality(D) + 1 <= Cardinality(E) /\ Cardinality(D) \in Nat /\ Cardinality(E) \in Nat
    BY <1>4, CardAdded, CardSubset
  <2> QED BY <1>4, <1>5, <2>1 DEF Taken, OpType
<1>7. m.left \subseteq R /\ \A k \in Nodes : m.call[k] # "none" => k \in R
  BY <1>1, <1>3 DEF Taken, Counted
<1>8. m.phase # "idle"
  BY DEF Taken
<1> HIDE DEF D
<1>9. Counted(m, R)
  BY <1>6, <1>7, <1>8 DEF Counted
<1> QED BY <1>1, <1>2, <1>3, <1>9

\* merge() may count a replica that has the patch.
MergeCounts(kind, m, r, R, st) ==
  /\ m.need + Base(kind) = NQuorum(Cardinality(R))
  /\ \A k \in Nodes : m.call[k] = "ok" => m.patch \subseteq st[k]
  /\ m.applied + Base(kind)
       <= Cardinality({k \in Holding(R, m.patch, st) : m.call[k] \in {"none", "done"}})
  /\ m.applied + Base(kind) <= Cardinality(Holding(R, m.patch, st))
  /\ r.client # "waiting" => r.applied >= r.need

LEMMA TakenMerging ==
  ASSUME NEW r \in OpType, NEW m, NEW n \in Nodes, Taken(m, r, n), NEW R \in SUBSET Nodes, Counted(r, R),
         NEW kind, NEW st, Merging(kind, r, R, st), r.call[n] # "ok" => m.applied = r.applied
  PROVE  MergeCounts(kind, m, r, R, st)
<1>1. /\ n \in R /\ r.call[n] \notin {"none", "sent", "done"}
      /\ \A k \in Nodes : m.call[k] = IF k = n THEN "done" ELSE r.call[k]
  BY TakenCounted
<1>2. m.patch = r.patch /\ m.need = r.need /\ m.applied \in {r.applied, r.applied + 1}
  BY DEF Taken
<1> DEFINE X == {k \in Holding(R, r.patch, st) : r.call[k] \in {"none", "done"}}
           Y == {k \in Holding(R, m.patch, st) : m.call[k] \in {"none", "done"}}
           Z == Holding(R, m.patch, st)
<1>3. X \subseteq Y /\ Y \subseteq Z /\ Z \subseteq R /\ n \notin X /\ IsFiniteSet(R)
  BY <1>1, <1>2, NodesAssumption, FS_Subset DEF Holding
<1>4. r.call[n] = "ok" => n \in Y
  BY <1>1, <1>2 DEF Holding, Merging
<1>5. r.applied + Base(kind) <= Cardinality(X)
  BY DEF Merging
<1>6. r.applied \in Nat /\ Base(kind) \in Nat
  BY DEF OpType, Base
<1>7. /\ Cardinality(X) \in Nat /\ Cardinality(Y) \in Nat /\ Cardinality(Z) \in Nat
      /\ Cardinality(X) <= Cardinality(Y) /\ Cardinality(Y) <= Cardinality(Z)
  <2> HIDE DEF X, Y, Z
  <2> QED BY <1>3, CardSubset
<1>8. r.call[n] = "ok" => Cardinality(X) + 1 <= Cardinality(Y)
  <2> HIDE DEF X, Y, Z
  <2>1. X \in SUBSET R /\ Y \in SUBSET R
    BY <1>3
  <2> QED BY <1>3, <1>4, <2>1, CardAdded
<1>9. m.applied + Base(kind) <= Cardinality(Y) /\ m.applied + Base(kind) <= Cardinality(Z)
  <2> HIDE DEF X, Y, Z
  <2>1. CASE r.call[n] = "ok"
    BY <1>2, <1>5, <1>6, <1>7, <1>8, <2>1
  <2>2. CASE r.call[n] # "ok"
    BY <1>5, <1>6, <1>7, <2>2
  <2> QED BY <2>1, <2>2
<1>10. \A k \in Nodes : m.call[k] = "ok" => m.patch \subseteq st[k]
  BY <1>1, <1>2 DEF Merging
<1>11. r.client # "waiting" => r.applied >= r.need
  BY <1>1 DEF Merging
<1> QED BY <1>2, <1>9, <1>10, <1>11 DEF Merging, MergeCounts

\* Get and GetMatches may count a replica whose answer is in the read merger.
LEMMA TakenRead ==
  ASSUME NEW r \in OpType, NEW m, NEW n \in Nodes, Taken(m, r, n), NEW R \in SUBSET Nodes, Counted(r, R),
         NEW st, ReadCount(r, R, st),
         \/ r.call[n] # "ok" /\ m.applied = r.applied
         \/ r.call[n] = "ok" /\ m.applied = r.applied + 1 /\ (n \in m.seen \/ m.value[n] = {})
  PROVE  ReadCount(m, R, st)
<1>1. /\ n \in R /\ r.call[n] \notin {"none", "sent", "done"} /\ IsFiniteSet(R)
      /\ \A k \in Nodes : m.call[k] = IF k = n THEN "done" ELSE r.call[k]
  BY TakenCounted, NodesAssumption, FS_Subset
<1>2. m.value = r.value /\ m.due = r.due /\ r.seen \subseteq m.seen
  BY DEF Taken
<1>3. PICK counted \in SUBSET R :
         /\ \A k \in counted : r.call[k] = "done" /\ (k \in r.seen \/ r.value[k] = {})
         /\ Cardinality(counted) = r.applied
         /\ \A d \in r.due : Cardinality(Witnesses(r, R, st, counted, d)) >= NQuorum(Cardinality(R))
  BY DEF ReadCount
<1>4. n \notin counted
  BY <1>1, <1>3
<1>5. CASE r.call[n] # "ok" /\ m.applied = r.applied
  <2>1. ASSUME NEW d PROVE Witnesses(m, R, st, counted, d) = Witnesses(r, R, st, counted, d)
    BY <1>1, <1>2, <1>4, <1>5 DEF Witnesses
  <2>2. \A k \in counted : m.call[k] = "done" /\ (k \in m.seen \/ m.value[k] = {})
    BY <1>1, <1>2, <1>3
  <2> QED BY <1>2, <1>3, <1>5, <2>1, <2>2 DEF ReadCount
<1>6. CASE r.call[n] = "ok" /\ m.applied = r.applied + 1 /\ (n \in m.seen \/ m.value[n] = {})
  <2> DEFINE more == counted \cup {n}
  <2>1. ASSUME NEW d PROVE Witnesses(m, R, st, more, d) = Witnesses(r, R, st, counted, d)
    BY <1>1, <1>2, <1>4, <1>6 DEF Witnesses
  <2>2. \A k \in more : m.call[k] = "done" /\ (k \in m.seen \/ m.value[k] = {})
    BY <1>1, <1>2, <1>3, <1>6
  <2>3. Cardinality(more) = m.applied /\ more \in SUBSET R
    <3>1. IsFiniteSet(counted)
      BY <1>1, FS_Subset
    <3>2. Cardinality(more) = Cardinality(counted) + 1
      BY <1>4, <3>1, FS_AddElement
    <3>3. more \in SUBSET R
      BY <1>1
    <3> HIDE DEF more
    <3> QED BY <1>3, <1>6, <3>2, <3>3
  <2> HIDE DEF more
  <2> QED BY <1>2, <1>3, <2>1, <2>2, <2>3 DEF ReadCount
<1> QED BY <1>5, <1>6

LEMMA MergedGrows ==
  ASSUME NEW r, NEW m, r.seen \subseteq m.seen, m.value = r.value
  PROVE  Merged(r) \subseteq Merged(m)
BY DEF Merged

\* A quorum of replicas returned everything that was at a quorum when the read began.
LEMMA QuorumRead ==
  ASSUME NEW r \in OpType, NEW R \in SUBSET Nodes, NEW st, ReadCount(r, R, st),
         r.applied = NQuorum(Cardinality(R))
  PROVE  r.due \subseteq Merged(r) /\ (r.due # {} => r.seen # {})
<1>1. PICK counted \in SUBSET R :
         /\ \A k \in counted : r.call[k] = "done" /\ (k \in r.seen \/ r.value[k] = {})
         /\ Cardinality(counted) = r.applied
         /\ \A d \in r.due : Cardinality(Witnesses(r, R, st, counted, d)) >= NQuorum(Cardinality(R))
  BY DEF ReadCount
<1>2. IsFiniteSet(R) /\ NQuorum(Cardinality(R)) \in Nat
  BY NodesAssumption, FS_Subset, FS_CardinalityType DEF NQuorum
<1>3. ASSUME NEW d \in r.due PROVE d \in Merged(r) /\ r.seen # {}
  <2> DEFINE W == Witnesses(r, R, st, counted, d)
  <2>1. W \in SUBSET R
    BY DEF Witnesses
  <2>2. counted \cap W # {}
    <3>1. Cardinality(W) >= NQuorum(Cardinality(R)) /\ Cardinality(counted) >= NQuorum(Cardinality(R))
      BY <1>1, <1>2
    <3> HIDE DEF W
    <3> QED BY <1>2, <2>1, <3>1, QuorumsMeet
  <2>3. PICK k \in counted : k \in W
    BY <2>2
  <2>4. d \in r.value[k]
    BY <2>3 DEF Witnesses
  <2>5. k \in r.seen
    BY <1>1, <2>4
  <2> QED BY <2>4, <2>5 DEF Merged
<1> QED BY <1>3

LEMMA CallDone ==
  ASSUME NEW r \in OpType, NEW n \in Nodes
  PROVE  [r.call EXCEPT ![n] = "done"] \in [Nodes -> {"none", "sent", "done"} \cup Answers]
BY DEF OpType

LEMMA CollectFailureInv ==
  ASSUME IInv, NEW o \in Ops, NEW n \in Nodes, CollectFailure(o, n)
  PROVE  IInv'
<1>1. /\ op[o] \in OpType /\ OpSound(o, plan[o], op[o], replicas, store) /\ op[o].phase = "collecting"
      /\ UNCHANGED <<replicas, plan, noSite, store, late, repair, stopped, settled>>
      /\ op[o].call[n] \in Answers /\ replicas \in SUBSET Nodes /\ op[o].call[n] # "ok"
  BY DEF IInv, TypeInv, CollectFailure, Collecting, Refusals
<1> DEFINE e == IF plan[o] = "status" THEN "error" ELSE ErrorAfter(op[o].error, op[o].call[n])
           m == [op[o] EXCEPT !.call = [op[o].call EXCEPT ![n] = "done"], !.error = e]
<1>2. op' = [op EXCEPT ![o] = m]
  <2>1. [op[o] EXCEPT !.call[n] = "done", !.error = e] = m
    BY <1>1 DEF OpType
  <2>2. op' = [op EXCEPT ![o] = [op[o] EXCEPT !.call[n] = "done", !.error = e]]
    BY DEF CollectFailure
  <2> QED BY <2>1, <2>2
<1>3. e \in {"none", "ENoQuorum"} \cup Refusals
  BY <1>1 DEF ErrorAfter, OpType, Refusals
<1> HIDE DEF e
<1>4. /\ m \in OpType /\ m.call = [op[o].call EXCEPT ![n] = "done"] /\ m.phase = op[o].phase
      /\ m.client = op[o].client /\ m.applied = op[o].applied /\ m.count = op[o].count
      /\ m.seen = op[o].seen /\ m.left = op[o].left /\ m.value = op[o].value /\ m.due = op[o].due
      /\ m.patch = op[o].patch /\ m.need = op[o].need /\ m.keys = op[o].keys /\ m.result = op[o].result
  BY <1>1, <1>3, CallDone DEF OpType
<1> HIDE DEF m
<1>5. Taken(m, op[o], n) /\ Counted(op[o], replicas)
  BY <1>1, <1>4 DEF Taken, OpSound
<1>6. Counted(m, replicas)
  BY <1>1, <1>5, TakenCounted
<1>7. ASSUME plan[o] \in Writes PROVE WriteSound(o, plan[o], m, replicas, store)
  <2>1. WriteSound(o, plan[o], op[o], replicas, store) /\ Merging(plan[o], op[o], replicas, store)
    BY <1>1, <1>7 DEF OpSound, WriteSound
  <2>2. MergeCounts(plan[o], m, op[o], replicas, store)
    BY <1>1, <1>4, <1>5, <2>1, TakenMerging
  <2>3. Merging(plan[o], m, replicas, store)
    BY <1>4, <2>1, <2>2 DEF Merging, MergeCounts
  <2> QED BY <1>1, <1>4, <2>1, <2>3 DEF WriteSound
<1>8. ASSUME plan[o] \in Reads PROVE ReadSound(m, replicas, store)
  <2>1. ReadSound(op[o], replicas, store) /\ ReadCount(op[o], replicas, store)
    BY <1>1, <1>8 DEF OpSound, ReadSound
  <2>2. ReadCount(m, replicas, store)
    BY <1>1, <1>4, <1>5, <2>1, TakenRead
  <2>3. Merged(m) = Merged(op[o])
    BY <1>4 DEF Merged
  <2> QED BY <1>4, <2>1, <2>2, <2>3 DEF ReadSound
<1>9. OpSound(o, plan[o], m, replicas, store)
  BY <1>1, <1>4, <1>6, <1>7, <1>8 DEF OpSound
<1> QED BY <1>1, <1>2, <1>4, <1>9, OpKeeps

LEMMA CollectMergeInv ==
  ASSUME IInv, NEW o \in Ops, NEW n \in Nodes, CollectMerge(o, n)
  PROVE  IInv'
<1>1. /\ op[o] \in OpType /\ OpSound(o, plan[o], op[o], replicas, store) /\ op[o].phase = "collecting"
      /\ UNCHANGED <<replicas, plan, noSite, store, late, repair, stopped>> /\ plan[o] \in Writes
      /\ op[o].call[n] \in Answers /\ replicas \in SUBSET Nodes /\ op[o].call[n] = "ok"
  BY DEF IInv, TypeInv, CollectMerge, Collecting
<1>2. plan[o] \notin Reads
  BY <1>1 DEF Writes, Reads
<1>3. IsFiniteSet(replicas) /\ Quorum \in Nat /\ Quorum = NQuorum(Cardinality(replicas))
  BY QuorumIs DEF IInv
<1> DEFINE done == op[o].applied + 1 = op[o].need
           r == [op[o] EXCEPT !.call = [op[o].call EXCEPT ![n] = "done"], !.applied = op[o].applied + 1]
           m == IF done THEN [r EXCEPT !.client = "ok", !.count = op[o].count + op[o].applied + 1] ELSE r
<1>4. /\ r \in OpType /\ r.call = [op[o].call EXCEPT ![n] = "done"] /\ r.phase = op[o].phase
      /\ r.client = op[o].client /\ r.applied = op[o].applied + 1 /\ r.count = op[o].count
      /\ r.seen = op[o].seen /\ r.left = op[o].left /\ r.value = op[o].value /\ r.due = op[o].due
      /\ r.patch = op[o].patch /\ r.need = op[o].need
      /\ op[o].applied \in Nat /\ op[o].count \in Nat /\ op[o].patch \in SUBSET Dots
  <2>1. op[o].applied \in Nat /\ op[o].count \in Nat /\ op[o].patch \in SUBSET Dots
    BY <1>1 DEF OpType
  <2> DEFINE c == [op[o].call EXCEPT ![n] = "done"]
             a == op[o].applied + 1
  <2>2. c \in [Nodes -> {"none", "sent", "done"} \cup Answers] /\ a \in Nat
    BY <1>1, <2>1, CallDone
  <2>3. r = [op[o] EXCEPT !.call = c, !.applied = a]
    OBVIOUS
  <2> HIDE DEF c, a, r
  <2>4. /\ r \in OpType /\ r.call = c /\ r.phase = op[o].phase
        /\ r.client = op[o].client /\ r.applied = a /\ r.count = op[o].count
        /\ r.seen = op[o].seen /\ r.left = op[o].left /\ r.value = op[o].value /\ r.due = op[o].due
        /\ r.patch = op[o].patch /\ r.need = op[o].need
    BY <1>1, <2>2, <2>3 DEF OpType
  <2> QED BY <2>1, <2>4 DEF c, a
<1>5. op' = [op EXCEPT ![o] = m] /\ settled' = IF done THEN settled \cup op[o].patch ELSE settled
  <2> DEFINE q == [op[o] EXCEPT !.call[n] = "done", !.applied = @ + 1]
  <2>1. q = r
    BY <1>1 DEF OpType
  <2>2. /\ op' = [op EXCEPT ![o] = IF done THEN [q EXCEPT !.client = "ok", !.count = @ + q.applied] ELSE q]
        /\ settled' = IF done THEN settled \cup q.patch ELSE settled
    BY DEF CollectMerge
  <2> HIDE DEF q, r, done
  <2>3. q.count + q.applied = op[o].count + op[o].applied + 1 /\ q.patch = op[o].patch
    BY <1>4, <2>1
  <2> QED BY <2>1, <2>2, <2>3
<1> HIDE DEF r
<1>6. /\ m \in OpType /\ m.call = [op[o].call EXCEPT ![n] = "done"] /\ m.phase = op[o].phase
      /\ m.applied = op[o].applied + 1 /\ m.client = (IF done THEN "ok" ELSE op[o].client)
      /\ m.count = IF done THEN op[o].count + op[o].applied + 1 ELSE op[o].count
      /\ m.seen = op[o].seen /\ m.left = op[o].left /\ m.value = op[o].value /\ m.due = op[o].due
      /\ m.patch = op[o].patch /\ m.need = op[o].need
  <2>1. op[o].count + op[o].applied + 1 \in Nat
    BY <1>4
  <2> HIDE DEF done
  <2> QED BY <1>4, <2>1, ZenonT(60) DEF OpType
<1> HIDE DEF m
<1>7. Taken(m, op[o], n) /\ Counted(op[o], replicas)
  BY <1>1, <1>6 DEF Taken, OpSound
<1>8. Counted(m, replicas)
  BY <1>1, <1>7, TakenCounted
<1>9. WriteSound(o, plan[o], op[o], replicas, store) /\ Merging(plan[o], op[o], replicas, store)
  BY <1>1 DEF OpSound, WriteSound
<1>10. /\ m.need + Base(plan[o]) = NQuorum(Cardinality(replicas))
       /\ \A k \in Nodes : m.call[k] = "ok" => m.patch \subseteq store[k]
       /\ m.applied + Base(plan[o])
            <= Cardinality({k \in Holding(replicas, m.patch, store) : m.call[k] \in {"none", "done"}})
       /\ m.applied + Base(plan[o]) <= Cardinality(Holding(replicas, m.patch, store))
       /\ op[o].client # "waiting" => op[o].applied >= op[o].need
  <2>1. MergeCounts(plan[o], m, op[o], replicas, store)
    BY <1>1, <1>6, <1>7, <1>9, TakenMerging
  <2> QED BY <2>1 DEF MergeCounts
<1>11. op[o].need \in Nat /\ Base(plan[o]) \in Nat
  BY <1>1 DEF OpType, Base
<1>12. done => op[o].client = "waiting" /\ op[o].count = Base(plan[o]) /\ m.count = Quorum
               /\ m.count = m.applied + Base(plan[o])
  <2>1. ASSUME done PROVE op[o].client = "waiting"
    BY <1>4, <1>10, <1>11, <2>1
  <2>2. ASSUME done PROVE op[o].count = Base(plan[o])
    BY <1>9, <2>1, <2>2 DEF Merging
  <2> QED BY <1>3, <1>4, <1>6, <1>10, <1>11, <2>1, <2>2
<1>13. m.client # "waiting" => m.applied >= m.need
  BY <1>4, <1>6, <1>10, <1>11
<1>14. m.client = "waiting" => m.count = Base(plan[o])
  BY <1>6, <1>9 DEF Merging
<1>15. Merging(plan[o], m, replicas, store)
  BY <1>10, <1>13, <1>14 DEF Merging
<1>16. m.count = 0 \/ m.count <= Cardinality(Holding(replicas, m.patch, store))
  BY <1>6, <1>9, <1>10, <1>12 DEF WriteSound
<1>17. m.client # "iterating" /\ (m.client = "ok" => m.count >= NQuorum(Cardinality(replicas)))
  BY <1>3, <1>6, <1>9, <1>12 DEF WriteSound
<1>18. OpSound(o, plan[o], m, replicas, store)
  BY <1>1, <1>2, <1>6, <1>8, <1>15, <1>16, <1>17 DEF OpSound, WriteSound
<1>19. \A d \in settled' \ settled : Cardinality(Holding(replicas, {d}, store')) >= Quorum
  <2>1. ASSUME NEW d \in settled' \ settled PROVE Cardinality(Holding(replicas, {d}, store)) >= Quorum
    <3>1. done /\ d \in m.patch
      BY <1>5, <1>6, <2>1
    <3>2. Holding(replicas, m.patch, store) \subseteq Holding(replicas, {d}, store)
          /\ Holding(replicas, {d}, store) \in SUBSET replicas
      BY <3>1 DEF Holding
    <3>3. /\ Cardinality(Holding(replicas, m.patch, store)) <= Cardinality(Holding(replicas, {d}, store))
          /\ Cardinality(Holding(replicas, m.patch, store)) \in Nat
          /\ Cardinality(Holding(replicas, {d}, store)) \in Nat
      BY <1>3, <3>2, CardSubset
    <3> QED BY <1>3, <1>10, <1>12, <3>1, <3>3
  <2> QED BY <1>1, <2>1
<1>20. settled' \in SUBSET Dots
  BY <1>4, <1>5 DEF IInv, TypeInv
<1> QED BY <1>1, <1>5, <1>6, <1>18, <1>19, <1>20, StepKeeps DEF IInv, TypeInv

\* What Get and GetMatches know of a read keeps true when its collector took an answer, given
\* what the client was told.
LEMMA ReadTakenInv ==
  ASSUME IInv, NEW o \in Ops, NEW n \in Nodes, plan[o] \in Reads, op[o].phase = "collecting",
         NEW m, Taken(m, op[o], n), op' = [op EXCEPT ![o] = m], m.count = op[o].count,
         UNCHANGED <<replicas, plan, noSite, store, late, repair, stopped, settled>>,
         \/ op[o].call[n] # "ok" /\ m.applied = op[o].applied
         \/ op[o].call[n] = "ok" /\ m.applied = op[o].applied + 1 /\ (n \in m.seen \/ m.value[n] = {}),
         \/ m.client = op[o].client /\ m.keys = op[o].keys /\ m.result = op[o].result
         \/ m.applied = Quorum /\ m.client = "ok" /\ m.result = Merged(m)
         \/ m.applied = Quorum /\ m.client = "iterating" /\ m.keys = (m.seen # {})
  PROVE  IInv'
<1>1. /\ op[o] \in OpType /\ OpSound(o, plan[o], op[o], replicas, store) /\ replicas \in SUBSET Nodes
      /\ plan[o] \notin Writes /\ Quorum = NQuorum(Cardinality(replicas)) /\ m \in OpType
  BY QuorumIs DEF IInv, TypeInv, Reads, Writes, Taken
<1>2. Counted(op[o], replicas) /\ ReadSound(op[o], replicas, store) /\ ReadCount(op[o], replicas, store)
      /\ op[o].count = 0
  BY <1>1 DEF OpSound, ReadSound
<1>3. Counted(m, replicas)
  BY <1>1, <1>2, TakenCounted
<1>4. ReadCount(m, replicas, store)
  BY <1>1, <1>2, TakenRead
<1>5. op[o].seen \subseteq m.seen /\ m.value = op[o].value /\ m.due = op[o].due /\ m.phase # "batching"
  BY DEF Taken
<1>6. Merged(op[o]) \subseteq Merged(m)
  BY <1>5, MergedGrows
<1>7. m.applied = Quorum => m.due \subseteq Merged(m) /\ (m.due # {} => m.seen # {})
  BY <1>1, <1>4, QuorumRead
<1>8. m.client = "iterating" => m.due \subseteq Merged(m) /\ (m.due # {} => m.keys)
  <2>1. CASE m.client = op[o].client /\ m.keys = op[o].keys
    BY <1>2, <1>5, <1>6, <2>1 DEF ReadSound
  <2>2. CASE m.applied = Quorum /\ m.client = "iterating" /\ m.keys = (m.seen # {})
    BY <1>7, <2>2
  <2> QED BY <2>1, <2>2
<1>9. m.client = "ok" => m.due \subseteq m.result
  <2>1. CASE m.client = op[o].client /\ m.result = op[o].result
    BY <1>2, <1>5, <2>1 DEF ReadSound
  <2>2. CASE m.applied = Quorum /\ m.client = "ok" /\ m.result = Merged(m)
    BY <1>7, <2>2
  <2> QED BY <2>1, <2>2
<1>10. ReadSound(m, replicas, store)
  BY <1>2, <1>4, <1>5, <1>8, <1>9 DEF ReadSound
<1>11. OpSound(o, plan[o], m, replicas, store)
  BY <1>1, <1>2, <1>3, <1>5, <1>10 DEF OpSound
<1> QED BY <1>1, <1>11, OpKeeps

LEMMA MergedIsDots ==
  ASSUME NEW r \in OpType
  PROVE  Merged(r) \in SUBSET Dots
BY DEF Merged, OpType

LEMMA CollectGetInv ==
  ASSUME IInv, NEW o \in Ops, NEW n \in Nodes, CollectGet(o, n)
  PROVE  IInv'
<1>1. /\ op[o] \in OpType /\ op[o].phase = "collecting" /\ plan[o] \in Reads
      /\ UNCHANGED <<replicas, plan, noSite, store, late, repair, stopped, settled>>
      /\ op[o].call[n] \in Answers /\ op[o].call[n] = "ok"
  BY DEF IInv, TypeInv, CollectGet, Collecting, Reads
<1> DEFINE q == [op[o] EXCEPT !.call[n] = "done", !.applied = @ + 1, !.seen = @ \cup {n}]
           m == IF q.applied = Quorum THEN [q EXCEPT !.client = "ok", !.result = Merged(q)] ELSE q
<1>2. op' = [op EXCEPT ![o] = m]
  BY DEF CollectGet
<1>3. /\ q \in OpType /\ q.call = [op[o].call EXCEPT ![n] = "done"] /\ q.phase = op[o].phase
      /\ q.applied = op[o].applied + 1 /\ q.seen = op[o].seen \cup {n}
      /\ q.client = op[o].client /\ q.keys = op[o].keys /\ q.result = op[o].result
      /\ q.count = op[o].count /\ q.left = op[o].left /\ q.value = op[o].value /\ q.due = op[o].due
      /\ q.patch = op[o].patch /\ q.need = op[o].need
  <2> DEFINE c == [op[o].call EXCEPT ![n] = "done"]
             a == op[o].applied + 1
             s == op[o].seen \cup {n}
  <2>1. c \in [Nodes -> {"none", "sent", "done"} \cup Answers]
    BY <1>1, CallDone
  <2>2. a \in Nat /\ s \in SUBSET Nodes
    BY <1>1 DEF OpType
  <2>3. q = [op[o] EXCEPT !.call = c, !.applied = a, !.seen = s]
    BY <1>1 DEF OpType
  <2> HIDE DEF c, a, s, q
  <2>4. /\ q \in OpType /\ q.call = c /\ q.phase = op[o].phase /\ q.applied = a /\ q.seen = s
        /\ q.client = op[o].client /\ q.keys = op[o].keys /\ q.result = op[o].result
        /\ q.count = op[o].count /\ q.left = op[o].left /\ q.value = op[o].value /\ q.due = op[o].due
        /\ q.patch = op[o].patch /\ q.need = op[o].need
    BY <1>1, <2>1, <2>2, <2>3 DEF OpType
  <2> QED BY <2>4 DEF c, a, s
<1>4. Merged(q) \in SUBSET Dots
  BY <1>3, MergedIsDots
<1> HIDE DEF q
<1>5. /\ m \in OpType /\ m.call = q.call /\ m.phase = q.phase /\ m.applied = q.applied /\ m.seen = q.seen
      /\ m.client = (IF q.applied = Quorum THEN "ok" ELSE q.client)
      /\ m.keys = q.keys /\ m.result = (IF q.applied = Quorum THEN Merged(q) ELSE q.result)
      /\ m.count = q.count /\ m.left = q.left /\ m.value = q.value /\ m.due = q.due
      /\ m.patch = q.patch /\ m.need = q.need
  BY <1>3, <1>4, ZenonT(60) DEF OpType
<1> HIDE DEF m
<1>6. Taken(m, op[o], n)
  BY <1>1, <1>3, <1>5 DEF Taken
<1>7. Merged(m) = Merged(q)
  BY <1>5 DEF Merged
<1>8. \/ m.client = op[o].client /\ m.keys = op[o].keys /\ m.result = op[o].result
      \/ m.applied = Quorum /\ m.client = "ok" /\ m.result = Merged(m)
  BY <1>3, <1>5, <1>7
<1>9. op[o].call[n] = "ok" /\ m.applied = op[o].applied + 1 /\ n \in m.seen /\ m.count = op[o].count
  BY <1>1, <1>3, <1>5
<1> QED BY <1>1, <1>2, <1>6, <1>8, <1>9, ReadTakenInv

LEMMA CollectMatchesInv ==
  ASSUME IInv, NEW o \in Ops, NEW n \in Nodes, CollectMatches(o, n)
  PROVE  IInv'
<1>1. /\ op[o] \in OpType /\ op[o].phase = "collecting" /\ plan[o] \in Reads
      /\ UNCHANGED <<replicas, plan, noSite, store, late, repair, stopped, settled>>
      /\ op[o].call[n] \in Answers
  BY DEF IInv, TypeInv, CollectMatches, Collecting, Reads
<1> DEFINE q == [op[o] EXCEPT !.call[n] = "done",
                              !.applied = IF op[o].call[n] = "ok" THEN @ + 1 ELSE @,
                              !.seen = IF op[o].value[n] = {} THEN @ ELSE @ \cup {n}]
           m == CASE q.applied # Quorum -> q
                  [] q.applied = Quorum /\ q.client = "waiting" ->
                        [q EXCEPT !.client = "iterating", !.keys = (q.seen # {})]
                  [] q.applied = Quorum /\ q.client # "waiting" -> [q EXCEPT !.phase = "stuck"]
<1>2. op' = [op EXCEPT ![o] = m]
  BY DEF CollectMatches
<1>3. /\ q \in OpType /\ q.call = [op[o].call EXCEPT ![n] = "done"] /\ q.phase = op[o].phase
      /\ q.applied = (IF op[o].call[n] = "ok" THEN op[o].applied + 1 ELSE op[o].applied)
      /\ q.seen = (IF op[o].value[n] = {} THEN op[o].seen ELSE op[o].seen \cup {n})
      /\ q.client = op[o].client /\ q.keys = op[o].keys /\ q.result = op[o].result
      /\ q.count = op[o].count /\ q.left = op[o].left /\ q.value = op[o].value /\ q.due = op[o].due
      /\ q.patch = op[o].patch /\ q.need = op[o].need
  <2> DEFINE c == [op[o].call EXCEPT ![n] = "done"]
             a == IF op[o].call[n] = "ok" THEN op[o].applied + 1 ELSE op[o].applied
             s == IF op[o].value[n] = {} THEN op[o].seen ELSE op[o].seen \cup {n}
  <2>1. c \in [Nodes -> {"none", "sent", "done"} \cup Answers]
    BY <1>1, CallDone
  <2>2. a \in Nat /\ s \in SUBSET Nodes
    BY <1>1 DEF OpType
  <2>3. q = [op[o] EXCEPT !.call = c, !.applied = a, !.seen = s]
    BY <1>1 DEF OpType
  <2> HIDE DEF c, a, s, q
  <2>4. /\ q \in OpType /\ q.call = c /\ q.phase = op[o].phase /\ q.applied = a /\ q.seen = s
        /\ q.client = op[o].client /\ q.keys = op[o].keys /\ q.result = op[o].result
        /\ q.count = op[o].count /\ q.left = op[o].left /\ q.value = op[o].value /\ q.due = op[o].due
        /\ q.patch = op[o].patch /\ q.need = op[o].need
    BY <1>1, <2>1, <2>2, <2>3 DEF OpType
  <2> QED BY <2>4 DEF c, a, s
<1> HIDE DEF q
<1>4. /\ m \in OpType /\ m.call = q.call /\ m.phase \in {q.phase, "stuck"} /\ m.applied = q.applied /\ m.seen = q.seen
      /\ \/ m.client = q.client /\ m.keys = q.keys
         \/ m.applied = Quorum /\ m.client = "iterating" /\ m.keys = (m.seen # {})
      /\ m.result = q.result
      /\ m.count = q.count /\ m.left = q.left /\ m.value = q.value /\ m.due = q.due
      /\ m.patch = q.patch /\ m.need = q.need
  <2>1. CASE q.applied # Quorum
    <3>1. m = q
      BY <2>1
    <3> QED BY <1>3, <3>1
  <2>2. CASE q.applied = Quorum /\ q.client = "waiting"
    <3> DEFINE t == (q.seen # {})
    <3>1. m = [q EXCEPT !.client = "iterating", !.keys = t] /\ t \in BOOLEAN
      BY <2>2
    <3>2. t = (q.seen # {})
      OBVIOUS
    <3> HIDE DEF m, t
    <3>3. m \in OpType
      BY <1>3, <3>1 DEF OpType
    <3>4. /\ m.call = q.call /\ m.phase = q.phase /\ m.applied = q.applied /\ m.seen = q.seen
          /\ m.client = "iterating" /\ m.keys = t /\ m.result = q.result
          /\ m.count = q.count /\ m.left = q.left /\ m.value = q.value /\ m.due = q.due
          /\ m.patch = q.patch /\ m.need = q.need
      BY <1>3, <3>1 DEF OpType
    <3> QED BY <2>2, <3>2, <3>3, <3>4
  <2>3. CASE q.applied = Quorum /\ q.client # "waiting"
    <3>1. m = [q EXCEPT !.phase = "stuck"]
      BY <2>3
    <3> HIDE DEF m
    <3> QED BY <1>3, <3>1 DEF OpType
  <2> QED BY <2>1, <2>2, <2>3, SMTT(40)
<1> HIDE DEF m
<1>5. Taken(m, op[o], n)
  BY <1>1, <1>3, <1>4 DEF Taken
<1>6. \/ m.client = op[o].client /\ m.keys = op[o].keys /\ m.result = op[o].result
      \/ m.applied = Quorum /\ m.client = "iterating" /\ m.keys = (m.seen # {})
  BY <1>3, <1>4
<1>7. /\ m.count = op[o].count
      /\ \/ op[o].call[n] # "ok" /\ m.applied = op[o].applied
         \/ op[o].call[n] = "ok" /\ m.applied = op[o].applied + 1 /\ (n \in m.seen \/ m.value[n] = {})
  BY <1>3, <1>4
<1> QED BY <1>1, <1>2, <1>5, <1>6, <1>7, ReadTakenInv

LEMMA CollectStatusInv ==
  ASSUME IInv, NEW o \in Ops, NEW n \in Nodes, CollectStatus(o, n)
  PROVE  IInv'
<1>1. /\ op[o] \in OpType /\ op[o].phase = "collecting" /\ plan[o] \notin Reads /\ plan[o] \notin Writes
      /\ UNCHANGED <<replicas, plan, noSite, store, late, repair, stopped, settled>>
      /\ op[o].call[n] \in Answers /\ OpSound(o, plan[o], op[o], replicas, store) /\ replicas \in SUBSET Nodes
  BY DEF IInv, TypeInv, CollectStatus, Collecting, Reads, Writes
<1> DEFINE q == [op[o] EXCEPT !.call[n] = "done", !.applied = @ + 1]
           m == CASE op[o].call[n] = "ok" -> q
                  [] op[o].call[n] # "ok" /\ q.client = "waiting" -> [q EXCEPT !.client = "ok", !.open = FALSE]
                  [] op[o].call[n] # "ok" /\ q.client # "waiting" -> [q EXCEPT !.phase = "stuck"]
<1>2. op' = [op EXCEPT ![o] = m]
  BY DEF CollectStatus
<1>3. /\ q \in OpType /\ q.call = [op[o].call EXCEPT ![n] = "done"] /\ q.phase = op[o].phase
      /\ q.applied = op[o].applied + 1 /\ q.seen = op[o].seen
      /\ q.count = op[o].count /\ q.left = op[o].left /\ q.value = op[o].value /\ q.due = op[o].due
      /\ q.patch = op[o].patch /\ q.need = op[o].need
  <2> DEFINE c == [op[o].call EXCEPT ![n] = "done"]
             a == op[o].applied + 1
  <2>1. c \in [Nodes -> {"none", "sent", "done"} \cup Answers]
    BY <1>1, CallDone
  <2>2. a \in Nat
    BY <1>1 DEF OpType
  <2>3. q = [op[o] EXCEPT !.call = c, !.applied = a]
    BY <1>1 DEF OpType
  <2> HIDE DEF c, a, q
  <2>4. /\ q \in OpType /\ q.call = c /\ q.phase = op[o].phase /\ q.applied = a /\ q.seen = op[o].seen
        /\ q.count = op[o].count /\ q.left = op[o].left /\ q.value = op[o].value /\ q.due = op[o].due
        /\ q.patch = op[o].patch /\ q.need = op[o].need
    BY <1>1, <2>1, <2>2, <2>3 DEF OpType
  <2> QED BY <2>4 DEF c, a
<1> HIDE DEF q
<1>4. /\ m \in OpType /\ m.call = q.call /\ m.phase \in {q.phase, "stuck"} /\ m.applied = q.applied /\ m.seen = q.seen
      /\ m.count = q.count /\ m.left = q.left /\ m.value = q.value /\ m.due = q.due
      /\ m.patch = q.patch /\ m.need = q.need
  <2>1. CASE m = q
    BY <1>3, <2>1
  <2>2. CASE m = [q EXCEPT !.client = "ok", !.open = FALSE]
    <3> HIDE DEF m
    <3> QED BY <1>3, <2>2 DEF OpType
  <2>3. CASE m = [q EXCEPT !.phase = "stuck"]
    <3> HIDE DEF m
    <3> QED BY <1>3, <2>3 DEF OpType
  <2> QED BY <2>1, <2>2, <2>3
<1> HIDE DEF m
<1>5. Taken(m, op[o], n) /\ Counted(op[o], replicas)
  BY <1>1, <1>3, <1>4 DEF Taken, OpSound
<1>6. Counted(m, replicas)
  BY <1>1, <1>5, TakenCounted
<1>7. OpSound(o, plan[o], m, replicas, store)
  BY <1>1, <1>3, <1>4, <1>6 DEF OpSound
<1> QED BY <1>1, <1>2, <1>4, <1>7, OpKeeps

LEMMA IterateInv ==
  ASSUME IInv, NEW o \in Ops, Iterate(o)
  PROVE  IInv'
<1>1. /\ op[o] \in OpType /\ op[o].client = "iterating"
      /\ UNCHANGED <<replicas, plan, noSite, store, late, repair, stopped, settled>>
      /\ OpSound(o, plan[o], op[o], replicas, store)
  BY DEF IInv, TypeInv, Iterate
<1>2. PICK v \in IF op[o].keys THEN {Merged(op[o])} ELSE {{}, Merged(op[o])} :
        op' = [op EXCEPT ![o].client = "ok", ![o].result = v]
  BY DEF Iterate
<1>3. Merged(op[o]) \in SUBSET Dots
  BY <1>1, MergedIsDots
<1>4. v \in SUBSET Dots /\ (op[o].keys => v = Merged(op[o]))
  BY <1>2, <1>3
<1> DEFINE m == [op[o] EXCEPT !.client = "ok", !.result = v]
<1>5. op' = [op EXCEPT ![o] = m]
  BY <1>2 DEF IInv, TypeInv
<1>6. /\ m \in OpType /\ m.call = op[o].call /\ m.phase = op[o].phase
      /\ m.applied = op[o].applied /\ m.seen = op[o].seen /\ m.client = "ok" /\ m.result = v
      /\ m.count = op[o].count /\ m.left = op[o].left /\ m.value = op[o].value /\ m.due = op[o].due
      /\ m.patch = op[o].patch /\ m.need = op[o].need
  BY <1>1, <1>4 DEF OpType
<1> HIDE DEF m
<1>7. plan[o] \notin Writes /\ op[o].phase # "idle"
  BY <1>1 DEF OpSound, WriteSound, Counted
<1>8. Counted(m, replicas)
  BY <1>1, <1>6, <1>7 DEF OpSound, Counted
<1>9. ASSUME plan[o] \in Reads PROVE ReadSound(m, replicas, store)
  <2>1. ReadSound(op[o], replicas, store)
    BY <1>1, <1>9 DEF OpSound
  <2>2. m.due \subseteq m.result
    BY <1>1, <1>4, <1>6, <2>1 DEF ReadSound
  <2>3. m.phase = "collecting" => ReadCount(m, replicas, store)
    <3>1. op[o].phase = "collecting" => ReadCount(op[o], replicas, store)
      BY <2>1 DEF ReadSound
    <3> QED BY <1>6, <3>1 DEF ReadCount, Witnesses
  <2> QED BY <1>6, <2>1, <2>2, <2>3 DEF ReadSound
<1>10. OpSound(o, plan[o], m, replicas, store)
  BY <1>1, <1>6, <1>7, <1>8, <1>9 DEF OpSound
<1> QED BY <1>1, <1>5, <1>6, <1>10, OpKeeps

LEMMA EndMergeInv ==
  ASSUME IInv, NEW o \in Ops, EndMerge(o)
  PROVE  IInv'
<1>1. /\ op[o] \in OpType /\ op[o].phase = "collecting" /\ plan[o] \in Writes /\ plan[o] \notin Reads
      /\ UNCHANGED <<replicas, plan, noSite, store, late, repair, stopped, settled>>
      /\ OpSound(o, plan[o], op[o], replicas, store) /\ replicas \in SUBSET Nodes
  BY DEF IInv, TypeInv, EndMerge, AllAnswered, Reads, Writes
<1> DEFINE waiting == op[o].client = "waiting"
           c == IF waiting THEN op[o].error ELSE op[o].client
           k == IF waiting THEN op[o].count + op[o].applied ELSE op[o].count
           m == [op[o] EXCEPT !.phase = "ended", !.open = FALSE, !.client = c, !.count = k]
<1>2. op' = [op EXCEPT ![o] = m]
  <2>1. CASE waiting
    BY <2>1 DEF EndMerge
  <2>2. CASE ~waiting
    <3>1. m = [op[o] EXCEPT !.phase = "ended", !.open = FALSE]
      BY <1>1, <2>2 DEF OpType
    <3>2. op' = [op EXCEPT ![o] = [op[o] EXCEPT !.phase = "ended", !.open = FALSE]]
      BY <2>2 DEF EndMerge
    <3> HIDE DEF m
    <3> QED BY <3>1, <3>2
  <2> QED BY <2>1, <2>2
<1>3. /\ c \in {"none", "waiting", "iterating", "ok", "ENoQuorum"} \cup Refusals
      /\ k \in Nat /\ op[o].error \notin {"ok", "iterating"}
      /\ op[o].count \in Nat /\ op[o].applied \in Nat
  BY <1>1 DEF OpType, Refusals
<1>4. WriteSound(o, plan[o], op[o], replicas, store) /\ Merging(plan[o], op[o], replicas, store)
      /\ Counted(op[o], replicas)
  BY <1>1 DEF OpSound, WriteSound
<1>5. k = 0 \/ k <= Cardinality(Holding(replicas, op[o].patch, store))
  <2>1. CASE waiting
    <3> DEFINE X == {n \in Holding(replicas, op[o].patch, store) : op[o].call[n] \in {"none", "done"}}
               Y == Holding(replicas, op[o].patch, store)
    <3>1. k <= Cardinality(X)
      BY <1>3, <1>4, <2>1 DEF Merging, Base
    <3>2. X \subseteq Y /\ Y \in SUBSET replicas
      BY DEF Holding
    <3>3. Cardinality(X) <= Cardinality(Y) /\ Cardinality(X) \in Nat /\ Cardinality(Y) \in Nat
      <4> HIDE DEF X, Y
      <4> QED BY <3>2, QuorumIs, CardSubset DEF IInv
    <3> HIDE DEF X, k
    <3> QED BY <1>3, <3>1, <3>3
  <2>2. CASE ~waiting
    BY <1>4, <2>2 DEF WriteSound
  <2> QED BY <2>1, <2>2
<1>6. c # "iterating" /\ (c = "ok" => k >= NQuorum(Cardinality(replicas)))
  BY <1>3, <1>4 DEF WriteSound
<1> HIDE DEF c, k
<1>7. /\ m \in OpType /\ m.call = op[o].call /\ m.phase = "ended"
      /\ m.applied = op[o].applied /\ m.seen = op[o].seen /\ m.client = c
      /\ m.count = k /\ m.left = op[o].left /\ m.patch = op[o].patch
  BY <1>1, <1>3 DEF OpType
<1> HIDE DEF m
<1>8. Counted(m, replicas)
  BY <1>4, <1>7 DEF Counted
<1>9. WriteSound(o, plan[o], m, replicas, store)
  BY <1>5, <1>6, <1>7 DEF WriteSound
<1>10. OpSound(o, plan[o], m, replicas, store)
  BY <1>1, <1>8, <1>9 DEF OpSound
<1> QED BY <1>1, <1>2, <1>7, <1>10, OpKeeps

\* A read's merged value is durable once every replica it read from has all of it, if they are
\* a quorum.
LEMMA SettlesHeld ==
  ASSUME IInv, NEW o \in Ops, NEW st, \A n \in op[o].seen : Merged(op[o]) \subseteq st[n]
  PROVE  Settles(o) \in SUBSET Dots /\ \A d \in Settles(o) : Cardinality(Holding(replicas, {d}, st)) >= Quorum
<1>1. op[o] \in OpType /\ op[o].seen \in SUBSET replicas
  BY DEF IInv, TypeInv, OpSound, Counted
<1>2. IsFiniteSet(replicas) /\ Quorum \in Nat
  BY QuorumIs DEF IInv
<1>3. Settles(o) \in SUBSET Dots
  BY <1>1, MergedIsDots DEF Settles
<1>4. ASSUME NEW d \in Settles(o) PROVE Cardinality(Holding(replicas, {d}, st)) >= Quorum
  <2>1. d \in Merged(op[o]) /\ Cardinality(op[o].seen) >= Quorum
    BY DEF Settles
  <2>2. op[o].seen \subseteq Holding(replicas, {d}, st) /\ Holding(replicas, {d}, st) \in SUBSET replicas
    BY <1>1, <2>1 DEF Holding
  <2>3. /\ Cardinality(op[o].seen) <= Cardinality(Holding(replicas, {d}, st))
        /\ Cardinality(op[o].seen) \in Nat /\ Cardinality(Holding(replicas, {d}, st)) \in Nat
    BY <1>2, <2>2, CardSubset
  <2> QED BY <1>2, <2>1, <2>3
<1> QED BY <1>3, <1>4

LEMMA EndReadInv ==
  ASSUME IInv, NEW o \in Ops, EndRead(o)
  PROVE  IInv'
<1>1. /\ op[o] \in OpType /\ op[o].phase = "collecting" /\ plan[o] \in Reads /\ plan[o] \notin Writes
      /\ UNCHANGED <<replicas, plan, noSite, store, late, stopped>>
      /\ OpSound(o, plan[o], op[o], replicas, store) /\ replicas \in SUBSET Nodes
  BY DEF IInv, TypeInv, EndRead, AllAnswered, Reads, Writes
<1> DEFINE c == IF op[o].client = "waiting" THEN op[o].error ELSE op[o].client
           m == [op[o] EXCEPT !.phase = "ended", !.open = FALSE, !.client = c]
<1>2. op' = [op EXCEPT ![o] = m]
  BY DEF EndRead
<1>3. /\ c \in {"none", "waiting", "iterating", "ok", "ENoQuorum"} \cup Refusals
      /\ c \in {"ok", "iterating"} => c = op[o].client
  BY <1>1 DEF OpType, Refusals
<1> HIDE DEF c
<1>4. /\ m \in OpType /\ m.call = op[o].call /\ m.phase = "ended" /\ m.value = op[o].value
      /\ m.applied = op[o].applied /\ m.seen = op[o].seen /\ m.client = c /\ m.keys = op[o].keys
      /\ m.count = op[o].count /\ m.left = op[o].left /\ m.due = op[o].due /\ m.result = op[o].result
  BY <1>1, <1>3 DEF OpType
<1> HIDE DEF m
<1>5. Counted(op[o], replicas) /\ ReadSound(op[o], replicas, store) /\ op[o].count = 0
  BY <1>1 DEF OpSound
<1>6. Counted(m, replicas)
  BY <1>4, <1>5 DEF Counted
<1>7. ReadSound(m, replicas, store)
  <2>1. Merged(m) = Merged(op[o])
    BY <1>4 DEF Merged
  <2> QED BY <1>3, <1>4, <1>5, <2>1 DEF ReadSound
<1>8. OpSound(o, plan[o], m, replicas, store')
  BY <1>1, <1>4, <1>5, <1>6, <1>7 DEF OpSound
<1>9. repair' \in [Ops -> [Nodes -> SUBSET Dots]]
  <2>1. Patch(op[o]) \in [Nodes -> SUBSET Dots]
    BY <1>1, MergedIsDots DEF Patch
  <2>2. repair \in [Ops -> [Nodes -> SUBSET Dots]]
    BY DEF IInv, TypeInv
  <2> QED BY <2>1, <2>2 DEF EndRead
<1>10. settled' \in SUBSET Dots
       /\ \A d \in settled' \ settled : Cardinality(Holding(replicas, {d}, store')) >= Quorum
  <2>1. CASE \A n \in op[o].seen : Patch(op[o])[n] = {}
    <3>1. ASSUME NEW n \in op[o].seen PROVE Merged(op[o]) \subseteq store[n]
      <4>1. n \in Nodes
        BY <1>1 DEF OpType
      <4>2. Merged(op[o]) \subseteq op[o].value[n]
        BY <2>1, <4>1 DEF Patch
      <4> QED BY <1>5, <4>1, <4>2 DEF ReadSound
    <3>2. Settles(o) \in SUBSET Dots /\ \A d \in Settles(o) : Cardinality(Holding(replicas, {d}, store)) >= Quorum
      BY <3>1, SettlesHeld
    <3>3. settled' = settled \cup Settles(o)
      BY <2>1 DEF EndRead
    <3> QED BY <1>1, <3>2, <3>3 DEF IInv, TypeInv
  <2>2. CASE ~(\A n \in op[o].seen : Patch(op[o])[n] = {})
    <3>1. settled' = settled
      BY <2>2 DEF EndRead
    <3> QED BY <3>1 DEF IInv, TypeInv
  <2> QED BY <2>1, <2>2
<1> QED BY <1>1, <1>2, <1>4, <1>8, <1>9, <1>10, StepKeeps DEF IInv, TypeInv

LEMMA EndStatusInv ==
  ASSUME IInv, NEW o \in Ops, EndStatus(o)
  PROVE  IInv'
<1>1. /\ op[o] \in OpType /\ op[o].phase = "collecting" /\ plan[o] \notin Reads /\ plan[o] \notin Writes
      /\ UNCHANGED <<replicas, plan, noSite, store, late, repair, stopped, settled>>
      /\ OpSound(o, plan[o], op[o], replicas, store)
  BY DEF IInv, TypeInv, EndStatus, AllAnswered, Reads, Writes
<1> DEFINE c == CASE op[o].client # "waiting" -> op[o].client
                  [] op[o].client = "waiting" /\ op[o].error = "none" -> "ok"
                  [] OTHER -> op[o].error
           m == IF op[o].error = "none" /\ op[o].client # "waiting"
                THEN [op[o] EXCEPT !.phase = "stuck"]
                ELSE [op[o] EXCEPT !.phase = "ended", !.open = FALSE, !.client = c]
<1>2. op' = [op EXCEPT ![o] = m]
  BY DEF EndStatus
<1>3. c \in {"none", "waiting", "iterating", "ok", "ENoQuorum"} \cup Refusals
  BY <1>1 DEF OpType, Refusals
<1> HIDE DEF c
<1>4. /\ m \in OpType /\ m.call = op[o].call /\ m.phase \in {"stuck", "ended"}
      /\ m.applied = op[o].applied /\ m.seen = op[o].seen /\ m.count = op[o].count /\ m.left = op[o].left
  <2>1. CASE m = [op[o] EXCEPT !.phase = "stuck"]
    <3> HIDE DEF m
    <3> QED BY <1>1, <2>1 DEF OpType
  <2>2. CASE m = [op[o] EXCEPT !.phase = "ended", !.open = FALSE, !.client = c]
    <3> HIDE DEF m
    <3> QED BY <1>1, <1>3, <2>2 DEF OpType
  <2> QED BY <2>1, <2>2
<1> HIDE DEF m
<1>5. Counted(m, replicas)
  BY <1>1, <1>4 DEF OpSound, Counted
<1>6. OpSound(o, plan[o], m, replicas, store)
  BY <1>1, <1>4, <1>5 DEF OpSound
<1> QED BY <1>1, <1>2, <1>4, <1>6, OpKeeps

-----------------------------------------------------------------------------
(* Read repair, shutdown *)

LEMMA RepairInv ==
  ASSUME IInv, NEW o \in Ops, NEW n \in Nodes, Repair(o, n)
  PROVE  IInv'
<1>1. TypeInv /\ UNCHANGED <<replicas, plan, noSite, op, late, stopped>>
      /\ repair[o][n] \in SUBSET Dots
  BY DEF IInv, TypeInv, Repair
<1>2. Grown
  BY <1>1, WithGrows, SameGrows DEF Repair
<1>3. repair' \in [Ops -> [Nodes -> SUBSET Dots]]
  <2>1. repair \in [Ops -> [Nodes -> SUBSET Dots]]
    BY <1>1 DEF TypeInv
  <2> QED BY <2>1 DEF Repair
<1>4. settled' \in SUBSET Dots
      /\ \A d \in settled' \ settled : Cardinality(Holding(replicas, {d}, store')) >= Quorum
  <2>1. CASE \A k \in op[o].seen : Merged(op[o]) \subseteq store'[k]
    <3>1. PICK st : st = store'
      OBVIOUS
    <3>2. Settles(o) \in SUBSET Dots /\ \A d \in Settles(o) : Cardinality(Holding(replicas, {d}, st)) >= Quorum
      BY <2>1, <3>1, SettlesHeld
    <3>3. settled' = settled \cup Settles(o)
      BY <2>1 DEF Repair
    <3> QED BY <1>1, <3>1, <3>2, <3>3 DEF TypeInv
  <2>2. CASE ~(\A k \in op[o].seen : Merged(op[o]) \subseteq store'[k])
    <3>1. settled' = settled
      BY <2>2 DEF Repair
    <3> QED BY <1>1, <3>1 DEF TypeInv
  <2> QED BY <2>1, <2>2
<1>5. late' \in SUBSET (Ops \X Nodes \X Writes) /\ stopped' \in BOOLEAN
  BY <1>1 DEF TypeInv
<1> QED BY <1>1, <1>2, <1>3, <1>4, <1>5, GrownKeeps

LEMMA CancelAllInv ==
  ASSUME IInv, NEW o \in Ops, CancelAll(o)
  PROVE  IInv'
<1>1. /\ op \in [Ops -> OpType] /\ plan[o] \notin Reads /\ plan[o] \notin Writes
      /\ UNCHANGED <<replicas, plan, noSite, store, late, repair, settled>> /\ stopped' = TRUE
  BY DEF IInv, TypeInv, CancelAll, Reads, Writes
<1>2. ASSUME NEW p \in Ops PROVE op'[p] \in OpType /\ OpSound(p, plan[p], op'[p], replicas, store)
  <2>1. op[p] \in OpType /\ OpSound(p, plan[p], op[p], replicas, store)
    BY <1>1 DEF IInv
  <2> DEFINE f == IF p = o THEN "ended" ELSE op[p].phase
             m == [op[p] EXCEPT !.open = FALSE, !.phase = f]
  <2>2. op'[p] = m
    BY DEF CancelAll
  <2>3. /\ f \in {"idle", "batching", "collecting", "stuck", "ended"}
        /\ f = op[p].phase \/ (p = o /\ f = "ended")
    BY <2>1 DEF OpType
  <2> HIDE DEF f
  <2>4. /\ m \in OpType /\ m.phase = f /\ m.client = op[p].client /\ m.left = op[p].left /\ m.need = op[p].need
        /\ m.call = op[p].call /\ m.applied = op[p].applied /\ m.patch = op[p].patch
        /\ m.value = op[p].value /\ m.seen = op[p].seen /\ m.keys = op[p].keys /\ m.result = op[p].result
        /\ m.count = op[p].count /\ m.due = op[p].due
    BY <2>1, <2>3 DEF OpType
  <2> HIDE DEF m
  <2>5. Counted(m, replicas)
    BY <2>1, <2>3, <2>4 DEF OpSound, Counted
  <2>6. CASE p = o
    BY <1>1, <2>1, <2>2, <2>3, <2>4, <2>5, <2>6 DEF OpSound
  <2>7. CASE p # o
    <3>1. m.phase = op[p].phase
      BY <2>3, <2>4, <2>7
    <3>2. plan[p] \in Writes => WriteSound(p, plan[p], m, replicas, store)
      BY <2>1, <2>4, <3>1 DEF OpSound, WriteSound, Batching, Merging
    <3>3. ASSUME plan[p] \in Reads PROVE ReadSound(m, replicas, store)
      <4>1. ReadSound(op[p], replicas, store)
        BY <2>1, <3>3 DEF OpSound
      <4>2. op[p].phase = "collecting" => ReadCount(m, replicas, store)
        BY <2>4, <4>1 DEF ReadSound, ReadCount, Witnesses
      <4>3. Merged(m) = Merged(op[p])
        BY <2>4 DEF Merged
      <4> QED BY <2>4, <3>1, <4>1, <4>2, <4>3 DEF ReadSound
    <3> QED BY <2>1, <2>2, <2>4, <2>5, <3>1, <3>2, <3>3 DEF OpSound
  <2> QED BY <2>6, <2>7
<1>3. TypeInv'
  <2> DEFINE F(p) == [op[p] EXCEPT !.open = FALSE, !.phase = IF p = o THEN "ended" ELSE op[p].phase]
  <2>1. op' = [p \in Ops |-> F(p)]
    BY DEF CancelAll
  <2> HIDE DEF F
  <2>2. \A p \in Ops : F(p) \in OpType
    BY <1>2, <2>1
  <2>3. op' \in [Ops -> OpType]
    BY <2>1, <2>2
  <2> QED BY <1>1, <2>3 DEF IInv, TypeInv
<1>4. SettledAtQuorum'
  BY <1>1 DEF IInv, SettledAtQuorum, Copies, Quorum
<1> QED BY <1>1, <1>2, <1>3, <1>4 DEF IInv

-----------------------------------------------------------------------------
(* The invariant *)

LEMMA NextInv == IInv /\ [Next]_vars => IInv'
<1> SUFFICES ASSUME IInv, [Next]_vars PROVE IInv'
  OBVIOUS
<1>1. CASE UNCHANGED vars
  BY <1>1 DEF vars, IInv, TypeInv, SettledAtQuorum, Copies, Quorum
<1>2. ASSUME NEW o \in Ops,
             StartBatch(o) \/ StartMerge(o) \/ StartRead(o) \/ TryBatch(o)
               \/ Iterate(o) \/ EndOperation(o) \/ CancelAll(o)
      PROVE  IInv'
  BY <1>2, StartBatchInv, StartMergeInv, StartReadInv, TryBatchInv, IterateInv, EndMergeInv, EndReadInv,
     EndStatusInv, CancelAllInv DEF EndOperation
<1>3. ASSUME NEW o \in Ops, NEW n \in Nodes,
             \/ Serve(o, n) \/ GiveUp(o, n) \/ BatchAnswer(o, n) \/ Collect(o, n) \/ Repair(o, n)
             \/ \E w \in Writes : ServeLate(o, n, w)
      PROVE  IInv'
  <2>1. CASE Collect(o, n)
    BY <2>1, CollectFailureInv, CollectMergeInv, CollectGetInv, CollectMatchesInv, CollectStatusInv DEF Collect
  <2>2. CASE \E w \in Writes : ServeLate(o, n, w)
    BY <2>2, ServeLateInv
  <2> QED BY <1>3, <2>1, <2>2, ServeInv, GiveUpInv, BatchAnswerInv, RepairInv
<1> QED BY <1>1, <1>2, <1>3 DEF Next

\* IInv is inductive, hence an invariant.
THEOREM BookkeepingSound == Spec => []IInv
<1> QED BY InitInv, NextInv, PTL DEF Spec

LEMMA TypeImplied ==
  ASSUME IInv
  PROVE  TypeOK
<1>1. TypeInv
  BY DEF IInv
<1>2. ASSUME NEW o \in Ops
      PROVE  /\ op[o].phase \in {"idle", "batching", "collecting", "stuck", "ended"}
             /\ op[o].client \in {"none", "waiting", "iterating", "ok", "ENoQuorum"} \cup Refusals
             /\ op[o].call \in [Nodes -> {"none", "sent", "done"} \cup Answers]
             /\ op[o].applied <= Cardinality(Nodes) /\ op[o].count <= Cardinality(Nodes)
             /\ op[o].seen \subseteq replicas /\ op[o].left \subseteq replicas
  <2>1. op[o] \in OpType /\ OpSound(o, plan[o], op[o], replicas, store) /\ replicas \in SUBSET Nodes
    BY DEF IInv, TypeInv
  <2>2. Counted(op[o], replicas)
    BY <2>1 DEF OpSound
  <2> DEFINE D == {n \in replicas : op[o].call[n] = "done"}
             H == Holding(replicas, op[o].patch, store)
  <2>3. D \in SUBSET Nodes /\ H \in SUBSET Nodes
    BY <2>1 DEF Holding
  <2>4. /\ Cardinality(D) \in Nat /\ Cardinality(H) \in Nat /\ Cardinality(Nodes) \in Nat
        /\ Cardinality(D) <= Cardinality(Nodes) /\ Cardinality(H) <= Cardinality(Nodes)
    <3> HIDE DEF D, H
    <3> QED BY <2>3, NodesAssumption, CardSubset
  <2>5. op[o].applied <= Cardinality(D) /\ op[o].seen \subseteq D /\ op[o].left \subseteq replicas
    BY <2>2 DEF Counted
  <2>6. op[o].count = 0 \/ op[o].count <= Cardinality(H)
    BY <2>1 DEF OpSound, WriteSound
  <2>7. op[o].applied \in Nat /\ op[o].count \in Nat
    BY <2>1 DEF OpType
  <2>8. op[o].seen \subseteq replicas
    BY <2>5
  <2>9. op[o].applied <= Cardinality(Nodes) /\ op[o].count <= Cardinality(Nodes)
    <3> HIDE DEF D, H
    <3> QED BY <2>4, <2>5, <2>6, <2>7
  <2> QED BY <2>1, <2>5, <2>8, <2>9 DEF OpType
<1> QED BY <1>1, <1>2 DEF TypeInv, TypeOK

LEMMA CountsImplied ==
  ASSUME IInv
  PROVE  CountsTruthful
<1> SUFFICES ASSUME NEW o \in Ops, plan[o] \in Writes, op[o].client \notin {"none", "waiting"},
                    BatchReply(op[o]).status = 200
             PROVE  LET r == BatchReply(op[o]) IN
                    /\ r.applied = 0 \/ r.applied <= Cardinality(Copies(op[o].patch))
                    /\ r.quorum => r.applied >= Quorum
  BY DEF CountsTruthful
<1>1. WriteSound(o, plan[o], op[o], replicas, store) /\ op[o] \in OpType
  BY DEF IInv, TypeInv, OpSound
<1>2. op[o].client \in {"ok", "ENoQuorum"}
  BY DEF BatchReply
<1>3. BatchReply(op[o]) = [status |-> 200, quorum |-> op[o].client = "ok", applied |-> op[o].count]
  BY <1>2 DEF BatchReply
<1>4. Holding(replicas, op[o].patch, store) = Copies(op[o].patch)
  BY DEF Holding, Copies
<1>5. Quorum = NQuorum(Cardinality(replicas))
  BY QuorumIs DEF IInv
<1>6. /\ op[o].count = 0 \/ op[o].count <= Cardinality(Copies(op[o].patch))
      /\ op[o].client = "ok" => op[o].count >= Quorum
  BY <1>1, <1>4, <1>5 DEF WriteSound
<1>7. BatchReply(op[o]).applied = op[o].count /\ BatchReply(op[o]).quorum = (op[o].client = "ok")
  BY <1>3
<1> QED BY <1>6, <1>7

LEMMA ReadsImplied ==
  ASSUME IInv
  PROVE  ReadsSeeSettled
<1> SUFFICES ASSUME NEW o \in Ops, plan[o] \in {"get", "matches"}, KeysReply(op[o]).status = 200
             PROVE  op[o].due \subseteq KeysReply(op[o]).value
  BY DEF ReadsSeeSettled
<1>1. op[o].client = "ok"
  BY DEF KeysReply
<1>2. ReadSound(op[o], replicas, store)
  BY DEF IInv, OpSound, Reads
<1>3. KeysReply(op[o]) = [status |-> 200, value |-> op[o].result]
  BY <1>1 DEF KeysReply
<1> QED BY <1>1, <1>2, <1>3 DEF ReadSound

\* The number of applied replicas that Agent.Batch and Merge report is never more than really
\* have the update, and a reported quorum is one, however many calls fail, time out or arrive late.
THEOREM CountsStaySound == Spec => []CountsSound
<1>1. IInv => CountsSound
  BY TypeImplied, CountsImplied DEF CountsSound
<1> QED BY <1>1, BookkeepingSound, PTL

\* What a client of Agent.Batch, Merge or Get was told is durable is stored at a quorum of the
\* replicas, for any number of replicas and operations.
THEOREM SettledStaysAtQuorum == Spec => []SettledAtQuorum
<1>1. IInv => SettledAtQuorum
  BY DEF IInv
<1> QED BY <1>1, BookkeepingSound, PTL

\* Read your writes: Agent.Get and GetMatches return what was durable when they began, because
\* NQuorum replicas that answered meet the NQuorum replicas that store it.
THEOREM ReadsAlwaysSeeSettled == Spec => []ReadsSeeSettled
<1>1. IInv => ReadsSeeSettled
  BY ReadsImplied
<1> QED BY <1>1, BookkeepingSound, PTL
=============================================================================
