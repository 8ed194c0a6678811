------------------------- MODULE ReplicatedKey_proof -------------------------
(***************************************************************************)
(* Proofs about ReplicatedKey for any set of replicas, any number of       *)
(* updates and both conflict resolution strategies.                        *)
(***************************************************************************)
EXTENDS ReplicatedKey, FiniteSetTheorems, WellFoundedInduction, TLAPS

-----------------------------------------------------------------------------
(* Arithmetic *)

\* A non-empty set of naturals has a least element.
LEMMA NatMin ==
  ASSUME NEW T, T \subseteq Nat, T # {}
  PROVE  \E x \in T : \A y \in T : x <= y
<1> DEFINE R == {ss \in Nat \X Nat : ss[1] < ss[2]}
<1>1. IsWellFoundedOn(R, Nat)
  BY NatLessThanWellFounded, Zenon DEF OpToRel
<1>2. PICK x \in T : \A y \in T : ~ (<<y, x>> \in R)
  <2> HIDE DEF R
  <2> QED BY <1>1, WFMin, Zenon
<1>3. ASSUME NEW y \in T PROVE x <= y
  <2>1. ~ (<<y, x>> \in R)
    BY <1>2
  <2>2. x \in Nat /\ y \in Nat
    BY <1>2
  <2> QED BY <2>1, <2>2
<1> QED BY <1>2, <1>3

\* A non-empty bounded set of naturals contains its Max.
LEMMA MaxIs ==
  ASSUME NEW T, T \subseteq Nat, T # {}, NEW b \in Nat, \A x \in T : x <= b
  PROVE  Max(T) \in T /\ \A y \in T : y <= Max(T)
<1> DEFINE U == {u \in Nat : \A x \in T : x <= u}
<1>1. PICK m \in U : \A y \in U : m <= y
  <2>1. U # {}
    OBVIOUS
  <2>2. U \subseteq Nat
    OBVIOUS
  <2> HIDE DEF U
  <2> QED BY <2>1, <2>2, NatMin
<1>2. m \in Nat /\ \A y \in T : y <= m
  OBVIOUS
<1>3. m \in T
  <2> SUFFICES ASSUME m \notin T PROVE FALSE
    OBVIOUS
  <2>1. \A x \in T : x \in Nat /\ x < m
    BY <1>2
  <2>2. m > 0
    <3>1. PICK t \in T : TRUE
      OBVIOUS
    <3> QED BY <3>1, <2>1, <1>2
  <2>3. m - 1 \in Nat /\ \A x \in T : x <= m - 1
    BY <2>1, <2>2, <1>2
  <2>4. m - 1 \in U
    BY <2>3
  <2> QED BY <2>4, <1>1, <1>2
<1>4. \A x \in T : (\A y \in T : x >= y) => x = m
  BY <1>2, <1>3
<1> QED BY <1>2, <1>3, <1>4 DEF Max

LEMMA MinIs ==
  ASSUME NEW T, T \subseteq Nat, T # {}
  PROVE  Min(T) \in T
BY NatMin DEF Min

-----------------------------------------------------------------------------
(* Sibling sets *)

Bounded(S) == \E b \in Nat : \A s \in S, n \in Node : MaxDot(s, n) <= b

Concurrent(S) == \A s, t \in S : ~HappenedBefore(s, t)

\* What every stored and every transmitted sibling set satisfies.
Good(S) == S \subseteq Siblings /\ IsFiniteSet(S) /\ Bounded(S) /\ Concurrent(S)

LEMMA MaxDotIs ==
  ASSUME NEW s \in Siblings, NEW n \in Node
  PROVE  /\ MaxDot(s, n) \in Nat
         /\ s.ctx[n] <= MaxDot(s, n)
         /\ s.count <= MaxDot(s, s.node)
         /\ s.ctx[n] \in Nat /\ s.count \in Nat /\ s.node \in Node
BY DEF MaxDot, Siblings, Clocks

LEMMA EmptyGood == Good({})
BY FS_EmptySet DEF Good, Bounded, Concurrent

LEMMA SubsetGood ==
  ASSUME NEW S, Good(S), NEW T, T \subseteq S
  PROVE  Good(T)
<1>1. IsFiniteSet(T)
  BY FS_Subset DEF Good
<1> QED BY <1>1 DEF Good, Bounded, Concurrent

\* JoinOne is an upper bound of the dots of a sibling set.
LEMMA JoinOneIs ==
  ASSUME NEW S, S \subseteq Siblings, Bounded(S), NEW n \in Node
  PROVE  /\ JoinOne(S, n) \in Nat
         /\ \A s \in S : MaxDot(s, n) <= JoinOne(S, n)
<1> DEFINE D == {0} \cup {MaxDot(s, n) : s \in S}
<1>1. PICK b \in Nat : \A s \in S : MaxDot(s, n) <= b
  BY DEF Bounded
<1>2. D \subseteq Nat /\ D # {}
  BY MaxDotIs
<1>3. \A x \in D : x <= b
  BY <1>1
<1>4. Max(D) \in D /\ \A y \in D : y <= Max(D)
  <2> HIDE DEF D
  <2> QED BY <1>2, <1>3, MaxIs
<1>5. JoinOne(S, n) = Max(D)
  BY DEF JoinOne
<1>6. Max(D) \in Nat
  BY <1>2, <1>4
<1>7. ASSUME NEW s \in S PROVE MaxDot(s, n) <= Max(D)
  <2>1. MaxDot(s, n) \in D
    OBVIOUS
  <2> HIDE DEF D
  <2> QED BY <2>1, <1>4
<1> HIDE DEF D
<1> QED BY <1>5, <1>6, <1>7

\* JoinOne is no larger than any bound of the dots.
LEMMA JoinOneAttained ==
  ASSUME NEW S, S \subseteq Siblings, NEW n \in Node, NEW b \in Nat,
         \A s \in S : MaxDot(s, n) <= b
  PROVE  JoinOne(S, n) <= b
<1> DEFINE D == {0} \cup {MaxDot(s, n) : s \in S}
<1>1. D \subseteq Nat /\ D # {} /\ \A y \in D : y <= b
  BY MaxDotIs
<1>2. Max(D) \in D
  <2> HIDE DEF D
  <2> QED BY <1>1, MaxIs
<1>3. JoinOne(S, n) = Max(D)
  BY DEF JoinOne
<1> HIDE DEF D
<1> QED BY <1>1, <1>2, <1>3

LEMMA JoinIs ==
  ASSUME NEW S, S \subseteq Siblings, Bounded(S)
  PROVE  Join(S) \in Clocks
BY JoinOneIs DEF Join, Clocks

\* The union of two sets is bounded when both are.
LEMMA UnionBounded ==
  ASSUME NEW S, NEW T, S \subseteq Siblings, T \subseteq Siblings, Bounded(S), Bounded(T)
  PROVE  Bounded(S \cup T)
<1>1. PICK b \in Nat : \A s \in S, n \in Node : MaxDot(s, n) <= b
  BY DEF Bounded
<1>2. PICK c \in Nat : \A s \in T, n \in Node : MaxDot(s, n) <= c
  BY DEF Bounded
<1>3. ASSUME NEW s \in S \cup T, NEW n \in Node PROVE MaxDot(s, n) <= b + c
  BY <1>1, <1>2, MaxDotIs
<1>4. b + c \in Nat
  OBVIOUS
<1> QED BY <1>3, <1>4 DEF Bounded

\* Sync of two good sets is good: a sibling that survives was compared with
\* every sibling of the other set.
LEMMA SyncGood ==
  ASSUME NEW S, NEW T, Good(S), Good(T)
  PROVE  Good(Sync(S, T))
<1>1. Sync(S, T) \subseteq S \cup T
  BY DEF Sync
<1>2. IsFiniteSet(Sync(S, T))
  <2>1. IsFiniteSet(S \cup T)
    BY FS_Union DEF Good
  <2> QED BY <2>1, <1>1, FS_Subset
<1>3. Bounded(Sync(S, T))
  <2>1. Bounded(S \cup T)
    BY UnionBounded DEF Good
  <2> QED BY <2>1, <1>1 DEF Bounded
<1>4. Concurrent(Sync(S, T))
  <2> SUFFICES ASSUME NEW s \in Sync(S, T), NEW t \in Sync(S, T)
               PROVE  ~HappenedBefore(s, t)
    BY DEF Concurrent
  <2>1. CASE s \in S /\ t \in S
    BY <2>1 DEF Good, Concurrent
  <2>2. CASE s \in T /\ t \in T
    BY <2>2 DEF Good, Concurrent
  <2>3. CASE s \in S /\ s \notin T /\ t \in T
    BY <2>3 DEF Sync
  <2>4. CASE s \in T /\ s \notin S /\ t \in S
    BY <2>4 DEF Sync
  <2> QED BY <2>1, <2>2, <2>3, <2>4, <1>1
<1> QED BY <1>1, <1>2, <1>3, <1>4 DEF Good

LEMMA ResolveGood ==
  ASSUME NEW S, Good(S), NEW R \in ResolveConflicts(S)
  PROVE  Good(R)
<1>1. R \subseteq S
  BY DEF ResolveConflicts, LastWriterWins, MultiValue
<1> QED BY <1>1, SubsetGood

\* The siblings MergeSync puts in the place of overwritten ones carry dots
\* above everything either set knows of the replica, so the replica's own
\* side of the merge is still a good set.
LEMMA RedottedGood ==
  ASSUME NEW S, NEW T, NEW r \in Node, Good(S), Good(T),
         NEW f \in Numberings(Overwritten(S, T, r))
  PROVE  LET O == Overwritten(S, T, r)
         IN  Good((S \ {p[1] : p \in O}) \cup Redotted(O, f, r, JoinOne(T, r)))
<1> DEFINE O == Overwritten(S, T, r)
           base == JoinOne(T, r)
           kept == S \ {p[1] : p \in O}
           new == Redotted(O, f, r, base)
<1>1. O \subseteq S \X T /\ IsFiniteSet(O)
  <2>1. O \subseteq S \X T
    BY DEF Overwritten
  <2>2. IsFiniteSet(S \X T)
    BY FS_Product DEF Good
  <2> QED BY <2>1, <2>2, FS_Subset
<1>2. /\ base \in Nat /\ JoinOne(S, r) \in Nat
      /\ \A s \in S : s.ctx[r] <= JoinOne(S, r)
  BY JoinOneIs, MaxDotIs DEF Good
<1>3. \A p \in O : p[1] \in S /\ p[1] \in Siblings /\ JoinOne(S, r) < base
  BY <1>1 DEF Overwritten, Good
<1>4. Cardinality(O) \in Nat
  BY <1>1, FS_CardinalityType
<1>5. \A p \in O : f[p] \in Nat /\ 1 <= f[p] /\ f[p] <= Cardinality(O)
  <2>1. f \in [O -> 1..Cardinality(O)]
    BY Zenon DEF Numberings, Bijection, Injection
  <2> HIDE DEF O
  <2> QED BY <2>1, <1>4
<1>6. ASSUME NEW p \in O
      PROVE  LET q == [p[1] EXCEPT !.node = r, !.count = base + f[p]]
             IN  /\ q \in Siblings
                 /\ q.node = r /\ q.ctx = p[1].ctx /\ q.count = base + f[p]
  <2>1. base + f[p] \in Nat \ {0}
    BY <1>2, <1>5
  <2> HIDE DEF O, base
  <2> QED BY <2>1, <1>3 DEF Siblings
<1>7. ASSUME NEW q \in new
      PROVE  \E p \in O : /\ q \in Siblings /\ q.node = r /\ q.ctx = p[1].ctx
                                /\ q.count = base + f[p]
  BY <1>6, ZenonT(60) DEF Redotted
<1>8. kept \cup new \subseteq Siblings
  BY <1>7 DEF Good
<1>9. IsFiniteSet(kept \cup new)
  <2>1. IsFiniteSet(kept)
    BY FS_Subset DEF Good
  <2>2. IsFiniteSet(new)
    <3> DEFINE g == [p \in O |-> [p[1] EXCEPT !.node = r, !.count = base + f[p]]]
    <3>1. g \in Surjection(O, new)
      <4> HIDE DEF O, base
      <4> QED BY DEF Surjection, Redotted
    <3> HIDE DEF g, new, O
    <3> QED BY <3>1, <1>1, FS_Surjection
  <2> QED BY <2>1, <2>2, FS_Union
<1>10. Bounded(kept \cup new)
  <2>1. PICK b \in Nat : \A s \in S, n \in Node : MaxDot(s, n) <= b
    BY DEF Good, Bounded
  <2>2. ASSUME NEW q \in new, NEW n \in Node
        PROVE  MaxDot(q, n) <= b + base + Cardinality(O)
    <3>1. PICK p \in O : /\ q \in Siblings /\ q.node = r /\ q.ctx = p[1].ctx
                         /\ q.count = base + f[p]
      BY <1>7
    <3>2. p[1] \in Siblings /\ p[1].ctx[n] <= b
      BY <2>1, <1>3, MaxDotIs
    <3>3. p[1].ctx[n] \in Nat
      BY <3>2, MaxDotIs
    <3>4. MaxDot(q, n) = q.count \/ MaxDot(q, n) = q.ctx[n]
      BY DEF MaxDot
    <3>5. q.count <= base + Cardinality(O)
      BY <3>1, <1>2, <1>4, <1>5
    <3> HIDE DEF O, base, new
    <3> QED BY <3>1, <3>2, <3>3, <3>4, <3>5, <1>2, <1>4, <1>5
  <2>3. ASSUME NEW s \in kept, NEW n \in Node
        PROVE  MaxDot(s, n) <= b + base + Cardinality(O)
    <3>1. s \in Siblings /\ MaxDot(s, n) <= b
      BY <2>1 DEF Good
    <3> HIDE DEF O, base, kept
    <3> QED BY <3>1, <1>2, <1>4, MaxDotIs
  <2>4. b + base + Cardinality(O) \in Nat
    BY <1>2, <1>4
  <2> HIDE DEF O, base, kept, new
  <2> QED BY <2>2, <2>3, <2>4 DEF Bounded
<1>11. Concurrent(kept \cup new)
  <2>1. ASSUME NEW q \in new
        PROVE  /\ q.node = r /\ q.count > JoinOne(S, r)
               /\ \E s \in S : q.ctx = s.ctx
    <3> HIDE DEF O, base, new
    <3> QED BY <1>7, <1>2, <1>3, <1>5
  <2>2. ASSUME NEW s \in kept \cup new
        PROVE  \E c \in S : s.ctx = c.ctx
    BY <2>1
  <2>3. ASSUME NEW s \in kept, NEW t \in kept \cup new
        PROVE  ~HappenedBefore(s, t)
    <3>1. PICK c \in S : t.ctx = c.ctx
      BY <2>2
    <3>2. ~HappenedBefore(s, c)
      BY DEF Good, Concurrent
    <3> QED BY <3>1, <3>2 DEF HappenedBefore
  <2>4. ASSUME NEW q \in new, NEW t \in kept \cup new
        PROVE  ~HappenedBefore(q, t)
    <3>1. PICK c \in S : t.ctx = c.ctx
      BY <2>2
    <3>2. c.ctx[r] <= JoinOne(S, r) /\ c.ctx[r] \in Nat
      BY <1>2, MaxDotIs DEF Good
    <3>3. q.node = r /\ q.count > JoinOne(S, r) /\ q.count \in Nat
      BY <2>1, <1>8, MaxDotIs
    <3>4. t.ctx[q.node] < q.count
      <4> HIDE DEF new, kept, O
      <4> QED BY <3>1, <3>2, <3>3, <1>2
    <3> QED BY <3>1, <3>2, <3>3, <3>4, <1>2 DEF HappenedBefore
  <2> HIDE DEF kept, new
  <2> QED BY <2>3, <2>4 DEF Concurrent
<1> HIDE DEF kept, new
<1>12. Good(kept \cup new)
  BY <1>8, <1>9, <1>10, <1>11 DEF Good
<1> QED BY <1>12 DEF kept, new

LEMMA MergeGood ==
  ASSUME NEW S, NEW T, NEW r \in Node, Good(S), Good(T), NEW R \in MergeResults(S, T, r)
  PROVE  Good(R)
<1>1. ASSUME NEW Q \in MergeSync(S, T, r) PROVE Good(Q)
  <2>1. PICK f \in Numberings(Overwritten(S, T, r)) : Q = MergeSyncResult(S, T, r, f)
    BY DEF MergeSync
  <2> QED BY <2>1, RedottedGood, SyncGood DEF MergeSyncResult
<1>2. PICK Q \in MergeSync(S, T, r) : R = S \/ R \in ResolveConflicts(Q)
  BY DEF MergeResults
<1> QED BY <1>1, <1>2, ResolveGood

-----------------------------------------------------------------------------
(* The inductive invariant *)

CoreInv ==
  /\ store \in [Node -> SUBSET Siblings] /\ \A r \in Node : Good(store[r])
  /\ known \in [Node -> SUBSET Update]
  /\ seen \in [Update -> SUBSET Update]
  /\ writes \subseteq Siblings
  /\ nextId \in 1..(MaxWrites + 1)

SnapInv == snaps \subseteq Snapshots /\ \A x \in snaps : Good(x.sibs)

IInv == CoreInv /\ SnapInv

LEMMA InitInv == Init => IInv
BY EmptyGood, ConstantsAssumption
   DEF Init, IInv, CoreInv, SnapInv, Snapshots, Update

\* The sibling Batch creates: its dot lies above everything the replica
\* stores and above its own context.
LEMMA NewSiblingIs ==
  ASSUME CoreInv, NEW r \in Node, NEW x \in Snapshots, Good(x.sibs),
         NEW v \in Values \cup {Nil}, NEW now \in Timestamps, nextId <= MaxWrites
  PROVE  LET new == NewSibling(r, Join(x.sibs), v, now)
         IN  /\ new \in Siblings
             /\ new.node = r
             /\ new.ctx[r] < new.count
             /\ JoinOne(store[r], r) < new.count
             /\ \A s \in store[r] : s.ctx[r] < new.count
<1> DEFINE ctx == Join(x.sibs)
           uctx == UpdateContext(r, ctx)
           j == JoinOne(store[r], r)
           new == NewSibling(r, ctx, v, now)
<1>1. Good(store[r]) /\ store[r] \subseteq Siblings
  BY DEF CoreInv
<1>2. uctx \in Clocks
  BY <1>1, JoinIs DEF Good, UpdateContext
<1>3. j \in Nat /\ \A s \in store[r] : s.ctx[r] <= j /\ s.ctx[r] \in Nat
  BY <1>1, JoinOneIs, MaxDotIs DEF Good
<1>4. uctx[r] \in Nat
  BY <1>2 DEF Clocks
<1>5. Max({uctx[r], j}) \in Nat /\ uctx[r] <= Max({uctx[r], j}) /\ j <= Max({uctx[r], j})
  <2> HIDE DEF uctx, j
  <2>1. {uctx[r], j} \subseteq Nat /\ {uctx[r], j} # {}
    BY <1>3, <1>4
  <2>2. uctx[r] + j \in Nat /\ \A y \in {uctx[r], j} : y <= uctx[r] + j
    BY <1>3, <1>4
  <2> QED BY <2>1, <2>2, MaxIs
<1>6. UpdateTimestamp(r, v, now) \in Nat
  <2>1. CASE store[r] # {} /\ IsTombstoneSet(store[r])
    <3> DEFINE Ts == {s.ts : s \in {y \in store[r] : IsTombstone(y)}}
    <3>1. Ts \subseteq Nat /\ Ts # {}
      BY <2>1, <1>1 DEF IsTombstoneSet, Siblings
    <3>2. Min(Ts) \in Nat
      <4> HIDE DEF Ts
      <4> QED BY <3>1, MinIs
    <3> QED BY <2>1, <3>2, ConstantsAssumption DEF UpdateTimestamp, OldestTombstone
  <2>2. CASE ~(store[r] # {} /\ IsTombstoneSet(store[r]))
    BY <2>2, ConstantsAssumption DEF UpdateTimestamp
  <2> QED BY <2>1, <2>2
<1>7. v \in Nat /\ nextId \in Nat
  BY ConstantsAssumption DEF Nil, CoreInv
<1>8. new = [node |-> r, count |-> Max({uctx[r], j}) + 1, ctx |-> uctx, val |-> v,
             ts |-> UpdateTimestamp(r, v, now), id |-> nextId]
  BY DEF NewSibling, EventCount
<1> HIDE DEF uctx, j, new, ctx
<1>9. Max({uctx[r], j}) + 1 \in Nat \ {0}
  BY <1>5
<1>10. new \in Siblings
  BY <1>2, <1>6, <1>7, <1>8, <1>9 DEF Siblings
<1>11. /\ new.node = r /\ new.ctx[r] < new.count /\ j < new.count
       /\ \A s \in store[r] : s.ctx[r] < new.count
  <2>1. new.node = r /\ new.ctx = uctx /\ new.count = Max({uctx[r], j}) + 1
    BY <1>8
  <2>2. PICK m \in Nat : m = Max({uctx[r], j})
    BY <1>5
  <2>3. new.count = m + 1 /\ uctx[r] <= m /\ j <= m
    BY <2>1, <2>2, <1>5
  <2> QED BY <2>1, <2>3, <1>3, <1>4
<1> QED BY <1>10, <1>11 DEF new, ctx, j

LEMMA BatchStep ==
  ASSUME CoreInv, NEW r \in Node, NEW x \in Snapshots, Good(x.sibs),
         NEW v \in Values \cup {Nil}, NEW now \in Timestamps, Batch(r, x, v, now)
  PROVE  CoreInv'
<1> DEFINE new == NewSibling(r, Join(x.sibs), v, now)
           left == Discard(store[r], new)
<1>1. /\ new \in Siblings /\ new.node = r /\ new.ctx[r] < new.count
      /\ \A s \in store[r] : s.ctx[r] < new.count
  BY NewSiblingIs DEF Batch
<1>2. Good({new})
  <2>1. IsFiniteSet({new})
    BY FS_Singleton
  <2>2. Bounded({new})
    <3> HIDE DEF new
    <3>1. PICK b \in Nat : \A n \in Node : new.ctx[n] <= b
      <4>1. new.ctx = UpdateContext(r, Join(x.sibs))
        BY DEF new, NewSibling
      <4>2. PICK S : Good(S) /\ new.ctx = Join(S)
        BY <4>1 DEF UpdateContext, CoreInv
      <4>3. PICK b \in Nat : \A s \in S, n \in Node : MaxDot(s, n) <= b
        BY <4>2 DEF Good, Bounded
      <4>4. ASSUME NEW n \in Node PROVE new.ctx[n] <= b
        BY <4>2, <4>3, JoinOneAttained DEF Join, Good
      <4> QED BY <4>4
    <3>2. new.count \in Nat /\ \A n \in Node : new.ctx[n] \in Nat
      BY <1>1, MaxDotIs
    <3>3. b + new.count \in Nat /\ \A n \in Node : MaxDot(new, n) <= b + new.count
      BY <3>1, <3>2 DEF MaxDot
    <3> QED BY <3>3 DEF Bounded
  <2>3. Concurrent({new})
    <3> HIDE DEF new
    <3> QED BY <1>1, MaxDotIs DEF Concurrent, HappenedBefore
  <2> QED BY <1>1, <2>1, <2>2, <2>3 DEF Good
<1>3. Good(left)
  BY SubsetGood DEF Discard, CoreInv
<1>4. Good(Sync(left, {new}))
  BY <1>2, <1>3, SyncGood
<1>5. PICK S : Good(S) /\ store' = [store EXCEPT ![r] = S]
  BY <1>4, ResolveGood DEF Batch, Save
<1>6. nextId \in Update /\ nextId' \in 1..(MaxWrites + 1)
  BY ConstantsAssumption DEF Batch, CoreInv, Update
<1>7. known' \in [Node -> SUBSET Update] /\ seen' \in [Update -> SUBSET Update]
  BY <1>6 DEF Batch, Save, CoreInv, Snapshots
<1>8. writes' \subseteq Siblings
  BY <1>1 DEF Batch, CoreInv
<1>9. store' \in [Node -> SUBSET Siblings] /\ \A q \in Node : Good(store'[q])
  BY <1>5 DEF CoreInv, Good
<1> QED BY <1>6, <1>7, <1>8, <1>9 DEF CoreInv, Good, Bounded

LEMMA MergeStep ==
  ASSUME CoreInv, NEW r \in Node, NEW x \in Snapshots, Good(x.sibs), Merge(r, x)
  PROVE  CoreInv'
<1>1. PICK S \in MergeResults(store[r], x.sibs, r) : Save(r, S, known[r] \cup x.known)
  BY DEF Merge
<1>2. Good(S)
  BY <1>1, MergeGood DEF CoreInv
<1>3. store' = [store EXCEPT ![r] = S]
  BY <1>1 DEF Save
<1>4. store' \in [Node -> SUBSET Siblings] /\ \A q \in Node : Good(store'[q])
  BY <1>2, <1>3 DEF CoreInv, Good
<1>5. known' \in [Node -> SUBSET Update]
  BY <1>1 DEF Save, CoreInv, Snapshots
<1> QED BY <1>4, <1>5 DEF Merge, CoreInv, Good, Bounded

LEMMA GarbageCollectStep ==
  ASSUME CoreInv, NEW r \in Node, NEW now \in Timestamps, GarbageCollect(r, now)
  PROVE  CoreInv'
<1>1. store' = [store EXCEPT ![r] = {}] /\ known' = [known EXCEPT ![r] = {}]
  BY DEF GarbageCollect, Save
<1>2. store' \in [Node -> SUBSET Siblings] /\ \A q \in Node : Good(store'[q])
  BY <1>1, EmptyGood DEF CoreInv, Good
<1> QED BY <1>1, <1>2 DEF GarbageCollect, CoreInv, Good, Bounded

LEMMA LiveIs ==
  ASSUME CoreInv, NEW r \in Node
  PROVE  Live(r) \in Snapshots /\ Good(Live(r).sibs)
BY DEF CoreInv, Live, Snapshots

LEMMA NothingIs == Nothing \in Snapshots /\ Good(Nothing.sibs)
BY EmptyGood DEF Nothing, Snapshots

LEMMA CopiedStep ==
  ASSUME SnapInv, CoreInv', NEW r \in Node, Copied(r)
  PROVE  SnapInv'
<1>1. Live(r)' \in Snapshots /\ Good(Live(r)'.sibs)
  BY DEF CoreInv, Live, Snapshots
<1> QED BY <1>1 DEF Copied, SnapInv

LEMMA UpdateStep ==
  ASSUME CoreInv, NEW r \in Node, NEW x \in Snapshots, Good(x.sibs),
         ClientUpdate(r, x) \/ Merge(r, x)
  PROVE  CoreInv'
BY BatchStep, MergeStep DEF ClientUpdate

LEMMA StutterStep ==
  ASSUME IInv, UNCHANGED vars
  PROVE  IInv'
BY DEF vars, IInv, CoreInv, SnapInv, Good, Bounded

LEMMA NextStep ==
  ASSUME IInv, Next
  PROVE  IInv'
<1>1. PICK r \in Node, x \in snaps : (ClientUpdate(r, x) \/ Merge(r, x)) /\ Copied(r)
  BY DEF Next
<1>2. x \in Snapshots /\ Good(x.sibs)
  BY <1>1 DEF IInv, SnapInv
<1>3. CoreInv'
  BY <1>1, <1>2, UpdateStep DEF IInv
<1> QED BY <1>1, <1>3, CopiedStep DEF IInv

LEMMA NextGCStep ==
  ASSUME IInv, NextGC
  PROVE  IInv'
<1>1. CASE NextLive
  <2>1. PICK r \in Node, x \in {Live(q) : q \in Node} \cup {Nothing} :
          ClientUpdate(r, x) \/ Merge(r, x)
    BY <1>1 DEF NextLive
  <2>2. x \in Snapshots /\ Good(x.sibs)
    BY <2>1, LiveIs, NothingIs DEF IInv
  <2>3. CoreInv'
    BY <2>1, <2>2, UpdateStep DEF IInv
  <2> QED BY <1>1, <2>3 DEF NextLive, IInv, SnapInv
<1>2. ASSUME NEW r \in Node, NEW now \in Timestamps, GarbageCollect(r, now)
      PROVE  IInv'
  <2>1. CoreInv'
    BY <1>2, GarbageCollectStep DEF IInv
  <2> QED BY <1>2, <2>1 DEF GarbageCollect, IInv, SnapInv
<1> QED BY <1>1, <1>2 DEF NextGC

LEMMA InvImplies == IInv => TypeOK /\ Antichain
BY DEF IInv, CoreInv, SnapInv, TypeOK, Antichain, Good, Concurrent
-----------------------------------------------------------------------------
(* Theorems *)

\* Every row a replica stores is a set of well-formed siblings, whatever the
\* network does to the copies of rows: Batch and Merge only ever compute
\* siblings with a dot and a version vector over the replicas.
THEOREM TypeCorrect == Spec => []TypeOK
<1>1. IInv /\ [Next]_vars => IInv'
  BY NextStep, StutterStep
<1> QED BY <1>1, InitInv, InvImplies, PTL DEF Spec

\* No replica ever stores two siblings of which one overwrites the other,
\* although Sync never compares a set with itself, for any number of
\* replicas, updates and late, duplicated or reordered copies of rows.
THEOREM StoredSiblingsConcurrent == Spec => []Antichain
<1>1. IInv /\ [Next]_vars => IInv'
  BY NextStep, StutterStep
<1> QED BY <1>1, InitInv, InvImplies, PTL DEF Spec

\* Batch and Merge keep the siblings of every row well typed and concurrent:
\* the invariant that the run of three replicas checks.
THEOREM SiblingsStaySound == Spec => []SiblingsSound
BY TypeCorrect, StoredSiblingsConcurrent, PTL DEF SiblingsSound

\* The same while tombstones are garbage collected, so that replicas reuse
\* dots and MergeSync re-dots siblings (GarbageCollect).
THEOREM SiblingsStaySoundGC == SpecGC => []SiblingsSound
<1>1. IInv /\ [NextGC]_vars => IInv'
  BY NextGCStep, StutterStep
<1> QED BY <1>1, InitInv, InvImplies, PTL DEF SpecGC, SiblingsSound
-----------------------------------------------------------------------------
(***************************************************************************)
(* Version vectors track causality: with the default strategy the replicas *)
(* implement CausalRegister, for any set of replicas and any number of     *)
(* updates.                                                                *)
(***************************************************************************)

(* The inductive invariant *)

\* The dots of W are unique and its version vectors say which update was based
\* on which.
Causal(W, sn) ==
  /\ \A s, t \in W : s.node = t.node /\ s.count = t.count => s = t
  /\ \A s, t \in W : s.id = t.id => s = t
  /\ \A s, t \in W : HappenedBefore(s, t) <=> s.id \in sn[t.id]
  /\ \A s, t \in W : HappenedBefore(s, t) => \A n \in Node : s.ctx[n] <= t.ctx[n]

\* The siblings of a copy cover the updates it has taken in and no other.
Faithful(x, W) ==
  /\ x.sibs \subseteq W
  /\ \A w \in W : w.id \in x.known <=> w.count <= JoinOne(x.sibs, w.node)
  /\ \A w \in W : w.id \in x.known => w \in x.sibs \/ \E t \in x.sibs : HappenedBefore(w, t)

\* Updates are numbered in the order they are made.
Numbered ==
  /\ {w.id : w \in writes} = 1 .. (nextId - 1)
  /\ \A i \in 1 .. (nextId - 1) : seen[i] \subseteq 1 .. (nextId - 1)
  /\ \A x \in snaps : x.known \subseteq 1 .. (nextId - 1)

\* Nobody knows more of a replica than the replica itself.
OwnerKnows ==
  /\ \A x \in snaps, n \in Node : JoinOne(x.sibs, n) <= JoinOne(store[n], n)
  /\ \A w \in writes, n \in Node : w.ctx[n] <= JoinOne(store[n], n)

CausalInv ==
  /\ Causal(writes, seen)
  /\ \A x \in snaps : Faithful(x, writes)
  /\ \A r \in Node : Live(r) \in snaps
  /\ Numbered /\ OwnerKnows /\ OwnHistoryKept
-----------------------------------------------------------------------------
(* Sibling sets that were built by causal updates *)

\* What every sibling of S knows, some sibling of R knows.
Covers(R, S) == \A s \in S : s \in R \/ \E t \in R : HappenedBefore(s, t)

LEMMA HappenedBeforeTransitive ==
  ASSUME NEW W, W \subseteq Siblings, NEW sn, Causal(W, sn), NEW s \in W, NEW t \in W, NEW u \in W,
         HappenedBefore(s, t), HappenedBefore(t, u)
  PROVE  HappenedBefore(s, u)
<1>0. s \in Siblings /\ t \in Siblings /\ u \in Siblings
  OBVIOUS
<1>1. s.node \in Node /\ s.count \in Nat
  BY <1>0 DEF Siblings
<1>2. t.ctx[s.node] \in Nat /\ u.ctx[s.node] \in Nat
  BY <1>0, <1>1 DEF Siblings, Clocks
<1>3. s.count <= t.ctx[s.node] /\ t.ctx[s.node] <= u.ctx[s.node]
  BY <1>1 DEF Causal, HappenedBefore
<1> QED BY <1>1, <1>2, <1>3 DEF HappenedBefore

\* A sibling is dropped by Sync only for one that overwrites it and stays.
LEMMA SyncCovers ==
  ASSUME NEW W, W \subseteq Siblings, NEW sn, Causal(W, sn),
         NEW S \in SUBSET W, NEW T \in SUBSET W, Concurrent(S), Concurrent(T)
  PROVE  Covers(Sync(S, T), S \cup T)
<1>1. ASSUME NEW s \in W, NEW t \in W, Equals(s, t) PROVE s = t
  BY <1>1 DEF Causal, Equals
<1>2. \A s \in W : Compare(s, s) = 0
  BY DEF Compare, Siblings
<1>3. ASSUME NEW s \in S, s \notin Sync(S, T) PROVE \E t \in Sync(S, T) : HappenedBefore(s, t)
  <2>1. s \notin T
    <3> SUFFICES ASSUME s \in T PROVE FALSE
      OBVIOUS
    <3>1. PICK u \in S : HappenedBefore(s, u) \/ (Equals(s, u) /\ Compare(s, u) < 0)
      BY <1>3 DEF Sync
    <3>2. s = u
      BY <3>1, <1>1 DEF Concurrent
    <3> QED BY <3>1, <3>2, <1>2 DEF Concurrent
  <2>2. PICK t \in T : HappenedBefore(s, t)
    BY <1>3, <1>1, <2>1 DEF Sync
  <2>3. ASSUME NEW u \in S PROVE ~HappenedBefore(t, u) /\ ~Equals(t, u)
    BY <2>2, <1>1, HappenedBeforeTransitive DEF Concurrent
  <2> QED BY <2>2, <2>3 DEF Sync
<1>4. ASSUME NEW s \in T, s \notin Sync(S, T) PROVE \E t \in Sync(S, T) : HappenedBefore(s, t)
  <2>1. PICK u \in S : HappenedBefore(s, u)
    <3>1. PICK u \in S : HappenedBefore(s, u) \/ (Equals(s, u) /\ Compare(s, u) < 0)
      BY <1>4 DEF Sync
    <3> QED BY <3>1, <1>1, <1>2
  <2>2. ASSUME NEW t \in T PROVE ~HappenedBefore(u, t) /\ ~Equals(u, t)
    BY <2>1, <1>1, HappenedBeforeTransitive DEF Concurrent
  <2> QED BY <2>1, <2>2 DEF Sync
<1> QED BY <1>3, <1>4 DEF Covers

\* A set that covers another one joins to at least as much.
LEMMA CoversJoin ==
  ASSUME NEW W, W \subseteq Siblings, NEW sn, Causal(W, sn),
         NEW S \in SUBSET W, NEW R \in SUBSET W, Bounded(S), Bounded(R), Covers(R, S), NEW n \in Node
  PROVE  JoinOne(S, n) <= JoinOne(R, n)
<1>1. JoinOne(R, n) \in Nat /\ \A s \in R : MaxDot(s, n) <= JoinOne(R, n)
  BY JoinOneIs
<1>2. ASSUME NEW s \in S PROVE MaxDot(s, n) <= JoinOne(R, n)
  <2>1. CASE s \in R
    BY <2>1, <1>1
  <2>2. CASE \E t \in R : HappenedBefore(s, t)
    <3>1. PICK t \in R : HappenedBefore(s, t)
      BY <2>2
    <3>2. s.ctx[n] <= t.ctx[n] /\ t.ctx[n] <= MaxDot(t, n) /\ (s.node = n => s.count <= t.ctx[n])
      BY <3>1, MaxDotIs DEF Causal, HappenedBefore
    <3>3. MaxDot(s, n) \in Nat /\ MaxDot(t, n) \in Nat /\ t.ctx[n] \in Nat /\ s.ctx[n] \in Nat
      BY MaxDotIs
    <3>4. MaxDot(s, n) <= t.ctx[n]
      BY <3>2 DEF MaxDot
    <3> QED BY <3>1, <3>2, <3>3, <3>4, <1>1
  <2> QED BY <2>1, <2>2 DEF Covers
<1> QED BY <1>1, <1>2, JoinOneAttained

\* What is left of two faithful copies is faithful to both.
LEMMA UnionFaithful ==
  ASSUME NEW W, W \subseteq Siblings, NEW sn, Causal(W, sn),
         NEW x, NEW y, Good(x.sibs), Good(y.sibs), Faithful(x, W), Faithful(y, W),
         NEW R, Good(R), R \subseteq x.sibs \cup y.sibs, Covers(R, x.sibs \cup y.sibs)
  PROVE  /\ Faithful([sibs |-> R, known |-> x.known \cup y.known], W)
         /\ \A n \in Node : /\ JoinOne(x.sibs, n) <= JoinOne(R, n)
                            /\ JoinOne(y.sibs, n) <= JoinOne(R, n)
                            /\ JoinOne(R, n) <= JoinOne(x.sibs, n) \/ JoinOne(R, n) <= JoinOne(y.sibs, n)
<1>1. x.sibs \subseteq W /\ y.sibs \subseteq W /\ R \subseteq W
  BY DEF Faithful
<1>2. ASSUME NEW n \in Node
      PROVE  /\ JoinOne(R, n) \in Nat /\ JoinOne(x.sibs, n) \in Nat /\ JoinOne(y.sibs, n) \in Nat
             /\ \A s \in x.sibs : MaxDot(s, n) <= JoinOne(x.sibs, n)
             /\ \A s \in y.sibs : MaxDot(s, n) <= JoinOne(y.sibs, n)
  BY JoinOneIs DEF Good
<1>3. ASSUME NEW n \in Node
      PROVE  JoinOne(x.sibs, n) <= JoinOne(R, n) /\ JoinOne(y.sibs, n) <= JoinOne(R, n)
  <2>1. Covers(R, x.sibs) /\ Covers(R, y.sibs)
    BY DEF Covers
  <2> QED BY <1>1, <2>1, CoversJoin DEF Good
<1>4. ASSUME NEW n \in Node
      PROVE  JoinOne(R, n) <= JoinOne(x.sibs, n) \/ JoinOne(R, n) <= JoinOne(y.sibs, n)
  <2> DEFINE m == IF JoinOne(x.sibs, n) <= JoinOne(y.sibs, n) THEN JoinOne(y.sibs, n) ELSE JoinOne(x.sibs, n)
  <2>1. m \in Nat
    BY <1>2
  <2>2. \A s \in R : MaxDot(s, n) <= m
    BY <1>1, <1>2, MaxDotIs
  <2>3. JoinOne(R, n) <= m
    <3> HIDE DEF m
    <3> QED BY <1>1, <2>1, <2>2, JoinOneAttained
  <2> QED BY <2>3
<1>5. ASSUME NEW w \in W
      PROVE  w.id \in x.known \cup y.known <=> w.count <= JoinOne(R, w.node)
  <2>1. w \in Siblings
    OBVIOUS
  <2>2. w.node \in Node /\ w.count \in Nat
    BY <2>1 DEF Siblings
  <2>3. /\ w.id \in x.known <=> w.count <= JoinOne(x.sibs, w.node)
        /\ w.id \in y.known <=> w.count <= JoinOne(y.sibs, w.node)
    BY DEF Faithful
  <2>4. PICK n \in Node : n = w.node
    BY <2>2
  <2>5. \/ JoinOne(R, n) = JoinOne(x.sibs, n) /\ JoinOne(y.sibs, n) <= JoinOne(R, n)
        \/ JoinOne(R, n) = JoinOne(y.sibs, n) /\ JoinOne(x.sibs, n) <= JoinOne(R, n)
    BY <1>2, <1>3, <1>4
  <2>6. JoinOne(R, n) \in Nat /\ JoinOne(x.sibs, n) \in Nat /\ JoinOne(y.sibs, n) \in Nat
    BY <1>2
  <2> QED BY <2>2, <2>3, <2>4, <2>5, <2>6
<1>6. ASSUME NEW w \in W, w.id \in x.known \cup y.known
      PROVE  w \in R \/ \E t \in R : HappenedBefore(w, t)
  <2>1. CASE w \in x.sibs \cup y.sibs
    BY <2>1 DEF Covers
  <2>2. CASE \E u \in x.sibs \cup y.sibs : HappenedBefore(w, u)
    <3>1. PICK u \in x.sibs \cup y.sibs : HappenedBefore(w, u)
      BY <2>2
    <3>2. u \in R \/ \E t \in R : HappenedBefore(u, t)
      BY DEF Covers
    <3> QED BY <3>1, <3>2, <1>1, HappenedBeforeTransitive
  <2> QED BY <1>6, <2>1, <2>2 DEF Faithful
<1> QED BY <1>1, <1>3, <1>4, <1>5, <1>6 DEF Faithful
-----------------------------------------------------------------------------
(* A client update *)

\* The sibling of an update that is based on the copy y and made at r.
Fresh(new, r, y) ==
  /\ new \in Siblings /\ new.node = r /\ new.id = nextId /\ new.ctx = Join(y.sibs)
  /\ new.ctx[r] < new.count /\ JoinOne(store[r], r) < new.count

\* A copy that knows of no update has the empty context, and no other has.
LEMMA NothingKnown ==
  ASSUME IInv, CausalInv, NEW x \in snaps
  PROVE  Join(x.sibs) = EmptyClock <=> x.known = {}
<1>1. Good(x.sibs) /\ Faithful(x, writes) /\ x.known \subseteq {w.id : w \in writes}
  BY DEF IInv, SnapInv, CausalInv, Numbered
<1>2. ASSUME Join(x.sibs) = EmptyClock, NEW w \in writes PROVE w.id \notin x.known
  <2>1. w.node \in Node /\ w.count \in Nat /\ w.count > 0
    BY DEF IInv, CoreInv, Siblings
  <2>2. JoinOne(x.sibs, w.node) = 0
    BY <1>2, <2>1 DEF Join, EmptyClock
  <2> QED BY <1>1, <2>1, <2>2 DEF Faithful
<1>3. ASSUME x.known = {} PROVE Join(x.sibs) = EmptyClock
  <2>1. ASSUME NEW s \in x.sibs PROVE FALSE
    <3>1. s \in writes /\ s \in Siblings
      BY <1>1 DEF Faithful, Good
    <3>2. PICK n \in Node : n = s.node
      BY <3>1 DEF Siblings
    <3>3. s.count <= MaxDot(s, n) /\ MaxDot(s, n) <= JoinOne(x.sibs, n)
      BY <1>1, <3>1, <3>2, MaxDotIs, JoinOneIs DEF Good
    <3>4. s.count \in Nat /\ MaxDot(s, n) \in Nat /\ JoinOne(x.sibs, n) \in Nat
      BY <1>1, <3>1, MaxDotIs, JoinOneIs DEF Good
    <3>5. s.count <= JoinOne(x.sibs, s.node)
      BY <3>2, <3>3, <3>4
    <3> QED BY <1>1, <1>3, <3>1, <3>5 DEF Faithful
  <2>2. x.sibs = {}
    BY <2>1
  <2>3. ASSUME NEW n \in Node PROVE JoinOne(x.sibs, n) = 0
    <3>1. JoinOne(x.sibs, n) <= 0
      BY <2>2, JoinOneAttained
    <3>2. JoinOne(x.sibs, n) \in Nat
      BY <1>1, JoinOneIs DEF Good
    <3> QED BY <3>1, <3>2
  <2> QED BY <2>3 DEF Join, EmptyClock
<1> QED BY <1>1, <1>2, <1>3

\* What Batch does with the default strategy.
LEMMA BatchIs ==
  ASSUME IInv, CausalInv, Strategy = "default", NEW r \in Node, NEW x \in snaps,
         NEW v \in Values \cup {Nil}, NEW now \in Timestamps, Batch(r, x, v, now)
  PROVE  \E y \in snaps, new \in Siblings :
            /\ Fresh(new, r, y)
            /\ nextId \in Update /\ nextId' = nextId + 1
            /\ store' = [store EXCEPT ![r] = Sync(Discard(store[r], new), {new})]
            /\ known' = [known EXCEPT ![r] = known[r] \cup y.known \cup {nextId}]
            /\ seen' = [seen EXCEPT ![nextId] = y.known]
            /\ writes' = writes \cup {new}
            /\ y.known = IF x.known = {} THEN known[r] ELSE x.known
<1> DEFINE ctx == Join(x.sibs)
           new == NewSibling(r, ctx, v, now)
           y == IF ctx = EmptyClock THEN Live(r) ELSE x
<1>1. new \in Siblings /\ new.node = r /\ new.ctx[r] < new.count /\ JoinOne(store[r], r) < new.count
  BY NewSiblingIs DEF IInv, SnapInv, Batch
<1>2. new.id = nextId /\ new.ctx = Join(y.sibs)
  BY DEF NewSibling, UpdateContext, Live
<1>3. y \in snaps
  BY DEF CausalInv
<1>4. y.known = IF x.known = {} THEN known[r] ELSE x.known
  BY NothingKnown DEF Live
<1>5. y.known = IF ctx = EmptyClock THEN known[r] ELSE x.known
  BY DEF Live
<1>6. ResolveConflicts(Sync(Discard(store[r], new), {new})) = {Sync(Discard(store[r], new), {new})}
  BY DEF ResolveConflicts, MultiValue
<1>7. nextId \in Update
  BY ConstantsAssumption DEF Batch, IInv, CoreInv, Update
<1>8. /\ store' = [store EXCEPT ![r] = Sync(Discard(store[r], new), {new})]
      /\ known' = [known EXCEPT ![r] = known[r] \cup y.known \cup {nextId}]
  BY <1>5, <1>6 DEF Batch, Save
<1>9. seen' = [seen EXCEPT ![nextId] = y.known] /\ writes' = writes \cup {new} /\ nextId' = nextId + 1
  BY <1>5 DEF Batch
<1>10. Fresh(new, r, y)
  BY <1>1, <1>2 DEF Fresh
<1> HIDE DEF y, new
<1> QED BY <1>1, <1>3, <1>4, <1>7, <1>8, <1>9, <1>10

LEMMA FreshIsNew ==
  ASSUME IInv, CausalInv, NEW r \in Node, NEW y \in snaps, NEW new \in Siblings, Fresh(new, r, y)
  PROVE  /\ \A w \in writes : w.id # new.id /\ ~(w.node = r /\ w.count = new.count)
         /\ \A w \in writes : ~HappenedBefore(new, w)
         /\ \A w \in writes : HappenedBefore(w, new) <=> w.id \in y.known
         /\ \A w \in writes : HappenedBefore(w, new) => \A n \in Node : w.ctx[n] <= new.ctx[n]
         /\ \A z \in snaps : nextId \notin z.known /\ JoinOne(z.sibs, r) < new.count
<1>1. nextId \in Nat /\ writes \subseteq Siblings /\ Good(y.sibs) /\ Faithful(y, writes)
  BY DEF IInv, CoreInv, SnapInv, CausalInv
<1>2. JoinOne(store[r], r) \in Nat /\ new.count \in Nat /\ JoinOne(store[r], r) < new.count
  BY JoinOneIs, MaxDotIs DEF IInv, CoreInv, Good, Fresh
<1>3. ASSUME NEW w \in writes PROVE w.id # new.id /\ ~(w.node = r /\ w.count = new.count)
  <2>1. w.id \in 1 .. (nextId - 1) /\ new.id = nextId
    BY DEF CausalInv, Numbered, Fresh
  <2>2. w.node = r => w.count <= JoinOne(store[r], r)
    BY DEF CausalInv, OwnHistoryKept
  <2>3. w.count \in Nat
    BY <1>1 DEF Siblings
  <2> QED BY <1>1, <1>2, <2>1, <2>2, <2>3
<1>4. ASSUME NEW w \in writes PROVE ~HappenedBefore(new, w)
  <2>1. w.ctx[r] <= JoinOne(store[r], r) /\ w.ctx[r] \in Nat
    BY <1>1, MaxDotIs DEF CausalInv, OwnerKnows
  <2> QED BY <1>2, <2>1 DEF HappenedBefore, Fresh
<1>5. ASSUME NEW w \in writes PROVE HappenedBefore(w, new) <=> w.id \in y.known
  <2>1. w.node \in Node
    BY <1>1 DEF Siblings
  <2> QED BY <1>1, <2>1 DEF HappenedBefore, Fresh, Join, Faithful
<1>6. ASSUME NEW w \in writes, HappenedBefore(w, new), NEW n \in Node PROVE w.ctx[n] <= new.ctx[n]
  <2>1. new.ctx[n] = JoinOne(y.sibs, n)
    BY DEF Fresh, Join
  <2>2. ASSUME NEW s \in y.sibs PROVE s.ctx[n] <= new.ctx[n]
    <3>1. s \in Siblings /\ MaxDot(s, n) <= JoinOne(y.sibs, n) /\ JoinOne(y.sibs, n) \in Nat
      BY <1>1, JoinOneIs DEF Good
    <3> QED BY <2>1, <3>1, MaxDotIs
  <2>3. w \in y.sibs \/ \E t \in y.sibs : HappenedBefore(w, t)
    BY <1>1, <1>5, <1>6 DEF Faithful
  <2>4. ASSUME NEW t \in y.sibs, HappenedBefore(w, t) PROVE w.ctx[n] <= new.ctx[n]
    <3>1. w.ctx[n] <= t.ctx[n] /\ t \in Siblings
      BY <1>1, <2>4 DEF CausalInv, Causal, Faithful
    <3>2. t.ctx[n] <= new.ctx[n]
      BY <2>2
    <3>3. w.ctx[n] \in Nat /\ t.ctx[n] \in Nat /\ new.ctx[n] \in Nat
      BY <1>1, <3>1, MaxDotIs
    <3> QED BY <3>1, <3>2, <3>3
  <2> QED BY <2>2, <2>3, <2>4
<1>7. ASSUME NEW z \in snaps PROVE nextId \notin z.known /\ JoinOne(z.sibs, r) < new.count
  <2>1. z.known \subseteq 1 .. (nextId - 1)
    BY DEF CausalInv, Numbered
  <2>2. JoinOne(z.sibs, r) <= JoinOne(store[r], r) /\ JoinOne(z.sibs, r) \in Nat
    BY JoinOneIs DEF CausalInv, OwnerKnows, IInv, SnapInv, Good
  <2> QED BY <1>1, <1>2, <2>1, <2>2
<1> QED BY <1>3, <1>4, <1>5, <1>6, <1>7
\* The new update joins the history ...
LEMMA FreshCausal ==
  ASSUME IInv, CausalInv, NEW r \in Node, NEW y \in snaps, NEW new \in Siblings, Fresh(new, r, y),
         nextId \in Update
  PROVE  Causal(writes \cup {new}, [seen EXCEPT ![nextId] = y.known])
<1> DEFINE W == writes \cup {new}
           sn == [seen EXCEPT ![nextId] = y.known]
<1>1. /\ \A w \in writes : w.id # new.id /\ ~(w.node = r /\ w.count = new.count)
      /\ \A w \in writes : ~HappenedBefore(new, w)
      /\ \A w \in writes : HappenedBefore(w, new) <=> w.id \in y.known
      /\ \A w \in writes : HappenedBefore(w, new) => \A n \in Node : w.ctx[n] <= new.ctx[n]
      /\ nextId \notin y.known
  BY FreshIsNew
<1>2. /\ new.id = nextId /\ new.node = r
      /\ ~HappenedBefore(new, new)
  BY MaxDotIs DEF Fresh, HappenedBefore
<1>3. Causal(writes, seen)
  BY DEF CausalInv
<1>4. sn[nextId] = y.known /\ \A w \in writes : sn[w.id] = seen[w.id] /\ nextId \notin seen[w.id]
  <2>1. \A w \in writes : w.id \in 1 .. (nextId - 1)
    BY DEF CausalInv, Numbered
  <2>2. seen \in [Update -> SUBSET Update] /\ nextId \in Nat
    BY DEF IInv, CoreInv, Update
  <2>3. \A w \in writes : w.id # nextId /\ nextId \notin seen[w.id]
    BY <2>1, <2>2 DEF CausalInv, Numbered
  <2>4. \A w \in writes : w.id \in Update
    BY <2>1, <2>2, ConstantsAssumption DEF Update
  <2> QED BY <2>2, <2>3, <2>4
<1> HIDE DEF sn
<1>5. \A s, t \in W : s.node = t.node /\ s.count = t.count => s = t
  BY <1>1, <1>2, <1>3 DEF Causal
<1>6. \A s, t \in W : s.id = t.id => s = t
  BY <1>1, <1>2, <1>3 DEF Causal
<1>7. \A s, t \in W : HappenedBefore(s, t) <=> s.id \in sn[t.id]
  BY <1>1, <1>2, <1>3, <1>4 DEF Causal
<1>8. \A s, t \in W : HappenedBefore(s, t) => \A n \in Node : s.ctx[n] <= t.ctx[n]
  BY <1>1, <1>2, <1>3 DEF Causal
<1> QED BY <1>5, <1>6, <1>7, <1>8 DEF Causal, sn

\* ... is not in any copy made before ...
LEMMA FreshFaithful ==
  ASSUME IInv, CausalInv, NEW r \in Node, NEW y \in snaps, NEW new \in Siblings, Fresh(new, r, y),
         NEW z \in snaps
  PROVE  Faithful(z, writes \cup {new})
<1>1. nextId \notin z.known /\ JoinOne(z.sibs, r) < new.count
  BY FreshIsNew
<1>2. JoinOne(z.sibs, r) \in Nat /\ new.count \in Nat /\ new.node = r /\ new.id = nextId
  BY JoinOneIs DEF IInv, SnapInv, Good, Fresh, Siblings
<1>3. ~(new.count <= JoinOne(z.sibs, new.node))
  BY <1>1, <1>2
<1>4. Faithful(z, writes)
  BY DEF CausalInv
<1> QED BY <1>1, <1>2, <1>3, <1>4 DEF Faithful

\* ... and stays at its replica, with everything it does not overwrite.
LEMMA FreshStored ==
  ASSUME IInv, CausalInv, NEW r \in Node, NEW y \in snaps, NEW new \in Siblings, Fresh(new, r, y),
         nextId \in Update, NEW R, R = Sync(Discard(store[r], new), {new}), Good(R)
  PROVE  /\ Faithful([sibs |-> R, known |-> known[r] \cup y.known \cup {nextId}], writes \cup {new})
         /\ \A n \in Node : JoinOne(store[r], n) <= JoinOne(R, n)
         /\ \A n \in Node : new.ctx[n] <= JoinOne(R, n)
         /\ \A n \in Node \ {r} : JoinOne(R, n) <= JoinOne(store[n], n)
         /\ new.count <= JoinOne(R, r)
<1> DEFINE W == writes \cup {new}
           sn == [seen EXCEPT ![nextId] = y.known]
           left == Discard(store[r], new)
           K == known[r] \cup y.known \cup {nextId}
<1>1. Causal(W, sn) /\ W \subseteq Siblings
  BY FreshCausal DEF IInv, CoreInv
<1>2. Live(r) \in snaps /\ Faithful(Live(r), writes) /\ Good(store[r]) /\ Faithful(y, writes) /\ Good(y.sibs)
  BY DEF CausalInv, IInv, CoreInv, SnapInv
<1>3. store[r] \subseteq writes /\ left \subseteq store[r]
  BY <1>2 DEF Faithful, Live, Discard
<1>4. new.id = nextId /\ new.node = r /\ new.count \in Nat /\ ~HappenedBefore(new, new)
  BY MaxDotIs DEF Fresh, HappenedBefore
<1> HIDE DEF W, sn
<1>5. Covers(R, left \cup {new})
  <2>1. Concurrent(left) /\ Concurrent({new})
    BY <1>2, <1>3, <1>4 DEF Good, Concurrent
  <2>2. left \in SUBSET W /\ {new} \in SUBSET W
    BY <1>3 DEF W
  <2> QED BY <1>1, <2>1, <2>2, SyncCovers
<1>6. R \subseteq left \cup {new}
  BY DEF Sync
<1>7. new \in R
  <2>1. \A s \in left \cup {new} : ~HappenedBefore(new, s)
    BY <1>3, <1>4, FreshIsNew
  <2> QED BY <1>5, <1>6, <2>1 DEF Covers
<1>8. Covers(R, store[r])
  BY <1>5, <1>7 DEF Covers, Discard
<1>9. R \subseteq W /\ store[r] \subseteq W /\ store[r] \subseteq Siblings
  BY <1>1, <1>3, <1>6 DEF W
<1>10. ASSUME NEW n \in Node
       PROVE  /\ JoinOne(R, n) \in Nat /\ JoinOne(store[r], n) \in Nat /\ JoinOne(y.sibs, n) \in Nat
              /\ MaxDot(new, n) \in Nat /\ new.ctx[n] \in Nat
              /\ JoinOne(store[r], n) <= JoinOne(R, n)
              /\ MaxDot(new, n) <= JoinOne(R, n) /\ new.ctx[n] <= MaxDot(new, n)
              /\ new.ctx[n] = JoinOne(y.sibs, n)
              /\ JoinOne(R, n) <= JoinOne(store[r], n) \/ JoinOne(R, n) <= MaxDot(new, n)
  <2>1. JoinOne(R, n) \in Nat /\ \A s \in R : MaxDot(s, n) <= JoinOne(R, n)
    BY JoinOneIs DEF Good
  <2>2. JoinOne(store[r], n) \in Nat /\ \A s \in store[r] : MaxDot(s, n) <= JoinOne(store[r], n)
    BY <1>2, JoinOneIs DEF Good
  <2>3. MaxDot(new, n) \in Nat /\ new.ctx[n] \in Nat /\ new.ctx[n] <= MaxDot(new, n)
    BY MaxDotIs
  <2>4. JoinOne(store[r], n) <= JoinOne(R, n)
    BY <1>1, <1>2, <1>8, <1>9, CoversJoin DEF Good
  <2>5. JoinOne(y.sibs, n) \in Nat /\ new.ctx[n] = JoinOne(y.sibs, n)
    BY <1>2, JoinOneIs DEF Good, Fresh, Join
  <2>6. JoinOne(R, n) <= JoinOne(store[r], n) \/ JoinOne(R, n) <= MaxDot(new, n)
    <3> DEFINE m == IF JoinOne(store[r], n) <= MaxDot(new, n) THEN MaxDot(new, n) ELSE JoinOne(store[r], n)
    <3>1. m \in Nat
      BY <2>2, <2>3
    <3>2. \A s \in R : MaxDot(s, n) <= m
      <4>1. ASSUME NEW s \in R PROVE s = new \/ (s \in store[r] /\ s \in Siblings)
        BY <1>3, <1>6, <1>9
      <4>2. ASSUME NEW s \in store[r], s \in Siblings PROVE MaxDot(s, n) <= m
        <5>1. MaxDot(s, n) \in Nat
          BY <4>2, MaxDotIs
        <5> QED BY <5>1, <2>2, <2>3
      <4>3. MaxDot(new, n) <= m
        BY <2>2, <2>3
      <4> HIDE DEF m
      <4> QED BY <4>1, <4>2, <4>3
    <3>3. JoinOne(R, n) <= m
      <4> HIDE DEF m
      <4> QED BY <3>1, <3>2, JoinOneAttained DEF Good
    <3> QED BY <3>3
  <2> QED BY <1>7, <2>1, <2>2, <2>3, <2>4, <2>5, <2>6
<1>11. MaxDot(new, r) = new.count /\ JoinOne(store[r], r) < new.count
  BY <1>4, <1>10 DEF MaxDot, Fresh
<1>12. ASSUME NEW n \in Node \ {r} PROVE MaxDot(new, n) = new.ctx[n]
  BY <1>4 DEF MaxDot
<1>13. \A n \in Node \ {r} : JoinOne(R, n) <= JoinOne(store[n], n)
  <2> TAKE n \in Node \ {r}
  <2>1. JoinOne(Live(r).sibs, n) <= JoinOne(store[n], n) /\ JoinOne(y.sibs, n) <= JoinOne(store[n], n)
    BY <1>2 DEF CausalInv, OwnerKnows
  <2>2. JoinOne(store[n], n) \in Nat
    BY JoinOneIs DEF IInv, CoreInv, Good
  <2> QED BY <1>10, <1>12, <2>1, <2>2 DEF Live
<1>14. ASSUME NEW w \in W PROVE w.id \in K <=> w.count <= JoinOne(R, w.node)
  <2>1. CASE w = new
    BY <2>1, <1>4, <1>10, <1>11
  <2>2. CASE w \in writes /\ w.node = r
    <3>1. w.count <= JoinOne(store[r], r) /\ w.count \in Nat
      BY <1>1, <2>2 DEF CausalInv, OwnHistoryKept, Siblings
    <3>2. w.id \in known[r]
      BY <1>2, <2>2, <3>1 DEF Faithful, Live
    <3> QED BY <2>2, <3>1, <3>2, <1>10
  <2>3. CASE w \in writes /\ w.node # r
    <3>1. PICK n \in Node \ {r} : n = w.node
      BY <1>1, <2>3 DEF Siblings
    <3>2. w.count \in Nat /\ w.id # nextId
      BY <1>1, <1>4, <2>3, FreshIsNew DEF Siblings
    <3>3. w.id \in known[r] <=> w.count <= JoinOne(store[r], n)
      BY <1>2, <2>3, <3>1 DEF Faithful, Live
    <3>4. w.id \in y.known <=> w.count <= JoinOne(y.sibs, n)
      BY <1>2, <2>3, <3>1 DEF Faithful
    <3>5. \/ JoinOne(R, n) = JoinOne(store[r], n) /\ JoinOne(y.sibs, n) <= JoinOne(R, n)
          \/ JoinOne(R, n) = JoinOne(y.sibs, n) /\ JoinOne(store[r], n) <= JoinOne(R, n)
      BY <1>10, <1>12
    <3>6. JoinOne(R, n) \in Nat /\ JoinOne(store[r], n) \in Nat /\ JoinOne(y.sibs, n) \in Nat
      BY <1>10
    <3> QED BY <3>1, <3>2, <3>3, <3>4, <3>5, <3>6
  <2> QED BY <2>1, <2>2, <2>3 DEF W
<1>15. ASSUME NEW w \in W, w.id \in K PROVE w \in R \/ \E t \in R : HappenedBefore(w, t)
  <2>1. CASE w = new
    BY <2>1, <1>7
  <2>2. CASE w \in writes /\ w.id \in y.known
    BY <2>2, <1>7, FreshIsNew
  <2>3. CASE w \in writes /\ w.id \in known[r]
    <3>1. w \in store[r] \/ \E t \in store[r] : HappenedBefore(w, t)
      BY <1>2, <2>3 DEF Faithful, Live
    <3>2. ASSUME NEW t \in store[r], HappenedBefore(w, t)
          PROVE  \E u \in R : HappenedBefore(w, u)
      <4>1. t \in R \/ \E u \in R : HappenedBefore(t, u)
        BY <1>8 DEF Covers
      <4> QED BY <3>2, <4>1, <1>1, <1>9, HappenedBeforeTransitive
    <3> QED BY <3>1, <3>2, <1>8 DEF Covers
  <2>4. w = new \/ (w \in writes /\ w.id # nextId)
    BY <1>4, FreshIsNew DEF W
  <2> QED BY <1>15, <2>1, <2>2, <2>3, <2>4
<1>16. Faithful([sibs |-> R, known |-> K], W)
  BY <1>9, <1>14, <1>15 DEF Faithful
<1>17. \A n \in Node : JoinOne(store[r], n) <= JoinOne(R, n) /\ new.ctx[n] <= JoinOne(R, n)
  BY <1>10
<1>18. new.count <= JoinOne(R, r)
  BY <1>10, <1>11
<1> QED BY <1>13, <1>16, <1>17, <1>18 DEF W
\* A step that brings row R with the updates K to replica r, and adds W to the
\* history, keeps the invariant if R is faithful and nobody knows more than the
\* owner.
LEMMA SavedInv ==
  ASSUME IInv, CausalInv, NEW r \in Node, NEW R, Good(R), NEW K,
         store' = [store EXCEPT ![r] = R], known' = [known EXCEPT ![r] = K], Copied(r),
         Causal(writes', seen'),
         \A z \in snaps : Faithful(z, writes'),
         Faithful([sibs |-> R, known |-> K], writes'),
         nextId \in Nat /\ nextId' \in Nat /\ nextId <= nextId' /\ K \subseteq 1 .. (nextId' - 1),
         {w.id : w \in writes'} = 1 .. (nextId' - 1),
         \A i \in 1 .. (nextId' - 1) : seen'[i] \subseteq 1 .. (nextId' - 1),
         \A n \in Node : JoinOne(store[r], n) <= JoinOne(R, n),
         \A n \in Node \ {r} : JoinOne(R, n) <= JoinOne(store[n], n),
         \A w \in writes', n \in Node : w.ctx[n] <= JoinOne(store'[n], n),
         \A w \in writes' : w.count <= JoinOne(store'[w.node], w.node)
  PROVE  CausalInv'
<1>1. store'[r] = R /\ known'[r] = K /\ \A q \in Node \ {r} : store'[q] = store[q] /\ known'[q] = known[q]
  BY DEF IInv, CoreInv
<1>2. Live(r)' = [sibs |-> R, known |-> K] /\ \A q \in Node \ {r} : Live(q)' = Live(q)
  BY <1>1 DEF Live
<1>3. snaps' = snaps \cup {[sibs |-> R, known |-> K]}
  BY <1>2 DEF Copied
<1>4. \A x \in snaps' : Faithful(x, writes')
  BY <1>3
<1>5. \A q \in Node : Live(q)' \in snaps'
  BY <1>2, <1>3 DEF CausalInv
<1>6. Numbered'
  <2>1. \A x \in snaps : x.known \subseteq 1 .. (nextId' - 1)
    <3>1. \A i \in 1 .. (nextId - 1) : i \in 1 .. (nextId' - 1)
      OBVIOUS
    <3> QED BY <3>1 DEF CausalInv, Numbered
  <2> QED BY <1>3, <2>1 DEF Numbered
<1>7. ASSUME NEW x \in snaps', NEW n \in Node PROVE JoinOne(x.sibs, n) <= JoinOne(store'[n], n)
  <2>1. JoinOne(R, n) \in Nat /\ JoinOne(store[n], n) \in Nat
    BY JoinOneIs DEF IInv, CoreInv, Good
  <2>2. CASE x = [sibs |-> R, known |-> K]
    BY <1>1, <2>1, <2>2
  <2>3. CASE x \in snaps
    <3>1. JoinOne(x.sibs, n) <= JoinOne(store[n], n)
      BY <2>3 DEF CausalInv, OwnerKnows
    <3>2. JoinOne(x.sibs, n) \in Nat
      BY <2>3, JoinOneIs DEF IInv, SnapInv, Good
    <3> QED BY <1>1, <2>1, <3>1, <3>2
  <2> QED BY <1>3, <2>2, <2>3
<1>8. OwnerKnows' /\ OwnHistoryKept'
  BY <1>7 DEF OwnerKnows, OwnHistoryKept
<1> QED BY <1>4, <1>5, <1>6, <1>8 DEF CausalInv

LEMMA BatchCausal ==
  ASSUME IInv, CausalInv, Strategy = "default", NEW r \in Node, NEW x \in snaps,
         NEW v \in Values \cup {Nil}, NEW now \in Timestamps, Batch(r, x, v, now), Copied(r), IInv'
  PROVE  CausalInv'
<1>1. PICK y \in snaps, new \in Siblings :
            /\ Fresh(new, r, y)
            /\ nextId \in Update /\ nextId' = nextId + 1
            /\ store' = [store EXCEPT ![r] = Sync(Discard(store[r], new), {new})]
            /\ known' = [known EXCEPT ![r] = known[r] \cup y.known \cup {nextId}]
            /\ seen' = [seen EXCEPT ![nextId] = y.known]
            /\ writes' = writes \cup {new}
  BY BatchIs
<1> DEFINE R == Sync(Discard(store[r], new), {new})
           K == known[r] \cup y.known \cup {nextId}
<1>2. store'[r] = R /\ \A q \in Node \ {r} : store'[q] = store[q]
  BY <1>1 DEF IInv, CoreInv
<1>3. Good(R)
  BY <1>2 DEF IInv, CoreInv, Good, Bounded
<1>4. Causal(writes', seen')
  BY <1>1, FreshCausal
<1>5. \A z \in snaps : Faithful(z, writes')
  BY <1>1, FreshFaithful
<1> HIDE DEF R
<1>6. R = Sync(Discard(store[r], new), {new})
  BY DEF R
<1>7. /\ Faithful([sibs |-> R, known |-> K], writes')
      /\ \A n \in Node : JoinOne(store[r], n) <= JoinOne(R, n)
      /\ \A n \in Node : new.ctx[n] <= JoinOne(R, n)
      /\ \A n \in Node \ {r} : JoinOne(R, n) <= JoinOne(store[n], n)
      /\ new.count <= JoinOne(R, r)
  BY <1>1, <1>3, <1>6, FreshStored, ZenonT(60)
<1>8. nextId \in Nat /\ nextId >= 1
  BY <1>1 DEF Update
<1>9. known[r] \subseteq 1 .. (nextId - 1) /\ y.known \subseteq 1 .. (nextId - 1)
  BY DEF CausalInv, Numbered, Live
<1>10. K \subseteq 1 .. nextId /\ 1 .. nextId = 1 .. (nextId' - 1)
  BY <1>1, <1>8, <1>9
<1>11. {w.id : w \in writes'} = 1 .. nextId
  <2>1. {w.id : w \in writes'} = {w.id : w \in writes} \cup {nextId}
    BY <1>1 DEF Fresh
  <2> QED BY <1>8, <2>1 DEF CausalInv, Numbered
<1>12. \A i \in 1 .. nextId : seen'[i] \subseteq 1 .. nextId
  <2>1. seen'[nextId] = y.known /\ \A i \in 1 .. (nextId - 1) : seen'[i] = seen[i]
    BY <1>1, <1>8, ConstantsAssumption DEF IInv, CoreInv, Update
  <2>2. \A i \in 1 .. (nextId - 1) : seen[i] \subseteq 1 .. (nextId - 1)
    BY DEF CausalInv, Numbered
  <2> QED BY <1>8, <1>9, <2>1, <2>2
<1>13. ASSUME NEW n \in Node
       PROVE  /\ JoinOne(store'[n], n) \in Nat /\ JoinOne(store[n], n) \in Nat
              /\ JoinOne(store[n], n) <= JoinOne(store'[n], n)
              /\ new.ctx[n] <= JoinOne(store'[n], n)
              /\ new.ctx[n] \in Nat
  <2>1. JoinOne(R, n) \in Nat /\ JoinOne(store[n], n) \in Nat /\ new.ctx[n] \in Nat
    BY <1>3, JoinOneIs, MaxDotIs DEF IInv, CoreInv, Good
  <2>2. CASE n = r
    BY <1>2, <1>7, <2>1, <2>2
  <2>3. CASE n # r
    <3>1. new.ctx[n] = JoinOne(y.sibs, n) /\ JoinOne(y.sibs, n) <= JoinOne(store[n], n)
      BY <1>1 DEF Fresh, Join, CausalInv, OwnerKnows
    <3> QED BY <1>2, <2>1, <2>3, <3>1
  <2> QED BY <2>2, <2>3
<1>14. ASSUME NEW w \in writes', NEW n \in Node PROVE w.ctx[n] <= JoinOne(store'[n], n)
  <2>1. CASE w = new
    BY <1>13, <2>1
  <2>2. CASE w \in writes
    <3>1. w.ctx[n] <= JoinOne(store[n], n)
      BY <2>2 DEF CausalInv, OwnerKnows
    <3>2. w.ctx[n] \in Nat
      BY <2>2, MaxDotIs DEF IInv, CoreInv
    <3> QED BY <3>1, <3>2, <1>13
  <2> QED BY <1>1, <2>1, <2>2
<1>15. ASSUME NEW w \in writes' PROVE w.count <= JoinOne(store'[w.node], w.node)
  <2>1. CASE w = new
    BY <1>1, <1>2, <1>7, <2>1 DEF Fresh
  <2>2. CASE w \in writes
    <3>1. PICK n \in Node : n = w.node
      BY <2>2 DEF IInv, CoreInv, Siblings
    <3>2. w.count <= JoinOne(store[n], n)
      BY <2>2, <3>1 DEF CausalInv, OwnHistoryKept
    <3>3. w.count \in Nat
      BY <2>2 DEF IInv, CoreInv, Siblings
    <3> QED BY <3>1, <3>2, <3>3, <1>13
  <2> QED BY <1>1, <2>1, <2>2
<1>16. /\ store' = [store EXCEPT ![r] = R] /\ known' = [known EXCEPT ![r] = K]
       /\ nextId' \in Nat /\ nextId <= nextId'
  BY <1>1, <1>6, <1>8
<1> HIDE DEF K
<1> QED BY <1>3, <1>4, <1>5, <1>7, <1>8, <1>10, <1>11, <1>12, <1>14, <1>15, <1>16, SavedInv
-----------------------------------------------------------------------------
(* A merge *)

\* With the default strategy, and while nobody knows more of r than r itself,
\* Merge re-dots nothing and stores what Sync leaves.
LEMMA MergeIs ==
  ASSUME IInv, CausalInv, Strategy = "default", NEW r \in Node, NEW x \in snaps, Merge(r, x)
  PROVE  LET R == Sync(store[r], x.sibs)
         IN  /\ store' = [store EXCEPT ![r] = R]
             /\ known' = [known EXCEPT ![r] = known[r] \cup x.known]
             /\ seen' = seen /\ writes' = writes /\ nextId' = nextId
             /\ Good(R) /\ Covers(R, store[r] \cup x.sibs)
<1> DEFINE S == store[r]
           T == x.sibs
           R == Sync(S, T)
<1>1. Good(S) /\ Good(T) /\ Causal(writes, seen) /\ writes \subseteq Siblings
  BY DEF IInv, CoreInv, SnapInv, CausalInv
<1>2. S \subseteq writes /\ T \subseteq writes
  BY DEF CausalInv, Faithful, Live
<1>3. Overwritten(S, T, r) = {}
  <2>1. JoinOne(T, r) <= JoinOne(S, r) /\ JoinOne(T, r) \in Nat /\ JoinOne(S, r) \in Nat
    BY <1>1, JoinOneIs DEF CausalInv, OwnerKnows, Good
  <2>2. ~(JoinOne(S, r) < JoinOne(T, r))
    BY <2>1
  <2> QED BY <2>2, Zenon DEF Overwritten
<1>4. \A f : MergeSyncResult(S, T, r, f) = R
  BY <1>3 DEF MergeSyncResult, Redotted
<1>5. MergeSync(S, T, r) \subseteq {R}
  BY <1>4 DEF MergeSync
<1>6. Covers(R, S \cup T)
  BY <1>1, <1>2, SyncCovers DEF Good
<1>7. ASSUME R \cap T = {}, R \subseteq S PROVE R = S
  <2> SUFFICES ASSUME NEW s \in S, s \notin R PROVE FALSE
    BY <1>7
  <2>1. PICK t \in R : HappenedBefore(s, t)
    BY <1>6 DEF Covers
  <2> QED BY <1>1, <1>7, <2>1 DEF Good, Concurrent
<1>8. ASSUME NEW Q \in MergeResults(S, T, r) PROVE Q = R
  <2>1. PICK P \in MergeSync(S, T, r) :
          Q \in IF P \cap T = {} /\ P \subseteq S THEN {S} ELSE ResolveConflicts(P)
    BY DEF MergeResults
  <2>2. P = R
    BY <1>5
  <2>3. ResolveConflicts(P) = {P}
    BY DEF ResolveConflicts, MultiValue
  <2> HIDE DEF R, S, T
  <2> QED BY <1>7, <2>1, <2>2, <2>3
<1>9. PICK Q \in MergeResults(S, T, r) : Save(r, Q, known[r] \cup x.known)
  BY DEF Merge
<1>10. Good(R)
  BY <1>1, SyncGood
<1> QED BY <1>6, <1>8, <1>9, <1>10 DEF Save, Merge

LEMMA MergeCausal ==
  ASSUME IInv, CausalInv, Strategy = "default", NEW r \in Node, NEW x \in snaps, Merge(r, x), Copied(r)
  PROVE  CausalInv'
<1> DEFINE R == Sync(store[r], x.sibs)
           K == known[r] \cup x.known
<1>1. /\ store' = [store EXCEPT ![r] = R] /\ known' = [known EXCEPT ![r] = K]
      /\ seen' = seen /\ writes' = writes /\ nextId' = nextId
      /\ Good(R) /\ Covers(R, store[r] \cup x.sibs)
  BY MergeIs
<1>2. Live(r) \in snaps /\ Live(r).sibs = store[r] /\ Live(r).known = known[r]
  BY DEF CausalInv, Live
<1>3. R \subseteq store[r] \cup x.sibs
  BY DEF Sync
<1>4. Causal(writes, seen) /\ Faithful(Live(r), writes) /\ Faithful(x, writes)
      /\ Good(Live(r).sibs) /\ Good(x.sibs) /\ writes \subseteq Siblings
  BY <1>2 DEF CausalInv, IInv, CoreInv, SnapInv
<1> HIDE DEF R
<1>5. /\ Faithful([sibs |-> R, known |-> K], writes)
      /\ \A n \in Node : /\ JoinOne(store[r], n) <= JoinOne(R, n)
                         /\ JoinOne(R, n) <= JoinOne(store[r], n) \/ JoinOne(R, n) <= JoinOne(x.sibs, n)
  BY <1>1, <1>2, <1>3, <1>4, UnionFaithful
<1>6. ASSUME NEW n \in Node
      PROVE  /\ JoinOne(R, n) \in Nat /\ JoinOne(store[n], n) \in Nat
             /\ JoinOne(R, n) <= JoinOne(store[n], n)
             /\ JoinOne(store[n], n) <= JoinOne(store'[n], n)
  <2>1. /\ JoinOne(R, n) \in Nat /\ JoinOne(store[n], n) \in Nat
        /\ JoinOne(store[r], n) \in Nat /\ JoinOne(x.sibs, n) \in Nat
    BY <1>1, JoinOneIs DEF IInv, CoreInv, SnapInv, Good
  <2>2. JoinOne(store[r], n) <= JoinOne(store[n], n) /\ JoinOne(x.sibs, n) <= JoinOne(store[n], n)
    BY <1>2 DEF CausalInv, OwnerKnows
  <2>3. store'[n] = IF n = r THEN R ELSE store[n]
    BY <1>1 DEF IInv, CoreInv
  <2> QED BY <1>5, <2>1, <2>2, <2>3
<1>7. known[r] \subseteq 1 .. (nextId - 1) /\ x.known \subseteq 1 .. (nextId - 1)
  BY <1>2 DEF CausalInv, Numbered
<1>8. nextId \in Nat
  BY ConstantsAssumption DEF IInv, CoreInv
<1>9. ASSUME NEW n \in Node PROVE JoinOne(store'[n], n) \in Nat
  BY <1>1, <1>6 DEF IInv, CoreInv
<1>10. ASSUME NEW w \in writes', NEW n \in Node PROVE w.ctx[n] <= JoinOne(store'[n], n)
  <2>1. w.ctx[n] <= JoinOne(store[n], n) /\ w.ctx[n] \in Nat
    BY <1>1, MaxDotIs DEF CausalInv, OwnerKnows, IInv, CoreInv
  <2> QED BY <1>6, <1>9, <2>1
<1>11. ASSUME NEW w \in writes' PROVE w.count <= JoinOne(store'[w.node], w.node)
  <2>1. PICK n \in Node : n = w.node
    BY <1>1 DEF IInv, CoreInv, Siblings
  <2>2. w.count <= JoinOne(store[n], n) /\ w.count \in Nat
    BY <1>1, <2>1 DEF CausalInv, OwnHistoryKept, IInv, CoreInv, Siblings
  <2> QED BY <1>6, <1>9, <2>1, <2>2
<1>12. /\ Causal(writes', seen') /\ \A z \in snaps : Faithful(z, writes')
       /\ nextId' \in Nat /\ nextId <= nextId'
       /\ {w.id : w \in writes'} = 1 .. (nextId' - 1)
       /\ \A i \in 1 .. (nextId' - 1) : seen'[i] \subseteq 1 .. (nextId' - 1)
       /\ K \subseteq 1 .. (nextId' - 1)
  BY <1>1, <1>7, <1>8 DEF CausalInv, Numbered
<1> HIDE DEF K
<1>13. Faithful([sibs |-> R, known |-> K], writes')
  BY <1>1, <1>5 DEF K
<1> QED BY <1>1, <1>5, <1>6, <1>8, <1>10, <1>11, <1>12, <1>13, SavedInv
-----------------------------------------------------------------------------
(* All steps *)

LEMMA InitCausal == Init => CausalInv
<1> SUFFICES ASSUME Init PROVE CausalInv
  OBVIOUS
<1>1. \A n \in Node : JoinOne({}, n) <= 0 /\ JoinOne({}, n) \in Nat
  BY JoinOneAttained, JoinOneIs, EmptyGood DEF Good
<1>2. Numbered /\ OwnHistoryKept
  BY DEF Init, Numbered, OwnHistoryKept
<1>3. OwnerKnows
  BY <1>1 DEF Init, OwnerKnows
<1> QED BY <1>2, <1>3 DEF Init, CausalInv, Causal, Faithful, Live

LEMMA NextCausal ==
  ASSUME IInv, CausalInv, Strategy = "default", Next
  PROVE  CausalInv'
<1>1. IInv'
  BY NextStep
<1>2. PICK r \in Node, x \in snaps : (ClientUpdate(r, x) \/ Merge(r, x)) /\ Copied(r)
  BY DEF Next
<1> QED BY <1>1, <1>2, BatchCausal, MergeCausal DEF ClientUpdate

LEMMA StutterCausal ==
  ASSUME CausalInv, UNCHANGED vars
  PROVE  CausalInv'
BY DEF vars, CausalInv, Numbered, OwnerKnows, OwnHistoryKept, Live

LEMMA CausalityTracked == Strategy = "default" /\ Spec => [](IInv /\ CausalInv)
<1> SUFFICES ASSUME Strategy = "default" PROVE Spec => [](IInv /\ CausalInv)
  OBVIOUS
<1>1. Init => IInv /\ CausalInv
  BY InitInv, InitCausal
<1>2. IInv /\ CausalInv /\ [Next]_vars => (IInv /\ CausalInv)'
  BY NextStep, StutterStep, NextCausal, StutterCausal
<1> QED BY <1>1, <1>2, PTL DEF Spec

LEMMA CausalImplies == IInv /\ CausalInv => HistoryKept
BY DEF CausalInv, Causal, HistoryKept, DotsUnique

-----------------------------------------------------------------------------
(* The refinement *)

\* What a faithful copy holds are the updates it has taken in that no other one
\* of them was based on.
LEMMA ReadsLatest ==
  ASSUME NEW W, W \subseteq Siblings, NEW sn, Causal(W, sn), NEW x, Faithful(x, W), Good(x.sibs),
         x.known \subseteq {w.id : w \in W}
  PROVE  Ids(x.sibs) = Register!Latest(x.known, sn)
<1>1. ASSUME NEW s \in x.sibs
      PROVE  s \in W /\ s.id \in x.known /\ \A j \in x.known : s.id \notin sn[j]
  <2>1. s \in W
    BY DEF Faithful
  <2>2. PICK n \in Node : n = s.node
    BY <2>1 DEF Siblings
  <2>3. s.count <= JoinOne(x.sibs, n)
    <3>1. s \in Siblings
      BY <2>1
    <3>2. s.count <= MaxDot(s, n) /\ s.count \in Nat /\ MaxDot(s, n) \in Nat
      BY <2>2, <3>1, MaxDotIs
    <3>3. MaxDot(s, n) <= JoinOne(x.sibs, n) /\ JoinOne(x.sibs, n) \in Nat
      BY JoinOneIs DEF Good
    <3> QED BY <3>2, <3>3
  <2>4. s.id \in x.known
    BY <2>1, <2>2, <2>3 DEF Faithful
  <2>5. ASSUME NEW j \in x.known, s.id \in sn[j] PROVE FALSE
    <3>1. PICK w \in W : w.id = j
      OBVIOUS
    <3>2. HappenedBefore(s, w)
      BY <2>1, <2>5, <3>1 DEF Causal
    <3>3. w \in x.sibs \/ \E t \in x.sibs : HappenedBefore(w, t)
      BY <3>1 DEF Faithful
    <3>4. \E t \in x.sibs : HappenedBefore(s, t)
      <4>1. ASSUME NEW t \in x.sibs, HappenedBefore(w, t) PROVE HappenedBefore(s, t)
        <5>1. t \in W
          BY DEF Faithful
        <5> QED BY <2>1, <3>2, <4>1, <5>1, HappenedBeforeTransitive
      <4> QED BY <3>2, <3>3, <4>1
    <3> QED BY <3>4 DEF Good, Concurrent
  <2> QED BY <2>1, <2>4, <2>5
<1>2. ASSUME NEW i \in x.known, \A j \in x.known : i \notin sn[j]
      PROVE  i \in Ids(x.sibs)
  <2>1. PICK w \in W : w.id = i
    OBVIOUS
  <2>2. ASSUME NEW t \in x.sibs PROVE ~HappenedBefore(w, t)
    <3>1. t \in W /\ t.id \in x.known
      BY <1>1
    <3> QED BY <1>2, <2>1, <3>1 DEF Causal
  <2>3. w \in x.sibs
    BY <2>1, <2>2 DEF Faithful
  <2> QED BY <2>1, <2>3 DEF Ids
<1> QED BY <1>1, <1>2 DEF Register!Latest, Ids

\* A step that saves a row at r is a step in which r learns.
LEMMA SavedLearns ==
  ASSUME IInv, IInv', CausalInv', NEW r \in Node, NEW R, NEW K,
         store' = [store EXCEPT ![r] = R], known' = [known EXCEPT ![r] = K], Copied(r)
  PROVE  Register!Learn(r, K)
<1>1. store'[r] = R /\ known'[r] = K /\ \A q \in Node \ {r} : store'[q] = store[q]
  BY DEF IInv, CoreInv
<1>2. Live(r)' = [sibs |-> R, known |-> K]
  BY <1>1 DEF Live
<1>3. Live(r)' \in snaps'
  BY DEF CausalInv
<1>4. Causal(writes', seen') /\ Faithful(Live(r)', writes') /\ Good(R) /\ writes' \subseteq Siblings
      /\ K \subseteq {w.id : w \in writes'}
  BY <1>1, <1>2, <1>3 DEF CausalInv, Numbered, IInv, CoreInv, Good, Bounded
<1>5. Ids(R) = Register!Latest(K, seen')
  BY <1>2, <1>4, ReadsLatest
<1>6. {x.known : x \in snaps'} = {x.known : x \in snaps} \cup {K}
  BY <1>2 DEF Copied
<1>7. [q \in Node |-> Ids(store'[q])] = [[q \in Node |-> Ids(store[q])] EXCEPT ![r] = Ids(R)]
  <2>1. \A q \in Node : Ids(store'[q]) = IF q = r THEN Ids(R) ELSE Ids(store[q])
    BY <1>1
  <2> QED BY <2>1
<1> QED BY <1>5, <1>6, <1>7 DEF Register!Learn

LEMMA StepImplements ==
  ASSUME IInv, CausalInv, IInv', CausalInv', Strategy = "default", Next
  PROVE  Register!Next
<1>1. PICK r \in Node, x \in snaps : (ClientUpdate(r, x) \/ Merge(r, x)) /\ Copied(r)
  BY DEF Next
<1>2. x.known \in {z.known : z \in snaps}
  OBVIOUS
<1>3. CASE ClientUpdate(r, x)
  <2>1. PICK v \in Values \cup {Nil}, now \in Timestamps : Batch(r, x, v, now)
    BY <1>3 DEF ClientUpdate
  <2>2. PICK y \in snaps, new \in Siblings :
            /\ Fresh(new, r, y)
            /\ nextId \in Update /\ nextId' = nextId + 1
            /\ store' = [store EXCEPT ![r] = Sync(Discard(store[r], new), {new})]
            /\ known' = [known EXCEPT ![r] = known[r] \cup y.known \cup {nextId}]
            /\ seen' = [seen EXCEPT ![nextId] = y.known]
            /\ writes' = writes \cup {new}
            /\ y.known = IF x.known = {} THEN known[r] ELSE x.known
    BY <2>1, BatchIs
  <2>3. known[r] \cup y.known \cup {nextId} = known[r] \cup x.known \cup {nextId}
    BY <2>2
  <2>4. PICK R : store' = [store EXCEPT ![r] = R]
    BY <2>2
  <2>5. Register!Learn(r, known[r] \cup x.known \cup {nextId})
    <3>1. PICK K : K = known[r] \cup x.known \cup {nextId}
      OBVIOUS
    <3>2. known' = [known EXCEPT ![r] = K]
      BY <2>2, <2>3, <3>1
    <3>3. Register!Learn(r, K)
      BY <1>1, <2>4, <3>2, SavedLearns
    <3> QED BY <3>1, <3>3 DEF Register!Learn
  <2>6. nextId <= MaxWrites
    BY <2>1 DEF Batch
  <2>7. Register!Write(r, x.known)
    BY <2>2, <2>5, <2>6 DEF Register!Write
  <2> QED BY <1>2, <2>7 DEF Register!Next
<1>4. CASE Merge(r, x)
  <2>1. /\ store' = [store EXCEPT ![r] = Sync(store[r], x.sibs)]
        /\ known' = [known EXCEPT ![r] = known[r] \cup x.known]
        /\ seen' = seen /\ nextId' = nextId
    BY <1>4, MergeIs
  <2>2. PICK R : store' = [store EXCEPT ![r] = R]
    BY <2>1
  <2>3. Register!Learn(r, known[r] \cup x.known)
    <3>1. PICK K : K = known[r] \cup x.known
      OBVIOUS
    <3>2. known' = [known EXCEPT ![r] = K]
      BY <2>1, <3>1
    <3>3. Register!Learn(r, K)
      BY <1>1, <2>2, <3>2, SavedLearns
    <3> QED BY <3>1, <3>3 DEF Register!Learn
  <2>4. Register!Merge(r, x.known)
    BY <2>1, <2>3 DEF Register!Merge
  <2> QED BY <1>2, <2>4 DEF Register!Next
<1> QED BY <1>1, <1>3, <1>4

-----------------------------------------------------------------------------
(* Theorems *)

\* With the default conflict resolution no two updates that Batch creates, at
\* any replicas, get the same dot, and a replica keeps covering every update it
\* coordinated, whatever Sync overwrites and whatever copies Merge is given.
THEOREM HistoryStaysKept == Strategy = "default" => (Spec => []HistoryKept)
BY CausalityTracked, CausalImplies, PTL

\* With the default conflict resolution, reading a row returns exactly the
\* updates the replica has taken in that no other one of them was based on: the
\* version vectors of Batch and Merge implement the causal register.
THEOREM RegisterImplemented == Strategy = "default" => (Spec => ImplementsRegister)
<1> SUFFICES ASSUME Strategy = "default" PROVE Spec => ImplementsRegister
  OBVIOUS
<1>1. Init => Register!Init
  <2> SUFFICES ASSUME Init PROVE Register!Init
    OBVIOUS
  <2>1. [r \in Node |-> Ids(store[r])] = [r \in Node |-> {}]
    BY DEF Init, Ids
  <2>2. {x.known : x \in snaps} = {{}}
    <3>1. snaps = {[sibs |-> {}, known |-> {}]}
      BY DEF Init
    <3> QED BY <3>1, SMTT(40)
  <2> QED BY <2>1, <2>2 DEF Init, Register!Init, Update, Register!Update
<1>2. IInv /\ CausalInv /\ (IInv /\ CausalInv)' /\ [Next]_vars => [Register!Next]_(Register!vars)
  <2> SUFFICES ASSUME IInv, CausalInv, IInv', CausalInv', [Next]_vars PROVE [Register!Next]_(Register!vars)
    OBVIOUS
  <2>1. CASE Next
    BY <2>1, StepImplements
  <2>2. CASE UNCHANGED vars
    BY <2>2 DEF vars, Register!vars
  <2> QED BY <2>1, <2>2
<1> QED BY <1>1, <1>2, CausalityTracked, PTL DEF Spec, ImplementsRegister, Register!Spec
=============================================================================
