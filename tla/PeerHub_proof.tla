----------------------------- MODULE PeerHub_proof -----------------------------
(***************************************************************************)
(* Proofs about the hub: PeerHub, for any peers, workers, limits of pushes *)
(* and any number of connections, sessions and disconnects, and, in the    *)
(* second part, Historian with the hub's two forwarding loops, for any     *)
(* limits, batch sizes, sources of alerts and numbers of updates and       *)
(* faults.                                                                 *)
(***************************************************************************)
EXTENDS PeerHub, Historian, FiniteSetTheorems, SequenceTheorems, WellFoundedInduction, TLAPS

-----------------------------------------------------------------------------
(* Counting the entries of a queue *)

LEMMA PlacesFinite ==
  ASSUME NEW q \in Seq(Peers), NEW p
  PROVE  /\ IsFiniteSet(Places(q, p)) /\ Cardinality(Places(q, p)) \in Nat
         /\ Places(q, p) \subseteq 1 .. Len(q)
         /\ Cardinality(Places(q, p)) = 0 <=> Places(q, p) = {}
<1>1. DOMAIN q = 1 .. Len(q) /\ Len(q) \in Nat
  OBVIOUS
<1>2. Places(q, p) \in SUBSET (1 .. Len(q))
  BY <1>1 DEF Places
<1>3. IsFiniteSet(1 .. Len(q))
  BY <1>1, FS_Interval
<1> QED BY <1>2, <1>3, FS_Subset, FS_CardinalityType, FS_EmptySet

LEMMA PlacesAppend ==
  ASSUME NEW q \in Seq(Peers), NEW p \in Peers
  PROVE  /\ Append(q, p) \in Seq(Peers)
         /\ Cardinality(Places(Append(q, p), p)) = Cardinality(Places(q, p)) + 1
         /\ \A x \in Peers : x # p => Places(Append(q, p), x) = Places(q, x)
<1> DEFINE n == Len(q) + 1
<1>1. /\ Append(q, p) \in Seq(Peers) /\ n \in Nat /\ DOMAIN q = 1 .. n - 1
      /\ DOMAIN Append(q, p) = 1 .. n /\ Append(q, p)[n] = p
      /\ \A i \in 1 .. n - 1 : Append(q, p)[i] = q[i]
  OBVIOUS
<1> HIDE DEF n
<1>2. Places(Append(q, p), p) = Places(q, p) \cup {n} /\ n \notin Places(q, p)
  BY <1>1 DEF Places
<1>3. \A x \in Peers : x # p => Places(Append(q, p), x) = Places(q, x)
  BY <1>1 DEF Places
<1>4. Cardinality(Places(q, p) \cup {n}) = Cardinality(Places(q, p)) + 1
  BY <1>2, PlacesFinite, FS_AddElement
<1> QED BY <1>1, <1>2, <1>3, <1>4

\* Taking out the entry at i moves the later ones forward.
LEMMA PlacesRemoveAt ==
  ASSUME NEW q \in Seq(Peers), NEW i \in DOMAIN q
  PROVE  /\ RemoveAt(q, i) \in Seq(Peers)
         /\ \A x : Cardinality(Places(RemoveAt(q, i), x)) =
                     IF x = q[i] THEN Cardinality(Places(q, x)) - 1 ELSE Cardinality(Places(q, x))
<1> DEFINE n == Len(q)
           r == RemoveAt(q, i)
<1>1. n \in Nat /\ DOMAIN q = 1 .. n /\ i \in 1 .. n /\ n \in Nat \ {0}
  OBVIOUS
<1> DEFINE a == SubSeq(q, 1, i - 1)
           b == SubSeq(q, i + 1, n)
<1>2. a \in Seq(Peers) /\ b \in Seq(Peers)
  BY <1>1
<1>3. /\ Len(a) = i - 1 /\ Len(b) = n - i
      /\ \A j \in 1 .. i - 1 : a[j] = q[j]
      /\ \A j \in 1 .. n - i : b[j] = q[j + i]
  <2>1. /\ i - 1 \in Nat /\ i + 1 \in Nat /\ n - i \in Nat /\ n - (i + 1) + 1 = n - i
        /\ \A k \in 1 .. i - 1 : k \in 1 .. n
        /\ \A k \in i + 1 .. n : k \in 1 .. n
        /\ \A j \in 1 .. i - 1 : 1 + j - 1 = j
        /\ \A j \in 1 .. n - i : (i + 1) + j - 1 = j + i
        /\ ~(i + 1 <= n) => n - i = 0
        /\ ~(1 <= i - 1) => i - 1 = 0
    BY <1>1
  <2>2. q \in [1 .. n -> Peers]
    BY LenProperties
  <2>3. (\A k \in 1 .. i - 1 : q[k] \in Peers) /\ (\A k \in i + 1 .. n : q[k] \in Peers)
    BY <2>1, <2>2
  <2> HIDE DEF n
  <2>4. /\ Len(a) = IF 1 <= i - 1 THEN (i - 1) - 1 + 1 ELSE 0
        /\ \A j \in 1 .. (i - 1) - 1 + 1 : a[j] = q[1 + j - 1]
    BY <2>1, <2>3, SubSeqProperties
  <2>5. /\ Len(b) = IF i + 1 <= n THEN n - (i + 1) + 1 ELSE 0
        /\ \A j \in 1 .. n - (i + 1) + 1 : b[j] = q[(i + 1) + j - 1]
    <3> DEFINE f == i + 1
    <3>1. f \in Int /\ n \in Int /\ \A k \in f .. n : q[k] \in Peers
      BY <1>1, <2>1, <2>3
    <3> HIDE DEF f
    <3>2. /\ Len(SubSeq(q, f, n)) = IF f <= n THEN n - f + 1 ELSE 0
          /\ \A j \in 1 .. n - f + 1 : SubSeq(q, f, n)[j] = q[f + j - 1]
      BY <3>1, SubSeqProperties
    <3> QED BY <3>2 DEF f
  <2> HIDE DEF a, b
  <2>6. (i - 1) - 1 + 1 = i - 1
    BY <2>1
  <2>7. Len(a) = i - 1
    BY <1>1, <2>4, <2>6
  <2>8. Len(b) = n - i
    <3>1. n - (i + 1) + 1 = n - i /\ (i + 1 <= n \/ i = n)
      BY <1>1
    <3> QED BY <1>1, <2>5, <3>1
  <2>9. ASSUME NEW j \in 1 .. i - 1 PROVE a[j] = q[j]
    <3>1. j \in 1 .. (i - 1) - 1 + 1 /\ 1 + j - 1 = j
      BY <1>1, <2>6
    <3> QED BY <2>4, <3>1
  <2>10. ASSUME NEW j \in 1 .. n - i PROVE b[j] = q[j + i]
    <3>1. j \in 1 .. n - (i + 1) + 1 /\ (i + 1) + j - 1 = j + i
      BY <1>1
    <3> QED BY <2>5, <3>1
  <2> QED BY <2>7, <2>8, <2>9, <2>10
<1>4. r = a \o b
  BY DEF RemoveAt
<1> HIDE DEF a, b, r
<1>5. r \in Seq(Peers) /\ Len(r) = n - 1
  <2>1. r \in Seq(Peers) /\ Len(r) = Len(a) + Len(b)
    BY <1>2, <1>4
  <2> QED BY <1>1, <1>3, <2>1
<1>6. \A j \in 1 .. n - 1 : r[j] = IF j < i THEN q[j] ELSE q[j + 1]
  <2> SUFFICES ASSUME NEW j \in 1 .. n - 1 PROVE r[j] = IF j < i THEN q[j] ELSE q[j + 1]
    OBVIOUS
  <2>1. CASE j < i
    <3>1. j \in 1 .. Len(a)
      BY <1>1, <1>3, <2>1
    <3> QED BY <1>2, <1>3, <1>4, <2>1, <3>1
  <2>2. CASE ~(j < i)
    <3>1. j - Len(a) \in 1 .. Len(b) /\ (j - (i - 1)) + i = j + 1 /\ j > Len(a) /\ j <= Len(a) + Len(b)
      BY <1>1, <1>3, <2>2
    <3>2. r[j] = b[j - Len(a)]
      BY <1>2, <1>4, <3>1
    <3> QED BY <1>3, <2>2, <3>1, <3>2
  <2> QED BY <2>1, <2>2
<1>7. DOMAIN r = 1 .. n - 1
  BY <1>1, <1>5
<1> HIDE DEF n, r
<1>8. ASSUME NEW x
      PROVE  Cardinality(Places(r, x)) =
               IF x = q[i] THEN Cardinality(Places(q, x)) - 1 ELSE Cardinality(Places(q, x))
  <2> DEFINE A == Places(q, x) \ {i}
             B == Places(r, x)
             f == [j \in A |-> IF j < i THEN j ELSE j - 1]
  <2>1. A = {j \in 1 .. n : q[j] = x /\ j # i} /\ B = {j \in 1 .. n - 1 : r[j] = x}
    BY <1>1, <1>7 DEF Places
  <2>2. f \in [A -> B]
    <3> SUFFICES ASSUME NEW j \in A PROVE (IF j < i THEN j ELSE j - 1) \in B
      OBVIOUS
    <3>1. j \in 1 .. n /\ q[j] = x /\ j # i
      BY <2>1
    <3>2. CASE j < i
      BY <1>1, <1>6, <2>1, <3>1, <3>2
    <3>3. CASE ~(j < i)
      <4>1. j - 1 \in 1 .. n - 1 /\ ~(j - 1 < i) /\ (j - 1) + 1 = j
        BY <1>1, <3>1, <3>3
      <4> QED BY <1>6, <2>1, <3>1, <3>3, <4>1
    <3> QED BY <3>2, <3>3
  <2>3. \A j, k \in A : f[j] = f[k] => j = k
    <3> SUFFICES ASSUME NEW j \in A, NEW k \in A,
                        (IF j < i THEN j ELSE j - 1) = (IF k < i THEN k ELSE k - 1)
                 PROVE  j = k
      OBVIOUS
    <3>1. j \in Int /\ k \in Int /\ i \in Int /\ j # i /\ k # i
      BY <1>1, <2>1
    <3> QED BY <3>1
  <2>4. \A k \in B : \E j \in A : f[j] = k
    <3> SUFFICES ASSUME NEW k \in B PROVE \E j \in A : f[j] = k
      OBVIOUS
    <3>1. k \in 1 .. n - 1 /\ r[k] = x
      BY <2>1
    <3>2. CASE k < i
      <4>1. k \in A
        BY <1>1, <1>6, <2>1, <3>1, <3>2
      <4> QED BY <3>2, <4>1
    <3>3. CASE ~(k < i)
      <4>1. k + 1 \in A /\ ~(k + 1 < i) /\ (k + 1) - 1 = k
        BY <1>1, <1>6, <2>1, <3>1, <3>3
      <4>2. f[k + 1] = k
        BY <4>1
      <4> QED BY <4>1, <4>2
    <3> QED BY <3>2, <3>3
  <2>5. f \in Bijection(A, B)
    <3> HIDE DEF f, A, B
    <3> QED BY <2>2, <2>3, <2>4 DEF Bijection, Injection, Surjection, IsInjective
  <2>6. ExistsBijection(A, B)
    BY <2>5 DEF ExistsBijection
  <2>7. IsFiniteSet(A) /\ Cardinality(A) = IF i \in Places(q, x) THEN Cardinality(Places(q, x)) - 1
                                           ELSE Cardinality(Places(q, x))
    BY PlacesFinite, FS_RemoveElement
  <2>8. Cardinality(B) = Cardinality(A)
    <3> HIDE DEF A, B
    <3> QED BY <2>6, <2>7, FS_Bijection
  <2>9. i \in Places(q, x) <=> x = q[i]
    BY DEF Places
  <2> QED BY <2>7, <2>8, <2>9
<1> QED BY <1>5, <1>8 DEF r

LEMMA BelowIs ==
  ASSUME NEW n \in Nat, NEW I \in SUBSET (1 .. n), NEW i \in I, NEW k \in I
  PROVE  /\ IsFiniteSet(I) /\ Cardinality(I) \in Nat
         /\ Cardinality({j \in I : j < i}) + 1 \in 1 .. Cardinality(I)
         /\ i < k => Cardinality({j \in I : j < i}) < Cardinality({j \in I : j < k})
<1> DEFINE A == {j \in I : j < i}
           B == {j \in I : j < k}
<1>1. IsFiniteSet(I) /\ Cardinality(I) \in Nat
  <2>1. IsFiniteSet(1 .. n)
    BY FS_Interval
  <2> QED BY <2>1, FS_Subset, FS_CardinalityType
<1>2. A \in SUBSET I /\ i \notin A
  BY i \in Nat
<1>3. B \in SUBSET I
  OBVIOUS
<1> HIDE DEF A, B
<1>4. /\ IsFiniteSet(A) /\ Cardinality(A) \in Nat /\ Cardinality(A) <= Cardinality(I)
      /\ IsFiniteSet(B) /\ Cardinality(B) \in Nat
  BY <1>1, <1>2, <1>3, FS_Subset, FS_CardinalityType
<1>5. Cardinality(A) # Cardinality(I)
  BY <1>1, <1>2, FS_Subset
<1>6. ASSUME i < k PROVE Cardinality(A) < Cardinality(B)
  <2>1. i \in Nat /\ k \in Nat /\ \A j \in I : j \in Nat
    OBVIOUS
  <2>2. A \in SUBSET B /\ i \in B
    <3>1. \A j \in I : j < i => j < k
      BY <1>6, <2>1
    <3> QED BY <1>6, <3>1 DEF A, B
  <2>3. Cardinality(A) <= Cardinality(B) /\ Cardinality(A) # Cardinality(B)
    BY <1>2, <1>4, <2>2, FS_Subset
  <2> QED BY <1>4, <2>3
<1>7. Cardinality(A) + 1 \in 1 .. Cardinality(I)
  BY <1>1, <1>4, <1>5
<1> QED BY <1>1, <1>6, <1>7 DEF A, B

\* The elements of a finite set can be counted in their order.
LEMMA NthCounts ==
  ASSUME NEW n \in Nat, NEW I \in SUBSET (1 .. n)
  PROVE  /\ IsFiniteSet(I) /\ Cardinality(I) \in Nat
         /\ \A k \in 1 .. Cardinality(I) : Nth(I, k) \in I
         /\ \A k, l \in 1 .. Cardinality(I) : Nth(I, k) = Nth(I, l) => k = l
         /\ \A i \in I : \E k \in 1 .. Cardinality(I) : Nth(I, k) = i
<1> DEFINE Below(i) == {j \in I : j < i}
           c == Cardinality(I)
           rank == [i \in I |-> Cardinality(Below(i)) + 1]
<1>1. IsFiniteSet(I) /\ c \in Nat
  <2>1. IsFiniteSet(1 .. n)
    BY FS_Interval
  <2> QED BY <2>1, FS_Subset, FS_CardinalityType
<1>2. \A i, k \in I : /\ Cardinality(Below(i)) + 1 \in 1 .. c
                      /\ i < k => Cardinality(Below(i)) < Cardinality(Below(k))
  BY BelowIs
<1>3. IsFiniteSet(1 .. c) /\ Cardinality(1 .. c) = c
  <2> HIDE DEF c
  <2> QED BY <1>1, FS_Interval
<1>4. \A i \in I : Cardinality(Below(i)) \in Nat
  BY <1>1, FS_Subset, FS_CardinalityType
<1>5. \A i, k \in I : Cardinality(Below(i)) = Cardinality(Below(k)) => i = k
  <2>1. \A i, k \in I : i = k \/ i < k \/ k < i
    OBVIOUS
  <2> HIDE DEF Below, c
  <2> QED BY <1>2, <1>4, <2>1
<1> HIDE DEF Below
<1>6. rank \in [I -> 1 .. c]
  BY <1>2
<1>7. \A i, k \in I : rank[i] = rank[k] => i = k
  BY <1>4, <1>5
<1>8. rank \in Surjection(I, 1 .. c)
  <2> HIDE DEF rank
  <2>1. rank \in Injection(I, 1 .. c)
    BY <1>6, <1>7 DEF Injection, IsInjective
  <2> QED BY <1>1, <1>3, <2>1, FS_Injection
<1>9. ASSUME NEW k \in 1 .. c
      PROVE  Nth(I, k) \in I /\ rank[Nth(I, k)] = k
  <2>1. PICK i \in I : rank[i] = k
    BY <1>8 DEF Surjection
  <2>2. Cardinality(Below(i)) = k - 1
    BY <1>4, <2>1
  <2>3. Nth(I, k) \in I /\ Cardinality(Below(Nth(I, k))) = k - 1
    BY <2>2 DEF Nth, Below
  <2>4. rank[Nth(I, k)] = (k - 1) + 1
    BY <2>3
  <2> QED BY <2>3, <2>4
<1> HIDE DEF rank, c
<1>10. \A i \in I : rank[i] \in 1 .. c /\ Nth(I, rank[i]) = i
  BY <1>6, <1>7, <1>9
<1> QED BY <1>1, <1>9, <1>10 DEF c

LEMMA PlacesWithout ==
  ASSUME NEW q \in Seq(Peers), NEW p
  PROVE  /\ Without(q, p) \in Seq(Peers)
         /\ Places(Without(q, p), p) = {}
         /\ \A x : x # p => Cardinality(Places(Without(q, p), x)) = Cardinality(Places(q, x))
<1> DEFINE I == Others(q, p)
           c == Cardinality(I)
           r == Without(q, p)
           f == [k \in 1 .. c |-> Nth(I, k)]
<1>1. I \in SUBSET (1 .. Len(q)) /\ Len(q) \in Nat /\ DOMAIN q = 1 .. Len(q)
  BY DEF Others
<1>2. /\ c \in Nat
      /\ \A k \in 1 .. c : Nth(I, k) \in I
      /\ \A k, l \in 1 .. c : Nth(I, k) = Nth(I, l) => k = l
      /\ \A i \in I : \E k \in 1 .. c : Nth(I, k) = i
  <2> HIDE DEF I
  <2> QED BY <1>1, NthCounts
<1>3. r = [k \in 1 .. c |-> q[Nth(I, k)]]
  BY DEF Without
<1>4. \A i \in I : i \in DOMAIN q /\ q[i] \in Peers /\ q[i] # p
  BY <1>1 DEF Others
<1>5. \A x : x # p => Places(q, x) \subseteq I
  BY DEF Places, Others
<1> HIDE DEF I, c, r
<1>6. r \in Seq(Peers) /\ DOMAIN r = 1 .. c
  <2>1. \A k \in 1 .. c : q[Nth(I, k)] \in Peers
    BY <1>2, <1>4
  <2>2. r \in [1 .. c -> Peers]
    BY <1>3, <2>1
  <2> QED BY <1>2, <2>2, SeqDef
<1>7. Places(r, p) = {}
  BY <1>2, <1>3, <1>4 DEF Places
<1>8. ASSUME NEW x, x # p
      PROVE  Cardinality(Places(r, x)) = Cardinality(Places(q, x))
  <2> DEFINE A == Places(r, x)
             B == Places(q, x)
             g == [k \in A |-> Nth(I, k)]
  <2>1. \A k \in A : k \in 1 .. c /\ q[Nth(I, k)] = x
    BY <1>3, <1>6 DEF Places
  <2>2. g \in [A -> B]
    BY <1>2, <1>4, <2>1 DEF Places
  <2>3. \A k, l \in A : g[k] = g[l] => k = l
    BY <1>2, <2>1
  <2>4. ASSUME NEW i \in B PROVE \E k \in A : g[k] = i
    <3>1. i \in I /\ q[i] = x
      BY <1>5, <1>8 DEF Places
    <3>2. PICK k \in 1 .. c : Nth(I, k) = i
      BY <1>2, <3>1
    <3>3. k \in A
      BY <1>3, <1>6, <3>1, <3>2 DEF Places
    <3> QED BY <3>2, <3>3
  <2>5. IsFiniteSet(A)
    BY <1>6, PlacesFinite
  <2> HIDE DEF A, B, g
  <2>6. ExistsBijection(A, B)
    BY <2>2, <2>3, <2>4 DEF ExistsBijection, Bijection, Injection, Surjection, IsInjective
  <2>7. Cardinality(A) = Cardinality(B)
    BY <2>5, <2>6, FS_Bijection
  <2> QED BY <2>7 DEF A, B
<1> QED BY <1>6, <1>7, <1>8 DEF r

\* RemoveMulti leaves n entries of the peer behind.
LEMMA PlacesLeft ==
  ASSUME NEW q \in Seq(Peers), NEW p \in Peers, NEW n \in Nat
  PROVE  /\ q \o [i \in 1 .. n |-> p] \in Seq(Peers)
         /\ n = 0 => q \o [i \in 1 .. n |-> p] = q
         /\ \A x : x # p => Places(q \o [i \in 1 .. n |-> p], x) = Places(q, x)
<1> DEFINE t == [i \in 1 .. n |-> p]
<1>1. t \in Seq(Peers) /\ Len(t) = n /\ \A i \in 1 .. n : t[i] = p
  <2>1. t \in [1 .. n -> Peers]
    OBVIOUS
  <2> QED BY <2>1, SeqDef
<1> HIDE DEF t
<1>2. /\ q \o t \in Seq(Peers) /\ Len(q \o t) = Len(q) + n
      /\ \A i \in 1 .. Len(q) : (q \o t)[i] = q[i]
      /\ \A i \in Len(q) + 1 .. Len(q) + n : (q \o t)[i] = p
  <2>1. /\ q \o t \in Seq(Peers) /\ Len(q \o t) = Len(q) + n
        /\ \A i \in 1 .. Len(q) + n : (q \o t)[i] = IF i <= Len(q) THEN q[i] ELSE t[i - Len(q)]
    BY <1>1
  <2> QED BY <1>1, <2>1
<1>3. n = 0 => q \o t = q
  BY <1>1
<1>4. \A x : x # p => Places(q \o t, x) = Places(q, x)
  <2>1. DOMAIN (q \o t) = 1 .. Len(q) + n /\ DOMAIN q = 1 .. Len(q) /\ Len(q) \in Nat
    BY <1>2
  <2> QED BY <1>2, <2>1 DEF Places
<1> QED BY <1>2, <1>3, <1>4 DEF t

-----------------------------------------------------------------------------
(* The inductive invariant *)

\* A peer has a channel from addPeer to the end of removePeer, and a session
\* table until removePeer begins.
Tracked ==
  /\ \A p \in Peers : chan[p] # 0 <=> hub[p] \in {"serving", "waiting"}
  /\ \A p \in Peers : p \in added <=> hub[p] = "serving"
  /\ \A p \in Peers : hub[p] = "connected" => made # 0

\* The waitGroup of a peer counts its sessions, and they have its channel.
SessionInv ==
  /\ \A w \in Workers : \/ ses[w] = Idle
                        \/ ses[w].peer \in Peers /\ ses[w].pc # "idle" /\ ses[w].conn = chan[ses[w].peer]
  /\ \A p \in Peers : /\ IsFiniteSet(Sessions(p)) /\ wg[p] = Cardinality(Sessions(p))
                      /\ Sessions(p) # {} => chan[p] # 0

\* Who is about to send while he holds mapMutex has an open channel.
SendInv ==
  /\ push.at # None => chan[push.at] # 0
  /\ mux.pc # "idle" => mux.peer \in Peers
  /\ mux.pc = "abort" => chan[mux.peer] # 0

\* A peer without session table is not in the scheduler, the others are in it
\* or in one initiator session.
TurnInv ==
  /\ \A p \in Peers \ added : ~cloud \/ ~stolen => Entries(p) = 0
  /\ OneTurnEach

IInv == TypeOK /\ Tracked /\ SessionInv /\ SendInv /\ TurnInv

-----------------------------------------------------------------------------
(* Types *)

\* What Sessions, Places and mapMutex are made of stays in its type.
LEMMA QueueTypes ==
  ASSUME queue \in Seq(Peers), NEW p \in Peers
  PROVE  /\ Schedule(p) => queue' \in Seq(Peers)
         /\ RemovePeriodic(p) => queue' \in Seq(Peers)
         /\ RemoveMulti(p) => queue' \in Seq(Peers)
         /\ Advance(p) => queue' \in Seq(Peers) /\ stolen' \in BOOLEAN
         /\ \A x : Next_(x) => x \in Peers
<1>1. Schedule(p) => queue' \in Seq(Peers)
  BY DEF Schedule
<1>2. Without(queue, p) \in Seq(Peers)
  BY PlacesWithout
<1>3. RemovePeriodic(p) => queue' \in Seq(Peers)
  BY <1>2 DEF RemovePeriodic
<1>4. RemoveMulti(p) => queue' \in Seq(Peers)
  <2> SUFFICES ASSUME RemoveMulti(p) PROVE queue' \in Seq(Peers)
    OBVIOUS
  <2>1. Entries(p) \in Nat
    BY PlacesFinite DEF Entries
  <2>2. PICK n \in 0 .. Entries(p) : queue' = Without(queue, p) \o [i \in 1 .. n |-> p]
    BY DEF RemoveMulti
  <2>3. n \in Nat
    BY <2>1
  <2> QED BY <1>2, <2>2, <2>3, PlacesLeft
<1>5. \A i \in Heads : i \in DOMAIN queue
  BY DEF Heads, First
<1>6. \A i \in Heads : RemoveAt(queue, i) \in Seq(Peers)
  BY <1>5, PlacesRemoveAt
<1>7. Advance(p) => queue' \in Seq(Peers) /\ stolen' \in BOOLEAN
  BY <1>6 DEF Advance
<1>8. \A x : Next_(x) => x \in Peers
  BY <1>5 DEF Next_
<1> QED BY <1>1, <1>3, <1>4, <1>7, <1>8

SesType == [peer : Peers \cup {None}, conn : 0 .. MaxConns, open : BOOLEAN,
            pc : {"idle", "start", "receive", "send", "last", "over"}]
PushType == [todo : SUBSET Peers, at : Peers \cup {None}, count : Nat, on : BOOLEAN]
MuxType == [peer : Peers \cup {None}, pc : {"idle", "start", "abort"}]

LEMMA RecordTypes ==
  /\ \A s \in SesType, c \in {"send", "receive", "last", "over"} : [s EXCEPT !.pc = c] \in SesType
  /\ \A s \in SesType : [s EXCEPT !.open = FALSE] \in SesType
  /\ MaxConns \in Nat => Idle \in SesType
  /\ \A m \in MuxType : [m EXCEPT !.pc = "abort"] \in MuxType
  /\ NoMessage \in MuxType /\ NoPush \in PushType
  /\ \A x \in PushType, p \in Peers \cup {None}, t \in SUBSET Peers, c \in Nat :
       [x EXCEPT !.todo = t, !.count = c, !.at = p] \in PushType
  /\ \A t \in SUBSET Peers : [NoPush EXCEPT !.todo = t, !.on = TRUE] \in PushType
  /\ \A x \in PushType : [x EXCEPT !.at = None] \in PushType
<1>1. \A s \in SesType, c \in {"send", "receive", "last", "over"} : [s EXCEPT !.pc = c] \in SesType
  BY DEF SesType
<1>2. \A s \in SesType : [s EXCEPT !.open = FALSE] \in SesType
  BY DEF SesType
<1>3. MaxConns \in Nat => Idle \in SesType
  BY DEF SesType, Idle
<1>4. \A m \in MuxType : [m EXCEPT !.pc = "abort"] \in MuxType
  BY DEF MuxType
<1>5. NoMessage \in MuxType /\ NoPush \in PushType
  BY DEF MuxType, NoMessage, PushType, NoPush
<1>6. ASSUME NEW x \in PushType, NEW p \in Peers \cup {None}, NEW t \in SUBSET Peers, NEW c \in Nat
      PROVE  [x EXCEPT !.todo = t, !.count = c, !.at = p] \in PushType
  BY DEF PushType
<1>7. ASSUME NEW t \in SUBSET Peers PROVE [NoPush EXCEPT !.todo = t, !.on = TRUE] \in PushType
  BY DEF PushType, NoPush
<1>8. \A x \in PushType : [x EXCEPT !.at = None] \in PushType
  BY DEF PushType
<1> QED BY <1>1, <1>2, <1>3, <1>4, <1>5, <1>6, <1>7, <1>8

LEMMA TypeNext ==
  ASSUME IInv, [Next]_vars
  PROVE  TypeOK'
<1> DEFINE HubT == hub \in [Peers -> {"none", "registered", "connected", "serving", "waiting", "removed", "leaving"}]
           ClosedT == closed \in [Peers -> BOOLEAN]
           ConnT == conn \in [Peers -> {"down", "up", "mute", "broken"}]
           MadeT == made \in 0 .. MaxConns
           ChanT == chan \in [Peers -> 0 .. MaxConns]
           AddedT == added \in SUBSET Peers
           WgT == wg \in [Peers -> Nat]
           QueueT == queue \in Seq(Peers)
           NextT == next \in Peers \cup {None}
           StolenT == stolen \in BOOLEAN
           SesT == ses \in [Workers -> SesType]
           WriterT == writer \in [Peers -> {"idle", "busy"}]
           ClosingT == closing \in SUBSET Peers
           HeldT == held \in Peers \cup {None}
           PushT == push \in PushType
           MuxT == mux \in MuxType
           EventsT == events \in 0 .. MaxEvents
           CloudT == cloud \in BOOLEAN
           Kept == /\ UNCHANGED hub => HubT'
                   /\ UNCHANGED closed => ClosedT'
                   /\ UNCHANGED conn => ConnT'
                   /\ UNCHANGED made => MadeT'
                   /\ UNCHANGED chan => ChanT'
                   /\ UNCHANGED added => AddedT'
                   /\ UNCHANGED wg => WgT'
                   /\ UNCHANGED queue => QueueT'
                   /\ UNCHANGED next => NextT'
                   /\ UNCHANGED stolen => StolenT'
                   /\ UNCHANGED ses => SesT'
                   /\ UNCHANGED writer => WriterT'
                   /\ UNCHANGED closing => ClosingT'
                   /\ UNCHANGED held => HeldT'
                   /\ UNCHANGED push => PushT'
                   /\ UNCHANGED mux => MuxT'
                   /\ UNCHANGED events => EventsT'
                   /\ UNCHANGED cloud => CloudT'
           All == /\ HubT /\ ClosedT /\ ConnT /\ MadeT /\ ChanT /\ AddedT /\ WgT /\ QueueT /\ NextT
                  /\ StolenT /\ SesT /\ WriterT /\ ClosingT /\ HeldT /\ PushT /\ MuxT /\ EventsT /\ CloudT
<1>0. MaxConns \in Nat /\ MaxEvents \in Nat /\ None \notin Peers
  BY HubAssumption
<1>i. TypeOK /\ SessionInv /\ SendInv
  BY DEF IInv
<1>a. All
  BY <1>i DEF TypeOK, SesType, PushType, MuxType
<1>k. Kept
  BY <1>a
<1>q. ASSUME All' PROVE TypeOK'
  BY <1>q DEF TypeOK, SesType, PushType, MuxType
<1>e. Event => EventsT'
  BY <1>0, <1>a DEF Event
<1> HIDE DEF HubT, ClosedT, ConnT, MadeT, ChanT, AddedT, WgT, QueueT, NextT, StolenT, SesT, WriterT,
             ClosingT, HeldT, PushT, MuxT, EventsT, CloudT
<1>b. ASSUME NEW w \in Workers, NEW c \in {"send", "receive", "last", "over"}, ses' = [ses EXCEPT ![w].pc = c]
      PROVE  SesT'
  <2>1. [ses[w] EXCEPT !.pc = c] \in SesType
    BY <1>a, RecordTypes DEF SesT
  <2> QED BY <1>a, <1>b, <2>1 DEF SesT
<1>c. Idle \in SesType
  BY <1>0, RecordTypes
<1>h. ASSUME NEW p \in Peers,
             NEW h \in {"none", "registered", "connected", "serving", "waiting", "removed", "leaving"},
             hub' = [hub EXCEPT ![p] = h]
      PROVE  HubT'
  BY <1>a, <1>h DEF HubT
<1>s. \A p \in Peers : Sends(p) => WriterT'
  BY <1>a DEF Sends, WriterT
<1>t. ASSUME NEW p \in Peers, Establish(p) PROVE HubT' /\ MadeT' /\ ConnT' /\ WriterT'
  <2>1. HubT'
    BY <1>h, <1>t DEF Establish
  <2>2. MadeT'
    BY <1>0, <1>a, <1>t DEF Establish, MadeT
  <2>3. ConnT' /\ WriterT'
    BY <1>a, <1>t DEF Establish, ConnT, WriterT
  <2> QED BY <2>1, <2>2, <2>3
<1>u. ASSUME NEW p \in Peers
      PROVE  /\ Schedule(p) \/ RemovePeriodic(p) \/ RemoveMulti(p) => QueueT'
             /\ Advance(p) => QueueT' /\ StolenT'
             /\ \A x : Next_(x) => x \in Peers
  BY <1>a, QueueTypes DEF QueueT, StolenT
<1>v. ASSUME NEW w \in Workers, NEW p \in Peers, NEW c \in {"start", "receive"}, ses' = [ses EXCEPT ![w] = Session(p, c)]
      PROVE  SesT'
  <2>1. chan[p] \in 0 .. MaxConns
    BY <1>a DEF ChanT
  <2>2. Session(p, c) \in SesType
    BY <2>1 DEF Session, SesType
  <2> QED BY <1>a, <1>v, <2>2 DEF SesT
<1>1. ASSUME NEW p \in Peers, Arrive(p) PROVE TypeOK'
  <2>1. HubT'
    BY <1>h, <1>1 DEF Arrive, Register
  <2>2. ClosedT'
    BY <1>a, <1>1 DEF Arrive, ClosedT
  <2> QED BY <1>1, <1>k, <1>q, <2>1, <2>2 DEF Arrive, Turns, Locks
<1>2. ASSUME NEW p \in Peers, Accept(p) PROVE TypeOK'
  <2>1. HubT' /\ MadeT' /\ ConnT' /\ WriterT'
    <3>1. CASE hub' = [hub EXCEPT ![p] = "leaving"] /\ UNCHANGED <<made, conn, writer>>
      BY <1>h, <1>k, <3>1
    <3> QED BY <1>2, <1>t, <3>1 DEF Accept
  <2> QED BY <1>2, <1>k, <1>q, <2>1 DEF Accept, Turns, Locks
<1>3. ASSUME NEW p \in Peers, Connect(p) PROVE TypeOK'
  <2>1. HubT' /\ MadeT' /\ ConnT' /\ WriterT'
    <3>1. CASE hub' = [hub EXCEPT ![p] = "leaving"] /\ UNCHANGED <<made, conn, writer>>
      BY <1>h, <1>k, <3>1
    <3> QED BY <1>3, <1>t, <3>1 DEF Connect
  <2> QED BY <1>3, <1>k, <1>q, <2>1 DEF Connect, Turns, Locks
<1>4. ASSUME NEW p \in Peers, AddPeer(p) PROVE TypeOK'
  <2>1. HubT' /\ QueueT'
    BY <1>4, <1>h, <1>u DEF AddPeer
  <2>2. ChanT' /\ WgT' /\ AddedT'
    BY <1>4, <1>a DEF AddPeer, ChanT, WgT, AddedT, MadeT
  <2> QED BY <1>4, <1>k, <1>q, <2>1, <2>2 DEF AddPeer, Locks
<1>5. ASSUME NEW p \in Peers, Break(p) \/ MuteEnds(p) PROVE TypeOK'
  <2>1. ConnT' /\ EventsT'
    <3>1. conn' = [conn EXCEPT ![p] = "broken"] \/ UNCHANGED conn
      BY <1>5 DEF Break, MuteEnds
    <3>2. ConnT'
      BY <3>1, <1>a DEF ConnT
    <3>3. EventsT'
      BY <1>5, <1>k, <1>e DEF Break, MuteEnds
    <3> QED BY <3>2, <3>3
  <2> QED BY <1>5, <1>k, <1>q, <2>1 DEF Break, MuteEnds, Turns, Locks
<1>6. ASSUME NEW p \in Peers, RemovePeer(p) PROVE TypeOK'
  <2>1. HubT' /\ QueueT'
    BY <1>6, <1>h, <1>u DEF RemovePeer
  <2>2. SesT'
    <3>1. \A w \in Workers : ses[w] \in SesType /\ [ses[w] EXCEPT !.open = FALSE] \in SesType
      BY <1>a, RecordTypes DEF SesT
    <3>2. ses' = [w \in Workers |-> IF ses[w].peer = p THEN [ses[w] EXCEPT !.open = FALSE] ELSE ses[w]]
      BY <1>6 DEF RemovePeer
    <3> QED BY <3>1, <3>2 DEF SesT
  <2>3. AddedT'
    BY <1>6, <1>a DEF RemovePeer, AddedT
  <2> QED BY <1>6, <1>k, <1>q, <2>1, <2>2, <2>3 DEF RemovePeer, Locks
<1>7. ASSUME NEW p \in Peers, CloseChannel(p) PROVE TypeOK'
  <2>1. HubT'
    BY <1>7, <1>h DEF CloseChannel
  <2>2. ChanT'
    BY <1>7, <1>0, <1>a DEF CloseChannel, ChanT
  <2> QED BY <1>7, <1>k, <1>q, <2>1, <2>2 DEF CloseChannel, Turns, Locks
<1>8. ASSUME NEW p \in Peers, AfterRemoval(p) PROVE TypeOK'
  <2>1. HubT'
    BY <1>8, <1>h DEF AfterRemoval
  <2>2. ConnT'
    BY <1>8, <1>a DEF AfterRemoval, ConnT
  <2> QED BY <1>8, <1>k, <1>q, <2>1, <2>2 DEF AfterRemoval, Turns, Locks
<1>9. ASSUME NEW p \in Peers, Unregister(p) PROVE TypeOK'
  <2>1. HubT'
    BY <1>9, <1>h DEF Unregister
  <2> QED BY <1>9, <1>k, <1>q, <2>1 DEF Unregister, Turns, Locks
<1>10. ASSUME NEW p \in Peers, Written(p) PROVE TypeOK'
  <2>1. WriterT'
    BY <1>10, <1>a DEF Written, WriterT
  <2> QED BY <1>10, <1>k, <1>q, <2>1 DEF Written, Conns, Turns, Locks
<1>11. ASSUME AskScheduler PROVE TypeOK'
  <2>1. NextT'
    <3>1. CASE UNCHANGED next
      BY <1>k, <3>1
    <3>2. CASE Next_(next')
      <4>1. \A i \in Heads : queue[i] \in Peers
        BY <1>a DEF Heads, First, QueueT
      <4> QED BY <3>2, <4>1 DEF Next_, NextT
    <3> QED BY <1>11, <3>1, <3>2 DEF AskScheduler
  <2> QED BY <1>11, <1>k, <1>q, <2>1 DEF AskScheduler, Conns, Locks
<1>12. ASSUME AddInitiatorSession PROVE TypeOK'
  <2>1. next \in Peers
    BY <1>12, <1>a DEF AddInitiatorSession, NextT
  <2>2. QueueT' /\ StolenT' /\ EventsT'
    BY <1>12, <1>e, <1>u, <2>1 DEF AddInitiatorSession
  <2>3. SesT'
    <3>1. PICK w \in Initiators : ses' = [ses EXCEPT ![w] = Session(next, "start")]
      BY <1>12 DEF AddInitiatorSession
    <3> QED BY <1>v, <2>1, <3>1 DEF Workers
  <2>4. WgT' /\ NextT'
    BY <1>12, <1>a, <2>1 DEF AddInitiatorSession, WgT, NextT
  <2> QED BY <1>12, <1>k, <1>q, <2>2, <2>3, <2>4 DEF AddInitiatorSession, Conns, Locks
<1>13. ASSUME AddInitiatorFails PROVE TypeOK'
  <2>1. NextT'
    BY <1>13 DEF AddInitiatorFails, NextT
  <2> QED BY <1>13, <1>k, <1>q, <2>1 DEF AddInitiatorFails, Conns, Locks
<1>14. ASSUME NEW w \in Workers, StartSession(w) PROVE TypeOK'
  <2>1. SesT'
    BY <1>14, <1>b DEF StartSession
  <2> QED BY <1>14, <1>k, <1>q, <2>1 DEF StartSession, Conns, Turns, Locks
<1>15. ASSUME NEW w \in Workers, Exchange(w) PROVE TypeOK'
  <2>1. SesT' /\ EventsT'
    BY <1>15, <1>b, <1>e DEF Exchange
  <2> QED BY <1>15, <1>k, <1>q, <2>1 DEF Exchange, Conns, Turns, Locks
<1>16. ASSUME NEW w \in Workers, EndSession(w) PROVE TypeOK'
  <2>1. SesT'
    BY <1>16, <1>b DEF EndSession
  <2> QED BY <1>16, <1>k, <1>q, <2>1 DEF EndSession, Conns, Turns, Locks
<1>17. ASSUME NEW w \in Workers, SessionSends(w) PROVE TypeOK'
  <2>1. SesT'
    <3>1. \E c \in {"receive", "over"} : ses' = [ses EXCEPT ![w].pc = c]
      BY <1>17 DEF SessionSends
    <3> QED BY <1>b, <3>1
  <2>2. WriterT'
    <3>1. ses[w].peer \in Peers
      BY <1>17, <1>i DEF SessionSends, SessionInv, Idle
    <3> QED BY <1>17, <1>s, <3>1 DEF SessionSends
  <2> QED BY <1>17, <1>k, <1>q, <2>1, <2>2 DEF SessionSends, Conns, Turns, Locks
<1>18. ASSUME NEW w \in Workers, ses[w].pc = "over"
       PROVE  ses[w].peer \in Peers /\ wg[ses[w].peer] \in Nat /\ wg[ses[w].peer] - 1 \in Nat
  <2>1. ses[w].peer \in Peers
    BY <1>18, <1>i DEF SessionInv, Idle
  <2>2. Sessions(ses[w].peer) # {} /\ IsFiniteSet(Sessions(ses[w].peer))
    BY <1>i, <2>1 DEF SessionInv, Sessions
  <2>3. Cardinality(Sessions(ses[w].peer)) \in Nat /\ Cardinality(Sessions(ses[w].peer)) # 0
    BY <2>2, FS_EmptySet, FS_CardinalityType
  <2>4. wg[ses[w].peer] = Cardinality(Sessions(ses[w].peer))
    BY <1>i, <2>1 DEF SessionInv
  <2> QED BY <2>1, <2>3, <2>4
<1>o. ASSUME NEW w \in Workers, Over(w) PROVE SesT'
  BY <1>a, <1>c, <1>o DEF Over, SesT
<1>19. ASSUME NEW w \in Workers, RemoveInitiatorSession(w) PROVE TypeOK'
  <2>1. Over(w) /\ ses[w].peer \in Peers /\ wg[ses[w].peer] - 1 \in Nat
    BY <1>18, <1>19 DEF RemoveInitiatorSession, Over
  <2>2. QueueT'
    BY <1>19, <1>k, <1>u, <2>1 DEF RemoveInitiatorSession
  <2>3. WgT'
    BY <1>19, <1>a, <2>1 DEF RemoveInitiatorSession, WgT
  <2>4. SesT'
    BY <1>o, <2>1
  <2> QED BY <1>19, <1>k, <1>q, <2>2, <2>3, <2>4 DEF RemoveInitiatorSession, Conns, Locks
<1>20. ASSUME NEW w \in Workers, RemoveResponderSession(w) PROVE TypeOK'
  <2>1. Over(w) /\ ses[w].peer \in Peers /\ wg[ses[w].peer] - 1 \in Nat
    BY <1>18, <1>20 DEF RemoveResponderSession, Over
  <2>2. WgT'
    BY <1>20, <1>a, <2>1 DEF RemoveResponderSession, WgT
  <2>3. SesT'
    BY <1>o, <2>1
  <2> QED BY <1>20, <1>k, <1>q, <2>2, <2>3 DEF RemoveResponderSession, Conns, Turns, Locks
<1>21. ASSUME NEW p \in Peers, Receive(p) PROVE TypeOK'
  <2>1. MuxT' /\ EventsT'
    BY <1>21, <1>e DEF Receive, MuxT, MuxType
  <2> QED BY <1>21, <1>k, <1>q, <2>1 DEF Receive, Conns, Turns, Locks
<1>n. NoMessage \in MuxType /\ NoPush \in PushType
  BY RecordTypes
<1>22. ASSUME AddResponderSession PROVE TypeOK'
  <2>1. mux.peer \in Peers
    BY <1>22, <1>i DEF AddResponderSession, SendInv
  <2>2. SesT'
    <3>1. PICK w \in Responders : ses' = [ses EXCEPT ![w] = Session(mux.peer, "receive")]
      BY <1>22 DEF AddResponderSession
    <3> QED BY <1>v, <2>1, <3>1 DEF Workers
  <2>3. WgT'
    BY <1>22, <1>a, <2>1 DEF AddResponderSession, WgT
  <2>4. MuxT'
    BY <1>22, <1>n DEF AddResponderSession, MuxT
  <2> QED BY <1>22, <1>k, <1>q, <2>2, <2>3, <2>4 DEF AddResponderSession, Conns, Turns, Locks
<1>23. ASSUME Refuse PROVE TypeOK'
  <2>1. MuxT'
    <3>1. [mux EXCEPT !.pc = "abort"] \in MuxType
      BY <1>a, RecordTypes DEF MuxT
    <3> QED BY <1>23, <1>n, <3>1 DEF Refuse, MuxT
  <2> QED BY <1>23, <1>k, <1>q, <2>1 DEF Refuse, Conns, Turns, Locks
<1>24. ASSUME SendAbort PROVE TypeOK'
  <2>1. MuxT'
    BY <1>24, <1>n DEF SendAbort, MuxT
  <2>2. WriterT'
    <3>1. mux.peer \in Peers
      BY <1>24, <1>i DEF SendAbort, SendInv
    <3> QED BY <1>24, <1>s, <3>1 DEF SendAbort
  <2> QED BY <1>24, <1>k, <1>q, <2>1, <2>2 DEF SendAbort, Conns, Turns, Locks
<1>25. ASSUME StartPush PROVE TypeOK'
  <2>1. PushT'
    <3>1. PeerMap \in SUBSET Peers
      BY DEF PeerMap
    <3>2. push' = [NoPush EXCEPT !.todo = PeerMap, !.on = TRUE]
      BY <1>25 DEF StartPush
    <3> QED BY <3>1, <3>2, RecordTypes DEF PushT
  <2>2. EventsT'
    BY <1>25, <1>e DEF StartPush
  <2> QED BY <1>25, <1>k, <1>q, <2>1, <2>2 DEF StartPush, Conns, Turns
<1>26. ASSUME NEW p \in Peers, PushTo(p) PROVE TypeOK'
  <2>1. PushT'
    <3>1. push \in PushType /\ push.todo \ {p} \in SUBSET Peers /\ push.count + 1 \in Nat
      BY <1>a DEF PushT, PushType
    <3>2. \E x \in Peers \cup {None} :
             push' = [push EXCEPT !.todo = push.todo \ {p}, !.count = push.count + 1, !.at = x]
      BY <1>26 DEF PushTo
    <3>3. PICK x \in Peers \cup {None} :
             push' = [push EXCEPT !.todo = push.todo \ {p}, !.count = push.count + 1, !.at = x]
      BY <3>2
    <3> DEFINE t == push.todo \ {p}
               c == push.count + 1
    <3>4. t \in SUBSET Peers /\ c \in Nat /\ push' = [push EXCEPT !.todo = t, !.count = c, !.at = x]
      BY <3>1, <3>3
    <3> HIDE DEF t, c
    <3>5. push' \in PushType
      BY <3>1, <3>4, RecordTypes
    <3> QED BY <3>5 DEF PushT
  <2> QED BY <1>26, <1>k, <1>q, <2>1 DEF PushTo, Conns, Turns
<1>27. ASSUME PushSends PROVE TypeOK'
  <2>1. PushT'
    BY <1>27, <1>a, RecordTypes DEF PushSends, PushT
  <2>2. WriterT'
    <3>1. push.at \in Peers
      BY <1>27, <1>a DEF PushSends, PushT, PushType
    <3> QED BY <1>27, <1>s, <3>1 DEF PushSends
  <2> QED BY <1>27, <1>k, <1>q, <2>1, <2>2 DEF PushSends, Conns, Turns
<1>28. ASSUME EndPush PROVE TypeOK'
  <2>1. PushT'
    BY <1>28, <1>n DEF EndPush, PushT
  <2> QED BY <1>28, <1>k, <1>q, <2>1 DEF EndPush, Conns, Turns
<1>29. ASSUME StartDisconnect PROVE TypeOK'
  <2>1. ClosingT' /\ EventsT'
    BY <1>29, <1>e DEF StartDisconnect, PeerMap, ClosingT
  <2> QED BY <1>29, <1>k, <1>q, <2>1 DEF StartDisconnect, Conns, Turns
<1>30. ASSUME NEW p \in Peers, BeginClose(p) PROVE TypeOK'
  <2>1. HeldT' /\ ClosedT'
    BY <1>30, <1>a DEF BeginClose, HeldT, ClosedT
  <2> QED BY <1>30, <1>k, <1>q, <2>1 DEF BeginClose, Turns
<1>31. ASSUME EndClose PROVE TypeOK'
  <2>1. ConnT'
    BY <1>31, <1>a DEF EndClose, ConnT
  <2>2. ClosingT' /\ HeldT'
    BY <1>31, <1>a DEF EndClose, ClosingT, HeldT
  <2> QED BY <1>31, <1>k, <1>q, <2>1, <2>2 DEF EndClose, Turns
<1>32. ASSUME UNCHANGED vars PROVE TypeOK'
  BY <1>32, <1>k, <1>q DEF vars
<1> QED BY <1>1, <1>2, <1>3, <1>4, <1>5, <1>6, <1>7, <1>8, <1>9, <1>10, <1>11, <1>12, <1>13, <1>14,
           <1>15, <1>16, <1>17, <1>19, <1>20, <1>21, <1>22, <1>23, <1>24, <1>25, <1>26, <1>27, <1>28,
           <1>29, <1>30, <1>31, <1>32 DEF Next, Progress

-----------------------------------------------------------------------------
(* Channels and session tables *)

LEMMA TrackedNext ==
  ASSUME IInv, [Next]_vars
  PROVE  Tracked'
<1> USE DEF IInv
<1>0. /\ hub \in [Peers -> {"none", "registered", "connected", "serving", "waiting", "removed", "leaving"}]
      /\ chan \in [Peers -> 0 .. MaxConns] /\ made \in Nat
  BY DEF TypeOK
<1>1. ASSUME NEW p \in Peers, Arrive(p) PROVE Tracked'
  BY <1>0, <1>1 DEF Arrive, Register, Tracked
<1>2. ASSUME NEW p \in Peers, Establish(p), hub[p] = "registered", UNCHANGED <<chan, added>> PROVE Tracked'
  <2>1. made' # 0
    BY <1>0, <1>2 DEF Establish
  <2> QED BY <1>0, <1>2, <2>1 DEF Establish, Tracked
<1>3. ASSUME NEW p \in Peers, hub[p] \in {"registered", "removed", "leaving"},
             \E h \in {"none", "registered", "leaving"} : hub' = [hub EXCEPT ![p] = h],
             UNCHANGED <<made, chan, added>>
      PROVE  Tracked'
  BY <1>0, <1>3 DEF Tracked
<1>4. ASSUME NEW p \in Peers, Accept(p) PROVE Tracked'
  BY <1>2, <1>3, <1>4 DEF Accept
<1>5. ASSUME NEW p \in Peers, Connect(p) PROVE Tracked'
  BY <1>2, <1>3, <1>5 DEF Connect
<1>6. ASSUME NEW p \in Peers, AddPeer(p) PROVE Tracked'
  BY <1>0, <1>6 DEF AddPeer, Tracked
<1>7. ASSUME NEW p \in Peers, RemovePeer(p) PROVE Tracked'
  BY <1>0, <1>7 DEF RemovePeer, Tracked
<1>8. ASSUME NEW p \in Peers, CloseChannel(p) PROVE Tracked'
  BY <1>0, <1>8 DEF CloseChannel, Tracked
<1>9. ASSUME NEW p \in Peers, AfterRemoval(p) PROVE Tracked'
  BY <1>3, <1>9 DEF AfterRemoval
<1>10. ASSUME NEW p \in Peers, Unregister(p) PROVE Tracked'
  BY <1>3, <1>10 DEF Unregister
<1>11. ASSUME UNCHANGED <<hub, made, chan, added>> PROVE Tracked'
  BY <1>11 DEF Tracked
<1>12. ASSUME NEW p \in Peers, Written(p) \/ PushTo(p) \/ BeginClose(p) \/ Break(p) \/ MuteEnds(p) \/ Receive(p)
       PROVE  UNCHANGED <<hub, made, chan, added>>
  BY <1>12 DEF Written, PushTo, BeginClose, Break, MuteEnds, Receive, Conns
<1>13. ASSUME NEW w \in Workers,
              \/ StartSession(w) \/ EndSession(w) \/ SessionSends(w) \/ Exchange(w)
              \/ RemoveInitiatorSession(w) \/ RemoveResponderSession(w)
       PROVE  UNCHANGED <<hub, made, chan, added>>
  BY <1>13 DEF StartSession, EndSession, SessionSends, Exchange, RemoveInitiatorSession, RemoveResponderSession,
               Conns
<1>14. ASSUME \/ AddResponderSession \/ Refuse \/ SendAbort \/ PushSends \/ EndPush \/ EndClose
              \/ AskScheduler \/ AddInitiatorSession \/ AddInitiatorFails \/ StartPush \/ StartDisconnect
              \/ UNCHANGED vars
       PROVE  UNCHANGED <<hub, made, chan, added>>
  BY <1>14 DEF AddResponderSession, Refuse, SendAbort, PushSends, EndPush, EndClose, AskScheduler,
               AddInitiatorSession, AddInitiatorFails, StartPush, StartDisconnect, Conns, vars
<1> QED BY <1>1, <1>4, <1>5, <1>6, <1>7, <1>8, <1>9, <1>10, <1>11, <1>12, <1>13, <1>14 DEF Next, Progress

-----------------------------------------------------------------------------
(* Sessions and waitGroups *)

\* A step within the sessions changes neither their peers nor their channels.
SameSessions ==
  \A w \in Workers : /\ ses[w] = Idle => ses'[w] = Idle
                     /\ ses'[w].peer = ses[w].peer /\ ses'[w].conn = ses[w].conn
                     /\ ses[w].pc # "idle" => ses'[w].pc # "idle"

LEMMA SessionStays ==
  ASSUME SessionInv, SameSessions
  PROVE  /\ \A p : Sessions(p)' = Sessions(p)
         /\ UNCHANGED <<chan, wg>> => SessionInv'
<1>1. \A p : Sessions(p)' = Sessions(p)
  BY DEF Sessions, SameSessions
<1> QED BY <1>1 DEF SessionInv, SameSessions

LEMMA SessionBegins ==
  ASSUME IInv, NEW w \in Workers, NEW p \in Peers, NEW c \in {"start", "receive"}, ses[w] = Idle, p \in added,
         ses' = [ses EXCEPT ![w] = Session(p, c)], wg' = [wg EXCEPT ![p] = @ + 1], chan' = chan
  PROVE  /\ SessionInv'
         /\ w \notin Sessions(p) /\ Sessions(p)' = Sessions(p) \cup {w}
         /\ \A q \in Peers : q # p => Sessions(q)' = Sessions(q)
<1> USE DEF IInv
<1>1. ses \in [Workers -> SesType] /\ wg \in [Peers -> Nat]
  BY DEF TypeOK, SesType
<1>2. chan[p] # 0
  BY DEF Tracked
<1>3. p # None /\ \A q \in Peers : q # None
  BY HubAssumption
<1>4. Session(p, c) = [peer |-> p, conn |-> chan[p], pc |-> c, open |-> TRUE]
  BY DEF Session
<1>5. ses'[w] = Session(p, c) /\ \A v \in Workers : v # w => ses'[v] = ses[v]
  BY <1>1
<1>6. w \notin Sessions(p) /\ Sessions(p)' = Sessions(p) \cup {w}
  BY <1>3, <1>4, <1>5 DEF Sessions, Idle
<1>7. \A q \in Peers : q # p => Sessions(q)' = Sessions(q)
  BY <1>3, <1>4, <1>5 DEF Sessions, Idle
<1>8. ASSUME NEW v \in Workers
      PROVE  \/ ses'[v] = Idle
             \/ ses'[v].peer \in Peers /\ ses'[v].pc # "idle" /\ ses'[v].conn = chan'[ses'[v].peer]
  BY <1>4, <1>5 DEF SessionInv
<1>9. ASSUME NEW q \in Peers
      PROVE  /\ IsFiniteSet(Sessions(q)') /\ wg'[q] = Cardinality(Sessions(q)')
             /\ Sessions(q)' # {} => chan'[q] # 0
  <2>1. CASE q = p
    <3>1. IsFiniteSet(Sessions(p)') /\ Cardinality(Sessions(p)') = Cardinality(Sessions(p)) + 1
      BY <1>6, FS_AddElement DEF SessionInv
    <3>2. wg'[p] = wg[p] + 1
      BY <1>1
    <3> QED BY <1>2, <2>1, <3>1, <3>2 DEF SessionInv
  <2>2. CASE q # p
    BY <1>1, <1>7, <2>2 DEF SessionInv
  <2> QED BY <2>1, <2>2
<1>10. SessionInv'
  BY <1>8, <1>9 DEF SessionInv
<1> QED BY <1>6, <1>7, <1>10

LEMMA SessionEnds ==
  ASSUME IInv, NEW w \in Workers, NEW p, p = ses[w].peer, Over(w), wg' = [wg EXCEPT ![p] = @ - 1], chan' = chan
  PROVE  /\ SessionInv' /\ p \in Peers
         /\ w \in Sessions(p) /\ Sessions(p)' = Sessions(p) \ {w}
         /\ \A q \in Peers : q # p => Sessions(q)' = Sessions(q)
<1> USE DEF IInv
<1>1. ses \in [Workers -> SesType] /\ wg \in [Peers -> Nat]
  BY DEF TypeOK, SesType
<1>2. p \in Peers
  BY DEF Over, SessionInv, Idle
<1>3. \A q \in Peers : q # None
  BY HubAssumption
<1>4. ses'[w] = Idle /\ \A v \in Workers : v # w => ses'[v] = ses[v]
  BY <1>1 DEF Over
<1>5. w \in Sessions(p) /\ Sessions(p)' = Sessions(p) \ {w}
  BY <1>2, <1>3, <1>4 DEF Sessions, Idle
<1>6. \A q \in Peers : q # p => Sessions(q)' = Sessions(q)
  BY <1>3, <1>4 DEF Sessions, Idle
<1>7. ASSUME NEW v \in Workers
      PROVE  \/ ses'[v] = Idle
             \/ ses'[v].peer \in Peers /\ ses'[v].pc # "idle" /\ ses'[v].conn = chan'[ses'[v].peer]
  BY <1>4 DEF SessionInv
<1>8. ASSUME NEW q \in Peers
      PROVE  /\ IsFiniteSet(Sessions(q)') /\ wg'[q] = Cardinality(Sessions(q)')
             /\ Sessions(q)' # {} => chan'[q] # 0
  <2>1. CASE q = p
    <3>1. IsFiniteSet(Sessions(p)') /\ Cardinality(Sessions(p)') = Cardinality(Sessions(p)) - 1
      <4>1. IsFiniteSet(Sessions(p))
        BY <1>2 DEF SessionInv
      <4> QED BY <1>5, <4>1, FS_RemoveElement
    <3>2. wg'[p] = wg[p] - 1
      BY <1>1, <1>2
    <3> QED BY <1>2, <1>5, <2>1, <3>1, <3>2 DEF SessionInv
  <2>2. CASE q # p
    BY <1>1, <1>6, <2>2 DEF SessionInv
  <2> QED BY <2>1, <2>2
<1>9. SessionInv'
  BY <1>7, <1>8 DEF SessionInv
<1> QED BY <1>2, <1>5, <1>6, <1>9

\* The steps of a session between its first and its last one.
LEMMA WithinSession ==
  ASSUME IInv,
         \/ \E w \in Workers : StartSession(w) \/ Exchange(w) \/ EndSession(w) \/ SessionSends(w)
         \/ \E p \in Peers : RemovePeer(p)
  PROVE  SameSessions
<1>1. ses \in [Workers -> SesType]
  BY DEF IInv, TypeOK, SesType
<1>2. ASSUME NEW w \in Workers, ses[w].pc # "idle",
             \E c \in {"send", "receive", "last", "over"} : ses' = [ses EXCEPT ![w].pc = c]
      PROVE  SameSessions
  <2>1. PICK c \in {"send", "receive", "last", "over"} : ses' = [ses EXCEPT ![w].pc = c]
    BY <1>2
  <2>2. ses[w] \in SesType
    BY <1>1
  <2>3. ses'[w] = [ses[w] EXCEPT !.pc = c] /\ \A v \in Workers : v # w => ses'[v] = ses[v]
    BY <1>1, <2>1
  <2>4. ses'[w].peer = ses[w].peer /\ ses'[w].conn = ses[w].conn /\ ses'[w].pc # "idle"
    BY <2>2, <2>3 DEF SesType
  <2>5. ses[w] # Idle
    BY <1>2 DEF Idle
  <2> QED BY <2>3, <2>4, <2>5 DEF SameSessions
<1>3. ASSUME NEW w \in Workers, StartSession(w) \/ Exchange(w) \/ EndSession(w) \/ SessionSends(w)
      PROVE  SameSessions
  <2>1. ses[w].pc # "idle"
    BY <1>3 DEF StartSession, Exchange, EndSession, SessionSends
  <2>2. \E c \in {"send", "receive", "last", "over"} : ses' = [ses EXCEPT ![w].pc = c]
    BY <1>3 DEF StartSession, Exchange, EndSession, SessionSends
  <2> QED BY <1>2, <2>1, <2>2
<1>4. ASSUME NEW p \in Peers, RemovePeer(p) PROVE SameSessions
  <2>1. ASSUME NEW w \in Workers
        PROVE  /\ ses'[w].peer = ses[w].peer /\ ses'[w].conn = ses[w].conn /\ ses'[w].pc = ses[w].pc
               /\ ses[w].peer # p => ses'[w] = ses[w]
    <3>1. ses[w] \in SesType
      BY <1>1
    <3>2. ses'[w] = IF ses[w].peer = p THEN [ses[w] EXCEPT !.open = FALSE] ELSE ses[w]
      BY <1>4 DEF RemovePeer
    <3> QED BY <3>1, <3>2 DEF SesType
  <2>2. Idle.peer # p
    BY HubAssumption DEF Idle
  <2> QED BY <2>1, <2>2 DEF SameSessions
<1> QED BY <1>3, <1>4

LEMMA SessionNext ==
  ASSUME IInv, [Next]_vars
  PROVE  SessionInv'
<1> USE DEF IInv
<1>0. /\ wg \in [Peers -> Nat] /\ chan \in [Peers -> 0 .. MaxConns]
      /\ hub \in [Peers -> {"none", "registered", "connected", "serving", "waiting", "removed", "leaving"}]
  BY DEF TypeOK
<1>1. ASSUME NEW p \in Peers, Sessions(p) = {}, UNCHANGED ses, wg'[p] = 0,
             \A q \in Peers : q # p => wg'[q] = wg[q] /\ chan'[q] = chan[q]
      PROVE  SessionInv'
  <2>1. \A q \in Peers : Sessions(q)' = Sessions(q)
    BY <1>1 DEF Sessions
  <2>2. \A w \in Workers : ses[w].peer # p
    BY <1>1 DEF Sessions
  <2>3. ASSUME NEW w \in Workers
        PROVE  \/ ses'[w] = Idle
               \/ ses'[w].peer \in Peers /\ ses'[w].pc # "idle" /\ ses'[w].conn = chan'[ses'[w].peer]
    BY <1>1, <2>2 DEF SessionInv
  <2>4. ASSUME NEW q \in Peers
        PROVE  /\ IsFiniteSet(Sessions(q)') /\ wg'[q] = Cardinality(Sessions(q)')
               /\ Sessions(q)' # {} => chan'[q] # 0
    BY <1>1, <2>1, FS_EmptySet DEF SessionInv
  <2> QED BY <2>3, <2>4 DEF SessionInv
<1>2. ASSUME NEW p \in Peers, AddPeer(p) PROVE SessionInv'
  <2>1. chan[p] = 0
    BY <1>2 DEF AddPeer, Tracked
  <2>2. Sessions(p) = {}
    BY <2>1 DEF SessionInv
  <2> QED BY <1>0, <1>1, <1>2, <2>2 DEF AddPeer
<1>3. ASSUME NEW p \in Peers, CloseChannel(p) PROVE SessionInv'
  <2>1. Sessions(p) = {} /\ wg[p] = 0
    BY <1>3, FS_EmptySet DEF CloseChannel, Waited, SessionInv
  <2> QED BY <1>0, <1>1, <1>3, <2>1 DEF CloseChannel
<1>4. ASSUME NEW p \in Peers, RemovePeer(p) PROVE SessionInv'
  BY <1>4, WithinSession, SessionStays DEF RemovePeer
<1>5. ASSUME NEW w \in Workers, StartSession(w) \/ Exchange(w) \/ EndSession(w) \/ SessionSends(w)
      PROVE  SessionInv'
  <2>1. UNCHANGED <<chan, wg>>
    BY <1>5 DEF StartSession, Exchange, EndSession, SessionSends, Conns
  <2> QED BY <1>5, <2>1, WithinSession, SessionStays
<1>6. AddInitiatorSession => SessionInv'
  <2> SUFFICES ASSUME AddInitiatorSession PROVE SessionInv'
    OBVIOUS
  <2>1. next \in Peers /\ next \in added
    BY DEF AddInitiatorSession, TypeOK
  <2>2. PICK w \in Initiators : ses[w] = Idle /\ ses' = [ses EXCEPT ![w] = Session(next, "start")]
    BY DEF AddInitiatorSession
  <2>3. w \in Workers /\ wg' = [wg EXCEPT ![next] = @ + 1] /\ chan' = chan
    BY DEF AddInitiatorSession, Workers, Conns
  <2> QED BY <2>1, <2>2, <2>3, SessionBegins
<1>7. AddResponderSession => SessionInv'
  <2> SUFFICES ASSUME AddResponderSession PROVE SessionInv'
    OBVIOUS
  <2>1. mux.peer \in Peers /\ mux.peer \in added
    BY DEF AddResponderSession, TypeOK
  <2>2. PICK w \in Responders : ses[w] = Idle /\ ses' = [ses EXCEPT ![w] = Session(mux.peer, "receive")]
    BY DEF AddResponderSession
  <2>3. w \in Workers /\ wg' = [wg EXCEPT ![mux.peer] = @ + 1] /\ chan' = chan
    BY DEF AddResponderSession, Workers, Conns
  <2> QED BY <2>1, <2>2, <2>3, SessionBegins
<1>8. ASSUME NEW w \in Workers, RemoveInitiatorSession(w) \/ RemoveResponderSession(w) PROVE SessionInv'
  <2>1. Over(w) /\ wg' = [wg EXCEPT ![ses[w].peer] = @ - 1] /\ chan' = chan
    BY <1>8 DEF RemoveInitiatorSession, RemoveResponderSession, Conns
  <2> QED BY <2>1, SessionEnds
<1>9. ASSUME UNCHANGED <<ses, chan, wg>> PROVE SessionInv'
  BY <1>9, SessionStays DEF SameSessions
<1>10. ASSUME NEW p \in Peers,
              \/ Arrive(p) \/ Accept(p) \/ Connect(p) \/ AfterRemoval(p) \/ Unregister(p)
              \/ Written(p) \/ PushTo(p) \/ BeginClose(p) \/ Break(p) \/ MuteEnds(p) \/ Receive(p)
       PROVE  UNCHANGED <<ses, chan, wg>>
  BY <1>10 DEF Arrive, Accept, Connect, AfterRemoval, Unregister, Written, PushTo, BeginClose, Break, MuteEnds, Receive,
               Conns
<1>11. ASSUME \/ Refuse \/ SendAbort \/ PushSends \/ EndPush \/ EndClose \/ AskScheduler
              \/ AddInitiatorFails \/ StartPush \/ StartDisconnect \/ UNCHANGED vars
       PROVE  UNCHANGED <<ses, chan, wg>>
  BY <1>11 DEF Refuse, SendAbort, PushSends, EndPush, EndClose, AskScheduler, AddInitiatorFails, StartPush,
               StartDisconnect, Conns, vars
<1> QED BY <1>2, <1>3, <1>4, <1>5, <1>6, <1>7, <1>8, <1>9, <1>10, <1>11 DEF Next, Progress

\* While mapMutex is held for a send, removePeer cannot close a channel.
LEMMA SendNext ==
  ASSUME IInv, [Next]_vars
  PROVE  SendInv'
<1> USE DEF IInv
<1>0. chan \in [Peers -> 0 .. MaxConns] /\ push \in PushType /\ mux \in MuxType /\ None \notin Peers
  BY HubAssumption DEF TypeOK, PushType, MuxType
<1>1. ASSUME NEW p \in Peers, AddPeer(p) PROVE SendInv'
  <2>1. chan'[p] # 0 /\ \A q \in Peers : q # p => chan'[q] = chan[q]
    BY <1>0, <1>1 DEF AddPeer, Tracked
  <2> QED BY <1>0, <1>1, <2>1 DEF AddPeer, Locks, SendInv, PushType
<1>2. ASSUME NEW p \in Peers, CloseChannel(p) PROVE SendInv'
  BY <1>2 DEF CloseChannel, MapMutexFree, Locks, SendInv
<1>3. ASSUME NEW p \in Peers, Receive(p) PROVE SendInv'
  BY <1>3 DEF Receive, Conns, Locks, SendInv
<1>4. AddResponderSession => SendInv'
  BY DEF AddResponderSession, NoMessage, Conns, Locks, SendInv
<1>5. Refuse => SendInv'
  <2> SUFFICES ASSUME Refuse PROVE SendInv'
    OBVIOUS
  <2>1. mux'.peer = mux.peer \/ mux'.pc = "idle"
    BY <1>0 DEF Refuse, NoMessage, MuxType
  <2>2. mux'.pc = "abort" => chan[mux.peer] # 0
    BY DEF Refuse, NoMessage
  <2>3. mux.peer \in Peers
    BY DEF Refuse, SendInv
  <2>4. mux'.pc = "abort" => mux'.peer = mux.peer
    BY <2>1
  <2> QED BY <2>1, <2>2, <2>3, <2>4 DEF Refuse, Conns, Locks, SendInv
<1>6. SendAbort => SendInv'
  BY DEF SendAbort, NoMessage, Conns, Locks, SendInv
<1>7. StartPush => SendInv'
  <2> SUFFICES ASSUME StartPush PROVE SendInv'
    OBVIOUS
  <2>1. push'.at = None
    BY DEF StartPush, NoPush
  <2> QED BY <2>1 DEF StartPush, Conns, SendInv
<1>8. ASSUME NEW p \in Peers, PushTo(p) PROVE SendInv'
  <2>1. push'.at = IF chan[p] # 0 THEN p ELSE None
    BY <1>0, <1>8 DEF PushTo, PushType
  <2> QED BY <1>8, <2>1 DEF PushTo, Conns, SendInv
<1>9. PushSends \/ EndPush => SendInv'
  <2> SUFFICES ASSUME PushSends \/ EndPush PROVE SendInv'
    OBVIOUS
  <2>1. push'.at = None
    BY <1>0 DEF PushSends, EndPush, NoPush, PushType
  <2> QED BY <2>1 DEF PushSends, EndPush, Conns, SendInv
<1>10. ASSUME UNCHANGED <<chan, push, mux>> PROVE SendInv'
  BY <1>10 DEF SendInv
<1>11. ASSUME NEW p \in Peers,
              \/ Arrive(p) \/ Accept(p) \/ Connect(p) \/ RemovePeer(p) \/ AfterRemoval(p)
              \/ Unregister(p) \/ Written(p) \/ BeginClose(p) \/ Break(p) \/ MuteEnds(p)
       PROVE  UNCHANGED <<chan, push, mux>>
  BY <1>11 DEF Arrive, Accept, Connect, RemovePeer, AfterRemoval, Unregister, Written, BeginClose, Break, MuteEnds, Conns,
               Locks
<1>12. ASSUME NEW w \in Workers,
              \/ StartSession(w) \/ EndSession(w) \/ SessionSends(w) \/ Exchange(w)
              \/ RemoveInitiatorSession(w) \/ RemoveResponderSession(w)
       PROVE  UNCHANGED <<chan, push, mux>>
  BY <1>12 DEF StartSession, EndSession, SessionSends, Exchange, RemoveInitiatorSession, RemoveResponderSession,
               Conns, Locks
<1>13. ASSUME \/ EndClose \/ AskScheduler \/ AddInitiatorSession \/ AddInitiatorFails
              \/ StartDisconnect \/ UNCHANGED vars
       PROVE  UNCHANGED <<chan, push, mux>>
  BY <1>13 DEF EndClose, AskScheduler, AddInitiatorSession, AddInitiatorFails, StartDisconnect, Conns, Locks, vars
<1> QED BY <1>1, <1>2, <1>3, <1>4, <1>5, <1>6, <1>7, <1>8, <1>9, <1>10, <1>11, <1>12, <1>13 DEF Next, Progress

-----------------------------------------------------------------------------
(* Turns *)

LEMMA QueueSteps ==
  ASSUME queue \in Seq(Peers), NEW p \in Peers
  PROVE  /\ \A x : Entries(x) \in Nat
         /\ Schedule(p) => Entries(p)' = Entries(p) + 1 /\ \A x \in Peers : x # p => Entries(x)' = Entries(x)
         /\ RemovePeriodic(p) => Entries(p)' = 0 /\ \A x : x # p => Entries(x)' = Entries(x)
         /\ RemoveMulti(p) => /\ Entries(p) <= 1 => Entries(p)' = 0
                              /\ \A x : x # p => Entries(x)' = Entries(x)
         /\ Advance(p) => /\ \A x : Entries(x) = 0 => Entries(x)' = 0
                          /\ ~stolen' => /\ ~stolen /\ Entries(p)' = Entries(p) - 1
                                         /\ \A x : x # p => Entries(x)' = Entries(x)
<1>1. \A x : Entries(x) \in Nat
  BY PlacesFinite DEF Entries
<1>2. ASSUME Schedule(p)
      PROVE  Entries(p)' = Entries(p) + 1 /\ \A x \in Peers : x # p => Entries(x)' = Entries(x)
  <2> DEFINE q == Append(queue, p)
  <2>1. /\ Cardinality(Places(q, p)) = Cardinality(Places(queue, p)) + 1
        /\ \A x \in Peers : x # p => Places(q, x) = Places(queue, x)
    BY PlacesAppend
  <2>2. queue' = q
    BY <1>2 DEF Schedule
  <2> HIDE DEF q
  <2>3. \A x : Entries(x)' = Cardinality(Places(q, x))
    BY <2>2 DEF Entries, Places
  <2> QED BY <2>1, <2>3 DEF Entries
<1>3. /\ Without(queue, p) \in Seq(Peers) /\ Cardinality(Places(Without(queue, p), p)) = 0
      /\ \A x : x # p => Cardinality(Places(Without(queue, p), x)) = Entries(x)
  <2>1. /\ Without(queue, p) \in Seq(Peers) /\ Places(Without(queue, p), p) = {}
        /\ \A x : x # p => Cardinality(Places(Without(queue, p), x)) = Cardinality(Places(queue, x))
    BY PlacesWithout
  <2>2. Cardinality(Places(Without(queue, p), p)) = 0
    BY <2>1, FS_EmptySet
  <2> QED BY <2>1, <2>2 DEF Entries
<1>4. RemovePeriodic(p) => Entries(p)' = 0 /\ \A x : x # p => Entries(x)' = Entries(x)
  BY <1>3 DEF RemovePeriodic, Entries
<1>5. ASSUME RemoveMulti(p)
      PROVE  /\ Entries(p) <= 1 => Entries(p)' = 0
             /\ \A x : x # p => Entries(x)' = Entries(x)
  <2>1. PICK n \in 0 .. Entries(p) : /\ n = 0 \/ n < Entries(p)
                                     /\ queue' = Without(queue, p) \o [i \in 1 .. n |-> p]
    BY <1>5 DEF RemoveMulti
  <2>2. n \in Nat /\ (Entries(p) <= 1 => n = 0)
    BY <1>1, <2>1
  <2>3. /\ n = 0 => queue' = Without(queue, p)
        /\ \A x : x # p => Places(queue', x) = Places(Without(queue, p), x)
    <3> DEFINE q == Without(queue, p)
    <3>1. q \in Seq(Peers) /\ queue' = q \o [i \in 1 .. n |-> p]
      BY <1>3, <2>1
    <3> HIDE DEF q
    <3>2. /\ n = 0 => q \o [i \in 1 .. n |-> p] = q
          /\ \A x : x # p => Places(q \o [i \in 1 .. n |-> p], x) = Places(q, x)
      BY <2>2, <3>1, PlacesLeft
    <3> QED BY <3>1, <3>2 DEF q
  <2> QED BY <1>3, <2>2, <2>3 DEF Entries
<1>6. ASSUME Advance(p)
      PROVE  /\ \A x : Entries(x) = 0 => Entries(x)' = 0
             /\ ~stolen' => /\ ~stolen /\ Entries(p)' = Entries(p) - 1
                            /\ \A x : x # p => Entries(x)' = Entries(x)
  <2>1. PICK i \in Heads : queue' = RemoveAt(queue, i) /\ stolen' = (stolen \/ queue[i] # p)
    BY <1>6 DEF Advance
  <2>2. i \in DOMAIN queue
    BY DEF Heads, First
  <2>3. \A x : Entries(x)' = IF x = queue[i] THEN Entries(x) - 1 ELSE Entries(x)
    BY <2>1, <2>2, PlacesRemoveAt DEF Entries
  <2>4. \A x : Entries(x) = 0 => x # queue[i]
    BY <2>2, PlacesFinite DEF Entries, Places
  <2> QED BY <2>1, <2>3, <2>4
<1> QED BY <1>1, <1>2, <1>4, <1>5, <1>6

LEMMA TurnNext ==
  ASSUME IInv, [Next]_vars
  PROVE  TurnInv'
<1> USE DEF IInv
<1> DEFINE Running(p) == Cardinality(Sessions(p) \cap Initiators)
<1>0. queue \in Seq(Peers) /\ stolen \in BOOLEAN /\ cloud \in BOOLEAN /\ ses \in [Workers -> SesType]
  BY DEF TypeOK, SesType
<1>a. \A p \in Peers : IsFiniteSet(Sessions(p) \cap Initiators) /\ Running(p) \in Nat
  <2>1. ASSUME NEW p \in Peers PROVE IsFiniteSet(Sessions(p) \cap Initiators)
    BY FS_Subset DEF SessionInv
  <2> QED BY <2>1, FS_CardinalityType
<1>b. ASSUME NEW p \in Peers PROVE Entries(p) \in Nat
  BY <1>0, QueueSteps
<1>1. ASSUME NEW p \in Peers, AddPeer(p) PROVE TurnInv'
  <2>1. p \notin added /\ chan[p] = 0
    BY <1>1 DEF AddPeer, Tracked
  <2>2. Sessions(p) \cap Initiators = {} /\ (~stolen => Entries(p) = 0)
    BY <2>1 DEF SessionInv, TurnInv
  <2>3. Entries(p)' = Entries(p) + 1 /\ \A x \in Peers : x # p => Entries(x)' = Entries(x)
    BY <1>0, <1>1, QueueSteps DEF AddPeer
  <2>4. UNCHANGED <<cloud, stolen>> /\ added' = added \cup {p} /\ \A x : Sessions(x)' = Sessions(x)
    BY <1>1 DEF AddPeer, Sessions
  <2>5. ~stolen => Entries(p)' = 1 /\ Running(p) = 0
    BY <2>2, <2>3, FS_EmptySet
  <2>6. \A x \in Peers \ added' : x \in Peers \ added /\ x # p
    BY <2>4
  <2>7. \A x \in Peers \ added' : ~cloud' \/ ~stolen' => Entries(x)' = 0
    BY <2>3, <2>4, <2>6 DEF TurnInv
  <2>8. ASSUME ~stolen', NEW x \in added' PROVE Entries(x)' + Cardinality(Sessions(x)' \cap Initiators) = 1
    <3>1. CASE x = p
      <4>1. Entries(x)' = 1 /\ Cardinality(Sessions(x)' \cap Initiators) = 0
        BY <2>4, <2>5, <2>8, <3>1
      <4> QED BY <4>1
    <3>2. CASE x # p
      <4>1. x \in added /\ x \in Peers /\ ~stolen
        BY <2>4, <2>8, <3>2 DEF TypeOK
      <4>2. Entries(x)' = Entries(x) /\ Sessions(x)' = Sessions(x)
        BY <2>3, <2>4, <3>2, <4>1
      <4> QED BY <4>1, <4>2 DEF TurnInv, OneTurnEach
    <3> QED BY <3>1, <3>2
  <2> QED BY <2>7, <2>8 DEF TurnInv, OneTurnEach
<1>2. ASSUME NEW p \in Peers, RemovePeer(p) PROVE TurnInv'
  <2>1. UNCHANGED <<cloud, stolen>> /\ added' = added \ {p} /\ p \in added
    BY <1>2 DEF RemovePeer, Tracked
  <2>2. \A x : Sessions(x)' = Sessions(x)
    BY <1>2, WithinSession, SessionStays
  <2>3. \A x \in Peers : x # p => Entries(x)' = Entries(x)
    BY <1>0, <1>2, QueueSteps DEF RemovePeer
  <2>4. ~stolen => Entries(p) <= 1
    <3>1. ~stolen => Entries(p) + Running(p) = 1
      BY <2>1 DEF TurnInv, OneTurnEach
    <3>2. Entries(p) \in Nat /\ Running(p) \in Nat
      BY <1>a, <1>b
    <3> HIDE DEF Running
    <3> QED BY <3>1, <3>2
  <2>5. ~cloud \/ ~stolen => Entries(p)' = 0
    BY <1>0, <1>2, <2>4, QueueSteps DEF RemovePeer
  <2>6. ASSUME NEW x \in Peers \ added', ~cloud' \/ ~stolen' PROVE Entries(x)' = 0
    <3>1. CASE x = p
      BY <2>1, <2>5, <2>6, <3>1
    <3>2. CASE x # p
      BY <2>1, <2>3, <2>6, <3>2 DEF TurnInv
    <3> QED BY <3>1, <3>2
  <2>7. ASSUME ~stolen', NEW x \in added' PROVE Entries(x)' + Cardinality(Sessions(x)' \cap Initiators) = 1
    <3>1. x \in added /\ x \in Peers /\ x # p /\ ~stolen
      BY <2>1, <2>7 DEF TypeOK
    <3>2. Entries(x)' = Entries(x) /\ Sessions(x)' = Sessions(x)
      BY <2>2, <2>3, <3>1
    <3> QED BY <3>1, <3>2 DEF TurnInv, OneTurnEach
  <2> QED BY <2>6, <2>7 DEF TurnInv, OneTurnEach
<1>3. AddInitiatorSession => TurnInv'
  <2> SUFFICES ASSUME AddInitiatorSession PROVE TurnInv'
    OBVIOUS
  <2>1. PICK p \in Peers : p = next /\ p \in added
    BY DEF AddInitiatorSession, TypeOK
  <2>2. PICK w \in Initiators : ses[w] = Idle /\ ses' = [ses EXCEPT ![w] = Session(p, "start")]
    BY <2>1 DEF AddInitiatorSession
  <2>3. w \in Workers /\ wg' = [wg EXCEPT ![p] = @ + 1] /\ UNCHANGED <<chan, cloud, added>>
    BY <2>1, <2>2 DEF AddInitiatorSession, Workers, Conns
  <2>4. /\ w \notin Sessions(p) /\ Sessions(p)' = Sessions(p) \cup {w}
        /\ \A q \in Peers : q # p => Sessions(q)' = Sessions(q)
    BY <2>1, <2>2, <2>3, SessionBegins
  <2>5. Cardinality(Sessions(p)' \cap Initiators) = Running(p) + 1
    <3>1. Sessions(p)' \cap Initiators = (Sessions(p) \cap Initiators) \cup {w}
      BY <2>2, <2>4
    <3> QED BY <1>a, <2>1, <2>4, <3>1, FS_AddElement
  <2>6. /\ \A x : Entries(x) = 0 => Entries(x)' = 0
        /\ ~stolen' => /\ ~stolen /\ Entries(p)' = Entries(p) - 1
                       /\ \A x : x # p => Entries(x)' = Entries(x)
    BY <1>0, <2>1, QueueSteps DEF AddInitiatorSession
  <2>7. ASSUME NEW x \in Peers \ added', ~cloud' \/ ~stolen' PROVE Entries(x)' = 0
    <3>1. x \in Peers \ added
      BY <2>3
    <3>2. ~cloud \/ ~stolen
      BY <2>3, <2>6, <2>7
    <3> QED BY <2>6, <3>1, <3>2 DEF TurnInv
  <2>8. ASSUME ~stolen', NEW x \in added' PROVE Entries(x)' + Cardinality(Sessions(x)' \cap Initiators) = 1
    <3>1. x \in added /\ x \in Peers /\ ~stolen
      BY <2>3, <2>6, <2>8 DEF TypeOK
    <3>2. Entries(x) + Running(x) = 1
      BY <3>1 DEF TurnInv, OneTurnEach
    <3>3. CASE x = p
      <4>1. Entries(x)' = Entries(x) - 1 /\ Cardinality(Sessions(x)' \cap Initiators) = Running(x) + 1
        BY <2>5, <2>6, <2>8, <3>3
      <4>2. Entries(x) \in Nat /\ Running(x) \in Nat
        BY <1>a, <1>b, <3>1
      <4> HIDE DEF Running
      <4>3. (Entries(x) - 1) + (Running(x) + 1) = 1
        BY <3>2, <4>2
      <4> QED BY <4>1, <4>3
    <3>4. CASE x # p
      BY <2>4, <2>6, <2>8, <3>1, <3>2, <3>4
    <3> QED BY <3>3, <3>4
  <2> QED BY <2>7, <2>8 DEF TurnInv, OneTurnEach
<1>4. ASSUME NEW w \in Workers, RemoveInitiatorSession(w) PROVE TurnInv'
  <2>0. PICK p : p = ses[w].peer
    OBVIOUS
  <2>1. /\ p \in Peers /\ w \in Sessions(p) /\ Sessions(p)' = Sessions(p) \ {w}
        /\ \A q \in Peers : q # p => Sessions(q)' = Sessions(q)
    <3>1. Over(w) /\ wg' = [wg EXCEPT ![p] = @ - 1] /\ chan' = chan
      BY <1>4, <2>0 DEF RemoveInitiatorSession, Conns
    <3> QED BY <2>0, <3>1, SessionEnds
  <2>2. UNCHANGED <<cloud, added, stolen>> /\ w \in Initiators
    BY <1>4 DEF RemoveInitiatorSession, Conns
  <2>3. IF p \in added THEN Schedule(p) ELSE UNCHANGED queue
    BY <1>4, <2>0 DEF RemoveInitiatorSession
  <2>4. Cardinality(Sessions(p)' \cap Initiators) = Running(p) - 1
    <3>1. Sessions(p)' \cap Initiators = (Sessions(p) \cap Initiators) \ {w}
      BY <2>1
    <3> QED BY <1>a, <2>1, <2>2, <3>1, FS_RemoveElement
  <2>5. CASE p \in added
    <3>1. Entries(p)' = Entries(p) + 1 /\ \A x \in Peers : x # p => Entries(x)' = Entries(x)
      BY <1>0, <2>1, <2>3, <2>5, QueueSteps
    <3>2. \A x \in Peers \ added' : ~cloud' \/ ~stolen' => Entries(x)' = 0
      BY <2>2, <2>5, <3>1 DEF TurnInv
    <3>3. ASSUME ~stolen', NEW x \in added' PROVE Entries(x)' + Cardinality(Sessions(x)' \cap Initiators) = 1
      <4>1. x \in Peers /\ Entries(x) + Running(x) = 1
        BY <2>2, <3>3 DEF TurnInv, OneTurnEach, TypeOK
      <4>2. CASE x = p
        <5>1. Entries(x) \in Nat /\ Running(x) \in Nat
          BY <1>a, <1>b, <4>1
        <5>2. Entries(x)' = Entries(x) + 1 /\ Cardinality(Sessions(x)' \cap Initiators) = Running(x) - 1
          BY <2>4, <3>1, <4>2
        <5> HIDE DEF Running
        <5>3. (Entries(x) + 1) + (Running(x) - 1) = 1
          BY <4>1, <5>1
        <5> QED BY <5>2, <5>3
      <4>3. CASE x # p
        BY <2>1, <3>1, <4>1, <4>3
      <4> QED BY <4>2, <4>3
    <3> QED BY <3>2, <3>3 DEF TurnInv, OneTurnEach
  <2>6. CASE p \notin added
    <3>1. \A x : Entries(x)' = Entries(x)
      BY <2>3, <2>6 DEF Entries
    <3>2. \A x \in added : x \in Peers /\ x # p
      BY <2>6 DEF TypeOK
    <3> QED BY <2>1, <2>2, <3>1, <3>2 DEF TurnInv, OneTurnEach
  <2> QED BY <2>5, <2>6
<1>5. ASSUME UNCHANGED <<cloud, added, queue, stolen>>,
             \A x \in Peers : Sessions(x)' \cap Initiators = Sessions(x) \cap Initiators
      PROVE  TurnInv'
  <2>1. \A x : Entries(x)' = Entries(x)
    BY <1>5 DEF Entries
  <2>2. added \subseteq Peers
    BY DEF TypeOK
  <2> QED BY <1>5, <2>1, <2>2 DEF TurnInv, OneTurnEach
<1>6. AddResponderSession => TurnInv'
  <2> SUFFICES ASSUME AddResponderSession PROVE TurnInv'
    OBVIOUS
  <2>1. PICK p \in Peers : p = mux.peer /\ p \in added
    BY DEF AddResponderSession, TypeOK
  <2>2. PICK w \in Responders : ses[w] = Idle /\ ses' = [ses EXCEPT ![w] = Session(p, "receive")]
    BY <2>1 DEF AddResponderSession
  <2>3. w \in Workers /\ wg' = [wg EXCEPT ![p] = @ + 1] /\ UNCHANGED <<chan, cloud, added, queue, stolen>>
    BY <2>1, <2>2 DEF AddResponderSession, Workers, Conns, Turns
  <2>4. /\ Sessions(p)' = Sessions(p) \cup {w}
        /\ \A q \in Peers : q # p => Sessions(q)' = Sessions(q)
    BY <2>1, <2>2, <2>3, SessionBegins
  <2>5. w \notin Initiators
    BY HubAssumption
  <2>6. \A x \in Peers : Sessions(x)' \cap Initiators = Sessions(x) \cap Initiators
    BY <2>4, <2>5
  <2> QED BY <1>5, <2>3, <2>6
<1>7. ASSUME NEW w \in Workers, RemoveResponderSession(w) PROVE TurnInv'
  <2>0. PICK p : p = ses[w].peer
    OBVIOUS
  <2>1. Over(w) /\ wg' = [wg EXCEPT ![p] = @ - 1] /\ UNCHANGED <<chan, cloud, added, queue, stolen>>
    BY <1>7, <2>0 DEF RemoveResponderSession, Conns, Turns
  <2>3. w \notin Initiators
    BY <1>7, HubAssumption DEF RemoveResponderSession
  <2>4. Sessions(p)' = Sessions(p) \ {w} /\ \A q \in Peers : q # p => Sessions(q)' = Sessions(q)
    BY <2>0, <2>1, SessionEnds
  <2>5. \A x \in Peers : Sessions(x)' \cap Initiators = Sessions(x) \cap Initiators
    BY <2>3, <2>4
  <2> QED BY <1>5, <2>1, <2>5
<1>8. ASSUME NEW w \in Workers, StartSession(w) \/ Exchange(w) \/ EndSession(w) \/ SessionSends(w)
      PROVE  TurnInv'
  <2>1. UNCHANGED <<cloud, added, queue, stolen>>
    BY <1>8 DEF StartSession, Exchange, EndSession, SessionSends, Conns, Turns
  <2> QED BY <1>5, <1>8, <2>1, WithinSession, SessionStays
<1>9. ASSUME UNCHANGED <<cloud, added, queue, stolen, ses>> PROVE TurnInv'
  BY <1>5, <1>9 DEF Sessions
<1>10. ASSUME NEW p \in Peers,
              \/ Arrive(p) \/ Accept(p) \/ Connect(p) \/ CloseChannel(p) \/ AfterRemoval(p) \/ Unregister(p)
              \/ Written(p) \/ PushTo(p) \/ BeginClose(p) \/ Break(p) \/ MuteEnds(p) \/ Receive(p)
       PROVE  UNCHANGED <<cloud, added, queue, stolen, ses>>
  BY <1>10 DEF Arrive, Accept, Connect, CloseChannel, AfterRemoval, Unregister, Written, PushTo, BeginClose,
               Break, MuteEnds, Receive, Conns, Turns
<1>11. ASSUME \/ Refuse \/ SendAbort \/ PushSends \/ EndPush \/ EndClose \/ AskScheduler
              \/ AddInitiatorFails \/ StartPush \/ StartDisconnect \/ UNCHANGED vars
       PROVE  UNCHANGED <<cloud, added, queue, stolen, ses>>
  BY <1>11 DEF Refuse, SendAbort, PushSends, EndPush, EndClose, AskScheduler, AddInitiatorFails, StartPush,
               StartDisconnect, Conns, Turns, vars
<1> QED BY <1>1, <1>2, <1>3, <1>4, <1>6, <1>7, <1>8, <1>9, <1>10, <1>11 DEF Next, Progress

-----------------------------------------------------------------------------
(* The theorems *)

LEMMA InitInv == Init => IInv
<1> SUFFICES ASSUME Init PROVE IInv
  OBVIOUS
<1>0. MaxConns \in Nat /\ MaxEvents \in Nat /\ None \notin Peers
  BY HubAssumption
<1>1. ses \in [Workers -> SesType] /\ push \in PushType /\ mux \in MuxType
  BY <1>0, RecordTypes DEF Init
<1>2. queue \in Seq(Peers) /\ \A p : Entries(p) = 0
  BY FS_EmptySet DEF Init, Entries, Places
<1>3. TypeOK
  <2>1. 0 \in 0 .. MaxConns /\ 0 \in 0 .. MaxEvents
    BY <1>0
  <2>2. /\ cloud \in BOOLEAN /\ stolen \in BOOLEAN /\ queue \in Seq(Peers) /\ next \in Peers \cup {None}
        /\ hub \in [Peers -> {"none", "registered", "connected", "serving", "waiting", "removed", "leaving"}]
        /\ closed \in [Peers -> BOOLEAN] /\ conn \in [Peers -> {"down", "up", "mute", "broken"}]
    BY <1>2 DEF Init
  <2>3. /\ made \in 0 .. MaxConns /\ chan \in [Peers -> 0 .. MaxConns] /\ events \in 0 .. MaxEvents
        /\ wg \in [Peers -> Nat] /\ added \in SUBSET Peers
    BY <2>1 DEF Init
  <2>4. /\ writer \in [Peers -> {"idle", "busy"}]
        /\ closing \in SUBSET Peers /\ held \in Peers \cup {None}
    BY DEF Init
  <2> QED BY <1>1, <2>2, <2>3, <2>4 DEF TypeOK, SesType, PushType, MuxType
<1>4. \A p \in Peers : Sessions(p) = {}
  BY <1>0 DEF Init, Sessions, Idle
<1>5. SessionInv
  BY <1>4, FS_EmptySet DEF Init, SessionInv
<1>6. Tracked /\ SendInv
  BY DEF Init, Tracked, SendInv, NoPush, NoMessage
<1>7. TurnInv
  BY <1>2 DEF Init, TurnInv, OneTurnEach
<1> QED BY <1>3, <1>5, <1>6, <1>7 DEF IInv

LEMMA Invariant == Spec => []IInv
<1>1. IInv /\ [Next]_vars => IInv'
  BY TypeNext, TrackedNext, SessionNext, SendNext, TurnNext DEF IInv
<1> QED BY <1>1, InitInv, PTL DEF Spec

LEMMA Implied == IInv => ChannelsSound /\ NothingLeftBehind /\ OneTurnEach
<1> SUFFICES ASSUME IInv PROVE ChannelsSound /\ NothingLeftBehind /\ OneTurnEach
  OBVIOUS
<1> USE DEF IInv
<1>1. \A p \in Peers : \A w \in Sessions(p) : ses[w].conn = chan[p] /\ chan[p] # 0
  <2> SUFFICES ASSUME NEW p \in Peers, NEW w \in Sessions(p)
               PROVE  ses[w].conn = chan[p] /\ chan[p] # 0
    OBVIOUS
  <2>1. w \in Workers /\ ses[w].peer = p /\ p # None
    BY HubAssumption DEF Sessions
  <2> QED BY <2>1 DEF SessionInv, Idle
<1>2. ChannelsSound
  BY <1>1 DEF ChannelsSound, SessionsHaveChannel, SendInv
<1>3. ASSUME NEW p \in Peers, hub[p] \in {"none", "registered", "connected", "removed", "leaving"}
      PROVE  /\ Sessions(p) = {} /\ chan[p] = 0 /\ p \notin added
             /\ ~cloud \/ ~stolen => Entries(p) = 0
  <2>1. chan[p] = 0 /\ p \notin added
    BY <1>3 DEF Tracked
  <2> QED BY <2>1 DEF SessionInv, TurnInv
<1>4. NothingLeftBehind
  BY <1>3 DEF NothingLeftBehind
<1> QED BY <1>2, <1>4 DEF TurnInv

\* A send never meets a closed channel: removePeer closes it only when no session of the
\* peer is left and nobody holds mapMutex, however the workers, the loop that starts
\* sessions, pushes, aborts and a peer that comes back interleave.
THEOREM SendsMeetOpenChannels == Spec => []ChannelsSound
  BY Invariant, Implied, PTL

\* When removePeer is done, and until the peer is added again, no session, no
\* channel, no session table and, unless a turn was stolen, no entry of the scheduler
\* is left of it.
THEOREM RemovalIsComplete == Spec => []NothingLeftBehind
  BY Invariant, Implied, PTL

\* As long as Advance has not taken the turn of another peer, each peer of the controller
\* waits once in the scheduler or runs one initiator session.
THEOREM TurnsStaySingle == Spec => []OneTurnEach
  BY Invariant, Implied, PTL

-----------------------------------------------------------------------------
(***************************************************************************)
(* Historian: the history log, the alerts and the forwarding loops.        *)
(***************************************************************************)
EventTypes ==
    /\ stored \in SUBSET (1 .. MaxUpdates) /\ received \in SUBSET (1 .. MaxUpdates)
    /\ dropped \in SUBSET (1 .. MaxUpdates) /\ lost = {}
    /\ disk \in CounterType /\ mem \in CounterType
    /\ log \in [pc : {"free", "logging", "purging"}, todo : SUBSET (1 .. MaxUpdates),
                by : {"nobody", "rotation", "client", "forwarding"}]
    /\ fwd \in [pc : {"asleep", "push", "mark", "purge", "purging", "dead"},
                batch : SUBSET (1 .. MaxUpdates), high : 0 .. MaxUpdates]

\* Serial numbers: those on disk and in memory agree but for the event that is
\* being logged, and every number up to it belongs to an event that is stored,
\* that the cloud has or that was deleted.
Numbered ==
    /\ disk.next <= updates
    /\ mem.next = IF log.pc = "logging" THEN disk.next ELSE disk.next + 1
    /\ stored \cup received \cup dropped = 1 .. disk.next
    /\ stored \cap dropped = {}

\* Whoever purges has read what he deletes from the log while he holds the
\* lock, and the forwarding loop deletes what the cloud has.
Purging ==
    /\ log.todo \subseteq stored
    /\ log.by = "forwarding" => log.todo \subseteq received

\* A batch that is under way leaves no gap behind the forward index.
Forwarding ==
    /\ mem.forward = disk.forward /\ mem.forward < mem.next
    /\ 1 .. mem.forward \subseteq received \cup dropped
    /\ fwd.batch \subseteq 1 .. disk.next
    /\ fwd.pc \in {"push", "mark"} =>
         /\ fwd.high <= disk.next
         /\ (mem.forward + 1) .. fwd.high \subseteq fwd.batch \cup received \cup dropped
    /\ fwd.pc = "mark" => fwd.batch \subseteq received
    /\ fwd.pc = "purge" => fwd.high = mem.forward

EventInv == EventTypes /\ SizesAgree /\ Numbered /\ Purging /\ Forwarding

AlertTypes ==
    /\ told \in SUBSET (1 .. MaxUpdates)
    /\ alerts \in AlertType /\ last \in AlertType
    /\ afw \in [pc : {"asleep", "push", "clear", "dead"}, got : AlertType]
    /\ clash \subseteq AlertKeys
    /\ \A k \in AlertKeys : {alerts[k].id, last[k].id, afw.got[k].id} \subseteq 0 .. MaxUpdates

\* A stored alert is the last one of its source; one that was read is as well, or
\* is older; and what is about to be cleared has been sent.
AlertsRead ==
    /\ \A k \in AlertKeys : alerts[k] = NoAlert \/ alerts[k] = last[k]
    /\ \A k \in AlertKeys \ clash : afw.got[k] = NoAlert \/ afw.got[k] = last[k] \/ afw.got[k].ts < last[k].ts
    /\ afw.pc = "clear" => Ids(afw.got) \subseteq told

AlertInv == AlertTypes /\ AlertsRead /\ AlertsKept

BoundTypes == purgeOnForward \in BOOLEAN /\ updates \in 0 .. MaxUpdates /\ faults \in 0 .. MaxFaults

HistoryInv == BoundTypes /\ EventInv /\ AlertInv

LEMMA HistoryInitInv == HistoryInit => HistoryInv
<1> SUFFICES ASSUME HistoryInit PROVE HistoryInv
  OBVIOUS
<1> USE HistorianAssumption DEF HistoryInit, Free, Asleep, Counters
<1>1. BoundTypes
  BY DEF BoundTypes
<1>2. EventTypes
  BY DEF EventTypes, CounterType
<1>3. SizesAgree
  BY FS_EmptySet DEF SizesAgree
<1>4. Numbered /\ Purging /\ Forwarding
  BY DEF Numbered, Purging, Forwarding
<1>5. AlertTypes
  BY DEF AlertTypes, AlertType, Resting, NoAlert
<1>6. AlertsRead /\ AlertsKept
  BY DEF AlertsRead, AlertsKept, Resting, NoAlert
<1> QED BY <1>1, <1>2, <1>3, <1>4, <1>5, <1>6 DEF HistoryInv, EventInv, AlertInv

-----------------------------------------------------------------------------
(* What an iterator returns, and the highest serial number of a batch *)

LEMMA LeastNatural ==
  ASSUME NEW S \in SUBSET Nat, S # {}
  PROVE  \E n \in S : \A m \in S : n <= m
<1>1. PICK n \in S : \A m \in S : <<m, n>> \notin OpToRel(<, Nat)
  BY NatLessThanWellFounded, WFMin, Zenon
<1>2. ASSUME NEW m \in S PROVE n <= m
  <2>1. <<m, n>> \notin OpToRel(<, Nat)
    BY <1>1
  <2>2. ~(m < n)
    BY <2>1 DEF OpToRel
  <2> QED BY <2>2
<1> QED BY <1>2

\* The least upper bound of a bounded set is its maximum.
LEMMA MaxOfBounded ==
  ASSUME NEW b \in Nat, NEW S \in SUBSET (0 .. b), S # {}
  PROVE  Max(S) \in S /\ \A x \in S : x <= Max(S)
<1> DEFINE U == {u \in Nat : \A x \in S : x <= u}
<1>1. PICK u \in U : \A v \in U : u <= v
  BY LeastNatural, b \in U
<1>2. u \in S
  <2> SUFFICES ASSUME u \notin S PROVE FALSE
    OBVIOUS
  <2>1. PICK x \in S : TRUE
    OBVIOUS
  <2>2. \A y \in S : y \in Nat /\ y <= u /\ y # u
    BY <1>1
  <2>3. u - 1 \in Nat /\ \A y \in S : y <= u - 1
    BY <2>1, <2>2
  <2>4. u - 1 \in U /\ u \in Nat
    BY <2>3
  <2> QED BY <2>4, <1>1
<1>3. \E x \in S : \A y \in S : x >= y
  BY <1>1, <1>2
<1> QED BY <1>3 DEF Max

LEMMA OldestFirst ==
  ASSUME NEW S \in SUBSET Nat, IsFiniteSet(S), NEW n \in Nat, NEW x \in Oldest(S, n), NEW y \in S, y <= x
  PROVE  y \in Oldest(S, n)
<1> DEFINE X == {t \in S : t < x}
           Y == {t \in S : t < y}
<1>0. x \in S
  BY DEF Oldest
<1>1. Y \subseteq X /\ X \in SUBSET S
  <2>1. \A t \in S : t < y => t < x
    <3>1. x \in Nat /\ y \in Nat /\ y <= x /\ \A t \in S : t \in Nat
      BY <1>0
    <3> QED BY <3>1
  <2> QED BY <2>1
<1>3. IsFiniteSet(X)
  BY <1>1, FS_Subset
<1>2. Cardinality(Y) <= Cardinality(X) /\ Cardinality(X) \in Nat /\ Cardinality(Y) \in Nat
  BY <1>1, <1>3, FS_Subset, FS_CardinalityType
<1> QED BY <1>0, <1>2 DEF Oldest

-----------------------------------------------------------------------------
(* Alerts *)

LEMMA UpdateAlertInv ==
  ASSUME BoundTypes, AlertInv, NEW k \in AlertKeys, UpdateAlert(k)
  PROVE  AlertInv'
<1> USE HistorianAssumption DEF AlertInv, BoundTypes, Update
<1>1. PICK later \in {0, 1} :
        /\ alerts' = [alerts EXCEPT ![k] = [id |-> updates', ts |-> last[k].ts + later]]
        /\ clash' = IF later = 0 THEN clash \cup {k} ELSE clash
  BY DEF UpdateAlert
<1>0. updates' = updates + 1 /\ updates + 1 \in 1 .. MaxUpdates /\ afw' = afw /\ told' = told
  BY DEF UpdateAlert
<1>2. /\ last' = [last EXCEPT ![k] = [id |-> updates + 1, ts |-> last[k].ts + later]]
      /\ alerts' = [alerts EXCEPT ![k] = [id |-> updates + 1, ts |-> last[k].ts + later]]
      /\ afw' = afw /\ told' = told /\ updates + 1 \in 1 .. MaxUpdates
  <2>1. last' = [last EXCEPT ![k] = alerts'[k]]
    BY DEF UpdateAlert
  <2>2. alerts'[k] = [id |-> updates + 1, ts |-> last[k].ts + later]
    BY <1>0, <1>1 DEF AlertTypes, AlertType
  <2> QED BY <1>0, <1>1, <2>1, <2>2
<1>3. \A j \in AlertKeys : last[j] \in [id : Nat, ts : Nat] /\ alerts[j] \in [id : Nat, ts : Nat]
                           /\ afw.got[j] \in [id : Nat, ts : Nat]
  BY DEF AlertTypes, AlertType
<1>4. AlertTypes'
  BY <1>1, <1>2, <1>3 DEF AlertTypes, AlertType
<1>5. AlertsRead'
  <2>1. ASSUME NEW j \in AlertKeys \ clash'
        PROVE  afw.got[j] = NoAlert \/ afw.got[j] = last'[j] \/ afw.got[j].ts < last'[j].ts
    <3>1. CASE j = k
      BY <1>1, <1>2, <1>3, <2>1, <3>1 DEF AlertsRead, AlertTypes, AlertType
    <3>2. CASE j # k
      BY <1>1, <1>2, <2>1, <3>2 DEF AlertsRead, AlertTypes, AlertType
    <3> QED BY <3>1, <3>2
  <2>2. \A j \in AlertKeys : alerts'[j] = NoAlert \/ alerts'[j] = last'[j]
    BY <1>2 DEF AlertsRead, AlertTypes, AlertType
  <2> QED BY <2>1, <2>2, <1>2 DEF AlertsRead
<1>6. AlertsKept'
  BY <1>1, <1>2 DEF AlertsKept, AlertTypes, AlertType
<1> QED BY <1>4, <1>5, <1>6

LEMMA ForwardAlertsInv ==
  ASSUME AlertInv, GetAlerts \/ PushAlerts \/ PushAlertsFails \/ ClearAlerts \/ AlertsEnd
  PROVE  AlertInv'
<1> USE DEF AlertInv
<1>1. \A j \in AlertKeys : last[j] \in [id : Nat, ts : Nat] /\ alerts[j] \in [id : Nat, ts : Nat]
                           /\ afw.got[j] \in [id : Nat, ts : Nat]
  BY DEF AlertTypes, AlertType
<1>2. Resting.got \in AlertType /\ \A j \in AlertKeys : Resting.got[j] = NoAlert /\ NoAlert.id = 0
  BY DEF Resting, NoAlert, AlertType
<1>3. Ids(afw.got) \subseteq 1 .. MaxUpdates
  BY <1>1, HistorianAssumption DEF Ids, AlertTypes
<1>4. CASE GetAlerts
  <2>1. AlertTypes'
    BY <1>4 DEF GetAlerts, AlertTypes
  <2>2. AlertsRead'
    BY <1>4, <1>1 DEF GetAlerts, AlertsRead, AlertsKept
  <2> QED BY <2>1, <2>2, <1>4 DEF GetAlerts, AlertsKept
<1>5. CASE PushAlerts
  <2>1. AlertTypes'
    BY <1>5, <1>3 DEF PushAlerts, AlertTypes
  <2> QED BY <2>1, <1>5 DEF PushAlerts, AlertTypes, AlertsRead, AlertsKept, Ids
<1>6. CASE PushAlertsFails
  <2>1. AlertTypes'
    BY <1>6, <1>2, <1>3, HistorianAssumption DEF PushAlertsFails, AlertTypes, Resting
  <2> QED BY <2>1, <1>2, <1>6 DEF PushAlertsFails, AlertsRead, AlertsKept, Resting
<1>7. CASE ClearAlerts
  <2>1. AlertTypes'
    BY <1>7, <1>2, HistorianAssumption DEF ClearAlerts, AlertTypes, AlertType, Resting, NoAlert
  <2>2. AlertsRead'
    BY <1>7, <1>2 DEF ClearAlerts, AlertsRead, Resting
  <2>3. ASSUME NEW k \in AlertKeys \ clash, last[k].id \notin told \cup {0}
        PROVE  alerts'[k] = last[k]
    <3>1. alerts[k] = last[k]
      BY <2>3 DEF AlertsKept
    <3>2. CASE afw.got[k] = last[k]
      BY <1>7, <2>3, <3>2 DEF ClearAlerts, AlertsRead, Ids
    <3>3. CASE afw.got[k] # last[k]
      BY <1>7, <1>1, <2>3, <3>1, <3>3 DEF ClearAlerts, AlertsRead, Changed
    <3> QED BY <3>2, <3>3
  <2> QED BY <2>1, <2>2, <2>3, <1>7 DEF ClearAlerts, AlertsKept
<1>8. CASE AlertsEnd
  <2>1. AlertTypes'
    BY <1>8, <1>2, HistorianAssumption DEF AlertsEnd, AlertTypes, Resting
  <2> QED BY <2>1, <1>2, <1>8 DEF AlertsEnd, AlertsRead, AlertsKept, Resting
<1> QED BY <1>4, <1>5, <1>6, <1>7, <1>8

-----------------------------------------------------------------------------
(* Events *)

LEMMA CounterUpdated ==
  ASSUME NEW c \in CounterType, NEW n \in Nat, NEW s \in Nat
  PROVE  /\ [c EXCEPT !.next = n, !.size = s] \in CounterType
         /\ [c EXCEPT !.size = s] \in CounterType
         /\ [c EXCEPT !.forward = s] \in CounterType
BY DEF CounterType

LEMMA FiniteEvents ==
  ASSUME NEW S \in SUBSET (1 .. MaxUpdates)
  PROVE  IsFiniteSet(S) /\ Cardinality(S) \in Nat
<1>1. IsFiniteSet(1 .. MaxUpdates)
  BY FS_Interval, HistorianAssumption
<1> QED BY <1>1, FS_Subset, FS_CardinalityType

\* RotateLog leaves nobody logging and deletes stored events only.
LEMMA RotateLogIs ==
  ASSUME NEW S \in SUBSET (1 .. MaxUpdates), NEW size, RotateLog(S, size)
  PROVE  /\ log' \in [pc : {"free", "purging"}, todo : SUBSET (1 .. MaxUpdates), by : {"nobody", "rotation"}]
         /\ log'.todo \subseteq S
<1>1. Oldest(S, Excess(size)) \subseteq S
  BY DEF Oldest
<1> QED BY <1>1 DEF RotateLog, Free

LEMMA PersistInv ==
  ASSUME BoundTypes, EventInv, Persist
  PROVE  EventInv'
<1> USE HistorianAssumption DEF EventInv, BoundTypes
<1>1. /\ log = Free /\ updates < MaxUpdates /\ updates' = updates + 1
      /\ stored' = stored \cup {mem.next}
      /\ disk' = [disk EXCEPT !.next = mem.next, !.size = mem.size + 1]
      /\ log' = [Free EXCEPT !.pc = "logging"]
      /\ mem' = mem /\ fwd' = fwd /\ received' = received /\ dropped' = dropped /\ lost' = lost
  BY DEF Persist, Update
<1>2. /\ mem.next = disk.next + 1 /\ disk.next \in Nat /\ mem.next \in 1 .. MaxUpdates
      /\ mem.next \notin stored /\ mem.next \notin received /\ mem.next \notin dropped
  BY <1>1 DEF Numbered, EventTypes, CounterType, Free
<1>3. disk'.next = mem.next /\ disk'.size = mem.size + 1 /\ disk'.forward = disk.forward
  BY <1>1 DEF EventTypes, CounterType
<1>4. log'.pc = "logging" /\ log'.todo = {} /\ log'.by = "nobody"
  BY <1>1 DEF Free
<1>5. EventTypes'
  <2>1. log' \in [pc : {"free", "logging", "purging"}, todo : SUBSET (1 .. MaxUpdates),
                  by : {"nobody", "rotation", "client", "forwarding"}]
    BY <1>1 DEF Free
  <2>2. disk' \in CounterType
    <3>1. disk \in CounterType /\ mem.next \in Nat /\ mem.size + 1 \in Nat
      BY DEF EventTypes, CounterType
    <3> QED BY <3>1, <1>1, CounterUpdated
  <2> QED BY <2>1, <2>2, <1>1, <1>2 DEF EventTypes
<1>6. SizesAgree'
  <2>1. mem.size = Cardinality(stored) /\ Cardinality(stored) \in Nat
    BY <1>1, FiniteEvents DEF SizesAgree, Free, EventTypes, CounterType
  <2>2. Cardinality(stored') = Cardinality(stored) + 1
    BY <1>1, <1>2, FS_AddElement, FiniteEvents DEF EventTypes
  <2> QED BY <2>1, <2>2, <1>1, <1>3, <1>4 DEF SizesAgree
<1>7. Numbered'
  <2>1. 1 .. mem.next = 1 .. disk.next \cup {mem.next}
    BY <1>2
  <2> QED BY <2>1, <1>1, <1>2, <1>3, <1>4 DEF Numbered
<1>8. Purging'
  BY <1>1, <1>4 DEF Purging
<1>9. Forwarding'
  BY <1>1, <1>2, <1>3 DEF Forwarding, EventTypes
<1> QED BY <1>5, <1>6, <1>7, <1>8, <1>9

LEMMA LogEventInv ==
  ASSUME BoundTypes, EventInv, LogEvent
  PROVE  EventInv'
<1> USE HistorianAssumption DEF EventInv, BoundTypes
<1>1. /\ log.pc = "logging" /\ RotateLog(stored, mem'.size)
      /\ mem' = [mem EXCEPT !.next = @ + 1, !.size = @ + 1]
      /\ stored' = stored /\ disk' = disk /\ fwd' = fwd /\ received' = received /\ dropped' = dropped
      /\ lost' = lost /\ updates' = updates
  BY DEF LogEvent
<1>2. mem'.next = mem.next + 1 /\ mem'.size = mem.size + 1 /\ mem'.forward = mem.forward
  BY <1>1 DEF EventTypes, CounterType
<1>3. /\ log' \in [pc : {"free", "purging"}, todo : SUBSET (1 .. MaxUpdates), by : {"nobody", "rotation"}]
      /\ log'.todo \subseteq stored
  BY <1>1, RotateLogIs DEF EventTypes
<1>4. EventTypes'
  <2>1. mem' \in CounterType
    <3>1. mem \in CounterType /\ mem.next + 1 \in Nat /\ mem.size + 1 \in Nat
      BY DEF EventTypes, CounterType
    <3> QED BY <3>1, <1>1, CounterUpdated
  <2>2. log' \in [pc : {"free", "logging", "purging"}, todo : SUBSET (1 .. MaxUpdates),
                  by : {"nobody", "rotation", "client", "forwarding"}]
    BY <1>3
  <2> QED BY <2>1, <2>2, <1>1 DEF EventTypes
<1>5. SizesAgree'
  BY <1>1, <1>2, <1>3, FiniteEvents DEF SizesAgree, EventTypes, CounterType
<1>6. Numbered'
  BY <1>1, <1>2, <1>3 DEF Numbered, EventTypes, CounterType
<1>7. Purging'
  BY <1>1, <1>3 DEF Purging
<1>8. Forwarding'
  BY <1>1, <1>2 DEF Forwarding, EventTypes, CounterType
<1> QED BY <1>4, <1>5, <1>6, <1>7, <1>8

LEMMA AsleepIs ==
  /\ Asleep \in [pc : {"asleep", "push", "mark", "purge", "purging", "dead"},
                 batch : SUBSET (1 .. MaxUpdates), high : 0 .. MaxUpdates]
  /\ Asleep.pc = "asleep" /\ Asleep.batch = {}
BY HistorianAssumption DEF Asleep

LEMMA FreeIs ==
  /\ Free \in [pc : {"free", "logging", "purging"}, todo : SUBSET (1 .. MaxUpdates),
               by : {"nobody", "rotation", "client", "forwarding"}]
  /\ Free.pc = "free" /\ Free.todo = {} /\ Free.by = "nobody"
BY DEF Free

\* Events that were read in order to be purged leave the log together with
\* their number in the size, and are known to the cloud or dropped.
LEMMA PurgeInv ==
  ASSUME BoundTypes, EventInv, Purge
  PROVE  EventInv'
<1> USE HistorianAssumption DEF EventInv, BoundTypes
<1> DEFINE X == Oldest(log.todo, PurgeBatchSize)
<1>1. /\ log.pc = "purging" /\ X \subseteq log.todo /\ X \subseteq stored
      /\ stored' = stored \ X
      /\ mem' = [mem EXCEPT !.size = @ - Cardinality(X)]
      /\ disk' = [disk EXCEPT !.size = mem'.size]
      /\ received' = received /\ updates' = updates
  BY DEF Purge, PurgeEvents, Oldest, Purging
<1>2. lost' = {} /\ dropped' \subseteq dropped \cup X /\ X \subseteq received \cup dropped' /\ dropped \subseteq dropped'
  BY <1>1 DEF Purge, PurgeEvents, EventTypes, Purging
<1>3. (log' = Free \/ log' = [log EXCEPT !.todo = @ \ X]) /\ (fwd' = fwd \/ fwd' = Asleep)
  BY DEF Purge, Unlock
<1>4. /\ log' \in [pc : {"free", "logging", "purging"}, todo : SUBSET (1 .. MaxUpdates),
                   by : {"nobody", "rotation", "client", "forwarding"}]
      /\ log'.pc # "logging" /\ log'.todo \subseteq log.todo \ X /\ log'.by \in {log.by, "nobody"}
  <2>1. CASE log' = Free
    BY <2>1, FreeIs
  <2>2. CASE log' = [log EXCEPT !.todo = @ \ X]
    BY <2>2, <1>1 DEF EventTypes
  <2> QED BY <2>1, <2>2, <1>3
<1>5. /\ Cardinality(stored') = Cardinality(stored) - Cardinality(X)
      /\ Cardinality(stored') \in Nat /\ mem.size = Cardinality(stored)
  <2>1. stored \cap X = X
    BY <1>1
  <2>2. stored \in SUBSET (1 .. MaxUpdates) /\ stored' \in SUBSET (1 .. MaxUpdates)
    BY <1>1 DEF EventTypes
  <2>3. IsFiniteSet(stored) /\ Cardinality(stored) \in Nat /\ Cardinality(stored') \in Nat
    BY <2>2, FiniteEvents
  <2>4. Cardinality(stored \ X) = Cardinality(stored) - Cardinality(stored \cap X)
    BY <2>3, FS_Difference
  <2>5. mem.size = Cardinality(stored) - 0
    BY <1>1, SMT DEF SizesAgree
  <2>6. Cardinality(stored') = Cardinality(stored) - Cardinality(X)
    BY <1>1, <2>1, <2>4
  <2> QED BY <2>3, <2>5, <2>6
<1>6. mem.size - Cardinality(X) = Cardinality(stored')
  BY <1>5
<1>7. mem' = [mem EXCEPT !.size = Cardinality(stored')] /\ mem \in CounterType /\ disk \in CounterType
  BY <1>1, <1>6 DEF EventTypes
<1>8. /\ mem' \in CounterType /\ mem'.size = Cardinality(stored') /\ mem'.next = mem.next
      /\ mem'.forward = mem.forward
  BY <1>7, <1>5, CounterUpdated DEF CounterType
<1>9. /\ disk' \in CounterType /\ disk'.size = Cardinality(stored') /\ disk'.next = disk.next
      /\ disk'.forward = disk.forward
  <2>1. disk' = [disk EXCEPT !.size = Cardinality(stored')]
    BY <1>1, <1>8
  <2> QED BY <2>1, <1>5, <1>7, CounterUpdated DEF CounterType
<1>10. EventTypes'
  <2>1. fwd' \in [pc : {"asleep", "push", "mark", "purge", "purging", "dead"},
                  batch : SUBSET (1 .. MaxUpdates), high : 0 .. MaxUpdates]
    BY <1>3, AsleepIs DEF EventTypes
  <2> QED BY <2>1, <1>1, <1>2, <1>4, <1>8, <1>9 DEF EventTypes
<1>11. SizesAgree'
  BY <1>4, <1>5, <1>8, <1>9 DEF SizesAgree
<1>12. Numbered'
  <2>1. stored' \cup received' \cup dropped' = stored \cup received \cup dropped
    BY <1>1, <1>2
  <2>2. stored' \cap dropped' = {}
    BY <1>1, <1>2 DEF Numbered
  <2> QED BY <2>1, <2>2, <1>1, <1>4, <1>8, <1>9 DEF Numbered
<1>13. Purging'
  BY <1>1, <1>4 DEF Purging
<1>14. Forwarding'
  BY <1>1, <1>2, <1>3, <1>4, <1>8, <1>9, AsleepIs DEF Forwarding, Numbered
<1> QED BY <1>10, <1>11, <1>12, <1>13, <1>14

LEMMA LockInv ==
  ASSUME BoundTypes, EventInv, PurgeFails \/ AskPurge \/ PurgeForwarded
  PROVE  EventInv'
<1> USE HistorianAssumption DEF EventInv, BoundTypes
<1>1. /\ stored' = stored /\ disk' = disk /\ mem' = mem /\ received' = received /\ dropped' = dropped
      /\ lost' = lost /\ updates' = updates /\ log.pc # "logging"
  BY FreeIs DEF PurgeFails, AskPurge, PurgeForwarded
<1>2. /\ log' \in [pc : {"free", "logging", "purging"}, todo : SUBSET (1 .. MaxUpdates),
                   by : {"nobody", "rotation", "client", "forwarding"}]
      /\ log'.pc # "logging" /\ log'.todo \subseteq stored
      /\ log'.by = "forwarding" => log'.todo \subseteq received
  <2>1. CASE PurgeFails
    BY <2>1, FreeIs DEF PurgeFails, Unlock
  <2>2. CASE AskPurge
    BY <2>2 DEF AskPurge, EventTypes
  <2>3. CASE PurgeForwarded
    <3>1. fwd.high = mem.forward /\ mem.forward \in Nat
      BY <2>3 DEF PurgeForwarded, Forwarding, EventTypes, CounterType
    <3>2. Forwarded(fwd.high) \subseteq received /\ Forwarded(fwd.high) \subseteq stored
      BY <3>1 DEF Forwarded, Forwarding, Numbered, EventTypes
    <3> QED BY <2>3, <3>2 DEF PurgeForwarded, EventTypes
  <2> QED BY <2>1, <2>2, <2>3
<1>3. fwd' = fwd \/ fwd' = Asleep \/ fwd' = [fwd EXCEPT !.pc = "purging"]
  BY DEF PurgeFails, AskPurge, PurgeForwarded, Unlock
<1>4. /\ fwd' \in [pc : {"asleep", "push", "mark", "purge", "purging", "dead"},
                   batch : SUBSET (1 .. MaxUpdates), high : 0 .. MaxUpdates]
      /\ fwd' = fwd \/ (fwd'.pc \in {"asleep", "purging"} /\ fwd'.batch \subseteq fwd.batch)
  BY <1>3, AsleepIs DEF EventTypes
<1>5. EventTypes'
  BY <1>1, <1>2, <1>4 DEF EventTypes
<1>6. SizesAgree' /\ Numbered' /\ Purging'
  BY <1>1, <1>2 DEF SizesAgree, Numbered, Purging
<1>7. Forwarding'
  BY <1>1, <1>4 DEF Forwarding
<1> QED BY <1>5, <1>6, <1>7

LEMMA RestartInv ==
  ASSUME BoundTypes, EventInv, Restart
  PROVE  EventInv'
<1> USE HistorianAssumption DEF EventInv, BoundTypes
<1>1. /\ mem' = Counters(disk.next + 1, disk.size, disk.forward)
      /\ RotateLog(stored, disk.size) /\ fwd' = Asleep
      /\ stored' = stored /\ disk' = disk /\ received' = received /\ dropped' = dropped
      /\ lost' = lost /\ updates' = updates
  BY DEF Restart, NewHistorian
<1>2. disk \in CounterType /\ disk.next \in Nat /\ disk.size \in Nat /\ disk.forward \in Nat
  BY DEF EventTypes, CounterType
<1>3. /\ mem' \in CounterType /\ mem'.next = disk.next + 1 /\ mem'.size = disk.size
      /\ mem'.forward = disk.forward
  BY <1>1, <1>2 DEF Counters, CounterType
<1>4. /\ log' \in [pc : {"free", "purging"}, todo : SUBSET (1 .. MaxUpdates), by : {"nobody", "rotation"}]
      /\ log'.todo \subseteq stored
  BY <1>1, RotateLogIs DEF EventTypes
<1>5. EventTypes'
  <2>1. log' \in [pc : {"free", "logging", "purging"}, todo : SUBSET (1 .. MaxUpdates),
                  by : {"nobody", "rotation", "client", "forwarding"}]
    BY <1>4
  <2> QED BY <2>1, <1>1, <1>3, AsleepIs DEF EventTypes
<1>6. SizesAgree'
  <2>1. disk.size = Cardinality(stored)
    BY DEF SizesAgree
  <2> QED BY <2>1, <1>1, <1>2, <1>3, <1>4 DEF SizesAgree
<1>7. Numbered' /\ Purging'
  BY <1>1, <1>3, <1>4 DEF Numbered, Purging
<1>8. Forwarding'
  <2>1. disk.forward < mem.next /\ mem.next <= disk.next + 1 /\ mem.next \in Nat
    BY <1>2 DEF Forwarding, Numbered, EventTypes, CounterType
  <2>2. 1 .. disk.forward \subseteq received \cup dropped
    BY DEF Forwarding
  <2> QED BY <2>1, <2>2, <1>1, <1>2, <1>3, AsleepIs DEF Forwarding
<1> QED BY <1>5, <1>6, <1>7, <1>8

\* The batch that is read has every stored event up to the highest one in it.
LEMMA BatchIs ==
  ASSUME BoundTypes, EventInv, mem.forward < mem.next - 1
  PROVE  LET high == Max({mem.forward + 1} \cup Batch) IN
         /\ Batch \subseteq stored /\ high \in 0 .. MaxUpdates /\ high <= disk.next
         /\ (mem.forward + 1) .. high \subseteq Batch \cup received \cup dropped
<1> USE HistorianAssumption DEF EventInv, BoundTypes
<1> DEFINE S == {s \in stored : s >= mem.forward + 1}
           T == {mem.forward + 1} \cup Batch
           high == Max(T)
<1>1. /\ mem.forward \in Nat /\ mem.next \in Nat /\ disk.next \in Nat /\ updates \in Nat /\ MaxUpdates \in Nat
      /\ mem.next <= disk.next + 1 /\ disk.next <= updates /\ updates <= MaxUpdates
      /\ stored \cup received \cup dropped = 1 .. disk.next
  BY DEF Numbered, EventTypes, CounterType
<1>2. Batch = Oldest(S, ForwardBatchSize) /\ Batch \subseteq S /\ Batch \subseteq stored
  BY DEF Batch, Oldest
<1>3. mem.forward + 1 \in 1 .. disk.next /\ T \in SUBSET (0 .. disk.next)
  BY <1>1, <1>2
<1>4. high \in T /\ \A x \in T : x <= high
  BY <1>1, <1>3, MaxOfBounded
<1>5. high \in 0 .. MaxUpdates /\ high <= disk.next /\ high \in Nat
  BY <1>1, <1>3, <1>4
<1>6. ASSUME NEW s \in (mem.forward + 1) .. high PROVE s \in Batch \cup received \cup dropped
  <2>1. s \in Nat /\ s <= high /\ s >= mem.forward + 1 /\ s \in 1 .. disk.next
    BY <1>1, <1>5
  <2>2. CASE s \notin stored
    BY <2>1, <2>2, <1>1
  <2>3. CASE s \in stored
    <3>1. S \in SUBSET Nat /\ IsFiniteSet(S) /\ ForwardBatchSize \in Nat /\ s \in S
      <4>1. S \in SUBSET (1 .. MaxUpdates)
        BY DEF EventTypes
      <4> QED BY <4>1, <2>1, <2>3, FiniteEvents
    <3>2. CASE high \in Batch
      BY <3>1, <3>2, <2>1, <1>2, OldestFirst
    <3>3. CASE high = mem.forward + 1
      <4>1. s = mem.forward + 1
        BY <3>3, <2>1, <1>1
      <4>2. {t \in S : t < s} = {}
        BY <4>1, <3>1, <1>1
      <4>3. Cardinality({t \in S : t < s}) = 0
        BY <4>2, FS_EmptySet
      <4>4. ForwardBatchSize > 0
        OBVIOUS
      <4> QED BY <4>3, <4>4, <3>1, <1>2 DEF Oldest
    <3> QED BY <3>2, <3>3, <1>4
  <2> QED BY <2>2, <2>3
<1> QED BY <1>2, <1>5, <1>6

LEMMA ForwardEventsInv ==
  ASSUME BoundTypes, EventInv, ReadBatch \/ PushEvents \/ PushEventsFails \/ ForwardingEnds
  PROVE  EventInv'
<1> USE HistorianAssumption DEF EventInv, BoundTypes
<1>1. /\ stored' = stored /\ disk' = disk /\ mem' = mem /\ log' = log /\ dropped' = dropped
      /\ lost' = lost /\ updates' = updates
  BY DEF ReadBatch, PushEvents, PushEventsFails, ForwardingEnds
<1>2. received' = received \/ (received' = received \cup fwd.batch /\ fwd.pc = "push")
  BY DEF ReadBatch, PushEvents, PushEventsFails, ForwardingEnds
<1>3. fwd.batch \subseteq 1 .. disk.next /\ fwd.batch \in SUBSET (1 .. MaxUpdates)
  BY DEF Forwarding, EventTypes
<1>4. received \subseteq received' /\ received' \in SUBSET (1 .. MaxUpdates) /\ stored \cup received' \cup dropped = 1 .. disk.next
  BY <1>2, <1>3 DEF EventTypes, Numbered
<1>5. SizesAgree' /\ Numbered' /\ Purging'
  BY <1>1, <1>4 DEF SizesAgree, Numbered, Purging
<1>6. 1 .. mem.forward \subseteq received' \cup dropped /\ mem.forward = disk.forward /\ mem.forward < mem.next
  BY <1>4 DEF Forwarding
<1>7. CASE ReadBatch
  <2>1. /\ fwd' = [pc |-> "push", batch |-> Batch, high |-> Max({mem.forward + 1} \cup Batch)]
        /\ mem.forward < mem.next - 1 /\ received' = received
    BY <1>7 DEF ReadBatch
  <2>2. /\ Batch \in SUBSET (1 .. MaxUpdates) /\ Batch \subseteq 1 .. disk.next
        /\ fwd'.pc = "push" /\ fwd'.batch = Batch /\ fwd'.high \in 0 .. MaxUpdates /\ fwd'.high <= disk.next
        /\ (mem.forward + 1) .. fwd'.high \subseteq Batch \cup received \cup dropped
    BY <2>1, BatchIs DEF EventTypes, Numbered
  <2>3. EventTypes'
    BY <1>1, <1>4, <2>1, <2>2 DEF EventTypes
  <2>4. Forwarding'
    BY <1>1, <1>6, <2>1, <2>2 DEF Forwarding
  <2> QED BY <2>3, <2>4, <1>5
<1>8. CASE PushEvents
  <2>1. fwd.pc = "push" /\ fwd' = [fwd EXCEPT !.pc = "mark"] /\ received' = received \cup fwd.batch
    BY <1>8 DEF PushEvents
  <2>2. /\ fwd' \in [pc : {"asleep", "push", "mark", "purge", "purging", "dead"},
                     batch : SUBSET (1 .. MaxUpdates), high : 0 .. MaxUpdates]
        /\ fwd'.pc = "mark" /\ fwd'.batch = fwd.batch /\ fwd'.high = fwd.high
    BY <2>1 DEF EventTypes
  <2>3. EventTypes'
    BY <1>1, <1>4, <2>2 DEF EventTypes
  <2>4. Forwarding'
    BY <1>1, <1>4, <1>6, <2>1, <2>2 DEF Forwarding
  <2> QED BY <2>3, <2>4, <1>5
<1>9. CASE PushEventsFails \/ ForwardingEnds
  <2>1. /\ fwd' \in [pc : {"asleep", "push", "mark", "purge", "purging", "dead"},
                     batch : SUBSET (1 .. MaxUpdates), high : 0 .. MaxUpdates]
        /\ fwd'.pc \in {"asleep", "dead"} /\ fwd'.batch = {}
    BY <1>9, AsleepIs DEF PushEventsFails, ForwardingEnds, Asleep
  <2>2. EventTypes'
    BY <1>1, <1>4, <2>1 DEF EventTypes
  <2>3. Forwarding'
    BY <1>1, <1>6, <2>1 DEF Forwarding
  <2> QED BY <2>2, <2>3, <1>5
<1> QED BY <1>7, <1>8, <1>9

LEMMA SetForwardIndexInv ==
  ASSUME BoundTypes, EventInv, SetForwardIndex
  PROVE  EventInv'
<1> USE HistorianAssumption DEF EventInv, BoundTypes
<1>1. /\ fwd.pc = "mark" /\ log = Free
      /\ disk' = [disk EXCEPT !.forward = fwd.high] /\ mem' = [mem EXCEPT !.forward = fwd.high]
      /\ fwd' = [fwd EXCEPT !.pc = "purge"] \/ fwd' = Asleep
      /\ stored' = stored /\ log' = log /\ received' = received /\ dropped' = dropped
      /\ lost' = lost /\ updates' = updates
  BY DEF SetForwardIndex
<1>2. fwd.high \in Nat /\ disk \in CounterType /\ mem \in CounterType
  BY DEF EventTypes
<1>3. /\ disk' \in CounterType /\ mem' \in CounterType
      /\ disk'.next = disk.next /\ disk'.size = disk.size /\ disk'.forward = fwd.high
      /\ mem'.next = mem.next /\ mem'.size = mem.size /\ mem'.forward = fwd.high
  BY <1>1, <1>2, CounterUpdated DEF CounterType
<1>4. /\ fwd' \in [pc : {"asleep", "push", "mark", "purge", "purging", "dead"},
                   batch : SUBSET (1 .. MaxUpdates), high : 0 .. MaxUpdates]
      /\ \/ fwd'.pc = "purge" /\ fwd'.batch = fwd.batch /\ fwd'.high = fwd.high
         \/ fwd'.pc = "asleep" /\ fwd'.batch = {}
  BY <1>1, AsleepIs DEF EventTypes
<1>5. EventTypes'
  BY <1>1, <1>3, <1>4 DEF EventTypes
<1>6. SizesAgree' /\ Numbered' /\ Purging'
  BY <1>1, <1>3 DEF SizesAgree, Numbered, Purging
<1>7. fwd.high < mem.next
  <2>1. mem.next = disk.next + 1 /\ disk.next \in Nat
    BY <1>1, <1>2, FreeIs DEF Numbered, CounterType
  <2> QED BY <2>1, <1>1, <1>2 DEF Forwarding
<1>8. 1 .. fwd.high \subseteq received \cup dropped
  <2>1. ASSUME NEW s \in 1 .. fwd.high PROVE s \in received \cup dropped
    <3>1. s \in 1 .. mem.forward \/ s \in (mem.forward + 1) .. fwd.high
      BY <1>2 DEF CounterType
    <3> QED BY <3>1, <1>1 DEF Forwarding
  <2> QED BY <2>1
<1>9. Forwarding'
  BY <1>1, <1>3, <1>4, <1>7, <1>8 DEF Forwarding
<1> QED BY <1>5, <1>6, <1>9

-----------------------------------------------------------------------------
(* All steps, and the theorems *)

EventStep == Persist \/ LogEvent \/ Purge \/ PurgeFails \/ AskPurge \/ PurgeForwarded \/ Restart
             \/ ReadBatch \/ PushEvents \/ PushEventsFails \/ ForwardingEnds \/ SetForwardIndex
AlertStep == (\E k \in AlertKeys : UpdateAlert(k)) \/ GetAlerts \/ PushAlerts \/ PushAlertsFails
             \/ ClearAlerts \/ AlertsEnd

LEMMA StepsAre == HistoryNext => EventStep \/ AlertStep
BY DEF HistoryNext, HistoryProgress, EventStep, AlertStep

LEMMA BoundsKept ==
  ASSUME BoundTypes, HistoryNext
  PROVE  BoundTypes'
<1>1. purgeOnForward' = purgeOnForward
  <2>1. CASE EventStep
    BY <2>1 DEF EventStep, Persist, LogEvent, Purge, PurgeFails, AskPurge, PurgeForwarded, Restart,
                ReadBatch, PushEvents, PushEventsFails, ForwardingEnds, SetForwardIndex
  <2>2. CASE AlertStep
    BY <2>2 DEF AlertStep, UpdateAlert, GetAlerts, PushAlerts, PushAlertsFails, ClearAlerts, AlertsEnd
  <2> QED BY <2>1, <2>2, StepsAre
<1>2. updates' = updates \/ Update
  <2>1. CASE EventStep
    BY <2>1 DEF EventStep, Persist, LogEvent, Purge, PurgeFails, AskPurge, PurgeForwarded, Restart,
                ReadBatch, PushEvents, PushEventsFails, ForwardingEnds, SetForwardIndex
  <2>2. CASE AlertStep
    BY <2>2 DEF AlertStep, UpdateAlert, GetAlerts, PushAlerts, PushAlertsFails, ClearAlerts, AlertsEnd
  <2> QED BY <2>1, <2>2, StepsAre
<1>3. faults' = faults \/ Fault
  <2>1. CASE EventStep
    BY <2>1 DEF EventStep, Persist, LogEvent, Purge, PurgeFails, AskPurge, PurgeForwarded, Restart,
                ReadBatch, PushEvents, PushEventsFails, ForwardingEnds, SetForwardIndex
  <2>2. CASE AlertStep
    BY <2>2 DEF AlertStep, UpdateAlert, GetAlerts, PushAlerts, PushAlertsFails, ClearAlerts, AlertsEnd
  <2> QED BY <2>1, <2>2, StepsAre
<1>4. updates' \in 0 .. MaxUpdates /\ faults' \in 0 .. MaxFaults
  BY <1>2, <1>3, HistorianAssumption DEF BoundTypes, Update, Fault
<1> QED BY <1>1, <1>4 DEF BoundTypes

\* The alerts know nothing of the events but the counter of updates.
LEMMA EventsUntouched ==
  ASSUME BoundTypes, EventInv, UNCHANGED eventVars, updates' = updates \/ Update
  PROVE  EventInv'
<1>1. /\ stored' = stored /\ disk' = disk /\ mem' = mem /\ log' = log /\ fwd' = fwd
      /\ received' = received /\ dropped' = dropped /\ lost' = lost
  BY DEF eventVars
<1>2. EventTypes' /\ SizesAgree' /\ Purging' /\ Forwarding'
  BY <1>1 DEF EventInv, EventTypes, SizesAgree, Purging, Forwarding
<1>3. disk.next <= updates /\ disk.next \in Nat /\ updates \in Nat
  BY HistorianAssumption DEF EventInv, Numbered, EventTypes, CounterType, BoundTypes
<1>4. disk'.next <= updates'
  BY <1>1, <1>3 DEF Update
<1>5. Numbered'
  BY <1>1, <1>4 DEF EventInv, Numbered
<1> QED BY <1>2, <1>5 DEF EventInv

LEMMA AlertsUntouched ==
  ASSUME AlertInv, UNCHANGED <<alerts, told, last, clash>>, afw' = afw \/ afw' = Resting
  PROVE  AlertInv'
<1>1. alerts' = alerts /\ told' = told /\ last' = last /\ clash' = clash
  OBVIOUS
<1>2. AlertsKept'
  BY <1>1 DEF AlertInv, AlertsKept
<1>3. CASE afw' = afw
  BY <1>1, <1>2, <1>3 DEF AlertInv, AlertTypes, AlertsRead, Ids
<1>4. CASE afw' = Resting
  <2>1. Resting \in [pc : {"asleep", "push", "clear", "dead"}, got : AlertType] /\ Resting.pc = "asleep"
    BY DEF Resting, NoAlert, AlertType
  <2>2. \A k \in AlertKeys : Resting.got[k] = NoAlert /\ Resting.got[k].id = 0
    BY DEF Resting, NoAlert
  <2>3. AlertTypes'
    BY <1>1, <1>4, <2>1, <2>2, HistorianAssumption DEF AlertInv, AlertTypes
  <2>4. AlertsRead'
    BY <1>1, <1>4, <2>1, <2>2 DEF AlertInv, AlertsRead
  <2> QED BY <1>2, <2>3, <2>4 DEF AlertInv
<1> QED BY <1>3, <1>4

LEMMA EventStepInv ==
  ASSUME HistoryInv, EventStep
  PROVE  EventInv' /\ AlertInv'
<1> USE DEF HistoryInv
<1>1. EventInv'
  BY PersistInv, LogEventInv, PurgeInv, LockInv, RestartInv, ForwardEventsInv, SetForwardIndexInv DEF EventStep
<1>2. UNCHANGED <<alerts, told, last, clash>> /\ (afw' = afw \/ afw' = Resting)
  BY DEF EventStep, Persist, LogEvent, Purge, PurgeFails, AskPurge, PurgeForwarded, Restart, alertVars,
         ReadBatch, PushEvents, PushEventsFails, ForwardingEnds, SetForwardIndex
<1> QED BY <1>1, <1>2, AlertsUntouched

LEMMA AlertStepInv ==
  ASSUME HistoryInv, AlertStep
  PROVE  EventInv' /\ AlertInv'
<1> USE DEF HistoryInv
<1>1. AlertInv'
  BY UpdateAlertInv, ForwardAlertsInv DEF AlertStep
<1>2. UNCHANGED eventVars /\ (updates' = updates \/ Update)
  BY DEF AlertStep, UpdateAlert, GetAlerts, PushAlerts, PushAlertsFails, ClearAlerts, AlertsEnd
<1> QED BY <1>1, <1>2, EventsUntouched

LEMMA HistoryNextInv == HistoryInv /\ [HistoryNext]_historyVars => HistoryInv'
<1> SUFFICES ASSUME HistoryInv, [HistoryNext]_historyVars PROVE HistoryInv'
  OBVIOUS
<1>1. CASE HistoryNext
  BY <1>1, StepsAre, BoundsKept, EventStepInv, AlertStepInv DEF HistoryInv
<1>2. CASE UNCHANGED historyVars
  <2>1. UNCHANGED <<purgeOnForward, updates, faults, eventVars>> /\ UNCHANGED alertVars
    BY <1>2 DEF historyVars
  <2>2. EventInv'
    BY <2>1, EventsUntouched DEF HistoryInv
  <2>3. AlertInv'
    BY <2>1, AlertsUntouched DEF HistoryInv, alertVars
  <2> QED BY <2>1, <2>2, <2>3 DEF HistoryInv, BoundTypes
<1> QED BY <1>1, <1>2

LEMMA HistoryInvariant == HistorySpec => []HistoryInv
BY HistoryInitInv, HistoryNextInv, PTL DEF HistorySpec

LEMMA HistoryImplied == HistoryInv => CountersSound /\ NothingSkipped /\ AlertsKept
<1> SUFFICES ASSUME HistoryInv PROVE CountersSound /\ NothingSkipped /\ AlertsKept
  OBVIOUS
<1>1. HistoryTypeOK
  BY DEF HistoryInv, EventInv, AlertInv, BoundTypes, EventTypes, AlertTypes, HistoryTypeOK
<1>2. ForwardedAccounted
  <2>1. /\ mem.forward = disk.forward /\ mem.forward < mem.next /\ 1 .. mem.forward \subseteq received \cup dropped
        /\ mem.next <= disk.next + 1 /\ disk.next \in Nat /\ mem.next \in Nat /\ mem.forward \in Nat
    BY DEF HistoryInv, EventInv, Forwarding, Numbered, EventTypes, CounterType
  <2> QED BY <2>1 DEF ForwardedAccounted
<1>3. PurgesForwardedOnly
  BY DEF HistoryInv, EventInv, EventTypes, PurgesForwardedOnly
<1> QED BY <1>1, <1>2, <1>3 DEF HistoryInv, EventInv, AlertInv, CountersSound, NothingSkipped

(***************************************************************************)
(* The size that LogEvent, purgeEvents and NewHistorian keep is the number *)
(* of events stored, for every limit and every size of a purge batch.      *)
(***************************************************************************)
THEOREM CountersStaySound == HistorySpec => []CountersSound
BY HistoryInvariant, HistoryImplied, PTL

(***************************************************************************)
(* However StartForwardingEvents is interrupted, it passes over no event,  *)
(* and purges none as forwarded, that the cloud has not received.          *)
(***************************************************************************)
THEOREM EventsAccounted == HistorySpec => []NothingSkipped
BY HistoryInvariant, HistoryImplied, PTL

(***************************************************************************)
(* ClearAlerts removes no alert that the cloud was not told of, unless it  *)
(* has the millisecond of the one that was sent.                           *)
(***************************************************************************)
THEOREM AlertsStayKept == HistorySpec => []AlertsKept
BY HistoryInvariant, HistoryImplied, PTL

LEMMA SerialsStep ==
  ASSUME HistoryInv, [HistoryNext]_historyVars
  PROVE  \A s \in stored' \ stored : \A t \in stored \cup received \cup dropped : s > t
<1> SUFFICES ASSUME NEW s \in stored', s \notin stored, NEW t \in stored \cup received \cup dropped PROVE s > t
  OBVIOUS
<1>1. Persist
  <2>1. ~ UNCHANGED historyVars
    BY DEF historyVars, eventVars
  <2>2. ~ AlertStep
    BY DEF AlertStep, UpdateAlert, GetAlerts, PushAlerts, PushAlertsFails, ClearAlerts, AlertsEnd, eventVars
  <2>3. EventStep
    BY <2>1, <2>2, StepsAre
  <2>4. ~ Purge
    BY DEF Purge, PurgeEvents
  <2> QED BY <2>3, <2>4 DEF EventStep, LogEvent, PurgeFails, AskPurge, PurgeForwarded, Restart,
         ReadBatch, PushEvents, PushEventsFails, ForwardingEnds, SetForwardIndex
<1>2. s = mem.next
  BY <1>1 DEF Persist
<1>3. log.pc = "free"
  BY <1>1, FreeIs DEF Persist
<1>4. mem.next = disk.next + 1 /\ disk.next \in Nat /\ t \in 1 .. disk.next
  BY <1>3 DEF HistoryInv, EventInv, Numbered, EventTypes, CounterType
<1> QED BY <1>2, <1>4

(***************************************************************************)
(* LogEvent never uses a serial number again, nor one below a number that  *)
(* was used, even when the events with it were purged before a restart.    *)
(***************************************************************************)
THEOREM SerialsNeverReused == HistorySpec => SerialsIncrease
<1>1. HistoryInv /\ [HistoryNext]_historyVars => [\A s \in stored' \ stored : \A t \in stored \cup received \cup dropped : s > t]_historyVars
  BY SerialsStep
<1> QED BY <1>1, HistoryInvariant, PTL DEF HistorySpec, SerialsIncrease
=============================================================================
