--------------------------- MODULE StoreWatch_proof ---------------------------
(***************************************************************************)
(* Proofs about StoreWatch, for any set of keys and any number of writers, *)
(* row IDs, lost connections and restarts.                                 *)
(***************************************************************************)
EXTENDS StoreWatch, FiniteSetTheorems, WellFoundedInduction, TLAPS

(* The inductive invariant *)

\* What the monitor has not passed on yet lies above prev, but for version 0.
Ahead(n) == n > prev \/ n = 0

\* No two rows in flight have the same version, and none has one that waits
\* in the heap.
Numbered ==
  /\ prev < nextRowID \/ prev = 0
  /\ \A w \in Writer : pc[w] \in {"idle", "locked"} => batch[w] = {}
  /\ \A w \in Writer : \A u \in batch[w] :
       u.key \in Key /\ u.ver < nextRowID /\ Ahead(u.ver) /\ u.ver \notin Versions(heap)
  /\ \A w, x \in Writer : \A u \in batch[w], v \in batch[x] : u.ver = v.ver => w = x /\ u = v
  /\ \A u \in heap : prev < u.ver /\ u.ver < nextRowID
  /\ \A u, v \in heap : u.ver = v.ver => u = v

\* A stored row that the monitor has not passed on is in the heap, or its
\* writer is about to submit it.
Submittable ==
  \A k \in Key : rows[k] > prev =>
    \/ [ver |-> rows[k], key |-> k] \in heap
    \/ \E w \in Writer : pc[w] = "persisted" /\ [ver |-> rows[k], key |-> k] \in batch[w]
Stored ==
  /\ \A k \in Key : rows[k] < nextRowID
  /\ \A k \in Key : \A u \in Unstored : rows[k] # u.ver
  /\ Submittable

\* The end marker is at position m of the stream, or has been read (0). All
\* else are rows, and those behind it have been passed on by the monitor.
Connected == conn \in {"scanned", "listening"}
RowsBut(m) ==
  \A i \in 1..Len(stream) : i # m => stream[i].key \in Key /\ stream[i].ver < nextRowID
PassedOn(m) ==
  /\ \A i \in 1..Len(stream) : i > m => stream[i].ver <= prev
  /\ \A i, j \in 1..Len(stream) : m < i /\ i < j => stream[i].ver < stream[j].ver
  /\ \A i \in 1..Len(stream) : m < i /\ stream[i].ver = 0 => \A w \in Writer : 0 \notin Versions(batch[w])
MarkerAt(m) ==
  /\ m \in 0..Len(stream)
  /\ m > 0 => stream[m] = Marker
  /\ m = 0 <=> missed = Streaming \/ ~Connected

Lines ==
  /\ watcherLock <=> conn \in {"scanned", "abandoned"}
  /\ ~Connected => stream = <<>>
  /\ conn = "opening" => missed = 0
  /\ \E m \in 0..Len(stream) : MarkerAt(m) /\ RowsBut(m) /\ PassedOn(m)

\* The rows that are numbered and not yet stored are above all that the client
\* has reached or will have reached with the end marker.
Later(n) == (n < nextRowID \/ n = 0) /\ \A u \in Unstored : u.ver > n \/ u.ver = 0

\* While the client catches up, a row above its serial number has been read, is
\* before the marker, or was stored after the scan and is about to be sent.
Sending(k, m) ==
  \/ rows[k] > prev
  \/ \E i \in 1..Len(stream) : i > m /\ stream[i] = [ver |-> rows[k], key |-> k]
Catching(k, m) ==
  \/ rows[k] <= missed /\ [ver |-> rows[k], key |-> k] \in received
  \/ \E i \in 1..Len(stream) : i < m /\ stream[i] = [ver |-> rows[k], key |-> k]
  \/ /\ rows[k] > missed /\ \A i \in 1..Len(stream) : i < m => rows[k] > stream[i].ver
     /\ Sending(k, m)
Covered ==
  ~overtaken =>
    /\ Later(lastSerial)
    /\ \A m \in 0..Len(stream) : Connected /\ MarkerAt(m) =>
         /\ m > 0 => /\ Later(missed)
                     /\ \A i \in 1..Len(stream) : i < m => Later(stream[i].ver)
                     /\ \A k \in Key : rows[k] > lastSerial => Catching(k, m)
         /\ m = 0 => \A k \in Key : rows[k] > lastSerial => Sending(k, m)

MonitorInv == Numbered /\ NothingDropped /\ GapsAreInFlight /\ Stored
IInv == TypeOK /\ MonitorInv /\ Lines /\ Covered /\ StableSerial
-----------------------------------------------------------------------------
(* Arithmetic *)

\* A non-empty set of naturals has a least element.
LEMMA NatMin ==
  ASSUME NEW T, T \subseteq Nat, T # {}
  PROVE  \E x \in T : \A y \in T : x <= y
<1> DEFINE R == {ss \in Nat \X Nat : ss[1] < ss[2]}
<1>1. IsWellFoundedOn(R, Nat)
  BY NatLessThanWellFounded, Zenon DEF OpToRel
<1>2. PICK x \in T : \A y \in T : ~ (<<y, x>> \in R)
  <2> HIDE DEF R
  <2> QED BY <1>1, WFMin, Zenon
<1>3. ASSUME NEW y \in T PROVE x <= y
  <2>1. ~ (<<y, x>> \in R)
    BY <1>2
  <2>2. x \in Nat /\ y \in Nat
    BY <1>2
  <2> QED BY <2>1, <2>2
<1> QED BY <1>2, <1>3

\* A non-empty bounded set of versions, or of NoRow, contains its Max.
LEMMA MaxIs ==
  ASSUME NEW T, T \subseteq Nat \cup {NoRow}, T # {}, NEW b \in Nat, \A x \in T : x <= b
  PROVE  Max(T) \in T /\ \A y \in T : y <= Max(T)
<1> USE DEF NoRow
<1> DEFINE U == {u \in Nat : \A x \in T : x + 1 <= u}
<1>1. PICK m \in U : \A y \in U : m <= y
  <2>1. b + 1 \in U
    OBVIOUS
  <2>2. U \subseteq Nat
    OBVIOUS
  <2> HIDE DEF U
  <2> QED BY <2>1, <2>2, NatMin
<1>2. m \in Nat /\ \A y \in T : y + 1 <= m
  OBVIOUS
<1>3. m - 1 \in T
  <2> SUFFICES ASSUME m - 1 \notin T PROVE FALSE
    OBVIOUS
  <2>1. \A x \in T : x + 1 < m
    BY <1>2
  <2>2. m > 0
    <3>1. PICK t \in T : TRUE
      OBVIOUS
    <3> QED BY <3>1, <2>1, <1>2
  <2>3. m - 1 \in Nat /\ \A x \in T : x + 1 <= m - 1
    BY <2>1, <2>2, <1>2
  <2>4. m - 1 \in U
    BY <2>3
  <2> QED BY <2>4, <1>1, <1>2
<1>4. \A y \in T : m - 1 >= y
  BY <1>2
<1> HIDE DEF U
<1>5. Max(T) \in T /\ \A y \in T : Max(T) >= y
  BY <1>3, <1>4, Zenon DEF Max
<1> QED BY <1>5

LEMMA MaxOfTwo ==
  ASSUME NEW a \in Nat, NEW b \in Nat
  PROVE  Max({a, b}) = IF a <= b THEN b ELSE a
<1>1. \A x \in {a, b} : x <= a + b
  OBVIOUS
<1>2. Max({a, b}) \in {a, b} /\ \A y \in {a, b} : y <= Max({a, b})
  BY <1>1, MaxIs
<1> QED BY <1>2

\* The next row ID is above every stored row.
LEMMA NextRowIDIs ==
  ASSUME NEW f, NEW b \in Nat, \A k \in Key : f[k] \in Nat \cup {NoRow} /\ f[k] < b
  PROVE  /\ NextRowIDOf(f) \in 0..b
         /\ \A k \in Key : f[k] < NextRowIDOf(f)
<1> DEFINE T == {NoRow} \cup {f[k] : k \in Key}
<1>1. T \subseteq Nat \cup {NoRow} /\ T # {} /\ \A x \in T : x <= b
  BY DEF NoRow
<1>2. NoRow \in T /\ (\A x \in T : x < b) /\ \A k \in Key : f[k] \in T
  BY DEF NoRow
<1>3. NextRowIDOf(f) = Max(T) + 1
  BY Zenon DEF NextRowIDOf
<1> HIDE DEF T
<1>4. Max(T) \in T /\ \A y \in T : y <= Max(T)
  BY <1>1, MaxIs
<1>5. Max(T) < b /\ Max(T) >= -1 /\ Max(T) \in Int
  <2>1. \A x \in T : x < b /\ x >= -1 /\ x \in Int
    BY <1>1, <1>2 DEF NoRow
  <2> QED BY <1>4, <2>1
<1>6. \A k \in Key : f[k] \in Int /\ f[k] <= Max(T)
  BY <1>2, <1>4 DEF NoRow
<1> QED BY <1>3, <1>5, <1>6
-----------------------------------------------------------------------------
(* The monitor *)

\* What is passed on ends where the first gap begins.
LEMMA FlushedIs ==
  ASSUME NEW p \in Nat, NEW H, Versions(H) \subseteq Nat,
         NEW b \in Nat, \A n \in Versions(H) : n <= b
  PROVE  /\ FlushedTo(p, H) \in {p} \cup Versions(H)
         /\ FlushedTo(p, H) >= p
         /\ (p + 1)..FlushedTo(p, H) \subseteq Versions(H)
         /\ FlushedTo(p, H) + 1 \notin Versions(H)
<1> DEFINE V == Versions(H)
           U == {u \in Nat : u >= p /\ u + 1 \notin V}
<1>1. PICK m \in U : \A y \in U : m <= y
  <2>1. b + p \in U
    OBVIOUS
  <2>2. U \subseteq Nat
    OBVIOUS
  <2> HIDE DEF U
  <2> QED BY <2>1, <2>2, NatMin
<1>2. m \in Nat /\ m >= p /\ m + 1 \notin V
  OBVIOUS
<1>3. (p + 1)..m \subseteq V
  <2> SUFFICES ASSUME NEW n \in (p + 1)..m PROVE n \in V
    OBVIOUS
  <2>1. n - 1 \in Nat /\ n - 1 >= p /\ n - 1 < m /\ (n - 1) + 1 = n
    BY <1>2
  <2>2. n - 1 \notin U
    BY <1>1, <2>1, <1>2
  <2> QED BY <2>1, <2>2
<1>4. m \in {p} \cup V
  <2>1. m = p \/ m \in (p + 1)..m
    BY <1>2
  <2> QED BY <2>1, <1>3
<1>5. \E x \in {p} \cup V : x >= p /\ (p + 1)..x \subseteq V /\ x + 1 \notin V
  BY <1>2, <1>3, <1>4
<1> HIDE DEF U
<1> QED BY <1>5 DEF FlushedTo

\* InOrder lists a set of rows with different versions by their versions.
LEMMA InOrderIs ==
  ASSUME NEW S, IsFiniteSet(S), \A u \in S : u.ver \in Nat,
         \A u, v \in S : u.ver = v.ver => u = v
  PROVE  /\ InOrder(S) \in Seq(S)
         /\ \A i, j \in 1..Len(InOrder(S)) : i < j => InOrder(S)[i].ver < InOrder(S)[j].ver
         /\ \A u \in S : \E i \in 1..Len(InOrder(S)) : InOrder(S)[i] = u
<1> DEFINE n == Cardinality(S)
           below(u) == {v \in S : ByVersion(v, u)}
           f == [u \in S |-> Cardinality(below(u)) + 1]
<1>1. n \in Nat /\ IsFiniteSet(1..n) /\ Cardinality(1..n) = n
  <2>1. n \in Nat
    BY FS_CardinalityType
  <2> QED BY <2>1, FS_Interval
<1>2. ASSUME NEW u \in S PROVE IsFiniteSet(below(u)) /\ Cardinality(below(u)) \in Nat
  <2>1. below(u) \in SUBSET S
    OBVIOUS
  <2>2. IsFiniteSet(below(u))
    BY <2>1, FS_Subset, Zenon
  <2> QED BY <2>2, FS_CardinalityType, Zenon
<1>3. ASSUME NEW u \in S, NEW v \in S, u.ver < v.ver
      PROVE  Cardinality(below(u)) < Cardinality(below(v))
  <2>1. below(u) \in SUBSET below(v) /\ u \in below(v) /\ u \notin below(u)
    BY <1>3 DEF ByVersion
  <2>2. below(u) # below(v)
    BY <2>1
  <2>3. Cardinality(below(u)) <= Cardinality(below(v)) /\ Cardinality(below(u)) # Cardinality(below(v))
    <3> HIDE DEF below
    <3> QED BY <2>1, <2>2, <1>2, FS_Subset
  <2> QED BY <2>3, <1>2
<1>4. ASSUME NEW u \in S PROVE Cardinality(below(u)) < n
  <2>1. below(u) \in SUBSET S /\ u \notin below(u)
    BY DEF ByVersion
  <2>2. below(u) # S
    BY <2>1
  <2>3. Cardinality(below(u)) <= n /\ Cardinality(below(u)) # n
    <3> HIDE DEF below
    <3> QED BY <2>1, <2>2, FS_Subset
  <2> HIDE DEF below, n
  <2> QED BY <2>3, <1>1, <1>2
<1>5. f \in Injection(S, 1..n)
  <2> HIDE DEF below, n
  <2>1. f \in [S -> 1..n]
    BY <1>1, <1>2, <1>4
  <2>2. ASSUME NEW u \in S, NEW v \in S, f[u] = f[v] PROVE u = v
    <3>1. Cardinality(below(u)) = Cardinality(below(v))
      BY <2>2, <1>2
    <3>2. ~(u.ver < v.ver) /\ ~(v.ver < u.ver)
      BY <3>1, <1>2, <1>3
    <3> QED BY <3>2
  <2>3. IsInjective(f)
    BY <2>2, Zenon DEF IsInjective
  <2> QED BY <2>1, <2>3 DEF Injection
<1>6. f \in Surjection(S, 1..n)
  <2> HIDE DEF f, n
  <2> QED BY <1>1, <1>5, FS_Injection DEF n
<1>7. ASSUME NEW i \in 1..n PROVE \E u \in S : Cardinality(below(u)) = i - 1
  <2>1. PICK u \in S : f[u] = i
    BY <1>6 DEF Surjection
  <2> HIDE DEF below, n
  <2> QED BY <2>1, <1>2
<1> DEFINE g(i) == CHOOSE u \in S : Cardinality(below(u)) = i - 1
           q == [i \in 1..n |-> g(i)]
<1>8. InOrder(S) = q
  BY Zenon DEF InOrder
<1>9. ASSUME NEW i \in 1..n PROVE q[i] \in S /\ Cardinality(below(q[i])) = i - 1
  <2> DEFINE P(u) == Cardinality(below(u)) = i - 1
  <2>1. q[i] = CHOOSE u \in S : P(u)
    OBVIOUS
  <2>2. \E u \in S : P(u)
    BY <1>7
  <2>3. q[i] \in S /\ P(q[i])
    <3> HIDE DEF P, q
    <3> QED BY <2>1, <2>2, Zenon
  <2> QED BY <2>3
<1>10. q \in [1..n -> S]
  <2>1. \A i \in 1..n : g(i) \in S
    BY <1>9
  <2> HIDE DEF g, n, below
  <2> QED BY <2>1
<1> HIDE DEF q, n, below, f
<1>11. q \in Seq(S) /\ Len(q) = n
  BY <1>1, <1>10
<1>12. ASSUME NEW i \in 1..n, NEW j \in 1..n, i < j PROVE q[i].ver < q[j].ver
  <2>1. q[i] \in S /\ q[j] \in S /\ Cardinality(below(q[i])) < Cardinality(below(q[j]))
    BY <1>9, <1>12, <1>1
  <2>2. ~(q[j].ver < q[i].ver) /\ q[i].ver # q[j].ver
    BY <2>1, <1>2, <1>3
  <2> QED BY <2>1, <2>2
<1>13. ASSUME NEW u \in S PROVE \E i \in 1..n : q[i] = u
  <2>1. f[u] \in 1..n /\ f[u] = Cardinality(below(u)) + 1
    BY <1>1, <1>2, <1>4 DEF f
  <2>2. q[f[u]] \in S /\ Cardinality(below(q[f[u]])) = Cardinality(below(u))
    BY <2>1, <1>2, <1>9
  <2>3. ~(u.ver < q[f[u]].ver) /\ ~(q[f[u]].ver < u.ver)
    BY <2>2, <1>2, <1>3
  <2> QED BY <2>1, <2>2, <2>3
<1> QED BY <1>8, <1>11, <1>12, <1>13
-----------------------------------------------------------------------------
(* The initial states *)

LEMMA UnstoredIs == \A u : u \in Unstored <=> \E w \in Writer : pc[w] = "allocated" /\ u \in batch[w]
BY DEF Unstored

LEMMA UnstoredIsNext ==
  \A u : u \in Unstored' <=> \E w \in Writer : pc'[w] = "allocated" /\ u \in batch'[w]
BY DEF Unstored

LEMMA InFlightIs ==
  \A u : u \in InFlight <=> \E w \in Writer : pc[w] \in {"allocated", "persisted", "failed"} /\ u \in batch[w]
BY DEF InFlight

LEMMA InFlightIsNext ==
  \A u : u \in InFlight' <=> \E w \in Writer : pc'[w] \in {"allocated", "persisted", "failed"} /\ u \in batch'[w]
BY DEF InFlight

LEMMA VersionsAre == \A H, n : n \in Versions(H) <=> \E u \in H : u.ver = n
BY DEF Versions

\* After Store.Initialize the monitor waits for the next row ID.
LEMMA PreviousIs ==
  ASSUME NEW n \in Nat
  PROVE  /\ PreviousVersionOf(n) \in Nat /\ (PreviousVersionOf(n) < n \/ PreviousVersionOf(n) = 0)
         /\ PreviousVersionOf(n) + 1 >= n
         /\ \A i \in Int : i < n => i <= PreviousVersionOf(n)
BY DEF PreviousVersionOf

LEMMA InitIInv == Init => IInv
<1> SUFFICES ASSUME Init PROVE IInv
  OBVIOUS
<1>1. MaxRows \in Nat \ {0} /\ MaxFaults \in Nat
  BY WatchAssumption
<1>2. rows \in [Key -> {0, NoRow}]
  <2>1. PICK k \in Key : rows = [j \in Key |-> IF Preloaded /\ j = k THEN 0 ELSE NoRow]
    BY DEF Init
  <2> QED BY <2>1
<1>3. nextRowID \in 0..1 /\ \A k \in Key : rows[k] < nextRowID
  <2>1. \A k \in Key : rows[k] \in Nat \cup {NoRow} /\ rows[k] < 1
    BY <1>2 DEF NoRow
  <2>2. nextRowID = NextRowIDOf(rows)
    BY Zenon DEF Init
  <2> QED BY <2>1, <2>2, NextRowIDIs
<1>4. prev = 0
  BY <1>3 DEF Init, PreviousVersionOf
<1>5. /\ held = [w \in Writer |-> {}] /\ pc = [w \in Writer |-> "idle"] /\ batch = [w \in Writer |-> {}]
      /\ heap = {} /\ dropped = {} /\ watcherLock = FALSE /\ conn = "down" /\ stream = <<>>
      /\ lastSerial = 0 /\ missed = 0 /\ received = {} /\ overtaken = FALSE /\ faults = 0
  BY DEF Init
<1>6. TypeOK
  <2>1. 0 \in Version
    BY <1>1 DEF Version
  <2>2. rows \in [Key -> Version \cup {NoRow}] /\ nextRowID \in 0..MaxRows
    BY <1>1, <1>2, <1>3, <2>1
  <2>3. stream \in Seq(Row)
    BY <1>5
  <2>4. /\ held \in [Writer -> SUBSET Key] /\ batch \in [Writer -> SUBSET Row]
        /\ pc \in [Writer -> {"idle", "locked", "allocated", "persisted", "failed"}]
    BY <1>5
  <2>5. /\ prev \in Version /\ heap \subseteq Row /\ dropped \subseteq Version /\ watcherLock \in BOOLEAN
        /\ conn \in {"down", "opening", "scanned", "abandoned", "listening"}
    BY <1>4, <1>5, <2>1
  <2>6. /\ lastSerial \in Version /\ missed \in Version \cup {Streaming}
        /\ received \subseteq Row /\ overtaken \in BOOLEAN
    BY <1>5, <2>1, Zenon
  <2>7. faults \in 0..MaxFaults
    BY <1>1, <1>5
  <2> QED BY <2>2, <2>3, <2>4, <2>5, <2>6, <2>7, Zenon DEF TypeOK
<1>7. (\A u : u \notin Unstored) /\ (\A w \in Writer : batch[w] = {})
  BY <1>5, UnstoredIs
<1>8. MonitorInv
  <2>1. Numbered
    BY <1>3, <1>4, <1>5, <1>7 DEF Numbered
  <2>2. NothingDropped
    BY <1>5 DEF NothingDropped
  <2>3. GapsAreInFlight
    <3>1. (prev + 1)..(nextRowID - 1) = {}
      BY <1>3, <1>4
    <3> QED BY <3>1 DEF GapsAreInFlight
  <2>4. Stored
    BY <1>2, <1>3, <1>4, <1>7 DEF Stored, Submittable, NoRow
  <2> QED BY <2>1, <2>2, <2>3, <2>4 DEF MonitorInv
<1>9. Lines
  <2>1. Len(stream) = 0 /\ ~Connected
    BY <1>5 DEF Connected
  <2>2. MarkerAt(0) /\ RowsBut(0) /\ PassedOn(0)
    BY <2>1 DEF MarkerAt, RowsBut, PassedOn
  <2> QED BY <1>5, <2>1, <2>2 DEF Lines
<1>10. Covered
  BY <1>5, <1>7, <1>9 DEF Covered, Later, Connected
<1>11. StableSerial
  BY <1>2, <1>5 DEF StableSerial, NoRow
<1> QED BY <1>6, <1>8, <1>9, <1>10, <1>11 DEF IInv
-----------------------------------------------------------------------------
(* What steps of different kinds leave alone *)

\* The number spaces, whatever happens.
LEMMA Types ==
  ASSUME IInv
  PROVE  /\ Version \subseteq Nat /\ MaxRows \in Nat \ {0} /\ \A n \in Nat : n < MaxRows <=> n \in Version
         /\ prev \in Nat /\ nextRowID \in Nat /\ lastSerial \in Nat /\ missed \in Nat \cup {-1}
         /\ \A k \in Key : rows[k] \in Int
         /\ \A w \in Writer : \A u \in batch[w] : u.ver \in Nat
         /\ \A u \in heap : u.ver \in Nat
         /\ \A i \in 1..Len(stream) : stream[i].ver \in Nat
         /\ Len(stream) \in Nat
<1>1. Version \subseteq Nat /\ MaxRows \in Nat \ {0} /\ \A n \in Nat : n < MaxRows <=> n \in Version
  BY WatchAssumption DEF Version
<1>2. \A u \in Row : u.ver \in Nat
  BY <1>1 DEF Row
<1>3. stream \in Seq(Row) /\ (\A w \in Writer : batch[w] \subseteq Row) /\ heap \subseteq Row
  BY DEF IInv, TypeOK
<1>4. \A k \in Key : rows[k] \in Int
  <2>1. rows \in [Key -> Version \cup {NoRow}] /\ NoRow \in Int
    BY DEF IInv, TypeOK, NoRow
  <2>2. Version \cup {NoRow} \subseteq Int
    BY <1>1, <2>1
  <2> QED BY <2>1, <2>2, Zenon
<1>5. prev \in Nat /\ nextRowID \in Nat /\ lastSerial \in Nat /\ missed \in Nat \cup {-1}
  BY <1>1 DEF IInv, TypeOK, Streaming
<1>6. Len(stream) \in Nat /\ \A i \in 1..Len(stream) : stream[i] \in Row
  BY <1>3
<1> QED BY <1>1, <1>2, <1>3, <1>4, <1>5, <1>6

\* Steps of the client, of a writer that takes its locks and of one whose
\* write fails do not matter to the monitor.
LEMMA MonitorQuiet ==
  ASSUME IInv, UNCHANGED <<rows, nextRowID, batch, prev, heap, dropped>>,
         \A w \in Writer : /\ pc'[w] \in {"idle", "locked"} => pc[w] \in {"idle", "locked"}
                           /\ pc'[w] = "allocated" => pc[w] = "allocated"
                           /\ pc[w] = "persisted" => pc'[w] = "persisted"
                           /\ pc[w] \in {"allocated", "persisted", "failed"} =>
                                pc'[w] \in {"allocated", "persisted", "failed"}
  PROVE  MonitorInv'
<1>1. Numbered /\ NothingDropped /\ GapsAreInFlight /\ Stored
  BY DEF IInv, MonitorInv
<1>2. Numbered'
  BY <1>1 DEF Numbered, Ahead, Versions
<1>3. NothingDropped'
  BY <1>1 DEF NothingDropped
<1>4. GapsAreInFlight'
  <2>1. \A u \in InFlight : u \in InFlight'
    BY InFlightIs, InFlightIsNext
  <2>2. \A n : n \in Versions(InFlight) => n \in Versions(InFlight')
    BY <2>1 DEF Versions
  <2>3. \A v \in (prev + 1)..(nextRowID - 1) : v \in Versions(heap) \cup Versions(InFlight)
    BY <1>1 DEF GapsAreInFlight
  <2>4. \A v \in (prev + 1)..(nextRowID - 1) : v \in Versions(heap) \cup Versions(InFlight')
    BY <2>2, <2>3
  <2>5. prev' = prev /\ nextRowID' = nextRowID /\ heap' = heap
    OBVIOUS
  <2>6. Versions(InFlight)' = Versions(InFlight') /\ Versions(heap)' = Versions(heap)
    BY <2>5 DEF Versions
  <2> HIDE DEF InFlight
  <2> QED BY <2>4, <2>5, <2>6 DEF GapsAreInFlight
<1>5. Stored'
  <2>1. \A u \in Unstored' : u \in Unstored
    BY UnstoredIs, UnstoredIsNext
  <2>2. Submittable'
    BY <1>1 DEF Stored, Submittable
  <2> QED BY <1>1, <2>1, <2>2 DEF Stored
<1> QED BY <1>2, <1>3, <1>4, <1>5 DEF MonitorInv

\* Neither do the writers matter to the client, until they submit: what they
\* store is above all that the client has reached.
LEMMA ClientQuiet ==
  ASSUME IInv, UNCHANGED <<clientVars, watcherLock, prev>>,
         nextRowID' \in Nat, nextRowID' >= nextRowID,
         \A w \in Writer : \A u \in batch'[w] : u \in batch[w] \/ (u.ver \in Nat /\ u.ver >= nextRowID),
         \A u \in Unstored' : u \in Unstored \/ (u.ver \in Nat /\ u.ver >= nextRowID),
         \A k \in Key : rows'[k] = rows[k] \/ rows'[k] = NoRow \/ \E u \in Unstored : u.ver = rows'[k]
  PROVE  Lines' /\ Covered' /\ StableSerial'
<1>1. UNCHANGED <<conn, stream, lastSerial, missed, received, overtaken>>
  BY DEF clientVars
<1>2. Lines'
  <2>1. PICK m \in 0..Len(stream) : MarkerAt(m) /\ RowsBut(m) /\ PassedOn(m)
    BY DEF IInv, Lines
  <2>2. MarkerAt(m)'
    BY <1>1, <2>1 DEF MarkerAt, Connected
  <2>3. RowsBut(m)'
    BY <1>1, <2>1, Types DEF RowsBut
  <2>4. PassedOn(m)'
    <3>1. ASSUME NEW i \in 1..Len(stream), m < i, stream[i].ver = 0, NEW w \in Writer
          PROVE  \A u \in batch'[w] : u.ver # 0
      <4>1. 0 < nextRowID
        BY <2>1, <3>1 DEF RowsBut
      <4>2. \A u \in batch[w] : u.ver # 0
        BY <2>1, <3>1 DEF PassedOn, Versions
      <4> QED BY <4>1, <4>2, Types
    <3>2. \A i \in 1..Len(stream) : m < i /\ stream[i].ver = 0 => \A w \in Writer : 0 \notin Versions(batch'[w])
      BY <3>1 DEF Versions
    <3> QED BY <1>1, <2>1, <3>2 DEF PassedOn
  <2>5. watcherLock' = watcherLock
    OBVIOUS
  <2>6. (~Connected)' <=> ~Connected
    BY <1>1 DEF Connected
  <2> QED BY <1>1, <2>1, <2>2, <2>3, <2>4, <2>5, <2>6 DEF IInv, Lines
<1>3. ASSUME NEW n \in Nat, Later(n) PROVE Later(n)'
  BY <1>3, Types DEF Later
<1>4. \A u \in Unstored : u.ver \in Nat /\ Ahead(u.ver)
  BY UnstoredIs, Types DEF IInv, MonitorInv, Numbered
<1>5. Covered'
  <2> SUFFICES ASSUME ~overtaken PROVE Covered'
    BY <1>1 DEF Covered
  <2>1. Later(lastSerial)
    BY DEF IInv, Covered
  <2>2. Later(lastSerial)'
    BY <2>1, <1>1, <1>3, Types DEF Later
  <2>3. ASSUME NEW m \in 0..Len(stream), Connected, MarkerAt(m), m > 0
        PROVE  /\ Later(missed)'
               /\ \A i \in 1..Len(stream) : i < m => Later(stream[i].ver)'
               /\ \A k \in Key : rows'[k] > lastSerial => Catching(k, m)'
    <3>1. /\ Later(missed)
          /\ \A i \in 1..Len(stream) : i < m => Later(stream[i].ver)
          /\ \A k \in Key : rows[k] > lastSerial => Catching(k, m)
      BY <2>3 DEF IInv, Covered
    <3>2. missed \in Nat
      BY <2>3, Types DEF MarkerAt, Streaming
    <3>3. Later(missed)'
      BY <1>1, <1>3, <3>1, <3>2 DEF Later
    <3>4. ASSUME NEW i \in 1..Len(stream), i < m PROVE Later(stream[i].ver)'
      BY <1>1, <1>3, <3>1, <3>4, Types DEF Later
    <3>5. ASSUME NEW k \in Key, rows'[k] > lastSerial PROVE Catching(k, m)'
      <4>1. CASE rows'[k] = rows[k]
        <5>1. Catching(k, m)
          BY <3>1, <3>5, <4>1
        <5> QED BY <1>1, <4>1, <5>1 DEF Catching, Sending
      <4>2. CASE \E u \in Unstored : u.ver = rows'[k]
        <5>1. PICK u \in Unstored : u.ver = rows'[k]
          BY <4>2
        <5>2. u.ver \in Nat /\ u.ver # 0
          BY <1>4, <3>5, <5>1, Types
        <5>3. u.ver > missed /\ (\A i \in 1..Len(stream) : i < m => u.ver > stream[i].ver) /\ u.ver > prev
          BY <1>4, <3>1, <5>2 DEF Later, Ahead
        <5> QED BY <1>1, <5>1, <5>3 DEF Catching, Sending
      <4>3. CASE rows'[k] = NoRow
        BY <3>5, <4>3, Types DEF NoRow
      <4> QED BY <4>1, <4>2, <4>3
    <3> QED BY <3>3, <3>4, <3>5
  <2>4. ASSUME NEW m \in 0..Len(stream), Connected, MarkerAt(m), m = 0, NEW k \in Key, rows'[k] > lastSerial
        PROVE  Sending(k, m)'
    <3>1. CASE rows'[k] = rows[k]
      <4>1. Sending(k, m)
        BY <2>4, <3>1 DEF IInv, Covered
      <4> QED BY <1>1, <3>1, <4>1 DEF Sending
    <3>2. CASE \E u \in Unstored : u.ver = rows'[k]
      <4>1. rows'[k] > prev
        BY <1>4, <2>4, <3>2, Types DEF Ahead
      <4> QED BY <4>1 DEF Sending
    <3>3. CASE rows'[k] = NoRow
      BY <2>4, <3>3, Types DEF NoRow
    <3> QED BY <3>1, <3>2, <3>3
  <2>5. \A m : MarkerAt(m)' <=> MarkerAt(m)
    BY <1>1 DEF MarkerAt, Connected
  <2>6. Connected' <=> Connected
    BY <1>1 DEF Connected
  <2> QED BY <1>1, <2>2, <2>3, <2>4, <2>5, <2>6 DEF Covered
<1>6. StableSerial'
  <2> SUFFICES ASSUME ~overtaken, NEW k \in Key, 0 < rows'[k], rows'[k] <= lastSerial
               PROVE  [ver |-> rows'[k], key |-> k] \in received
    BY <1>1 DEF StableSerial
  <2>1. CASE rows'[k] = rows[k]
    BY <2>1 DEF IInv, StableSerial
  <2>2. CASE \E u \in Unstored : u.ver = rows'[k]
    <3>1. Later(lastSerial)
      BY DEF IInv, Covered
    <3> QED BY <1>4, <2>2, <3>1, Types DEF Later
  <2>3. CASE rows'[k] = NoRow
    BY <2>3 DEF NoRow
  <2> QED BY <2>1, <2>2, <2>3
<1> QED BY <1>2, <1>5, <1>6
-----------------------------------------------------------------------------
(* The write path, up to the storage batch *)

LEMMA LockKeysStep ==
  ASSUME IInv, NEW w \in Writer, NEW K \in SUBSET Key, LockKeys(w, K)
  PROVE  IInv'
<1>1. /\ pc[w] = "idle" /\ pc' = [pc EXCEPT ![w] = "locked"] /\ held' = [held EXCEPT ![w] = K]
      /\ UNCHANGED <<rows, nextRowID, batch, prev, heap, dropped, watcherLock, clientVars, faults>>
  BY DEF LockKeys, monitorVars
<1>2. /\ UNCHANGED <<conn, stream, lastSerial, missed, received, overtaken>>
      /\ pc \in [Writer -> {"idle", "locked", "allocated", "persisted", "failed"}]
  BY <1>1 DEF clientVars, IInv, TypeOK
<1>3. TypeOK'
  BY <1>1, <1>2 DEF IInv, TypeOK
<1>4. MonitorInv'
  <2>1. \A x \in Writer : x # w => pc'[x] = pc[x]
    BY <1>1, <1>2
  <2>2. pc'[w] = "locked"
    BY <1>1, <1>2
  <2> QED BY <1>1, <2>1, <2>2, MonitorQuiet
<1>5. \A u \in Unstored' : u \in Unstored
  BY <1>1, <1>2, UnstoredIs, UnstoredIsNext
<1>6. Lines' /\ Covered' /\ StableSerial'
  BY <1>1, <1>5, ClientQuiet, Types
<1> QED BY <1>3, <1>4, <1>6 DEF IInv

LEMMA StorageErrorStep ==
  ASSUME IInv, NEW w \in Writer, StorageError(w)
  PROVE  IInv'
<1>1. /\ pc[w] = "allocated" /\ pc' = [pc EXCEPT ![w] = "failed"]
      /\ UNCHANGED <<rows, nextRowID, held, batch, prev, heap, dropped, watcherLock, clientVars, faults>>
  BY DEF StorageError, monitorVars
<1>2. /\ UNCHANGED <<conn, stream, lastSerial, missed, received, overtaken>>
      /\ pc \in [Writer -> {"idle", "locked", "allocated", "persisted", "failed"}]
  BY <1>1 DEF clientVars, IInv, TypeOK
<1>3. TypeOK'
  BY <1>1, <1>2 DEF IInv, TypeOK
<1>4. MonitorInv'
  <2>1. \A x \in Writer : x # w => pc'[x] = pc[x]
    BY <1>1, <1>2
  <2>2. pc'[w] = "failed"
    BY <1>1, <1>2
  <2> QED BY <1>1, <2>1, <2>2, MonitorQuiet
<1>5. \A u \in Unstored' : u \in Unstored
  BY <1>1, <1>2, UnstoredIs, UnstoredIsNext
<1>6. Lines' /\ Covered' /\ StableSerial'
  BY <1>1, <1>5, ClientQuiet, Types
<1> QED BY <1>3, <1>4, <1>6 DEF IInv

\* The new row IDs are consecutive and above all others.
LEMMA AllocateStep ==
  ASSUME IInv, NEW w \in Writer, Allocate(w)
  PROVE  IInv'
<1>1. /\ pc[w] = "locked" /\ pc' = [pc EXCEPT ![w] = "allocated"]
      /\ UNCHANGED <<rows, held, prev, heap, dropped, watcherLock, clientVars, faults>>
  BY DEF Allocate, monitorVars
<1>2. /\ UNCHANGED <<conn, stream, lastSerial, missed, received, overtaken>>
      /\ pc \in [Writer -> {"idle", "locked", "allocated", "persisted", "failed"}]
      /\ held \in [Writer -> SUBSET Key] /\ batch \in [Writer -> SUBSET Row]
      /\ nextRowID \in Nat
  BY <1>1, Types DEF clientVars, IInv, TypeOK
<1>3. PICK U \in SUBSET held[w] :
        /\ nextRowID + Cardinality(U) <= MaxRows /\ nextRowID' = nextRowID + Cardinality(U)
        /\ \E f \in Bijection(U, nextRowID..(nextRowID + Cardinality(U) - 1)) :
             batch' = [batch EXCEPT ![w] = {[ver |-> f[k], key |-> k] : k \in U}]
  BY DEF Allocate
<1> DEFINE n == Cardinality(U)
<1>4. n \in Nat /\ U \subseteq Key
  <2>1. U \in SUBSET Key
    BY <1>2
  <2>2. IsFiniteSet(U)
    BY <2>1, FS_Subset, WatchAssumption
  <2> QED BY <2>1, <2>2, FS_CardinalityType
<1>5. PICK f \in Bijection(U, nextRowID..(nextRowID + n - 1)) :
        batch' = [batch EXCEPT ![w] = {[ver |-> f[k], key |-> k] : k \in U}]
  BY <1>3
<1> HIDE DEF n
<1>6. /\ \A k \in U : f[k] \in Nat /\ f[k] >= nextRowID /\ f[k] < nextRowID + n
      /\ \A k, j \in U : f[k] = f[j] => k = j
      /\ \A i \in nextRowID..(nextRowID + n - 1) : \E k \in U : f[k] = i
  BY <1>2, <1>4, <1>5 DEF Bijection, Injection, Surjection, IsInjective
<1>7. nextRowID' = nextRowID + n /\ nextRowID + n <= MaxRows
  BY <1>3 DEF n
<1>8. /\ batch'[w] = {[ver |-> f[k], key |-> k] : k \in U}
      /\ \A x \in Writer : x # w => batch'[x] = batch[x] /\ pc'[x] = pc[x]
      /\ pc'[w] = "allocated"
  BY <1>1, <1>2, <1>5
<1>9. \A u \in batch'[w] : u.key \in U /\ u = [ver |-> f[u.key], key |-> u.key] /\ u.ver = f[u.key]
  BY <1>8
<1>10. batch[w] = {}
  BY <1>1 DEF IInv, MonitorInv, Numbered
<1>11. TypeOK'
  <2>1. \A k \in U : [ver |-> f[k], key |-> k] \in Row
    BY <1>4, <1>6, <1>7, Types DEF Row
  <2>2. batch' \in [Writer -> SUBSET Row]
    BY <1>2, <1>5, <2>1
  <2>3. nextRowID' \in 0..MaxRows
    BY <1>2, <1>4, <1>7, WatchAssumption
  <2>4. pc' \in [Writer -> {"idle", "locked", "allocated", "persisted", "failed"}]
    BY <1>1, <1>2
  <2> QED BY <1>1, <1>2, <2>2, <2>3, <2>4 DEF IInv, TypeOK
<1>12. /\ \A x \in Writer : \A u \in batch'[x] :
            (x # w /\ u \in batch[x]) \/ (x = w /\ u.ver \in Nat /\ u.ver >= nextRowID)
       /\ \A u \in Unstored' : u \in Unstored \/ (u.ver \in Nat /\ u.ver >= nextRowID)
  <2>1. \A x \in Writer : \A u \in batch'[x] :
            (x # w /\ u \in batch[x]) \/ (x = w /\ u.ver \in Nat /\ u.ver >= nextRowID)
    BY <1>6, <1>8, <1>9
  <2> QED BY <1>8, <2>1, UnstoredIs, UnstoredIsNext
<1>13. MonitorInv'
  <2>1. Numbered'
    <3>1. Numbered
      BY DEF IInv, MonitorInv
    <3>2. ASSUME NEW x \in Writer, NEW u \in batch'[x]
          PROVE  /\ u.key \in Key /\ u.ver < nextRowID' /\ u.ver \notin Versions(heap)
                 /\ u.ver > prev \/ u.ver = 0
      <4>1. CASE x = w
        <5>1. u.key \in U /\ u.ver = f[u.key]
          BY <1>9, <4>1
        <5>2. u.ver \in Nat /\ u.ver >= nextRowID /\ u.ver < nextRowID'
          BY <5>1, <1>6, <1>7
        <5>3. u.ver > prev \/ u.ver = 0
          BY <3>1, <5>2, Types DEF Numbered
        <5>4. u.ver \notin Versions(heap)
          BY <3>1, <5>2, Types, VersionsAre DEF Numbered
        <5> QED BY <1>4, <5>1, <5>2, <5>3, <5>4
      <4>2. CASE x # w
        BY <1>2, <1>4, <1>7, <1>8, <3>1, <4>2, Types DEF Numbered, Ahead
      <4> QED BY <4>1, <4>2
    <3>3. ASSUME NEW x \in Writer, NEW y \in Writer, NEW u \in batch'[x], NEW v \in batch'[y], u.ver = v.ver
          PROVE  x = y /\ u = v
      <4>1. CASE x = w /\ y = w
        BY <1>6, <1>9, <3>3, <4>1
      <4>2. CASE x # w /\ y # w
        BY <1>8, <3>1, <3>3, <4>2 DEF Numbered
      <4>3. CASE x = w /\ y # w
        BY <1>8, <1>12, <3>1, <3>3, <4>3, Types DEF Numbered
      <4>4. CASE x # w /\ y = w
        BY <1>8, <1>12, <3>1, <3>3, <4>4, Types DEF Numbered
      <4> QED BY <4>1, <4>2, <4>3, <4>4
    <3>4. \A x \in Writer : pc'[x] \in {"idle", "locked"} => batch'[x] = {}
      BY <1>8, <3>1 DEF Numbered
    <3>5. prev' < nextRowID' \/ prev' = 0
      BY <1>1, <1>2, <1>4, <1>7, <3>1, Types DEF Numbered
    <3>6. \A u \in heap : u.ver < nextRowID'
      BY <1>2, <1>4, <1>7, <3>1, Types DEF Numbered
    <3>7. prev' = prev /\ heap' = heap /\ Versions(heap)' = Versions(heap)
      BY <1>1 DEF Versions
    <3> QED BY <3>1, <3>2, <3>3, <3>4, <3>5, <3>6, <3>7 DEF Numbered, Ahead
  <2>2. NothingDropped'
    BY <1>1 DEF IInv, MonitorInv, NothingDropped
  <2>3. GapsAreInFlight'
    <3> SUFFICES ASSUME NEW v \in (prev + 1)..(nextRowID' - 1)
                 PROVE  v \in Versions(heap) \/ \E u \in InFlight' : u.ver = v
      BY <1>1 DEF GapsAreInFlight, Versions
    <3>1. CASE v < nextRowID
      <4>1. v \in (prev + 1)..(nextRowID - 1)
        BY <3>1, <1>2, <1>7, <1>4, Types
      <4>2. v \in Versions(heap) \/ \E u \in InFlight : u.ver = v
        BY <4>1, VersionsAre DEF IInv, MonitorInv, GapsAreInFlight
      <4>3. \A u \in InFlight : u \in InFlight'
        BY <1>1, <1>8, InFlightIs, InFlightIsNext
      <4> QED BY <4>2, <4>3
    <3>2. CASE ~(v < nextRowID)
      <4>1. v \in nextRowID..(nextRowID + n - 1)
        BY <3>2, <1>2, <1>4, <1>7, Types
      <4>2. PICK k \in U : f[k] = v
        BY <4>1, <1>6
      <4>3. [ver |-> f[k], key |-> k] \in InFlight'
        BY <1>8, InFlightIsNext
      <4> QED BY <4>2, <4>3
    <3> QED BY <3>1, <3>2
  <2>4. Stored'
    <3>1. /\ \A k \in Key : rows[k] \in Int /\ rows[k] < nextRowID
          /\ \A k \in Key : \A u \in Unstored : rows[k] # u.ver
          /\ Submittable
      BY Types DEF IInv, MonitorInv, Stored
    <3>2. \A k \in Key : rows'[k] < nextRowID'
      BY <1>1, <1>2, <1>4, <1>7, <3>1
    <3>3. \A k \in Key : \A u \in Unstored' : rows'[k] # u.ver
      BY <1>1, <1>2, <1>12, <3>1
    <3>4. Submittable'
      BY <1>1, <1>8, <3>1 DEF Submittable
    <3> QED BY <3>2, <3>3, <3>4 DEF Stored
  <2> QED BY <2>1, <2>2, <2>3, <2>4 DEF MonitorInv
<1>14. Lines' /\ Covered' /\ StableSerial'
  <2>1. UNCHANGED <<clientVars, watcherLock, prev>> /\ nextRowID' \in Nat /\ nextRowID' >= nextRowID
    BY <1>1, <1>2, <1>4, <1>7
  <2>2. \A x \in Writer : \A u \in batch'[x] : u \in batch[x] \/ (u.ver \in Nat /\ u.ver >= nextRowID)
    BY <1>12
  <2>3. \A k \in Key : rows'[k] = rows[k]
    BY <1>1
  <2> QED BY <1>12, <2>1, <2>2, <2>3, ClientQuiet
<1> QED BY <1>11, <1>13, <1>14 DEF IInv

LEMMA PersistStep ==
  ASSUME IInv, NEW w \in Writer, Persist(w)
  PROVE  IInv'
<1>1. /\ pc[w] = "allocated" /\ pc' = [pc EXCEPT ![w] = "persisted"]
      /\ rows' = [k \in Key |-> IF \E u \in batch[w] : u.key = k
                                THEN (CHOOSE u \in batch[w] : u.key = k).ver ELSE rows[k]]
      /\ UNCHANGED <<nextRowID, held, batch, prev, heap, dropped, watcherLock, clientVars, faults>>
  BY DEF Persist, monitorVars
<1>2. /\ UNCHANGED <<conn, stream, lastSerial, missed, received, overtaken>>
      /\ pc \in [Writer -> {"idle", "locked", "allocated", "persisted", "failed"}]
      /\ rows \in [Key -> Version \cup {NoRow}] /\ batch[w] \subseteq Row
  BY <1>1 DEF clientVars, IInv, TypeOK
<1>3. \A k \in Key : \/ rows'[k] = rows[k]
                     \/ \E u \in batch[w] : u = [ver |-> rows'[k], key |-> k]
  <2> SUFFICES ASSUME NEW k \in Key, rows'[k] # rows[k]
               PROVE  \E u \in batch[w] : u = [ver |-> rows'[k], key |-> k]
    OBVIOUS
  <2> DEFINE x == CHOOSE u \in batch[w] : u.key = k
  <2>1. \E u \in batch[w] : u.key = k
    BY <1>1
  <2>2. x \in batch[w] /\ x.key = k
    BY <2>1, Zenon
  <2>3. rows'[k] = x.ver
    BY <1>1, <2>1
  <2> HIDE DEF x
  <2>4. x = [ver |-> x.ver, key |-> x.key]
    BY <1>2, <2>2 DEF Row
  <2> QED BY <2>2, <2>3, <2>4
<1>4. /\ pc'[w] = "persisted" /\ \A x \in Writer : x # w => pc'[x] = pc[x]
      /\ batch' = batch
  BY <1>1, <1>2
<1>5. \A u \in batch[w] : u \in Unstored /\ u.ver \in Version
  BY <1>1, <1>2, UnstoredIs DEF Row
<1>6. TypeOK'
  <2>1. \A k \in Key : rows'[k] \in Version \cup {NoRow}
    <3> SUFFICES ASSUME NEW k \in Key PROVE rows'[k] \in Version \cup {NoRow}
      OBVIOUS
    <3>1. CASE rows'[k] = rows[k]
      BY <1>2, <3>1, Zenon
    <3>2. CASE \E u \in batch[w] : u = [ver |-> rows'[k], key |-> k]
      BY <1>5, <3>2
    <3> QED BY <1>3, <3>1, <3>2
  <2>2. rows' = [k \in Key |-> rows'[k]]
    BY <1>1, Zenon
  <2>3. rows' \in [Key -> Version \cup {NoRow}]
    BY <2>1, <2>2, Zenon
  <2>4. pc' \in [Writer -> {"idle", "locked", "allocated", "persisted", "failed"}]
    BY <1>1, <1>2
  <2> QED BY <1>1, <1>2, <2>3, <2>4 DEF IInv, TypeOK
<1>7. Numbered /\ NothingDropped /\ GapsAreInFlight /\ Stored
  BY DEF IInv, MonitorInv
<1>8. MonitorInv'
  <2>1. Numbered'
    BY <1>1, <1>4, <1>7 DEF Numbered, Ahead, Versions
  <2>2. NothingDropped'
    BY <1>1, <1>7 DEF NothingDropped
  <2>3. GapsAreInFlight'
    <3>1. \A u \in InFlight : u \in InFlight'
      BY <1>1, <1>4, InFlightIs, InFlightIsNext
    <3> SUFFICES ASSUME NEW v \in (prev + 1)..(nextRowID - 1)
                 PROVE  v \in Versions(heap) \/ \E u \in InFlight' : u.ver = v
      BY <1>1 DEF GapsAreInFlight, Versions
    <3>2. v \in Versions(heap) \/ \E u \in InFlight : u.ver = v
      BY <1>7, VersionsAre DEF GapsAreInFlight
    <3> QED BY <3>1, <3>2
  <2>4. Stored'
    <3>1. \A u \in Unstored' : u \in Unstored /\ \A v \in batch[w] : v.ver # u.ver
      BY <1>4, <1>7, UnstoredIs, UnstoredIsNext DEF Numbered
    <3>2. ASSUME NEW k \in Key
          PROVE  /\ rows'[k] < nextRowID
                 /\ \A u \in Unstored' : rows'[k] # u.ver
                 /\ rows'[k] > prev =>
                      \/ [ver |-> rows'[k], key |-> k] \in heap
                      \/ \E x \in Writer : pc'[x] = "persisted" /\ [ver |-> rows'[k], key |-> k] \in batch[x]
      <4>1. CASE rows'[k] = rows[k]
        BY <1>1, <1>4, <1>7, <3>1, <4>1 DEF Stored, Submittable
      <4>2. CASE \E u \in batch[w] : u = [ver |-> rows'[k], key |-> k]
        <5>1. PICK u \in batch[w] : u = [ver |-> rows'[k], key |-> k]
          BY <4>2
        <5>2. u.ver = rows'[k]
          BY <5>1
        <5> QED BY <1>4, <1>7, <3>1, <5>1, <5>2 DEF Numbered
      <4> QED BY <1>3, <4>1, <4>2
    <3> QED BY <1>1, <1>4, <3>2 DEF Stored, Submittable
  <2> QED BY <2>1, <2>2, <2>3, <2>4 DEF MonitorInv
<1>9. Lines' /\ Covered' /\ StableSerial'
  <2>1. \A k \in Key : rows'[k] = rows[k] \/ \E u \in Unstored : u.ver = rows'[k]
    BY <1>3, <1>5
  <2>2. \A u \in Unstored' : u \in Unstored
    BY <1>4, UnstoredIs, UnstoredIsNext
  <2> QED BY <1>1, <2>1, <2>2, ClientQuiet, Types
<1> QED BY <1>6, <1>8, <1>9 DEF IInv

LEMMA ForgetStep ==
  ASSUME IInv, NEW k \in Key, Forget(k)
  PROVE  IInv'
<1>1. /\ rows' = [rows EXCEPT ![k] = NoRow] /\ faults < MaxFaults /\ faults' = faults + 1
      /\ UNCHANGED <<nextRowID, held, pc, batch, prev, heap, dropped, watcherLock, clientVars>>
  BY DEF Forget, Fault, monitorVars
<1>2. /\ UNCHANGED <<conn, stream, lastSerial, missed, received, overtaken>>
      /\ rows \in [Key -> Version \cup {NoRow}]
  BY <1>1 DEF clientVars, IInv, TypeOK
<1>3. \A j \in Key : rows'[j] = IF j = k THEN NoRow ELSE rows[j]
  BY <1>1, <1>2
<1>4. TypeOK'
  <2>1. rows' \in [Key -> Version \cup {NoRow}]
    BY <1>1, <1>2
  <2>2. faults' \in 0..MaxFaults
    BY <1>1, WatchAssumption DEF IInv, TypeOK
  <2> QED BY <1>1, <1>2, <2>1, <2>2 DEF IInv, TypeOK
<1>5. Numbered /\ NothingDropped /\ GapsAreInFlight /\ Stored
  BY DEF IInv, MonitorInv
<1>6. (\A u : u \in Unstored' <=> u \in Unstored) /\ (\A u : u \in InFlight' <=> u \in InFlight)
  BY <1>1, UnstoredIs, UnstoredIsNext, InFlightIs, InFlightIsNext
<1>7. MonitorInv'
  <2>1. Numbered' /\ NothingDropped'
    BY <1>1, <1>5 DEF Numbered, NothingDropped, Ahead, Versions
  <2>2. GapsAreInFlight'
    <3> SUFFICES ASSUME NEW v \in (prev + 1)..(nextRowID - 1)
                 PROVE  v \in Versions(heap) \/ \E u \in InFlight' : u.ver = v
      BY <1>1 DEF GapsAreInFlight, Versions
    <3>1. v \in Versions(heap) \/ \E u \in InFlight : u.ver = v
      BY <1>5, VersionsAre DEF GapsAreInFlight
    <3> QED BY <1>6, <3>1
  <2>3. Stored'
    <3>1. \A u \in Unstored : u.ver \in Nat
      BY UnstoredIs, Types
    <3>2. \A j \in Key : rows'[j] < nextRowID /\ \A u \in Unstored : rows'[j] # u.ver
      BY <1>3, <1>5, <3>1, Types DEF Stored, NoRow
    <3>3. Submittable'
      <4> SUFFICES ASSUME NEW j \in Key, rows'[j] > prev
                   PROVE  \/ [ver |-> rows'[j], key |-> j] \in heap
                          \/ \E w \in Writer : pc[w] = "persisted" /\ [ver |-> rows'[j], key |-> j] \in batch[w]
        BY <1>1 DEF Submittable
      <4>1. rows'[j] = rows[j]
        BY <1>3, Types DEF NoRow
      <4> QED BY <1>5, <4>1 DEF Stored, Submittable
    <3> QED BY <1>1, <1>6, <3>2, <3>3 DEF Stored
  <2> QED BY <2>1, <2>2, <2>3 DEF MonitorInv
<1>8. Lines' /\ Covered' /\ StableSerial'
  BY <1>1, <1>3, <1>6, ClientQuiet, Types
<1> QED BY <1>4, <1>7, <1>8 DEF IInv
-----------------------------------------------------------------------------
(* Submission to the monitor *)

\* What notifyWatchers and discardIDRange submit for writer w.
Submission(w, U) ==
  /\ U \subseteq Row /\ Versions(U) = Versions(batch[w])
  /\ \A u, v \in U : u.ver = v.ver => u = v
  /\ \/ pc[w] = "persisted" /\ U = batch[w]
     \/ pc[w] = "failed" /\ \A u \in U : u.key = NoKey

SentRows(U) == {u \in Submitted(prev, heap, U) : u.ver <= NewPrevious(prev, heap, U) /\ u.key # NoKey}

\* The monitor accepts all versions but 0, of which it accepts what is still
\* in time, and passes on all versions up to the first gap.
LEMMA SubmittedIs ==
  ASSUME IInv, NEW w \in Writer, NEW U, Submission(w, U)
  PROVE  LET H == Submitted(prev, heap, U)
             p == NewPrevious(prev, heap, U)
         IN  /\ H \subseteq Row /\ heap \subseteq H
             /\ \A u \in H : u.ver \in Nat /\ u.ver < nextRowID /\ u.ver \in Version
             /\ \A u \in H : u \in heap \/ u \in U
             /\ \A u \in H : u.ver > prev \/ (prev = 0 /\ u.ver = 0 /\ u \in U)
             /\ \A u \in U : u \in H \/ u.ver = 0
             /\ \A u, v \in H : u.ver = v.ver => u = v
             /\ p \in Nat /\ p \in Version /\ p >= prev /\ (p < nextRowID \/ p = 0)
             /\ \A n \in Nat : n > prev /\ n <= p => \E u \in H : u.ver = n
<1> DEFINE H == Submitted(prev, heap, U)
           p == NewPrevious(prev, heap, U)
<1>1. Numbered /\ heap \subseteq Row
  BY DEF IInv, MonitorInv, TypeOK
<1>2. \A u \in U : \E v \in batch[w] : v.ver = u.ver
  BY VersionsAre DEF Submission
<1>3. \A u \in U : /\ u \in Row /\ u.ver \in Nat /\ u.ver < nextRowID /\ (u.ver > prev \/ u.ver = 0)
                   /\ u.ver \notin Versions(heap)
  BY <1>1, <1>2, Types DEF Numbered, Ahead, Submission
<1>4. \A u : u \in H <=> u \in heap \/ (u \in U /\ Accepts(prev, u))
  BY DEF Submitted
<1> HIDE DEF H
<1>5. /\ H \subseteq Row /\ heap \subseteq H
      /\ \A u \in H : u \in heap \/ u \in U
  BY <1>1, <1>3, <1>4
<1>6. \A u \in H : u.ver \in Nat /\ u.ver < nextRowID
  BY <1>1, <1>3, <1>4, Types DEF Numbered
<1>7. \A u \in H : u.ver \in Version
  BY <1>5 DEF Row
<1>8. \A u \in H : u.ver > prev \/ (prev = 0 /\ u.ver = 0 /\ u \in U)
  BY <1>1, <1>4 DEF Numbered, Accepts
<1>9. \A u \in U : u \in H \/ u.ver = 0
  BY <1>3, <1>4 DEF Accepts
<1>10. ASSUME NEW u \in H, NEW v \in H, u.ver = v.ver PROVE u = v
  <2>1. CASE u \in heap /\ v \in heap
    BY <1>1, <1>10, <2>1 DEF Numbered
  <2>2. CASE u \in U /\ v \in U
    BY <1>10, <2>2 DEF Submission
  <2>3. CASE u \in heap /\ v \in U
    BY <1>3, <1>10, <2>3, VersionsAre
  <2>4. CASE u \in U /\ v \in heap
    BY <1>3, <1>10, <2>4, VersionsAre
  <2> QED BY <1>5, <2>1, <2>2, <2>3, <2>4
<1>11. p \in {prev} \cup Versions(H) /\ p >= prev /\ (prev + 1)..p \subseteq Versions(H)
  <2>1. Versions(H) \subseteq Nat /\ \A n \in Versions(H) : n <= nextRowID
    BY <1>6, VersionsAre, Types
  <2>2. p = FlushedTo(prev, H)
    BY Zenon DEF NewPrevious, H
  <2> HIDE DEF p
  <2> QED BY <2>1, <2>2, FlushedIs, Types
<1> HIDE DEF p
<1>12. p \in Nat /\ p \in Version /\ (p < nextRowID \/ p = 0)
  <2>1. CASE p = prev
    BY <1>1, <2>1, Types DEF Numbered, IInv, TypeOK
  <2>2. CASE p \in Versions(H)
    BY <1>6, <1>7, <2>2, VersionsAre
  <2> QED BY <1>11, <2>1, <2>2
<1>13. \A n \in Nat : n > prev /\ n <= p => \E u \in H : u.ver = n
  BY <1>11, <1>12, VersionsAre, Types
<1> QED BY <1>5, <1>6, <1>7, <1>8, <1>9, <1>10, <1>11, <1>12, <1>13 DEF H, p

\* What the listener is sent is in order.
LEMMA SentIs ==
  ASSUME IInv, NEW w \in Writer, NEW U, Submission(w, U)
  PROVE  LET q == Sent(prev, heap, U)
         IN  /\ q \in Seq(Row) /\ Len(q) \in Nat
             /\ \A i \in 1..Len(q) : q[i] \in SentRows(U)
             /\ \A i, j \in 1..Len(q) : i < j => q[i].ver < q[j].ver
             /\ \A u \in SentRows(U) : \E i \in 1..Len(q) : q[i] = u
<1> DEFINE S == SentRows(U)
           q == Sent(prev, heap, U)
<1>1. /\ S \subseteq Row /\ \A u \in S : u.ver \in Nat /\ u.ver <= nextRowID
      /\ \A u, v \in S : u.ver = v.ver => u = v
  BY SubmittedIs, Types DEF SentRows
<1>2. q = InOrder(S)
  BY Zenon DEF Sent, SentRows
<1> HIDE DEF S, q
<1>3. IsFiniteSet(S)
  <2> DEFINE f == [u \in S |-> u.ver]
  <2>1. f \in [S -> 0..nextRowID]
    BY <1>1, Types
  <2>2. IsInjective(f)
    BY <1>1 DEF IsInjective
  <2>3. f \in Injection(S, 0..nextRowID)
    BY <2>1, <2>2 DEF Injection
  <2>4. IsFiniteSet(0..nextRowID)
    BY FS_Interval, Types
  <2> QED BY <2>3, <2>4, FS_Injection
<1>4. /\ q \in Seq(S)
      /\ \A i, j \in 1..Len(q) : i < j => q[i].ver < q[j].ver
      /\ \A u \in S : \E i \in 1..Len(q) : q[i] = u
  BY <1>1, <1>2, <1>3, InOrderIs
<1>5. Len(q) \in Nat /\ \A i \in 1..Len(q) : q[i] \in S
  BY <1>4
<1>6. q \in Seq(Row)
  BY <1>1, <1>4, <1>5
<1> QED BY <1>4, <1>5, <1>6 DEF S, q

LEMMA FinishMonitor ==
  ASSUME IInv, NEW w \in Writer, NEW U, Submission(w, U), Finish(w, U)
  PROVE  MonitorInv'
<1> DEFINE H == Submitted(prev, heap, U)
           p == NewPrevious(prev, heap, U)
<1>1. /\ H \subseteq Row /\ heap \subseteq H
      /\ \A u \in H : u.ver \in Nat /\ u.ver < nextRowID /\ u.ver \in Version
      /\ \A u \in H : u \in heap \/ u \in U
      /\ \A u \in H : u.ver > prev \/ (prev = 0 /\ u.ver = 0 /\ u \in U)
      /\ \A u \in U : u \in H \/ u.ver = 0
      /\ \A u, v \in H : u.ver = v.ver => u = v
      /\ p \in Nat /\ p \in Version /\ p >= prev /\ (p < nextRowID \/ p = 0)
      /\ \A n \in Nat : n > prev /\ n <= p => \E u \in H : u.ver = n
  BY SubmittedIs
<1>2. /\ prev' = p /\ heap' = {u \in H : u.ver > p}
      /\ dropped' = dropped \cup {u.ver : u \in {v \in U : ~Accepts(prev, v)}}
      /\ UNCHANGED <<rows, nextRowID>>
      /\ pc' = [pc EXCEPT ![w] = "idle"] /\ batch' = [batch EXCEPT ![w] = {}]
  BY Zenon DEF Finish, SubmitUpdates, NewHeap
<1> HIDE DEF H, p
<1>3. /\ \A x \in Writer : x # w => pc'[x] = pc[x] /\ batch'[x] = batch[x]
      /\ pc'[w] = "idle" /\ batch'[w] = {}
  BY <1>2 DEF IInv, TypeOK
<1>4. Numbered /\ NothingDropped /\ GapsAreInFlight /\ Stored
  BY DEF IInv, MonitorInv
<1>5. /\ \A u \in U : \E v \in batch[w] : v.ver = u.ver
      /\ \A v \in batch[w] : \E u \in U : v.ver = u.ver
  <2>1. Versions(U) = Versions(batch[w])
    BY Zenon DEF Submission
  <2>2. \A u \in U : u.ver \in Versions(batch[w])
    BY <2>1, VersionsAre
  <2>3. \A v \in batch[w] : v.ver \in Versions(U)
    BY <2>1, VersionsAre
  <2> QED BY <2>2, <2>3, VersionsAre
\* What another writer holds has not been submitted.
<1>6. ASSUME NEW x \in Writer, x # w, NEW u \in batch[x] PROVE \A v \in H : v.ver # u.ver
  BY <1>1, <1>4, <1>5, <1>6, VersionsAre DEF Numbered
<1>7. Numbered'
  <2>1. ASSUME NEW x \in Writer, NEW u \in batch'[x]
        PROVE  /\ u.key \in Key /\ u.ver < nextRowID' /\ (u.ver > prev' \/ u.ver = 0)
               /\ u.ver \notin Versions(heap')
    <3>1. x # w /\ u \in batch[x] /\ u.ver \in Nat
      BY <1>3, <2>1, Types
    <3>2. u.key \in Key /\ u.ver < nextRowID /\ (u.ver > prev \/ u.ver = 0)
      BY <1>4, <3>1 DEF Numbered, Ahead
    <3>3. \A v \in H : v.ver # u.ver
      BY <1>6, <3>1
    <3>4. u.ver > p \/ u.ver = 0
      BY <1>1, <3>1, <3>2, <3>3
    <3> QED BY <1>2, <3>2, <3>3, <3>4, VersionsAre
  <2>2. prev' < nextRowID' \/ prev' = 0
    BY <1>1, <1>2
  <2>3. \A x \in Writer : pc'[x] \in {"idle", "locked"} => batch'[x] = {}
    BY <1>3, <1>4 DEF Numbered
  <2>4. \A x, y \in Writer : \A u \in batch'[x], v \in batch'[y] : u.ver = v.ver => x = y /\ u = v
    BY <1>3, <1>4 DEF Numbered
  <2>5. \A u \in heap' : prev' < u.ver /\ u.ver < nextRowID'
    BY <1>1, <1>2
  <2>6. \A u, v \in heap' : u.ver = v.ver => u = v
    BY <1>1, <1>2
  <2>7. Versions(heap') = Versions(heap)'
    BY DEF Versions
  <2> QED BY <2>1, <2>2, <2>3, <2>4, <2>5, <2>6, <2>7 DEF Numbered, Ahead
<1>8. NothingDropped'
  <2>1. \A u \in U : u.ver > prev \/ u.ver = 0
    BY <1>4, <1>5 DEF Numbered, Ahead
  <2>2. \A u \in U : ~Accepts(prev, u) => u.ver = 0
    BY <2>1 DEF Accepts
  <2> QED BY <1>2, <1>4, <2>2 DEF NothingDropped
<1>9. GapsAreInFlight'
  <2> SUFFICES ASSUME NEW n \in (p + 1)..(nextRowID - 1)
               PROVE  (\E u \in heap' : u.ver = n) \/ \E u \in InFlight' : u.ver = n
    BY <1>2 DEF GapsAreInFlight, Versions
  <2>1. n \in (prev + 1)..(nextRowID - 1) /\ n > p /\ n > prev /\ n # 0
    BY <1>1, Types
  <2>2. (\E u \in heap : u.ver = n) \/ \E u \in InFlight : u.ver = n
    BY <1>4, <2>1, VersionsAre DEF GapsAreInFlight
  <2>3. CASE \E u \in heap : u.ver = n
    BY <1>1, <1>2, <2>1, <2>3
  <2>4. ASSUME NEW u \in InFlight, u.ver = n
        PROVE  (\E v \in heap' : v.ver = n) \/ \E v \in InFlight' : v.ver = n
    <3>1. PICK x \in Writer : pc[x] \in {"allocated", "persisted", "failed"} /\ u \in batch[x]
      BY InFlightIs
    <3>2. CASE x = w
      <4>1. PICK v \in U : v.ver = n
        BY <1>5, <2>4, <3>1, <3>2
      <4>2. v \in H
        BY <1>1, <2>1, <4>1
      <4> QED BY <1>2, <2>1, <4>1, <4>2
    <3>3. CASE x # w
      BY <1>3, <2>4, <3>1, <3>3, InFlightIsNext
    <3> QED BY <3>2, <3>3
  <2> QED BY <2>2, <2>3, <2>4
<1>10. Stored'
  <2>1. \A u \in Unstored' : u \in Unstored
    BY <1>3, UnstoredIs, UnstoredIsNext
  <2>2. ASSUME NEW k \in Key, rows[k] > p
        PROVE  \/ [ver |-> rows[k], key |-> k] \in heap'
               \/ \E x \in Writer : pc'[x] = "persisted" /\ [ver |-> rows[k], key |-> k] \in batch'[x]
    <3> DEFINE row == [ver |-> rows[k], key |-> k]
    <3>1. rows[k] > prev /\ rows[k] # 0
      BY <1>1, <2>2, Types
    <3>2. row \in heap \/ \E x \in Writer : pc[x] = "persisted" /\ row \in batch[x]
      BY <1>4, <3>1 DEF Stored, Submittable
    <3>3. row.ver = rows[k]
      OBVIOUS
    <3> HIDE DEF row
    <3>4. CASE row \in heap
      BY <1>1, <1>2, <2>2, <3>3, <3>4 DEF row
    <3>5. ASSUME NEW x \in Writer, pc[x] = "persisted", row \in batch[x]
          PROVE  row \in heap' \/ \E y \in Writer : pc'[y] = "persisted" /\ row \in batch'[y]
      <4>1. CASE x = w
        <5>1. row \in U
          BY <3>5, <4>1 DEF Submission
        <5>2. row \in H
          BY <1>1, <3>1, <3>3, <5>1
        <5> QED BY <1>2, <2>2, <3>3, <5>2
      <4>2. CASE x # w
        BY <1>3, <3>5, <4>2
      <4> QED BY <4>1, <4>2
    <3> QED BY <3>2, <3>4, <3>5 DEF row
  <2>3. Submittable'
    BY <1>2, <2>2 DEF Submittable
  <2> QED BY <1>2, <1>4, <2>1, <2>3 DEF Stored
<1> QED BY <1>7, <1>8, <1>9, <1>10 DEF MonitorInv

\* The client sees what is sent behind all that it was sent before.
LEMMA FinishClient ==
  ASSUME IInv, NEW w \in Writer, NEW U, Submission(w, U), Finish(w, U)
  PROVE  TypeOK' /\ Lines' /\ Covered' /\ StableSerial'
<1> DEFINE H == Submitted(prev, heap, U)
           p == NewPrevious(prev, heap, U)
           q == Sent(prev, heap, U)
           S == SentRows(U)
<1>1. /\ H \subseteq Row /\ heap \subseteq H
      /\ \A u \in H : u.ver \in Nat /\ u.ver < nextRowID /\ u.ver \in Version
      /\ \A u \in H : u \in heap \/ u \in U
      /\ \A u \in H : u.ver > prev \/ (prev = 0 /\ u.ver = 0 /\ u \in U)
      /\ \A u \in U : u \in H \/ u.ver = 0
      /\ p \in Nat /\ p \in Version /\ p >= prev /\ (p < nextRowID \/ p = 0)
      /\ \A n \in Nat : n > prev /\ n <= p => \E u \in H : u.ver = n
  BY SubmittedIs
<1>2. \A u : u \in S <=> u \in H /\ u.ver <= p /\ u.key # NoKey
  BY DEF SentRows
<1>3. /\ q \in Seq(Row) /\ Len(q) \in Nat
      /\ \A i \in 1..Len(q) : q[i] \in S
      /\ \A i, j \in 1..Len(q) : i < j => q[i].ver < q[j].ver
      /\ \A u \in S : \E i \in 1..Len(q) : q[i] = u
  BY SentIs
<1>4. /\ prev' = p /\ heap' = {u \in H : u.ver > p} /\ ~watcherLock
      /\ dropped' = dropped \cup {u.ver : u \in {v \in U : ~Accepts(prev, v)}}
      /\ stream' = IF conn = "listening" THEN stream \o q ELSE stream
      /\ UNCHANGED <<rows, nextRowID, watcherLock, conn, lastSerial, missed, received, overtaken, faults>>
      /\ pc' = [pc EXCEPT ![w] = "idle"] /\ batch' = [batch EXCEPT ![w] = {}]
      /\ held' = [held EXCEPT ![w] = {}]
  BY Zenon DEF Finish, SubmitUpdates, NewHeap
<1> HIDE DEF H, p, q, S
<1>5. /\ \A x \in Writer : x # w => pc'[x] = pc[x] /\ batch'[x] = batch[x]
      /\ pc'[w] = "idle" /\ batch'[w] = {}
  BY <1>4 DEF IInv, TypeOK
<1>6. Numbered /\ Stored /\ Lines
  BY DEF IInv, MonitorInv
<1>7. stream \in Seq(Row) /\ stream' \in Seq(Row) /\ Len(stream) \in Nat /\ Len(stream') \in Nat
  <2>1. stream \in Seq(Row)
    BY DEF IInv, TypeOK
  <2> QED BY <1>3, <1>4, <2>1
<1>8. TypeOK'
  <2>1. U \subseteq Row /\ \A u \in U : u.ver \in Version
    BY DEF Submission, Row
  <2>2. dropped' \subseteq Version
    BY <1>4, <2>1 DEF IInv, TypeOK
  <2>3. heap' \subseteq Row /\ prev' \in Version
    BY <1>1, <1>4
  <2>4. /\ held' \in [Writer -> SUBSET Key] /\ batch' \in [Writer -> SUBSET Row]
        /\ pc' \in [Writer -> {"idle", "locked", "allocated", "persisted", "failed"}]
    BY <1>4 DEF IInv, TypeOK
  <2> QED BY <1>4, <1>7, <2>2, <2>3, <2>4 DEF IInv, TypeOK
\* Positions of the longer stream.
<1>9. /\ Len(stream) <= Len(stream')
      /\ \A i \in 1..Len(stream) : i \in 1..Len(stream') /\ stream'[i] = stream[i]
      /\ \A i \in 1..Len(stream') : i <= Len(stream) \/
           (conn = "listening" /\ i - Len(stream) \in 1..Len(q) /\ stream'[i] = q[i - Len(stream)])
      /\ conn = "listening" => \A i \in 1..Len(q) :
           i + Len(stream) \in 1..Len(stream') /\ stream'[i + Len(stream)] = q[i]
  BY <1>3, <1>4, <1>7
<1>10. \A u \in S : /\ u.ver \in Nat /\ u.ver <= p /\ u.ver < nextRowID /\ u.key \in Key
                    /\ u.ver > prev \/ (prev = 0 /\ u.ver = 0 /\ \E v \in batch[w] : v.ver = 0)
  <2>1. \A u \in U : u.ver \in Versions(batch[w])
    <3>1. Versions(U) = Versions(batch[w])
      BY Zenon DEF Submission
    <3> QED BY <3>1, VersionsAre
  <2> QED BY <1>1, <1>2, <2>1, VersionsAre DEF Row
<1>11. \A i \in 1..Len(stream') : i > Len(stream) => stream'[i] \in S
  BY <1>3, <1>7, <1>9, SMTT(40)
<1>12. ASSUME NEW m \in 0..Len(stream), MarkerAt(m) PROVE MarkerAt(m)'
  BY <1>4, <1>7, <1>9, <1>12 DEF MarkerAt, Connected
<1>13. ASSUME NEW m \in 0..Len(stream'), MarkerAt(m)' PROVE m \in 0..Len(stream) /\ MarkerAt(m)
  <2>1. m <= Len(stream)
    <3> SUFFICES ASSUME m > Len(stream) PROVE FALSE
      BY <1>7
    <3>1. m > 0 /\ stream'[m] = Marker
      BY <1>7, <1>13 DEF MarkerAt
    <3>2. stream'[m] \in S
      BY <1>7, <1>11, <3>1
    <3> QED BY <1>10, <3>1, <3>2, WatchAssumption DEF Marker
  <2> QED BY <1>4, <1>7, <1>9, <1>13, <2>1 DEF MarkerAt, Connected
<1>14. Lines'
  <2>1. PICK m \in 0..Len(stream) : MarkerAt(m) /\ RowsBut(m) /\ PassedOn(m)
    BY <1>6 DEF Lines
  <2>2. MarkerAt(m)' /\ m \in 0..Len(stream')
    BY <1>7, <1>9, <1>12, <2>1
  <2>3. RowsBut(m)'
    <3> SUFFICES ASSUME NEW i \in 1..Len(stream'), i # m
                 PROVE  stream'[i].key \in Key /\ stream'[i].ver < nextRowID
      BY <1>4 DEF RowsBut
    <3>1. CASE i <= Len(stream)
      BY <1>7, <1>9, <2>1, <3>1 DEF RowsBut
    <3>2. CASE i > Len(stream)
      BY <1>10, <1>11, <3>2
    <3> QED BY <1>7, <3>1, <3>2
  <2>4. PassedOn(m)'
    <3>1. ASSUME NEW i \in 1..Len(stream'), i > m PROVE stream'[i].ver <= p
      <4>1. CASE i <= Len(stream)
        BY <1>1, <1>7, <1>9, <2>1, <3>1, <4>1, Types DEF PassedOn
      <4>2. CASE i > Len(stream)
        BY <1>10, <1>11, <4>2
      <4> QED BY <1>7, <4>1, <4>2
    <3>2. ASSUME NEW i \in 1..Len(stream'), m < i, stream'[i].ver = 0
          PROVE  \A x \in Writer : 0 \notin Versions(batch'[x])
      <4>1. CASE i <= Len(stream)
        <5>1. \A x \in Writer : 0 \notin Versions(batch[x])
          BY <1>7, <1>9, <2>1, <3>2, <4>1 DEF PassedOn
        <5> QED BY <1>5, <5>1, VersionsAre
      <4>2. CASE i > Len(stream)
        <5>1. PICK v \in batch[w] : v.ver = 0
          BY <1>10, <1>11, <3>2, <4>2, Types
        <5>2. ASSUME NEW x \in Writer, x # w, NEW u \in batch[x] PROVE u.ver # 0
          BY <1>6, <5>1, <5>2 DEF Numbered
        <5> QED BY <1>5, <5>2, VersionsAre
      <4> QED BY <1>7, <4>1, <4>2
    <3>3. ASSUME NEW i \in 1..Len(stream'), NEW j \in 1..Len(stream'), m < i, i < j
          PROVE  stream'[i].ver < stream'[j].ver
      <4>1. CASE j <= Len(stream)
        BY <1>7, <1>9, <2>1, <3>3, <4>1 DEF PassedOn
      <4>2. CASE i <= Len(stream) /\ j > Len(stream)
        <5>1. stream'[i] = stream[i] /\ stream[i].ver <= prev /\ stream[i].ver \in Nat
          BY <1>7, <1>9, <2>1, <3>3, <4>2, Types DEF PassedOn
        <5>2. stream'[j] \in S
          BY <1>11, <4>2
        <5>3. CASE stream'[j].ver > prev
          BY <1>10, <5>1, <5>2, <5>3, Types, SMTT(40)
        <5>4. CASE prev = 0 /\ stream'[j].ver = 0 /\ \E v \in batch[w] : v.ver = 0
          <6>1. stream[i].ver = 0
            BY <5>1, <5>4
          <6>2. 0 \notin Versions(batch[w])
            BY <1>7, <2>1, <3>3, <4>2, <6>1 DEF PassedOn
          <6> QED BY <5>4, <6>2, VersionsAre
        <5> QED BY <1>10, <5>2, <5>3, <5>4
      <4>3. CASE i > Len(stream)
        <5>1. /\ conn = "listening"
              /\ i - Len(stream) \in 1..Len(q) /\ stream'[i] = q[i - Len(stream)]
              /\ j - Len(stream) \in 1..Len(q) /\ stream'[j] = q[j - Len(stream)]
          BY <1>7, <1>9, <3>3, <4>3
        <5>2. i - Len(stream) < j - Len(stream)
          BY <1>7, <3>3
        <5> QED BY <1>3, <5>1, <5>2
      <4> QED BY <1>7, <4>1, <4>2, <4>3
    <3> QED BY <1>4, <3>1, <3>2, <3>3 DEF PassedOn
  <2>5. (~Connected)' => stream' = <<>>
    BY <1>4, <1>6 DEF Lines, Connected
  <2> QED BY <1>4, <1>6, <2>2, <2>3, <2>4, <2>5 DEF Lines
\* What was waiting for the monitor still is, or has been sent.
<1>15. ASSUME NEW m \in 0..Len(stream), conn = "listening", NEW k \in Key, rows[k] > lastSerial, Sending(k, m)
       PROVE  Sending(k, m)'
  <2> DEFINE row == [ver |-> rows[k], key |-> k]
  <2>0. row.ver = rows[k] /\ row.key = k /\ rows[k] \in Nat
    BY <1>15, Types
  <2> HIDE DEF row
  <2>1. CASE \E i \in 1..Len(stream) : i > m /\ stream[i] = row
    <3>1. \E i \in 1..Len(stream') : i > m /\ stream'[i] = row
      BY <1>9, <2>1
    <3> QED BY <1>4, <3>1 DEF Sending, row
  <2>2. CASE rows[k] > p
    BY <1>4, <2>2 DEF Sending
  <2>3. CASE rows[k] > prev /\ rows[k] <= p
    <3>1. PICK u \in H : u.ver = rows[k]
      BY <1>1, <2>0, <2>3
    <3>2. row \in heap \/ \E x \in Writer : pc[x] = "persisted" /\ row \in batch[x]
      BY <1>6, <2>3 DEF Stored, Submittable, row
    <3>3. row \in H
      <4>1. CASE row \in heap
        BY <1>1, <4>1
      <4>2. ASSUME NEW x \in Writer, pc[x] = "persisted", row \in batch[x] PROVE row \in H
        <5>1. x = w
          <6>1. row.ver \notin Versions(heap)
            BY <1>6, <4>2 DEF Numbered
          <6>2. u \in U
            BY <1>1, <2>0, <3>1, <6>1, VersionsAre
          <6>3. u.ver \in Versions(batch[w])
            <7>1. Versions(U) = Versions(batch[w])
              BY Zenon DEF Submission
            <7> QED BY <6>2, <7>1, VersionsAre
          <6>4. PICK v \in batch[w] : v.ver = row.ver
            BY <2>0, <3>1, <6>3, VersionsAre
          <6> QED BY <1>6, <4>2, <6>4 DEF Numbered
        <5>2. row \in U
          BY <4>2, <5>1 DEF Submission
        <5> QED BY <1>1, <2>0, <2>3, <5>2, Types
      <4> QED BY <3>2, <4>1, <4>2
    <3>4. row \in S
      BY <1>2, <2>0, <2>3, <3>3, WatchAssumption
    <3>5. PICK i \in 1..Len(q) : q[i] = row
      BY <1>3, <3>4
    <3>6. i + Len(stream) \in 1..Len(stream') /\ stream'[i + Len(stream)] = row /\ i + Len(stream) > m
      BY <1>7, <1>9, <1>15, <3>5
    <3> QED BY <1>4, <3>6 DEF Sending, row
  <2> QED BY <1>1, <1>15, <2>0, <2>1, <2>2, <2>3, Types, SMTT(40) DEF Sending, row
<1>16. \A u \in Unstored' : u \in Unstored
  BY <1>5, UnstoredIs, UnstoredIsNext
<1>17. ASSUME NEW n, Later(n) PROVE Later(n)'
  BY <1>4, <1>16, <1>17 DEF Later
<1>18. Covered'
  <2> SUFFICES ASSUME ~overtaken PROVE Covered'
    BY <1>4 DEF Covered
  <2>1. Later(lastSerial)'
    BY <1>4, <1>17 DEF IInv, Covered, Later
  <2>2. ASSUME NEW m \in 0..Len(stream'), Connected', MarkerAt(m)'
        PROVE  /\ m > 0 => /\ Later(missed)'
                           /\ \A i \in 1..Len(stream') : i < m => Later(stream[i].ver)'
                           /\ \A k \in Key : rows[k] > lastSerial => Catching(k, m)'
               /\ m = 0 => \A k \in Key : rows[k] > lastSerial => Sending(k, m)'
    <3>1. m \in 0..Len(stream) /\ MarkerAt(m)
      BY <1>13, <2>2
    <3>2. conn = "listening" /\ Connected
      BY <1>4, <1>6, <2>2 DEF Lines, Connected
    <3>3. CASE m = 0
      <4>1. \A k \in Key : rows[k] > lastSerial => Sending(k, m)
        BY <3>1, <3>2, <3>3 DEF IInv, Covered
      <4> QED BY <1>15, <3>1, <3>2, <3>3, <4>1
    <3>4. CASE m > 0
      <4>1. /\ Later(missed)
            /\ \A i \in 1..Len(stream) : i < m => Later(stream[i].ver)
            /\ \A k \in Key : rows[k] > lastSerial => Catching(k, m)
        BY <3>1, <3>2, <3>4 DEF IInv, Covered
      <4>2. Later(missed)'
        BY <1>4, <1>17, <4>1 DEF Later
      <4>3. \A i \in 1..Len(stream') : i < m => i \in 1..Len(stream) /\ stream'[i] = stream[i]
        BY <1>7, <1>9, <3>1
      <4>4. ASSUME NEW i \in 1..Len(stream'), i < m PROVE Later(stream[i].ver)'
        <5>1. Later(stream[i].ver) /\ stream'[i] = stream[i]
          BY <4>1, <4>3, <4>4
        <5> QED BY <1>17, <5>1 DEF Later
      <4>5. ASSUME NEW k \in Key, rows[k] > lastSerial PROVE Catching(k, m)'
        <5>1. Catching(k, m)
          BY <4>1, <4>5
        <5>2. CASE rows[k] <= missed /\ [ver |-> rows[k], key |-> k] \in received
          BY <1>4, <5>2 DEF Catching
        <5>3. CASE \E i \in 1..Len(stream) : i < m /\ stream[i] = [ver |-> rows[k], key |-> k]
          <6>1. \E i \in 1..Len(stream') : i < m /\ stream'[i] = [ver |-> rows[k], key |-> k]
            BY <1>9, <5>3
          <6> QED BY <1>4, <6>1 DEF Catching
        <5>4. CASE /\ rows[k] > missed /\ \A i \in 1..Len(stream) : i < m => rows[k] > stream[i].ver
                   /\ Sending(k, m)
          <6>1. Sending(k, m)'
            BY <1>15, <3>1, <3>2, <4>5, <5>4
          <6>2. \A i \in 1..Len(stream') : i < m => rows[k] > stream'[i].ver
            BY <4>3, <5>4
          <6> QED BY <1>4, <5>4, <6>1, <6>2 DEF Catching
        <5> QED BY <5>1, <5>2, <5>3, <5>4 DEF Catching
      <4> QED BY <3>4, <4>2, <4>4, <4>5
    <3> QED BY <1>7, <3>1, <3>3, <3>4
  <2> QED BY <1>4, <2>1, <2>2 DEF Covered
<1>19. StableSerial'
  BY <1>4 DEF IInv, StableSerial
<1> QED BY <1>8, <1>14, <1>18, <1>19

LEMMA NotifyWatchersStep ==
  ASSUME IInv, NEW w \in Writer, NotifyWatchers(w)
  PROVE  IInv'
<1>1. pc[w] = "persisted" /\ Finish(w, batch[w])
  BY Zenon DEF NotifyWatchers
<1>2. Submission(w, batch[w])
  <2>1. batch[w] \subseteq Row
    BY DEF IInv, TypeOK
  <2>2. \A u, v \in batch[w] : u.ver = v.ver => u = v
    BY DEF IInv, MonitorInv, Numbered
  <2> QED BY <1>1, <2>1, <2>2 DEF Submission
<1> QED BY <1>1, <1>2, FinishMonitor, FinishClient DEF IInv

LEMMA DiscardIDRangeStep ==
  ASSUME IInv, NEW w \in Writer, DiscardIDRange(w)
  PROVE  IInv'
<1> DEFINE strip(u) == [u EXCEPT !.key = NoKey]
           U == {strip(u) : u \in batch[w]}
<1>1. pc[w] = "failed" /\ Finish(w, U)
  BY Zenon DEF DiscardIDRange
<1>2. batch[w] \subseteq Row /\ \A u, v \in batch[w] : u.ver = v.ver => u = v
  BY DEF IInv, TypeOK, MonitorInv, Numbered
<1>3. \A u \in batch[w] : strip(u) \in Row /\ strip(u).ver = u.ver /\ strip(u).key = NoKey
  BY <1>2 DEF Row
<1> HIDE DEF strip
<1>4. U \subseteq Row /\ \A u \in U : u.key = NoKey
  BY <1>3
<1>5. Versions(U) = Versions(batch[w])
  <2>1. \A n : (\E u \in U : u.ver = n) <=> \E u \in batch[w] : u.ver = n
    BY <1>3
  <2> HIDE DEF U
  <2> QED BY <2>1 DEF Versions
<1>6. \A u, v \in U : u.ver = v.ver => u = v
  BY <1>2, <1>3
<1> HIDE DEF U
<1>7. Submission(w, U)
  BY <1>1, <1>4, <1>5, <1>6 DEF Submission
<1> QED BY <1>1, <1>7, FinishMonitor, FinishClient DEF IInv

\* After a restart everything stored has been passed on, and nothing that the
\* client has reached is numbered again, unless it is overtaken.
LEMMA RestartStep ==
  ASSUME IInv, Restart
  PROVE  IInv'
<1>1. /\ faults < MaxFaults /\ faults' = faults + 1
      /\ nextRowID' = NextRowIDOf(rows) /\ prev' = PreviousVersionOf(nextRowID')
      /\ heap' = {} /\ held' = [w \in Writer |-> {}] /\ pc' = [w \in Writer |-> "idle"]
      /\ batch' = [w \in Writer |-> {}] /\ watcherLock' = FALSE
      /\ conn' = "down" /\ stream' = <<>>
      /\ overtaken' = (overtaken \/ nextRowID' <= lastSerial)
      /\ UNCHANGED <<rows, dropped, lastSerial, missed, received>>
  BY Zenon DEF Restart, Fault
<1>2. nextRowID' \in 0..nextRowID /\ \A k \in Key : rows[k] < nextRowID'
  <2>1. rows \in [Key -> Version \cup {NoRow}]
    BY DEF IInv, TypeOK
  <2>2. \A k \in Key : rows[k] \in Nat \cup {NoRow} /\ rows[k] < nextRowID
    BY <2>1, Types DEF IInv, MonitorInv, Stored
  <2> QED BY <1>1, <2>2, NextRowIDIs, Types
<1>3. /\ nextRowID' \in Nat /\ nextRowID' <= nextRowID
      /\ prev' \in Nat /\ (prev' < nextRowID' \/ prev' = 0) /\ prev' + 1 >= nextRowID'
      /\ \A k \in Key : rows[k] <= prev'
  <2>1. nextRowID' \in Nat /\ nextRowID' <= nextRowID
    BY <1>2, Types
  <2> QED BY <1>1, <1>2, <2>1, PreviousIs, Types
<1>4. nextRowID \in 0..MaxRows
  BY DEF IInv, TypeOK
<1>5. TypeOK'
  <2>1. nextRowID' \in 0..MaxRows /\ prev' \in Version
    BY <1>2, <1>3, <1>4, Types
  <2>2. faults' \in 0..MaxFaults
    BY <1>1, WatchAssumption DEF IInv, TypeOK
  <2>3. stream' \in Seq(Row) /\ heap' \subseteq Row /\ overtaken' \in BOOLEAN
    BY <1>1 DEF IInv, TypeOK
  <2>4. /\ held' \in [Writer -> SUBSET Key] /\ batch' \in [Writer -> SUBSET Row]
        /\ pc' \in [Writer -> {"idle", "locked", "allocated", "persisted", "failed"}]
    BY <1>1
  <2> QED BY <1>1, <2>1, <2>2, <2>3, <2>4 DEF IInv, TypeOK
<1>6. (\A u : u \notin Unstored') /\ (\A w \in Writer : batch'[w] = {})
  BY <1>1, UnstoredIsNext
<1>7. MonitorInv'
  <2>1. Numbered'
    BY <1>1, <1>3, <1>6 DEF Numbered
  <2>2. NothingDropped'
    BY <1>1 DEF IInv, MonitorInv, NothingDropped
  <2>3. GapsAreInFlight'
    <3>1. \A n \in (prev' + 1)..(nextRowID' - 1) : FALSE
      <4> DEFINE p == prev'
                 r == nextRowID'
      <4>1. p \in Nat /\ r \in Nat /\ p + 1 >= r
        BY <1>3
      <4> HIDE DEF p, r
      <4>2. \A n \in (p + 1)..(r - 1) : FALSE
        BY <4>1
      <4> QED BY <4>2 DEF p, r
    <3> QED BY <3>1, Zenon DEF GapsAreInFlight
  <2>4. Stored'
    <3>1. \A k \in Key : ~(rows'[k] > prev')
      BY <1>1, <1>3, Types
    <3> QED BY <1>1, <1>2, <1>6, <3>1 DEF Stored, Submittable
  <2> QED BY <2>1, <2>2, <2>3, <2>4 DEF MonitorInv
<1>8. Lines'
  <2>1. Len(stream') = 0 /\ ~Connected'
    BY <1>1 DEF Connected
  <2>2. MarkerAt(0)' /\ RowsBut(0)' /\ PassedOn(0)'
    BY <2>1 DEF MarkerAt, RowsBut, PassedOn
  <2> QED BY <1>1, <2>1, <2>2 DEF Lines
<1>9. Covered'
  <2>1. ~Connected'
    BY <1>1 DEF Connected
  <2>2. ~overtaken' => lastSerial < nextRowID'
    <3>1. ~overtaken' => ~(nextRowID' <= lastSerial)
      BY <1>1, Zenon
    <3> QED BY <1>3, <3>1, Types
  <2> QED BY <1>1, <1>6, <2>1, <2>2 DEF Covered, Later
<1>10. StableSerial'
  BY <1>1 DEF IInv, StableSerial
<1> QED BY <1>5, <1>7, <1>8, <1>9, <1>10 DEF IInv
-----------------------------------------------------------------------------
(* The watch request *)

\* The steps of the client and of its request do not touch the store.
LEMMA WatchQuiet ==
  ASSUME IInv, UNCHANGED <<storeVars, monitorVars>>
  PROVE  /\ MonitorInv'
         /\ UNCHANGED <<rows, nextRowID, held, pc, batch, prev, heap, dropped>>
         /\ \A u : u \in Unstored' <=> u \in Unstored
<1>1. UNCHANGED <<rows, nextRowID, held, pc, batch, prev, heap, dropped>>
  BY DEF storeVars, monitorVars
<1> QED BY <1>1, MonitorQuiet, UnstoredIs, UnstoredIsNext

\* A request that is not being served.
LEMMA NotConnected ==
  ASSUME IInv, UNCHANGED <<storeVars, monitorVars, lastSerial, received, overtaken>>,
         conn' \in {"down", "opening", "abandoned"}, stream' = <<>>,
         watcherLock' <=> conn' = "abandoned", conn' = "opening" => missed' = 0
  PROVE  Lines' /\ Covered' /\ StableSerial'
<1>1. ~Connected' /\ Len(stream') = 0
  BY DEF Connected
<1>2. Lines'
  <2>1. MarkerAt(0)' /\ RowsBut(0)' /\ PassedOn(0)'
    BY <1>1 DEF MarkerAt, RowsBut, PassedOn
  <2> QED BY <1>1, <2>1 DEF Lines
<1>3. Covered'
  BY <1>1, WatchQuiet DEF IInv, Covered, Later
<1>4. StableSerial'
  BY WatchQuiet DEF IInv, StableSerial
<1> QED BY <1>2, <1>3, <1>4

LEMMA OpenWatchStep ==
  ASSUME IInv, OpenWatch
  PROVE  IInv'
<1>1. /\ conn = "down" /\ conn' = "opening" /\ missed' = 0
      /\ UNCHANGED <<storeVars, monitorVars, watcherLock, stream, lastSerial, received, overtaken, faults>>
  BY DEF OpenWatch
<1>2. stream = <<>> /\ ~watcherLock
  BY <1>1 DEF IInv, Lines, Connected
<1>3. TypeOK'
  BY <1>1, WatchQuiet, Types DEF IInv, TypeOK
<1> QED BY <1>1, <1>2, <1>3, WatchQuiet, NotConnected DEF IInv

\* The connection ends, in a state with a request.
LEMMA HangupStep ==
  ASSUME IInv, Hangup, conn \in {"opening", "scanned", "listening"},
         UNCHANGED <<storeVars, monitorVars, watcherLock, lastSerial, missed, received, overtaken>>,
         faults' \in 0..MaxFaults
  PROVE  IInv'
<1>1. conn' = (IF conn = "scanned" THEN "abandoned" ELSE "down") /\ stream' = <<>>
  BY DEF Hangup
<1>2. watcherLock' <=> conn' = "abandoned"
  BY <1>1 DEF IInv, Lines
<1>3. TypeOK'
  <2>1. stream' \in Seq(Row)
    BY <1>1
  <2> QED BY <1>1, <2>1, WatchQuiet DEF IInv, TypeOK
<1> QED BY <1>1, <1>2, <1>3, WatchQuiet, NotConnected DEF IInv

LEMMA AddListenerStep ==
  ASSUME IInv, AddListener
  PROVE  IInv'
<1>1. /\ conn \in {"scanned", "abandoned"} /\ conn' = IF conn = "scanned" THEN "listening" ELSE "down"
      /\ watcherLock' = FALSE
      /\ UNCHANGED <<storeVars, monitorVars, stream, lastSerial, missed, received, overtaken, faults>>
  BY DEF AddListener
<1>2. TypeOK'
  BY <1>1, WatchQuiet DEF IInv, TypeOK
<1>3. CASE conn = "abandoned"
  <2>1. stream = <<>>
    BY <1>3 DEF IInv, Lines, Connected
  <2> QED BY <1>1, <1>2, <1>3, <2>1, WatchQuiet, NotConnected DEF IInv
<1>4. CASE conn = "scanned"
  <2>1. Connected /\ Connected' /\ conn' = "listening"
    BY <1>1, <1>4 DEF Connected
  <2>2. \A m : (MarkerAt(m)' <=> MarkerAt(m)) /\ (RowsBut(m)' <=> RowsBut(m)) /\ (PassedOn(m)' <=> PassedOn(m))
    BY <1>1, <2>1, WatchQuiet DEF MarkerAt, RowsBut, PassedOn, Versions
  <2>3. Lines'
    BY <1>1, <2>1, <2>2 DEF IInv, Lines
  <2>4. \A m, k : (Catching(k, m)' <=> Catching(k, m)) /\ (Sending(k, m)' <=> Sending(k, m))
    BY <1>1, WatchQuiet DEF Catching, Sending
  <2>5. \A n : Later(n)' <=> Later(n)
    BY <1>1, WatchQuiet DEF Later
  <2>6. Covered'
    BY <1>1, <2>1, <2>2, <2>4, <2>5, WatchQuiet DEF IInv, Covered
  <2>7. StableSerial'
    BY <1>1, WatchQuiet DEF IInv, StableSerial
  <2> QED BY <1>2, <2>3, <2>6, <2>7, <1>1, WatchQuiet DEF IInv
<1> QED BY <1>1, <1>3, <1>4

LEMMA RefuseRowStep ==
  ASSUME IInv, RefuseRow
  PROVE  IInv'
<1>1. /\ stream # <<>> /\ Hangup
      /\ UNCHANGED <<storeVars, monitorVars, watcherLock, lastSerial, missed, received, overtaken, faults>>
  BY DEF RefuseRow
<1>2. conn \in {"scanned", "listening"}
  BY <1>1 DEF IInv, Lines, Connected
<1>3. faults' \in 0..MaxFaults
  BY <1>1 DEF IInv, TypeOK
<1> QED BY <1>1, <1>2, <1>3, HangupStep

LEMMA LoseConnectionStep ==
  ASSUME IInv, LoseConnection
  PROVE  IInv'
<1>1. faults' \in 0..MaxFaults
  BY WatchAssumption DEF LoseConnection, Fault, IInv, TypeOK
<1> QED BY <1>1, HangupStep DEF LoseConnection

\* The scan sends each stored row above the client's serial number.
LEMMA ScanIs ==
  ASSUME IInv, NEW q \in SetToSeqs(CatchUpRows)
  PROVE  /\ q \in Seq(Row) /\ Len(q) \in Nat
         /\ \A i \in 1..Len(q) : q[i] \in CatchUpRows
         /\ \A u \in CatchUpRows : \E i \in 1..Len(q) : q[i] = u
<1> DEFINE R == CatchUpRows
           K == {j \in Key : rows[j] > lastSerial}
           row(k) == [ver |-> rows[k], key |-> k]
           n == Cardinality(R)
<1>1. R = {row(k) : k \in K}
  BY DEF CatchUpRows
<1>2. R \subseteq Row
  <2>1. rows \in [Key -> Version \cup {NoRow}]
    BY DEF IInv, TypeOK
  <2>2. \A k \in K : rows[k] \in Version
    BY <2>1, Types DEF NoRow
  <2> QED BY <1>1, <2>2 DEF Row
<1> HIDE DEF R, K
<1>3. IsFiniteSet(R)
  <2> DEFINE f == [k \in K |-> row(k)]
  <2>1. f \in Surjection(K, R)
    <3> HIDE DEF row
    <3> QED BY <1>1 DEF Surjection
  <2>2. IsFiniteSet(K)
    BY FS_Subset, WatchAssumption DEF K
  <2> HIDE DEF f
  <2> QED BY <2>1, <2>2, FS_Surjection
<1>4. n \in Nat /\ IsFiniteSet(1..n) /\ Cardinality(1..n) = n
  <2>1. n \in Nat
    BY <1>3, FS_CardinalityType
  <2> QED BY <2>1, FS_Interval
<1>5. q \in [1..n -> R] /\ \A i, j \in 1..n : i # j => q[i] # q[j]
  BY Zenon DEF SetToSeqs, R
<1>6. q \in Injection(1..n, R)
  BY <1>5 DEF Injection, IsInjective
<1>7. q \in Surjection(1..n, R)
  <2>1. Cardinality(1..n) = Cardinality(R)
    BY <1>4
  <2> HIDE DEF n
  <2> QED BY <1>3, <1>6, <2>1, FS_Injection
<1> HIDE DEF n
<1>8. q \in Seq(R) /\ Len(q) = n
  BY <1>4, <1>5
<1>9. q \in Seq(Row)
  BY <1>2, <1>8
<1>10. \A i \in 1..n : q[i] \in R
  BY <1>5
<1>11. \A u \in R : \E i \in 1..n : q[i] = u
  BY <1>7 DEF Surjection
<1> QED BY <1>4, <1>8, <1>9, <1>10, <1>11 DEF R

LEMMA ScanRowsStep ==
  ASSUME IInv, ScanRows
  PROVE  IInv'
<1>1. PICK q \in SetToSeqs(CatchUpRows) : stream' = q \o <<Marker>>
  BY DEF ScanRows
<1>2. /\ conn = "opening" /\ ~watcherLock /\ watcherLock' = TRUE /\ conn' = "scanned"
      /\ overtaken' = (overtaken \/ \E u \in Unstored, v \in CatchUpRows : u.ver < v.ver)
      /\ UNCHANGED <<storeVars, monitorVars, lastSerial, missed, received, faults>>
  BY DEF ScanRows
<1> DEFINE R == CatchUpRows
           n == Len(q)
<1>3. q \in Seq(Row) /\ n \in Nat /\ (\A i \in 1..n : q[i] \in R) /\ \A u \in R : \E i \in 1..n : q[i] = u
  BY ScanIs
<1>4. \A u \in R : /\ u.key \in Key /\ u.ver = rows[u.key] /\ u.ver \in Nat /\ u.ver < nextRowID
                   /\ u # Marker /\ \A x \in Unstored : x.ver # u.ver
  <2> SUFFICES ASSUME NEW k \in Key, rows[k] > lastSerial
               PROVE  rows[k] \in Nat /\ rows[k] < nextRowID /\ \A x \in Unstored : x.ver # rows[k]
    BY WatchAssumption DEF CatchUpRows, Marker
  <2>1. rows[k] \in Nat
    BY Types
  <2> QED BY <2>1 DEF IInv, MonitorInv, Stored
<1>5. \A k \in Key : rows[k] > lastSerial => [ver |-> rows[k], key |-> k] \in R
  BY DEF CatchUpRows
<1> HIDE DEF R
<1>6. Marker \in Row
  BY Types, WatchAssumption DEF Marker, Row
<1>7. /\ stream' \in Seq(Row) /\ Len(stream') = n + 1 /\ stream'[n + 1] = Marker
      /\ \A i \in 1..n : stream'[i] = q[i]
  BY <1>1, <1>3, <1>6
<1> HIDE DEF n
<1>8. missed = 0 /\ missed' = 0 /\ Connected'
  BY <1>2 DEF IInv, Lines, Connected
<1>9. \A i \in 1..Len(stream') : i = n + 1 \/ (i \in 1..n /\ i < n + 1 /\ stream'[i] \in R)
  BY <1>3, <1>7
<1>10. TypeOK'
  <2>1. overtaken' \in BOOLEAN
    BY <1>2 DEF IInv, TypeOK
  <2> QED BY <1>2, <1>7, <2>1, WatchQuiet DEF IInv, TypeOK
<1>11. Lines'
  <2>1. MarkerAt(n + 1)' /\ n + 1 \in 0..Len(stream')
    BY <1>3, <1>7, <1>8 DEF MarkerAt, Streaming
  <2>2. RowsBut(n + 1)'
    BY <1>2, <1>4, <1>9, WatchQuiet DEF RowsBut
  <2>3. PassedOn(n + 1)'
    BY <1>3, <1>7 DEF PassedOn
  <2> QED BY <1>2, <1>8, <2>1, <2>2, <2>3 DEF Lines
<1>12. Covered'
  <2> SUFFICES ASSUME ~overtaken' PROVE Covered'
    BY DEF Covered
  <2>1. ~overtaken /\ \A u \in Unstored, v \in R : ~(u.ver < v.ver)
    BY <1>2 DEF R
  <2>2. Later(lastSerial)'
    BY <1>2, <2>1, WatchQuiet DEF IInv, Covered, Later
  <2>3. \A u \in Unstored : u.ver \in Nat
    BY UnstoredIs, Types
  <2>4. ASSUME NEW m \in 0..Len(stream'), MarkerAt(m)'
        PROVE  /\ m > 0 /\ Later(missed)'
               /\ \A i \in 1..Len(stream') : i < m => Later(stream[i].ver)'
               /\ \A k \in Key : rows[k] > lastSerial => Catching(k, m)'
    <3>1. m = n + 1
      BY <1>3, <1>4, <1>7, <1>8, <1>9, <2>4 DEF MarkerAt, Streaming
    <3>2. Later(missed)'
      BY <1>2, <1>8, <2>3, WatchQuiet, Types DEF Later
    <3>3. ASSUME NEW i \in 1..Len(stream'), i < m PROVE Later(stream[i].ver)'
      <4>1. stream'[i] \in R
        BY <1>9, <3>1, <3>3
      <4>2. \A u \in Unstored : u.ver > stream'[i].ver
        BY <1>4, <2>1, <2>3, <4>1
      <4> QED BY <1>4, <4>1, <4>2, WatchQuiet, <1>2 DEF Later
    <3>4. ASSUME NEW k \in Key, rows[k] > lastSerial PROVE Catching(k, m)'
      <4>1. PICK i \in 1..n : q[i] = [ver |-> rows[k], key |-> k]
        BY <1>3, <1>5, <3>4
      <4>2. i \in 1..Len(stream') /\ i < m /\ stream'[i] = [ver |-> rows[k], key |-> k]
        BY <1>3, <1>7, <3>1, <4>1
      <4> QED BY <1>2, <4>2, WatchQuiet DEF Catching
    <3> QED BY <1>3, <3>1, <3>2, <3>3, <3>4
  <2> QED BY <1>2, <2>2, <2>4, WatchQuiet DEF Covered
<1>13. StableSerial'
  BY <1>2, WatchQuiet DEF IInv, StableSerial
<1> QED BY <1>2, <1>10, <1>11, <1>12, <1>13, WatchQuiet DEF IInv

\* The client takes the first entry of the stream.
LEMMA TakeIs ==
  ASSUME IInv, stream # <<>>, stream' = Tail(stream)
  PROVE  /\ Connected /\ Len(stream) > 0 /\ Head(stream) = stream[1] /\ 1 \in 1..Len(stream)
         /\ stream[1] \in Row /\ stream' \in Seq(Row) /\ Len(stream') = Len(stream) - 1
         /\ \A i \in 1..Len(stream') : i + 1 \in 1..Len(stream) /\ stream'[i] = stream[i + 1]
         /\ \A i \in 1..Len(stream) : i > 1 => i - 1 \in 1..Len(stream') /\ stream'[i - 1] = stream[i]
<1>1. stream \in Seq(Row) /\ Connected
  BY DEF IInv, TypeOK, Lines
<1> QED BY <1>1

\* The marker moves up with the rest of the stream.
LEMMA LinesMove ==
  ASSUME IInv, stream # <<>>, stream' = Tail(stream),
         UNCHANGED <<storeVars, monitorVars, conn, watcherLock>>,
         NEW m \in 0..Len(stream), RowsBut(m), PassedOn(m),
         NEW n \in 0..Len(stream'), m > 0 => n = m - 1, m = 0 => n = 0, MarkerAt(n)'
  PROVE  Lines'
<1>1. RowsBut(n)'
  <2> SUFFICES ASSUME NEW i \in 1..Len(stream'), i # n
               PROVE  stream'[i].key \in Key /\ stream'[i].ver < nextRowID
    BY WatchQuiet DEF RowsBut
  <2>1. i + 1 \in 1..Len(stream) /\ stream'[i] = stream[i + 1] /\ i + 1 # m
    BY TakeIs
  <2> QED BY <2>1 DEF RowsBut
<1>2. PassedOn(n)'
  <2>1. \A i \in 1..Len(stream') : i > n => i + 1 \in 1..Len(stream) /\ stream'[i] = stream[i + 1] /\ i + 1 > m
    BY TakeIs
  <2>2. \A i \in 1..Len(stream') : i > n => stream'[i].ver <= prev
    BY <2>1 DEF PassedOn
  <2>3. ASSUME NEW i \in 1..Len(stream'), NEW j \in 1..Len(stream'), n < i, i < j
        PROVE  stream'[i].ver < stream'[j].ver
    <3>1. i + 1 < j + 1 /\ j > n
      BY <2>3
    <3> QED BY <2>1, <2>3, <3>1 DEF PassedOn
  <2>4. \A i \in 1..Len(stream') : n < i /\ stream'[i].ver = 0 => \A w \in Writer : 0 \notin Versions(batch[w])
    BY <2>1 DEF PassedOn
  <2> QED BY <2>2, <2>3, <2>4, WatchQuiet DEF PassedOn, Versions
<1>3. Connected' /\ (watcherLock' <=> conn' \in {"scanned", "abandoned"})
  BY TakeIs DEF IInv, Lines, Connected
<1> QED BY <1>1, <1>2, <1>3 DEF Lines, Connected

\* What was behind the marker, or behind what is read, is still to come.
LEMMA SendingMoves ==
  ASSUME IInv, stream # <<>>, stream' = Tail(stream),
         UNCHANGED <<storeVars, monitorVars>>,
         NEW m \in 0..Len(stream), NEW n \in Nat, m > 0 => n = m - 1, m = 0 => n = 0,
         NEW k \in Key, Sending(k, m), m = 0 => stream[1].ver < rows[k]
  PROVE  Sending(k, n)'
<1>1. CASE rows[k] > prev
  BY <1>1, WatchQuiet DEF Sending
<1>2. CASE \E i \in 1..Len(stream) : i > m /\ stream[i] = [ver |-> rows[k], key |-> k]
  <2>1. PICK i \in 1..Len(stream) : i > m /\ stream[i] = [ver |-> rows[k], key |-> k]
    BY <1>2
  <2>2. i > 1
    <3>1. CASE m = 0
      <4>1. stream[i].ver = rows[k] /\ rows[k] \in Int
        BY <2>1, Types
      <4>2. i # 1
        BY <3>1, <4>1
      <4> QED BY <4>2
    <3> QED BY <2>1, <3>1
  <2>3. i - 1 \in 1..Len(stream') /\ stream'[i - 1] = stream[i] /\ i - 1 > n
    BY <2>1, <2>2, TakeIs
  <2> QED BY <2>1, <2>3, WatchQuiet DEF Sending
<1> QED BY <1>1, <1>2 DEF Sending

LEMMA ReadMarkerStep ==
  ASSUME IInv, ReadMarker
  PROVE  IInv'
<1>1. /\ stream # <<>> /\ stream' = Tail(stream) /\ stream[1] = Marker /\ missed # Streaming
      /\ lastSerial' = Max({lastSerial, missed}) /\ missed' = Streaming
      /\ UNCHANGED <<storeVars, monitorVars, watcherLock, conn, received, overtaken, faults>>
  <2>1. stream # <<>> /\ stream' = Tail(stream)
    BY DEF ReadMarker
  <2> QED BY <2>1, TakeIs DEF ReadMarker
<1>2. MarkerAt(1) /\ RowsBut(1) /\ PassedOn(1)
  <2>1. PICK m \in 0..Len(stream) : MarkerAt(m) /\ RowsBut(m) /\ PassedOn(m)
    BY DEF IInv, Lines
  <2>2. m > 0
    BY <1>1, <2>1, TakeIs DEF MarkerAt
  <2>3. m = 1
    BY <1>1, <2>1, <2>2, TakeIs, WatchAssumption DEF RowsBut, Marker
  <2> QED BY <2>1, <2>3
<1>3. /\ missed \in Nat /\ lastSerial \in Nat /\ lastSerial' \in {lastSerial, missed}
      /\ lastSerial <= lastSerial' /\ missed <= lastSerial'
  <2>1. missed \in Nat /\ lastSerial \in Nat
    BY <1>1, Types DEF Streaming
  <2> QED BY <1>1, <2>1, MaxOfTwo
<1>4. TypeOK'
  <2>1. lastSerial' \in Version
    BY <1>1, <1>3 DEF IInv, TypeOK
  <2> QED BY <1>1, <2>1, TakeIs, WatchQuiet DEF IInv, TypeOK
<1>5. Lines'
  <2>1. 0 \in 0..Len(stream') /\ MarkerAt(0)'
    BY <1>1, TakeIs DEF MarkerAt
  <2>2. 1 \in 0..Len(stream)
    BY TakeIs, <1>1
  <2> QED BY <1>1, <1>2, <2>1, <2>2, LinesMove
<1>6. ~overtaken => /\ Later(lastSerial) /\ Later(missed)
                    /\ \A k \in Key : rows[k] > lastSerial => Catching(k, 1)
  BY <1>1, <1>2, TakeIs DEF IInv, Covered
<1>7. ASSUME ~overtaken, NEW k \in Key, rows[k] > lastSerial
      PROVE  \/ rows[k] <= missed /\ [ver |-> rows[k], key |-> k] \in received
             \/ rows[k] > missed /\ Sending(k, 1)
  <2>1. Catching(k, 1)
    BY <1>6, <1>7
  <2> QED BY <2>1 DEF Catching
<1>8. Covered'
  <2> SUFFICES ASSUME ~overtaken PROVE Covered'
    BY <1>1 DEF Covered
  <2>1. Later(lastSerial)'
    BY <1>1, <1>3, <1>6, WatchQuiet DEF Later
  <2>2. ASSUME NEW m \in 0..Len(stream'), Connected', MarkerAt(m)' PROVE m = 0
    BY <1>1, <2>2 DEF MarkerAt
  <2>3. ASSUME NEW k \in Key, rows[k] > lastSerial' PROVE Sending(k, 0)'
    <3>1. rows[k] > lastSerial /\ ~(rows[k] <= missed)
      BY <1>3, <2>3, Types
    <3>2. Sending(k, 1)
      BY <1>7, <3>1, Zenon
    <3>3. 1 \in 0..Len(stream) /\ 0 \in Nat /\ 0 = 1 - 1 /\ 1 # 0
      BY TakeIs, <1>1
    <3>4. stream # <<>> /\ stream' = Tail(stream) /\ UNCHANGED <<storeVars, monitorVars>>
      BY <1>1
    <3> QED BY <3>2, <3>3, <3>4, SendingMoves, Zenon
  <2>4. \A k \in Key : rows'[k] > lastSerial' => Sending(k, 0)'
    BY <2>3, <1>1, WatchQuiet
  <2> QED BY <2>1, <2>2, <2>4 DEF Covered
<1>9. StableSerial'
  <2> SUFFICES ASSUME ~overtaken, NEW k \in Key, 0 < rows[k], rows[k] <= lastSerial'
               PROVE  [ver |-> rows[k], key |-> k] \in received
    BY <1>1, WatchQuiet DEF StableSerial
  <2>1. CASE rows[k] <= lastSerial
    BY <2>1 DEF IInv, StableSerial
  <2>2. CASE rows[k] > lastSerial
    <3>1. rows[k] <= missed
      BY <1>3, <2>2, Types
    <3> QED BY <1>3, <1>7, <2>2, <3>1, Types
  <2> QED BY <2>1, <2>2, <1>3, Types
<1> QED BY <1>1, <1>4, <1>5, <1>8, <1>9, WatchQuiet DEF IInv

\* After the marker the client reads what the monitor passes on, in order.
LEMMA ReadStreamed ==
  ASSUME IInv, ReadRow, missed = Streaming
  PROVE  Lines' /\ Covered' /\ StableSerial'
<1> DEFINE u == stream[1]
<1>1. /\ stream # <<>> /\ stream' = Tail(stream) /\ u # Marker
      /\ u.ver > lastSerial \/ (u.ver = 0 /\ lastSerial = 0)
      /\ lastSerial' = u.ver /\ missed' = Streaming /\ received' = received \cup {u}
      /\ UNCHANGED <<storeVars, monitorVars, watcherLock, conn, overtaken, faults>>
  <2>1. stream # <<>> /\ stream' = Tail(stream)
    BY DEF ReadRow
  <2>2. Head(stream) = u /\ u.ver \in Nat /\ lastSerial \in Nat
    BY <2>1, TakeIs, Types
  <2> QED BY <2>1, <2>2 DEF ReadRow, ProtocolError
<1>2. Connected /\ u.ver \in Nat /\ lastSerial \in Nat /\ prev \in Nat /\ 1 \in 1..Len(stream)
  BY <1>1, TakeIs, Types
<1>3. MarkerAt(0) /\ RowsBut(0) /\ PassedOn(0)
  <2>1. PICK m \in 0..Len(stream) : MarkerAt(m) /\ RowsBut(m) /\ PassedOn(m)
    BY DEF IInv, Lines
  <2>2. m = 0
    BY <2>1 DEF MarkerAt
  <2> QED BY <2>1, <2>2
<1>4. u.ver <= prev /\ u.ver < nextRowID /\ \A i \in 1..Len(stream) : i > 1 => u.ver < stream[i].ver
  BY <1>2, <1>3 DEF RowsBut, PassedOn
<1> HIDE DEF u
<1>5. Lines'
  <2>1. 0 \in 0..Len(stream') /\ MarkerAt(0)' /\ 0 \in 0..Len(stream)
    BY <1>1, TakeIs DEF MarkerAt
  <2> QED BY <1>1, <1>3, <2>1, LinesMove
<1>6. ~overtaken => \A k \in Key : rows[k] > lastSerial => Sending(k, 0)
  <2>1. 0 \in 0..Len(stream)
    BY <1>2
  <2> QED BY <1>2, <1>3, <2>1 DEF IInv, Covered
<1>7. Covered'
  <2> SUFFICES ASSUME ~overtaken PROVE Covered'
    BY <1>1 DEF Covered
  <2>1. \A x \in Unstored : x.ver \in Nat /\ (x.ver > prev \/ x.ver = 0)
    BY UnstoredIs, Types DEF IInv, MonitorInv, Numbered, Ahead
  <2>2. \A x \in Unstored : x.ver > u.ver \/ x.ver = 0
    BY <1>2, <1>4, <2>1
  <2>3. Later(lastSerial)'
    BY <1>1, <1>4, <2>2, WatchQuiet DEF Later
  <2>4. ASSUME NEW m \in 0..Len(stream'), Connected', MarkerAt(m)' PROVE m = 0
    BY <1>1, <2>4 DEF MarkerAt
  <2>5. ASSUME NEW k \in Key, rows[k] > u.ver PROVE Sending(k, 0)'
    <3>1. rows[k] > lastSerial /\ u.ver < rows[k]
      BY <1>1, <1>2, <2>5, Types
    <3>2. Sending(k, 0)
      BY <1>6, <3>1, Zenon
    <3>3. 0 \in 0..Len(stream) /\ 0 \in Nat /\ 0 = 0 /\ ~(0 > 0) /\ stream[1].ver < rows[k]
      BY <1>2, <3>1 DEF u
    <3>4. stream # <<>> /\ stream' = Tail(stream) /\ UNCHANGED <<storeVars, monitorVars>>
      BY <1>1
    <3> QED BY <3>2, <3>3, <3>4, SendingMoves, Zenon
  <2>6. \A k \in Key : rows'[k] > lastSerial' => Sending(k, 0)'
    BY <2>5, <1>1, WatchQuiet
  <2> QED BY <2>3, <2>4, <2>6 DEF Covered
<1>8. StableSerial'
  <2> SUFFICES ASSUME ~overtaken, NEW k \in Key, 0 < rows[k], rows[k] <= u.ver
               PROVE  [ver |-> rows[k], key |-> k] \in received \cup {u}
    BY <1>1, WatchQuiet DEF StableSerial
  <2>1. CASE rows[k] <= lastSerial
    BY <2>1 DEF IInv, StableSerial
  <2>2. CASE rows[k] > lastSerial
    <3>1. Sending(k, 0) /\ ~(rows[k] > prev)
      BY <1>2, <1>4, <1>6, <2>2, Types
    <3>2. PICK i \in 1..Len(stream) : i > 0 /\ stream[i] = [ver |-> rows[k], key |-> k]
      BY <3>1 DEF Sending
    <3>3. stream[i].ver = rows[k] /\ rows[k] \in Int
      BY <3>2, Types
    <3>4. ~(i > 1)
      BY <1>2, <1>4, <3>3
    <3>5. i = 1
      BY <3>4
    <3> QED BY <3>2, <3>5 DEF u
  <2> QED BY <2>1, <2>2, <1>2, Types
<1> QED BY <1>5, <1>7, <1>8

\* Before the marker it reads the rows of the scan, in any order.
LEMMA ReadScanned ==
  ASSUME IInv, ReadRow, missed # Streaming
  PROVE  Lines' /\ Covered' /\ StableSerial'
<1> DEFINE u == stream[1]
<1>1. /\ stream # <<>> /\ stream' = Tail(stream) /\ u # Marker
      /\ missed' = Max({missed, u.ver}) /\ lastSerial' = lastSerial /\ received' = received \cup {u}
      /\ UNCHANGED <<storeVars, monitorVars, watcherLock, conn, overtaken, faults>>
  <2>1. stream # <<>> /\ stream' = Tail(stream)
    BY DEF ReadRow
  <2> QED BY <2>1, TakeIs DEF ReadRow
<1>2. /\ Connected /\ u.ver \in Nat /\ lastSerial \in Nat /\ prev \in Nat /\ missed \in Nat
      /\ 1 \in 1..Len(stream)
  BY <1>1, TakeIs, Types DEF Streaming
<1>3. /\ missed' \in Nat /\ missed <= missed' /\ u.ver <= missed' /\ missed' \in {missed, u.ver}
      /\ missed' # Streaming
  BY <1>1, <1>2, MaxOfTwo DEF Streaming
<1>4. PICK m \in 0..Len(stream) : MarkerAt(m) /\ RowsBut(m) /\ PassedOn(m)
  BY DEF IInv, Lines
<1>5. m > 1 /\ stream[m] = Marker
  <2>1. m > 0 /\ stream[m] = Marker
    BY <1>2, <1>4 DEF MarkerAt
  <2> QED BY <1>1, <2>1
<1> HIDE DEF u
<1>6. Connected'
  BY <1>1, <1>2 DEF Connected
<1>7. m - 1 \in 0..Len(stream') /\ m - 1 \in Nat /\ MarkerAt(m - 1)'
  <2>1. m \in 1..Len(stream)
    BY <1>5
  <2>2. m - 1 \in 1..Len(stream') /\ stream'[m - 1] = Marker
    BY <1>1, <1>5, <2>1, TakeIs
  <2> QED BY <1>3, <1>6, <2>2 DEF MarkerAt
<1>8. Lines'
  BY <1>1, <1>4, <1>5, <1>7, LinesMove
<1>9. ~overtaken => /\ Later(lastSerial) /\ Later(missed)
                    /\ \A i \in 1..Len(stream) : i < m => Later(stream[i].ver)
                    /\ \A k \in Key : rows[k] > lastSerial => Catching(k, m)
  BY <1>2, <1>4, <1>5 DEF IInv, Covered
<1>10. \A i \in 1..Len(stream') : i < m - 1 => /\ i + 1 \in 1..Len(stream) /\ i + 1 < m
                                               /\ stream'[i] = stream[i + 1]
  BY <1>1, TakeIs
<1>11. ASSUME ~overtaken, NEW k \in Key, rows[k] > lastSerial PROVE Catching(k, m - 1)'
  <2> DEFINE r == [ver |-> rows[k], key |-> k]
  <2>1. rows[k] \in Int /\ r.ver = rows[k]
    BY Types
  <2>2. Catching(k, m)
    BY <1>9, <1>11
  <2>3. CASE rows[k] <= missed /\ r \in received
    <3>1. rows[k] <= missed' /\ r \in received'
      BY <1>1, <1>2, <1>3, <2>1, <2>3
    <3> QED BY <3>1, <1>1, WatchQuiet DEF Catching
  <2>4. CASE \E i \in 1..Len(stream) : i < m /\ stream[i] = r
    <3>1. PICK i \in 1..Len(stream) : i < m /\ stream[i] = r
      BY <2>4
    <3>2. CASE i = 1
      <4>1. u = r
        BY <3>1, <3>2 DEF u
      <4>2. rows[k] <= missed' /\ r \in received'
        BY <1>1, <1>3, <2>1, <4>1
      <4> QED BY <4>2, <1>1, WatchQuiet DEF Catching
    <3>3. CASE i # 1
      <4>1. i - 1 \in 1..Len(stream') /\ stream'[i - 1] = r /\ i - 1 < m - 1
        BY <1>1, <3>1, <3>3, TakeIs
      <4> QED BY <4>1, <1>1, WatchQuiet DEF Catching
    <3> QED BY <3>2, <3>3
  <2>5. CASE /\ rows[k] > missed /\ \A i \in 1..Len(stream) : i < m => rows[k] > stream[i].ver
             /\ Sending(k, m)
    <3>1. rows[k] > u.ver
      BY <1>2, <1>5, <2>5 DEF u
    <3>2. rows[k] > missed'
      BY <1>3, <2>5, <3>1
    <3>3. \A i \in 1..Len(stream') : i < m - 1 => rows[k] > stream'[i].ver
      BY <1>10, <2>5
    <3>4. m \in 0..Len(stream) /\ m - 1 \in Nat /\ m # 0
      BY <1>4, <1>5, <1>7
    <3>5. stream # <<>> /\ stream' = Tail(stream) /\ UNCHANGED <<storeVars, monitorVars>>
      BY <1>1
    <3>6. Sending(k, m - 1)'
      BY <2>5, <3>4, <3>5, SendingMoves, Zenon
    <3> QED BY <3>2, <3>3, <3>6, <1>1, WatchQuiet DEF Catching
  <2> QED BY <2>2, <2>3, <2>4, <2>5, Zenon DEF Catching
<1>12. Covered'
  <2> SUFFICES ASSUME ~overtaken PROVE Covered'
    BY <1>1 DEF Covered
  <2>1. Later(lastSerial)'
    BY <1>1, <1>9, WatchQuiet DEF Later
  <2>2. Later(missed')
    <3>1. Later(missed) /\ Later(u.ver)
      BY <1>2, <1>5, <1>9 DEF u
    <3> QED BY <1>3, <3>1
  <2>3. Later(missed)'
    BY <2>2, <1>1, WatchQuiet DEF Later
  <2>4. ASSUME NEW i \in 1..Len(stream'), i < m - 1 PROVE Later(stream[i].ver)'
    <3>1. Later(stream[i + 1].ver) /\ stream'[i] = stream[i + 1]
      BY <1>9, <1>10, <2>4
    <3> QED BY <3>1, <1>1, WatchQuiet DEF Later
  <2>5. ASSUME NEW x \in 0..Len(stream'), Connected', MarkerAt(x)' PROVE x = m - 1
    <3>1. x > 0 /\ x \in 1..Len(stream') /\ stream'[x] = Marker
      BY <1>3, <2>5 DEF MarkerAt
    <3>2. x + 1 \in 1..Len(stream) /\ stream[x + 1] = Marker
      BY <1>1, <3>1, TakeIs
    <3>3. x + 1 = m
      BY <1>4, <3>2, WatchAssumption DEF RowsBut, Marker
    <3> QED BY <3>3
  <2>6. \A k \in Key : rows'[k] > lastSerial' => Catching(k, m - 1)'
    BY <1>11, <1>1, WatchQuiet
  <2>7. \A i \in 1..Len(stream') : i < m - 1 => Later(stream[i].ver)'
    BY <2>4
  <2>8. m - 1 > 0
    BY <1>5
  <2> QED BY <2>1, <2>3, <2>5, <2>6, <2>7, <2>8 DEF Covered
<1>13. StableSerial'
  BY <1>1, WatchQuiet DEF IInv, StableSerial
<1> QED BY <1>8, <1>12, <1>13

LEMMA ReadRowStep ==
  ASSUME IInv, ReadRow
  PROVE  IInv'
<1>1. stream # <<>> /\ stream' = Tail(stream)
  BY DEF ReadRow
<1>2. Head(stream) = stream[1] /\ stream[1] \in Row /\ stream' \in Seq(Row)
  BY <1>1, TakeIs
<1>3. stream[1].ver \in Version /\ Version \subseteq Nat
  BY <1>2, Types DEF Row
<1>4. /\ lastSerial' \in Version /\ missed' \in Version \cup {Streaming} /\ received' \subseteq Row
      /\ UNCHANGED <<storeVars, monitorVars, watcherLock, conn, overtaken, faults>>
  <2>1. lastSerial \in Version /\ missed \in Version \cup {Streaming} /\ received \subseteq Row
    BY DEF IInv, TypeOK
  <2>2. missed # Streaming => Max({missed, stream[1].ver}) \in {missed, stream[1].ver}
    BY <1>3, <2>1, MaxOfTwo
  <2> QED BY <1>2, <1>3, <2>1, <2>2 DEF ReadRow
<1>5. TypeOK'
  BY <1>2, <1>4, WatchQuiet DEF IInv, TypeOK
<1> QED BY <1>4, <1>5, ReadStreamed, ReadScanned, WatchQuiet DEF IInv
-----------------------------------------------------------------------------
(* The theorems *)

LEMMA StepIInv ==
  ASSUME IInv, [Next]_vars
  PROVE  IInv'
<1>1. ASSUME NEW w \in Writer, Write(w) PROVE IInv'
  <2>1. ASSUME NEW K \in SUBSET Key \ {{}}, LockKeys(w, K) PROVE IInv'
    BY <2>1, LockKeysStep
  <2>2. CASE Allocate(w)
    BY <2>2, AllocateStep
  <2>3. CASE Persist(w)
    BY <2>3, PersistStep
  <2>4. CASE StorageError(w)
    BY <2>4, StorageErrorStep
  <2>5. CASE NotifyWatchers(w)
    BY <2>5, NotifyWatchersStep
  <2>6. CASE DiscardIDRange(w)
    BY <2>6, DiscardIDRangeStep
  <2> QED BY <1>1, <2>1, <2>2, <2>3, <2>4, <2>5, <2>6 DEF Write
<1>2. CASE Watch
  BY <1>2, OpenWatchStep, ScanRowsStep, AddListenerStep, ReadMarkerStep, ReadRowStep,
     RefuseRowStep DEF Watch
<1>3. CASE LoseConnection
  BY <1>3, LoseConnectionStep
<1>4. ASSUME NEW k \in Key, Forget(k) PROVE IInv'
  BY <1>4, ForgetStep
<1>5. CASE Restart
  BY <1>5, RestartStep
<1>6. CASE UNCHANGED vars
  <2>1. UNCHANGED <<storeVars, monitorVars, clientVars, watcherLock, faults>>
    BY <1>6 DEF vars
  <2>2. UNCHANGED <<rows, nextRowID, held, pc, batch, prev, heap, dropped>>
    BY <2>1 DEF storeVars, monitorVars
  <2>3. UNCHANGED <<conn, stream, lastSerial, missed, received, overtaken>>
    BY <2>1 DEF clientVars
  <2>4. TypeOK'
    BY <2>1, <2>2, <2>3 DEF IInv, TypeOK
  <2>5. Lines' /\ Covered' /\ StableSerial'
    BY <2>1, <2>2, ClientQuiet, UnstoredIs, UnstoredIsNext, Types
  <2> QED BY <2>1, <2>4, <2>5, WatchQuiet DEF IInv
<1> QED BY <1>1, <1>2, <1>3, <1>4, <1>5, <1>6 DEF Next

LEMMA Inductive == Spec => []IInv
BY InitIInv, StepIInv, PTL DEF Spec

\* The monitor refuses no version but 0, every version it still waits for is
\* held by a writer that will submit or discard it (notifyWatchers and
\* discardIDRange of Store.Batch and Store.Merge), and a listener is sent
\* strictly increasing versions after the end marker: with any number of
\* writers that fail or finish in any order, and any number of restarts.
THEOREM PassesOnInOrder == Spec => []PassedOnInOrder
<1>1. ASSUME IInv PROVE StreamOrdered
  <2>1. PICK m \in 0..Len(stream) : MarkerAt(m) /\ PassedOn(m)
    BY <1>1 DEF IInv, Lines
  <2>2. missed = Streaming => m = 0
    BY <2>1 DEF MarkerAt
  <2> QED BY <2>1, <2>2 DEF StreamOrdered, PassedOn
<1>2. IInv => PassedOnInOrder
  BY <1>1 DEF IInv, MonitorInv, PassedOnInOrder
<1> QED BY <1>2, Inductive, PTL

\* The client's stable serial number (client_relay/client.go) covers every
\* stored row up to it, unless a catch-up scan overtook a row in flight or a
\* restart gave out row IDs that the client had passed.
THEOREM SerialStaysStable == Spec => []StableSerial
<1>1. IInv => StableSerial
  BY DEF IInv
<1> QED BY <1>1, Inductive, PTL
=============================================================================
