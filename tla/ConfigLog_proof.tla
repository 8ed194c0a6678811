---------------------------- MODULE ConfigLog_proof ----------------------------
(***************************************************************************)
(* Proofs about ConfigLog, for any commands, any interval of compaction    *)
(* and any number of entries, crashes and other faults.                    *)
(***************************************************************************)
EXTENDS ConfigLog, FiniteSetTheorems, SequenceTheorems, TLAPS

MemType == [index : Nat, data : Seq(Entry), ents : Seq(Entry)]

\* A disk whose entries are those after the snapshot up to hi.
DiskUpTo(d, hi) ==
  /\ d = [index |-> d.index, data |-> d.data, commit |-> d.commit, entries |-> d.entries]
  /\ d.index \in Nat /\ d.data \in Seq(Entry) /\ d.commit \in Nat
  /\ hi \in Nat /\ d.index <= hi
  /\ d.entries \in [d.index + 1 .. hi -> Entry]

\* Memory holds what the disk holds.
Mirror(m, d) ==
  /\ m.index = d.index /\ m.data = d.data
  /\ \A i \in FirstIndex(m) .. LastIndex(m) : d.entries[i] = EntryAt(m, i)

TypeInv ==
  /\ log \in Seq(Commands \cup {Other})
  /\ wire \in SUBSET Commands
  /\ calls \in [Commands -> {"idle", "waiting", "ok", "failed"}]
  /\ storage = [mem |-> storage.mem, disk |-> storage.disk]
  /\ storage.mem \in MemType
  /\ up \in {"down", "replay", "ready", "running", "stopped"}
  /\ lib \in [committed : Nat, applied : Nat]
  /\ todo \in Seq(Nat) /\ busy \in BOOLEAN
  /\ last \in [committed : Nat, replay : Nat]
  /\ state \in Seq(Entry) /\ told \in Seq(Entry)
  /\ faults \in 0 .. MaxFaults

\* At any moment the disk has the agreed log up to its commit index, the part
\* up to its own index as a snapshot, without a gap.
DiskKept(d, l) ==
  /\ \E hi \in Nat : DiskUpTo(d, hi) /\ d.commit <= hi
  /\ d.index <= d.commit /\ d.commit <= Len(l)
  /\ d.data = SubSeq(l, 1, d.index)
  /\ \A i \in d.index + 1 .. d.commit : d.entries[i] = l[i]

\* While the process lives: how far memory, library, state and what is left of
\* the current Ready are.
Applying ==
  /\ DiskUpTo(storage.disk, LastIndex(storage.mem)) /\ Mirror(storage.mem, storage.disk)
  /\ lib.committed = storage.disk.commit /\ lib.applied <= lib.committed
  /\ lib.committed <= LastIndex(storage.mem)
  /\ Len(state) \in storage.mem.index .. lib.committed
  /\ state = SubSeq(log, 1, Len(state))
  /\ last.committed = Len(state) \/ (last.committed = 0 /\ Len(state) = storage.mem.index)
  /\ up = "replay" => last.replay = lib.committed /\ Len(state) < lib.committed
  /\ busy => up # "stopped" /\ todo = Indices(Len(state) + 1, lib.committed)
  /\ ~busy /\ up = "replay" => Len(state) = lib.applied
  /\ ~busy /\ up \in {"ready", "running"} => Len(state) = lib.committed /\ lib.applied = lib.committed

NodeInv ==
  /\ DiskKept(storage.disk, log)
  /\ IF up = "down" THEN /\ ~busy /\ state = <<>> /\ told = <<>>
                         /\ lib = [committed |-> 0, applied |-> 0]
     ELSE Applying
  /\ CoordinatorTold

IInv == TypeInv /\ NodeInv /\ AnsweredDurable
-----------------------------------------------------------------------------
(* The operations of RaftStorage *)

\* What the disk has is an empty interval or starts after the snapshot.
LEMMA FirstKey ==
  ASSUME NEW a \in Nat, NEW b \in Nat, a <= b
  PROVE  Min(a .. b) = a
<1>1. a \in a .. b /\ \A y \in a .. b : a <= y
  OBVIOUS
<1>2. \A x \in a .. b : (\A y \in a .. b : x <= y) => x = a
  BY <1>1
<1> QED BY <1>1, <1>2 DEF Min

LEMMA FunctionIsSeq ==
  ASSUME NEW S, NEW n \in Nat, NEW f \in [1 .. n -> S]
  PROVE  f \in Seq(S) /\ Len(f) = n
OBVIOUS

\* Opening a disk without gaps succeeds and gives what is on it.
LEMMA OpenIs ==
  ASSUME NEW d, NEW hi, DiskUpTo(d, hi)
  PROVE  /\ Readable(d)
         /\ Open(d) \in MemType /\ LastIndex(Open(d)) = hi /\ Mirror(Open(d), d)
<1>1. d.index \in Nat /\ hi \in Nat /\ d.index <= hi
  BY DEF DiskUpTo
<1>2. d.data \in Seq(Entry) /\ d.entries \in [d.index + 1 .. hi -> Entry]
  BY DEF DiskUpTo
<1>3. DOMAIN d.entries = d.index + 1 .. hi
  BY <1>2
<1>4. Contiguous(d)
  BY <1>1, <1>3 DEF Contiguous
<1>5. CASE hi = d.index
  <2>1. d.index + 1 .. hi = {}
    BY <1>1, <1>5
  <2>2. Open(d) = [index |-> d.index, data |-> d.data, ents |-> <<>>]
    BY <1>3, <2>1 DEF Open
  <2> QED BY <1>1, <1>2, <1>3, <1>4, <1>5, <2>1, <2>2 DEF Readable, MemType, LastIndex, Mirror, FirstIndex
<1>6. CASE hi # d.index
  <2> DEFINE n == hi - d.index
             first == d.index + 1
  <2>1. /\ n \in Nat \ {0} /\ first \in Nat /\ first <= hi /\ hi - first + 1 = n /\ d.index + n = hi
        /\ first - first = 0 /\ first \in first .. hi
        /\ \A k \in 1 .. n : first + k - 1 \in first .. hi /\ first + k - 1 = d.index + k
        /\ \A i \in first .. hi : i - d.index \in 1 .. n /\ d.index + (i - d.index) = i
    BY <1>1, <1>6
  <2>2. DOMAIN d.entries = first .. hi /\ d.entries \in [first .. hi -> Entry]
    BY <1>2, <1>3
  <2>3. d.index + 1 = first
    OBVIOUS
  <2> HIDE DEF n, first
  <2>4. Min(DOMAIN d.entries) = first /\ DOMAIN d.entries # {}
    <3>1. Min(first .. hi) = first
      BY <1>1, <2>1, FirstKey
    <3> QED BY <2>1, <2>2, <3>1
  <2>5. Cardinality(DOMAIN d.entries) = n
    <3>1. first \in Int /\ hi \in Int /\ ~(first > hi) /\ hi - first + 1 = n
      BY <1>1, <2>1
    <3>2. Cardinality(first .. hi) = IF first > hi THEN 0 ELSE hi - first + 1
      BY <3>1, FS_Interval
    <3> QED BY <2>2, <3>1, <3>2
  <2> DEFINE es == [k \in 1 .. Cardinality(DOMAIN d.entries) |-> d.entries[first + k - 1]]
             empty == [index |-> d.index, data |-> d.data, ents |-> <<>>]
  <2>6. es \in [1 .. n -> Entry] /\ \A k \in 1 .. n : es[k] = d.entries[d.index + k]
    BY <2>1, <2>2, <2>5
  <2>7. es \in Seq(Entry) /\ Len(es) = n
    <3> HIDE DEF es
    <3> QED BY <2>1, <2>6, FunctionIsSeq
  <2>8. Open(d) = MemoryAppend(empty, first, es)
    BY <2>4 DEF Open
  <2> HIDE DEF es
  <2>9. FirstIndex(empty) = first
    BY <2>3 DEF FirstIndex
  <2>10. Truncated(empty, first, es) = [from |-> first, ents |-> es]
    BY <2>1, <2>9 DEF Truncated
  <2>11. es # <<>>
    BY <2>1, <2>7
  <2>12. SubSeq(<<>>, 1, 0) \o es = es
    BY <2>7
  <2>13. MemoryAppend(empty, first, es) = [empty EXCEPT !.ents = SubSeq(empty.ents, 1, 0) \o es]
    <3> HIDE DEF empty
    <3>1. MemoryAppend(empty, first, es) = [empty EXCEPT !.ents = SubSeq(empty.ents, 1, first - FirstIndex(empty)) \o es]
      BY <2>10, <2>11 DEF MemoryAppend
    <3> QED BY <2>1, <2>9, <3>1
  <2>14. Open(d) = [index |-> d.index, data |-> d.data, ents |-> es]
    BY <2>8, <2>12, <2>13
  <2>15. ASSUME NEW i \in first .. hi PROVE d.entries[i] = es[i - d.index]
    <3>1. PICK k \in 1 .. n : k = i - d.index /\ d.index + k = i
      BY <2>1
    <3>2. es[k] = d.entries[d.index + k]
      BY <2>6
    <3> QED BY <3>1, <3>2
  <2>16. Open(d) \in MemType
    BY <1>1, <1>2, <2>7, <2>14 DEF MemType
  <2>17. Readable(d)
    BY <1>4, <2>1, <2>3, <2>4 DEF Readable
  <2>18. LastIndex(Open(d)) = hi
    BY <2>1, <2>7, <2>14 DEF LastIndex
  <2>19. Mirror(Open(d), d)
    BY <2>3, <2>14, <2>15, <2>18 DEF FirstIndex, Mirror, EntryAt
  <2> QED BY <2>16, <2>17, <2>18, <2>19
<1> QED BY <1>5, <1>6

\* Memory that mirrors the disk is what opening it would give.
LEMMA MirrorIsOpen ==
  ASSUME NEW m \in MemType, NEW d, DiskUpTo(d, LastIndex(m)), Mirror(m, d)
  PROVE  Open(d) = m
<1> DEFINE o == Open(d)
<1>1. o \in MemType /\ LastIndex(o) = LastIndex(m) /\ Mirror(o, d)
  BY OpenIs
<1> HIDE DEF o
<1>2. o.index = m.index /\ o.data = m.data
  BY <1>1 DEF Mirror
<1>3. o.ents \in Seq(Entry) /\ m.ents \in Seq(Entry) /\ m.index \in Nat
  BY <1>1 DEF MemType
<1>4. Len(o.ents) = Len(m.ents)
  BY <1>1, <1>2, <1>3 DEF LastIndex
<1>5. \A k \in 1 .. Len(o.ents) : o.ents[k] = m.ents[k]
  <2> SUFFICES ASSUME NEW k \in 1 .. Len(o.ents) PROVE o.ents[k] = m.ents[k]
    OBVIOUS
  <2>1. m.index + k \in FirstIndex(m) .. LastIndex(m) /\ (m.index + k) - m.index = k
    BY <1>3, <1>4 DEF FirstIndex, LastIndex
  <2>2. m.index + k \in FirstIndex(o) .. LastIndex(o)
    BY <1>1, <1>2, <2>1 DEF FirstIndex
  <2> QED BY <1>1, <1>2, <2>1, <2>2 DEF Mirror, EntryAt
<1>6. o.ents = m.ents
  BY <1>3, <1>4, <1>5, SeqEqual
<1>7. o = m
  BY <1>1, <1>2, <1>6 DEF MemType
<1> QED BY <1>7 DEF o

\* What remains of m and d after entries es have been saved from index `from' on.
Appended(s, m, d, commit, from, es) ==
  /\ s = [mem |-> s.mem, disk |-> s.disk] /\ s.mem \in MemType
  /\ s.mem.index = m.index /\ s.mem.data = m.data /\ LastIndex(s.mem) = from + Len(es) - 1
  /\ \A i \in FirstIndex(m) .. from - 1 : EntryAt(s.mem, i) = EntryAt(m, i)
  /\ \A i \in from .. from + Len(es) - 1 : EntryAt(s.mem, i) = es[i - from + 1]
  /\ DiskUpTo(s.disk, LastIndex(s.mem)) /\ Mirror(s.mem, s.disk)
  /\ s.disk.commit = commit

\* A disk up to hi without its entries from a to b.
Purged(d, hi, a, b) ==
  [index |-> d.index, data |-> d.data, commit |-> d.commit,
   entries |-> [i \in (d.index + 1 .. hi) \ (a .. b) |-> d.entries[i]]]

LEMMA PurgeIs ==
  ASSUME NEW d, NEW hi, DiskUpTo(d, hi), NEW a, NEW b
  PROVE  Purge(d, a, b) = Purged(d, hi, a, b)
<1>1. d = [index |-> d.index, data |-> d.data, commit |-> d.commit, entries |-> d.entries]
  BY DEF DiskUpTo
<1>2. DOMAIN d.entries = d.index + 1 .. hi
  BY DEF DiskUpTo
<1> DEFINE e == [i \in (d.index + 1 .. hi) \ (a .. b) |-> d.entries[i]]
<1>3. Restrict(d.entries, DOMAIN d.entries \ (a .. b)) = e
  BY <1>2 DEF Restrict
<1>4. Purge(d, a, b) = [d EXCEPT !.entries = e]
  BY <1>3 DEF Purge
<1> HIDE DEF e
<1>5. [d EXCEPT !.entries = e] = [index |-> d.index, data |-> d.data, commit |-> d.commit, entries |-> e]
  BY <1>1
<1> QED BY <1>4, <1>5 DEF e, Purged

\* Positions after n entries have been put at index f behind a snapshot at index a and k entries.
LEMMA Offsets ==
  ASSUME NEW a \in Nat, NEW k \in Nat, NEW n \in Nat \ {0}, NEW f \in a + 1 .. a + k + 1,
         NEW p, p = f - (a + 1), NEW to, to = f + n - 1
  PROVE  /\ p \in 0 .. k /\ to \in Nat /\ a <= to /\ a + (p + n) = to
         /\ \A i \in a + 1 .. f - 1 : i - a \in 1 .. p /\ i \in a + 1 .. a + k
         /\ \A i \in f .. to : /\ i - a \in 1 .. p + n /\ ~ (i - a <= p)
                               /\ (i - a) - p = i - f + 1 /\ i - f + 1 \in 1 .. n
         /\ ((a + 1 .. a + k) \ (f .. a + k)) \cup (f .. to) = a + 1 .. to
         /\ \A i \in a + 1 .. to : i \notin f .. to => i \in a + 1 .. f - 1
         /\ \A i \in 1 .. p + n : i <= p => i \in 1 .. p
<1>1. p \in 0 .. k /\ to \in Nat /\ a <= to /\ a + (p + n) = to
  OBVIOUS
<1>2. \A i \in a + 1 .. f - 1 : i - a \in 1 .. p /\ i \in a + 1 .. a + k
  OBVIOUS
<1>3. \A i \in f .. to : i - a \in 1 .. p + n /\ ~ (i - a <= p) /\ (i - a) - p = i - f + 1 /\ i - f + 1 \in 1 .. n
  OBVIOUS
<1>4. ((a + 1 .. a + k) \ (f .. a + k)) \cup (f .. to) = a + 1 .. to
  <2>1. \A i : i \in ((a + 1 .. a + k) \ (f .. a + k)) \cup (f .. to) => i \in a + 1 .. to
    OBVIOUS
  <2>2. \A i : i \in a + 1 .. to => i \in ((a + 1 .. a + k) \ (f .. a + k)) \cup (f .. to)
    OBVIOUS
  <2> QED BY <2>1, <2>2
<1>5. \A i \in a + 1 .. to : i \notin f .. to => i \in a + 1 .. f - 1
  OBVIOUS
<1>6. \A i \in 1 .. p + n : i <= p => i \in 1 .. p
  OBVIOUS
<1> QED BY <1>1, <1>2, <1>3, <1>4, <1>5, <1>6

\* Entries that fit are saved in memory and on disk alike, and replace what follows them.
LEMMA AppendIs ==
  ASSUME NEW m \in MemType, NEW d, DiskUpTo(d, LastIndex(m)), Mirror(m, d), NEW commit \in Nat,
         NEW from \in FirstIndex(m) .. LastIndex(m) + 1, NEW es \in Seq(Entry), es # <<>>
  PROVE  Appended(ApplyAll([mem |-> m, disk |-> d], commit, from, es, NoSnapshot), m, d, commit, from, es)
<1> DEFINE first == FirstIndex(m)
           top == LastIndex(m)
           p == from - first
           to == from + Len(es) - 1
           s == ApplyAll([mem |-> m, disk |-> d], commit, from, es, NoSnapshot)
<1>1. /\ m = [index |-> m.index, data |-> m.data, ents |-> m.ents]
      /\ m.index \in Nat /\ m.data \in Seq(Entry) /\ m.ents \in Seq(Entry)
  BY DEF MemType
<1>2. Len(es) \in Nat \ {0} /\ Len(m.ents) \in Nat
  BY <1>1, EmptySeq, LenProperties
<1>3. /\ first = m.index + 1 /\ top = m.index + Len(m.ents)
  BY DEF FirstIndex, LastIndex
<1>4. from \in first .. top + 1
  OBVIOUS
<1>5. Truncated(m, from, es) = [from |-> from, ents |-> es]
  BY <1>1, <1>3 DEF Truncated
<1> DEFINE ents == SubSeq(m.ents, 1, p) \o es
<1>6. MemoryAppend(m, from, es) = [m EXCEPT !.ents = ents]
  BY <1>5 DEF MemoryAppend
<1>a. ~ AllCompacted(m, from, es)
  <2>1. from >= first /\ from + Len(es) - 1 >= from /\ first \in Nat
    BY <1>1, <1>2, <1>3, <1>4
  <2>2. ~ (from + Len(es) - 1 < first)
    BY <1>2, <1>4, <2>1
  <2> QED BY <2>2 DEF AllCompacted
<1>7. s.mem = [index |-> m.index, data |-> m.data, ents |-> ents] /\ s = [mem |-> s.mem, disk |-> s.disk]
  BY <1>1, <1>6, <1>a DEF ApplyAll, NoSnapshot
<1> HIDE DEF first, top
<1>8. /\ p \in 0 .. Len(m.ents) /\ to \in Nat /\ m.index <= to /\ m.index + (p + Len(es)) = to
      /\ \A i \in first .. from - 1 : i - m.index \in 1 .. p /\ i \in first .. top
      /\ \A i \in from .. to : /\ i - m.index \in 1 .. p + Len(es) /\ ~ (i - m.index <= p)
                               /\ (i - m.index) - p = i - from + 1 /\ i - from + 1 \in 1 .. Len(es)
      /\ ((first .. top) \ (from .. top)) \cup (from .. to) = first .. to
      /\ \A i \in first .. to : i \notin from .. to => i \in first .. from - 1
      /\ \A i \in 1 .. p + Len(es) : i <= p => i \in 1 .. p
  <2> DEFINE a == m.index
             k == Len(m.ents)
             n == Len(es)
  <2>1. a \in Nat /\ k \in Nat /\ n \in Nat \ {0} /\ from \in a + 1 .. a + k + 1 /\ p = from - (a + 1) /\ to = from + n - 1
    BY <1>1, <1>2, <1>3, <1>4
  <2>2. first = a + 1 /\ top = a + k
    BY <1>3
  <2> HIDE DEF a, k, n, p, to
  <2>3. /\ p \in 0 .. k /\ to \in Nat /\ a <= to /\ a + (p + n) = to
        /\ \A i \in a + 1 .. from - 1 : i - a \in 1 .. p /\ i \in a + 1 .. a + k
        /\ \A i \in from .. to : /\ i - a \in 1 .. p + n /\ ~ (i - a <= p)
                               /\ (i - a) - p = i - from + 1 /\ i - from + 1 \in 1 .. n
        /\ ((a + 1 .. a + k) \ (from .. a + k)) \cup (from .. to) = a + 1 .. to
        /\ \A i \in a + 1 .. to : i \notin from .. to => i \in a + 1 .. from - 1
        /\ \A i \in 1 .. p + n : i <= p => i \in 1 .. p
    BY <2>1, Offsets
  <2> QED BY <2>2, <2>3 DEF a, k, n
<1>9. /\ SubSeq(m.ents, 1, p) \in Seq(Entry) /\ Len(SubSeq(m.ents, 1, p)) = p
      /\ \A k \in 1 .. p : SubSeq(m.ents, 1, p)[k] = m.ents[k]
  <2> HIDE DEF p
  <2>1. p \in Int /\ p - 1 + 1 = p /\ (1 <= p \/ p = 0) /\ \A k \in 1 .. p : k \in 1 .. Len(m.ents) /\ 1 + k - 1 = k
    BY <1>2, <1>8
  <2>2. \A k \in 1 .. p : m.ents[k] \in Entry
    BY <1>1, <2>1, LenProperties
  <2>3. /\ SubSeq(m.ents, 1, p) \in Seq(Entry) /\ Len(SubSeq(m.ents, 1, p)) = IF 1 <= p THEN p - 1 + 1 ELSE 0
        /\ \A k \in 1 .. p - 1 + 1 : SubSeq(m.ents, 1, p)[k] = m.ents[1 + k - 1]
    BY <2>1, <2>2, SubSeqProperties
  <2> QED BY <2>1, <2>3
<1>10. /\ ents \in Seq(Entry) /\ Len(ents) = p + Len(es)
       /\ \A k \in 1 .. p + Len(es) : ents[k] = IF k <= p THEN m.ents[k] ELSE es[k - p]
  <2> HIDE DEF p
  <2>1. \A k \in 1 .. p + Len(es) : ents[k] = IF k <= p THEN SubSeq(m.ents, 1, p)[k] ELSE es[k - p]
    BY <1>2, <1>8, <1>9, ConcatProperties
  <2>2. ents \in Seq(Entry) /\ Len(ents) = p + Len(es)
    BY <1>9, ConcatProperties
  <2> QED BY <1>8, <1>9, <2>1, <2>2
<1> HIDE DEF ents, p, to
<1>11. s.mem \in MemType /\ LastIndex(s.mem) = to /\ FirstIndex(s.mem) = first
  <2>1. s.mem \in MemType /\ s.mem.index = m.index /\ s.mem.ents = ents
    BY <1>1, <1>7, <1>10 DEF MemType
  <2>2. m.index + Len(ents) = to
    BY <1>8, <1>10
  <2> QED BY <1>3, <2>1, <2>2 DEF LastIndex, FirstIndex
<1>12. ASSUME NEW i \in first .. from - 1 PROVE EntryAt(s.mem, i) = EntryAt(m, i)
  <2>1. PICK k \in 1 .. p : k = i - m.index
    BY <1>8
  <2>2. k \in 1 .. p + Len(es) /\ k <= p
    BY <1>2, <1>8
  <2>3. ents[k] = m.ents[k]
    BY <1>10, <2>2
  <2> QED BY <1>7, <2>1, <2>3 DEF EntryAt
<1>13. \A i \in from .. to : EntryAt(s.mem, i) = es[i - from + 1]
  <2> SUFFICES ASSUME NEW i \in from .. to PROVE EntryAt(s.mem, i) = es[i - from + 1]
    OBVIOUS
  <2>1. i - m.index \in 1 .. p + Len(es) /\ ~ (i - m.index <= p) /\ (i - m.index) - p = i - from + 1
    BY <1>8
  <2> QED BY <1>7, <1>10, <2>1 DEF EntryAt
<1> DEFINE kept == (first .. top) \ (from .. top)
           new == from .. to
           e == [i \in kept \cup new |-> IF i \in new THEN es[i - from + 1] ELSE d.entries[i]]
<1>14. /\ d = [index |-> d.index, data |-> d.data, commit |-> d.commit, entries |-> d.entries]
       /\ d.index = m.index /\ d.data = m.data /\ d.entries \in [first .. top -> Entry]
       /\ \A i \in first .. top : d.entries[i] = EntryAt(m, i)
  BY <1>3 DEF DiskUpTo, Mirror, first, top
<1>15. s.disk = [index |-> m.index, data |-> m.data, commit |-> commit, entries |-> e]
  <2> DEFINE rest == Purge(d, from, top)
             keep == [i \in kept |-> d.entries[i]]
  <2>1. rest = [index |-> d.index, data |-> d.data, commit |-> d.commit, entries |-> keep]
    <3>1. first = d.index + 1
      BY <1>3, <1>14
    <3>2. Purge(d, from, top) = [index |-> d.index, data |-> d.data, commit |-> d.commit,
                                 entries |-> [i \in (d.index + 1 .. top) \ (from .. top) |-> d.entries[i]]]
      <4>1. DiskUpTo(d, top)
        BY DEF top
      <4>2. Purge(d, from, top) = Purged(d, top, from, top)
        BY <4>1, PurgeIs
      <4> QED BY <4>2 DEF Purged
    <3> QED BY <3>1, <3>2
  <2>2. DOMAIN rest.entries = kept /\ \A i \in kept : rest.entries[i] = d.entries[i]
    BY <2>1
  <2> HIDE DEF rest
  <2>3. DiskAppend(m, d, from, es)
          = [rest EXCEPT !.entries = [i \in kept \cup new |-> IF i \in new THEN es[i - from + 1] ELSE rest.entries[i]]]
    <3>1. Truncated(m, from, es).from = from /\ Truncated(m, from, es).ents = es
      BY <1>5
    <3>2. from .. from + Len(es) - 1 = new
      BY DEF to
    <3> HIDE DEF new, kept
    <3>3. DiskAppend(m, d, from, es)
            = [rest EXCEPT !.entries = [i \in DOMAIN rest.entries \cup new |->
                                          IF i \in new THEN es[i - from + 1] ELSE rest.entries[i]]]
      BY <3>1, <3>2 DEF DiskAppend, rest, top
    <3> QED BY <2>2, <3>3
  <2>4. [i \in kept \cup new |-> IF i \in new THEN es[i - from + 1] ELSE rest.entries[i]] = e
    BY <2>2
  <2> HIDE DEF e
  <2>5. DiskAppend(m, d, from, es) = [index |-> d.index, data |-> d.data, commit |-> d.commit, entries |-> e]
    BY <2>1, <2>3, <2>4
  <2>6. s.disk = [DiskAppend(m, d, from, es) EXCEPT !.commit = commit]
    BY <1>a DEF ApplyAll, DiskSave, NoSnapshot
  <2> QED BY <1>14, <2>5, <2>6
<1>16. kept \cup new = first .. to /\ \A i \in first .. to : i \notin new => i \in first .. from - 1 /\ i \in first .. top
  BY <1>8
<1>17. e \in [first .. to -> Entry]
  <2>1. \A i \in new : es[i - from + 1] \in Entry
    BY <1>8
  <2>2. \A i \in first .. to : i \notin new => d.entries[i] \in Entry
    BY <1>14, <1>16
  <2> QED BY <1>16, <2>1, <2>2
<1>18. \A i \in first .. to : e[i] = EntryAt(s.mem, i)
  <2>1. \A i \in first .. to : i \notin new => e[i] = EntryAt(m, i) /\ EntryAt(s.mem, i) = EntryAt(m, i)
    BY <1>12, <1>14, <1>16
  <2>2. \A i \in new : e[i] = EntryAt(s.mem, i)
    BY <1>13
  <2> QED BY <2>1, <2>2
<1> HIDE DEF e
<1> HIDE DEF s
<1>19. DiskUpTo(s.disk, to)
  <2>1. /\ s.disk.index = m.index /\ s.disk.data = m.data /\ s.disk.commit = commit /\ s.disk.entries = e
        /\ s.disk = [index |-> s.disk.index, data |-> s.disk.data, commit |-> s.disk.commit, entries |-> s.disk.entries]
    BY <1>15
  <2> QED BY <1>1, <1>3, <1>8, <1>17, <2>1 DEF DiskUpTo
<1>20. Mirror(s.mem, s.disk)
  BY <1>7, <1>11, <1>15, <1>18 DEF Mirror
<1>21. s.mem.index = m.index /\ s.mem.data = m.data /\ s.disk.commit = commit
  BY <1>7, <1>15
<1>22. Appended(s, m, d, commit, from, es)
  BY <1>7, <1>11, <1>12, <1>13, <1>19, <1>20, <1>21 DEF Appended, first, to
<1> QED BY <1>22 DEF s

\* A Ready without entries and snapshot changes the commit index on disk only.
LEMMA SaveIs ==
  ASSUME NEW m \in MemType, NEW d, NEW hi, DiskUpTo(d, hi), NEW commit \in Nat
  PROVE  /\ ApplyAll([mem |-> m, disk |-> d], commit, 1, <<>>, NoSnapshot)
              = [mem |-> m, disk |-> [index |-> d.index, data |-> d.data, commit |-> commit, entries |-> d.entries]]
         /\ DiskUpTo([index |-> d.index, data |-> d.data, commit |-> commit, entries |-> d.entries], hi)
<1>1. Truncated(m, 1, <<>>).ents = <<>>
  <2>1. m.index \in Nat /\ FirstIndex(m) - 1 + 1 \in Nat \ {0}
    BY DEF MemType, FirstIndex
  <2>2. SubSeq(<<>>, FirstIndex(m) - 1 + 1, Len(<<>>)) = <<>>
    BY <2>1, SubSeqEmpty
  <2> QED BY <2>2 DEF Truncated
<1>2. MemoryAppend(m, 1, <<>>) = m /\ DiskAppend(m, d, 1, <<>>) = d
  BY <1>1 DEF MemoryAppend, DiskAppend
<1>3. d = [index |-> d.index, data |-> d.data, commit |-> d.commit, entries |-> d.entries]
  BY DEF DiskUpTo
<1>4. [d EXCEPT !.commit = commit] = [index |-> d.index, data |-> d.data, commit |-> commit, entries |-> d.entries]
  BY <1>3
<1>5. ApplyAll([mem |-> m, disk |-> d], commit, 1, <<>>, NoSnapshot) = [mem |-> m, disk |-> [d EXCEPT !.commit = commit]]
  BY <1>2 DEF ApplyAll, AllCompacted, DiskSave, NoSnapshot
<1>6. DiskUpTo([index |-> d.index, data |-> d.data, commit |-> commit, entries |-> d.entries], hi)
  BY DEF DiskUpTo
<1> QED BY <1>4, <1>5, <1>6

LEMMA DiskSnapshotIs ==
  ASSUME NEW d, d = [index |-> d.index, data |-> d.data, commit |-> d.commit, entries |-> d.entries], NEW snap
  PROVE  DiskSnapshot(d, snap) = [index |-> snap.index, data |-> snap.data, commit |-> d.commit, entries |-> d.entries]
<1> DEFINE x == snap.index
           y == snap.data
<1> HIDE DEF x, y
<1>1. [d EXCEPT !.index = x] = [index |-> x, data |-> d.data, commit |-> d.commit, entries |-> d.entries]
  OBVIOUS
<1>2. \A q : q = [index |-> x, data |-> d.data, commit |-> d.commit, entries |-> d.entries]
           => [q EXCEPT !.data = y] = [index |-> x, data |-> y, commit |-> d.commit, entries |-> d.entries]
  OBVIOUS
<1>3. [d EXCEPT !.index = x, !.data = y] = [[d EXCEPT !.index = x] EXCEPT !.data = y]
  OBVIOUS
<1>4. [d EXCEPT !.index = x, !.data = y] = [index |-> x, data |-> y, commit |-> d.commit, entries |-> d.entries]
  BY <1>1, <1>2, <1>3
<1> QED BY <1>4 DEF DiskSnapshot, x, y

\* A snapshot replaces all entries, in memory and on disk.
LEMMA SnapshotIs ==
  ASSUME NEW m \in MemType, NEW d, DiskUpTo(d, LastIndex(m)), Mirror(m, d), NEW commit \in Nat,
         NEW snap, snap.index \in Nat \ {0}, snap.data \in Seq(Entry),
         NEW s, s = ApplyAll([mem |-> m, disk |-> d], commit, 1, <<>>, snap)
  PROVE  /\ s = [mem |-> [index |-> snap.index, data |-> snap.data, ents |-> <<>>], disk |-> s.disk]
         /\ DiskUpTo(s.disk, snap.index)
         /\ s.disk.index = snap.index /\ s.disk.data = snap.data /\ s.disk.commit = commit
<1> DEFINE c == [index |-> d.index, data |-> d.data, commit |-> commit, entries |-> d.entries]
           first == FirstIndex(m)
           top == LastIndex(m)
<1>1. Truncated(m, 1, <<>>).ents = <<>>
  <2>1. m.index \in Nat /\ FirstIndex(m) - 1 + 1 \in Nat \ {0}
    BY DEF MemType, FirstIndex
  <2>2. SubSeq(<<>>, FirstIndex(m) - 1 + 1, Len(<<>>)) = <<>>
    BY <2>1, SubSeqEmpty
  <2> QED BY <2>2 DEF Truncated
<1>2. MemoryAppend(m, 1, <<>>) = m /\ DiskAppend(m, d, 1, <<>>) = d
  BY <1>1 DEF MemoryAppend, DiskAppend
<1>3. DiskSave(m, d, commit, 1, <<>>) = c
  BY <1>2 DEF DiskUpTo, DiskSave
<1>4. DiskUpTo(c, top)
  BY DEF DiskUpTo
<1>5. c.index + 1 = first
  BY DEF Mirror, FirstIndex
<1> HIDE DEF c
<1>6. Purge(c, first, top) = [index |-> c.index, data |-> c.data, commit |-> c.commit,
                              entries |-> [i \in (c.index + 1 .. top) \ (first .. top) |-> c.entries[i]]]
  <2>1. Purge(c, first, top) = Purged(c, top, first, top)
    BY <1>4, PurgeIs
  <2> QED BY <2>1 DEF Purged
<1> DEFINE e == [i \in (c.index + 1 .. top) \ (first .. top) |-> c.entries[i]]
           p == Purge(c, first, top)
<1>7. DOMAIN e = {} /\ c.commit = commit
  BY <1>5 DEF c
<1>8. /\ s = [mem |-> s.mem, disk |-> s.disk]
      /\ s.mem = [index |-> snap.index, data |-> snap.data, ents |-> <<>>]
      /\ s.disk = DiskSnapshot(Purge(DiskSave(m, d, commit, 1, <<>>), first, top), snap)
  <2>1. ~ (snap.index = 0)
    OBVIOUS
  <2>2. s = [mem |-> MemorySnapshot(m, snap),
             disk |-> DiskSnapshot(Purge(DiskSave(m, d, commit, 1, <<>>), first, top), snap)]
    BY <1>2, <2>1 DEF ApplyAll, AllCompacted
  <2> QED BY <2>2 DEF MemorySnapshot
<1>9. p = [index |-> c.index, data |-> c.data, commit |-> commit, entries |-> e]
  BY <1>6, <1>7
<1>10. s.disk = [index |-> snap.index, data |-> snap.data, commit |-> commit, entries |-> e]
  <2>1. Purge(DiskSave(m, d, commit, 1, <<>>), first, top) = p
    BY <1>3
  <2> HIDE DEF e, p
  <2>2. p = [index |-> p.index, data |-> p.data, commit |-> p.commit, entries |-> p.entries] /\ p.commit = commit /\ p.entries = e
    BY <1>9
  <2>3. DiskSnapshot(p, snap) = [index |-> snap.index, data |-> snap.data, commit |-> p.commit, entries |-> p.entries]
    BY <2>2, DiskSnapshotIs
  <2> QED BY <1>8, <2>1, <2>2, <2>3
<1> HIDE DEF e, p
<1>11. snap.index + 1 .. snap.index = {} /\ e \in [{} -> Entry]
  BY <1>7 DEF e
<1>12. DiskUpTo(s.disk, snap.index)
  <2>1. snap.index \in Nat /\ snap.index <= snap.index
    OBVIOUS
  <2>2. e \in [snap.index + 1 .. snap.index -> Entry]
    BY <1>11
  <2>3. /\ s.disk = [index |-> s.disk.index, data |-> s.disk.data, commit |-> s.disk.commit, entries |-> s.disk.entries]
        /\ s.disk.index = snap.index /\ s.disk.data = snap.data /\ s.disk.commit = commit /\ s.disk.entries = e
    BY <1>10
  <2> QED BY <2>1, <2>2, <2>3 DEF DiskUpTo
<1> QED BY <1>8, <1>10, <1>12

\* Positions when k entries after a snapshot at index a are compacted up to i.
LEMMA Shifts ==
  ASSUME NEW a \in Nat, NEW k \in Nat, NEW i \in a .. a + k, NEW n, n = a + k - i
  PROVE  /\ i \in Nat /\ n \in Nat /\ i + n = a + k /\ k - (i - a + 1) + 1 = n
         /\ i - a + 1 \in 1 .. k + 1
         /\ (a + 1 .. a + k) \ (a + 1 .. i) = i + 1 .. a + k
         /\ \A j \in i + 1 .. a + k : /\ j - i \in 1 .. n /\ (i - a + 1) + (j - i) - 1 = j - a
                                      /\ j - a \in 1 .. k /\ j \in a + 1 .. a + k
<1>1. i \in Nat /\ n \in Nat /\ i + n = a + k /\ k - (i - a + 1) + 1 = n /\ i - a + 1 \in 1 .. k + 1
  OBVIOUS
<1>2. (a + 1 .. a + k) \ (a + 1 .. i) = i + 1 .. a + k
  <2>1. \A j : j \in (a + 1 .. a + k) \ (a + 1 .. i) => j \in i + 1 .. a + k
    OBVIOUS
  <2>2. \A j : j \in i + 1 .. a + k => j \in (a + 1 .. a + k) \ (a + 1 .. i)
    OBVIOUS
  <2> QED BY <2>1, <2>2
<1>3. \A j \in i + 1 .. a + k : j - i \in 1 .. n /\ (i - a + 1) + (j - i) - 1 = j - a
  OBVIOUS
<1>4. \A j \in i + 1 .. a + k : j - a \in 1 .. k /\ j \in a + 1 .. a + k
  OBVIOUS
<1> QED BY <1>1, <1>2, <1>3, <1>4

\* CreateSnapshot moves what is before i into the snapshot and touches nothing else.
LEMMA CreateIs ==
  ASSUME NEW m \in MemType, NEW d, DiskUpTo(d, LastIndex(m)), Mirror(m, d),
         NEW i \in m.index .. LastIndex(m), NEW data \in Seq(Entry),
         NEW s, s = CreateSnapshot([mem |-> m, disk |-> d], i, data)
  PROVE  /\ s = [mem |-> s.mem, disk |-> s.disk] /\ s.mem \in MemType
         /\ s.mem.index = i /\ s.mem.data = data /\ LastIndex(s.mem) = LastIndex(m)
         /\ \A j \in i + 1 .. LastIndex(m) : EntryAt(s.mem, j) = EntryAt(m, j)
         /\ DiskUpTo(s.disk, LastIndex(m)) /\ Mirror(s.mem, s.disk)
         /\ s.disk.commit = d.commit
<1> DEFINE first == FirstIndex(m)
           top == LastIndex(m)
           ents == SubSeq(m.ents, i - m.index + 1, Len(m.ents))
           n == top - i
<1>1. m.index \in Nat /\ m.data \in Seq(Entry) /\ m.ents \in Seq(Entry)
  BY DEF MemType
<1>2. Len(m.ents) \in Nat
  BY <1>1, LenProperties
<1>3. top = m.index + Len(m.ents) /\ first = m.index + 1
  BY DEF LastIndex, FirstIndex
<1>4. i \in m.index .. top
  OBVIOUS
<1> HIDE DEF top, first
<1>5. /\ i \in Nat /\ n \in Nat /\ i + n = top /\ Len(m.ents) - (i - m.index + 1) + 1 = n
      /\ i - m.index + 1 \in 1 .. Len(m.ents) + 1
      /\ (first .. top) \ (first .. i) = i + 1 .. top
      /\ \A j \in i + 1 .. top : /\ j - i \in 1 .. n /\ (i - m.index + 1) + (j - i) - 1 = j - m.index
                                 /\ j - m.index \in 1 .. Len(m.ents) /\ j \in first .. top
  <2> DEFINE a == m.index
             k == Len(m.ents)
  <2>1. a \in Nat /\ k \in Nat /\ i \in a .. a + k /\ n = a + k - i /\ top = a + k /\ first = a + 1
    BY <1>1, <1>2, <1>3, <1>4
  <2> HIDE DEF a, k, n
  <2>2. /\ i \in Nat /\ n \in Nat /\ i + n = a + k /\ k - (i - a + 1) + 1 = n
        /\ i - a + 1 \in 1 .. k + 1
        /\ (a + 1 .. a + k) \ (a + 1 .. i) = i + 1 .. a + k
        /\ \A j \in i + 1 .. a + k : /\ j - i \in 1 .. n /\ (i - a + 1) + (j - i) - 1 = j - a
                                     /\ j - a \in 1 .. k /\ j \in a + 1 .. a + k
    BY <2>1, Shifts
  <2> QED BY <2>1, <2>2 DEF a, k
<1>6. /\ ents \in Seq(Entry) /\ Len(ents) = n
      /\ \A j \in i + 1 .. top : ents[j - i] = m.ents[j - m.index]
  <2> DEFINE a == i - m.index + 1
             b == Len(m.ents)
  <2>1. a \in 1 .. b + 1 /\ b \in Nat /\ b - a + 1 = n /\ n \in Nat
    BY <1>2, <1>5
  <2> HIDE DEF a, b, n
  <2>2. \A k \in a .. b : m.ents[k] \in Entry
    <3>1. \A k \in a .. b : k \in 1 .. b
      BY <2>1
    <3>2. m.ents \in [1 .. b -> Entry]
      BY <1>1, LenProperties DEF b
    <3> QED BY <3>1, <3>2
  <2>3. \A k \in 1 .. n : SubSeq(m.ents, a, b)[k] = m.ents[a + k - 1]
    BY <2>1, <2>2, SubSeqProperties
  <2>4. SubSeq(m.ents, a, b) \in Seq(Entry) /\ Len(SubSeq(m.ents, a, b)) = IF a <= b THEN b - a + 1 ELSE 0
    BY <2>1, <2>2, SubSeqProperties
  <2>5. Len(SubSeq(m.ents, a, b)) = n
    BY <2>1, <2>4
  <2> QED BY <1>5, <2>3, <2>4, <2>5 DEF a, b
<1> HIDE DEF ents
<1>7. s.mem = [index |-> i, data |-> data, ents |-> ents] /\ s = [mem |-> s.mem, disk |-> s.disk]
  BY DEF CreateSnapshot, ents
<1>8. s.mem \in MemType /\ LastIndex(s.mem) = top /\ FirstIndex(s.mem) = i + 1
  <2>0. i \in Nat /\ i + n = top
    BY <1>5
  <2> HIDE DEF n
  <2>1. s.mem.index = i /\ s.mem.ents = ents
    BY <1>7
  <2>2. s.mem \in MemType
    BY <1>6, <1>7, <2>0 DEF MemType
  <2> QED BY <1>6, <2>0, <2>1, <2>2 DEF LastIndex, FirstIndex
<1>9. \A j \in i + 1 .. top : EntryAt(s.mem, j) = EntryAt(m, j)
  BY <1>6, <1>7 DEF EntryAt
<1> DEFINE e == [j \in i + 1 .. top |-> d.entries[j]]
           p == Purge(d, first, i)
<1>10. /\ d = [index |-> d.index, data |-> d.data, commit |-> d.commit, entries |-> d.entries]
       /\ d.commit \in Nat /\ d.index + 1 = first /\ d.entries \in [first .. top -> Entry]
       /\ \A j \in first .. top : d.entries[j] = EntryAt(m, j)
  BY <1>3 DEF DiskUpTo, Mirror, first, top
<1>11. p = [index |-> d.index, data |-> d.data, commit |-> d.commit,
            entries |-> [j \in (d.index + 1 .. top) \ (first .. i) |-> d.entries[j]]]
  <2>1. DiskUpTo(d, top)
    BY DEF top
  <2>2. Purge(d, first, i) = Purged(d, top, first, i)
    BY <2>1, PurgeIs
  <2> QED BY <2>2 DEF Purged
<1>12. [j \in (d.index + 1 .. top) \ (first .. i) |-> d.entries[j]] = e
  BY <1>5, <1>10
<1>13. e \in [i + 1 .. top -> Entry] /\ \A j \in i + 1 .. top : e[j] = EntryAt(m, j)
  BY <1>5, <1>10
<1> HIDE DEF e
<1>14. s.disk = DiskSnapshot(p, [index |-> i, data |-> data])
  BY DEF CreateSnapshot, first
<1>15. s.disk = [index |-> i, data |-> data, commit |-> d.commit, entries |-> e]
  <2>1. p = [index |-> d.index, data |-> d.data, commit |-> d.commit, entries |-> e]
    BY <1>11, <1>12
  <2> HIDE DEF p
  <2>2. p = [index |-> p.index, data |-> p.data, commit |-> p.commit, entries |-> p.entries] /\ p.commit = d.commit /\ p.entries = e
    BY <2>1
  <2> DEFINE snap == [index |-> i, data |-> data]
  <2>3. snap.index = i /\ snap.data = data
    OBVIOUS
  <2> HIDE DEF snap
  <2>4. DiskSnapshot(p, snap) = [index |-> snap.index, data |-> snap.data, commit |-> p.commit, entries |-> p.entries]
    BY <2>2, DiskSnapshotIs
  <2> QED BY <1>14, <2>2, <2>3, <2>4 DEF snap
<1>16. DiskUpTo(s.disk, top)
  <2>1. top \in Nat /\ i <= top
    BY <1>1, <1>2, <1>3, <1>4
  <2>2. d.commit \in Nat /\ i \in Nat /\ e \in [i + 1 .. top -> Entry]
    BY <1>5, <1>10, <1>13
  <2>3. s.disk.index = i /\ s.disk.data = data /\ s.disk.commit = d.commit /\ s.disk.entries = e
    BY <1>15
  <2> QED BY <1>15, <2>1, <2>2, <2>3 DEF DiskUpTo
<1>17. /\ s.mem.index = i /\ s.mem.data = data
       /\ s.disk.index = i /\ s.disk.data = data /\ s.disk.commit = d.commit /\ s.disk.entries = e
  BY <1>7, <1>15
<1>18. Mirror(s.mem, s.disk)
  <2>1. \A j \in FirstIndex(s.mem) .. LastIndex(s.mem) : s.disk.entries[j] = EntryAt(s.mem, j)
    BY <1>8, <1>9, <1>13, <1>17
  <2> QED BY <1>17, <2>1 DEF Mirror
<1> QED BY <1>7, <1>8, <1>9, <1>16, <1>17, <1>18 DEF top
-----------------------------------------------------------------------------
(* Sequences of entries and of indices *)

LEMMA EntriesAre ==
  /\ Commands \cup {Other} \subseteq Entry /\ Junk \in Entry
  /\ log \in Seq(Commands \cup {Other}) => log \in Seq(Entry)
<1>1. Commands \cup {Other} \subseteq Entry /\ Junk \in Entry
  BY DEF Entry
<1>2. ASSUME log \in Seq(Commands \cup {Other}) PROVE log \in Seq(Entry)
  BY <1>1, <1>2, SeqMonotonic
<1> QED BY <1>1, <1>2

\* The first n entries of a log.
LEMMA PrefixIs ==
  ASSUME NEW l \in Seq(Entry), NEW n \in Nat, n <= Len(l)
  PROVE  /\ SubSeq(l, 1, n) \in Seq(Entry) /\ Len(SubSeq(l, 1, n)) = n
         /\ \A i \in 1 .. n : SubSeq(l, 1, n)[i] = l[i]
BY LenProperties

\* One more entry of the log.
LEMMA PrefixAppend ==
  ASSUME NEW l \in Seq(Entry), NEW n \in Nat, n < Len(l)
  PROVE  Append(SubSeq(l, 1, n), l[n + 1]) = SubSeq(l, 1, n + 1)
<1> DEFINE a == Append(SubSeq(l, 1, n), l[n + 1])
           b == SubSeq(l, 1, n + 1)
<1>1. Len(l) \in Nat /\ n + 1 \in 1 .. Len(l) /\ l[n + 1] \in Entry /\ n <= Len(l)
  BY LenProperties
<1>2. /\ SubSeq(l, 1, n) \in Seq(Entry) /\ Len(SubSeq(l, 1, n)) = n
      /\ \A i \in 1 .. n : SubSeq(l, 1, n)[i] = l[i]
  BY <1>1, PrefixIs
<1>3. b \in Seq(Entry) /\ Len(b) = n + 1 /\ \A i \in 1 .. n + 1 : b[i] = l[i]
  BY <1>1, PrefixIs
<1>4. a \in Seq(Entry) /\ Len(a) = n + 1 /\ \A i \in 1 .. n + 1 : a[i] = l[i]
  BY <1>1, <1>2
<1> HIDE DEF a, b
<1>5. \A i \in 1 .. Len(a) : a[i] = b[i]
  BY <1>3, <1>4
<1>6. a = b
  BY <1>3, <1>4, <1>5, SeqEqual
<1> QED BY <1>6 DEF a, b

\* What the log had stays in it.
LEMMA PrefixStays ==
  ASSUME NEW l \in Seq(Entry), NEW x \in Entry
  PROVE  /\ Append(l, x) \in Seq(Entry) /\ Len(Append(l, x)) = Len(l) + 1 /\ Len(l) \in Nat
         /\ \A i \in 1 .. Len(l) : Append(l, x)[i] = l[i]
         /\ \A n \in Nat : n <= Len(l) => SubSeq(Append(l, x), 1, n) = SubSeq(l, 1, n)
<1> DEFINE a == Append(l, x)
<1>1. a \in Seq(Entry) /\ Len(a) = Len(l) + 1 /\ Len(l) \in Nat /\ \A i \in 1 .. Len(l) : a[i] = l[i]
  BY LenProperties
<1> HIDE DEF a
<1>2. ASSUME NEW n \in Nat, n <= Len(l) PROVE SubSeq(a, 1, n) = SubSeq(l, 1, n)
  <2>1. /\ SubSeq(l, 1, n) \in Seq(Entry) /\ Len(SubSeq(l, 1, n)) = n
        /\ \A i \in 1 .. n : SubSeq(l, 1, n)[i] = l[i]
    BY <1>2, PrefixIs
  <2>2. /\ SubSeq(a, 1, n) \in Seq(Entry) /\ Len(SubSeq(a, 1, n)) = n
        /\ \A i \in 1 .. n : SubSeq(a, 1, n)[i] = a[i]
    <3>1. n <= Len(a)
      BY <1>1, <1>2
    <3> QED BY <1>1, <3>1, PrefixIs
  <2>3. \A i \in 1 .. n : i \in 1 .. Len(l)
    BY <1>1, <1>2
  <2>4. \A i \in 1 .. Len(SubSeq(a, 1, n)) : SubSeq(a, 1, n)[i] = SubSeq(l, 1, n)[i]
    BY <1>1, <2>1, <2>2, <2>3
  <2> QED BY <2>1, <2>2, <2>4, SeqEqual
<1> QED BY <1>1, <1>2 DEF a

LEMMA IndicesType ==
  ASSUME NEW a \in Nat, NEW b \in Nat
  PROVE  /\ Indices(a, b) \in Seq(Nat)
         /\ Len(Indices(a, b)) = IF b < a THEN 0 ELSE b - a + 1
         /\ \A k \in 1 .. Len(Indices(a, b)) : Indices(a, b)[k] = a + k - 1
<1> DEFINE n == IF b < a THEN 0 ELSE b - a + 1
           f == [k \in 1 .. n |-> a + k - 1]
<1>1. n \in Nat /\ Indices(a, b) = f
  BY DEF Indices
<1> HIDE DEF n
<1>2. f \in [1 .. n -> Nat] /\ \A k \in 1 .. n : f[k] = a + k - 1
  BY <1>1
<1> HIDE DEF f
<1>3. f \in Seq(Nat) /\ Len(f) = n
  BY <1>1, <1>2, FunctionIsSeq
<1> QED BY <1>1, <1>2, <1>3 DEF n

\* The committed entries that a Ready leaves to apply.
LEMMA IndicesAre ==
  ASSUME NEW lo \in Nat, NEW hi \in Nat
  PROVE  /\ Indices(lo, hi) \in Seq(Nat)
         /\ Indices(lo, hi) = <<>> <=> hi < lo
         /\ lo <= hi => Head(Indices(lo, hi)) = lo /\ Tail(Indices(lo, hi)) = Indices(lo + 1, hi)
<1> DEFINE s == Indices(lo, hi)
           next == lo + 1
           t == Indices(next, hi)
<1>1. /\ s \in Seq(Nat) /\ Len(s) = IF hi < lo THEN 0 ELSE hi - lo + 1
      /\ \A k \in 1 .. Len(s) : s[k] = lo + k - 1
  BY IndicesType
<1>2. next \in Nat /\ next = lo + 1
  OBVIOUS
<1> HIDE DEF next
<1>3. /\ t \in Seq(Nat) /\ Len(t) = IF hi < next THEN 0 ELSE hi - next + 1
      /\ \A k \in 1 .. Len(t) : t[k] = next + k - 1
  BY <1>2, IndicesType
<1> HIDE DEF s, t
<1>4. s = <<>> <=> hi < lo
  BY <1>1
<1>5. ASSUME lo <= hi PROVE Head(s) = lo /\ Tail(s) = t
  <2>1. s # <<>> /\ Len(s) = hi - lo + 1 /\ 1 \in 1 .. Len(s) /\ s[1] = lo
    BY <1>1, <1>5
  <2>2. Head(s) = lo
    BY <1>1, <2>1
  <2>3. Tail(s) \in Seq(Nat) /\ Len(Tail(s)) = Len(s) - 1 /\ \A k \in 1 .. Len(Tail(s)) : Tail(s)[k] = s[k + 1]
    BY <1>1, <2>1, HeadTailProperties
  <2> DEFINE n == hi - lo
  <2>4. /\ n \in Nat /\ Len(s) = n + 1 /\ Len(t) = n
        /\ \A k \in 1 .. n : k + 1 \in 1 .. n + 1 /\ lo + (k + 1) - 1 = next + k - 1
    BY <1>2, <1>3, <1>5, <2>1
  <2> HIDE DEF n
  <2>5. Len(Tail(s)) = n
    BY <2>3, <2>4
  <2>6. ASSUME NEW k \in 1 .. Len(Tail(s)) PROVE Tail(s)[k] = t[k]
    <3>1. k \in 1 .. n /\ k + 1 \in 1 .. n + 1 /\ lo + (k + 1) - 1 = next + k - 1
      BY <2>4, <2>5
    <3>2. Tail(s)[k] = s[k + 1]
      BY <2>3
    <3>3. s[k + 1] = lo + (k + 1) - 1
      BY <1>1, <2>4, <3>1
    <3>4. t[k] = next + k - 1
      BY <1>3, <2>4, <3>1
    <3> QED BY <3>1, <3>2, <3>3, <3>4
  <2>7. Tail(s) = t
    BY <1>3, <2>3, <2>4, <2>5, <2>6, SeqEqual
  <2> QED BY <2>2, <2>7
<1> QED BY <1>1, <1>4, <1>5 DEF s, t, next
-----------------------------------------------------------------------------
(* The invariant *)

\* What the invariant says of a process that lives.
LEMMA Alive ==
  ASSUME IInv, up # "down"
  PROVE  /\ storage = [mem |-> storage.mem, disk |-> storage.disk] /\ storage.mem \in MemType
         /\ DiskUpTo(storage.disk, LastIndex(storage.mem)) /\ Mirror(storage.mem, storage.disk)
         /\ storage.mem.index \in Nat /\ LastIndex(storage.mem) \in Nat /\ Len(state) \in Nat
         /\ lib.committed \in Nat /\ lib.applied \in Nat /\ Len(log) \in Nat /\ log \in Seq(Entry)
         /\ storage.mem.index <= Len(state) /\ Len(state) <= lib.committed
         /\ lib.committed <= LastIndex(storage.mem) /\ lib.committed <= Len(log)
         /\ lib.committed = storage.disk.commit /\ lib.applied <= lib.committed
         /\ storage.mem.data = SubSeq(log, 1, storage.mem.index)
         /\ \A i \in FirstIndex(storage.mem) .. lib.committed : EntryAt(storage.mem, i) = log[i]
<1>1. TypeInv /\ Applying /\ DiskKept(storage.disk, log)
  BY DEF IInv, NodeInv
<1>2. /\ storage = [mem |-> storage.mem, disk |-> storage.disk] /\ storage.mem \in MemType
      /\ lib \in [committed : Nat, applied : Nat] /\ state \in Seq(Entry) /\ log \in Seq(Commands \cup {Other})
  BY <1>1 DEF TypeInv
<1>3. log \in Seq(Entry)
  BY <1>2, EntriesAre
<1>4. /\ DiskUpTo(storage.disk, LastIndex(storage.mem)) /\ Mirror(storage.mem, storage.disk)
      /\ lib.committed = storage.disk.commit /\ lib.applied <= lib.committed
      /\ lib.committed <= LastIndex(storage.mem)
      /\ Len(state) \in storage.mem.index .. lib.committed
  BY <1>1 DEF Applying
<1>5. storage.mem.index \in Nat /\ Len(storage.mem.ents) \in Nat /\ Len(state) \in Nat /\ Len(log) \in Nat
  BY <1>2, <1>3, LenProperties DEF MemType
<1>6. LastIndex(storage.mem) \in Nat
  BY <1>5 DEF LastIndex
<1>7. /\ storage.disk.commit <= Len(log) /\ storage.disk.data = SubSeq(log, 1, storage.disk.index)
      /\ \A i \in storage.disk.index + 1 .. storage.disk.commit : storage.disk.entries[i] = log[i]
  BY <1>1 DEF DiskKept
<1>8. /\ storage.mem.index = storage.disk.index /\ storage.mem.data = storage.disk.data
      /\ \A i \in FirstIndex(storage.mem) .. LastIndex(storage.mem) : storage.disk.entries[i] = EntryAt(storage.mem, i)
  BY <1>4 DEF Mirror
<1>9. ASSUME NEW i \in FirstIndex(storage.mem) .. lib.committed PROVE EntryAt(storage.mem, i) = log[i]
  <2>1. i \in FirstIndex(storage.mem) .. LastIndex(storage.mem) /\ i \in storage.disk.index + 1 .. storage.disk.commit
    BY <1>2, <1>4, <1>5, <1>6, <1>8 DEF FirstIndex
  <2> QED BY <1>7, <1>8, <2>1
<1> QED BY <1>2, <1>3, <1>4, <1>5, <1>6, <1>7, <1>8, <1>9

\* A disk that memory mirrors is kept if memory agrees with the log.
LEMMA KeptIs ==
  ASSUME NEW m \in MemType, NEW d, NEW l, DiskUpTo(d, LastIndex(m)), Mirror(m, d),
         m.index <= d.commit, d.commit <= LastIndex(m), d.commit <= Len(l), m.data = SubSeq(l, 1, m.index),
         \A i \in FirstIndex(m) .. d.commit : EntryAt(m, i) = l[i]
  PROVE  DiskKept(d, l)
<1>1. m.index \in Nat /\ d.commit \in Nat /\ LastIndex(m) \in Nat /\ m.index = d.index /\ m.data = d.data
  BY DEF DiskUpTo, Mirror, MemType
<1>2. \A i \in d.index + 1 .. d.commit : d.entries[i] = l[i]
  <2>1. \A i \in d.index + 1 .. d.commit : i \in FirstIndex(m) .. LastIndex(m) /\ i \in FirstIndex(m) .. d.commit
    BY <1>1 DEF FirstIndex
  <2> QED BY <2>1 DEF Mirror
<1> QED BY <1>1, <1>2 DEF DiskKept

\* The entries of a Ready, with those in memory that they leave, agree with the log as far as
\* it is committed.
Agrees(commit, from, es) ==
  IF es = <<>>
  THEN /\ from = 1 /\ commit <= LastIndex(storage.mem)
       /\ \A i \in lib.committed + 1 .. commit : EntryAt(storage.mem, i) = log[i]
  ELSE /\ from \in lib.committed + 1 .. LastIndex(storage.mem) + 1 /\ commit <= from + Len(es) - 1
       /\ \A i \in lib.committed + 1 .. commit :
            (IF i < from THEN EntryAt(storage.mem, i) ELSE es[i - from + 1]) = log[i]

\* Memory n holds what memory m, of which lo entries are committed, would hold with entries es
\* at index `from'; both agree with l up to commit.
Joins(m, n, l, es, first, lo, from, to, commit) ==
  /\ lo < from /\ commit <= to
  /\ \A i \in first .. lo : EntryAt(m, i) = l[i]
  /\ \A i \in lo + 1 .. commit : (IF i < from THEN EntryAt(m, i) ELSE es[i - from + 1]) = l[i]
  /\ \A i \in first .. from - 1 : EntryAt(n, i) = EntryAt(m, i)
  /\ \A i \in from .. to : EntryAt(n, i) = es[i - from + 1]

\* What memory holds after entries were put into it agrees with the log up to commit.
LEMMA AppendAgrees ==
  ASSUME NEW m, NEW n, NEW l, NEW es, NEW first \in Nat, NEW lo \in Nat, NEW from \in Nat, NEW to \in Nat,
         NEW commit \in Nat, Joins(m, n, l, es, first, lo, from, to, commit)
  PROVE  \A i \in first .. commit : EntryAt(n, i) = l[i]
<1> USE DEF Joins
<1> SUFFICES ASSUME NEW i \in first .. commit PROVE EntryAt(n, i) = l[i]
  OBVIOUS
<1>1. CASE i <= lo
  <2>1. i \in first .. lo /\ i \in first .. from - 1
    BY <1>1
  <2> QED BY <2>1
<1>2. CASE ~ (i <= lo) /\ i < from
  <2>1. i \in lo + 1 .. commit /\ i \in first .. from - 1
    BY <1>2
  <2> QED BY <1>2, <2>1
<1>3. CASE ~ (i <= lo) /\ ~ (i < from)
  <2>1. i \in lo + 1 .. commit /\ i \in from .. to
    BY <1>3
  <2> QED BY <1>3, <2>1
<1> QED BY <1>1, <1>2, <1>3

\* A Ready without a snapshot: entries that agree with the log as far as it is committed.
LEMMA HandleKeeps ==
  ASSUME IInv, up \in {"replay", "running"}, ~ busy,
         NEW commit \in Nat, NEW from \in Nat, NEW es \in Seq(Entry),
         lib.committed <= commit, commit <= Len(log), up = "replay" => commit = lib.committed,
         Agrees(commit, from, es),
         Handle(commit, from, es, NoSnapshot), UNCHANGED <<log, wire, calls>>, faults' \in 0 .. MaxFaults
  PROVE  IInv'
<1> DEFINE m == storage.mem
           d == storage.disk
           n == storage'.mem
           e == storage'.disk
<1>1. /\ storage = [mem |-> m, disk |-> d] /\ m \in MemType /\ DiskUpTo(d, LastIndex(m)) /\ Mirror(m, d)
      /\ m.index \in Nat /\ LastIndex(m) \in Nat /\ Len(state) \in Nat
      /\ lib.committed \in Nat /\ lib.applied \in Nat /\ Len(log) \in Nat /\ log \in Seq(Entry)
      /\ m.index <= Len(state) /\ Len(state) <= lib.committed /\ lib.committed <= LastIndex(m)
      /\ lib.committed = d.commit /\ lib.applied <= lib.committed
      /\ m.data = SubSeq(log, 1, m.index)
  BY Alive
<1>b. \A i \in FirstIndex(m) .. lib.committed : EntryAt(m, i) = log[i]
  BY Alive
<1>2. /\ storage' = ApplyAll(storage, commit, from, es, NoSnapshot)
      /\ lib' = [lib EXCEPT !.committed = commit] /\ busy' = TRUE
      /\ todo' = Indices(lib.applied + 1, commit) /\ UNCHANGED <<last, state, told, up>>
  BY DEF Handle, NoSnapshot
<1>3. /\ storage' = [mem |-> n, disk |-> e] /\ n \in MemType /\ DiskUpTo(e, LastIndex(n)) /\ Mirror(n, e)
      /\ n.index = m.index /\ n.data = m.data /\ e.commit = commit /\ commit <= LastIndex(n)
      /\ \A i \in FirstIndex(n) .. commit : EntryAt(n, i) = log[i]
  <2>0. FirstIndex(m) \in Nat /\ FirstIndex(m) <= lib.committed + 1
    <3>1. m.index \in Nat /\ lib.committed \in Nat /\ m.index <= lib.committed
      BY <1>1
    <3> HIDE DEF m
    <3> QED BY <3>1 DEF FirstIndex
  <2>1. CASE es = <<>>
    <3>0. /\ from = 1 /\ commit <= LastIndex(m)
          /\ \A i \in lib.committed + 1 .. commit : EntryAt(m, i) = log[i]
      BY <2>1 DEF Agrees
    <3> DEFINE saved == [index |-> d.index, data |-> d.data, commit |-> commit, entries |-> d.entries]
    <3>1. storage' = [mem |-> m, disk |-> saved] /\ DiskUpTo(saved, LastIndex(m))
      <4>1. ApplyAll([mem |-> m, disk |-> d], commit, 1, <<>>, NoSnapshot) = [mem |-> m, disk |-> saved]
            /\ DiskUpTo(saved, LastIndex(m))
        BY <1>1, SaveIs
      <4> HIDE DEF saved, m, d
      <4> QED BY <1>1, <1>2, <2>1, <3>0, <4>1
    <3>2. n = m /\ e = saved
      BY <3>1
    <3>3. Mirror(m, e)
      <4>1. e.index = d.index /\ e.data = d.data /\ e.entries = d.entries /\ e.commit = commit
        BY <3>2
      <4> HIDE DEF m, d, e
      <4> QED BY <1>1, <4>1 DEF Mirror
    <3>4. \A i \in FirstIndex(m) .. commit : EntryAt(m, i) = log[i]
      <4>1. \A i \in FirstIndex(m) .. commit : i \in FirstIndex(m) .. lib.committed \/ i \in lib.committed + 1 .. commit
        BY <1>1, <2>0
      <4> QED BY <1>b, <3>0, <4>1
    <3>5. e.commit = commit
      BY <3>2
    <3> HIDE DEF m, d, n, e, saved
    <3> QED BY <1>1, <3>0, <3>1, <3>2, <3>3, <3>4, <3>5
  <2>2. CASE es # <<>>
    <3>0. /\ from \in lib.committed + 1 .. LastIndex(m) + 1 /\ commit <= from + Len(es) - 1
          /\ \A i \in lib.committed + 1 .. commit :
               (IF i < from THEN EntryAt(m, i) ELSE es[i - from + 1]) = log[i]
      BY <2>2 DEF Agrees
    <3>1. from \in FirstIndex(m) .. LastIndex(m) + 1 /\ lib.committed < from
      <4> DEFINE first == FirstIndex(m)
                 lo == lib.committed
                 top == LastIndex(m)
      <4>1. first \in Nat /\ first <= lo + 1 /\ lo \in Nat /\ top \in Nat
        BY <1>1, <2>0
      <4>2. from \in lo + 1 .. top + 1
        BY <3>0
      <4> HIDE DEF first, lo, top, m
      <4>3. from \in first .. top + 1 /\ lo < from
        BY <4>1, <4>2
      <4> QED BY <4>3 DEF first, lo, top
    <3>2. Appended(storage', m, d, commit, from, es)
      BY <1>1, <1>2, <2>2, <3>1, AppendIs
    <3>3. /\ storage' = [mem |-> n, disk |-> e] /\ n \in MemType /\ DiskUpTo(e, LastIndex(n)) /\ Mirror(n, e)
          /\ n.index = m.index /\ n.data = m.data /\ e.commit = commit /\ LastIndex(n) = from + Len(es) - 1
          /\ \A i \in FirstIndex(m) .. from - 1 : EntryAt(n, i) = EntryAt(m, i)
          /\ \A i \in from .. from + Len(es) - 1 : EntryAt(n, i) = es[i - from + 1]
      BY <3>2 DEF Appended
    <3> HIDE DEF m, d, n, e
    <3>4. FirstIndex(n) = FirstIndex(m)
      BY <3>3 DEF FirstIndex
    <3>5. LastIndex(n) \in Nat /\ commit <= LastIndex(n)
      BY <3>0, <3>3 DEF DiskUpTo
    <3>6. \A i \in FirstIndex(m) .. commit : EntryAt(n, i) = log[i]
      <4> DEFINE first == FirstIndex(m)
                 lo == lib.committed
                 to == LastIndex(n)
      <4>1. first \in Nat /\ lo \in Nat /\ to \in Nat
        BY <1>1, <2>0, <3>5
      <4>2. /\ lo < from /\ commit <= to
            /\ \A i \in first .. lo : EntryAt(m, i) = log[i]
            /\ \A i \in lo + 1 .. commit : (IF i < from THEN EntryAt(m, i) ELSE es[i - from + 1]) = log[i]
            /\ \A i \in first .. from - 1 : EntryAt(n, i) = EntryAt(m, i)
            /\ \A i \in from .. to : EntryAt(n, i) = es[i - from + 1]
        BY <1>b, <3>0, <3>1, <3>3, <3>5
      <4> HIDE DEF first, lo, to
      <4>3. Joins(m, n, log, es, first, lo, from, to, commit)
        BY <4>2 DEF Joins
      <4>4. \A i \in first .. commit : EntryAt(n, i) = log[i]
        BY <4>1, <4>3, AppendAgrees
      <4> QED BY <4>4 DEF first
    <3> QED BY <3>3, <3>4, <3>5, <3>6
  <2> QED BY <2>1, <2>2
<1> HIDE DEF m, d, n, e
<1>4. n.index \in Nat /\ LastIndex(n) \in Nat /\ n.index <= commit
  <2>1. n.index = m.index /\ LastIndex(n) \in Nat
    BY <1>3 DEF DiskUpTo
  <2>2. m.index \in Nat /\ Len(state) \in Nat /\ lib.committed \in Nat
        /\ m.index <= Len(state) /\ Len(state) <= lib.committed /\ lib.committed <= commit
    BY <1>1
  <2> QED BY <2>1, <2>2
<1>5. DiskKept(e, log)
  BY <1>1, <1>3, <1>4, KeptIs
<1>6. /\ TypeInv /\ Applying /\ CoordinatorTold /\ AnsweredDurable
  BY DEF IInv, NodeInv
<1>7. lib' = [committed |-> commit, applied |-> lib.applied] /\ lib' \in [committed : Nat, applied : Nat]
  BY <1>1, <1>2, <1>6 DEF TypeInv
<1>8. todo' \in Seq(Nat)
  <2>1. lib.applied + 1 \in Nat
    BY <1>1
  <2> QED BY <1>2, <2>1, IndicesAre
<1>9. TypeInv'
  BY <1>2, <1>3, <1>6, <1>7, <1>8 DEF TypeInv, n, e
<1>10. lib.applied = Len(state)
  BY <1>6 DEF Applying
<1>11. Applying'
  <2>1. Len(state) \in n.index .. commit /\ lib.applied <= commit
    <3>1. m.index <= Len(state) /\ Len(state) <= lib.committed /\ lib.applied <= lib.committed
          /\ Len(state) \in Nat /\ lib.committed \in Nat /\ lib.applied \in Nat /\ n.index = m.index
      BY <1>1, <1>3
    <3> QED BY <1>4, <3>1
  <2>2. /\ state = SubSeq(log, 1, Len(state))
        /\ last.committed = Len(state) \/ (last.committed = 0 /\ Len(state) = m.index)
        /\ up = "replay" => last.replay = lib.committed /\ Len(state) < lib.committed
    BY <1>6 DEF Applying, m
  <2> QED BY <1>2, <1>3, <1>7, <1>10, <2>1, <2>2 DEF Applying, n, e
<1>12. NodeInv'
  <2>1. DiskKept(storage.disk, log)'
    BY <1>5 DEF e
  <2>2. CoordinatorTold' /\ (up # "down")'
    BY <1>2, <1>6 DEF CoordinatorTold
  <2> QED BY <1>11, <2>1, <2>2 DEF NodeInv
<1>13. AnsweredDurable'
  <2>1. ASSUME NEW c \in Commands, calls[c] = "ok" PROVE \E i \in 1 .. e.commit : log[i] = c
    <3>1. PICK i \in 1 .. d.commit : log[i] = c
      BY <1>6, <2>1 DEF AnsweredDurable, d
    <3>2. i \in 1 .. e.commit
      BY <1>1, <1>3
    <3> QED BY <3>1, <3>2
  <2> QED BY <2>1 DEF AnsweredDurable, e
<1> QED BY <1>9, <1>12, <1>13 DEF IInv

-----------------------------------------------------------------------------
(* Readys *)

LEMMA FaultIs == TypeInv /\ Fault => faults' \in 0 .. MaxFaults
<1> SUFFICES ASSUME TypeInv, Fault PROVE faults' \in 0 .. MaxFaults
  OBVIOUS
<1>1. faults \in 0 .. MaxFaults /\ faults > 0 /\ faults' = faults - 1 /\ MaxFaults \in Nat
  BY ConfigAssumption DEF TypeInv, Fault
<1> QED BY <1>1

LEMMA ReplayKeeps == IInv /\ Replay => IInv'
<1> SUFFICES ASSUME IInv, Replay PROVE IInv'
  OBVIOUS
<1>1. up = "replay" /\ ~ busy /\ Handle(lib.committed, 1, <<>>, NoSnapshot) /\ UNCHANGED <<log, wire, calls, faults>>
  BY DEF Replay
<1>2. /\ lib.committed \in Nat /\ LastIndex(storage.mem) \in Nat
      /\ lib.committed <= LastIndex(storage.mem) /\ lib.committed <= Len(log)
  BY <1>1, Alive
<1>3. <<>> \in Seq(Entry) /\ faults' \in 0 .. MaxFaults
  BY <1>1 DEF IInv, TypeInv
<1>4. \A i \in lib.committed + 1 .. lib.committed : EntryAt(storage.mem, i) = log[i]
  BY <1>2
<1> DEFINE c == lib.committed
<1>5. c \in Nat /\ lib.committed <= c /\ c <= Len(log) /\ c = lib.committed
  BY <1>2
<1>6. c <= LastIndex(storage.mem) /\ \A i \in lib.committed + 1 .. c : EntryAt(storage.mem, i) = log[i]
  BY <1>2, <1>4
<1>7. Handle(c, 1, <<>>, NoSnapshot)
  BY <1>1
<1> HIDE DEF c
<1>8. Agrees(c, 1, <<>>)
  BY <1>6 DEF Agrees
<1> QED BY <1>1, <1>3, <1>5, <1>7, <1>8, HandleKeeps

LEMMA LearnKeeps == IInv /\ Learn => IInv'
<1> SUFFICES ASSUME IInv, Learn PROVE IInv'
  OBVIOUS
<1>1. up = "running" /\ ~ busy /\ UNCHANGED <<log, wire, calls, faults>>
  BY DEF Learn
<1>2. PICK c \in lib.committed + 1 .. LastIndex(storage.mem) :
         /\ c <= Len(log)
         /\ \A i \in lib.committed + 1 .. c : EntryAt(storage.mem, i) = log[i]
         /\ Handle(c, 1, <<>>, NoSnapshot)
  BY DEF Learn
<1>3. lib.committed \in Nat /\ LastIndex(storage.mem) \in Nat
  BY <1>1, Alive
<1>4. c \in Nat /\ lib.committed <= c /\ c <= LastIndex(storage.mem)
  BY <1>3
<1>5. <<>> \in Seq(Entry) /\ faults' \in 0 .. MaxFaults
  BY <1>1 DEF IInv, TypeInv
<1>6. Agrees(c, 1, <<>>)
  BY <1>2, <1>4 DEF Agrees
<1>7. c <= Len(log) /\ Handle(c, 1, <<>>, NoSnapshot)
  BY <1>2
<1> QED BY <1>1, <1>4, <1>5, <1>6, <1>7, HandleKeeps

LEMMA ReceiveKeeps == IInv /\ Receive => IInv'
<1> SUFFICES ASSUME IInv, Receive PROVE IInv'
  OBVIOUS
<1>1. up = "running" /\ ~ busy /\ UNCHANGED <<log, wire, calls, faults>>
  BY DEF Receive
<1>2. PICK from \in lib.committed + 1 .. LastIndex(storage.mem) + 1 : \E hi \in from .. Len(log) :
         /\ \A i \in lib.committed + 1 .. from - 1 : EntryAt(storage.mem, i) = log[i]
         /\ \E c \in {lib.committed, hi} : Handle(c, from, SubSeq(log, from, hi), NoSnapshot)
  BY DEF Receive
<1>3. PICK hi \in from .. Len(log) :
         /\ \A i \in lib.committed + 1 .. from - 1 : EntryAt(storage.mem, i) = log[i]
         /\ \E c \in {lib.committed, hi} : Handle(c, from, SubSeq(log, from, hi), NoSnapshot)
  BY <1>2
<1>4. PICK c \in {lib.committed, hi} : Handle(c, from, SubSeq(log, from, hi), NoSnapshot)
  BY <1>3
<1>5. /\ lib.committed \in Nat /\ LastIndex(storage.mem) \in Nat /\ Len(log) \in Nat /\ log \in Seq(Entry)
      /\ lib.committed <= Len(log)
  BY <1>1, Alive
<1>6. from \in Nat \ {0} /\ hi \in Nat /\ from <= hi /\ hi <= Len(log) /\ lib.committed + 1 <= from
  BY <1>5
<1> DEFINE es == SubSeq(log, from, hi)
<1>7. es \in Seq(Entry) /\ Len(es) = hi - from + 1 /\ \A i \in from .. hi : es[i - from + 1] = log[i]
  <2>1. \A i \in from .. hi : log[i] \in Entry
    BY <1>5, <1>6
  <2>2. es \in Seq(Entry) /\ Len(es) = (IF from <= hi THEN hi - from + 1 ELSE 0)
        /\ \A i \in 1 .. hi - from + 1 : es[i] = log[from + i - 1]
    BY <1>6, <2>1, SubSeqProperties
  <2> HIDE DEF es
  <2>3. \A i \in from .. hi : i - from + 1 \in 1 .. hi - from + 1 /\ from + (i - from + 1) - 1 = i
    BY <1>6
  <2> QED BY <1>6, <2>2, <2>3
<1> HIDE DEF es
<1>8. es # <<>>
  BY <1>6, <1>7
<1>9. c \in Nat /\ lib.committed <= c /\ c <= Len(log) /\ c <= from + Len(es) - 1
  BY <1>4, <1>5, <1>6, <1>7
<1>10. \A i \in lib.committed + 1 .. c : (IF i < from THEN EntryAt(storage.mem, i) ELSE es[i - from + 1]) = log[i]
  <2>1. \A i \in lib.committed + 1 .. c : (i < from => i \in lib.committed + 1 .. from - 1) /\ (~ (i < from) => i \in from .. hi)
    BY <1>4, <1>5, <1>6
  <2> QED BY <1>3, <1>7, <2>1
<1>11. faults' \in 0 .. MaxFaults /\ Handle(c, from, es, NoSnapshot) /\ from \in Nat
  BY <1>1, <1>4, <1>6 DEF IInv, TypeInv, es
<1>12. from \in lib.committed + 1 .. LastIndex(storage.mem) + 1
  BY <1>2
<1>13. Agrees(c, from, es)
  BY <1>8, <1>9, <1>10, <1>12 DEF Agrees
<1> QED BY <1>1, <1>7, <1>9, <1>11, <1>13, HandleKeeps

LEMMA ReceiveJunkKeeps == IInv /\ ReceiveJunk => IInv'
<1> SUFFICES ASSUME IInv, ReceiveJunk PROVE IInv'
  OBVIOUS
<1>1. up = "running" /\ ~ busy /\ Fault /\ UNCHANGED <<log, wire, calls>>
      /\ Handle(lib.committed, LastIndex(storage.mem) + 1, <<Junk>>, NoSnapshot)
  BY DEF ReceiveJunk
<1>2. /\ lib.committed \in Nat /\ LastIndex(storage.mem) \in Nat
      /\ lib.committed <= LastIndex(storage.mem) /\ lib.committed <= Len(log)
  BY <1>1, Alive
<1>3. <<Junk>> \in Seq(Entry) /\ Len(<<Junk>>) = 1 /\ <<Junk>> # <<>>
  BY EntriesAre
<1>4. faults' \in 0 .. MaxFaults
  BY <1>1, FaultIs DEF IInv
<1> DEFINE from == LastIndex(storage.mem) + 1
<1>5. /\ from \in Nat /\ from \in lib.committed + 1 .. LastIndex(storage.mem) + 1
      /\ lib.committed <= from + 1 - 1 /\ lib.committed <= lib.committed
      /\ lib.committed + 1 .. lib.committed = {}
  BY <1>2
<1> HIDE DEF from
<1>6. Handle(lib.committed, from, <<Junk>>, NoSnapshot)
  BY <1>1 DEF from
<1> DEFINE es == <<Junk>>
<1>7. es \in Seq(Entry) /\ Len(es) = 1 /\ es # <<>>
  BY <1>3
<1>8. Handle(lib.committed, from, es, NoSnapshot)
  BY <1>6
<1> HIDE DEF es
<1>9. /\ from \in lib.committed + 1 .. LastIndex(storage.mem) + 1 /\ lib.committed <= from + Len(es) - 1
      /\ \A i \in lib.committed + 1 .. lib.committed :
           (IF i < from THEN EntryAt(storage.mem, i) ELSE es[i - from + 1]) = log[i]
  BY <1>5, <1>7
<1>10. Agrees(lib.committed, from, es)
  BY <1>7, <1>9 DEF Agrees
<1> QED BY <1>1, <1>2, <1>4, <1>5, <1>7, <1>8, <1>10, HandleKeeps

\* The process is gone: what is on disk is all that counts.
LEMMA DieKeeps ==
  ASSUME IInv, Die, UNCHANGED <<log, wire>>, faults' \in 0 .. MaxFaults
  PROVE  IInv'
<1>1. TypeInv /\ DiskKept(storage.disk, log) /\ AnsweredDurable
  BY DEF IInv, NodeInv
<1>2. /\ storage = [mem |-> storage.mem, disk |-> storage.disk]
      /\ storage' = [storage EXCEPT !.mem = EmptyMemory]
      /\ up' = "down" /\ busy' = FALSE /\ todo' = <<>> /\ told' = <<>> /\ state' = <<>>
      /\ lib' = [committed |-> 0, applied |-> 0] /\ last' = [committed |-> 0, replay |-> 0]
      /\ calls' = [c \in Commands |-> IF calls[c] = "waiting" THEN "failed" ELSE calls[c]]
  BY <1>1 DEF Die, TypeInv
<1>3. storage'.disk = storage.disk /\ storage'.mem = EmptyMemory /\ storage' = [mem |-> storage'.mem, disk |-> storage'.disk]
  BY <1>2
<1>4. EmptyMemory \in MemType /\ \A S : <<>> \in Seq(S)
  BY DEF EmptyMemory, MemType
<1>5. TypeInv'
  BY <1>1, <1>2, <1>3, <1>4 DEF TypeInv
<1>6. NodeInv'
  BY <1>1, <1>2, <1>3 DEF NodeInv, CoordinatorTold
<1>7. AnsweredDurable'
  BY <1>1, <1>2, <1>3 DEF AnsweredDurable
<1> QED BY <1>5, <1>6, <1>7 DEF IInv

LEMMA ReceiveSnapshotKeeps == IInv /\ ReceiveSnapshot => IInv'
<1> SUFFICES ASSUME IInv, ReceiveSnapshot PROVE IInv'
  OBVIOUS
<1> DEFINE m == storage.mem
           d == storage.disk
           n == storage'.mem
           e == storage'.disk
<1>1. up = "running" /\ ~ busy /\ Fault /\ UNCHANGED <<log, wire>>
  BY DEF ReceiveSnapshot
<1>2. PICK s \in lib.committed + 1 .. Len(log) :
         \/ Handle(s, 1, <<>>, SnapshotAt(s)) /\ UNCHANGED calls
         \/ Die
  BY DEF ReceiveSnapshot
<1>3. faults' \in 0 .. MaxFaults
  BY <1>1, FaultIs DEF IInv
<1>4. CASE Die
  BY <1>1, <1>3, <1>4, DieKeeps
<1>5. CASE Handle(s, 1, <<>>, SnapshotAt(s)) /\ UNCHANGED calls
  <2>1. /\ storage = [mem |-> m, disk |-> d] /\ m \in MemType /\ DiskUpTo(d, LastIndex(m)) /\ Mirror(m, d)
        /\ LastIndex(m) \in Nat /\ Len(log) \in Nat /\ log \in Seq(Entry)
        /\ lib.committed \in Nat /\ lib.applied \in Nat /\ lib.committed <= LastIndex(m)
        /\ lib.committed = d.commit /\ lib.applied <= lib.committed
    BY <1>1, Alive
  <2>2. s \in Nat \ {0} /\ s <= Len(log) /\ lib.committed <= s /\ lib.applied <= s
    BY <2>1
  <2> DEFINE snap == SnapshotAt(s)
  <2>3. snap.index = s /\ snap.data = SubSeq(log, 1, s) /\ snap.index # 0
    BY <2>2 DEF SnapshotAt
  <2> HIDE DEF snap
  <2>4. SubSeq(log, 1, s) \in Seq(Entry) /\ Len(SubSeq(log, 1, s)) = s
    BY <2>1, <2>2, PrefixIs
  <2>5. /\ storage' = ApplyAll(storage, s, 1, <<>>, snap)
        /\ lib' = [lib EXCEPT !.committed = s] /\ busy' = TRUE
        /\ todo' = Indices(snap.index + 1, s)
        /\ state' = snap.data /\ told' = snap.data
        /\ last' = [last EXCEPT !.committed = snap.index]
        /\ up' = Phase(snap.index, last.replay)
    BY <1>1, <1>5, <2>3 DEF Handle, snap
  <2>6. up' = "running"
    BY <1>1, <2>5 DEF Phase
  <2>7. todo' = <<>> /\ Indices(s + 1, s) = <<>>
    <3>1. s + 1 \in Nat /\ s < s + 1
      BY <2>2
    <3> QED BY <2>2, <2>3, <2>5, <3>1, IndicesAre
  <2>8. /\ storage' = [mem |-> [index |-> snap.index, data |-> snap.data, ents |-> <<>>], disk |-> e]
        /\ DiskUpTo(e, snap.index)
        /\ e.index = snap.index /\ e.data = snap.data /\ e.commit = s
    <3>1. storage' = ApplyAll([mem |-> m, disk |-> d], s, 1, <<>>, snap)
      BY <2>1, <2>5
    <3>2. snap.index \in Nat \ {0} /\ snap.data \in Seq(Entry) /\ s \in Nat
      BY <2>2, <2>3, <2>4
    <3>3. m \in MemType /\ DiskUpTo(d, LastIndex(m)) /\ Mirror(m, d)
      BY <2>1
    <3> DEFINE t == storage'
    <3>4. t = ApplyAll([mem |-> m, disk |-> d], s, 1, <<>>, snap)
      BY <3>1
    <3> HIDE DEF m, d, t
    <3>5. /\ t = [mem |-> [index |-> snap.index, data |-> snap.data, ents |-> <<>>], disk |-> t.disk]
          /\ DiskUpTo(t.disk, snap.index)
          /\ t.disk.index = snap.index /\ t.disk.data = snap.data /\ t.disk.commit = s
      BY <3>2, <3>3, <3>4, SnapshotIs
    <3> QED BY <3>5 DEF t
  <2>9. /\ n = [index |-> s, data |-> SubSeq(log, 1, s), ents |-> <<>>]
        /\ storage' = [mem |-> n, disk |-> e]
        /\ DiskUpTo(e, s) /\ e.index = s /\ e.data = SubSeq(log, 1, s) /\ e.commit = s
    BY <2>3, <2>8
  <2> HIDE DEF n, e
  <2>10. n \in MemType /\ LastIndex(n) = s /\ n.index = s /\ n.data = SubSeq(log, 1, s) /\ FirstIndex(n) = s + 1
    BY <2>2, <2>4, <2>9 DEF MemType, LastIndex, FirstIndex
  <2>11. s + 1 .. s = {}
    BY <2>2
  <2>12. Mirror(n, e)
    BY <2>9, <2>10, <2>11 DEF Mirror
  <2>13. DiskKept(e, log)
    BY <2>2, <2>9, <2>11 DEF DiskKept
  <2>14. lib' = [committed |-> s, applied |-> lib.applied] /\ last' = [committed |-> s, replay |-> last.replay]
         /\ last.replay \in Nat
    BY <2>3, <2>5 DEF IInv, TypeInv
  <2>15. TypeInv'
    <3>1. lib' \in [committed : Nat, applied : Nat] /\ last' \in [committed : Nat, replay : Nat]
      BY <2>1, <2>2, <2>14
    <3>2. todo' \in Seq(Nat)
      BY <2>7
    <3> QED BY <1>1, <1>3, <1>5, <2>3, <2>4, <2>5, <2>6, <2>9, <2>10, <3>1, <3>2 DEF IInv, TypeInv, n, e
  <2>16. Applying'
    <3>1. s \in s .. s /\ state' = SubSeq(log, 1, Len(state')) /\ Len(state') = s
      BY <2>2, <2>3, <2>4, <2>5
    <3>2. todo' = Indices(Len(state') + 1, s)
      BY <2>7, <3>1
    <3> QED BY <1>1, <2>2, <2>5, <2>6, <2>9, <2>10, <2>12, <2>14, <3>1, <3>2 DEF Applying, n, e
  <2>17. NodeInv'
    <3>1. CoordinatorTold' /\ DiskKept(storage.disk, log)'
      BY <1>1, <2>5, <2>13 DEF CoordinatorTold, e
    <3> QED BY <2>6, <2>16, <3>1 DEF NodeInv
  <2>18. AnsweredDurable'
    <3>1. ASSUME NEW c \in Commands, calls[c] = "ok" PROVE \E i \in 1 .. e.commit : log[i] = c
      <4>1. PICK i \in 1 .. d.commit : log[i] = c
        BY <3>1 DEF IInv, AnsweredDurable
      <4>2. i \in 1 .. e.commit
        BY <2>1, <2>2, <2>9
      <4> QED BY <4>1, <4>2
    <3> QED BY <1>1, <1>5, <3>1 DEF AnsweredDurable, e
  <2> QED BY <2>15, <2>17, <2>18 DEF IInv
<1> QED BY <1>2, <1>4, <1>5

LEMMA ApplyEntryKeeps == IInv /\ ApplyEntry => IInv'
<1> SUFFICES ASSUME IInv, ApplyEntry PROVE IInv'
  OBVIOUS
<1> DEFINE m == storage.mem
           i == Head(todo)
<1>1. /\ busy /\ todo # <<>> /\ todo' = Tail(todo)
      /\ state' = Append(state, EntryAt(m, i)) /\ calls' = Respond(EntryAt(m, i))
      /\ told' = IF up = "running" THEN Append(told, EntryAt(m, i)) ELSE told
      /\ last' = [last EXCEPT !.committed = i] /\ up' = Phase(i, last.replay)
      /\ UNCHANGED <<log, wire, storage, lib, busy, faults>>
  BY DEF ApplyEntry
<1>2. TypeInv /\ NodeInv /\ AnsweredDurable /\ up # "down" /\ Applying /\ CoordinatorTold
  BY <1>1 DEF IInv, NodeInv
<1>3. /\ m.index \in Nat /\ Len(state) \in Nat /\ lib.committed \in Nat /\ Len(log) \in Nat /\ log \in Seq(Entry)
      /\ m.index <= Len(state) /\ lib.committed <= Len(log) /\ lib.committed = storage.disk.commit
      /\ \A j \in FirstIndex(m) .. lib.committed : EntryAt(m, j) = log[j]
  BY <1>2, Alive
<1>4. todo = Indices(Len(state) + 1, lib.committed)
  BY <1>1, <1>2 DEF Applying
<1>5. Len(state) + 1 <= lib.committed /\ i = Len(state) + 1 /\ todo' = Indices(Len(state) + 1 + 1, lib.committed)
      /\ todo' \in Seq(Nat)
  <2> DEFINE lo == Len(state) + 1
  <2>1. lo \in Nat /\ lo + 1 \in Nat
    BY <1>3
  <2> HIDE DEF lo
  <2>2. todo = Indices(lo, lib.committed)
    BY <1>4 DEF lo
  <2>3. lo <= lib.committed
    <3>1. Indices(lo, lib.committed) = <<>> <=> lib.committed < lo
      BY <1>3, <2>1, IndicesAre
    <3>2. ~ (lib.committed < lo)
      BY <1>1, <2>2, <3>1
    <3> QED BY <1>3, <2>1, <3>2
  <2>4. Head(todo) = lo /\ Tail(todo) = Indices(lo + 1, lib.committed) /\ Indices(lo + 1, lib.committed) \in Seq(Nat)
    BY <1>3, <2>1, <2>2, <2>3, IndicesAre
  <2> QED BY <1>1, <2>3, <2>4 DEF lo
<1> HIDE DEF i
<1>6. i \in Nat /\ i \in 1 .. Len(log) /\ i \in FirstIndex(m) .. lib.committed /\ i <= lib.committed
  BY <1>3, <1>5 DEF FirstIndex
<1>7. EntryAt(m, i) = log[i] /\ log[i] \in Entry /\ log[i] # Junk
  <2>1. log[i] \in Commands \cup {Other}
    BY <1>2, <1>6 DEF TypeInv
  <2> QED BY <1>3, <1>6, <2>1, EntriesAre, ConfigAssumption
<1> HIDE DEF m
<1>8. state' = SubSeq(log, 1, i) /\ Len(state') = i /\ state' \in Seq(Entry)
  <2>1. state = SubSeq(log, 1, Len(state)) /\ Len(state) < Len(log)
    BY <1>2, <1>3, <1>5 DEF Applying
  <2> DEFINE n == Len(state)
  <2>2. n \in Nat /\ n < Len(log) /\ i = n + 1 /\ state = SubSeq(log, 1, n)
    BY <1>3, <1>5, <2>1
  <2> HIDE DEF n
  <2>3. Append(SubSeq(log, 1, n), log[n + 1]) = SubSeq(log, 1, n + 1)
    BY <1>3, <2>2, PrefixAppend
  <2>4. state' = SubSeq(log, 1, i)
    BY <1>1, <1>7, <2>2, <2>3
  <2> QED BY <1>3, <1>6, <2>4, PrefixIs
<1>9. told' \in Seq(Entry) /\ CoordinatorTold'
  <2>1. told \in Seq(Entry) /\ log[i] \in Entry
    BY <1>2, <1>7 DEF TypeInv
  <2>2. up' = "running" <=> up = "running"
    BY <1>1 DEF Phase
  <2>3. Append(told, log[i]) \in Seq(Entry)
    BY <2>1
  <2> QED BY <1>1, <1>2, <1>7, <2>1, <2>2, <2>3 DEF CoordinatorTold
<1>10. last' = [committed |-> i, replay |-> last.replay] /\ last.replay \in Nat
  BY <1>1, <1>2 DEF TypeInv
<1>11. /\ up' \in {"replay", "ready", "running"} /\ up' # "down"
       /\ up' = "replay" => last.replay = lib.committed /\ i < lib.committed
  <2>1. up \in {"replay", "ready", "running"} /\ (up = "replay" => last.replay = lib.committed)
    BY <1>1, <1>2 DEF Applying, TypeInv
  <2> QED BY <1>1, <1>3, <1>6, <2>1 DEF Phase
<1>12. calls' \in [Commands -> {"idle", "waiting", "ok", "failed"}]
  BY <1>1, <1>2 DEF Respond, TypeInv
<1>13. last' \in [committed : Nat, replay : Nat]
  BY <1>6, <1>10
<1>14. TypeInv'
  BY <1>1, <1>2, <1>5, <1>8, <1>9, <1>11, <1>12, <1>13 DEF TypeInv
<1>15. Applying'
  <2>1. i \in m.index .. lib.committed
    BY <1>3, <1>5, <1>6
  <2>2. /\ DiskUpTo(storage.disk, LastIndex(m)) /\ Mirror(m, storage.disk)
        /\ lib.applied <= lib.committed /\ lib.committed <= LastIndex(m)
    BY <1>2 DEF Applying, m
  <2>3. todo' = Indices(i + 1, lib.committed)
    BY <1>5
  <2>4. Len(state') = i /\ state' = SubSeq(log, 1, Len(state'))
    BY <1>8
  <2> QED BY <1>1, <1>3, <1>10, <1>11, <2>1, <2>2, <2>3, <2>4 DEF Applying, m
<1>16. NodeInv'
  <2>1. DiskKept(storage.disk, log)'
    BY <1>1, <1>2 DEF NodeInv
  <2> QED BY <1>9, <1>11, <1>15, <2>1 DEF NodeInv
<1>17. AnsweredDurable'
  <2>1. ASSUME NEW c \in Commands, calls'[c] = "ok" PROVE \E j \in 1 .. storage.disk.commit : log[j] = c
    <3>1. CASE calls[c] = "ok"
      BY <1>2, <3>1 DEF AnsweredDurable
    <3>2. CASE calls[c] # "ok"
      <4>1. c = log[i]
        BY <1>1, <1>7, <2>1, <3>2 DEF Respond
      <4>2. i \in 1 .. storage.disk.commit
        BY <1>3, <1>6
      <4> QED BY <4>1, <4>2
    <3> QED BY <3>1, <3>2
  <2> QED BY <1>1, <2>1 DEF AnsweredDurable
<1> QED BY <1>14, <1>16, <1>17 DEF IInv

LEMMA FinishKeeps == IInv /\ Finish => IInv'
<1> SUFFICES ASSUME IInv, Finish PROVE IInv'
  OBVIOUS
<1> DEFINE m == storage.mem
           d == storage.disk
           n == storage'.mem
           e == storage'.disk
           k == last.committed
<1>1. /\ busy /\ todo = <<>> /\ busy' = FALSE /\ lib' = [lib EXCEPT !.applied = lib.committed]
      /\ storage' = IF k >= m.index /\ k - m.index >= LogCompactionSize THEN CreateSnapshot(storage, k, state) ELSE storage
      /\ UNCHANGED <<log, wire, calls, up, todo, last, state, told, faults>>
  BY DEF Finish
<1>2. TypeInv /\ NodeInv /\ AnsweredDurable /\ up # "down" /\ Applying /\ CoordinatorTold /\ DiskKept(d, log)
  BY <1>1 DEF IInv, NodeInv
<1>3. /\ storage = [mem |-> m, disk |-> d] /\ m \in MemType /\ DiskUpTo(d, LastIndex(m)) /\ Mirror(m, d)
      /\ m.index \in Nat /\ LastIndex(m) \in Nat /\ Len(state) \in Nat
      /\ lib.committed \in Nat /\ Len(log) \in Nat /\ log \in Seq(Entry)
      /\ m.index <= Len(state) /\ Len(state) <= lib.committed /\ lib.committed <= LastIndex(m) /\ lib.committed <= Len(log)
      /\ lib.committed = d.commit
      /\ \A i \in FirstIndex(m) .. lib.committed : EntryAt(m, i) = log[i]
  BY <1>2, Alive
<1>4. /\ todo = Indices(Len(state) + 1, lib.committed) /\ state = SubSeq(log, 1, Len(state))
      /\ k = Len(state) \/ (k = 0 /\ Len(state) = m.index)
      /\ up = "replay" => Len(state) < lib.committed
  BY <1>1, <1>2 DEF Applying
<1>5. Len(state) = lib.committed /\ up # "replay"
  <2> DEFINE lo == Len(state) + 1
  <2>1. lo \in Nat /\ todo = Indices(lo, lib.committed)
    BY <1>3, <1>4
  <2> HIDE DEF lo
  <2>2. lib.committed < lo
    BY <1>1, <1>3, <2>1, IndicesAre
  <2> QED BY <1>3, <1>4, <2>2 DEF lo
<1>6. /\ storage' = [mem |-> n, disk |-> e] /\ n \in MemType /\ DiskUpTo(e, LastIndex(n)) /\ Mirror(n, e)
      /\ e.commit = d.commit /\ LastIndex(n) = LastIndex(m) /\ DiskKept(e, log)
      /\ n.index <= Len(state) /\ n.index \in Nat /\ (k = Len(state) \/ (k = 0 /\ Len(state) = n.index))
  <2>1. CASE ~ (k >= m.index /\ k - m.index >= LogCompactionSize)
    <3>1. storage' = storage
      BY <1>1, <2>1
    <3> QED BY <1>2, <1>3, <1>4, <3>1
  <2>2. CASE k >= m.index /\ k - m.index >= LogCompactionSize
    <3>1. k = Len(state) /\ k \in m.index .. LastIndex(m) /\ k \in Nat
      BY <1>3, <1>4, <2>2, ConfigAssumption
    <3>2. state \in Seq(Entry)
      BY <1>2 DEF TypeInv
    <3> DEFINE t == storage'
    <3>3. t = CreateSnapshot([mem |-> m, disk |-> d], k, state)
      BY <1>1, <1>3, <2>2
    <3> HIDE DEF m, d, n, e, k, t
    <3>4. /\ t = [mem |-> t.mem, disk |-> t.disk] /\ t.mem \in MemType
          /\ t.mem.index = k /\ t.mem.data = state /\ LastIndex(t.mem) = LastIndex(m)
          /\ DiskUpTo(t.disk, LastIndex(m)) /\ Mirror(t.mem, t.disk)
          /\ t.disk.commit = d.commit
      BY <1>3, <3>1, <3>2, <3>3, CreateIs
    <3>5. /\ storage' = [mem |-> n, disk |-> e] /\ n \in MemType
          /\ n.index = k /\ n.data = state /\ LastIndex(n) = LastIndex(m)
          /\ DiskUpTo(e, LastIndex(m)) /\ Mirror(n, e) /\ e.commit = d.commit
      BY <3>4 DEF t, n, e
    <3>6. DiskKept(e, log)
      <4>1. n.data = SubSeq(log, 1, n.index)
        BY <1>4, <3>1, <3>5
      <4>2. \A i \in FirstIndex(n) .. e.commit : EntryAt(n, i) = log[i]
        <5>1. FirstIndex(n) .. e.commit = {}
          BY <1>3, <1>5, <3>1, <3>5 DEF FirstIndex
        <5> QED BY <5>1
      <4> QED BY <1>3, <1>5, <3>1, <3>5, <4>1, <4>2, KeptIs
    <3> QED BY <1>3, <3>1, <3>5, <3>6
  <2> QED BY <2>1, <2>2
<1> HIDE DEF m, d, n, e, k
<1>7. lib' = [committed |-> lib.committed, applied |-> lib.committed] /\ lib' \in [committed : Nat, applied : Nat]
  BY <1>1, <1>2, <1>3 DEF TypeInv
<1>8. TypeInv'
  BY <1>1, <1>2, <1>6, <1>7 DEF TypeInv, n, e
<1>9. Applying'
  <2>1. Len(state) \in n.index .. lib.committed
    BY <1>3, <1>6
  <2> QED BY <1>1, <1>3, <1>4, <1>5, <1>6, <1>7, <2>1 DEF Applying, n, e, k
<1>10. NodeInv'
  <2>1. CoordinatorTold' /\ DiskKept(storage.disk, log)' /\ (up # "down")'
    BY <1>1, <1>2, <1>6 DEF CoordinatorTold, e
  <2> QED BY <1>9, <2>1 DEF NodeInv
<1>11. AnsweredDurable'
  BY <1>1, <1>2, <1>6 DEF AnsweredDurable, d, e
<1> QED BY <1>8, <1>10, <1>11 DEF IInv

-----------------------------------------------------------------------------
(* Starting and stopping *)

\* The disk that is left by whatever happened before is opened, and the state is its snapshot.
LEMMA StartKeeps == IInv /\ Start => IInv'
<1> SUFFICES ASSUME IInv, Start PROVE IInv'
  OBVIOUS
<1> DEFINE d == storage.disk
           n == Open(d)
           c == IF d.index = d.commit THEN d.commit ELSE 0
<1>1. /\ up = "down" /\ storage' = [storage EXCEPT !.mem = n]
      /\ lib' = [committed |-> d.commit, applied |-> d.index]
      /\ last' = [committed |-> c, replay |-> d.commit]
      /\ state' = d.data /\ up' = IF c = d.commit THEN "ready" ELSE "replay"
      /\ UNCHANGED <<log, wire, calls, todo, busy, told, faults>>
  BY DEF Start
<1>2. /\ TypeInv /\ AnsweredDurable /\ DiskKept(d, log) /\ ~ busy /\ told = <<>>
  BY <1>1 DEF IInv, NodeInv
<1>3. PICK hi \in Nat : DiskUpTo(d, hi) /\ d.commit <= hi
  BY <1>2 DEF DiskKept
<1>4. n \in MemType /\ LastIndex(n) = hi /\ Mirror(n, d)
  BY <1>3, OpenIs
<1> HIDE DEF n
<1>5. storage' = [mem |-> n, disk |-> d] /\ storage'.mem = n /\ storage'.disk = d
  BY <1>1, <1>2 DEF TypeInv
<1>6. /\ d.index \in Nat /\ d.commit \in Nat /\ d.index <= d.commit /\ d.commit <= Len(log)
      /\ d.data = SubSeq(log, 1, d.index) /\ n.index = d.index /\ d.data \in Seq(Entry)
  BY <1>2, <1>3, <1>4 DEF DiskKept, DiskUpTo, Mirror
<1>7. log \in Seq(Entry) /\ Len(log) \in Nat
  <2>1. log \in Seq(Entry)
    BY <1>2, EntriesAre DEF TypeInv
  <2> QED BY <2>1, LenProperties
<1>8. Len(d.data) = d.index
  BY <1>6, <1>7, PrefixIs
<1> HIDE DEF d
<1>9. c \in Nat /\ (c = d.index \/ c = 0) /\ (c = d.commit => d.index = d.commit) /\ (c # d.commit => d.index < d.commit)
  BY <1>6
<1> HIDE DEF c
<1>10. /\ lib' \in [committed : Nat, applied : Nat] /\ last' \in [committed : Nat, replay : Nat]
       /\ up' \in {"ready", "replay"} /\ (up' = "ready" => d.index = d.commit) /\ (up' = "replay" => d.index < d.commit)
       /\ lib'.committed = d.commit /\ lib'.applied = d.index /\ last'.committed = c /\ last'.replay = d.commit
  BY <1>1, <1>6, <1>9
<1>11. TypeInv'
  BY <1>1, <1>2, <1>4, <1>5, <1>6, <1>10 DEF TypeInv
<1>12. Applying'
  <2>1. d.index \in n.index .. d.commit /\ state' = SubSeq(log, 1, Len(state')) /\ Len(state') = d.index
    BY <1>1, <1>6, <1>8
  <2> QED BY <1>1, <1>2, <1>3, <1>4, <1>5, <1>6, <1>9, <1>10, <2>1 DEF Applying
<1>13. NodeInv'
  <2>1. CoordinatorTold' /\ DiskKept(storage.disk, log)' /\ (up # "down")'
    BY <1>1, <1>2, <1>5, <1>10 DEF CoordinatorTold
  <2> QED BY <1>12, <2>1 DEF NodeInv
<1>14. AnsweredDurable'
  BY <1>1, <1>2, <1>5 DEF AnsweredDurable, d
<1> QED BY <1>11, <1>13, <1>14 DEF IInv

LEMMA InitializeKeeps == IInv /\ Initialize => IInv'
<1> SUFFICES ASSUME IInv, Initialize PROVE IInv'
  OBVIOUS
<1>1. /\ up = "ready" /\ ~ busy /\ up' = "running" /\ told' = state
      /\ UNCHANGED <<log, wire, calls, storage, lib, todo, busy, last, state, faults>>
  BY DEF Initialize
<1>2. TypeInv /\ Applying /\ DiskKept(storage.disk, log) /\ AnsweredDurable
  BY <1>1 DEF IInv, NodeInv
<1>3. TypeInv'
  BY <1>1, <1>2 DEF TypeInv
<1>4. Applying'
  BY <1>1, <1>2 DEF Applying
<1>5. NodeInv'
  BY <1>1, <1>2, <1>4 DEF NodeInv, CoordinatorTold
<1>6. AnsweredDurable'
  BY <1>1, <1>2 DEF AnsweredDurable
<1> QED BY <1>3, <1>5, <1>6 DEF IInv

LEMMA StorageErrorKeeps == IInv /\ StorageError => IInv'
<1> SUFFICES ASSUME IInv, StorageError PROVE IInv'
  OBVIOUS
<1>1. /\ up \in {"replay", "ready", "running"} /\ Fault /\ up' = "stopped"
      /\ busy' = FALSE /\ todo' = <<>>
      /\ UNCHANGED <<log, wire, calls, storage, lib, last, state, told>>
  BY DEF StorageError
<1>2. TypeInv /\ Applying /\ DiskKept(storage.disk, log) /\ AnsweredDurable
  BY <1>1 DEF IInv, NodeInv
<1>3. TypeInv'
  <2>1. faults' \in 0 .. MaxFaults /\ <<>> \in Seq(Nat)
    BY <1>1, <1>2, FaultIs
  <2> QED BY <1>1, <1>2, <2>1 DEF TypeInv
<1>4. Applying'
  BY <1>1, <1>2 DEF Applying
<1>5. NodeInv'
  BY <1>1, <1>2, <1>4 DEF NodeInv, CoordinatorTold
<1>6. AnsweredDurable'
  BY <1>1, <1>2 DEF AnsweredDurable
<1> QED BY <1>3, <1>5, <1>6 DEF IInv

-----------------------------------------------------------------------------
(* Calls, and the rest of the cluster *)

\* Steps that leave the node and the log alone and answer no call.
LEMMA CallsKeep ==
  ASSUME IInv, UNCHANGED <<log, nodeVars>>, wire' \in SUBSET Commands, faults' \in 0 .. MaxFaults,
         calls' \in [Commands -> {"idle", "waiting", "ok", "failed"}],
         \A c \in Commands : calls'[c] = "ok" => calls[c] = "ok"
  PROVE  IInv'
<1>1. UNCHANGED <<log, storage, up, lib, todo, busy, last, state, told>>
  BY DEF nodeVars
<1>2. TypeInv'
  BY <1>1 DEF IInv, TypeInv
<1>3. NodeInv'
  BY <1>1 DEF IInv, NodeInv, Applying, CoordinatorTold
<1>4. AnsweredDurable'
  BY <1>1 DEF IInv, AnsweredDurable
<1> QED BY <1>2, <1>3, <1>4 DEF IInv

\* The cluster agrees on one more entry.
LEMMA LogKeeps ==
  ASSUME IInv, NEW x \in Commands \cup {Other}, log' = Append(log, x), UNCHANGED <<calls, nodeVars, faults>>,
         wire' \in SUBSET Commands
  PROVE  IInv'
<1>1. UNCHANGED <<calls, storage, up, lib, todo, busy, last, state, told, faults>>
  BY DEF nodeVars
<1>2. log \in Seq(Entry) /\ x \in Entry /\ log \in Seq(Commands \cup {Other})
  BY EntriesAre DEF IInv, TypeInv
<1>3. /\ Len(log') = Len(log) + 1 /\ Len(log) \in Nat
      /\ \A i \in 1 .. Len(log) : log'[i] = log[i]
      /\ \A n \in Nat : n <= Len(log) => SubSeq(log', 1, n) = SubSeq(log, 1, n)
  BY <1>2, PrefixStays
<1>4. TypeInv'
  BY <1>1, <1>2 DEF IInv, TypeInv
<1> DEFINE d == storage.disk
<1>5. DiskKept(d, log)
  BY DEF IInv, NodeInv
<1>6. PICK hi \in Nat : DiskUpTo(d, hi) /\ d.commit <= hi
  BY <1>5 DEF DiskKept
<1>7. d.index \in Nat /\ d.commit \in Nat /\ d.index <= d.commit /\ d.commit <= Len(log)
  BY <1>5, <1>6 DEF DiskKept, DiskUpTo
<1>8. DiskKept(storage.disk, log)'
  <2>1. \A i \in d.index + 1 .. d.commit : d.entries[i] = log'[i]
    <3>1. \A i \in d.index + 1 .. d.commit : i \in 1 .. Len(log)
      BY <1>3, <1>7
    <3> QED BY <1>3, <1>5, <3>1 DEF DiskKept
  <2>2. d.data = SubSeq(log', 1, d.index) /\ d.commit <= Len(log')
    BY <1>3, <1>5, <1>7 DEF DiskKept
  <2>3. DiskKept(d, log')
    BY <1>5, <2>1, <2>2 DEF DiskKept
  <2> QED BY <1>1, <2>3
<1>9. up # "down" => Applying'
  <2> SUFFICES ASSUME up # "down" PROVE Applying'
    OBVIOUS
  <2>1. Applying /\ Len(state) \in Nat /\ Len(state) <= Len(log)
    <3>1. Len(state) \in Nat /\ Len(state) <= lib.committed /\ lib.committed \in Nat /\ lib.committed <= Len(log)
      BY Alive
    <3> QED BY <1>3, <3>1 DEF IInv, NodeInv
  <2>2. state = SubSeq(log', 1, Len(state))
    BY <1>3, <2>1 DEF Applying
  <2> QED BY <1>1, <2>1, <2>2 DEF Applying
<1>10. NodeInv'
  BY <1>1, <1>8, <1>9 DEF IInv, NodeInv, CoordinatorTold
<1>11. AnsweredDurable'
  <2>1. ASSUME NEW c \in Commands, calls[c] = "ok" PROVE \E i \in 1 .. d.commit : log'[i] = c
    <3>1. PICK i \in 1 .. d.commit : log[i] = c
      BY <2>1 DEF IInv, AnsweredDurable
    <3>2. i \in 1 .. Len(log)
      BY <1>3, <1>7
    <3> QED BY <1>3, <3>1, <3>2
  <2> QED BY <1>1, <2>1 DEF AnsweredDurable
<1> QED BY <1>4, <1>10, <1>11 DEF IInv

LEMMA InitInv == Init => IInv
<1> SUFFICES ASSUME Init PROVE IInv
  OBVIOUS
<1>1. /\ log = <<>> /\ wire = {} /\ calls = [c \in Commands |-> "idle"]
      /\ storage = [mem |-> EmptyMemory, disk |-> EmptyDisk]
      /\ up = "down" /\ lib = [committed |-> 0, applied |-> 0]
      /\ todo = <<>> /\ busy = FALSE /\ last = [committed |-> 0, replay |-> 0]
      /\ state = <<>> /\ told = <<>> /\ faults = MaxFaults
  BY DEF Init
<1>2. EmptyMemory \in MemType /\ faults \in 0 .. MaxFaults /\ \A S : <<>> \in Seq(S)
  BY <1>1, ConfigAssumption DEF EmptyMemory, MemType
<1>3. TypeInv
  BY <1>1, <1>2 DEF TypeInv
<1>4. DiskKept(EmptyDisk, <<>>)
  <2>1. 1 .. 0 = {} /\ EmptyDisk.entries = <<>> /\ DOMAIN <<>> = 1 .. 0
    BY DEF EmptyDisk
  <2>2. <<>> \in [1 .. 0 -> Entry]
    BY <1>2, LenProperties
  <2>3. DiskUpTo(EmptyDisk, 0)
    BY <1>2, <2>2 DEF DiskUpTo, EmptyDisk
  <2>4. SubSeq(<<>>, 1, 0) = <<>>
    BY SubSeqEmpty
  <2> QED BY <2>1, <2>3, <2>4 DEF DiskKept, EmptyDisk
<1>5. NodeInv /\ AnsweredDurable
  BY <1>1, <1>4 DEF NodeInv, CoordinatorTold, AnsweredDurable
<1> QED BY <1>3, <1>5 DEF IInv

LEMMA NextInv == IInv /\ [Next]_vars => IInv'
<1> SUFFICES ASSUME IInv, [Next]_vars PROVE IInv'
  OBVIOUS
<1>1. /\ faults \in 0 .. MaxFaults /\ wire \in SUBSET Commands
      /\ calls \in [Commands -> {"idle", "waiting", "ok", "failed"}]
  BY DEF IInv, TypeInv
<1>2. CASE Start \/ Initialize \/ StorageError
  BY <1>2, StartKeeps, InitializeKeeps, StorageErrorKeeps
<1>3. CASE RestartStopped
  BY <1>1, <1>3, DieKeeps DEF RestartStopped
<1>4. CASE Crash
  <2>1. faults' \in 0 .. MaxFaults
    BY <1>4, FaultIs DEF IInv, Crash
  <2> QED BY <1>4, <2>1, DieKeeps DEF Crash
<1>5. CASE Replay \/ Receive \/ Learn \/ ReceiveJunk \/ ReceiveSnapshot
  BY <1>5, ReplayKeeps, ReceiveKeeps, LearnKeeps, ReceiveJunkKeeps, ReceiveSnapshotKeeps
<1>6. CASE ApplyEntry \/ Finish
  BY <1>6, ApplyEntryKeeps, FinishKeeps
<1>7. ASSUME NEW c \in Commands, Retry(c) PROVE IInv'
  <2>1. UNCHANGED <<log, calls, nodeVars>> /\ wire' \in SUBSET Commands
    BY <1>1, <1>7 DEF Retry
  <2>2. faults' \in 0 .. MaxFaults
    BY <1>1, <1>7, FaultIs DEF Retry, IInv
  <2> QED BY <1>1, <2>1, <2>2, CallsKeep
<1>8. ASSUME NEW c \in Commands, RetryStopped(c) PROVE IInv'
  BY <1>1, <1>8, CallsKeep DEF RetryStopped
<1>9. ASSUME NEW c \in Commands, Call(c) PROVE IInv'
  BY <1>1, <1>9, CallsKeep DEF Call
<1>10. ASSUME NEW c \in Commands, LoseCommand(c) PROVE IInv'
  <2>1. UNCHANGED <<log, calls, nodeVars>> /\ wire' \in SUBSET Commands
    BY <1>1, <1>10 DEF LoseCommand
  <2>2. faults' \in 0 .. MaxFaults
    BY <1>10, FaultIs DEF LoseCommand, IInv
  <2> QED BY <1>1, <2>1, <2>2, CallsKeep
<1>11. ASSUME NEW c \in Commands, CommitCommand(c) PROVE IInv'
  <2>1. c \in Commands \cup {Other} /\ wire' \in SUBSET Commands /\ log' = Append(log, c) /\ UNCHANGED <<calls, nodeVars, faults>>
    BY <1>1, <1>11 DEF CommitCommand
  <2> QED BY <2>1, LogKeeps
<1>12. CASE CommitOther
  <2>1. Other \in Commands \cup {Other} /\ wire' \in SUBSET Commands /\ log' = Append(log, Other) /\ UNCHANGED <<calls, nodeVars, faults>>
    BY <1>1, <1>12 DEF CommitOther
  <2> QED BY <2>1, LogKeeps
<1>13. CASE UNCHANGED vars
  BY <1>1, <1>13, CallsKeep DEF vars
<1> QED BY <1>2, <1>3, <1>4, <1>5, <1>6, <1>7, <1>8, <1>9, <1>10, <1>11, <1>12, <1>13
       DEF Next, Progress, Environment

LEMMA Invariant == Spec => []IInv
<1> QED BY InitInv, NextInv, PTL DEF Spec

\* What the properties of the run say follows.
LEMMA Implied == IInv => StateFollowsLog /\ DiskSound
<1> SUFFICES ASSUME IInv PROVE StateFollowsLog /\ DiskSound
  OBVIOUS
<1> DEFINE d == storage.disk
           m == storage.mem
<1>1. TypeInv /\ AnsweredDurable /\ CoordinatorTold /\ DiskKept(d, log)
  BY DEF IInv, NodeInv
<1>2. log \in Seq(Entry) /\ Len(log) \in Nat
  <2>1. log \in Seq(Entry)
    BY <1>1, EntriesAre DEF TypeInv
  <2> QED BY <2>1, LenProperties
<1>3. TypeOK
  <2>1. lib.committed \in 0 .. Len(log) /\ lib.applied \in 0 .. lib.committed
    <3>1. CASE up = "down"
      BY <1>2, <3>1 DEF IInv, NodeInv
    <3>2. CASE up # "down"
      <4>1. /\ lib.committed \in Nat /\ lib.applied \in Nat /\ lib.committed <= Len(log) /\ lib.applied <= lib.committed
        BY <3>2, Alive
      <4> QED BY <1>2, <4>1
    <3> QED BY <3>1, <3>2
  <2>2. m.ents \in Seq(Entry) /\ m.data \in Seq(Entry)
    BY <1>1 DEF TypeInv, MemType
  <2> QED BY <1>1, <2>1, <2>2 DEF TypeInv, TypeOK
<1>4. AppliedOnceInOrder
  <2> SUFFICES ASSUME up # "down"
               PROVE  /\ IsPrefix(state, log) /\ last.committed \in {0, Len(state)}
                      /\ last.committed = 0 => Len(state) = m.index
    BY DEF AppliedOnceInOrder
  <2>1. /\ m.index \in Nat /\ Len(state) \in Nat /\ m.index <= Len(state)
        /\ Len(state) <= lib.committed /\ lib.committed \in Nat /\ lib.committed <= Len(log)
    BY Alive
  <2>2. /\ state = SubSeq(log, 1, Len(state)) /\ state \in Seq(Entry)
        /\ last.committed = Len(state) \/ (last.committed = 0 /\ Len(state) = m.index)
    BY <1>1 DEF IInv, NodeInv, Applying, TypeInv
  <2>3. SubSeq(state, 1, Len(state)) = state
    BY <2>2, SubSeqFull
  <2>4. IsPrefix(state, log)
    BY <1>2, <2>1, <2>2, <2>3 DEF IsPrefix
  <2> QED BY <2>1, <2>2, <2>4
<1>5. DiskRecovers
  <2>1. PICK hi \in Nat : DiskUpTo(d, hi) /\ d.commit <= hi
    BY <1>1 DEF DiskKept
  <2> DEFINE o == Open(d)
  <2>2. Readable(d) /\ o \in MemType /\ LastIndex(o) = hi /\ Mirror(o, d)
    BY <2>1, OpenIs
  <2>3. up # "down" => o = m
    <3>1. ASSUME up # "down" PROVE m \in MemType /\ DiskUpTo(d, LastIndex(m)) /\ Mirror(m, d)
      BY <3>1, Alive
    <3> HIDE DEF m, d
    <3> QED BY <3>1, MirrorIsOpen
  <2> HIDE DEF o, d, m
  <2>4. /\ d.index \in Nat /\ d.commit \in Nat /\ o.index = d.index /\ o.data = d.data
        /\ d.index <= d.commit /\ d.data = SubSeq(log, 1, d.index)
    BY <1>1, <2>1, <2>2 DEF DiskKept, DiskUpTo, Mirror
  <2>5. d.commit \in o.index .. LastIndex(o)
    BY <2>1, <2>2, <2>4
  <2>6. \A i \in o.index + 1 .. d.commit : EntryAt(o, i) = log[i]
    <3>1. \A i \in o.index + 1 .. d.commit : i \in FirstIndex(o) .. LastIndex(o) /\ i \in d.index + 1 .. d.commit
      BY <2>1, <2>2, <2>4 DEF FirstIndex
    <3> QED BY <1>1, <2>2, <3>1 DEF DiskKept, Mirror
  <2> QED BY <2>2, <2>3, <2>4, <2>5, <2>6 DEF DiskRecovers, o, d, m
<1> QED BY <1>1, <1>3, <1>4, <1>5 DEF StateFollowsLog, DiskSound

(***************************************************************************)
(* OnCommittedEntry and OnSnapshot apply each agreed entry once and in     *)
(* order, whatever the moments at which the node dies, replays its log,    *)
(* compacts it or is sent a snapshot, and a coordinator that has been      *)
(* initialized has been told of every one of them.                         *)
(***************************************************************************)
THEOREM LogStaysFollowed == Spec => []StateFollowsLog
BY Invariant, Implied, PTL

(***************************************************************************)
(* What ApplyAll, CreateSnapshot and ApplySnapshot leave on disk can       *)
(* always be opened, is what memory holds, and has every entry that a      *)
(* caller was told of.                                                     *)
(***************************************************************************)
THEOREM DiskStaysSound == Spec => []DiskSound
BY Invariant, Implied, PTL
=============================================================================
