----------------------------- MODULE RaftStorage -----------------------------
(***************************************************************************)
(* The storage of a raft node: a log and a snapshot that are kept both in  *)
(* memory (etcd's MemoryStorage) and in the key-value store on disk, where *)
(* each entry has a key of its own.  Every operation changes memory first  *)
(* and then writes one atomic batch; if that fails memory is put back.     *)
(*                                                                         *)
(* Memory is a snapshot (an index and the data of the state machine) and   *)
(* the entries that follow it.  On disk there are a snapshot, the hard     *)
(* state, of which only the commit index is modelled, and a function from  *)
(* indices to entries.                                                     *)
(***************************************************************************)
EXTENDS Naturals, Sequences, FiniteSets, FiniteSetsExt, Functions

EmptyMemory == [index |-> 0, data |-> <<>>, ents |-> <<>>]
EmptyDisk == [index |-> 0, data |-> <<>>, commit |-> 0, entries |-> <<>>]

FirstIndex(m) == m.index + 1
LastIndex(m) == m.index + Len(m.ents)
EntryAt(m, i) == m.ents[i - m.index]

\* Entries es, the first of which has index `from', without the ones that are compacted in m.
Truncated(m, from, es) ==
  IF from >= FirstIndex(m) THEN [from |-> from, ents |-> es]
  ELSE [from |-> FirstIndex(m), ents |-> SubSeq(es, FirstIndex(m) - from + 1, Len(es))]

\* MemoryStorage.Append panics if it would leave a gap, and replaces what is there already.
Fits(m, from, es) == es = <<>> \/ Truncated(m, from, es).from <= LastIndex(m) + 1

MemoryAppend(m, from, es) ==
  LET t == Truncated(m, from, es) IN
  IF t.ents = <<>> THEN m
  ELSE [m EXCEPT !.ents = SubSeq(@, 1, t.from - FirstIndex(m)) \o t.ents]

MemorySnapshot(m, snap) == [index |-> snap.index, data |-> snap.data, ents |-> <<>>]

\* A snapshot is put in place of the one before.
DiskSnapshot(d, snap) == [d EXCEPT !.index = snap.index, !.data = snap.data]

\* Mutant: keys are never deleted.
PurgeNothing(d, lo, hi) == d

\* The keys of a range of entries are deleted.
Purge(d, lo, hi) == [d EXCEPT !.entries = Restrict(@, DOMAIN @ \ (lo .. hi))]

\* The entries' part of ApplyAll's batch.
DiskAppend(m, d, from, es) ==
  LET t    == Truncated(m, from, es)
      new  == t.from .. t.from + Len(t.ents) - 1
      rest == Purge(d, t.from, LastIndex(m))
  IN IF t.ents = <<>> THEN d
     ELSE [rest EXCEPT !.entries = [i \in DOMAIN @ \cup new |-> IF i \in new THEN t.ents[i - t.from + 1] ELSE @[i]]]

\* What ApplyAll puts into its batch before the snapshot.
DiskSave(m, d, commit, from, es) == [DiskAppend(m, d, from, es) EXCEPT !.commit = commit]

\* Entries all of which are compacted in m.
AllCompacted(m, from, es) == es # <<>> /\ from + Len(es) - 1 < FirstIndex(m)

\* ApplyAll: the entries, then the hard state, then the snapshot, in memory and in one batch.
\* An empty snapshot has index 0.
ApplyAll(s, commit, from, es, snap) ==
  LET m == MemoryAppend(s.mem, from, es)
      d == DiskSave(s.mem, s.disk, commit, from, es)
  IN IF AllCompacted(s.mem, from, es) THEN s
     ELSE IF snap.index = 0 THEN [mem |-> m, disk |-> d]
     ELSE [ mem  |-> MemorySnapshot(m, snap),
            disk |-> DiskSnapshot(Purge(d, FirstIndex(m), LastIndex(m)), snap) ]

\* CreateSnapshot: the state after entry i, and the entries up to i are compacted.
CreateSnapshot(s, i, data) ==
  [ mem  |-> [index |-> i, data |-> data, ents |-> SubSeq(s.mem.ents, i - s.mem.index + 1, Len(s.mem.ents))],
    disk |-> DiskSnapshot(Purge(s.disk, FirstIndex(s.mem), i), [index |-> i, data |-> data]) ]

\* Open refuses keys with a gap, and memory is filled from the snapshot and the entries.
Contiguous(d) == \A i, j \in DOMAIN d.entries : i < j => i + 1 \in DOMAIN d.entries

Readable(d) ==
  /\ Contiguous(d)
  /\ DOMAIN d.entries # {} => Min(DOMAIN d.entries) <= d.index + 1

Open(d) ==
  LET keys  == DOMAIN d.entries
      first == Min(keys)
      empty == [index |-> d.index, data |-> d.data, ents |-> <<>>]
  IN IF keys = {} THEN empty
     ELSE MemoryAppend(empty, first, [k \in 1 .. Cardinality(keys) |-> d.entries[first + k - 1]])
=============================================================================
