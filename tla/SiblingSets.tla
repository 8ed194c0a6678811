----------------------------- MODULE SiblingSets -----------------------------
(***************************************************************************)
(* The data a bucket keeps for one key: a set of siblings, each stamped    *)
(* with a dotted version vector (package data: dvv.go, sibling.go,         *)
(* sibling_set.go) and the two conflict resolution strategies              *)
(* (package resolver/strategies).                                          *)
(*                                                                         *)
(* A sibling is a record                                                   *)
(*   node, count  the dot: the replica that coordinated the update and     *)
(*                its per-key event number, counted from 1;                *)
(*   ctx          the version vector the update was based on; a replica    *)
(*                missing from the Go map has the entry 0 here, which      *)
(*                HappenedBefore and MaxDot cannot tell apart from a       *)
(*                missing one because no dot is numbered 0;                *)
(*   val          the value, a natural number ordered as bytes.Compare     *)
(*                orders byte strings; 0 is the nil value of a tombstone;  *)
(*   ts           the physical timestamp;                                  *)
(*   id           which client update this is. No operator reads it: it    *)
(*                is a history field that lets properties follow an update *)
(*                through copies and through re-dotting.                   *)
(*                                                                         *)
(* Where the code ranges over a Go map in an order that matters, the       *)
(* operator returns the set of results the orders can produce.             *)
(***************************************************************************)
EXTENDS Integers, FiniteSetsExt, Functions

CONSTANT Node     \* node IDs of the replicas that coordinate updates

Nil == 0

Clocks == [Node -> Nat]
Siblings == [node : Node, count : Nat \ {0}, ctx : Clocks, val : Nat, ts : Nat, id : Nat]

EmptyClock == [n \in Node |-> 0]
-----------------------------------------------------------------------------
\* The dot of c is covered by the context of d.
HappenedBefore(c, d) == c.count <= d.ctx[c.node]

Equals(c, d) == c.node = d.node /\ c.count = d.count /\ c.ctx = d.ctx

MaxDot(c, n) == IF c.node = n /\ c.count > c.ctx[n] THEN c.count ELSE c.ctx[n]

IsTombstone(s) == s.val = Nil

\* Orders two siblings that carry the same clock: a value beats a tombstone,
\* tombstones go by timestamp and values by content.
Compare(s, t) == IF IsTombstone(s) /\ IsTombstone(t) THEN s.ts - t.ts ELSE s.val - t.val
-----------------------------------------------------------------------------
SyncKeepAll(S, T) == S \cup T

\* What is left of two sibling sets: neither an overwritten sibling nor the
\* lesser of two siblings with the same clock.
Sync(S, T) ==
  {s \in S : \A t \in T : ~HappenedBefore(s, t) /\ ~(Equals(s, t) /\ Compare(s, t) <= 0)}
    \cup
  {t \in T : \A s \in S : ~HappenedBefore(t, s) /\ ~(Equals(t, s) /\ Compare(t, s) < 0)}

JoinOne(S, n) == Max({0} \cup {MaxDot(s, n) : s \in S})

JoinDots(S) == [n \in Node |-> Max({0} \cup {s.count : s \in {x \in S : x.node = n}})]
Join(S) == [n \in Node |-> JoinOne(S, n)]

Discard(S, c) == {s \in S : ~HappenedBefore(s, c)}

\* The dot a replica gives to its next update of a key that holds S.
EventCountSame(S, ctx, r) == Max({ctx[r], JoinOne(S, r)})
EventCountFromContext(S, ctx, r) == ctx[r] + 1
EventCount(S, ctx, r) == Max({ctx[r], JoinOne(S, r)}) + 1

IsTombstoneSet(S) == \A s \in S : IsTombstone(s)

CanPurge(S, cutoff) == \A s \in S : IsTombstone(s) /\ s.ts < cutoff

OldestTombstone(S) == Min({s.ts : s \in {x \in S : IsTombstone(x)}})
-----------------------------------------------------------------------------
\* The hash of a sibling set: the exclusive or of the hashes of the values,
\* node IDs and counts in it, where tombstones count for nothing. NewHash is
\* taken to be collision free, so the hash is given by what occurs an odd
\* number of times. A clock hashes its node IDs apart from its counts.
Odd(S) == Cardinality(S) % 2 = 1

Visible(S) == {s \in S : ~IsTombstone(s)}

CountsIn(S) == {<<s, s.node, "dot">> : s \in S} \cup (S \X Node \X {"ctx"})
CountAt(c) == IF c[3] = "dot" THEN c[1].count ELSE c[1].ctx[c[2]]

Hash(S) ==
  LET V == Visible(S)
      C == CountsIn(V)
  IN  [values |-> {v \in {s.val : s \in V} : Odd({s \in V : s.val = v})},
       nodes  |-> {n \in Node : Odd({s \in V : (s.node = n) # (s.ctx[n] # 0)})},
       counts |-> {m \in {CountAt(c) : c \in C} \ {0} : Odd({c \in C : CountAt(c) = m})}]
-----------------------------------------------------------------------------
\* The pairs <<s, t>> for which MergeSync replaces s, a sibling of replica r
\* that t would overwrite, because r has forgotten part of its own history.
Overwritten(S, T, r) ==
  {p \in S \X T : /\ JoinOne(S, r) < JoinOne(T, r)
                  /\ HappenedBefore(p[1], p[2])
                  /\ MaxDot(p[1], r) < MaxDot(p[2], r)
                  /\ MaxDot(p[1], r) # 0}

\* The orders in which the two nested map iterations can meet those pairs:
\* all pairs of one s before any pair of another.
Numberings(O) ==
  {f \in Bijection(O, 1..Cardinality(O)) :
     \A p, q, w \in O : p[1] = q[1] /\ f[p] < f[w] /\ f[w] < f[q] => w[1] = p[1]}

Redotted(O, f, r, base) ==
  {[p[1] EXCEPT !.node = r, !.count = base + f[p]] : p \in O}

MergeSyncResult(S, T, r, f) ==
  LET O == Overwritten(S, T, r)
  IN  Sync((S \ {p[1] : p \in O}) \cup Redotted(O, f, r, JoinOne(T, r)), T)

MergeSync(S, T, r) == {MergeSyncResult(S, T, r, f) : f \in Numberings(Overwritten(S, T, r))}
-----------------------------------------------------------------------------
\* The default strategy keeps every sibling; last-writer-wins keeps one of
\* those with the newest timestamp, whichever the iteration meets first.
MultiValue(S) == {S}

LastWriterWins(S) ==
  IF S = {} THEN {S}
  ELSE {{s} : s \in {x \in S : \A y \in S : y.ts <= x.ts}}
=============================================================================
