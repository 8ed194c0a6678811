------------------------------- MODULE Monitor -------------------------------
(***************************************************************************)
(* The update monitor of a store (bucket/monitor.go): rows are handed to   *)
(* it in the order in which writers finish and it sends them on in the     *)
(* order of their local versions, holding back a row until every lower     *)
(* version has been submitted or discarded.                                *)
(*                                                                         *)
(* A submitted update is a record [ver, key]; a discarded row ID has the   *)
(* key NoKey, which is the empty key of the code. The heap is a set: only  *)
(* its least element is ever looked at.                                    *)
(***************************************************************************)
EXTENDS Naturals, SequencesExt

CONSTANT NoKey

Versions(H) == {u.ver : u \in H}

\* submitUpdate refuses what is at or below the last version it passed on,
\* except that version 0 is taken as long as that last version is 0.
Accepts(prev, u) == u.ver > prev \/ (u.ver = 0 /\ prev = 0)

\* flushUpdates: the last version passed on when the heap holds H. Version 0
\* is passed on at once, anything else only right after its predecessor.
FlushedPast(prev, H) == Max({prev} \cup Versions(H)) + 1
FlushedTo(prev, H) ==
  CHOOSE p \in {prev} \cup Versions(H) :
    /\ p >= prev
    /\ (prev + 1)..p \subseteq Versions(H)
    /\ p + 1 \notin Versions(H)

\* The monitor after the updates U, which one writer submits in ascending
\* order while it holds the watcher lock.
Submitted(prev, H, U) == H \cup {u \in U : Accepts(prev, u)}
NewPrevious(prev, H, U) == FlushedTo(prev, Submitted(prev, H, U))
NewHeap(prev, H, U) ==
  {u \in Submitted(prev, H, U) : u.ver > NewPrevious(prev, H, U)}

\* What the listeners are sent, in order.
ByVersionDescending(u, v) == u.ver > v.ver
ByVersion(u, v) == u.ver < v.ver
InOrder(S) ==
  [i \in 1..Cardinality(S) |-> CHOOSE u \in S : Cardinality({v \in S : ByVersion(v, u)}) = i - 1]
Sent(prev, H, U) ==
  InOrder({u \in Submitted(prev, H, U) : u.ver <= NewPrevious(prev, H, U) /\ u.key # NoKey})
=============================================================================
