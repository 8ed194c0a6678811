---------------------------- MODULE CausalRegister ----------------------------
(***************************************************************************)
(* What the replicas of one key promise their clients, with no version     *)
(* vectors in it. Every replica has taken in a set of updates; a read      *)
(* shows exactly those of them that no other update it has taken in was    *)
(* based on. An update is based on everything the client had read, or, if  *)
(* the client sent no context, on everything at the coordinating replica.  *)
(***************************************************************************)
EXTENDS Naturals

CONSTANTS
  Node,         \* the replicas
  MaxWrites     \* bound on the number of client updates

VARIABLES
  known,        \* known[r]: the updates replica r has taken in
  visible,      \* visible[r]: the updates a read at r returns
  seen,         \* seen[i]: the updates that update i was based on
  views,        \* every set of updates a replica has ever known
  nextId        \* the next client update

vars == <<known, visible, seen, views, nextId>>

Update == 1..MaxWrites

\* The updates of K that no update of K supersedes.
Latest(K, sn) == {i \in K : \A j \in K : i \notin sn[j]}

Init ==
  /\ known = [r \in Node |-> {}]
  /\ visible = [r \in Node |-> {}]
  /\ seen = [i \in Update |-> {}]
  /\ views = {{}}
  /\ nextId = 1

\* Replica r takes in the updates of K.
Learn(r, K) ==
  /\ known' = [known EXCEPT ![r] = K]
  /\ views' = views \cup {K}
  /\ visible' = [visible EXCEPT ![r] = Latest(K, seen')]

\* A client that had read the view K, or sent no context, updates the key at r.
Write(r, K) ==
  /\ nextId <= MaxWrites
  /\ nextId' = nextId + 1
  /\ seen' = [seen EXCEPT ![nextId] = IF K = {} THEN known[r] ELSE K]
  /\ Learn(r, known[r] \cup K \cup {nextId})

\* Replica r is sent a view that some replica had at some time.
Merge(r, K) ==
  /\ UNCHANGED <<seen, nextId>>
  /\ Learn(r, known[r] \cup K)

Next == \E r \in Node, K \in views : Write(r, K) \/ Merge(r, K)

Spec == Init /\ [][Next]_vars
=============================================================================
