------------------------------ MODULE ClusterIO ------------------------------
(***************************************************************************)
(* The cluster's reads and writes: clusterio.Agent sends an operation on a *)
(* site to every replica of the site's partition, answers its client as    *)
(* soon as a quorum of replicas answered, and lets a collector goroutine   *)
(* wait for the others; a read then repairs the replicas that were behind. *)
(*                                                                         *)
(* One site and one key are modelled.  What a node stores for the key is   *)
(* the set of updates (dots) its sibling set has seen: Sync is union, Diff *)
(* is set difference.  A batch creates its dot at the node that runs it,   *)
(* so the same batch run at two nodes leaves two dots.  A replica may      *)
(* refuse, be slow, or lose the answer; an abandoned request may still     *)
(* reach its node later.                                                   *)
(***************************************************************************)
EXTENDS Naturals, FiniteSets

CONSTANTS
  Nodes,     \* the nodes of the cluster
  Local,     \* the node the agent runs on
  Ops,       \* operation ids, 1 .. n
  Plans,     \* bound: which kinds of operation a behaviour runs, a set of functions Ops -> kind
  ReplicaSets, \* the replica sets of the partition to try
  Leftovers, \* sets of nodes that may have an update no other node has when a behaviour begins
  NoSites    \* sets of nodes that may not know the site yet, or any more

ASSUME NodesAssumption == IsFiniteSet(Nodes) /\ Local \in Nodes

Kinds == {"batch", "merge", "get", "matches", "status", "cancel"}

ASSUME PlansAssumption ==
  /\ Ops \subseteq Nat \ {0} /\ Plans \subseteq [Ops -> Kinds]
  /\ ReplicaSets \subseteq SUBSET Nodes /\ Leftovers \subseteq SUBSET Nodes
  /\ NoSites \subseteq SUBSET Nodes

VARIABLES
  replicas,  \* PartitionResolver.ReplicaNodes, without duplicates
  plan,      \* the kind of each operation
  noSite,    \* the nodes that answer ESiteDoesNotExist
  store,     \* store[n]: the dots node n holds
  op,        \* op[o]: the state of operation o's goroutines
  late,      \* requests under way whose caller gave up
  repair,    \* repair[o][n]: the patch read repair of o is sending to n
  stopped,   \* ReadRepairer.stopped
  settled    \* history: dots that clients were told about as durable

vars == <<replicas, plan, noSite, store, op, late, repair, stopped, settled>>

\* Dot <<0, Local>> is that of an older update.
Dots == (Ops \cup {0}) \X Nodes

Refusals == {"ESite", "error"}
Answers == {"ok", "connected", "iterError"} \cup Refusals

\* Half of the replicas is not a majority.
NQuorumHalf(n) == n \div 2

\* Agent.NQuorum
NQuorum(n) == (n \div 2) + 1

Quorum == NQuorum(Cardinality(replicas))

Writes == {"batch", "merge"}

NewOp ==
  [ phase   |-> "idle",     \* idle, batching, collecting, stuck or ended
    client  |-> "none",     \* none, waiting, ok or the error returned
    left    |-> {},         \* Batch: remainingNodes
    need    |-> 0,          \* nQuorum of merge()
    call    |-> [n \in Nodes |-> "none"],
    applied |-> 0,          \* nApplied or nRead
    error   |-> "ENoQuorum",
    patch   |-> {},         \* what merge() sends
    value   |-> [n \in Nodes |-> {}], \* the replica a node answered with
    seen    |-> {},         \* ReadMerger.Nodes
    keys    |-> FALSE,      \* the merge iterator listed the key when the client got it
    result  |-> {},         \* what the client was given
    count   |-> 0,          \* the number of applied replicas the client was told
    due     |-> {},         \* history: settled when the operation began
    open    |-> FALSE ]     \* its canceller is in operationCancellers

TypeOK ==
  /\ replicas \subseteq Nodes
  /\ plan \in Plans /\ noSite \subseteq Nodes
  /\ store \in [Nodes -> SUBSET Dots]
  /\ \A o \in Ops :
       /\ op[o].phase \in {"idle", "batching", "collecting", "stuck", "ended"}
       /\ op[o].client \in {"none", "waiting", "iterating", "ok", "ENoQuorum"} \cup Refusals
       /\ op[o].call \in [Nodes -> {"none", "sent", "done"} \cup Answers]
       /\ op[o].applied <= Cardinality(Nodes) /\ op[o].count <= Cardinality(Nodes)
       /\ op[o].seen \subseteq replicas /\ op[o].left \subseteq replicas
  /\ late \subseteq Ops \X Nodes \X Writes
  /\ repair \in [Ops -> [Nodes -> SUBSET Dots]]
  /\ stopped \in BOOLEAN
  /\ settled \subseteq Dots

Init ==
  /\ replicas \in ReplicaSets
  /\ plan \in Plans
  /\ noSite \in NoSites
  /\ \E S \in Leftovers : store = [n \in Nodes |-> IF n \in S \ noSite THEN {<<0, Local>>} ELSE {}]
  /\ op = [o \in Ops |-> NewOp]
  /\ late = {}
  /\ repair = [o \in Ops |-> [n \in Nodes |-> {}]]
  /\ stopped = FALSE
  /\ settled = {}

-----------------------------------------------------------------------------
(* Starting an operation *)

\* The goroutines of merge(), Get, GetMatches and RelayStatus call every node of S.
Calls(S) == [n \in Nodes |-> IF n \in S THEN "sent" ELSE "none"]

\* newOperation, and one goroutine per replica; operations are numbered in the order they begin.
Started(o) ==
  /\ op[o].phase = "idle"
  /\ \A p \in Ops : p < o => op[p].phase # "idle"

StartBatch(o) ==
  /\ Started(o) /\ plan[o] = "batch"
  /\ op' = [op EXCEPT ![o] = [op[o] EXCEPT
              !.phase = "batching", !.client = "waiting", !.open = TRUE, !.left = replicas]]
  /\ UNCHANGED <<replicas, plan, noSite, store, late, repair, stopped, settled>>

\* The patch goes to every member of the cluster.
MergePhaseAll(r, nodes, need, patch) ==
  [r EXCEPT
     !.phase = "collecting", !.left = Nodes, !.need = need, !.patch = patch, !.call = Calls(Nodes),
     !.client = "waiting"]

\* One replica fewer than the quorum is enough.
MergePhaseShort(r, nodes, need, patch) ==
  [r EXCEPT
     !.phase = "collecting", !.left = nodes, !.need = need - 1, !.patch = patch, !.call = Calls(nodes),
     !.client = IF nodes # {} THEN "waiting" ELSE IF need = 0 THEN "ok" ELSE r.error]

\* merge() returns at once when there is no node to call.
MergePhase(r, nodes, need, patch) ==
  [r EXCEPT
     !.phase = "collecting", !.left = nodes, !.need = need, !.patch = patch, !.call = Calls(nodes),
     !.client = IF nodes # {} THEN "waiting" ELSE IF need = 0 THEN "ok" ELSE r.error]

\* Agent.Merge: the patch was made elsewhere, here at the local node.
StartMerge(o) ==
  /\ Started(o) /\ plan[o] = "merge"
  /\ op' = [op EXCEPT ![o] =
              [MergePhase(@, replicas, Quorum, {<<o, Local>>}) EXCEPT !.open = TRUE]]
  /\ UNCHANGED <<replicas, plan, noSite, store, late, repair, stopped, settled>>

\* Agent.Get, GetMatches and RelayStatus; RelayStatus starts with no error.
StartRead(o) ==
  /\ Started(o) /\ plan[o] \in {"get", "matches", "status"}
  /\ op' = [op EXCEPT ![o] = [op[o] EXCEPT
              !.phase = "collecting", !.client = "waiting", !.open = TRUE,
              !.left = replicas, !.call = Calls(replicas), !.due = settled,
              !.error = IF plan[o] = "status" THEN "none" ELSE "ENoQuorum"]]
  /\ UNCHANGED <<replicas, plan, noSite, store, late, repair, stopped, settled>>

-----------------------------------------------------------------------------
(* At the nodes *)

\* A node that does not know the site says so and changes nothing.  Any other error, and the
\* loss of the answer, is "error"; for a remote node an error without effect is GiveUp below.
Effects(n, answer, before, after) ==
  CASE n \in noSite -> IF answer = "ESite" THEN {before} ELSE {}
    [] n \notin noSite /\ answer = "ok" -> {after}
    [] n \notin noSite /\ answer = "error" -> IF n = Local THEN {before} ELSE {after}
    [] OTHER -> {}

With(n, dots) == [store EXCEPT ![n] = @ \cup dots]

\* ClusterNode.Batch: a node that does not hold the partition refuses before it writes.
NodeBatch(o, n, answer) == store' \in Effects(n, answer, store, With(n, {<<o, n>>}))

\* ClusterNode.Merge: a node that does not hold the partition answers ENoQuorum after it merged.
NodeMerge(patch, n, answer) ==
  store' \in Effects(n, answer, store, With(n, patch))
            \cup (IF n = Local /\ n \notin noSite /\ answer = "error" THEN {With(n, patch)} ELSE {})

\* ClusterNode.Get and GetMatches; only the local node's iterator can fail half way.
NodeRead(o, n, answer) ==
  store' \in Effects(n, answer, store, store)
            \cup (IF plan[o] = "matches" /\ n = Local /\ n \notin noSite /\ answer = "iterError"
                  THEN {store} ELSE {})

\* ClusterNode.RelayStatus
NodeStatus(n, answer) ==
  /\ answer \in {"ok", "connected", "error"}
  /\ UNCHANGED store

Answered(o, n, answer, value) ==
  /\ op' = [op EXCEPT ![o].call[n] = answer, ![o].value[n] = value]
  /\ UNCHANGED <<replicas, plan, noSite, late, repair, stopped, settled>>

\* Node n handles a batch, a merge, a read or a relay status request, by a call from the agent
\* on the same node or by its HTTP endpoint; the answer is on the way.
ServeBatch(o, n) ==
  /\ op[o].call[n] = "sent" /\ op[o].phase = "batching"
  /\ \E answer \in Answers : NodeBatch(o, n, answer) /\ Answered(o, n, answer, {})

ServeMerge(o, n) ==
  /\ op[o].call[n] = "sent" /\ op[o].phase = "collecting" /\ plan[o] \in Writes
  /\ \E answer \in Answers : NodeMerge(op[o].patch, n, answer) /\ Answered(o, n, answer, {})

ServeRead(o, n) ==
  /\ op[o].call[n] = "sent" /\ plan[o] \in {"get", "matches"}
  /\ \E answer \in Answers :
       /\ NodeRead(o, n, answer)
       /\ \E v \in CASE answer = "ok" -> {store[n]}
                    [] answer = "iterError" -> {{}, store[n]}
                    [] OTHER -> {{}} :
            Answered(o, n, answer, v)

ServeStatus(o, n) ==
  /\ op[o].call[n] = "sent" /\ plan[o] = "status"
  /\ \E answer \in Answers : NodeStatus(n, answer) /\ Answered(o, n, answer, {})

Serve(o, n) == ServeBatch(o, n) \/ ServeMerge(o, n) \/ ServeRead(o, n) \/ ServeStatus(o, n)

\* The deadline of the operation passes, its context is cancelled or the connection breaks:
\* the goroutine gets an error while its request may be on its way.  A call of the local node is
\* a function call and is not given up.
GiveUp(o, n) ==
  /\ n # Local
  /\ op[o].call[n] = "sent"
  /\ op' = [op EXCEPT ![o].call[n] = "error"]
  /\ late' = IF plan[o] \in Writes /\ n \notin noSite
             THEN late \cup {<<o, n, IF op[o].phase = "batching" THEN "batch" ELSE "merge">>}
             ELSE late
  /\ UNCHANGED <<replicas, plan, noSite, store, repair, stopped, settled>>

\* An abandoned request reaches its node after all.
ServeLate(o, n, w) ==
  /\ <<o, n, w>> \in late
  /\ late' = late \ {<<o, n, w>>}
  /\ store' = With(n, IF w = "batch" THEN {<<o, n>>} ELSE op[o].patch)
  /\ UNCHANGED <<replicas, plan, noSite, op, repair, stopped, settled>>

-----------------------------------------------------------------------------
(* Agent.Batch, one node after the other *)

\* EBucketDoesNotExist and ESiteDoesNotExist override ENoQuorum.
ErrorAfter(error, answer) == IF answer = "ESite" THEN "ESite" ELSE error

\* Nothing is returned when no node is left.
TryBatchNoReturn(o) ==
  /\ op[o].phase = "batching"
  /\ \A n \in Nodes : op[o].call[n] \in {"none", "done"}
  /\ \E n \in op[o].left :
       /\ Local \in op[o].left => n = Local
       /\ op' = [op EXCEPT ![o] = [op[o] EXCEPT !.left = @ \ {n}, !.call[n] = "sent"]]
  /\ UNCHANGED <<replicas, plan, noSite, store, late, repair, stopped, settled>>

\* The next node to run the batch: the local one first, then any.  When none is left the
\* client gets the error; the operation's canceller stays in the map.
TryBatch(o) ==
  /\ op[o].phase = "batching"
  /\ \A n \in Nodes : op[o].call[n] \in {"none", "done"}
  /\ IF op[o].left = {}
     THEN op' = [op EXCEPT ![o] = [op[o] EXCEPT !.phase = "ended", !.client = op[o].error]]
     ELSE \E n \in op[o].left :
            /\ Local \in op[o].left => n = Local
            /\ op' = [op EXCEPT ![o] = [op[o] EXCEPT
                        !.left = @ \ {n}, !.call[n] = "sent"]]
  /\ UNCHANGED <<replicas, plan, noSite, store, late, repair, stopped, settled>>

\* The answer of the node that ran the batch: merge its patch into the nodes not yet tried.
BatchAnswer(o, n) ==
  /\ op[o].phase = "batching"
  /\ op[o].call[n] \in Answers
  /\ IF op[o].call[n] = "ok"
     THEN LET r == MergePhase(op[o], op[o].left, Quorum - 1, {<<o, n>>}) IN
          /\ op' = [op EXCEPT ![o] = [r EXCEPT !.count = 1]]
          /\ settled' = IF r.client = "ok" THEN settled \cup r.patch ELSE settled
     ELSE /\ op' = [op EXCEPT ![o] = [op[o] EXCEPT
                      !.call[n] = "done", !.error = ErrorAfter(@, op[o].call[n])]]
          /\ UNCHANGED settled
  /\ UNCHANGED <<replicas, plan, noSite, store, late, repair, stopped>>

-----------------------------------------------------------------------------
(* The collector goroutines *)

\* ReadMerger.mergedKeys: the replicas inserted so far, merged by Sync.
Merged(r) == UNION {r.value[n] : n \in r.seen}

Collecting(o, n) ==
  /\ op[o].phase = "collecting"
  /\ op[o].call[n] \in Answers

\* A failed call counts like one that was applied.
CollectFailureCounted(o, n) ==
  /\ Collecting(o, n)
  /\ op[o].call[n] \in Refusals
  /\ op' = [op EXCEPT ![o] = [op[o] EXCEPT
              !.call[n] = "done", !.applied = @ + 1,
              !.error = IF plan[o] = "status" THEN "error" ELSE ErrorAfter(@, op[o].call[n])]]
  /\ UNCHANGED <<replicas, plan, noSite, store, late, repair, stopped, settled>>

\* A failed call.
CollectFailure(o, n) ==
  /\ Collecting(o, n)
  /\ op[o].call[n] \in Refusals
  /\ op' = [op EXCEPT ![o] = [op[o] EXCEPT
              !.call[n] = "done",
              !.error = IF plan[o] = "status" THEN "error" ELSE ErrorAfter(@, op[o].call[n])]]
  /\ UNCHANGED <<replicas, plan, noSite, store, late, repair, stopped, settled>>

\* merge(): one more replica has the patch; at the quorum the client is answered.
CollectMerge(o, n) ==
  /\ Collecting(o, n) /\ plan[o] \in Writes
  /\ op[o].call[n] = "ok"
  /\ LET done == op[o].applied + 1 = op[o].need
         r == [op[o] EXCEPT !.call[n] = "done", !.applied = @ + 1]
     IN /\ op' = [op EXCEPT ![o] =
                    IF done THEN [r EXCEPT !.client = "ok", !.count = @ + r.applied] ELSE r]
        /\ settled' = IF done THEN settled \cup r.patch ELSE settled
  /\ UNCHANGED <<replicas, plan, noSite, store, late, repair, stopped>>

\* Get: insert the replica; at the quorum the client gets what is merged so far.
CollectGet(o, n) ==
  /\ Collecting(o, n) /\ plan[o] = "get"
  /\ op[o].call[n] = "ok"
  /\ LET r == [op[o] EXCEPT !.call[n] = "done", !.applied = @ + 1, !.seen = @ \cup {n}] IN
     op' = [op EXCEPT ![o] = IF r.applied = Quorum
                             THEN [r EXCEPT !.client = "ok", !.result = Merged(r)]
                             ELSE r]
  /\ UNCHANGED <<replicas, plan, noSite, store, late, repair, stopped, settled>>

\* GetMatches: only a node that has the key is inserted.  The quorum is tested after every
\* answer, an iterator's failure included: the second time nobody receives and the collector
\* stays blocked.
CollectMatches(o, n) ==
  /\ Collecting(o, n) /\ plan[o] = "matches"
  /\ op[o].call[n] \in {"ok", "iterError"}
  /\ LET r == [op[o] EXCEPT !.call[n] = "done",
                            !.applied = IF op[o].call[n] = "ok" THEN @ + 1 ELSE @,
                            !.seen = IF op[o].value[n] = {} THEN @ ELSE @ \cup {n}]
     IN op' = [op EXCEPT ![o] =
                 CASE r.applied # Quorum -> r
                   [] r.applied = Quorum /\ r.client = "waiting" ->
                        [r EXCEPT !.client = "iterating", !.keys = (r.seen # {})]
                   [] r.applied = Quorum /\ r.client # "waiting" -> [r EXCEPT !.phase = "stuck"]]
  /\ UNCHANGED <<replicas, plan, noSite, store, late, repair, stopped, settled>>

\* The client walks the iterator: Value asks the read merger again.  A key that was listed
\* only after the client got the iterator may be missed: the lists are shared without a lock.
Iterate(o) ==
  /\ op[o].client = "iterating"
  /\ \E v \in IF op[o].keys THEN {Merged(op[o])} ELSE {{}, Merged(op[o])} :
       op' = [op EXCEPT ![o].client = "ok", ![o].result = v]
  /\ UNCHANGED <<replicas, plan, noSite, store, late, repair, stopped, settled>>

\* RelayStatus: a connected relay is reported at once and the other calls are cancelled; a
\* second such answer finds nobody waiting.
CollectStatus(o, n) ==
  /\ Collecting(o, n) /\ plan[o] = "status"
  /\ op[o].call[n] \in {"ok", "connected"}
  /\ LET r == [op[o] EXCEPT !.call[n] = "done", !.applied = @ + 1] IN
     op' = [op EXCEPT ![o] =
              CASE op[o].call[n] = "ok" -> r
                [] op[o].call[n] # "ok" /\ r.client = "waiting" -> [r EXCEPT !.client = "ok", !.open = FALSE]
                [] op[o].call[n] # "ok" /\ r.client # "waiting" -> [r EXCEPT !.phase = "stuck"]]
  /\ UNCHANGED <<replicas, plan, noSite, store, late, repair, stopped, settled>>

AllAnswered(o) ==
  /\ op[o].phase = "collecting"
  /\ \A n \in Nodes : op[o].call[n] \in {"none", "done"}

\* Only a client that still waits makes the collector clean up.
EndMergeWaiting(o) ==
  /\ AllAnswered(o) /\ plan[o] \in Writes
  /\ op[o].client = "waiting"
  /\ op' = [op EXCEPT ![o] = [op[o] EXCEPT
              !.phase = "ended", !.open = FALSE, !.client = op[o].error, !.count = @ + op[o].applied]]
  /\ UNCHANGED <<replicas, plan, noSite, store, late, repair, stopped, settled>>

\* The end of merge()'s collector.
EndMerge(o) ==
  /\ AllAnswered(o) /\ plan[o] \in Writes
  /\ op' = [op EXCEPT ![o] =
              IF @.client = "waiting"
              THEN [op[o] EXCEPT !.phase = "ended", !.open = FALSE,
                             !.client = op[o].error, !.count = @ + op[o].applied]
              ELSE [op[o] EXCEPT !.phase = "ended", !.open = FALSE]]
  /\ UNCHANGED <<replicas, plan, noSite, store, late, repair, stopped, settled>>

\* ReadMerger.Patch for each of ReadMerger.Nodes: what the node lacks of the merged replicas.
Patch(r) == [n \in Nodes |-> IF n \in r.seen THEN Merged(r) \ r.value[n] ELSE {}]

\* Repairing nodes that are a quorum makes what was read durable.
Settles(o) == IF Cardinality(op[o].seen) >= Quorum THEN Merged(op[o]) ELSE {}

\* The end of Get's and GetMatches' collector: BeginRepair, then the client that still waits
\* gets the error.
EndRead(o) ==
  /\ AllAnswered(o) /\ plan[o] \in {"get", "matches"}
  /\ op' = [op EXCEPT ![o] = [op[o] EXCEPT
              !.phase = "ended", !.open = FALSE,
              !.client = IF @ = "waiting" THEN op[o].error ELSE @]]
  /\ repair' = IF stopped THEN repair ELSE [repair EXCEPT ![o] = Patch(op[o])]
  /\ settled' = IF \A n \in op[o].seen : Patch(op[o])[n] = {} THEN settled \cup Settles(o) ELSE settled
  /\ UNCHANGED <<replicas, plan, noSite, store, late, stopped>>

\* The end of RelayStatus' collector: with no error it sends a second result, which only a
\* client that still waits receives.
EndStatus(o) ==
  /\ AllAnswered(o) /\ plan[o] = "status"
  /\ op' = [op EXCEPT ![o] =
              IF op[o].error = "none" /\ op[o].client # "waiting"
              THEN [op[o] EXCEPT !.phase = "stuck"]
              ELSE [op[o] EXCEPT !.phase = "ended", !.open = FALSE,
                             !.client = CASE @ # "waiting" -> @
                                          [] @ = "waiting" /\ op[o].error = "none" -> "ok"
                                          [] OTHER -> op[o].error]]
  /\ UNCHANGED <<replicas, plan, noSite, store, late, repair, stopped, settled>>

-----------------------------------------------------------------------------
(* Read repair *)

\* A repair's merge is applied, or fails; when the last one of the read was applied everything
\* it read is at all the nodes it read from.
Repair(o, n) ==
  /\ repair[o][n] # {}
  /\ repair' = [repair EXCEPT ![o][n] = {}]
  /\ store' \in {store, With(n, repair[o][n])}
  /\ settled' = IF \A m \in op[o].seen : Merged(op[o]) \subseteq store'[m]
                THEN settled \cup Settles(o) ELSE settled
  /\ UNCHANGED <<replicas, plan, noSite, op, late, stopped>>

\* Agent.CancelAll at shutdown: repairs are stopped, every operation's context is cancelled and
\* its canceller removed.
CancelAll(o) ==
  /\ Started(o) /\ plan[o] = "cancel"
  /\ stopped' = TRUE
  /\ op' = [p \in Ops |-> [op[p] EXCEPT !.open = FALSE, !.phase = IF p = o THEN "ended" ELSE @]]
  /\ UNCHANGED <<replicas, plan, noSite, store, late, repair, settled>>

Collect(o, n) ==
  \/ CollectFailure(o, n) \/ CollectMerge(o, n) \/ CollectGet(o, n)
  \/ CollectMatches(o, n) \/ CollectStatus(o, n)

EndOperation(o) == EndMerge(o) \/ EndRead(o) \/ EndStatus(o)

Next ==
  \/ \E o \in Ops : StartBatch(o) \/ StartMerge(o) \/ StartRead(o) \/ TryBatch(o)
                    \/ Iterate(o) \/ EndOperation(o) \/ CancelAll(o)
  \/ \E o \in Ops, n \in Nodes :
       \/ Serve(o, n) \/ GiveUp(o, n) \/ BatchAnswer(o, n) \/ Collect(o, n) \/ Repair(o, n)
       \/ \E w \in Writes : ServeLate(o, n, w)

\* The nodes with a call of operation o that is under way or whose answer was not taken yet.
Outstanding(o) == {n \in Nodes : op[o].call[n] \notin {"none", "done"}}

\* A step of a goroutine of an operation that has begun.
Progress ==
  \E o \in Ops :
    \/ TryBatch(o) \/ Iterate(o) \/ EndOperation(o)
    \/ \E n \in Outstanding(o) : Serve(o, n) \/ GiveUp(o, n) \/ BatchAnswer(o, n) \/ Collect(o, n)

\* The goroutines run: a call is answered or its deadline passes, a local call returns, and
\* what was received is handled.  No goroutine makes endlessly many steps, so fairness of all
\* of them together is enough.
Fairness == WF_vars(Progress)

Spec == Init /\ [][Next]_vars /\ Fairness

-----------------------------------------------------------------------------
(* What the HTTP API tells the client *)

\* POST .../batches: without a quorum the batch still gets status 200.
BatchReply(r) ==
  CASE r.client = "ESite" -> [status |-> 404]
    [] r.client \in {"ok", "ENoQuorum"} ->
         [status |-> 200, quorum |-> r.client = "ok", applied |-> r.count]
    [] OTHER -> [status |-> 500]

\* GET .../keys: without a quorum a read is an error.
KeysReply(r) ==
  CASE r.client = "ok" -> [status |-> 200, value |-> r.result]
    [] r.client = "ESite" -> [status |-> 404]
    [] OTHER -> [status |-> 500]

-----------------------------------------------------------------------------
(* Properties *)

Copies(S) == {n \in replicas : S \subseteq store[n]}

\* What a client was told is durable (an update answered without error, or a value whose read
\* repair finished) is stored at a quorum of the replicas, whatever was lost or given up.
SettledAtQuorum == \A d \in settled : Cardinality(Copies({d})) >= Quorum

\* A read that began after an update was acknowledged, or after an earlier read's repair
\* finished, and that returns, returns that update: the replicas of Get's answer meet those
\* of merge()'s.  (GetMatches lists keys of nodes that have the key, hence also then.)
ReadsSeeSettled ==
  \A o \in Ops : plan[o] \in {"get", "matches"} /\ KeysReply(op[o]).status = 200 =>
    op[o].due \subseteq KeysReply(op[o]).value

\* The number of replicas that Batch and Merge report is never more than really have the update,
\* and an update reported to have its quorum was applied by one.
CountsTruthful ==
  \A o \in Ops : plan[o] \in Writes /\ op[o].client \notin {"none", "waiting"} =>
    LET r == BatchReply(op[o]) IN
    r.status = 200 => /\ r.applied = 0 \/ r.applied <= Cardinality(Copies(op[o].patch))
                      /\ r.quorum => r.applied >= Quorum

\* Every client gets an answer: an error once all replicas answered or timed out, at the latest.
EveryClientAnswered ==
  \A o \in Ops : op[o].client = "waiting" ~> op[o].client \notin {"waiting", "iterating"}

\* The collector of Merge, Batch and Get ends and removes the operation's canceller, also when
\* the client went away with its quorum long before.
CollectorsEnd ==
  \A o \in Ops : op[o].phase = "collecting" /\ plan[o] \in {"batch", "merge", "get"} ~> ~op[o].open

\* "this function should continue to run until the deadline is reached or a response is received
\* for each call": the canceller of every operation is removed once the operation is done.
CancellersRemoved == \A o \in Ops : op[o].open ~> ~op[o].open

\* What Batch and Merge tell their clients was counted right.
CountsSound == TypeOK /\ CountsTruthful

\* Nobody waits forever: neither the client of the agent nor the collector
\* goroutine of its operation.
OperationsEnd == EveryClientAnswered /\ CollectorsEnd
=============================================================================
