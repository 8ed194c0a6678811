----------------------------- MODULE SyncSession ------------------------------
(***************************************************************************)
(* Anti-entropy between two replicas of a bucket (server/sync.go): the     *)
(* initiator walks down both merkle trees breadth first and pulls the rows *)
(* of every leaf whose hashes differ; the responder answers. Each peer may *)
(* be initiator of one session and responder of another at the same time,  *)
(* clients write and delete and relays purge deleted rows while sessions   *)
(* run, and trees may differ in depth.                                     *)
(*                                                                         *)
(* A row is the set of versions taken in, merging is union (how dots and   *)
(* clocks tell what a version covers is the subject of ReplicatedKey) and  *)
(* an empty row is no row. The hash of a tree node is the set of values    *)
(* below it, without tombstones: that the tree in memory has it is the     *)
(* subject of MerkleStore.                                                 *)
(*                                                                         *)
(* The protocol is synchronous, so a session has one message under way. A  *)
(* session that times out, or fails on a storage error at either side, is  *)
(* over for the initiator whatever the responder still sends, because      *)
(* session IDs are not used twice.                                         *)
(***************************************************************************)
EXTENDS MerkleKeys

CONSTANTS
  Peer,         \* the two replicas
  Buckets,      \* the buckets considered: who accepts writes and replicates to
                \* the other one, which peers are relays, the keys of which relays
                \* have a row at the start, the depths of the merkle trees, and
                \* the explorationPathLimit the peers were started with
  MaxWrites,    \* bound on client updates
  MaxFaults     \* bound on rows purged, sessions that fail and storage errors
                \* while a row is read for pushing

ASSUME SyncAssumption ==
  /\ \E a, b \in Peer : a # b /\ Peer = {a, b}
  /\ Buckets \subseteq [writers : SUBSET Peer, relays : SUBSET Peer, former : SUBSET Key,
                       depth : [Peer -> 1..HashBits],
                       limit : Nat \ {0}]   \* the configuration reads 0 as the default
  /\ {MaxWrites, MaxFaults} \subseteq Nat

VARIABLES
  bucket,       \* the bucket that is synchronised
  rows,         \* rows[p][k]: the versions peer p holds for key k
  init,         \* init[p]: the session p has initiated
  resp,         \* resp[p]: the responder's side of that session
  msg,          \* msg[p]: the message of that session that is under way
  sent,         \* updates pushed to a peer outside any session, on their way
  nextId, purges, timeouts, readErrors

bounds == <<sent, nextId, purges, timeouts, readErrors>>
vars == <<bucket, rows, init, resp, msg, bounds>>

MayFault == timeouts + readErrors + purges < MaxFaults

\* A version: its number, whether it is a tombstone, and the versions it covers.
Version == [id : 0..MaxWrites, del : BOOLEAN, covers : SUBSET (0..MaxWrites)]

\* A relay that was moved to another site keeps the rows of the former one.
OfFormerSite == [id |-> 0, del |-> FALSE, covers |-> {}]

\* What a row stands for: the values that no other version of the row covers.
Values(row) == {v \in row : ~v.del /\ \A w \in row : v.id \notin w.covers}

\* A peer that accepts no writes is a relay's copy of the cloud bucket: it
\* only takes in, and drops rows that the other side does not send.
ReplicatesOutgoing(p) == p \in bucket.writers
Initiators == {p \in Peer : \E q \in Peer \ {p} : ReplicatesOutgoing(q)}
Other(p) == CHOOSE q \in Peer : q # p

MaxDepthDeepest == Max({bucket.depth[p] : p \in Peer})
MaxDepth == Min({bucket.depth[p] : p \in Peer})

None == [to |-> "nobody"]
Start(to) == [to |-> to, type |-> "START"]
AskHash(n) == [to |-> "responder", type |-> "NODE_HASH", node |-> n]
TellHash(h) == [to |-> "initiator", type |-> "NODE_HASH", hash |-> h]
ObjectNext(n) == [to |-> "responder", type |-> "OBJECT_NEXT", node |-> n]
Push(k, v) == [to |-> "initiator", type |-> "PUSH_MESSAGE", key |-> k, val |-> v]
PushDone == [to |-> "initiator", type |-> "PUSH_DONE"]
Abort == [to |-> "initiator", type |-> "ABORT"]

Idle == [state |-> "END", queue |-> <<>>, keys |-> {}]
\* since: nextId when the responder listed the rows of a node last. (It is there for
\* AuthoritativeKept only.)
Unopened == [state |-> "START", node |-> 0, iter |-> <<>>, open |-> FALSE, since |-> 0]

KeysBelow(p, n) == KeysAt(bucket.depth[p], n)
NodeHash(p, n) == {<<k, Values(rows[p][k])>> : k \in {j \in KeysBelow(p, n) : Values(rows[p][j]) # {}}}

\* GetSyncChildren: the keys of the rows below a node, tombstones too, in key order.
GetSyncChildren(p, n) == InOrder({k \in KeysBelow(p, n) : rows[p][k] # {}})

TypeOK ==
  /\ bucket \in Buckets
  /\ rows \in [Peer -> [Key -> SUBSET Version]]
  /\ \A p \in Peer :
       /\ init[p].state \in {"END", "HANDSHAKE", "ROOT_HASH_COMPARE", "LEFT_HASH_COMPARE",
                             "RIGHT_HASH_COMPARE", "DB_OBJECT_PUSH"}
       /\ \A i \in DOMAIN init[p].queue : init[p].queue[i] \in Nodes(bucket.depth[p])
       /\ init[p].keys \subseteq Key
       /\ resp[p].state \in {"START", "HASH_COMPARE", "DB_OBJECT_PUSH"}
       /\ resp[p].node \in {0} \cup Nodes(bucket.depth[Other(p)])
  /\ sent \subseteq [to : Peer, key : Key, val : SUBSET Version]
  /\ nextId \in 1..(MaxWrites + 1)

Init ==
  /\ bucket \in Buckets
  /\ rows = [p \in Peer |-> [k \in Key |->
               IF p \in bucket.relays /\ k \in bucket.former THEN {OfFormerSite} ELSE {}]]
  /\ init = [p \in Peer |-> Idle]
  /\ resp = [p \in Peer |-> Unopened]
  /\ msg = [p \in Peer |-> None]
  /\ sent = {}
  /\ nextId = 1 /\ purges = 0 /\ timeouts = 0 /\ readErrors = 0
-----------------------------------------------------------------------------
(* The initiator *)

PeekExplorationQueue(p) == Head(init[p].queue)

\* The node the responder knows the initiator's node n by.
Theirs(p, n) == TranslateNode(bucket.depth[p], n, bucket.depth[Other(p)])

Go(p, s, m) ==
  /\ init' = [init EXCEPT ![p] = s]
  /\ msg' = [msg EXCEPT ![p] = m]

\* The session ends; the responder gets an abort and ends as well.
End(p) ==
  /\ init' = [init EXCEPT ![p] = Idle]
  /\ resp' = [resp EXCEPT ![p] = Unopened]
  /\ msg' = [msg EXCEPT ![p] = None]

StartSession(p) ==
  /\ p \in Initiators /\ init[p].state = "END"
  /\ Go(p, [Idle EXCEPT !.state = "HANDSHAKE"], Start("responder"))
  /\ UNCHANGED <<rows, resp, bounds>>

Receives(p, state, type) ==
  init[p].state = state /\ msg[p].to = "initiator" /\ msg[p].type = type

HandshakeTheirRoot(p) ==
  /\ Receives(p, "HANDSHAKE", "START")
  /\ LET root == RootNode(bucket.depth[Other(p)])
     IN  Go(p, [init[p] EXCEPT !.state = "ROOT_HASH_COMPARE", !.queue = <<root>>], AskHash(Theirs(p, root)))
  /\ UNCHANGED <<rows, resp, bounds>>
Handshake(p) ==
  /\ Receives(p, "HANDSHAKE", "START")
  /\ LET root == RootNode(bucket.depth[p])
     IN  Go(p, [init[p] EXCEPT !.state = "ROOT_HASH_COMPARE", !.queue = <<root>>], AskHash(Theirs(p, root)))
  /\ UNCHANGED <<rows, resp, bounds>>

\* The next thing to do with the node at the front of the queue q: compare
\* its children or, at the deepest level both trees have, fetch its rows.
Explore(p, q) == Go(p, [init[p] EXCEPT !.state = "LEFT_HASH_COMPARE", !.queue = q],
                    AskHash(Theirs(p, LeftChild(Head(q)))))
Fetch(p, q, K) == Go(p, [init[p] EXCEPT !.state = "DB_OBJECT_PUSH", !.queue = q, !.keys = K],
                     ObjectNext(Theirs(p, Head(q))))

\* getNodeKeys: what a peer that only takes in may have to drop.
NodeKeys(p, n) == IF ReplicatesOutgoing(p) THEN {} ELSE ToSet(GetSyncChildren(p, n))

CompareRoot(p) ==
  /\ Receives(p, "ROOT_HASH_COMPARE", "NODE_HASH")
  /\ IF msg[p].hash = NodeHash(p, PeekExplorationQueue(p)) THEN End(p)
     ELSE /\ IF Level(bucket.depth[p], PeekExplorationQueue(p)) # MaxDepth THEN Explore(p, init[p].queue)
             ELSE Fetch(p, init[p].queue, {})
          /\ UNCHANGED resp
  /\ UNCHANGED <<rows, bounds>>

CompareLeft(p) ==
  /\ Receives(p, "LEFT_HASH_COMPARE", "NODE_HASH")
  /\ LET l == LeftChild(PeekExplorationQueue(p))
         q == IF msg[p].hash = NodeHash(p, l) THEN init[p].queue ELSE Append(init[p].queue, l)
     IN  Go(p, [init[p] EXCEPT !.state = "RIGHT_HASH_COMPARE", !.queue = q],
            AskHash(Theirs(p, RightChild(PeekExplorationQueue(p)))))
  /\ UNCHANGED <<rows, resp, bounds>>

\* The right child is put in the queue only while the limit allows it.
AfterRightFirst(p) ==
  LET r == RightChild(PeekExplorationQueue(p))
  IN  IF msg[p].hash # NodeHash(p, r) /\ Len(init[p].queue) <= bucket.limit
      THEN <<r>> \o Tail(init[p].queue) ELSE Tail(init[p].queue)
AfterRightNever(p) == Tail(init[p].queue)
AfterRight(p) ==
  LET r == RightChild(PeekExplorationQueue(p))
  IN  IF msg[p].hash # NodeHash(p, r) /\ Len(init[p].queue) <= bucket.limit
      THEN Append(Tail(init[p].queue), r) ELSE Tail(init[p].queue)

CompareRight(p) ==
  /\ Receives(p, "RIGHT_HASH_COMPARE", "NODE_HASH")
  /\ LET q == AfterRight(p)
     IN  IF q = <<>> THEN End(p)
         ELSE /\ IF Level(bucket.depth[p], Head(q)) = MaxDepth THEN Fetch(p, q, NodeKeys(p, Head(q)))
                 ELSE Explore(p, q)
              /\ UNCHANGED resp
  /\ UNCHANGED <<rows, bounds>>

MergeObjectKeeping(p) ==
  /\ Receives(p, "DB_OBJECT_PUSH", "PUSH_MESSAGE")
  /\ rows' = [rows EXCEPT ![p][msg[p].key] = @ \cup msg[p].val]
  /\ Fetch(p, init[p].queue, init[p].keys)
  /\ UNCHANGED <<resp, bounds>>
MergeObject(p) ==
  /\ Receives(p, "DB_OBJECT_PUSH", "PUSH_MESSAGE")
  /\ rows' = [rows EXCEPT ![p][msg[p].key] = @ \cup msg[p].val]
  /\ Fetch(p, init[p].queue, init[p].keys \ {msg[p].key})
  /\ UNCHANGED <<resp, bounds>>

\* All rows of the node have come; keys that did not come are forgotten.
FinishNodeAgain(p) ==
  /\ Receives(p, "DB_OBJECT_PUSH", "PUSH_DONE")
  /\ rows' = [rows EXCEPT ![p] = [k \in Key |-> IF k \in init[p].keys THEN {} ELSE @[k]]]
  /\ Fetch(p, init[p].queue, {})
  /\ UNCHANGED <<resp, bounds>>
FinishNode(p) ==
  /\ Receives(p, "DB_OBJECT_PUSH", "PUSH_DONE")
  /\ rows' = [rows EXCEPT ![p] = [k \in Key |-> IF k \in init[p].keys THEN {} ELSE @[k]]]
  /\ LET q == Tail(init[p].queue)
     IN  IF q = <<>> THEN End(p) ELSE Fetch(p, q, NodeKeys(p, Head(q))) /\ UNCHANGED resp
  /\ UNCHANGED bounds

Aborted(p) ==
  /\ msg[p].to = "initiator" /\ msg[p].type = "ABORT"
  /\ End(p)
  /\ UNCHANGED <<rows, bounds>>

\* The session fails at either side: a timeout, a lost connection, an error.
Timeout(p) ==
  /\ init[p].state # "END" /\ MayFault
  /\ timeouts' = timeouts + 1
  /\ End(p)
  /\ UNCHANGED <<rows, sent, nextId, purges, readErrors>>
-----------------------------------------------------------------------------
(* The responder of the session that p has initiated *)

Answer(p, r, m) ==
  /\ resp' = [resp EXCEPT ![p] = r]
  /\ msg' = [msg EXCEPT ![p] = m]
  /\ UNCHANGED <<rows, init>>

IsAsked(p, state, type) ==
  msg[p].to = "responder" /\ msg[p].type = type /\ resp[p].state = state

RespondStart(p) ==
  /\ IsAsked(p, "START", "START")
  /\ Answer(p, [Unopened EXCEPT !.state = "HASH_COMPARE"], Start("initiator"))
  /\ UNCHANGED bounds

RespondHash(p) ==
  /\ IsAsked(p, "HASH_COMPARE", "NODE_HASH")
  /\ Answer(p, resp[p], IF msg[p].node \in Nodes(bucket.depth[Other(p)])
                        THEN TellHash(NodeHash(Other(p), msg[p].node)) ELSE Abort)
  /\ UNCHANGED bounds

\* The responder moves its iterator on. The keys were fixed when it was
\* opened, the row is read now: a row that has gone is an error, and a read
\* error looks like the end of the iteration.
NextRow(p, r) ==
  LET v == rows[Other(p)][Head(r.iter)]
  IN  \/ /\ r.iter = <<>>
         /\ Answer(p, r, PushDone) /\ UNCHANGED bounds
      \/ /\ r.iter # <<>>
         /\ Answer(p, [r EXCEPT !.iter = Tail(@), !.open = TRUE],
                   IF v = {} THEN Abort ELSE Push(Head(r.iter), v))
         /\ UNCHANGED bounds
      \/ /\ r.iter # <<>> /\ MayFault
         /\ readErrors' = readErrors + 1
         /\ Answer(p, r, PushDone)
         /\ UNCHANGED <<sent, nextId, purges, timeouts>>

Opened(p) == [state |-> "DB_OBJECT_PUSH", node |-> msg[p].node, open |-> resp[p].open,
              iter |-> GetSyncChildren(Other(p), msg[p].node), since |-> nextId]

RespondFirst(p) == IsAsked(p, "HASH_COMPARE", "OBJECT_NEXT") /\ NextRow(p, Opened(p))

\* A responder whose first node had no rows has no iterator and gives up.
RespondNext(p) ==
  /\ IsAsked(p, "DB_OBJECT_PUSH", "OBJECT_NEXT")
  /\ IF ~resp[p].open THEN Answer(p, resp[p], Abort) /\ UNCHANGED bounds
     ELSE NextRow(p, IF msg[p].node # resp[p].node THEN Opened(p) ELSE resp[p])
-----------------------------------------------------------------------------
(* Meanwhile *)

\* A client puts or deletes the value of a key, and the server pushes the row to
\* the other peer. (The client gives no context: it covers what the server has.)
Write(p, k) ==
  /\ p \in bucket.writers /\ nextId <= MaxWrites
  /\ \E del \in BOOLEAN :
       /\ del => rows[p][k] # {}
       /\ rows' = [rows EXCEPT ![p][k] = @ \cup {[id |-> nextId, del |-> del, covers |-> {v.id : v \in @}]}]
  /\ sent' = sent \cup {[to |-> Other(p), key |-> k, val |-> rows'[p][k]]}
  /\ nextId' = nextId + 1
  /\ UNCHANGED <<init, resp, msg, purges, timeouts, readErrors>>

\* A pushed row arrives, at any time, and is merged.
Deliver(m) ==
  /\ rows' = [rows EXCEPT ![m.to][m.key] = @ \cup m.val]
  /\ sent' = sent \ {m}
  /\ UNCHANGED <<init, resp, msg, nextId, purges, timeouts, readErrors>>

\* The connection is down, or the broadcast limit leaves this peer out.
Lose(m) ==
  /\ sent' = sent \ {m}
  /\ UNCHANGED <<rows, init, resp, msg, nextId, purges, timeouts, readErrors>>

\* The garbage collector of a relay purges a row that holds tombstones only: its
\* own copy, whatever the other side still has. A node of the cloud has none.
Purge(p, k) ==
  /\ p \in bucket.relays /\ MayFault /\ rows[p][k] # {} /\ Values(rows[p][k]) = {}
  /\ rows' = [rows EXCEPT ![p][k] = {}]
  /\ purges' = purges + 1
  /\ UNCHANGED <<init, resp, msg, sent, nextId, timeouts, readErrors>>
-----------------------------------------------------------------------------
Initiate(p) ==
  \/ StartSession(p) \/ Handshake(p) \/ CompareRoot(p) \/ CompareLeft(p) \/ CompareRight(p)
  \/ MergeObject(p) \/ FinishNode(p) \/ Aborted(p)

Respond(p) == RespondStart(p) \/ RespondHash(p) \/ RespondFirst(p) \/ RespondNext(p)

Next ==
  /\ \/ \E p \in Peer : Initiate(p) \/ Respond(p) \/ Timeout(p) \/ \E k \in Key : Write(p, k) \/ Purge(p, k)
     \/ \E m \in sent : Deliver(m) \/ Lose(m)
  /\ UNCHANGED bucket

Spec == Init /\ [][Next]_vars

\* The scheduler keeps starting sessions and both ends of one keep running.
FairSpec == Spec /\ \A p \in Peer : WF_vars(Initiate(p) /\ UNCHANGED bucket) /\ WF_vars(Respond(p) /\ UNCHANGED bucket)
-----------------------------------------------------------------------------
(* Properties *)

\* When the initiator fetches rows, it has compared everything that can be
\* compared: no node left in its queue is above the deepest common level
\* (sync.go: "cannot dig any deeper in any paths").
FetchesLeavesOnly ==
  \A p \in Peer : init[p].state = "DB_OBJECT_PUSH" =>
    \A i \in DOMAIN init[p].queue : Level(bucket.depth[p], init[p].queue[i]) = MaxDepth

\* A session looks for differences in one place at a time: the rows it is
\* sent are rows below the node at the front of the initiator's queue.
RowsBelongToNode ==
  \A p \in Peer : Receives(p, "DB_OBJECT_PUSH", "PUSH_MESSAGE") => msg[p].key \in KeysBelow(p, PeekExplorationQueue(p))

\* Sessions end, so that the next one can look for what this one missed.
SessionsEnd == \A p \in Peer : []<>(init[p].state = "END")

\* Once clients stop, "both [have] the same objects after several sync
\* iterations" (sync_test.go:199), whatever the exploration limit and whatever a
\* relay purged or forgot. A copy of the cloud bucket never gets rid of a value of
\* a former site under a key that the cloud uses too.
Own(p, k) == Values(rows[p][k]) \ (IF p \in bucket.writers THEN {} ELSE {OfFormerSite})
BothSame ==
  <>[](\A p, q \in Peer, k \in Key : Own(p, k) = Own(q, k) /\ (rows[p][k] = {} => Values(rows[q][k]) = {}))

\* Only a copy that accepts no writes drops values, and only of keys that the cloud
\* had no row of when it listed the rows of their node: what the cloud has of them
\* at the drop was written after that. Relays lose such rows for a while, when the
\* push overtakes the session (AuthoritativeNeverLost fails), and BothSame says that
\* they come back. A read error at the cloud looks like the end of its rows.
Dropped(p, k) == Values(rows[p][k]) # {} /\ rows'[p][k] = {}
AuthoritativeKept ==
  [][\A p \in Peer, k \in Key : Dropped(p, k) /\ readErrors = 0
       => p \notin bucket.writers /\ \A v \in rows[Other(p)][k] : v.id >= resp[p].since]_vars

\* The same without the exception: checked by SyncSession_race.cfg, and violated.
AuthoritativeNeverLost ==
  [][\A p \in Peer, k \in Key : Dropped(p, k) /\ readErrors = 0
       => p \notin bucket.writers /\ rows[Other(p)][k] = {}]_vars

\* InitiatorSyncSession walks both trees in step: level by level, to the rows of
\* one node at a time.
SessionSound == TypeOK /\ RowsBelongToNode /\ FetchesLeavesOnly
=============================================================================
