-------------------------- MODULE PartitionTransfer --------------------------
(***************************************************************************)
(* How the replicas of a partition move between the nodes of a cluster.    *)
(* The committed log says which node owns each replica and which node      *)
(* holds it.  Every node applies the log at its own pace; a node that      *)
(* gains a replica opens the partition, downloads it chunk by chunk from a *)
(* holder and proposes to become the holder itself; a node that neither    *)
(* owns nor holds a replica closes the partition; a node that is being     *)
(* decommissioned leaves once nothing is left to give away.                *)
(*                                                                         *)
(* One partition is modelled.  Its data is the set of chunks it had at the *)
(* start; closing a partition leaves its data on disk.  The read and write *)
(* locks of a partition have empty bodies in the code and change nothing.  *)
(***************************************************************************)
EXTENDS Naturals, Sequences, SequencesExt, FiniteSets

CONSTANTS
  Nodes, None,  \* the nodes, and the holder of a replica that nobody holds
  Replica,      \* the replicas of the partition
  Chunks,       \* the partition is Chunks chunks long
  FirstOwner,   \* who owns and holds each replica at the start
  MaxEvents,    \* bound: changes of ownership, decommissionings, crashes, broken streams,
                \* lost and needlessly repeated proposals, taken together
  MaxFresh,     \* the same for a cluster that has not settled
  MaxSites      \* bound: sites added while a node is leaving

ASSUME TransferAssumption ==
  /\ None \notin Nodes
  /\ Replica # {}
  /\ Chunks \in Nat \ {0}
  /\ FirstOwner \in [Replica -> Nodes]
  /\ {MaxEvents, MaxFresh, MaxSites} \subseteq Nat

VARIABLES
  state,      \* the cluster state after the whole committed log
  pending,    \* pending[n]: the committed entries n has still to apply
  view,       \* view[n]: the cluster state of node n
  pool,       \* the nodes whose partition pool has the partition
  outgoing,   \* the nodes that let others download the partition
  data,       \* data[n]: the chunks in the storage of n
  download,   \* download[n]: the current download of the partition
  cancelled,  \* cancelled[n]: cancelled download goroutines of n that have not noticed yet
  proposal,   \* proposal[n][r]: the queued proposal to become holder of r
  wire,       \* proposals on their way into the log
  leaving,    \* leaving[n]: how far the decommissioning of n is
  locking,    \* locking[n]: the held replicas that decommission has read and not dealt with
  empty,      \* empty[n]: notifications in node.empty; 2: one is in the channel, one blocks
  budget,     \* what is left of MaxEvents
  sites,      \* the number of sites added
  short,      \* history: nodes that took a stream that was cut off for a complete one
  early,      \* history: nodes that were told to leave while they still held a replica
  panicked    \* history: nodes that panicked in mergeChunk

netVars == <<state, pending, wire>>
history == <<sites, short, early, panicked>>
vars == <<state, pending, view, pool, outgoing, data, download, cancelled, proposal, wire,
          leaving, locking, empty, budget, sites, short, early, panicked>>

AllChunks == 1 .. Chunks

NoDownload == [at |-> "none", from |-> None, next |-> 0, cut |-> FALSE]
Choosing == [NoDownload EXCEPT !.at = "choose"]
Done == [NoDownload EXCEPT !.at = "done"]

\* What is left of a download that is cancelled: the partner, if there is one, and the next chunk.
Straggler(dl) == [from |-> dl.from, next |-> IF dl.at = "stream" THEN dl.next ELSE 1]
Stragglers == [from : Nodes \cup {None}, next : AllChunks]

\* The phases of decommission that come after the held replicas were read.
Locking == {"locking", "enabling", "wait", "removing"}
Phases == {"no", "asked", "giving", "given", "stopped", "left"} \cup Locking

\* A proposal that is over keeps its number, so that the next one gets another.
Gone(p) == [p EXCEPT !.at = "none"]

\* Replicas n owns or holds in cluster state s.
Owned(s, n) == {r \in Replica : s.owner[r] = n}
Held(s, n) == {r \in Replica : s.holder[r] = n}

TypeOK ==
  /\ \A s \in {state} \cup {view[n] : n \in Nodes} :
       /\ s.owner \in [Replica -> Nodes]
       /\ s.holder \in [Replica -> Nodes \cup {None}]
       /\ s.members \subseteq Nodes /\ s.retired \subseteq Nodes
  /\ pool \subseteq Nodes /\ outgoing \subseteq Nodes
  /\ data \in [Nodes -> SUBSET AllChunks]
  /\ \A n \in Nodes :
       /\ download[n].at \in {"none", "choose", "stream", "done"}
       /\ download[n].at = "stream" <=> download[n].from # None
       /\ download[n].next \in 0 .. Chunks + 1
       /\ cancelled[n] \subseteq Stragglers
       /\ leaving[n] \in Phases
       /\ locking[n] \subseteq Replica
       /\ empty[n] \in 0 .. 2
       /\ \A r \in Replica : proposal[n][r].at \in {"none", "waiting", "ready", "sent"}
  /\ \A e \in wire : e.type = "take" /\ e.node \in Nodes /\ e.replica \in Replica

\* A cluster that has settled, or one whose tokens have just been assigned for the first
\* time: its partition is empty, so that every node has all of it.
Init ==
  \E settled \in BOOLEAN :
    LET owners == {FirstOwner[r] : r \in Replica}
        first  == [at |-> IF settled THEN "none" ELSE "waiting", id |-> 1]
    IN /\ state = [owner |-> FirstOwner, members |-> Nodes, retired |-> {},
                   holder |-> [r \in Replica |-> IF settled THEN FirstOwner[r] ELSE None]]
       /\ pending = [n \in Nodes |-> <<>>]
       /\ view = [n \in Nodes |-> state]
       /\ pool = owners
       /\ outgoing = IF settled THEN owners ELSE {}
       /\ data = [n \in Nodes |-> IF settled /\ n \notin owners THEN {} ELSE AllChunks]
       /\ download = [n \in Nodes |-> IF ~settled /\ n \in owners THEN Choosing ELSE NoDownload]
       /\ proposal = [n \in Nodes |-> [r \in Replica |->
                        IF FirstOwner[r] = n THEN first ELSE [at |-> "none", id |-> 0]]]
       /\ budget = IF settled THEN MaxEvents ELSE MaxFresh
  /\ cancelled = [n \in Nodes |-> {}]
  /\ wire = {}
  /\ sites = 0
  /\ leaving = [n \in Nodes |-> "no"]
  /\ locking = [n \in Nodes |-> {}]
  /\ empty = [n \in Nodes |-> 0]
  /\ short = {} /\ early = {} /\ panicked = {}

-----------------------------------------------------------------------------
(* The log *)

\* What an entry does to the cluster state: an assignment of tokens (with the capacity of a
\* node given up), a node's removal, a node taking a replica it owns, or a new site.
Step(s, e) ==
  CASE e.type = "assign" -> [s EXCEPT !.owner = e.owner, !.retired = @ \cup e.retire]
    [] e.type = "remove" ->
         [s EXCEPT !.members = @ \ {e.node},
                   !.holder = [r \in Replica |-> IF @[r] = e.node THEN None ELSE @[r]]]
    [] e.type = "take" ->
         IF s.owner[e.replica] = e.node THEN [s EXCEPT !.holder[e.replica] = e.node] ELSE s
    [] e.type = "site" -> s

\* An entry is committed: every member will apply it.
Commit(e) ==
  /\ state' = Step(state, e)
  /\ pending' = [n \in Nodes |-> IF n \in state.members THEN Append(pending[n], e) ELSE pending[n]]

Spend == budget > 0 /\ budget' = budget - 1

\* Layouts the assignment strategy can choose: replicas on different nodes with capacity.
\* To keep the model small, one replica changes hands at a time.
Layouts(able) ==
  {f \in [Replica -> able] : /\ \A r, q \in Replica : f[r] = f[q] => r = q
                             /\ Cardinality({r \in Replica : f[r] # state.owner[r]}) < 2}

\* Nodes join, leave or change capacity, so that the owners change.
Move ==
  /\ Spend
  /\ \E f \in Layouts(state.members \ state.retired) :
       /\ f # state.owner
       /\ Commit([type |-> "assign", owner |-> f, retire |-> {}])
  /\ UNCHANGED <<view, pool, outgoing, data, download, cancelled, proposal, wire, leaving, locking, empty, history>>

\* A site is added: every node is told.
AddSite ==
  /\ sites < MaxSites /\ \E n \in Nodes : leaving[n] \notin {"no", "left"}
  /\ sites' = sites + 1
  /\ Commit([type |-> "site"])
  /\ UNCHANGED <<view, pool, outgoing, data, download, cancelled, proposal, wire, leaving, locking, empty, budget, short, early, panicked>>

-----------------------------------------------------------------------------
(* A node applies an entry: ProcessClusterUpdates *)

\* CancelTransferProposal for the replicas of lost.
CancelProposals(n, lost) ==
  [r \in Replica |-> IF r \in lost THEN Gone(proposal[n][r]) ELSE proposal[n][r]]

\* HTTPTransferAgent.stopTransfer for the replicas of lost: the proposals are cancelled and,
\* if none is left, the download too.
StopTransfers(n, lost) ==
  LET left == CancelProposals(n, lost)
      idle == lost # {} /\ \A r \in Replica : left[r].at = "none"
  IN [ proposal |-> left, download |-> IF idle THEN NoDownload ELSE download[n],
       cancelled |-> IF idle /\ download[n].at \in {"choose", "stream"}
                     THEN cancelled[n] \cup ({Straggler(download[n])} \cap Stragglers)
                     ELSE cancelled[n] ]

\* Download returns the running or finished download dl or begins a new one; a node that
\* holds the partition gets a closed channel instead.
Download(dl, holds) == IF dl.at = "none" /\ ~holds THEN Choosing ELSE dl

\* QueueTransferProposal, after the channel that Download returned.
QueueProposal(p, free) == [at |-> IF free THEN "ready" ELSE "waiting", id |-> p.id + 1]

\* StartTransfer for the replicas of gained.
StartTransfers(t, holds, gained) ==
  LET dl == IF gained = {} THEN t.download ELSE Download(t.download, holds) IN
  [t EXCEPT !.download = dl,
            !.proposal = [r \in Replica |->
                            IF r \in gained THEN QueueProposal(@[r], dl.at = "none") ELSE @[r]]]

\* DisableOutgoingTransfers at n cancels the streams that others read from it; the server
\* ends such a response like one that is complete.
CutStreams(dl, n) ==
  [m \in Nodes |-> IF dl[m].at = "stream" /\ dl[m].from = n THEN [dl[m] EXCEPT !.cut = TRUE] ELSE dl[m]]

\* Mutant: the partition is closed as soon as it is no longer owned.
UpdatePartitionOwned(n, v) ==
  /\ pool' = IF Owned(v, n) = {} THEN pool \ {n} ELSE pool \cup {n}
  /\ outgoing' = IF Held(v, n) = {} THEN outgoing \ {n} ELSE outgoing \cup {n}

\* NodePartitionUpdater.UpdatePartition, for the state v that n is in now.
UpdatePartition(n, v) ==
  /\ pool' = IF Owned(v, n) \cup Held(v, n) = {} THEN pool \ {n} ELSE pool \cup {n}
  /\ outgoing' = IF Held(v, n) = {} THEN outgoing \ {n} ELSE outgoing \cup {n}

\* The proposer's ClusterCommand returns when the node applies the command it sent.
Answered(n, e) == e.type = "take" /\ e.node = n /\ proposal[n][e.replica] = [at |-> "sent", id |-> e.id]

\* So does the command with which a node gives up its capacity.
GaveUp(n, e) ==
  /\ leaving[n] = "giving"
  /\ e.type = "assign" /\ e.retire = {n}
  /\ \A d \in ToSet(Tail(pending[n])) : d.type = "assign" => d.retire # {n}


NeighborsWithCapacity(v) == v.members \ v.retired

\* NotifyEmpty: the node owns nothing, and holds nothing or has nobody to give it to.
NotifyEmpty(n, v) ==
  /\ leaving[n] # "no"
  /\ Owned(v, n) = {}
  /\ Held(v, n) = {} \/ NeighborsWithCapacity(v) = {}

\* An applied entry, with the callback for the deltas of the node's ownership and holdings.
Apply(n) ==
  /\ pending[n] # <<>> /\ empty[n] < 2
  /\ LET e      == Head(pending[n])
         v      == Step(view[n], e)
         lost   == Owned(view[n], n) \ Owned(v, n)
         gained == Owned(v, n) \ Owned(view[n], n)
         moved  == lost \cup gained \cup {r \in Replica : (view[n].holder[r] = n) # (v.holder[r] = n)}
         told   == moved # {} \/ e.type = "site" \/ (e.type = "remove" /\ e.node = n)
         t      == StartTransfers(StopTransfers(n, lost), Held(v, n) # {}, gained)
         dl     == [download EXCEPT ![n] = t.download]
     IN /\ view' = [view EXCEPT ![n] = v]
        /\ pending' = [pending EXCEPT ![n] = Tail(@)]
        /\ IF moved = {} THEN UNCHANGED <<pool, outgoing>> ELSE UpdatePartition(n, v)
        /\ download' = IF moved # {} /\ Held(v, n) = {} THEN CutStreams(dl, n) ELSE dl
        /\ cancelled' = [cancelled EXCEPT ![n] = t.cancelled]
        /\ proposal' = [proposal EXCEPT ![n] =
                          IF Answered(n, e)
                          THEN [t.proposal EXCEPT ![e.replica] = Gone(t.proposal[e.replica])]
                          ELSE t.proposal]
        /\ leaving' = [leaving EXCEPT ![n] =
                          CASE GaveUp(n, e) -> "given"
                            [] e.type = "remove" /\ e.node = n -> "left"
                            [] OTHER -> @]
        /\ empty' = IF told /\ NotifyEmpty(n, v) THEN [empty EXCEPT ![n] = @ + 1] ELSE empty
  /\ UNCHANGED <<state, data, wire, locking, budget, history>>

-----------------------------------------------------------------------------
(* The download *)

\* ChooseTransferPartner: any holder.
Partners(n) == {view[n].holder[r] : r \in Replica} \ {None}

\* The handler at p answers 404 unless the partition is open and may be downloaded.
Serves(p) == p \in pool \cap outgoing

\* HTTPTransferTransport.Get
Get(p) == [at |-> "stream", from |-> p, next |-> 1, cut |-> FALSE]

\* One attempt to download; after an error the downloader waits and tries again.
ChoosePartner(n) ==
  /\ download[n].at = "choose"
  /\ \/ Partners(n) = {} /\ download' = [download EXCEPT ![n] = Done]
     \/ \E p \in Partners(n) : Serves(p) /\ download' = [download EXCEPT ![n] = Get(p)]
  /\ UNCHANGED <<netVars, view, pool, outgoing, data, cancelled, proposal, leaving, locking, empty, budget, history>>

\* OutgoingTransfer.NextChunk: what the sender's iterator finds of the next chunk.
NextChunk(n) == {download[n].next} \cap data[download[n].from]

\* The response is over: the last chunk was sent, or the reader of the response met an
\* error, which ends it the same way.
ResponseOver(n) == download[n].cut \/ download[n].next = Chunks + 1

\* What a restarted process does first: InitializeNodeState opens the partition and starts
\* the transfers of replicas that are owned and not held, and a decommissioning goes on.
\* A stream from the old process breaks off and is tried again.
Restart(n) ==
  LET v == view[n]
      t == StartTransfers([proposal |-> [r \in Replica |-> Gone(proposal[n][r])], download |-> NoDownload],
                          Held(v, n) # {}, Owned(v, n) \ Held(v, n))
  IN /\ UpdatePartition(n, v)
     /\ proposal' = [proposal EXCEPT ![n] = t.proposal]
     /\ cancelled' = [cancelled EXCEPT ![n] = {}]
     /\ download' = [m \in Nodes |-> CASE m = n -> t.download
                                      [] m # n /\ download[m].from = n -> Choosing
                                      [] OTHER -> download[m]]
     /\ leaving' = [leaving EXCEPT ![n] = CASE @ \in {"no", "left"} -> @
                                            [] n \in v.retired -> "given"
                                            [] OTHER -> "asked"]
     /\ locking' = [locking EXCEPT ![n] = {}]
     /\ empty' = [empty EXCEPT ![n] = 0]

\* Mutant: reads on past the end of the stream.
ChunkPast(n) ==
  /\ download[n].at = "stream" /\ ~download[n].cut
  /\ n \in pool
  /\ data' = [data EXCEPT ![n] = @ \cup NextChunk(n)]
  /\ download' = [download EXCEPT ![n].next = @ + 1]
  /\ UNCHANGED <<netVars, view, pool, outgoing, cancelled, proposal, leaving, locking, empty, budget, history>>

\* mergeChunk, where the partition is open.
Chunk(n) ==
  /\ download[n].at = "stream" /\ ~ResponseOver(n)
  /\ n \in pool
  /\ data' = [data EXCEPT ![n] = @ \cup NextChunk(n)]
  /\ download' = [download EXCEPT ![n].next = @ + 1]
  /\ UNCHANGED <<netVars, view, pool, outgoing, cancelled, proposal, leaving, locking, empty, budget, history>>

\* The end of the stream: the download is taken for complete and done is closed.
StreamEnd(n) ==
  /\ download[n].at = "stream" /\ ResponseOver(n)
  /\ download' = [download EXCEPT ![n] = Done]
  /\ short' = IF download[n].cut /\ download[n].next # Chunks + 1 THEN short \cup {n} ELSE short
  /\ UNCHANGED <<netVars, view, pool, outgoing, data, cancelled, proposal, leaving, locking, empty, budget, sites, early, panicked>>

\* Mutant: an error ends the download like the end of the stream.
StreamErrorDone(n) ==
  /\ download[n].at = "stream"
  /\ Spend
  /\ download' = [download EXCEPT ![n] = Done]
  /\ UNCHANGED <<netVars, view, pool, outgoing, data, cancelled, proposal, leaving, locking, empty, history>>

\* The connection breaks, a checksum is wrong or the site is unknown here: try again.
StreamError(n) ==
  /\ download[n].at = "stream"
  /\ Spend
  /\ download' = [download EXCEPT ![n] = Choosing]
  /\ UNCHANGED <<netVars, view, pool, outgoing, data, cancelled, proposal, leaving, locking, empty, history>>

\* A storage error at the sender ends the response early, and cleanly.
SenderError(n) ==
  /\ download[n].at = "stream" /\ ~download[n].cut
  /\ Spend
  /\ download' = [download EXCEPT ![n].cut = TRUE]
  /\ UNCHANGED <<netVars, view, pool, outgoing, data, cancelled, proposal, leaving, locking, empty, history>>

\* A cancelled download goroutine whose select finds its context and something else to do:
\* it may stop, or find a partner, or merge a chunk and go on to the next, or panic if the
\* partition is closed by now; its deferred function does not recover from the panic.
CancelledChunk(n, g) ==
  /\ g \in cancelled[n]
  /\ LET becomes(h) == [cancelled EXCEPT ![n] = (@ \ {g}) \cup ({h} \cap Stragglers)]
         found == {g.next} \cap IF g.from = None THEN {} ELSE data[g.from]
     IN \/ /\ \/ /\ cancelled' = [cancelled EXCEPT ![n] = @ \ {g}]
                 /\ UNCHANGED data
              \/ /\ g.from = None
                 /\ \E p \in Partners(n) : Serves(p) /\ cancelled' = becomes([g EXCEPT !.from = p])
                 /\ UNCHANGED data
              \/ /\ g.from # None /\ n \in pool
                 /\ data' = [data EXCEPT ![n] = @ \cup found]
                 /\ cancelled' = becomes([g EXCEPT !.next = @ + 1])
           /\ UNCHANGED <<pool, outgoing, proposal, download, leaving, locking, empty, panicked>>
        \/ /\ found # {} /\ n \notin pool
           /\ Restart(n) /\ panicked' = panicked \cup {n} /\ UNCHANGED data
  /\ UNCHANGED <<netVars, view, budget, sites, short, early>>

\* The process dies and starts again.
Crash(n) ==
  /\ leaving[n] # "left"
  /\ Spend
  /\ Restart(n)
  /\ UNCHANGED <<netVars, view, data, history>>

-----------------------------------------------------------------------------
(* The proposals *)

Take(n, r) == [type |-> "take", node |-> n, replica |-> r, id |-> proposal[n][r].id]

\* The download is done: ClusterCommand sends the proposal to the leader.
Propose(n, r) ==
  /\ proposal[n][r].at = "ready" \/ (proposal[n][r].at = "waiting" /\ download[n].at = "done")
  /\ proposal' = [proposal EXCEPT ![n][r].at = "sent"]
  /\ wire' = wire \cup {Take(n, r)}
  /\ UNCHANGED <<state, pending, view, pool, outgoing, data, download, cancelled, leaving, locking, empty, budget, history>>

\* Mutant: a proposal that is lost is not sent again.
RetrySlow(n, r) ==
  /\ proposal[n][r].at = "sent"
  /\ Take(n, r) \notin wire
  /\ Take(n, r) \in ToSet(pending[n]) /\ Spend
  /\ wire' = wire \cup {Take(n, r)}
  /\ UNCHANGED <<state, pending, view, pool, outgoing, data, download, cancelled, proposal, leaving, locking, empty, history>>

\* No answer in time: the same command is proposed again, be it lost or only slow.
Retry(n, r) ==
  /\ proposal[n][r].at = "sent"
  /\ Take(n, r) \notin wire
  /\ IF Take(n, r) \in ToSet(pending[n]) THEN Spend ELSE UNCHANGED budget
  /\ wire' = wire \cup {Take(n, r)}
  /\ UNCHANGED <<state, pending, view, pool, outgoing, data, download, cancelled, proposal, leaving, locking, empty, history>>

CommitTake(e) ==
  /\ e \in wire
  /\ wire' = wire \ {e}
  /\ Commit(e)
  /\ UNCHANGED <<view, pool, outgoing, data, download, cancelled, proposal, leaving, locking, empty, budget, history>>

\* A proposal on its way to the leader is lost.
LoseTake(e) ==
  /\ e \in wire
  /\ Spend
  /\ wire' = wire \ {e}
  /\ UNCHANGED <<state, pending, view, pool, outgoing, data, download, cancelled, proposal, leaving, locking, empty, history>>

-----------------------------------------------------------------------------
(* Decommissioning *)

\* LeaveCluster: node.empty is made and the flag that survives a restart is set.  The
\* operator keeps a node with capacity for every replica.
LeaveCluster(n) ==
  /\ leaving[n] = "no" /\ n \in view[n].members
  /\ Cardinality({m \in state.members : leaving[m] = "no"}) > Cardinality(Replica)
  /\ Spend
  /\ leaving' = [leaving EXCEPT ![n] = "asked"]
  /\ empty' = [empty EXCEPT ![n] = 0]
  /\ UNCHANGED <<netVars, view, pool, outgoing, data, download, cancelled, proposal, locking, history>>

\* decommission, 1/4: the node gives up its capacity, which moves its tokens to others.
GiveUpTokens(n) ==
  /\ leaving[n] = "asked"
  /\ \E f \in Layouts(state.members \ (state.retired \cup {n})) :
       Commit([type |-> "assign", owner |-> f, retire |-> {n}])
  /\ leaving' = [leaving EXCEPT ![n] = "giving"]
  /\ UNCHANGED <<view, pool, outgoing, data, download, cancelled, proposal, wire, empty, locking, budget, history>>

\* StopAllTransfers: whatever is still queued is stopped.
StopAllTransfers(n) ==
  /\ leaving[n] = "given"
  /\ LET t == StopTransfers(n, {r \in Replica : proposal[n][r].at # "none"})
     IN /\ proposal' = [proposal EXCEPT ![n] = t.proposal]
        /\ download' = [download EXCEPT ![n] = t.download]
        /\ cancelled' = [cancelled EXCEPT ![n] = t.cancelled]
  /\ leaving' = [leaving EXCEPT ![n] = "stopped"]
  /\ UNCHANGED <<netVars, view, pool, outgoing, data, locking, empty, budget, history>>

\* 4/4: the node removes itself.  RemoveNode returns when the node applies the entry.
RemoveSelf(n) ==
  /\ leaving' = [leaving EXCEPT ![n] = "removing"]
  /\ IF n \in state.members THEN Commit([type |-> "remove", node |-> n]) ELSE UNCHANGED <<state, pending>>

\* 2/4: the held replicas are read; is there something to wait for?
CheckHeld(n) ==
  /\ leaving[n] = "stopped"
  /\ IF Held(view[n], n) = {}
     THEN RemoveSelf(n) /\ UNCHANGED locking
     ELSE /\ leaving' = [leaving EXCEPT ![n] = "locking"]
          /\ locking' = [locking EXCEPT ![n] = Held(view[n], n)]
          /\ UNCHANGED <<state, pending>>
  /\ UNCHANGED <<view, pool, outgoing, data, download, cancelled, proposal, wire, empty, budget, history>>

\* The loop over the replicas that were read goes on without r.
LockNext(n, r) ==
  /\ locking' = [locking EXCEPT ![n] = @ \ {r}]
  /\ leaving' = [leaving EXCEPT ![n] = IF locking[n] = {r} THEN "wait" ELSE "locking"]

\* 2/4, for one of them: is the partition (still) open?  The raft loop may close it, and
\* disable its transfers, at any time between the steps of this loop.
GetHeld(n, r) ==
  /\ leaving[n] = "locking" /\ r \in locking[n]
  /\ IF n \in pool THEN leaving' = [leaving EXCEPT ![n] = "enabling"] /\ UNCHANGED locking
                   ELSE LockNext(n, r)
  /\ UNCHANGED <<netVars, view, pool, outgoing, data, download, cancelled, proposal, empty, budget, history>>

\* EnableOutgoingTransfers for a partition that was open when it was looked up.
EnableHeld(n, r) ==
  /\ leaving[n] = "enabling" /\ r \in locking[n]
  /\ outgoing' = outgoing \cup {n}
  /\ LockNext(n, r)
  /\ UNCHANGED <<netVars, view, pool, data, download, cancelled, proposal, empty, budget, history>>

\* 3/4: wait for node.empty.  The notification may be from before the node gave up its
\* tokens, and the node may have become a holder since.
ReceiveEmpty(n) ==
  /\ leaving[n] = "wait" /\ empty[n] > 0
  /\ empty' = [empty EXCEPT ![n] = @ - 1]
  /\ RemoveSelf(n)
  /\ early' = IF Held(state, n) = {} THEN early ELSE early \cup {n}
  /\ UNCHANGED <<view, pool, outgoing, data, download, cancelled, proposal, wire, locking, budget, sites, short, panicked>>

-----------------------------------------------------------------------------

\* Steps that follow from what has happened so far.
Progress ==
  \/ \E n \in Nodes :
       \/ Apply(n) \/ ChoosePartner(n) \/ Chunk(n) \/ StreamEnd(n)
       \/ GiveUpTokens(n) \/ StopAllTransfers(n) \/ CheckHeld(n) \/ ReceiveEmpty(n)
       \/ \E g \in cancelled[n] : CancelledChunk(n, g)
       \/ \E r \in Replica : GetHeld(n, r) \/ EnableHeld(n, r) \/ Propose(n, r) \/ Retry(n, r)
  \/ \E e \in wire : CommitTake(e)

\* Operators' commands and faults.
Environment ==
  \/ Move \/ AddSite
  \/ \E n \in Nodes : StreamError(n) \/ SenderError(n) \/ Crash(n) \/ LeaveCluster(n)
  \/ \E e \in wire : LoseTake(e)

Next == Progress \/ Environment

\* The goroutines and the raft loop run on; every behaviour is finite, so one conjunct of
\* weak fairness takes all of them to their end.
Spec == Init /\ [][Next]_vars /\ WF_vars(Progress)

-----------------------------------------------------------------------------
(* Properties *)

\* A node the log calls a holder has all of the partition (Download: closing done means a
\* successful download), unless a stream that the sender cut off was taken for a complete one
\* or a node left on an old notification with the replicas that it still held.
HoldersComplete ==
  short = {} /\ early = {} => \A r \in Replica : state.holder[r] # None => data[state.holder[r]] = AllChunks

\* The comment of Download without the exception: done is closed only after a complete
\* download, so that every holder has all of the partition.
HoldersAlwaysComplete ==
  \A r \in Replica : state.holder[r] # None => data[state.holder[r]] = AllChunks

\* The comment of decommission (3/4): what a node held is replicated elsewhere before it
\* removes itself, so that a holder is complete whoever left.
LeaversHandOver == short = {} => HoldersAlwaysComplete

\* Whatever was gained, lost, cancelled, answered or restarted before: a node has the
\* partition open iff it owns or holds a replica, serves downloads iff it holds one, and
\* for each replica it owns and does not hold, and for no replica it does not own, a
\* proposal is under way that does not wait for a download nobody runs (StartTransfer,
\* stopTransfer, UpdatePartition).  Outgoing transfers of a partition that is not held are
\* enabled only in a node that is being decommissioned, which enables what it held when it
\* looked (decommission, 2/4); the partition is closed there.
TransfersUnderWay ==
  \A n \in Nodes : leaving[n] # "left" =>
    /\ n \in pool <=> Owned(view[n], n) \cup Held(view[n], n) # {}
    /\ Serves(n) <=> Held(view[n], n) # {}
    /\ n \in outgoing => Held(view[n], n) # {} \/ leaving[n] \in Locking
    /\ \A r \in Replica :
         /\ proposal[n][r].at # "none" => r \in Owned(view[n], n)
         /\ r \in Owned(view[n], n) \ Held(view[n], n) => proposal[n][r].at # "none"
         /\ proposal[n][r].at = "waiting" => download[n].at # "none"

\* The comment of decommission (2/4): what it does ensures what should hold anyway, so that
\* outgoing transfers are enabled iff the partition is held.
OutgoingIffHeld ==
  \A n \in Nodes : leaving[n] # "left" => (n \in outgoing <=> Held(view[n], n) # {})

\* Once the assignment no longer changes, every replica ends up with its owner, through
\* broken streams, lost and repeated proposals, crashes and nodes that leave.
OwnersHold == <>[](state.holder = state.owner)


\* What the coordinator of a node has started, stopped and opened for a partition is
\* what the node's view of the log calls for.
TransfersFollowLog == TypeOK /\ TransfersUnderWay
=============================================================================
