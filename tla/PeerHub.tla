------------------------------ MODULE PeerHub ------------------------------
(***************************************************************************)
(* The connections of a node and the sessions that run over them: the Hub  *)
(* and its Peers, the SyncController and its scheduler (server/peer.go,    *)
(* sync/sync_scheduler.go).                                                *)
(*                                                                         *)
(* A relay (~cloud) dials the peers in Outgoing again and again and        *)
(* accepts the others; its scheduler is the periodic one.  A cloud node    *)
(* only accepts, and its scheduler keeps its peers in a heap.  Every       *)
(* registered peer has one goroutine (hub), one that writes to its         *)
(* websocket (writer) and one that reads; the controller has a loop that   *)
(* starts initiator sessions (next), one that handles what was received    *)
(* (mux), and a fixed number of workers that run sessions (ses).           *)
(*                                                                         *)
(* What is said in a session is SyncSession's; here a session is the sends *)
(* it makes on its peer's channel, until it ends.  Periods and timeouts    *)
(* are steps that may happen at any time, and buckets are left out (every  *)
(* peer has some).  Pings and the read deadline are in what they do: they  *)
(* end a connection over which nothing can be sent any more (MuteEnds).    *)
(***************************************************************************)
EXTENDS Integers, Sequences, FiniteSets, SequencesExt

CONSTANTS Peers,          \* the ids of the peers
          Outgoing,       \* those that a relay dials
          Initiators,     \* workers that run initiator sessions
          Responders,     \* workers that run responder sessions
          PushLimit,      \* an update is pushed to so many peers; 0: to all
          MaxConns,       \* bound: connections made
          MaxEvents,      \* bound: sessions, messages, pushes, disconnects, failures
          None

ASSUME HubAssumption == /\ Outgoing \subseteq Peers
                        /\ Initiators \cap Responders = {}
                        /\ None \notin Peers
                        /\ {PushLimit, MaxConns, MaxEvents} \subseteq Nat

VARIABLES cloud,    \* the node is a cloud node
          hub,      \* hub[p]: where the goroutine of peer p is
          closed,   \* hub.Disconnect or a Reconnect was called on the peer
          conn,     \* conn[p]: its websocket; mute: open, but every write fails
          made,     \* number of connections made so far
          chan,     \* chan[p]: syncController.peers[p], 0 when there is none
          added,    \* keys of initiatorSessionsMap and responderSessionsMap
          wg,       \* waitGroups
          queue,    \* the scheduler's queue or heap, the next peer first
          next,     \* the peer that Next returned and that is to be added
          stolen,   \* Advance has taken the turn of another peer
          ses,      \* ses[w]: the session that worker w runs
          writer,   \* writer[p]: whether its writer has a message in hand
          closing,  \* peers that a disconnect, holding peerMapLock, must close
          held,     \* the peer whose csLock that disconnect holds
          push,     \* the push that holds peerMapLock
          mux,      \* the received message that the controller handles
          events    \* events so far

vars == <<cloud, hub, closed, conn, made, chan, added, wg, queue, next, stolen,
          ses, writer, closing, held, push, mux, events>>
Conns == <<hub, closed, conn, made, chan, added>>
Turns == <<queue, next, stolen>>
Locks == <<closing, held, push>>

Workers == Initiators \cup Responders
Idle == [peer |-> None, conn |-> 0, pc |-> "idle", open |-> FALSE]
NoPush == [todo |-> {}, at |-> None, count |-> 0, on |-> FALSE]
NoMessage == [peer |-> None, pc |-> "idle"]

(* hub.peerMap: from register to unregister. *)
PeerMap == {p \in Peers : hub[p] # "none"}
Dialled(p) == ~cloud /\ p \in Outgoing

(* mapMutex is held for reading while a push or an abort waits for a       *)
(* writer; who wants it for writing waits.                                 *)
MapMutexFree == push.at = None /\ mux.pc # "abort"
PeerMapLockFree == closing = {} /\ ~push.on

Init == /\ cloud \in BOOLEAN
        /\ hub = [p \in Peers |-> "none"]
        /\ closed = [p \in Peers |-> FALSE]
        /\ conn = [p \in Peers |-> "down"]
        /\ made = 0
        /\ chan = [p \in Peers |-> 0]
        /\ added = {}
        /\ wg = [p \in Peers |-> 0]
        /\ queue = <<>> /\ next = None /\ stolen = FALSE
        /\ ses = [w \in Workers |-> Idle]
        /\ writer = [p \in Peers |-> "idle"]
        /\ closing = {} /\ held = None /\ push = NoPush
        /\ mux = NoMessage
        /\ events = 0

Event == events < MaxEvents /\ events' = events + 1

-----------------------------------------------------------------------------
(***************************************************************************)
(* The scheduler.  Times only grow, so the root of the heap is the entry   *)
(* that was pushed first, as in the queue of the periodic scheduler.  The  *)
(* exception is a peer with two entries (see stolen): both are one object, *)
(* whose time changes under the heap, and any entry may be at the root.    *)
(***************************************************************************)
Places(q, p) == {i \in DOMAIN q : q[i] = p}
Entries(p) == Cardinality(Places(queue, p))
First == {1} \cap DOMAIN queue
Heads == IF cloud /\ stolen THEN DOMAIN queue ELSE First

(* Schedule: at the end of the queue, a period from now in the heap. *)
Schedule(p) == queue' = Append(queue, p)

(* The entries of the other peers, in their order. *)
Others(q, p) == {i \in DOMAIN q : q[i] # p}
Nth(I, k) == CHOOSE i \in I : Cardinality({j \in I : j < i}) = k - 1
Without(q, p) == [k \in 1 .. Cardinality(Others(q, p)) |-> q[Nth(Others(q, p), k)]]

(* Next.  PeriodicSyncScheduler waits first and then looks at its queue,   *)
(* MultiSyncScheduler looks first and then waits for the peer's time:      *)
(* either way mu is not held when the loop goes on with the answer.        *)
Next_(p) == \E i \in Heads : p = queue[i]

(* A mutant: only an entry that is first is removed. *)
RemovePeriodicFirst(p) == queue' = IF Next_(p) THEN Tail(queue) ELSE queue

(* PeriodicSyncScheduler.RemovePeer. *)
RemovePeriodic(p) == queue' = Without(queue, p)

(* MultiSyncScheduler.RemovePeer goes on after an entry it removed, past   *)
(* the one that heap.Remove put in its place: of several entries some stay.*)
RemoveMulti(p) ==
    \E n \in 0 .. Entries(p) :
        /\ n = 0 \/ n < Entries(p)
        /\ queue' = Without(queue, p) \o [i \in 1 .. n |-> p]

(* Advance drops the entry that is first NOW. *)
Advance(p) == \E i \in Heads : /\ queue' = RemoveAt(queue, i)
                               /\ stolen' = (stolen \/ queue[i] # p)

-----------------------------------------------------------------------------
(***************************************************************************)
(* The goroutine of a peer.                                                *)
(***************************************************************************)
(* register, unless the id is taken. *)
Register(p) == /\ PeerMapLockFree /\ hub[p] = "none"
               /\ hub' = [hub EXCEPT ![p] = "registered"]

(* Hub.Accept, Connect and ConnectCloud begin alike, with a new Peer. *)
Arrive(p) ==
    /\ Register(p) /\ made < MaxConns
    /\ closed' = [closed EXCEPT ![p] = FALSE]
    /\ UNCHANGED <<cloud, conn, made, chan, added, wg, Turns, ses, writer, Locks, mux, events>>

(* establishChannels, under csLock: a new channel, a writer, a reader. *)
Establish(p) ==
    /\ made < MaxConns /\ made' = made + 1
    /\ conn' = [conn EXCEPT ![p] = "up"]
    /\ writer' = [writer EXCEPT ![p] = "idle"]
    /\ hub' = [hub EXCEPT ![p] = "connected"]

(* Peer.accept. *)
Accept(p) ==
    /\ hub[p] = "registered" /\ ~Dialled(p) /\ held # p
    /\ \/ /\ closed[p]
          /\ hub' = [hub EXCEPT ![p] = "leaving"]
          /\ UNCHANGED <<made, conn, writer>>
       \/ ~closed[p] /\ Establish(p)
    /\ UNCHANGED <<cloud, closed, chan, added, wg, Turns, ses, Locks, mux, events>>

(* A mutant: a peer that was closed is dialled again. *)
ConnectClosed(p) ==
    /\ hub[p] = "registered" /\ Dialled(p) /\ held # p /\ Establish(p)
    /\ UNCHANGED <<cloud, closed, chan, added, wg, Turns, ses, Locks, mux, events>>

(* Peer.connect: dial until it works or the peer was closed (a failure     *)
(* before that changes nothing). *)
Connect(p) ==
    /\ hub[p] = "registered" /\ Dialled(p) /\ held # p
    /\ \/ /\ closed[p]
          /\ hub' = [hub EXCEPT ![p] = "leaving"]
          /\ UNCHANGED <<made, conn, writer>>
       \/ ~closed[p] /\ Establish(p)
    /\ UNCHANGED <<cloud, closed, chan, added, wg, Turns, ses, Locks, mux, events>>

(* addPeer, with its AddPeer and Schedule. *)
AddPeer(p) ==
    /\ hub[p] = "connected" /\ MapMutexFree
    /\ hub' = [hub EXCEPT ![p] = "serving"]
    /\ chan' = [chan EXCEPT ![p] = made]
    /\ wg' = [wg EXCEPT ![p] = 0]
    /\ added' = added \cup {p}
    /\ Schedule(p)
    /\ UNCHANGED <<cloud, closed, conn, made, next, stolen, ses, writer, Locks, mux, events>>

(* The connection ends: the other side closes it or is silent for too long,*)
(* or sends what cannot be parsed; the reader closes incoming.             *)
Break(p) ==
    /\ conn[p] \in {"up", "mute"} /\ Event
    /\ conn' = [conn EXCEPT ![p] = "broken"]
    /\ UNCHANGED <<cloud, hub, closed, made, chan, added, wg, Turns, ses, writer, Locks, mux>>

(* Once a write has failed no pong is sent and no ping, so that a ping of  *)
(* the other side fails in the reader, and if there is none the read       *)
(* deadline passes.                                                        *)
MuteEnds(p) ==
    /\ conn[p] = "mute"
    /\ conn' = [conn EXCEPT ![p] = "broken"]
    /\ UNCHANGED <<cloud, hub, closed, made, chan, added, wg, Turns, ses, writer, Locks, mux, events>>

(* incoming is drained: removePeer up to its Wait. *)
RemovePeer(p) ==
    /\ hub[p] = "serving" /\ conn[p] = "broken" /\ MapMutexFree
    /\ hub' = [hub EXCEPT ![p] = "waiting"]
    /\ ses' = [w \in Workers |-> IF ses[w].peer = p THEN [ses[w] EXCEPT !.open = FALSE]
                                 ELSE ses[w]]
    /\ added' = added \ {p}
    /\ IF cloud THEN RemoveMulti(p) ELSE RemovePeriodic(p)
    /\ UNCHANGED <<cloud, closed, conn, made, chan, wg, next, stolen, writer, Locks, mux, events>>

(* A mutant: the channel is closed while sessions run. *)
WaitedNot(p) == wg[p] \in Nat

(* removePeer once no session of the peer is left: its channel is closed,  *)
(* and with it the writer ends. *)
Waited(p) == wg[p] = 0
CloseChannel(p) ==
    /\ hub[p] = "waiting" /\ Waited(p) /\ MapMutexFree
    /\ chan' = [chan EXCEPT ![p] = 0]
    /\ hub' = [hub EXCEPT ![p] = "removed"]
    /\ UNCHANGED <<cloud, closed, conn, made, added, wg, Turns, ses, writer, Locks, mux, events>>

(* What Accept does next, and Connect and ConnectCloud after a normal      *)
(* close; after any other end they dial again.                             *)
AfterRemoval(p) ==
    /\ hub[p] = "removed"
    /\ \E again \in {FALSE, Dialled(p)} :
          hub' = [hub EXCEPT ![p] = IF again THEN "registered" ELSE "leaving"]
    /\ conn' = [conn EXCEPT ![p] = "down"]
    /\ UNCHANGED <<cloud, closed, made, chan, added, wg, Turns, ses, writer, Locks, mux, events>>

Unregister(p) ==
    /\ hub[p] = "leaving" /\ PeerMapLockFree
    /\ hub' = [hub EXCEPT ![p] = "none"]
    /\ UNCHANGED <<cloud, closed, conn, made, chan, added, wg, Turns, ses, writer, Locks, mux, events>>

(* The writer, after WriteJSON succeeded or failed: csLock is free. *)
Written(p) ==
    /\ writer[p] = "busy" /\ held # p
    /\ writer' = [writer EXCEPT ![p] = "idle"]
    /\ UNCHANGED <<cloud, Conns, wg, Turns, ses, Locks, mux, events>>

(* w <- message: the writer takes it.  Sending on a closed channel panics, *)
(* so there is no such step: see SessionsHaveChannel.                      *)
Sends(p) == chan[p] # 0 /\ writer[p] = "idle" /\ writer' = [writer EXCEPT ![p] = "busy"]

-----------------------------------------------------------------------------
(***************************************************************************)
(* Sessions.                                                               *)
(***************************************************************************)
Session(p, pc) == [peer |-> p, conn |-> chan[p], pc |-> pc, open |-> TRUE]

(* The loop of StartInitiatorSessions asks the scheduler; with no peer it  *)
(* asks again. *)
AskScheduler ==
    /\ next = None
    /\ \/ queue = <<>> /\ UNCHANGED next
       \/ Next_(next')
    /\ UNCHANGED <<cloud, Conns, wg, queue, stolen, ses, writer, Locks, mux, events>>

(* addInitiatorSession: a worker that waits takes the session, and the     *)
(* scheduler advances ...                                                  *)
AddInitiatorSession ==
    /\ next # None /\ MapMutexFree /\ next \in added /\ Event
    /\ \E w \in Initiators :
          /\ ses[w] = Idle
          /\ ses' = [ses EXCEPT ![w] = Session(next, "start")]
    /\ wg' = [wg EXCEPT ![next] = @ + 1]
    /\ Advance(next)
    /\ next' = None
    /\ UNCHANGED <<cloud, Conns, writer, Locks, mux>>

(* A mutant: a failed add takes the turn too. *)
AddInitiatorAdvances ==
    /\ next # None /\ MapMutexFree
    /\ next' = None
    /\ queue' = Without(queue, next)
    /\ UNCHANGED <<cloud, Conns, wg, stolen, ses, writer, Locks, mux, events>>

(* ... or it fails, and the peer keeps its place: the peer is gone, no     *)
(* worker waits, or there is no bucket proxy for it now.                   *)
AddInitiatorFails ==
    /\ next # None /\ MapMutexFree
    /\ next' = None
    /\ UNCHANGED <<cloud, Conns, wg, queue, stolen, ses, writer, Locks, mux, events>>

(* runInitiatorSession: the first message needs nothing from the peer. *)
StartSession(w) ==
    /\ ses[w].pc = "start"
    /\ ses' = [ses EXCEPT ![w].pc = "send"]
    /\ UNCHANGED <<cloud, Conns, wg, Turns, writer, Locks, mux, events>>

(* NextState on a message of the peer: an answer is to be sent. *)
Exchange(w) ==
    /\ ses[w].pc = "receive" /\ ses[w].open /\ conn[ses[w].peer] \in {"up", "mute"} /\ Event
    /\ ses' = [ses EXCEPT ![w].pc = "send"]
    /\ UNCHANGED <<cloud, Conns, wg, Turns, writer, Locks, mux>>

(* NextState to END: by the last message, a timeout or a closed receiver.  *)
EndSession(w) ==
    /\ ses[w].pc = "receive"
    /\ ses' = [ses EXCEPT ![w].pc = "last"]
    /\ UNCHANGED <<cloud, Conns, wg, Turns, writer, Locks, mux, events>>

(* sender <- m. *)
SessionSends(w) ==
    /\ ses[w].pc \in {"send", "last"} /\ Sends(ses[w].peer)
    /\ ses' = [ses EXCEPT ![w].pc = IF @ = "send" THEN "receive" ELSE "over"]
    /\ UNCHANGED <<cloud, Conns, wg, Turns, Locks, mux, events>>

Over(w) == ses[w].pc = "over" /\ ses' = [ses EXCEPT ![w] = Idle]

(* removeInitiatorSession: the peer, if it is still there, is scheduled    *)
(* for its next session. *)
RemoveInitiatorSession(w) ==
    LET p == ses[w].peer IN
    /\ w \in Initiators /\ Over(w) /\ MapMutexFree
    /\ IF p \in added THEN Schedule(p) ELSE UNCHANGED queue
    /\ wg' = [wg EXCEPT ![p] = @ - 1]
    /\ UNCHANGED <<cloud, Conns, next, stolen, writer, Locks, mux, events>>

(* A mutant: Done is called twice. *)
RemoveResponderTwice(w) ==
    /\ w \in Responders /\ Over(w) /\ MapMutexFree
    /\ wg' = [wg EXCEPT ![ses[w].peer] = @ - 2]
    /\ UNCHANGED <<cloud, Conns, Turns, writer, Locks, mux, events>>

RemoveResponderSession(w) ==
    /\ w \in Responders /\ Over(w) /\ MapMutexFree
    /\ wg' = [wg EXCEPT ![ses[w].peer] = @ - 1]
    /\ UNCHANGED <<cloud, Conns, Turns, writer, Locks, mux, events>>

-----------------------------------------------------------------------------
(***************************************************************************)
(* Received messages.  The goroutine of the peer hands a message over when *)
(* the controller has handled the one before.  Only a Start changes what   *)
(* is kept here; it may be handled when its connection is gone.            *)
(***************************************************************************)
Receive(p) ==
    /\ hub[p] = "serving" /\ mux = NoMessage /\ Event
    /\ mux' = [peer |-> p, pc |-> "start"]
    /\ UNCHANGED <<cloud, Conns, wg, Turns, ses, writer, Locks>>

(* addResponderSession. *)
AddResponderSession ==
    /\ mux.pc = "start" /\ MapMutexFree /\ mux.peer \in added
    /\ \E w \in Responders :
          /\ ses[w] = Idle
          /\ ses' = [ses EXCEPT ![w] = Session(mux.peer, "receive")]
    /\ wg' = [wg EXCEPT ![mux.peer] = @ + 1]
    /\ mux' = NoMessage
    /\ UNCHANGED <<cloud, Conns, Turns, writer, Locks, events>>

(* It fails (the peer is gone, no worker waits, the bucket is not served,  *)
(* the id is in use): sendAbort takes mapMutex for reading and sends, if   *)
(* there is a channel.                                                     *)
Refuse ==
    /\ mux.pc = "start"
    /\ mux' = IF chan[mux.peer] # 0 THEN [mux EXCEPT !.pc = "abort"] ELSE NoMessage
    /\ UNCHANGED <<cloud, Conns, wg, Turns, ses, writer, Locks, events>>

SendAbort ==
    /\ mux.pc = "abort" /\ Sends(mux.peer)
    /\ mux' = NoMessage
    /\ UNCHANGED <<cloud, Conns, wg, Turns, ses, Locks, events>>

-----------------------------------------------------------------------------
(***************************************************************************)
(* Pushes and disconnects, which hold peerMapLock from start to end.       *)
(***************************************************************************)
(* Hub.BroadcastUpdate, over the peers of the updated site. *)
StartPush ==
    /\ PeerMapLockFree /\ PeerMap # {} /\ Event
    /\ push' = [NoPush EXCEPT !.todo = PeerMap, !.on = TRUE]
    /\ UNCHANGED <<cloud, Conns, wg, Turns, ses, writer, closing, held, mux>>

(* SyncController.BroadcastUpdate for the next of them: nothing is sent to *)
(* a peer that is not with the controller, yet it counts. *)
PushTo(p) ==
    /\ push.at = None /\ p \in push.todo
    /\ PushLimit = 0 \/ push.count < PushLimit
    /\ push' = [push EXCEPT !.todo = @ \ {p}, !.count = @ + 1,
                            !.at = IF chan[p] # 0 THEN p ELSE None]
    /\ UNCHANGED <<cloud, Conns, wg, Turns, ses, writer, closing, held, mux, events>>

(* A mutant: mapMutex is not released. *)
PushKeepsLock ==
    /\ push.at # None /\ Sends(push.at)
    /\ UNCHANGED <<cloud, Conns, wg, Turns, ses, Locks, mux, events>>

PushSends ==
    /\ push.at # None /\ Sends(push.at)
    /\ push' = [push EXCEPT !.at = None]
    /\ UNCHANGED <<cloud, Conns, wg, Turns, ses, closing, held, mux, events>>

EndPush ==
    /\ push.on /\ push.at = None
    /\ push.todo = {} \/ (PushLimit # 0 /\ push.count = PushLimit)
    /\ push' = NoPush
    /\ UNCHANGED <<cloud, Conns, wg, Turns, ses, writer, closing, held, mux, events>>

(* Disconnect and ReconnectPeer (one peer), ReconnectPeerByPartition and   *)
(* ReconnectPeerBySite (all peers of the site).                            *)
StartDisconnect ==
    /\ PeerMapLockFree /\ Event
    /\ \E p \in PeerMap : closing' \in {{p}} \cup (IF cloud THEN {PeerMap} ELSE {})
    /\ UNCHANGED <<cloud, Conns, wg, Turns, ses, writer, held, push, mux>>

(* Peer.close takes csLock ... *)
BeginClose(p) ==
    /\ p \in closing /\ held = None
    /\ held' = p
    /\ closed' = [closed EXCEPT ![p] = TRUE]
    /\ UNCHANGED <<cloud, hub, conn, made, chan, added, wg, Turns, ses, writer, closing, push,
                   mux, events>>

(* ... and writes the close message.  When the reader is done, or after a  *)
(* second, it closes the connection and lets go; but if the write fails    *)
(* (its deadline is that of the write before, which is long past on an     *)
(* idle connection) it lets go and leaves the connection open.             *)
EndClose ==
    /\ held # None
    /\ \/ conn' = [conn EXCEPT ![held] = IF @ = "up" THEN "broken" ELSE @]
       \/ conn[held] = "up" /\ conn' = [conn EXCEPT ![held] = "mute"]
    /\ closing' = closing \ {held}
    /\ held' = None
    /\ UNCHANGED <<cloud, hub, closed, made, chan, added, wg, Turns, ses, writer, push, mux, events>>

-----------------------------------------------------------------------------
(* What goes on by itself once it was begun. *)
Progress ==
    \/ \E p \in Peers : \/ Accept(p) \/ Connect(p) \/ AddPeer(p) \/ RemovePeer(p)
                        \/ CloseChannel(p) \/ AfterRemoval(p) \/ Unregister(p)
                        \/ Written(p) \/ PushTo(p) \/ BeginClose(p) \/ MuteEnds(p)
    \/ \E w \in Workers : \/ StartSession(w) \/ EndSession(w) \/ SessionSends(w)
                          \/ RemoveInitiatorSession(w) \/ RemoveResponderSession(w)
    \/ AddResponderSession \/ Refuse \/ SendAbort
    \/ PushSends \/ EndPush \/ EndClose

Next == \/ Progress
        \/ \E p \in Peers : Arrive(p) \/ Break(p) \/ Receive(p)
        \/ \E w \in Workers : Exchange(w)
        \/ AskScheduler \/ AddInitiatorSession \/ AddInitiatorFails
        \/ StartPush \/ StartDisconnect

(* Every goroutine that can go on does: sends to a writer, timeouts and    *)
(* locks all come to an end, and so does the wait for a ping or the read   *)
(* deadline (MuteEnds).  Under the bounds the steps of Progress are        *)
(* finitely many, so one weak fairness condition is enough.                *)
Fairness == WF_vars(Progress)
Spec == Init /\ [][Next]_vars /\ Fairness

-----------------------------------------------------------------------------
TypeOK ==
    /\ cloud \in BOOLEAN /\ stolen \in BOOLEAN
    /\ hub \in [Peers -> {"none", "registered", "connected", "serving", "waiting",
                          "removed", "leaving"}]
    /\ closed \in [Peers -> BOOLEAN]
    /\ conn \in [Peers -> {"down", "up", "mute", "broken"}]
    /\ made \in 0 .. MaxConns
    /\ chan \in [Peers -> 0 .. MaxConns]
    /\ added \in SUBSET Peers
    /\ wg \in [Peers -> Nat]
    /\ queue \in Seq(Peers)
    /\ next \in Peers \cup {None}
    /\ ses \in [Workers -> [peer : Peers \cup {None}, conn : 0 .. MaxConns, open : BOOLEAN,
                            pc : {"idle", "start", "receive", "send", "last", "over"}]]
    /\ writer \in [Peers -> {"idle", "busy"}]
    /\ closing \in SUBSET Peers /\ held \in Peers \cup {None}
    /\ push \in [todo : SUBSET Peers, at : Peers \cup {None}, count : Nat, on : BOOLEAN]
    /\ mux \in [peer : Peers \cup {None}, pc : {"idle", "start", "abort"}]
    /\ events \in 0 .. MaxEvents

Sessions(p) == {w \in Workers : ses[w].peer = p}

(* No send on a closed channel, which would panic: a session, a push and   *)
(* an abort that are about to send have the channel of the connection they *)
(* began with, and it is open; removePeer waits for the sessions before it *)
(* closes the channel, however the workers, the loop that starts sessions  *)
(* and the reconnecting peer interleave.                                   *)
SessionsHaveChannel ==
    /\ \A p \in Peers : \A w \in Sessions(p) : ses[w].conn = chan[p] /\ chan[p] # 0
    /\ push.at # None => chan[push.at] # 0
    /\ mux.pc = "abort" => chan[mux.peer] # 0

(* A peer that left leaves nothing behind: before its goroutine connects   *)
(* again or unregisters, no session, no channel and, as long as no turn    *)
(* was stolen, no place in the scheduler is left of it.                    *)
NothingLeftBehind ==
    \A p \in Peers : hub[p] \in {"none", "registered", "connected", "removed", "leaving"} =>
        /\ Sessions(p) = {} /\ chan[p] = 0 /\ p \notin added
        /\ ~cloud \/ ~stolen => Entries(p) = 0

(* Every peer of the controller has one turn: it waits in the scheduler or *)
(* its initiator session runs, never both, never neither.  A turn is lost  *)
(* only to a peer that came back between Next and Advance (stolen): no     *)
(* failed add, refused session, timeout or disconnect loses or doubles one.*)
OneTurnEach ==
    ~stolen => \A p \in added : Entries(p) + Cardinality(Sessions(p) \cap Initiators) = 1

(* sync_scheduler.go says of the scheduler of a cloud node that it "Tries  *)
(* to ensure that for any particular peer, sync sessions with that peer    *)
(* are scheduled periodically": a connected peer that neither waits nor is *)
(* in a session is never scheduled again.                                  *)
EveryPeerScheduled ==
    cloud => \A p \in added : Entries(p) + Cardinality(Sessions(p) \cap Initiators) > 0

(* BroadcastUpdate sends while it holds peerMapLock and mapMutex, sendAbort*)
(* while it holds mapMutex and close waits while it holds peerMapLock and  *)
(* csLock: in the end all of them are released.                            *)
LocksReleased == <>[](PeerMapLockFree /\ MapMutexFree)

(* A peer that was disconnected, or whose connection broke, does not stay  *)
(* half removed: in the end a peer is gone, or waits for a connection, or  *)
(* is served over one that works, and one that was closed is gone, also    *)
(* when its close message could not be written.                            *)
DisconnectsFinish ==
    <>[](\A p \in Peers : \/ hub[p] = "none"
                          \/ ~closed[p] /\ (hub[p] = "registered" \/ conn[p] = "up"))

\* Nobody sends on a channel that removePeer has closed.
ChannelsSound == TypeOK /\ SessionsHaveChannel

\* Locks that BroadcastUpdate, sendAbort and close hold over sends and waits are
\* released, and removePeer finishes.
AllReleased == LocksReleased /\ DisconnectsFinish
=============================================================================
