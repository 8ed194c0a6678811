----------------------------- MODULE StoreWatch ------------------------------
(***************************************************************************)
(* How an update of a store reaches a watching client: the write path of   *)
(* Store.Batch and Store.Merge with its key locks, row ID allocation and   *)
(* storage errors, the monitor, Store.Watch with its catch-up scan, the    *)
(* event stream of GET /{bucket}/watch and the reconnecting client of      *)
(* package client_relay.                                                   *)
(*                                                                         *)
(* A row is abstracted to its key and local version (serial number).       *)
(* The steps between which other goroutines can run are separate actions:  *)
(* taking the key locks, allocating row IDs, the storage batch, telling    *)
(* the monitor. notifyWatchers, discardIDRange and addWatcher hold         *)
(* watcherLock, so each submission is one step.                            *)
(***************************************************************************)
EXTENDS Integers, Monitor

CONSTANTS
  Key,             \* the keys, all of them watched by the client
  Writer,          \* goroutines running Batch or Merge
  MaxRows,         \* bound on the row IDs allocated
  MaxFaults,       \* bound on lost connections, restarts and forgotten rows
  Preloaded        \* TRUE: the store starts with one row, version 0

ASSUME WatchAssumption ==
  /\ MaxRows \in Nat \ {0} /\ MaxFaults \in Nat
  /\ Preloaded \in BOOLEAN
  /\ IsFiniteSet(Key) /\ NoKey \notin Key

VARIABLES
  rows,            \* stored local version of each key, or NoRow
  nextRowID,       \* the next local version to allocate
  held,            \* held[w]: the keys writer w has locked
  pc,              \* where each writer is
  batch,           \* batch[w]: the rows writer w has numbered
  prev, heap,      \* the monitor: previousVersion and updateHeap
  dropped,         \* history: versions the monitor refused to send
  watcherLock,     \* held by addWatcher while it scans
  conn,            \* state of the client's watch request
  stream,          \* rows sent to the client and not yet read by it
  lastSerial,      \* client: highest stable serial number
  missed,          \* client: highest serial of the catch-up phase, or Live
  received,        \* history: rows handed to the client's consumer
  overtaken,       \* history: a scan overtook a row in flight, or a restart
                   \* gave out row IDs that the client had passed
  faults

storeVars == <<rows, nextRowID, held, pc, batch>>
monitorVars == <<prev, heap, dropped>>
clientVars == <<conn, stream, lastSerial, missed, received, overtaken>>
Fault == faults < MaxFaults /\ faults' = faults + 1
vars == <<storeVars, monitorVars, watcherLock, clientVars, faults>>

NoRow == -1
Streaming == -1     \* value of missed once the catch-up phase is over
Marker == [ver |-> 0, key |-> NoKey]

Version == 0..(MaxRows - 1)
Row == [ver : Version, key : Key \cup {NoKey}]

TypeOK ==
  /\ rows \in [Key -> Version \cup {NoRow}]
  /\ nextRowID \in 0..MaxRows
  /\ held \in [Writer -> SUBSET Key]
  /\ pc \in [Writer -> {"idle", "locked", "allocated", "persisted", "failed"}]
  /\ batch \in [Writer -> SUBSET Row]
  /\ prev \in Version
  /\ heap \subseteq Row
  /\ dropped \subseteq Version
  /\ watcherLock \in BOOLEAN
  /\ conn \in {"down", "opening", "scanned", "abandoned", "listening"}
  /\ stream \in Seq(Row)
  /\ lastSerial \in Version
  /\ missed \in Version \cup {Streaming}
  /\ received \subseteq Row
  /\ overtaken \in BOOLEAN
  /\ faults \in 0..MaxFaults

\* calculateNextRowID: one above the highest stored local version.
NextRowIDOf(f) == Max({NoRow} \cup {f[k] : k \in Key}) + 1

\* The monitor of a store that has just been initialized.
PreviousVersionNext(n) == n
PreviousVersionOf(n) == IF n = 0 THEN 0 ELSE n - 1

Init ==
  /\ \E k \in Key : rows = [j \in Key |-> IF Preloaded /\ j = k THEN 0 ELSE NoRow]
  /\ nextRowID = NextRowIDOf(rows)
  /\ held = [w \in Writer |-> {}]
  /\ pc = [w \in Writer |-> "idle"]
  /\ batch = [w \in Writer |-> {}]
  /\ prev = PreviousVersionOf(nextRowID)
  /\ heap = {}
  /\ dropped = {}
  /\ watcherLock = FALSE
  /\ conn = "down"
  /\ stream = <<>>
  /\ lastSerial = 0
  /\ missed = 0
  /\ received = {}
  /\ overtaken = FALSE
  /\ faults = 0
-----------------------------------------------------------------------------
(* The write path *)

Unlocked(k) == \A w \in Writer : k \notin held[w]

\* store.lock: all keys of the batch, in sorted order, so that two batches
\* never wait for each other. (Keys here are on different merkle leaves;
\* batches on one leaf exclude each other.)
LockKeys(w, K) ==
  /\ pc[w] = "idle"
  /\ \A k \in K : Unlocked(k)
  /\ held' = [held EXCEPT ![w] = K]
  /\ pc' = [pc EXCEPT ![w] = "locked"]
  /\ UNCHANGED <<rows, nextRowID, batch, monitorVars, watcherLock, clientVars, faults>>

\* store.batch: the rows that change, any subset of the batch (deletes of
\* missing keys and merges that bring nothing drop out), are numbered in map
\* order with consecutive row IDs taken by one atomic addition.
Allocate(w) ==
  /\ pc[w] = "locked"
  /\ \E U \in SUBSET held[w] :
       LET n == Cardinality(U)
       IN  /\ nextRowID + n <= MaxRows
           /\ nextRowID' = nextRowID + n
           /\ \E f \in Bijection(U, nextRowID..(nextRowID + n - 1)) :
                batch' = [batch EXCEPT ![w] = {[ver |-> f[k], key |-> k] : k \in U}]
  /\ pc' = [pc EXCEPT ![w] = "allocated"]
  /\ UNCHANGED <<rows, held, monitorVars, watcherLock, clientVars, faults>>

\* storageDriver.Batch succeeds: one atomic write of all rows.
Persist(w) ==
  /\ pc[w] = "allocated"
  /\ rows' = [k \in Key |-> IF \E u \in batch[w] : u.key = k
                            THEN (CHOOSE u \in batch[w] : u.key = k).ver ELSE rows[k]]
  /\ pc' = [pc EXCEPT ![w] = "persisted"]
  /\ UNCHANGED <<nextRowID, held, batch, monitorVars, watcherLock, clientVars, faults>>

\* storageDriver.Batch returns an error.
StorageError(w) ==
  /\ pc[w] = "allocated"
  /\ pc' = [pc EXCEPT ![w] = "failed"]
  /\ UNCHANGED <<rows, nextRowID, held, batch, monitorVars, watcherLock, clientVars, faults>>

\* The updates U go to the monitor, which sends on what has become due.
SubmitUpdates(U) ==
  /\ prev' = NewPrevious(prev, heap, U)
  /\ heap' = NewHeap(prev, heap, U)
  /\ dropped' = dropped \cup {u.ver : u \in {v \in U : ~Accepts(prev, v)}}
  /\ stream' = IF conn = "listening" THEN stream \o Sent(prev, heap, U) ELSE stream

Finish(w, U) ==
  /\ ~watcherLock
  /\ SubmitUpdates(U)
  /\ held' = [held EXCEPT ![w] = {}]
  /\ pc' = [pc EXCEPT ![w] = "idle"]
  /\ batch' = [batch EXCEPT ![w] = {}]
  /\ UNCHANGED <<rows, nextRowID, watcherLock, conn, lastSerial, missed, received, overtaken, faults>>

\* notifyWatchers after a successful write.
NotifyNothing(w) == pc[w] = "persisted" /\ Finish(w, {})
NotifyWatchers(w) == pc[w] = "persisted" /\ Finish(w, batch[w])

\* discardIDRange after a failed one: the row IDs are given up.
DiscardNothing(w) == pc[w] = "failed" /\ Finish(w, {})
DiscardIDRange(w) == pc[w] = "failed" /\ Finish(w, {[u EXCEPT !.key = NoKey] : u \in batch[w]})

\* GarbageCollect or Forget removes a row; nobody is notified.
Forget(k) ==
  /\ Fault
  /\ Unlocked(k) /\ rows[k] # NoRow
  /\ rows' = [rows EXCEPT ![k] = NoRow]
  /\ UNCHANGED <<nextRowID, held, pc, batch, monitorVars, watcherLock, clientVars>>

\* The process dies and Store.Initialize starts over from what is stored.
Restart ==
  /\ Fault
  /\ nextRowID' = NextRowIDOf(rows)
  /\ prev' = PreviousVersionOf(nextRowID')
  /\ heap' = {}
  /\ held' = [w \in Writer |-> {}]
  /\ pc' = [w \in Writer |-> "idle"]
  /\ batch' = [w \in Writer |-> {}]
  /\ watcherLock' = FALSE
  /\ conn' = "down" /\ stream' = <<>>
  /\ overtaken' = (overtaken \/ nextRowID' <= lastSerial)
  /\ UNCHANGED <<rows, dropped, lastSerial, missed, received>>
-----------------------------------------------------------------------------
(* The watch request *)

\* The client (re)connects with the serial number it has reached.
OpenWatch ==
  /\ conn = "down"
  /\ conn' = "opening"
  /\ missed' = 0
  /\ UNCHANGED <<storeVars, monitorVars, watcherLock, stream, lastSerial, received, overtaken, faults>>

\* addWatcher: rows above the client's serial number in key order, which is
\* no order of serial numbers, then the end marker.
CatchUpRows == {[ver |-> rows[k], key |-> k] : k \in {j \in Key : rows[j] > lastSerial}}

\* Rows that are numbered and not yet stored.
Unstored == UNION {batch[w] : w \in {v \in Writer : pc[v] = "allocated"}}

ScanRows ==
  /\ conn = "opening" /\ ~watcherLock
  /\ watcherLock' = TRUE
  /\ \E q \in SetToSeqs(CatchUpRows) : stream' = q \o <<Marker>>
  /\ conn' = "scanned"
  /\ overtaken' = (overtaken \/ \E u \in Unstored, v \in CatchUpRows : u.ver < v.ver)
  /\ UNCHANGED <<storeVars, monitorVars, lastSerial, missed, received, faults>>

\* AddListener, and the end of addWatcher. If the client has gone away in
\* the meantime its context is done and the listener is removed again.
AddListener ==
  /\ conn \in {"scanned", "abandoned"}
  /\ conn' = IF conn = "scanned" THEN "listening" ELSE "down"
  /\ watcherLock' = FALSE
  /\ UNCHANGED <<storeVars, monitorVars, stream, lastSerial, missed, received, overtaken, faults>>

\* The connection ends: the request context is cancelled, the listener is
\* removed and what is still on the wire is lost.
Hangup ==
  /\ conn' = IF conn = "scanned" THEN "abandoned" ELSE "down"
  /\ stream' = <<>>

LoseConnection ==
  /\ Fault
  /\ conn \in {"opening", "scanned", "listening"}
  /\ Hangup
  /\ UNCHANGED <<storeVars, monitorVars, watcherLock, lastSerial, missed, received, overtaken>>

\* The client reads the end marker: everything it missed has been read.
ReadMarker ==
  /\ stream # <<>> /\ Head(stream) = Marker /\ missed # Streaming
  /\ lastSerial' = Max({lastSerial, missed})
  /\ missed' = Streaming
  /\ stream' = Tail(stream)
  /\ UNCHANGED <<storeVars, monitorVars, watcherLock, conn, received, overtaken, faults>>

\* The serial numbers the client refuses.
ProtocolError(u) == u.ver <= lastSerial /\ (lastSerial # 0 \/ u.ver # 0)

\* The client reads a row and hands it to its consumer.
ReadRowInOrder ==
  LET u == Head(stream)
  IN  /\ stream # <<>> /\ u # Marker /\ ~ProtocolError(u)
      /\ lastSerial' = u.ver
      /\ received' = received \cup {u}
      /\ stream' = Tail(stream)
      /\ UNCHANGED <<storeVars, monitorVars, watcherLock, conn, missed, overtaken, faults>>
ReadRow ==
  LET u == Head(stream)
  IN  /\ stream # <<>> /\ u # Marker /\ ~ProtocolError(u)
      /\ missed' = IF missed = Streaming THEN Streaming ELSE Max({missed, u.ver})
      /\ lastSerial' = IF missed = Streaming THEN u.ver ELSE lastSerial
      /\ received' = received \cup {u}
      /\ stream' = Tail(stream)
      /\ UNCHANGED <<storeVars, monitorVars, watcherLock, conn, overtaken, faults>>

\* The client reads a serial number it has passed and hangs up.
RefuseRow ==
  /\ stream # <<>> /\ Head(stream) # Marker /\ ProtocolError(Head(stream))
  /\ Hangup
  /\ UNCHANGED <<storeVars, monitorVars, watcherLock, lastSerial, missed, received, overtaken, faults>>
-----------------------------------------------------------------------------
Write(w) ==
  \/ \E K \in SUBSET Key \ {{}} : LockKeys(w, K)
  \/ Allocate(w) \/ Persist(w) \/ StorageError(w) \/ NotifyWatchers(w) \/ DiscardIDRange(w)

Watch == OpenWatch \/ ScanRows \/ AddListener \/ ReadMarker \/ ReadRow \/ RefuseRow

Next == (\E w \in Writer : Write(w)) \/ Watch \/ LoseConnection
          \/ (\E k \in Key : Forget(k)) \/ Restart

Spec == Init /\ [][Next]_vars

\* Writers past the allocation finish, the watch request and the client keep
\* going: each is a goroutine that blocks only on the locks modelled here.
Completion(w) == Persist(w) \/ NotifyWatchers(w) \/ DiscardIDRange(w)
FairSpec == Spec /\ WF_vars(Watch) /\ \A w \in Writer : WF_vars(Completion(w))
-----------------------------------------------------------------------------
(* Properties *)

InFlight == UNION {batch[w] : w \in {v \in Writer : pc[v] \in {"allocated", "persisted", "failed"}}}

\* The monitor never refuses an update: its own message says of a refused
\* one that it "should not happen and represents a bug" (monitor.go:146). The
\* exception is row 0, which an empty store may number and submit after row 1.
NothingDropped == dropped \subseteq {0}

\* A version the monitor is still waiting for is always one that a writer
\* holds: no error path leaves a gap that would hold back every later update.
GapsAreInFlight ==
  \A v \in (prev + 1)..(nextRowID - 1) : v \in Versions(heap) \cup Versions(InFlight)

\* After the marker a listener is sent strictly increasing versions.
StreamOrdered ==
  \A i, j \in 1..Len(stream) :
    i < j /\ missed = Streaming => stream[i].ver < stream[j].ver

\* The client's stable serial number means what client.go says: every stored
\* row up to it has been handed to the consumer. The exceptions are known: a
\* catch-up scan that overtakes a row in flight, and a restart after the
\* newest rows were forgotten, which numbers new rows from below the client.
StableSerial ==
  ~overtaken => \A k \in Key : 0 < rows[k] /\ rows[k] <= lastSerial =>
                                 [ver |-> rows[k], key |-> k] \in received

\* A client that stays subscribed gets the last version of every key: across
\* lost connections, failed writes, crashes and rows forgotten under it.
AllReceived == \A k \in Key : rows[k] > 0 => [ver |-> rows[k], key |-> k] \in received
CatchesUp == <>[](overtaken \/ AllReceived)

\* The same without the exceptions, which is what client.go relies on.
AlwaysCatchesUp == <>[]AllReceived

\* The monitor passes on every version, in order, and waits for none that
\* nobody will submit, whatever writers fail and in which order they finish.
PassedOnInOrder == TypeOK /\ NothingDropped /\ GapsAreInFlight /\ StreamOrdered
=============================================================================
