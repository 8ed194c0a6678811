----------------------------- MODULE Historian -----------------------------
(***************************************************************************)
(* The events and alerts that a relay keeps and forwards to the cloud: the *)
(* history log (historian/historian.go), the alert map (alerts/) and the   *)
(* two forwarding loops of the hub (server/peer.go).                       *)
(*                                                                         *)
(* An event is its serial number: what it says, and the indices by time,   *)
(* source and data that are written and deleted with it in one batch, are  *)
(* left out.  logLock is held from LogEvent or Purge to the end of the     *)
(* purge; queries and the counters are read without it.                    *)
(***************************************************************************)
EXTENDS Integers, FiniteSets, FiniteSetsExt

CONSTANTS EventLimit,        \* rotate when there are more; 0: never
          EventFloor,        \* rotation leaves as many
          PurgeBatchSize,    \* events deleted per storage batch
          ForwardBatchSize,  \* events pushed per request
          AlertKeys,         \* sources that raise alerts
          MaxUpdates,        \* bound: events and alerts reported
          MaxFaults          \* bound: errors, lost answers, crashes, purges asked for

ASSUME HistorianAssumption ==
    /\ {EventLimit, EventFloor, MaxUpdates, MaxFaults} \subseteq Nat
    /\ {PurgeBatchSize, ForwardBatchSize} \subseteq Nat \ {0}

VARIABLES purgeOnForward,    \* configuration: delete what was forwarded
          stored,            \* the events on disk
          disk,              \* the counters on disk
          mem,               \* the counters of the Historian
          log,               \* who holds logLock, and what is to be purged
          fwd,               \* the loop of StartForwardingEvents
          received,          \* events the cloud has received
          dropped,           \* events deleted by rotation or on request unforwarded
          lost,              \* events deleted as forwarded that were not
          alerts,            \* the alert store
          afw,               \* the loop of StartForwardingAlerts
          told,              \* alerts the cloud has received
          last,              \* the last alert of each source
          clash,             \* sources with two alerts of one millisecond
          updates, faults

eventVars == <<stored, disk, mem, log, fwd, received, dropped, lost>>
alertVars == <<alerts, afw, told, last, clash>>
historyVars == <<purgeOnForward, eventVars, alertVars, updates, faults>>

Free == [pc |-> "free", by |-> "nobody", todo |-> {}]
Asleep == [pc |-> "asleep", batch |-> {}, high |-> 0]
NoAlert == [id |-> 0, ts |-> 0]
Resting == [pc |-> "asleep", got |-> [k \in AlertKeys |-> NoAlert]]
Counters(next, size, forward) == [next |-> next, size |-> size, forward |-> forward]

Update == updates < MaxUpdates /\ updates' = updates + 1
Fault == faults < MaxFaults /\ faults' = faults + 1

HistoryInit ==
    /\ purgeOnForward \in BOOLEAN
    /\ stored = {}
    /\ disk = Counters(0, 0, 0)
    /\ mem = Counters(1, 0, 0)
    /\ log = Free /\ fwd = Asleep
    /\ received = {} /\ dropped = {} /\ lost = {}
    /\ alerts = Resting.got /\ last = Resting.got
    /\ afw = Resting
    /\ told = {} /\ clash = {}
    /\ updates = 0 /\ faults = 0

(* The n smallest members of S: what an ascending iterator with a limit    *)
(* returns. *)
Oldest(S, n) == {s \in S : Cardinality({t \in S : t < s}) < n}

-----------------------------------------------------------------------------
(***************************************************************************)
(* The log.                                                                *)
(***************************************************************************)
(* LogEvent: one batch with the event and both counters ...                *)
Persist ==
    /\ log = Free /\ Update
    /\ stored' = stored \cup {mem.next}
    /\ disk' = [disk EXCEPT !.next = mem.next, !.size = mem.size + 1]
    /\ log' = [Free EXCEPT !.pc = "logging"]
    /\ UNCHANGED <<purgeOnForward, mem, fwd, received, dropped, lost, alertVars, faults>>

(* RotateLog of a log of the given size, holding the lock. *)
Excess(size) == size - (IF EventFloor < EventLimit THEN EventFloor ELSE EventLimit)
RotateLog(S, size) ==
    log' = IF EventLimit # 0 /\ size > EventLimit
           THEN [pc |-> "purging", by |-> "rotation", todo |-> Oldest(S, Excess(size))]
           ELSE Free

(* ... then the counters in memory and RotateLog. *)
LogEvent ==
    /\ log.pc = "logging"
    /\ mem' = [mem EXCEPT !.next = @ + 1, !.size = @ + 1]
    /\ RotateLog(stored, mem'.size)
    /\ UNCHANGED <<purgeOnForward, stored, disk, fwd, received, dropped, lost, alertVars, updates, faults>>

(* A mutant: the size is not written with the batch. *)
PurgeEventsKept(X) ==
    /\ stored' = stored \ X
    /\ UNCHANGED <<mem, disk, dropped, lost>>

(* A mutant: a partial batch is counted as a full one. *)
PurgeEventsFull(X) ==
    /\ stored' = stored \ X
    /\ mem' = [mem EXCEPT !.size = @ - PurgeBatchSize]
    /\ disk' = [disk EXCEPT !.size = mem'.size]
    /\ UNCHANGED <<dropped, lost>>

(* purgeEvents: one storage batch, and the size with it. *)
PurgeEvents(X) ==
    /\ stored' = stored \ X
    /\ mem' = [mem EXCEPT !.size = @ - Cardinality(X)]
    /\ disk' = [disk EXCEPT !.size = mem'.size]
    /\ IF log.by = "forwarding"
       THEN lost' = lost \cup (X \ received) /\ UNCHANGED dropped
       ELSE dropped' = dropped \cup (X \ received) /\ UNCHANGED lost

(* A mutant: the forwarding loop is not resumed. *)
UnlockOnly == log' = Free /\ UNCHANGED fwd

(* The forwarding loop goes on when its purge is over, or failed. *)
Unlock == /\ log' = Free
          /\ fwd' = IF log.by = "forwarding" THEN Asleep ELSE fwd

(* purge: full batches, and what is left over at the end. *)
Purge ==
    /\ log.pc = "purging"
    /\ LET X == Oldest(log.todo, PurgeBatchSize) IN
       /\ PurgeEvents(X)
       /\ IF Cardinality(X) = PurgeBatchSize
          THEN log' = [log EXCEPT !.todo = @ \ X] /\ UNCHANGED fwd
          ELSE Unlock
    /\ UNCHANGED <<purgeOnForward, received, alertVars, updates, faults>>

PurgeFails ==
    /\ log.pc = "purging" /\ Fault
    /\ Unlock
    /\ UNCHANGED <<purgeOnForward, stored, disk, mem, received, dropped, lost, alertVars, updates>>

(* DELETE /events: a client has any events purged. *)
AskPurge ==
    /\ log = Free /\ Fault
    /\ \E X \in SUBSET stored \ {{}} : log' = [pc |-> "purging", by |-> "client", todo |-> X]
    /\ UNCHANGED <<purgeOnForward, stored, disk, mem, fwd, received, dropped, lost, alertVars, updates>>

(* A mutant: the last serial number is taken for the next. *)
NewHistorianSame ==
    /\ mem' = Counters(IF disk.next = 0 THEN 1 ELSE disk.next, disk.size, disk.forward)
    /\ RotateLog(stored, disk.size)

(* The process dies; NewHistorian reads the counters and rotates.  (It     *)
(* takes all of them for 0 when they cannot be read: not modelled.)        *)
NewHistorian ==
    /\ mem' = Counters(disk.next + 1, disk.size, disk.forward)
    /\ RotateLog(stored, disk.size)

Restart ==
    /\ Fault /\ NewHistorian
    /\ fwd' = Asleep /\ afw' = Resting
    /\ UNCHANGED <<purgeOnForward, stored, disk, received, dropped, lost, alerts, told, last, clash, updates>>

-----------------------------------------------------------------------------
(***************************************************************************)
(* Forwarding of events.  The loop does nothing while the cloud is not     *)
(* among the peers; it dies of a storage error.                            *)
(***************************************************************************)
Batch == Oldest({s \in stored : s >= mem.forward + 1}, ForwardBatchSize)

(* Everything in the log may be read, logged or being logged. *)
ReadBatch ==
    /\ fwd.pc = "asleep" /\ mem.forward < mem.next - 1
    /\ fwd' = [pc |-> "push", batch |-> Batch, high |-> Max({mem.forward + 1} \cup Batch)]
    /\ UNCHANGED <<purgeOnForward, stored, disk, mem, log, received, dropped, lost, alertVars, updates, faults>>

PushEvents ==
    /\ fwd.pc = "push"
    /\ received' = received \cup fwd.batch
    /\ fwd' = [fwd EXCEPT !.pc = "mark"]
    /\ UNCHANGED <<purgeOnForward, stored, disk, mem, log, dropped, lost, alertVars, updates, faults>>

(* A mutant: a failed push is marked too. *)
PushEventsFailsMarks ==
    /\ fwd.pc = "push" /\ Fault
    /\ fwd' = [fwd EXCEPT !.pc = "mark"]
    /\ UNCHANGED <<purgeOnForward, stored, disk, mem, log, received, dropped, lost, alertVars, updates>>

(* The request fails, perhaps after the cloud took the events: later again.*)
PushEventsFails ==
    /\ fwd.pc = "push" /\ Fault
    /\ received' \in {received, received \cup fwd.batch}
    /\ fwd' = Asleep
    /\ UNCHANGED <<purgeOnForward, stored, disk, mem, log, dropped, lost, alertVars, updates>>

SetForwardIndex ==
    /\ fwd.pc = "mark" /\ log = Free
    /\ disk' = [disk EXCEPT !.forward = fwd.high]
    /\ mem' = [mem EXCEPT !.forward = fwd.high]
    /\ fwd' = IF purgeOnForward THEN [fwd EXCEPT !.pc = "purge"] ELSE Asleep
    /\ UNCHANGED <<purgeOnForward, stored, log, received, dropped, lost, alertVars, updates, faults>>

(* A storage error in Query or in SetForwardIndex: the goroutine returns.  *)
ForwardingEnds ==
    /\ fwd.pc \in {"asleep", "mark"} /\ Fault
    /\ fwd' = [Asleep EXCEPT !.pc = "dead"]
    /\ UNCHANGED <<purgeOnForward, stored, disk, mem, log, received, dropped, lost, alertVars, updates>>

(* A mutant: the range ends one too late. *)
ForwardedPast(high) == {s \in stored : s <= high + 1}
(* Purge with MaxSerial = highestIndex + 1, which is not included. *)
Forwarded(high) == {s \in stored : s < high + 1}
PurgeForwarded ==
    /\ fwd.pc = "purge" /\ log = Free
    /\ log' = [pc |-> "purging", by |-> "forwarding", todo |-> Forwarded(fwd.high)]
    /\ fwd' = [fwd EXCEPT !.pc = "purging"]
    /\ UNCHANGED <<purgeOnForward, stored, disk, mem, received, dropped, lost, alertVars, updates, faults>>

-----------------------------------------------------------------------------
(***************************************************************************)
(* Alerts: the last one of every source, until it was forwarded.           *)
(***************************************************************************)
(* UpdateAlert, in the millisecond of the last one or later. *)
UpdateAlert(k) ==
    /\ Update
    /\ \E later \in {0, 1} :
          /\ alerts' = [alerts EXCEPT ![k] = [id |-> updates', ts |-> last[k].ts + later]]
          /\ clash' = IF later = 0 THEN clash \cup {k} ELSE clash
    /\ last' = [last EXCEPT ![k] = alerts'[k]]
    /\ UNCHANGED <<purgeOnForward, eventVars, afw, told, faults>>

GetAlerts ==
    /\ afw.pc = "asleep" /\ \E k \in AlertKeys : alerts[k] # NoAlert
    /\ afw' = [pc |-> "push", got |-> alerts]
    /\ UNCHANGED <<purgeOnForward, eventVars, alerts, told, last, clash, updates, faults>>

Ids(f) == {f[k].id : k \in AlertKeys} \ {0}

PushAlerts ==
    /\ afw.pc = "push"
    /\ told' = told \cup Ids(afw.got)
    /\ afw' = [afw EXCEPT !.pc = "clear"]
    /\ UNCHANGED <<purgeOnForward, eventVars, alerts, last, clash, updates, faults>>

PushAlertsFails ==
    /\ afw.pc = "push" /\ Fault
    /\ told' \in {told, told \cup Ids(afw.got)}
    /\ afw' = Resting
    /\ UNCHANGED <<purgeOnForward, eventVars, alerts, last, clash, updates>>

(* A mutant: an alert is cleared whatever its time. *)
ChangedGone(k) == alerts[k] = NoAlert
(* ClearAlerts keeps an alert whose time is not the one that was read. *)
Changed(k) == alerts[k].ts # afw.got[k].ts
ClearAlerts ==
    /\ afw.pc = "clear"
    /\ alerts' = [k \in AlertKeys |-> IF afw.got[k] = NoAlert \/ Changed(k) THEN alerts[k] ELSE NoAlert]
    /\ afw' = Resting
    /\ UNCHANGED <<purgeOnForward, eventVars, told, last, clash, updates, faults>>

(* A storage error in GetAlerts or ClearAlerts: the goroutine returns. *)
AlertsEnd ==
    /\ afw.pc \in {"asleep", "clear"} /\ Fault
    /\ afw' = [Resting EXCEPT !.pc = "dead"]
    /\ UNCHANGED <<purgeOnForward, eventVars, alerts, told, last, clash, updates>>

-----------------------------------------------------------------------------
HistoryProgress ==
    \/ LogEvent \/ Purge
    \/ ReadBatch \/ PushEvents \/ SetForwardIndex \/ PurgeForwarded
    \/ GetAlerts \/ PushAlerts \/ ClearAlerts

HistoryNext ==
    \/ HistoryProgress
    \/ Persist \/ AskPurge \/ PurgeFails \/ Restart
    \/ PushEventsFails \/ ForwardingEnds
    \/ \E k \in AlertKeys : UpdateAlert(k)
    \/ PushAlertsFails \/ AlertsEnd

(* The loops wake by a timer and the handlers run to their end; under the  *)
(* bounds the steps of HistoryProgress are finitely many.                  *)
HistoryFairness == WF_historyVars(HistoryProgress)
HistorySpec == HistoryInit /\ [][HistoryNext]_historyVars /\ HistoryFairness

-----------------------------------------------------------------------------
CounterType == [next : Nat, size : Nat, forward : Nat]
AlertType == [AlertKeys -> [id : Nat, ts : Nat]]
HistoryTypeOK ==
    /\ purgeOnForward \in BOOLEAN
    /\ {stored, received, dropped, lost, told} \subseteq SUBSET (1 .. MaxUpdates)
    /\ disk \in CounterType /\ mem \in CounterType
    /\ log \in [pc : {"free", "logging", "purging"}, todo : SUBSET (1 .. MaxUpdates),
                by : {"nobody", "rotation", "client", "forwarding"}]
    /\ fwd \in [pc : {"asleep", "push", "mark", "purge", "purging", "dead"},
                batch : SUBSET (1 .. MaxUpdates), high : 0 .. MaxUpdates]
    /\ alerts \in AlertType /\ last \in AlertType
    /\ afw \in [pc : {"asleep", "push", "clear", "dead"}, got : AlertType]
    /\ clash \subseteq AlertKeys
    /\ updates \in 0 .. MaxUpdates /\ faults \in 0 .. MaxFaults

(* The size that decides on rotation is the number of events on disk,      *)
(* across full and partial purge batches, purges that fail half way,       *)
(* crashes and purges by clients: an unsigned size that is too small would *)
(* wrap and one too large would purge what should be kept.                 *)
SizesAgree ==
    /\ disk.size = Cardinality(stored)
    /\ mem.size = Cardinality(stored) - (IF log.pc = "logging" THEN 1 ELSE 0)

(* The forward index passes an event only when the cloud has it or it was  *)
(* deleted before its turn, and never reaches the next serial number, so   *)
(* that LogSerial() - ForwardIndex() - 1 does not wrap; a crash between    *)
(* the push and SetForwardIndex sends events twice and skips none.         *)
ForwardedAccounted ==
    /\ mem.forward < mem.next /\ disk.forward <= disk.next
    /\ \A s \in 1 .. mem.forward : s \in received \cup dropped

(* Purging what was forwarded deletes nothing that the cloud does not have,*)
(* whatever is logged while the push is under way.                         *)
PurgesForwardedOnly == lost = {}

(* "when a batch is written to disk no other batch that has been written   *)
(* before it has a serial number greater than itself" (LogEvent), across   *)
(* crashes: a serial number is never used again.                           *)
SerialsIncrease ==
    [][\A s \in stored' \ stored : \A t \in stored \cup received \cup dropped : s > t]_historyVars

(* An alert that the cloud was not told of is still there, unless a newer  *)
(* one replaced it: an update while a push is under way is not cleared     *)
(* with what was pushed.  Two alerts of a source in one millisecond look   *)
(* the same to ClearAlerts.                                                *)
AlertsKept == \A k \in AlertKeys \ clash : last[k].id \in told \cup {0} \/ alerts[k] = last[k]

(* In the end all events and alerts were forwarded, unless a storage error *)
(* ended the loop.                                                         *)
AllForwarded ==
    <>[](/\ fwd.pc = "dead" \/ mem.forward = mem.next - 1
         /\ afw.pc = "dead" \/ alerts = Resting.got)

\* The counters that LogEvent and purgeEvents keep beside the events say what is
\* stored.
CountersSound == HistoryTypeOK /\ SizesAgree

\* No event is passed over by the forward index or purged as forwarded that
\* the cloud has not got.
NothingSkipped == ForwardedAccounted /\ PurgesForwardedOnly
=============================================================================
