------------------------------ MODULE ConfigLog ------------------------------
(***************************************************************************)
(* The configuration controller of a node on top of its raft node and raft *)
(* storage.  The raft library hands the node a Ready: entries, a commit    *)
(* index and perhaps a snapshot to save, and committed entries to apply.   *)
(* The node saves, applies entry after entry to the cluster state, answers *)
(* the calls that wait for them, tells the state coordinator, and compacts *)
(* its log.  It may die between any two of these steps; when it starts it  *)
(* reads its storage and replays the log without telling anybody, and then *)
(* initializes the coordinator from the state it has reached.              *)
(*                                                                         *)
(* One node is modelled.  The rest of the cluster is the agreed log, which *)
(* the others extend and of which the node learns what the library lets it *)
(* learn.  The cluster state is the sequence of the entries applied; what  *)
(* an entry does to it is the subject of ClusterController.                *)
(***************************************************************************)
EXTENDS RaftStorage, SequencesExt

CONSTANTS
  Commands,    \* the commands this node's callers submit
  Once,        \* those that AddNode, RemoveNode and ReplaceNode submit
  Other, Junk, \* an entry of another node, and one that is never committed
  LogCompactionSize,
  MaxOthers,   \* bound: entries of other nodes
  MaxFaults    \* bound: crashes, storage errors, lost proposals, deposed leaders, snapshots
               \* of other nodes, repeated proposals

ASSUME ConfigAssumption ==
  /\ Once \subseteq Commands
  /\ Other \notin Commands /\ Junk \notin Commands \cup {Other}
  /\ LogCompactionSize \in Nat \ {0}
  /\ MaxOthers \in Nat /\ MaxFaults \in Nat

VARIABLES
  log,      \* the entries the cluster has agreed on
  wire,     \* proposals on their way into the log
  calls,    \* calls[c]: the call that submits c
  storage,  \* [mem, disk] of this node
  up,       \* down, replay, ready (the replay is over), running (initialized) or stopped
  lib,      \* the library: index committed and index applied
  todo,     \* committed entries of the current Ready still to apply; <<>> between Readys
  busy,     \* TRUE while a Ready is being handled
  last,     \* [committed, replay]: lastCommittedIndex and lastReplayIndex
  state,    \* the cluster state: the entries applied
  told,     \* what the state coordinator has been told of it
  faults    \* what is left of MaxFaults

nodeVars == <<storage, up, lib, todo, busy, last, state, told>>
vars == <<log, wire, calls, nodeVars, faults>>

Entry == Commands \cup {Other, Junk}

TypeOK ==
  /\ log \in Seq(Commands \cup {Other})
  /\ wire \subseteq Commands
  /\ calls \in [Commands -> {"idle", "waiting", "ok", "failed"}]
  /\ storage.mem.ents \in Seq(Entry) /\ storage.mem.data \in Seq(Entry)
  /\ up \in {"down", "replay", "ready", "running", "stopped"}
  /\ lib.committed \in 0 .. Len(log) /\ lib.applied \in 0 .. lib.committed
  /\ todo \in Seq(Nat) /\ busy \in BOOLEAN
  /\ state \in Seq(Entry) /\ told \in Seq(Entry)
  /\ faults \in 0 .. MaxFaults

Init ==
  /\ log = <<>> /\ wire = {} /\ calls = [c \in Commands |-> "idle"]
  /\ storage = [mem |-> EmptyMemory, disk |-> EmptyDisk]
  /\ up = "down" /\ lib = [committed |-> 0, applied |-> 0]
  /\ todo = <<>> /\ busy = FALSE /\ last = [committed |-> 0, replay |-> 0]
  /\ state = <<>> /\ told = <<>>
  /\ faults = MaxFaults

Fault == faults > 0 /\ faults' = faults - 1

-----------------------------------------------------------------------------
(* Starting, stopping and dying *)

\* notifyIfReplayDone, on the way from lastCommittedIndex to the phase the node is in.
Phase(committed, replay) == IF up = "replay" /\ committed = replay THEN "ready" ELSE up

\* Mutant: the stored snapshot is not applied.
StartNoSnapshot ==
  /\ up = "down"
  /\ LET d == storage.disk
         c == IF d.index = d.commit THEN d.commit ELSE 0
     IN /\ Readable(d)
        /\ storage' = [storage EXCEPT !.mem = Open(d)]
        /\ lib' = [committed |-> d.commit, applied |-> d.index]
        /\ last' = [committed |-> c, replay |-> d.commit]
        /\ state' = <<>>
        /\ up' = IF c = d.commit THEN "ready" ELSE "replay"
  /\ UNCHANGED <<log, wire, calls, todo, busy, told, faults>>

\* Mutant: the end of the replay is noticed only after an entry was applied.
StartNoNotify ==
  /\ up = "down"
  /\ LET d == storage.disk
         c == IF d.index = d.commit THEN d.commit ELSE 0
     IN /\ Readable(d)
        /\ storage' = [storage EXCEPT !.mem = Open(d)]
        /\ lib' = [committed |-> d.commit, applied |-> d.index]
        /\ last' = [committed |-> c, replay |-> d.commit]
        /\ state' = d.data
        /\ up' = IF d.commit = 0 THEN "ready" ELSE "replay"
  /\ UNCHANGED <<log, wire, calls, todo, busy, told, faults>>

\* RaftNode.Start opens the storage; run applies the stored snapshot first.
Start ==
  /\ up = "down"
  /\ LET d == storage.disk
         c == IF d.index = d.commit THEN d.commit ELSE 0
     IN /\ Readable(d)
        /\ storage' = [storage EXCEPT !.mem = Open(d)]
        /\ lib' = [committed |-> d.commit, applied |-> d.index]
        /\ last' = [committed |-> c, replay |-> d.commit]
        /\ state' = d.data
        /\ up' = IF c = d.commit THEN "ready" ELSE "replay"
  /\ UNCHANGED <<log, wire, calls, todo, busy, told, faults>>

\* Mutant: the coordinator starts from nothing.
InitializeNothing ==
  /\ up = "ready" /\ ~busy
  /\ up' = "running"
  /\ told' = <<>>
  /\ UNCHANGED <<log, wire, calls, storage, lib, todo, busy, last, state, faults>>

\* ClusterNode.Start goes on when the replay is over: InitializeNodeState, then networking.
Initialize ==
  /\ up = "ready" /\ ~busy
  /\ up' = "running"
  /\ told' = state
  /\ UNCHANGED <<log, wire, calls, storage, lib, todo, busy, last, state, faults>>

\* The process is gone; so are its callers.
Die ==
  /\ up' = "down" /\ busy' = FALSE /\ todo' = <<>> /\ told' = <<>> /\ state' = <<>>
  /\ storage' = [storage EXCEPT !.mem = EmptyMemory]
  /\ lib' = [committed |-> 0, applied |-> 0] /\ last' = [committed |-> 0, replay |-> 0]
  /\ calls' = [c \in Commands |-> IF calls[c] = "waiting" THEN "failed" ELSE calls[c]]

Crash == up # "down" /\ Fault /\ Die /\ UNCHANGED <<log, wire>>

\* The run loop ends on a storage error; the process lives on without it until it is
\* restarted, and calls end with raft's error when they propose again.
StorageError ==
  /\ up \in {"replay", "ready", "running"} /\ Fault
  /\ up' = "stopped"
  /\ busy' = FALSE /\ todo' = <<>>
  /\ UNCHANGED <<log, wire, calls, storage, lib, last, state, told>>

RestartStopped == up = "stopped" /\ Die /\ UNCHANGED <<log, wire, faults>>

-----------------------------------------------------------------------------
(* Handling a Ready *)

NoSnapshot == [index |-> 0, data |-> <<>>]

\* The snapshot of another node at index s.
SnapshotAt(s) == [index |-> s, data |-> SubSeq(log, 1, s)]

Indices(lo, hi) == [k \in 1 .. (IF hi < lo THEN 0 ELSE hi - lo + 1) |-> lo + k - 1]

\* saveToStorage, then the snapshot's callback; the committed entries are next.
Handle(commit, from, es, snap) ==
  /\ storage' = ApplyAll(storage, commit, from, es, snap)
  /\ lib' = [lib EXCEPT !.committed = commit]
  /\ busy' = TRUE
  /\ IF snap.index = 0
     THEN /\ todo' = Indices(lib.applied + 1, commit)
          /\ UNCHANGED <<last, state, told, up>>
     ELSE /\ todo' = Indices(snap.index + 1, commit)
          /\ state' = snap.data
          /\ told' = IF up = "running" THEN snap.data ELSE told
          /\ last' = [last EXCEPT !.committed = snap.index]
          /\ up' = Phase(snap.index, last.replay)

\* The first Ready of a restarted node: everything that is known to be committed.
Replay ==
  /\ up = "replay" /\ ~busy
  /\ Handle(lib.committed, 1, <<>>, NoSnapshot)
  /\ UNCHANGED <<log, wire, calls, faults>>

\* Entries of the agreed log, from any place the node's own entries may differ, and what the
\* leader says of the commit index.
Receive ==
  /\ up = "running" /\ ~busy
  /\ LET m == storage.mem IN
     \E from \in lib.committed + 1 .. LastIndex(m) + 1 : \E hi \in from .. Len(log) :
       /\ \A i \in lib.committed + 1 .. from - 1 : EntryAt(m, i) = log[i]
       /\ from <= LastIndex(m) => EntryAt(m, from) # log[from]
       /\ \E c \in {lib.committed, hi} : Handle(c, from, SubSeq(log, from, hi), NoSnapshot)
  /\ UNCHANGED <<log, wire, calls, faults>>

\* The leader says that entries the node has are committed.
Learn ==
  /\ up = "running" /\ ~busy
  /\ \E c \in lib.committed + 1 .. LastIndex(storage.mem) :
       /\ c <= Len(log)
       /\ \A i \in lib.committed + 1 .. c : EntryAt(storage.mem, i) = log[i]
       /\ Handle(c, 1, <<>>, NoSnapshot)
  /\ UNCHANGED <<log, wire, calls, faults>>

\* An entry of a leader that is deposed before it is committed.
ReceiveJunk ==
  /\ up = "running" /\ ~busy
  /\ Fault
  /\ Handle(lib.committed, LastIndex(storage.mem) + 1, <<Junk>>, NoSnapshot)
  /\ UNCHANGED <<log, wire, calls>>

\* The node is far behind: a snapshot, unless the node has the entry it ends with, and
\* perhaps the entries that follow it as well. ApplyAll saves the entries first, which do not
\* fit behind a shorter log, and the process panics.
ReceiveSnapshot ==
  /\ up = "running" /\ ~busy
  /\ Fault
  /\ \E s \in lib.committed + 1 .. Len(log) :
       /\ s <= LastIndex(storage.mem) => EntryAt(storage.mem, s) # log[s]
       /\ \/ Handle(s, 1, <<>>, SnapshotAt(s)) /\ UNCHANGED calls
          \/ \E hi \in s + 1 .. Len(log) : ~Fits(storage.mem, s + 1, SubSeq(log, s + 1, hi)) /\ Die
  /\ UNCHANGED <<log, wire>>

\* RequestMap.Respond: the call that still waits for e gets its answer, at most once.
Respond(e) == [c \in Commands |-> IF c = e /\ calls[c] = "waiting" THEN "ok" ELSE calls[c]]

\* OnCommittedEntry: the state first, then the answer to the call, then the coordinator.
ApplyEntry ==
  /\ busy /\ todo # <<>>
  /\ LET i == Head(todo)
         e == EntryAt(storage.mem, i)
     IN /\ state' = Append(state, e)
        /\ calls' = Respond(e)
        /\ told' = IF up = "running" THEN Append(told, e) ELSE told
        /\ last' = [last EXCEPT !.committed = i]
        /\ up' = Phase(i, last.replay)
  /\ todo' = Tail(todo)
  /\ UNCHANGED <<log, wire, storage, lib, busy, faults>>

\* Mutant: Advance takes all stored entries for applied.
FinishPast ==
  /\ busy /\ todo = <<>>
  /\ lib' = [lib EXCEPT !.applied = LastIndex(storage.mem)]
  /\ busy' = FALSE
  /\ UNCHANGED <<log, wire, calls, storage, up, todo, last, state, told, faults>>

\* takeSnapshotIfEnoughEntries, then Advance.
Finish ==
  /\ busy /\ todo = <<>>
  /\ LET m == storage.mem IN
     storage' = IF last.committed >= m.index /\ last.committed - m.index >= LogCompactionSize
                THEN CreateSnapshot(storage, last.committed, state) ELSE storage
  /\ lib' = [lib EXCEPT !.applied = lib.committed]
  /\ busy' = FALSE
  /\ UNCHANGED <<log, wire, calls, up, todo, last, state, told, faults>>

-----------------------------------------------------------------------------
(* Calls, and the rest of the cluster *)

\* ClusterCommand, AddNode, RemoveNode, ReplaceNode: the command is proposed and the call
\* waits until it is applied here.
Call(c) ==
  /\ up = "running" /\ calls[c] = "idle"
  /\ calls' = [calls EXCEPT ![c] = "waiting"]
  /\ wire' = wire \cup {c}
  /\ UNCHANGED <<log, nodeVars, faults>>

\* c is agreed on and this node will still apply it.
OnItsWay(c) == \E i \in 1 .. Len(log) : i > Len(state) /\ log[i] = c

\* ClusterCommand proposes again when no answer comes, be the proposal lost or only slow.
\* The other calls just go on waiting.
Retry(c) ==
  /\ calls[c] = "waiting" /\ c \notin Once /\ c \notin wire
  /\ up # "stopped"
  /\ IF OnItsWay(c) THEN Fault ELSE UNCHANGED faults
  /\ wire' = wire \cup {c}
  /\ UNCHANGED <<log, calls, nodeVars>>

\* The run loop is over: Propose returns an error.
RetryStopped(c) ==
  /\ calls[c] = "waiting" /\ c \notin Once
  /\ up = "stopped"
  /\ calls' = [calls EXCEPT ![c] = "failed"]
  /\ UNCHANGED <<log, wire, nodeVars, faults>>

\* Mutant: the call is answered when the leader has the command.
CommitCommandAnswers(c) ==
  /\ c \in wire
  /\ wire' = wire \ {c}
  /\ log' = Append(log, c)
  /\ calls' = Respond(c)
  /\ UNCHANGED <<nodeVars, faults>>

\* The leader takes the proposal and the cluster agrees on it.
CommitCommand(c) ==
  /\ c \in wire
  /\ wire' = wire \ {c}
  /\ log' = Append(log, c)
  /\ UNCHANGED <<calls, nodeVars, faults>>

LoseCommand(c) ==
  /\ c \in wire
  /\ Fault
  /\ wire' = wire \ {c}
  /\ UNCHANGED <<log, calls, nodeVars>>

CommitOther ==
  /\ Cardinality({i \in 1 .. Len(log) : log[i] = Other}) < MaxOthers
  /\ log' = Append(log, Other)
  /\ UNCHANGED <<wire, calls, nodeVars, faults>>

-----------------------------------------------------------------------------

\* What the node and the cluster do on their own.
Progress ==
  \/ Start \/ Initialize \/ RestartStopped
  \/ Replay \/ Receive \/ Learn \/ ApplyEntry \/ Finish
  \/ \E c \in Commands : Retry(c) \/ RetryStopped(c) \/ CommitCommand(c)

Environment ==
  \/ Crash \/ StorageError \/ ReceiveJunk \/ ReceiveSnapshot \/ CommitOther
  \/ \E c \in Commands : Call(c) \/ LoseCommand(c)

Next == Progress \/ Environment

\* The run loop, the callers' goroutines and the leader run on, and a stopped node is
\* restarted.  Every behaviour is finite, so weak fairness of them together is enough.
Spec == Init /\ [][Next]_vars /\ WF_vars(Progress)

-----------------------------------------------------------------------------
(* Properties *)

\* However often the node died, replayed, compacted its log or was sent a snapshot: its
\* state is what the agreed log up to lastCommittedIndex makes of it, each entry applied
\* exactly once and in order (OnCommittedEntry, OnSnapshot).
AppliedOnceInOrder ==
  up # "down" => /\ IsPrefix(state, log)
                 /\ last.committed \in {0, Len(state)}
                 /\ last.committed = 0 => Len(state) = storage.mem.index

\* Whatever the moment of a crash, the disk can be read, gives back what is in memory and
\* has every entry up to the commit index it promises.
DiskRecovers ==
  LET d == storage.disk
      m == Open(d)
  IN /\ Readable(d)
     /\ up # "down" => m = storage.mem
     /\ d.commit \in m.index .. LastIndex(m)
     /\ m.data = SubSeq(log, 1, m.index)
     /\ \A i \in m.index + 1 .. d.commit : EntryAt(m, i) = log[i]

\* A call that was answered will not be forgotten by a restart.
AnsweredDurable ==
  \A c \in Commands : calls[c] = "ok" => \E i \in 1 .. storage.disk.commit : log[i] = c

\* The coordinator knows of exactly the changes in the state: the replay's through
\* InitializeNodeState, the later ones through the callbacks.
CoordinatorTold == up = "running" => told = state

\* The replay ends, the node catches up with the log, and every call of ClusterCommand
\* returns, although proposals are lost and answers are swallowed by snapshots.
NodeCatchesUp == <>[](up = "running" /\ state = log /\ \A c \in Commands \ Once : calls[c] # "waiting")

\* "Since the intention of this method is to block until the given command has been
\* committed to the log, it needs to retry proposals after a timeout period": so it is with
\* AddNode, RemoveNode and ReplaceNode, which wait in the same way.
EveryCallEnds == <>[](\A c \in Commands : calls[c] # "waiting")

\* After replay, OnCommittedEntry and OnSnapshot the state is the agreed log, and the
\* coordinator has been told of all of it.
StateFollowsLog == TypeOK /\ AppliedOnceInOrder /\ CoordinatorTold

\* What RaftStorage has on disk can be read at any moment and keeps what callers of
\* ClusterCommand were promised.
DiskSound == DiskRecovers /\ AnsweredDurable
=============================================================================
