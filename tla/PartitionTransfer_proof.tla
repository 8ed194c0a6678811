----------------------- MODULE PartitionTransfer_proof -----------------------
(***************************************************************************)
(* Proofs about PartitionTransfer, for any nodes, replicas, length of the  *)
(* partition and any number of changes of ownership, decommissionings,     *)
(* crashes, broken streams and lost or repeated proposals.                 *)
(***************************************************************************)
EXTENDS PartitionTransfer, TLAPS

-----------------------------------------------------------------------------
(* The inductive invariant *)

States == [owner : [Replica -> Nodes], members : SUBSET Nodes, retired : SUBSET Nodes,
           holder : [Replica -> Nodes \cup {None}]]

Takes == [type : {"take"}, node : Nodes, replica : Replica, id : Nat]
Entries == [type : {"assign"}, owner : [Replica -> Nodes], retire : SUBSET Nodes]
             \cup [type : {"remove"}, node : Nodes] \cup Takes \cup [type : {"site"}]

Downloads ==
  {d \in [at : {"none", "choose", "stream", "done"}, from : Nodes \cup {None},
          next : 0 .. Chunks + 1, cut : BOOLEAN] : d.at = "stream" <=> d.from # None}
Proposals == [at : {"none", "waiting", "ready", "sent"}, id : Nat]

Typed ==
  /\ state \in States /\ view \in [Nodes -> States]
  /\ pending \in [Nodes -> Seq(Entries)] /\ wire \subseteq Takes
  /\ pool \subseteq Nodes /\ outgoing \subseteq Nodes
  /\ data \in [Nodes -> SUBSET AllChunks] /\ cancelled \in [Nodes -> SUBSET Stragglers]
  /\ download \in [Nodes -> Downloads]
  /\ proposal \in [Nodes -> [Replica -> Proposals]]
  /\ leaving \in [Nodes -> Phases] /\ locking \in [Nodes -> SUBSET Replica]
  /\ empty \in [Nodes -> 0 .. 2]

\* A node that has given up its capacity owns nothing.
Sound(s) == \A r \in Replica : s.owner[r] \notin s.retired

\* s is a state before t: nodes only retire, and one that has retired only gives away.
Before(s, t) ==
  /\ s.retired \subseteq t.retired
  /\ \A m \in s.retired : Held(t, m) \subseteq Held(s, m)

\* With the data d, holders are complete, and so are all nodes if a replica has no holder.
Whole(s, d) ==
  \A r \in Replica :
    /\ s.holder[r] # None => d[s.holder[r]] = AllChunks
    /\ s.holder[r] = None => \A m \in Nodes : d[m] = AllChunks

Intact == short = {} /\ early = {}

\* The states n goes through as it applies what is pending lead from its view to the state of
\* the log, if it is a member; each is whole.
IsPath(n, h) ==
  /\ h \in [0 .. Len(pending[n]) -> States]
  /\ h[0] = view[n]
  /\ \A i \in 1 .. Len(pending[n]) : h[i] = Step(h[i - 1], pending[n][i])
  /\ n \in state.members => h[Len(pending[n])] = state
  /\ \A i \in 0 .. Len(pending[n]) :
       Sound(h[i]) /\ Before(h[i], state) /\ (Intact => Whole(h[i], data))

Logged ==
  /\ Sound(state) /\ (Intact => Whole(state, data))
  /\ \A n \in Nodes : \E h : IsPath(n, h)

\* What a node that has given up its capacity has seen of the log.
GaveUpPhases == {"given", "stopped"} \cup Locking
Given == \A n \in Nodes : leaving[n] \in GaveUpPhases => n \in view[n].retired

\* A node has received what it streamed, all of it when it is done, and so before it
\* proposes itself.
DownloadInv ==
  Intact =>
    /\ \A n \in Nodes :
         /\ download[n].at = "stream" => /\ data[download[n].from] = AllChunks
                                         /\ 1 .. download[n].next - 1 \subseteq data[n]
         /\ download[n].at = "done" => data[n] = AllChunks
         /\ \A r \in Replica : proposal[n][r].at \in {"ready", "sent"} => data[n] = AllChunks
    /\ \A e \in wire : data[e.node] = AllChunks

\* What a node has started, opened and enabled.
UnderWay(n) ==
  leaving[n] # "left" =>
    /\ n \in pool <=> Owned(view[n], n) \cup Held(view[n], n) # {}
    /\ Held(view[n], n) # {} => n \in outgoing
    /\ n \in outgoing => Held(view[n], n) # {} \/ leaving[n] \in Locking
    /\ \A r \in Replica :
         /\ proposal[n][r].at # "none" => r \in Owned(view[n], n)
         /\ r \in Owned(view[n], n) \ Held(view[n], n) => proposal[n][r].at # "none"
         /\ proposal[n][r].at = "waiting" => download[n].at # "none"

IInv == Typed /\ (\A n \in Nodes : UnderWay(n)) /\ Logged /\ Given /\ DownloadInv

-----------------------------------------------------------------------------
(* What an entry does to a state *)

LEMMA StepIs ==
  ASSUME NEW s \in States, NEW e \in Entries
  PROVE  /\ Step(s, e) \in States
         /\ e.type \in {"assign", "remove", "take", "site"}
         /\ e.type = "assign" =>
              /\ e.owner \in [Replica -> Nodes] /\ e.retire \subseteq Nodes
              /\ Step(s, e).owner = e.owner /\ Step(s, e).holder = s.holder
              /\ Step(s, e).members = s.members /\ Step(s, e).retired = s.retired \cup e.retire
         /\ e.type # "assign" => Step(s, e).owner = s.owner /\ Step(s, e).retired = s.retired
         /\ e.type = "remove" =>
              /\ e.node \in Nodes /\ Step(s, e).members = s.members \ {e.node}
              /\ \A r \in Replica :
                   Step(s, e).holder[r] = IF s.holder[r] = e.node THEN None ELSE s.holder[r]
         /\ e.type # "remove" => Step(s, e).members = s.members
         /\ e.type = "take" =>
              /\ e \in Takes
              /\ \A r \in Replica :
                   Step(s, e).holder[r] = IF r = e.replica /\ s.owner[r] = e.node
                                          THEN e.node ELSE s.holder[r]
         /\ e.type = "site" => Step(s, e) = s
<1>1. CASE e.type = "assign"
  <2>1. e \in [type : {"assign"}, owner : [Replica -> Nodes], retire : SUBSET Nodes]
    BY <1>1 DEF Entries, Takes
  <2>2. Step(s, e) = [s EXCEPT !.owner = e.owner, !.retired = @ \cup e.retire]
    BY <1>1 DEF Step
  <2> QED BY <1>1, <2>1, <2>2 DEF States
<1>2. CASE e.type = "remove"
  <2>1. e \in [type : {"remove"}, node : Nodes]
    BY <1>2 DEF Entries, Takes
  <2>2. Step(s, e) = [s EXCEPT !.members = @ \ {e.node},
                        !.holder = [r \in Replica |-> IF @[r] = e.node THEN None ELSE @[r]]]
    BY <1>2 DEF Step
  <2> DEFINE left == [r \in Replica |-> IF s.holder[r] = e.node THEN None ELSE s.holder[r]]
  <2>3. left \in [Replica -> Nodes \cup {None}]
    BY <2>1 DEF States
  <2>4. Step(s, e) = [s EXCEPT !.members = s.members \ {e.node}, !.holder = left]
    BY <2>2
  <2> HIDE DEF left
  <2>5. /\ Step(s, e).owner = s.owner /\ Step(s, e).retired = s.retired
        /\ Step(s, e).members = s.members \ {e.node} /\ Step(s, e).holder = left
        /\ Step(s, e) \in States
    BY <2>3, <2>4 DEF States
  <2>6. \A r \in Replica : left[r] = IF s.holder[r] = e.node THEN None ELSE s.holder[r]
    BY DEF left
  <2> QED BY <1>2, <2>1, <2>5, <2>6
<1>3. CASE e.type = "take"
  <2>1. e \in Takes
    BY <1>3 DEF Entries
  <2>2. Step(s, e) = IF s.owner[e.replica] = e.node THEN [s EXCEPT !.holder[e.replica] = e.node] ELSE s
    BY <1>3 DEF Step
  <2> QED BY <1>3, <2>1, <2>2 DEF States, Takes
<1>4. CASE e.type = "site"
  <2>1. Step(s, e) = s
    BY <1>4 DEF Step
  <2> QED BY <1>4, <2>1
<1> QED BY <1>1, <1>2, <1>3, <1>4 DEF Entries, Takes

LEMMA BeforeTransitive ==
  ASSUME NEW s, NEW t, NEW u, Before(s, t), Before(t, u)
  PROVE  Before(s, u)
BY DEF Before

\* A state that gives replicas to nodes with capacity only keeps doing so, and is before the
\* next one.
LEMMA StepBefore ==
  ASSUME NEW s \in States, NEW e \in Entries, Sound(s)
  PROVE  Before(s, Step(s, e))
<1>1. Step(s, e) \in States /\ None \notin Nodes
  BY StepIs, TransferAssumption
<1>2. s.retired \subseteq Step(s, e).retired
  BY StepIs
<1>3. ASSUME NEW m \in s.retired, NEW r \in Held(Step(s, e), m)
      PROVE  r \in Held(s, m)
  <2>1. r \in Replica /\ Step(s, e).holder[r] = m /\ m \in Nodes /\ s.owner[r] # m
    BY <1>3 DEF Held, Sound, States
  <2>2. s.holder[r] = m
    BY <2>1, <1>1, StepIs
  <2> QED BY <2>1, <2>2 DEF Held
<1> QED BY <1>2, <1>3 DEF Before

LEMMA BeforeReflexive ==
  ASSUME NEW s
  PROVE  Before(s, s)
BY DEF Before

-----------------------------------------------------------------------------
(* Downloads and proposals *)

LEMMA DownloadsAre ==
  /\ NoDownload \in Downloads /\ NoDownload.at = "none" /\ NoDownload.from = None
  /\ Choosing \in Downloads /\ Choosing.at = "choose" /\ Choosing.from = None
  /\ Done \in Downloads /\ Done.at = "done" /\ Done.from = None
  /\ \A p \in Nodes : /\ Get(p) \in Downloads /\ Get(p).at = "stream" /\ Get(p).from = p
                      /\ Get(p).next = 1
<1> USE TransferAssumption DEF Downloads
<1> DEFINE Fields == [at : {"none", "choose", "stream", "done"}, from : Nodes \cup {None},
                      next : 0 .. Chunks + 1, cut : BOOLEAN]
<1>1. /\ NoDownload = [at |-> "none", from |-> None, next |-> 0, cut |-> FALSE]
      /\ Choosing = [at |-> "choose", from |-> None, next |-> 0, cut |-> FALSE]
      /\ Done = [at |-> "done", from |-> None, next |-> 0, cut |-> FALSE]
  <2>1. NoDownload = [at |-> "none", from |-> None, next |-> 0, cut |-> FALSE]
    BY DEF NoDownload
  <2>2. \A d \in Fields, v \in {"choose", "done"} :
          [d EXCEPT !.at = v] = [at |-> v, from |-> d.from, next |-> d.next, cut |-> d.cut]
    OBVIOUS
  <2>3. NoDownload \in Fields
    BY <2>1
  <2> HIDE DEF Fields
  <2>4. /\ Choosing = [at |-> "choose", from |-> NoDownload.from, next |-> NoDownload.next,
                       cut |-> NoDownload.cut]
        /\ Done = [at |-> "done", from |-> NoDownload.from, next |-> NoDownload.next,
                   cut |-> NoDownload.cut]
    BY <2>2, <2>3 DEF Choosing, Done
  <2> QED BY <2>1, <2>4
<1>2. 0 \in 0 .. Chunks + 1 /\ 1 \in 0 .. Chunks + 1
  OBVIOUS
<1>3. \A p \in Nodes : /\ Get(p) \in Downloads /\ Get(p).at = "stream" /\ Get(p).from = p
                       /\ Get(p).next = 1
  BY <1>2 DEF Get
<1> QED BY <1>1, <1>2, <1>3

LEMMA GoneIs ==
  ASSUME NEW p \in Proposals
  PROVE  Gone(p) \in Proposals /\ Gone(p).at = "none"
BY DEF Gone, Proposals

\* stopTransfer cancels the proposals of lost, and the download with the last of them.
LEMMA StopIs ==
  ASSUME Typed, NEW n \in Nodes, NEW lost \in SUBSET Replica
  PROVE  \E P \in [Replica -> Proposals], D \in Downloads, C \in SUBSET Stragglers :
           /\ StopTransfers(n, lost) = [proposal |-> P, download |-> D, cancelled |-> C]
           /\ \A r \in lost : P[r].at = "none"
           /\ \A r \in Replica \ lost : P[r] = proposal[n][r]
           /\ D = download[n] \/ (D.at = "none" /\ \A r \in Replica : P[r].at = "none")
<1> DEFINE P == CancelProposals(n, lost)
           idle == lost # {} /\ \A r \in Replica : P[r].at = "none"
           D == IF idle THEN NoDownload ELSE download[n]
           C == IF idle /\ download[n].at \in {"choose", "stream"}
                THEN cancelled[n] \cup ({Straggler(download[n])} \cap Stragglers) ELSE cancelled[n]
<1>1. StopTransfers(n, lost) = [proposal |-> P, download |-> D, cancelled |-> C]
  BY DEF StopTransfers
<1>2. /\ P \in [Replica -> Proposals] /\ \A r \in lost : P[r].at = "none"
      /\ \A r \in Replica \ lost : P[r] = proposal[n][r]
  BY GoneIs DEF CancelProposals, Typed
<1>3. D \in Downloads /\ C \in SUBSET Stragglers
  BY DownloadsAre DEF Typed
<1>4. D = download[n] \/ (D.at = "none" /\ \A r \in Replica : P[r].at = "none")
  BY DownloadsAre
<1> HIDE DEF P, D, C
<1> QED BY <1>1, <1>2, <1>3, <1>4

\* StartTransfer queues proposals for gained; they wait for a download that runs or is done, or
\* are ready because the node holds the partition.
Started(P, D, holds, gained, Q, F) ==
  /\ F = D \/ (gained # {} /\ D.at = "none" /\ F = Choosing)
  /\ gained # {} /\ F.at = "none" => holds
  /\ \A r \in Replica \ gained : Q[r] = P[r]
  /\ \A r \in gained : Q[r].at = IF F.at = "none" THEN "ready" ELSE "waiting"

LEMMA StartIs ==
  ASSUME NEW P \in [Replica -> Proposals], NEW D \in Downloads, NEW holds \in BOOLEAN,
         NEW gained \in SUBSET Replica
  PROVE  \E Q \in [Replica -> Proposals], F \in Downloads :
           /\ Started(P, D, holds, gained, Q, F)
           /\ StartTransfers([proposal |-> P, download |-> D], holds, gained)
                = [proposal |-> Q, download |-> F]
           /\ \A C : StartTransfers([proposal |-> P, download |-> D, cancelled |-> C], holds, gained)
                       = [proposal |-> Q, download |-> F, cancelled |-> C]
<1> DEFINE F == IF gained = {} THEN D ELSE Download(D, holds)
           Q == [r \in Replica |-> IF r \in gained THEN QueueProposal(P[r], F.at = "none") ELSE P[r]]
<1>1. F \in Downloads /\ (F = D \/ (gained # {} /\ D.at = "none" /\ F = Choosing))
  BY DownloadsAre DEF Download
<1>2. gained # {} /\ F.at = "none" => holds
  BY DownloadsAre DEF Download
<1>3. StartTransfers([proposal |-> P, download |-> D], holds, gained)
        = [proposal |-> Q, download |-> F]
  <2> DEFINE t == [proposal |-> P, download |-> D]
  <2>1. t.download = D /\ t.proposal = P
    OBVIOUS
  <2>2. StartTransfers(t, holds, gained) = [t EXCEPT !.download = F, !.proposal = Q]
    BY <2>1, Zenon DEF StartTransfers
  <2> HIDE DEF F, Q
  <2> QED BY <2>2
<1>4. ASSUME NEW C
      PROVE  StartTransfers([proposal |-> P, download |-> D, cancelled |-> C], holds, gained)
               = [proposal |-> Q, download |-> F, cancelled |-> C]
  <2> DEFINE t == [proposal |-> P, download |-> D, cancelled |-> C]
  <2>1. t.download = D /\ t.proposal = P
    OBVIOUS
  <2>2. StartTransfers(t, holds, gained) = [t EXCEPT !.download = F, !.proposal = Q]
    BY <2>1, Zenon DEF StartTransfers
  <2> HIDE DEF F, Q
  <2> QED BY <2>2
<1> HIDE DEF F
<1>5. Q \in [Replica -> Proposals]
  BY DEF QueueProposal, Proposals
<1>6. /\ \A r \in Replica \ gained : Q[r] = P[r]
      /\ \A r \in gained : Q[r].at = IF F.at = "none" THEN "ready" ELSE "waiting"
  BY DEF QueueProposal
<1> HIDE DEF Q
<1>7. Started(P, D, holds, gained, Q, F)
  BY <1>1, <1>2, <1>6 DEF Started
<1> QED BY <1>1, <1>3, <1>4, <1>5, <1>7

-----------------------------------------------------------------------------
(* What Apply and Restart change *)

Moved(s, v, n) ==
  {r \in Replica : (s.owner[r] = n) # (v.owner[r] = n) \/ (s.holder[r] = n) # (v.holder[r] = n)}

\* Applying an entry e, the proposals and the download of n become P and D when transfers
\* are stopped, and Q and F when others are started.
Applies(n, e, v, P, D, C, Q, F) ==
  /\ pending[n] # <<>> /\ empty[n] < 2
  /\ e = Head(pending[n]) /\ v = Step(view[n], e)
  /\ \A r \in Owned(view[n], n) \ Owned(v, n) : P[r].at = "none"
  /\ \A r \in Replica \ (Owned(view[n], n) \ Owned(v, n)) : P[r] = proposal[n][r]
  /\ D = download[n] \/ (D.at = "none" /\ \A r \in Replica : P[r].at = "none")
  /\ Started(P, D, Held(v, n) # {}, Owned(v, n) \ Owned(view[n], n), Q, F)
  /\ view' = [view EXCEPT ![n] = v]
  /\ pending' = [pending EXCEPT ![n] = Tail(pending[n])]
  /\ IF Moved(view[n], v, n) = {} THEN UNCHANGED <<pool, outgoing>> ELSE UpdatePartition(n, v)
  /\ \/ download' = [download EXCEPT ![n] = F]
     \/ download' = CutStreams([download EXCEPT ![n] = F], n)
  /\ cancelled' = [cancelled EXCEPT ![n] = C]
  /\ proposal' = [proposal EXCEPT ![n] = IF Answered(n, e)
                                         THEN [Q EXCEPT ![e.replica] = Gone(Q[e.replica])] ELSE Q]
  /\ leaving' = [leaving EXCEPT ![n] = CASE GaveUp(n, e) -> "given"
                                         [] e.type = "remove" /\ e.node = n -> "left"
                                         [] OTHER -> leaving[n]]
  /\ \/ empty' = [empty EXCEPT ![n] = empty[n] + 1]
     \/ empty' = empty
  /\ UNCHANGED <<state, data, wire, locking, budget, history>>

LEMMA ApplyIs ==
  ASSUME Typed, NEW n \in Nodes, Apply(n)
  PROVE  \E e \in Entries, v \in States, P \in [Replica -> Proposals], D \in Downloads,
            C \in SUBSET Stragglers, Q \in [Replica -> Proposals], F \in Downloads :
           Applies(n, e, v, P, D, C, Q, F)
<1> DEFINE e == Head(pending[n])
           v == Step(view[n], e)
           lost == Owned(view[n], n) \ Owned(v, n)
           gained == Owned(v, n) \ Owned(view[n], n)
           holds == Held(v, n) # {}
           stopped == StopTransfers(n, lost)
           t == StartTransfers(stopped, holds, gained)
           moved == lost \cup gained \cup {r \in Replica : (view[n].holder[r] = n) # (v.holder[r] = n)}
<1>1. pending[n] # <<>> /\ pending[n] \in Seq(Entries) /\ e \in Entries
  BY DEF Apply, Typed
<1>2. v \in States /\ lost \in SUBSET Replica /\ gained \in SUBSET Replica /\ holds \in BOOLEAN
  BY <1>1, StepIs DEF Typed, Owned
<1>3. PICK P \in [Replica -> Proposals], D \in Downloads, C \in SUBSET Stragglers :
        /\ stopped = [proposal |-> P, download |-> D, cancelled |-> C]
        /\ \A r \in lost : P[r].at = "none"
        /\ \A r \in Replica \ lost : P[r] = proposal[n][r]
        /\ D = download[n] \/ (D.at = "none" /\ \A r \in Replica : P[r].at = "none")
  <2> HIDE DEF lost
  <2> QED BY <1>2, StopIs
<1>4. PICK Q \in [Replica -> Proposals], F \in Downloads :
        /\ Started(P, D, holds, gained, Q, F)
        /\ t = [proposal |-> Q, download |-> F, cancelled |-> C]
  <2> HIDE DEF gained, holds, stopped
  <2>1. \E Q \in [Replica -> Proposals], F \in Downloads :
           /\ Started(P, D, holds, gained, Q, F)
           /\ StartTransfers([proposal |-> P, download |-> D], holds, gained)
                = [proposal |-> Q, download |-> F]
           /\ \A X : StartTransfers([proposal |-> P, download |-> D, cancelled |-> X], holds, gained)
                       = [proposal |-> Q, download |-> F, cancelled |-> X]
    <3> HIDE DEF Started
    <3> QED BY <1>2, StartIs
  <2> QED BY <1>3, <2>1
<1>5. t.proposal = Q /\ t.download = F /\ t.cancelled = C
  BY <1>4
<1>6. moved = Moved(view[n], v, n)
  BY DEF Moved, Owned
<1> HIDE DEF t, moved
<1>7. /\ view' = [view EXCEPT ![n] = v] /\ pending' = [pending EXCEPT ![n] = Tail(pending[n])]
      /\ IF moved = {} THEN UNCHANGED <<pool, outgoing>> ELSE UpdatePartition(n, v)
      /\ cancelled' = [cancelled EXCEPT ![n] = t.cancelled]
      /\ empty[n] < 2
      /\ UNCHANGED <<state, data, wire, locking, budget, history>>
  BY SMTT(30) DEF Apply, t, moved
<1>8. \/ download' = [download EXCEPT ![n] = t.download]
      \/ download' = CutStreams([download EXCEPT ![n] = t.download], n)
  BY SMTT(30) DEF Apply, t
<1>9. /\ proposal' = [proposal EXCEPT ![n] = IF Answered(n, e)
                        THEN [t.proposal EXCEPT ![e.replica] = Gone(t.proposal[e.replica])]
                        ELSE t.proposal]
      /\ leaving' = [leaving EXCEPT ![n] = CASE GaveUp(n, e) -> "given"
                                             [] e.type = "remove" /\ e.node = n -> "left"
                                             [] OTHER -> leaving[n]]
      /\ \/ empty' = [empty EXCEPT ![n] = empty[n] + 1]
         \/ empty' = empty
  BY DEF Apply, t
<1>10. Applies(n, e, v, P, D, C, Q, F)
  <2> HIDE DEF e, v
  <2>1. /\ \A r \in Owned(view[n], n) \ Owned(v, n) : P[r].at = "none"
        /\ \A r \in Replica \ (Owned(view[n], n) \ Owned(v, n)) : P[r] = proposal[n][r]
        /\ D = download[n] \/ (D.at = "none" /\ \A r \in Replica : P[r].at = "none")
    BY <1>3
  <2>2. Started(P, D, Held(v, n) # {}, Owned(v, n) \ Owned(view[n], n), Q, F)
    BY <1>4
  <2>3. e = Head(pending[n]) /\ v = Step(view[n], e)
    BY DEF e, v
  <2> QED BY <1>1, <1>5, <1>6, <1>7, <1>8, <1>9, <2>1, <2>2, <2>3 DEF Applies
<1> HIDE DEF e, v
<1> QED BY <1>1, <1>2, <1>10, SMTT(30)

\* A restarted node has the proposals Q and the download F.
Restarts(n, Q, F) ==
  /\ F = NoDownload \/ F = Choosing
  /\ \A r \in Replica : Q[r].at = IF r \notin Owned(view[n], n) \ Held(view[n], n) THEN "none"
                                  ELSE IF F.at = "none" THEN "ready" ELSE "waiting"
  /\ (\E r \in Replica : Q[r].at = "ready") => Held(view[n], n) # {}
  /\ UpdatePartition(n, view[n])
  /\ proposal' = [proposal EXCEPT ![n] = Q]
  /\ cancelled' = [cancelled EXCEPT ![n] = {}]
  /\ download' = [m \in Nodes |-> IF m = n THEN F
                                  ELSE IF download[m].from = n THEN Choosing ELSE download[m]]
  /\ leaving' = [leaving EXCEPT ![n] = CASE leaving[n] \in {"no", "left"} -> leaving[n]
                                         [] n \in view[n].retired -> "given"
                                         [] OTHER -> "asked"]
  /\ locking' = [locking EXCEPT ![n] = {}]
  /\ empty' = [empty EXCEPT ![n] = 0]

LEMMA RestartIs ==
  ASSUME Typed, NEW n \in Nodes, Restart(n)
  PROVE  \E Q \in [Replica -> Proposals], F \in Downloads : Restarts(n, Q, F)
<1> DEFINE P == [r \in Replica |-> Gone(proposal[n][r])]
           holds == Held(view[n], n) # {}
           gained == Owned(view[n], n) \ Held(view[n], n)
           t == StartTransfers([proposal |-> P, download |-> NoDownload], holds, gained)
<1>1. P \in [Replica -> Proposals] /\ \A r \in Replica : P[r].at = "none"
  BY GoneIs DEF Typed
<1>2. holds \in BOOLEAN /\ gained \in SUBSET Replica /\ NoDownload \in Downloads
  BY DownloadsAre DEF Owned
<1>3. PICK Q \in [Replica -> Proposals], F \in Downloads :
        /\ Started(P, NoDownload, holds, gained, Q, F)
        /\ t = [proposal |-> Q, download |-> F]
  <2> HIDE DEF P, holds, gained
  <2>1. \E Q \in [Replica -> Proposals], F \in Downloads :
           /\ Started(P, NoDownload, holds, gained, Q, F)
           /\ StartTransfers([proposal |-> P, download |-> NoDownload], holds, gained)
                = [proposal |-> Q, download |-> F]
           /\ \A X : StartTransfers([proposal |-> P, download |-> NoDownload, cancelled |-> X], holds, gained)
                       = [proposal |-> Q, download |-> F, cancelled |-> X]
    <3> HIDE DEF Started
    <3> QED BY <1>1, <1>2, StartIs
  <2> QED BY <2>1
<1>4. t.proposal = Q /\ t.download = F
  BY <1>3
<1> HIDE DEF t
<1>5. /\ UpdatePartition(n, view[n])
      /\ proposal' = [proposal EXCEPT ![n] = t.proposal]
      /\ cancelled' = [cancelled EXCEPT ![n] = {}]
      /\ download' = [m \in Nodes |-> CASE m = n -> t.download
                                        [] m # n /\ download[m].from = n -> Choosing
                                        [] OTHER -> download[m]]
      /\ leaving' = [leaving EXCEPT ![n] = CASE leaving[n] \in {"no", "left"} -> leaving[n]
                                             [] n \in view[n].retired -> "given"
                                             [] OTHER -> "asked"]
      /\ locking' = [locking EXCEPT ![n] = {}]
      /\ empty' = [empty EXCEPT ![n] = 0]
  BY DEF Restart, t
<1>6. download' = [m \in Nodes |-> IF m = n THEN F
                                   ELSE IF download[m].from = n THEN Choosing ELSE download[m]]
  <2> DEFINE g(m) == CASE m = n -> t.download [] m # n /\ download[m].from = n -> Choosing
                       [] OTHER -> download[m]
             f(m) == IF m = n THEN F ELSE IF download[m].from = n THEN Choosing ELSE download[m]
  <2>1. \A m \in Nodes : g(m) = f(m)
    BY <1>4
  <2>2. download' = [m \in Nodes |-> g(m)]
    BY <1>5
  <2> HIDE DEF g, f
  <2>3. download' = [m \in Nodes |-> f(m)]
    BY <2>1, <2>2
  <2> QED BY <2>3 DEF f
<1>7. /\ F = NoDownload \/ F = Choosing
      /\ \A r \in Replica : Q[r].at = IF r \notin gained THEN "none"
                                      ELSE IF F.at = "none" THEN "ready" ELSE "waiting"
      /\ (\E r \in Replica : Q[r].at = "ready") => holds
  BY <1>1, <1>2, <1>3 DEF Started
<1> QED BY <1>4, <1>5, <1>6, <1>7, ZenonT(60) DEF Restarts

-----------------------------------------------------------------------------
(* Types *)

LEMMA CommitTyped ==
  ASSUME Typed, NEW e \in Entries, Commit(e)
  PROVE  state' \in States /\ pending' \in [Nodes -> Seq(Entries)]
<1>1. state' \in States
  BY StepIs DEF Commit, Typed
<1>2. \A n \in Nodes : Append(pending[n], e) \in Seq(Entries)
  BY DEF Typed
<1> QED BY <1>1, <1>2 DEF Commit, Typed

LEMMA UpdatePartitionTyped ==
  ASSUME Typed, NEW n \in Nodes, NEW v, UpdatePartition(n, v)
  PROVE  pool' \subseteq Nodes /\ outgoing' \subseteq Nodes
BY DEF Typed, UpdatePartition

LEMMA RestartTyped ==
  ASSUME Typed, NEW n \in Nodes, Restart(n)
  PROVE  /\ pool' \subseteq Nodes /\ outgoing' \subseteq Nodes
         /\ cancelled' \in [Nodes -> SUBSET Stragglers]
         /\ download' \in [Nodes -> Downloads]
         /\ proposal' \in [Nodes -> [Replica -> Proposals]]
         /\ leaving' \in [Nodes -> Phases] /\ locking' \in [Nodes -> SUBSET Replica]
         /\ empty' \in [Nodes -> 0 .. 2]
<1>1. PICK Q \in [Replica -> Proposals], F \in Downloads : Restarts(n, Q, F)
  BY RestartIs
<1>2. pool' \subseteq Nodes /\ outgoing' \subseteq Nodes
  BY <1>1, UpdatePartitionTyped DEF Restarts
<1>3. download' \in [Nodes -> Downloads]
  BY <1>1, DownloadsAre DEF Restarts, Typed
<1>4. /\ cancelled' \in [Nodes -> SUBSET Stragglers]
      /\ proposal' \in [Nodes -> [Replica -> Proposals]]
      /\ empty' \in [Nodes -> 0 .. 2] /\ locking' \in [Nodes -> SUBSET Replica]
  BY <1>1 DEF Restarts, Typed
<1>5. leaving' \in [Nodes -> Phases]
  BY <1>1 DEF Restarts, Typed, Phases
<1> QED BY <1>2, <1>3, <1>4, <1>5

\* Fields of a download can change as long as it streams from a node.
LEMMA DownloadFields ==
  ASSUME NEW d \in Downloads
  PROVE  /\ [d EXCEPT !.cut = TRUE] \in Downloads
         /\ [d EXCEPT !.cut = TRUE].at = d.at /\ [d EXCEPT !.cut = TRUE].from = d.from
         /\ [d EXCEPT !.cut = TRUE].next = d.next
         /\ d.next \in 0 .. Chunks =>
              /\ [d EXCEPT !.next = d.next + 1] \in Downloads
              /\ [d EXCEPT !.next = d.next + 1].at = d.at
              /\ [d EXCEPT !.next = d.next + 1].from = d.from
              /\ [d EXCEPT !.next = d.next + 1].next = d.next + 1
         /\ d.next \in Nat /\ d.next <= Chunks + 1
<1>1. Chunks \in Nat /\ d.next \in 0 .. Chunks + 1
  BY TransferAssumption DEF Downloads
<1> DEFINE k == d.next + 1
<1>2. d.next \in 0 .. Chunks => k \in 0 .. Chunks + 1
  BY <1>1
<1> HIDE DEF k
<1>3. d.next \in 0 .. Chunks =>
              /\ [d EXCEPT !.next = k] \in Downloads
              /\ [d EXCEPT !.next = k].at = d.at
              /\ [d EXCEPT !.next = k].from = d.from
              /\ [d EXCEPT !.next = k].next = k
  BY <1>2 DEF Downloads
<1>4. /\ [d EXCEPT !.cut = TRUE] \in Downloads
      /\ [d EXCEPT !.cut = TRUE].at = d.at /\ [d EXCEPT !.cut = TRUE].from = d.from
      /\ [d EXCEPT !.cut = TRUE].next = d.next
  BY DEF Downloads
<1> QED BY <1>1, <1>3, <1>4 DEF k

LEMMA ApplyTyped ==
  ASSUME Typed, NEW n \in Nodes, Apply(n)
  PROVE  Typed'
<1>1. PICK e \in Entries, v \in States, P \in [Replica -> Proposals], D \in Downloads,
           C \in SUBSET Stragglers, Q \in [Replica -> Proposals], F \in Downloads :
        Applies(n, e, v, P, D, C, Q, F)
  BY ApplyIs
<1>2. state' \in States /\ view' \in [Nodes -> States] /\ wire' \subseteq Takes
  BY <1>1 DEF Applies, Typed, history
<1>3. pending' \in [Nodes -> Seq(Entries)]
  BY <1>1 DEF Applies, Typed
<1>4. pool' \subseteq Nodes /\ outgoing' \subseteq Nodes
  BY <1>1, UpdatePartitionTyped DEF Applies, Typed
<1>5. data' \in [Nodes -> SUBSET AllChunks] /\ cancelled' \in [Nodes -> SUBSET Stragglers]
  BY <1>1 DEF Applies, Typed
<1>6. download' \in [Nodes -> Downloads]
  <2> DEFINE dl == [download EXCEPT ![n] = F]
  <2>1. dl \in [Nodes -> Downloads]
    BY DEF Typed
  <2> HIDE DEF dl
  <2>2. CutStreams(dl, n) \in [Nodes -> Downloads]
    BY <2>1, DownloadFields DEF CutStreams
  <2>3. download' = dl \/ download' = CutStreams(dl, n)
    BY <1>1 DEF Applies, dl
  <2> QED BY <2>1, <2>2, <2>3
<1>7. proposal' \in [Nodes -> [Replica -> Proposals]]
  <2> DEFINE R == IF Answered(n, e) THEN [Q EXCEPT ![e.replica] = Gone(Q[e.replica])] ELSE Q
  <2>1. Answered(n, e) => e.replica \in Replica
    BY StepIs, <1>1 DEF Answered, Entries, Takes
  <2>2. R \in [Replica -> Proposals]
    BY <2>1, GoneIs
  <2>3. proposal' = [proposal EXCEPT ![n] = R]
    BY <1>1 DEF Applies
  <2> HIDE DEF R
  <2> QED BY <2>2, <2>3 DEF Typed
<1>8. leaving' \in [Nodes -> Phases]
  <2> DEFINE p == CASE GaveUp(n, e) -> "given"
                    [] e.type = "remove" /\ e.node = n -> "left"
                    [] OTHER -> leaving[n]
  <2>1. leaving[n] \in Phases /\ {"given", "left"} \subseteq Phases
    BY DEF Typed, Phases
  <2>2. p \in Phases
    BY <2>1
  <2>3. leaving' = [leaving EXCEPT ![n] = p]
    BY <1>1 DEF Applies
  <2> HIDE DEF p
  <2> QED BY <2>2, <2>3 DEF Typed
<1>9. empty' \in [Nodes -> 0 .. 2]
  <2> DEFINE k == empty[n] + 1
  <2>1. empty[n] < 2 /\ empty[n] \in 0 .. 2
    BY <1>1 DEF Applies, Typed
  <2>2. k \in 0 .. 2
    BY <2>1
  <2>3. empty' = [empty EXCEPT ![n] = k] \/ empty' = empty
    BY <1>1 DEF Applies
  <2> HIDE DEF k
  <2> QED BY <2>2, <2>3 DEF Typed
<1>10. locking' \in [Nodes -> SUBSET Replica]
  BY <1>1 DEF Applies, Typed
<1> QED BY <1>2, <1>3, <1>4, <1>5, <1>6, <1>7, <1>8, <1>9, <1>10 DEF Typed

\* A commit, with what else it changes.
LEMMA CommitKeepsTyped ==
  ASSUME Typed, NEW e \in Entries, Commit(e), UNCHANGED <<view, pool, outgoing, data, download,
         cancelled, proposal, locking, empty>>, wire' \subseteq Takes,
         leaving' \in [Nodes -> Phases]
  PROVE  Typed'
<1>1. state' \in States /\ pending' \in [Nodes -> Seq(Entries)]
  BY CommitTyped
<1> QED BY <1>1 DEF Typed

\* What the assignment strategy and a node that leaves commit is an entry.
LEMMA EntriesAre ==
  ASSUME Typed
  PROVE  /\ \A able \in SUBSET Nodes : \A f \in Layouts(able), m \in SUBSET Nodes :
              [type |-> "assign", owner |-> f, retire |-> m] \in Entries
         /\ \A n \in Nodes : [type |-> "remove", node |-> n] \in Entries
         /\ [type |-> "site"] \in Entries
         /\ Takes \subseteq Entries
         /\ \A n \in Nodes, r \in Replica : Take(n, r) \in Takes
<1>1. \A able \in SUBSET Nodes : \A f \in Layouts(able), m \in SUBSET Nodes :
              [type |-> "assign", owner |-> f, retire |-> m] \in Entries
  <2> TAKE able \in SUBSET Nodes
  <2> TAKE f \in Layouts(able), m \in SUBSET Nodes
  <2>1. f \in [Replica -> able]
    BY DEF Layouts
  <2>2. f \in [Replica -> Nodes]
    BY <2>1
  <2> QED BY <2>2 DEF Entries
<1>2. \A n \in Nodes, r \in Replica : Take(n, r) \in Takes
  <2> TAKE n \in Nodes, r \in Replica
  <2>1. proposal[n][r] \in Proposals
    BY DEF Typed
  <2>2. proposal[n][r].id \in Nat
    BY <2>1 DEF Proposals
  <2> QED BY <2>2 DEF Take, Takes
<1>3. (\A n \in Nodes : [type |-> "remove", node |-> n] \in Entries) /\ [type |-> "site"] \in Entries
  BY DEF Entries
<1> QED BY <1>1, <1>2, <1>3 DEF Entries

\* RemoveSelf commits the removal of a member.
LEMMA RemoveSelfIs ==
  ASSUME Typed, NEW n \in Nodes, RemoveSelf(n)
  PROVE  /\ leaving' = [leaving EXCEPT ![n] = "removing"]
         /\ \/ n \in state.members /\ Commit([type |-> "remove", node |-> n])
            \/ UNCHANGED <<state, pending>>
         /\ state' \in States /\ pending' \in [Nodes -> Seq(Entries)]
         /\ leaving' \in [Nodes -> Phases]
<1>1. [type |-> "remove", node |-> n] \in Entries
  BY EntriesAre
<1>2. /\ leaving' = [leaving EXCEPT ![n] = "removing"]
      /\ \/ n \in state.members /\ Commit([type |-> "remove", node |-> n])
         \/ UNCHANGED <<state, pending>>
  BY DEF RemoveSelf
<1>3. state' \in States /\ pending' \in [Nodes -> Seq(Entries)]
  <2> DEFINE e == [type |-> "remove", node |-> n]
  <2> HIDE DEF e
  <2> QED BY <1>1, <1>2, CommitTyped DEF Typed, e
<1>4. leaving' \in [Nodes -> Phases]
  BY <1>2 DEF Typed, Phases, Locking
<1> QED BY <1>2, <1>3, <1>4

LEMMA ProposalFields ==
  ASSUME NEW p \in Proposals
  PROVE  /\ [p EXCEPT !.at = "sent"] \in Proposals
         /\ [p EXCEPT !.at = "sent"].at = "sent" /\ [p EXCEPT !.at = "sent"].id = p.id
BY DEF Proposals

\* StopAllTransfers stops what is queued.
LEMMA StopAllIs ==
  ASSUME Typed, NEW n \in Nodes, StopAllTransfers(n)
  PROVE  \E P \in [Replica -> Proposals], D \in Downloads, C \in SUBSET Stragglers :
           /\ \A r \in Replica : P[r].at = "none"
           /\ D = download[n] \/ D.at = "none"
           /\ proposal' = [proposal EXCEPT ![n] = P] /\ download' = [download EXCEPT ![n] = D]
           /\ cancelled' = [cancelled EXCEPT ![n] = C]
<1> DEFINE queued == {r \in Replica : proposal[n][r].at # "none"}
           t == StopTransfers(n, queued)
<1>1. PICK P \in [Replica -> Proposals], D \in Downloads, C \in SUBSET Stragglers :
        /\ t = [proposal |-> P, download |-> D, cancelled |-> C]
        /\ \A r \in queued : P[r].at = "none"
        /\ \A r \in Replica \ queued : P[r] = proposal[n][r]
        /\ D = download[n] \/ (D.at = "none" /\ \A r \in Replica : P[r].at = "none")
  <2>1. queued \in SUBSET Replica
    OBVIOUS
  <2> HIDE DEF queued
  <2> QED BY <2>1, StopIs
<1>2. \A r \in Replica : P[r].at = "none"
  BY <1>1
<1>3. t.proposal = P /\ t.download = D /\ t.cancelled = C
  BY <1>1
<1>4. /\ proposal' = [proposal EXCEPT ![n] = t.proposal]
      /\ download' = [download EXCEPT ![n] = t.download]
      /\ cancelled' = [cancelled EXCEPT ![n] = t.cancelled]
  BY DEF StopAllTransfers
<1> HIDE DEF t, queued
<1> QED BY <1>1, <1>2, <1>3, <1>4

\* A cancelled goroutine restarts the node or adds to its data and changes nothing else but
\* what it has in hand.
LEMMA CancelledIs ==
  ASSUME Typed, NEW n \in Nodes, NEW g \in cancelled[n], CancelledChunk(n, g)
  PROVE  /\ UNCHANGED <<state, pending, wire, view, short, early>>
         /\ \/ Restart(n) /\ UNCHANGED data
            \/ /\ UNCHANGED <<pool, outgoing, proposal, download, leaving, locking, empty>>
               /\ cancelled' \in [Nodes -> SUBSET Stragglers]
               /\ data' \in [Nodes -> SUBSET AllChunks]
               /\ \A m \in Nodes : data[m] \subseteq data'[m]
<1> DEFINE found == {g.next} \cap IF g.from = None THEN {} ELSE data[g.from]
           becomes(h) == [cancelled EXCEPT ![n] = (cancelled[n] \ {g}) \cup ({h} \cap Stragglers)]
           K(c, d) == /\ c \in [Nodes -> SUBSET Stragglers] /\ d \in [Nodes -> SUBSET AllChunks]
                      /\ \A m \in Nodes : data[m] \subseteq d[m]
<1>1. UNCHANGED <<state, pending, wire, view, short, early>>
  BY DEF CancelledChunk, netVars
<1>2. /\ cancelled \in [Nodes -> SUBSET Stragglers] /\ data \in [Nodes -> SUBSET AllChunks]
      /\ g \in Stragglers
  BY DEF Typed
<1>3. found \subseteq AllChunks
  BY <1>2 DEF Stragglers
<1>4. \A h : becomes(h) \in [Nodes -> SUBSET Stragglers]
  BY <1>2
<1>5. \/ Restart(n) /\ UNCHANGED data
      \/ /\ UNCHANGED <<pool, outgoing, proposal, download, leaving, locking, empty>>
         /\ \/ cancelled' = [cancelled EXCEPT ![n] = cancelled[n] \ {g}]
            \/ \E h : cancelled' = becomes(h)
         /\ data' = data \/ data' = [data EXCEPT ![n] = data[n] \cup found]
  <2> HIDE DEF K
  <2>1. \/ Restart(n) /\ UNCHANGED data
        \/ /\ UNCHANGED <<pool, outgoing, proposal, download, leaving, locking, empty>>
           /\ \/ cancelled' = [cancelled EXCEPT ![n] = cancelled[n] \ {g}] /\ UNCHANGED data
              \/ (\E p \in Partners(n) : cancelled' = becomes([g EXCEPT !.from = p])) /\ UNCHANGED data
              \/ /\ cancelled' = becomes([g EXCEPT !.next = g.next + 1])
                 /\ data' = [data EXCEPT ![n] = data[n] \cup found]
    BY DEF CancelledChunk
  <2> HIDE DEF becomes, found
  <2> QED BY <2>1
<1> HIDE DEF becomes, found
<1>6. cancelled' = [cancelled EXCEPT ![n] = cancelled[n] \ {g}] => cancelled' \in [Nodes -> SUBSET Stragglers]
  BY <1>2
<1>7. data' = data \/ data' = [data EXCEPT ![n] = data[n] \cup found]
        => data' \in [Nodes -> SUBSET AllChunks] /\ \A m \in Nodes : data[m] \subseteq data'[m]
  BY <1>2, <1>3
<1> QED BY <1>1, <1>4, <1>5, <1>6, <1>7

LEMMA TypedNext ==
  ASSUME Typed, [Next]_vars
  PROVE  Typed'
<1> USE DEF history, netVars
<1>1. CASE Move
  <2>1. PICK f \in Layouts(state.members \ state.retired) :
          Commit([type |-> "assign", owner |-> f, retire |-> {}])
    BY <1>1 DEF Move
  <2>2. state.members \ state.retired \in SUBSET Nodes
    BY DEF Typed, States
  <2>3. [type |-> "assign", owner |-> f, retire |-> {}] \in Entries
    BY <2>2, EntriesAre
  <2> QED BY <1>1, <2>1, <2>3, CommitKeepsTyped DEF Move, Typed
<1>2. CASE AddSite
  BY <1>2, EntriesAre, CommitKeepsTyped DEF AddSite, Typed
<1>3. ASSUME NEW n \in Nodes, Apply(n)
      PROVE  Typed'
  BY <1>3, ApplyTyped
<1>4. ASSUME NEW n \in Nodes, ChoosePartner(n)
      PROVE  Typed'
  <2>1. \A p \in Partners(n) : p \in Nodes
    BY DEF Partners, Typed, States
  <2>2. PICK d \in Downloads : download' = [download EXCEPT ![n] = d]
    <3>1. CASE download' = [download EXCEPT ![n] = Done]
      BY <3>1, DownloadsAre
    <3>2. CASE \E p \in Partners(n) : download' = [download EXCEPT ![n] = Get(p)]
      BY <3>2, <2>1, DownloadsAre
    <3> QED BY <1>4, <3>1, <3>2 DEF ChoosePartner
  <2> QED BY <1>4, <2>2 DEF ChoosePartner, Typed
<1>5. ASSUME NEW n \in Nodes, Chunk(n)
      PROVE  Typed'
  <2>1. download[n] \in Downloads /\ download[n].next \in Nat /\ download[n].next \in 0 .. Chunks + 1
        /\ download[n].next # Chunks + 1 /\ download[n].from \in Nodes /\ Chunks \in Nat
    BY <1>5, TransferAssumption DEF Chunk, ResponseOver, Typed, Downloads
  <2>2. download[n].next \in 0 .. Chunks
    BY <2>1
  <2>3. download' = [download EXCEPT ![n] = [download[n] EXCEPT !.next = download[n].next + 1]]
    BY <1>5 DEF Chunk
  <2>4. download' \in [Nodes -> Downloads]
    BY <2>1, <2>2, <2>3, DownloadFields DEF Typed
  <2>5. NextChunk(n) \subseteq AllChunks
    BY <2>1 DEF NextChunk, Typed
  <2> QED BY <1>5, <2>4, <2>5 DEF Chunk, Typed
<1>6. ASSUME NEW n \in Nodes, StreamEnd(n) \/ StreamError(n)
      PROVE  Typed'
  BY <1>6, DownloadsAre, ZenonT(60) DEF StreamEnd, StreamError, Typed
<1>7. ASSUME NEW n \in Nodes, SenderError(n)
      PROVE  Typed'
  <2>1. download' = [download EXCEPT ![n] = [download[n] EXCEPT !.cut = TRUE]]
    BY <1>7 DEF SenderError, Typed
  <2>2. download' \in [Nodes -> Downloads]
    BY <2>1, DownloadFields DEF Typed
  <2> QED BY <1>7, <2>2 DEF SenderError, Typed
<1>8. ASSUME NEW n \in Nodes, GiveUpTokens(n)
      PROVE  Typed'
  <2>1. PICK f \in Layouts(state.members \ (state.retired \cup {n})) :
          Commit([type |-> "assign", owner |-> f, retire |-> {n}])
    BY <1>8 DEF GiveUpTokens
  <2>2. state.members \ (state.retired \cup {n}) \in SUBSET Nodes /\ {n} \in SUBSET Nodes
    BY DEF Typed, States
  <2>3. [type |-> "assign", owner |-> f, retire |-> {n}] \in Entries
    BY <2>2, EntriesAre
  <2> QED BY <1>8, <2>1, <2>3, CommitKeepsTyped DEF GiveUpTokens, Typed, Phases
<1>9. ASSUME NEW n \in Nodes, CheckHeld(n)
      PROVE  Typed'
  <2>1. CASE Held(view[n], n) = {}
    BY <1>9, <2>1, RemoveSelfIs DEF CheckHeld, Typed
  <2>2. CASE Held(view[n], n) # {}
    <3>1. Held(view[n], n) \in SUBSET Replica /\ "locking" \in Phases
      BY DEF Held, Phases, Locking
    <3> QED BY <1>9, <2>2, <3>1 DEF CheckHeld, Typed
  <2> QED BY <2>1, <2>2
<1>10. ASSUME NEW n \in Nodes, ReceiveEmpty(n)
       PROVE  Typed'
  <2> DEFINE k == empty[n] - 1
  <2>1. k \in 0 .. 2
    BY <1>10 DEF ReceiveEmpty, Typed
  <2>2. empty' = [empty EXCEPT ![n] = k]
    BY <1>10 DEF ReceiveEmpty
  <2> HIDE DEF k
  <2>3. empty' \in [Nodes -> 0 .. 2]
    BY <2>1, <2>2 DEF Typed
  <2>4. RemoveSelf(n) /\ UNCHANGED <<view, pool, outgoing, data, download, cancelled, proposal, wire, locking>>
    BY <1>10 DEF ReceiveEmpty
  <2>5. /\ state' \in States /\ pending' \in [Nodes -> Seq(Entries)]
        /\ leaving' \in [Nodes -> Phases]
    BY <2>4, RemoveSelfIs
  <2> QED BY <2>3, <2>4, <2>5 DEF Typed
<1>11. ASSUME NEW n \in Nodes, NEW g \in cancelled[n], CancelledChunk(n, g)
       PROVE  Typed'
  BY <1>11, CancelledIs, RestartTyped DEF Typed
<1>12. ASSUME NEW n \in Nodes, NEW r \in Replica, Propose(n, r)
       PROVE  Typed'
  <2>1. proposal[n] \in [Replica -> Proposals]
    BY DEF Typed
  <2>2. proposal' = [proposal EXCEPT ![n] =
                       [proposal[n] EXCEPT ![r] = [proposal[n][r] EXCEPT !.at = "sent"]]]
    BY <1>12 DEF Propose
  <2>3. [proposal[n][r] EXCEPT !.at = "sent"] \in Proposals
    BY <2>1, ProposalFields
  <2>4. proposal' \in [Nodes -> [Replica -> Proposals]]
    BY <2>1, <2>2, <2>3 DEF Typed
  <2>5. wire' \subseteq Takes
    BY <1>12, EntriesAre DEF Propose, Typed
  <2> QED BY <1>12, <2>4, <2>5 DEF Propose, Typed
<1>13. ASSUME NEW n \in Nodes, NEW r \in Replica, Retry(n, r)
       PROVE  Typed'
  <2>1. wire' \subseteq Takes
    BY <1>13, EntriesAre DEF Retry, Typed
  <2> QED BY <1>13, <2>1 DEF Retry, Typed
<1>14. ASSUME NEW e \in wire, CommitTake(e)
       PROVE  Typed'
  <2>1. e \in Entries
    BY EntriesAre DEF Typed
  <2> QED BY <1>14, <2>1, CommitKeepsTyped DEF CommitTake, Typed
<1>15. ASSUME NEW e \in wire, LoseTake(e)
       PROVE  Typed'
  BY <1>15 DEF LoseTake, Typed
<1>16. ASSUME NEW n \in Nodes, Crash(n)
       PROVE  Typed'
  BY <1>16, RestartTyped DEF Crash, Typed
<1>17. ASSUME NEW n \in Nodes, LeaveCluster(n)
       PROVE  Typed'
  BY <1>17 DEF LeaveCluster, Typed, Phases
<1>19. ASSUME NEW n \in Nodes, StopAllTransfers(n)
       PROVE  Typed'
  <2>1. PICK P \in [Replica -> Proposals], D \in Downloads, C \in SUBSET Stragglers :
          /\ \A r \in Replica : P[r].at = "none"
          /\ D = download[n] \/ D.at = "none"
          /\ proposal' = [proposal EXCEPT ![n] = P] /\ download' = [download EXCEPT ![n] = D]
          /\ cancelled' = [cancelled EXCEPT ![n] = C]
    BY <1>19, StopAllIs, Zenon
  <2>2. leaving' \in [Nodes -> Phases]
    BY <1>19 DEF StopAllTransfers, Typed, Phases
  <2>3. /\ proposal' \in [Nodes -> [Replica -> Proposals]] /\ download' \in [Nodes -> Downloads]
        /\ cancelled' \in [Nodes -> SUBSET Stragglers]
    BY <2>1 DEF Typed
  <2> QED BY <1>19, <2>2, <2>3 DEF StopAllTransfers, Typed
<1>20. ASSUME NEW n \in Nodes, NEW r \in Replica, GetHeld(n, r) \/ EnableHeld(n, r)
       PROVE  Typed'
  <2>1. leaving' \in [Nodes -> Phases] /\ locking' \in [Nodes -> SUBSET Replica]
    BY <1>20 DEF GetHeld, EnableHeld, LockNext, Typed, Phases, Locking
  <2> QED BY <1>20, <2>1 DEF GetHeld, EnableHeld, Typed
<1>18. CASE UNCHANGED vars
  BY <1>18 DEF vars, Typed
<1> QED BY <1>19, <1>20, <1>1, <1>2, <1>3, <1>4, <1>5, <1>6, <1>7, <1>8, <1>9, <1>10, <1>11, <1>12, <1>13,
           <1>14, <1>15, <1>16, <1>17, <1>18 DEF Next, Progress, Environment

-----------------------------------------------------------------------------
(* What is under way is what the view calls for *)

LEMMA UnderWayKept ==
  ASSUME NEW n \in Nodes, UnderWay(n),
         leaving'[n] # "left" => leaving[n] # "left",
         leaving[n] \in Locking => leaving'[n] \in Locking \cup {"left"},
         view'[n] = view[n], n \in pool' <=> n \in pool, n \in outgoing' <=> n \in outgoing,
         \A r \in Replica : /\ proposal'[n][r].at = "none" <=> proposal[n][r].at = "none"
                            /\ proposal'[n][r].at = "waiting" => proposal[n][r].at = "waiting",
         download'[n].at = "none" => download[n].at = "none"
  PROVE  UnderWay(n)'
<1>1. PICK s : s = view[n]
  OBVIOUS
<1>2. view'[n] = s
  BY <1>1
<1> QED BY <1>1, <1>2 DEF UnderWay

LEMMA UpdatePartitionIs ==
  ASSUME NEW n \in Nodes, NEW v, UpdatePartition(n, v)
  PROVE  /\ n \in pool' <=> Owned(v, n) \cup Held(v, n) # {}
         /\ n \in outgoing' <=> Held(v, n) # {}
         /\ \A m \in Nodes \ {n} : (m \in pool' <=> m \in pool) /\ (m \in outgoing' <=> m \in outgoing)
BY DEF UpdatePartition

LEMMA CutStreamsIs ==
  ASSUME NEW dl \in [Nodes -> Downloads], NEW n, NEW m \in Nodes
  PROVE  /\ CutStreams(dl, n)[m].at = dl[m].at /\ CutStreams(dl, n)[m].from = dl[m].from
         /\ CutStreams(dl, n)[m].next = dl[m].next
BY DownloadFields DEF CutStreams

LEMMA RestartUnderWay ==
  ASSUME Typed, \A m \in Nodes : UnderWay(m), NEW n \in Nodes, Restart(n), UNCHANGED view
  PROVE  \A m \in Nodes : UnderWay(m)'
<1>1. PICK Q \in [Replica -> Proposals], F \in Downloads : Restarts(n, Q, F)
  BY RestartIs
<1>2. ASSUME NEW m \in Nodes, m # n
      PROVE  UnderWay(m)'
  <2>1. /\ leaving'[m] = leaving[m] /\ proposal'[m] = proposal[m] /\ view'[m] = view[m]
        /\ (m \in pool' <=> m \in pool) /\ (m \in outgoing' <=> m \in outgoing)
    BY <1>1, <1>2, UpdatePartitionIs DEF Restarts, Typed
  <2>2. download'[m].at = "none" => download[m].at = "none"
    BY <1>1, <1>2, DownloadsAre DEF Restarts
  <2> QED BY <2>1, <2>2, UnderWayKept
<1>3. UnderWay(n)'
  <2>1. PICK s : s = view[n]
    OBVIOUS
  <2>2. view'[n] = s /\ proposal'[n] = Q /\ download'[n] = F
    BY <1>1, <2>1 DEF Restarts, Typed
  <2>3. /\ n \in pool' <=> Owned(s, n) \cup Held(s, n) # {}
        /\ n \in outgoing' <=> Held(s, n) # {}
    BY <1>1, <2>1, UpdatePartitionIs DEF Restarts
  <2>4. \A r \in Replica : Q[r].at = IF r \notin Owned(s, n) \ Held(s, n) THEN "none"
                                     ELSE IF F.at = "none" THEN "ready" ELSE "waiting"
    BY <1>1, <2>1 DEF Restarts
  <2> QED BY <2>2, <2>3, <2>4 DEF UnderWay
<1> QED BY <1>2, <1>3

LEMMA ApplyUnderWay ==
  ASSUME Typed, \A m \in Nodes : UnderWay(m), NEW n \in Nodes, Apply(n)
  PROVE  \A m \in Nodes : UnderWay(m)'
<1>1. PICK e \in Entries, v \in States, P \in [Replica -> Proposals], D \in Downloads,
           C \in SUBSET Stragglers, Q \in [Replica -> Proposals], F \in Downloads :
        Applies(n, e, v, P, D, C, Q, F)
  BY ApplyIs
<1>2. \A m \in Nodes : download'[m].at = IF m = n THEN F.at ELSE download[m].at
  <2> DEFINE dl == [download EXCEPT ![n] = F]
  <2>1. dl \in [Nodes -> Downloads] /\ \A m \in Nodes : dl[m] = IF m = n THEN F ELSE download[m]
    BY DEF Typed
  <2>2. download' = dl \/ download' = CutStreams(dl, n)
    BY <1>1 DEF Applies
  <2> HIDE DEF dl
  <2> QED BY <2>1, <2>2, CutStreamsIs
<1>3. ASSUME NEW m \in Nodes, m # n
      PROVE  UnderWay(m)'
  <2>1. leaving'[m] = leaving[m] /\ proposal'[m] = proposal[m] /\ view'[m] = view[m]
    BY <1>1, <1>3 DEF Applies, Typed
  <2>2. (m \in pool' <=> m \in pool) /\ (m \in outgoing' <=> m \in outgoing)
    BY <1>1, <1>3, UpdatePartitionIs DEF Applies
  <2> QED BY <1>2, <1>3, <2>1, <2>2, UnderWayKept
<1>4. PICK s \in States : s = view[n]
  BY DEF Typed
<1>5. v = Step(s, e) /\ view'[n] = v
  BY <1>1, <1>4 DEF Applies, Typed
<1> DEFINE lost == Owned(s, n) \ Owned(v, n)
           gained == Owned(v, n) \ Owned(s, n)
           R == proposal'[n]
<1>6. /\ \A r \in lost : P[r].at = "none"
      /\ \A r \in Replica \ lost : P[r] = proposal[n][r]
      /\ D = download[n] \/ (D.at = "none" /\ \A r \in Replica : P[r].at = "none")
      /\ Started(P, D, Held(v, n) # {}, gained, Q, F)
  BY <1>1, <1>4 DEF Applies
<1>7. SUFFICES ASSUME leaving'[n] # "left"
               PROVE  UnderWay(n)'
  BY <1>3 DEF UnderWay
<1>8. /\ leaving[n] # "left" /\ ~(e.type = "remove" /\ e.node = n)
      /\ leaving[n] \in Locking => leaving'[n] \in Locking
  <2>1. leaving'[n] = CASE GaveUp(n, e) -> "given"
                        [] e.type = "remove" /\ e.node = n -> "left"
                        [] OTHER -> leaving[n]
    BY <1>1 DEF Applies, Typed
  <2>2. GaveUp(n, e) => e.type = "assign" /\ leaving[n] = "giving"
    BY DEF GaveUp
  <2> QED BY <1>7, <2>1, <2>2 DEF Locking
<1>9. /\ n \in pool <=> Owned(s, n) \cup Held(s, n) # {}
      /\ Held(s, n) # {} => n \in outgoing
      /\ n \in outgoing => Held(s, n) # {} \/ leaving[n] \in Locking
      /\ \A r \in Replica :
           /\ proposal[n][r].at # "none" => r \in Owned(s, n)
           /\ r \in Owned(s, n) \ Held(s, n) => proposal[n][r].at # "none"
           /\ proposal[n][r].at = "waiting" => download[n].at # "none"
  BY <1>4, <1>8 DEF UnderWay
<1>10. /\ n \in pool' <=> Owned(v, n) \cup Held(v, n) # {}
       /\ Held(v, n) # {} => n \in outgoing'
       /\ n \in outgoing' => Held(v, n) # {} \/ leaving'[n] \in Locking
  <2>1. CASE Moved(s, v, n) = {}
    <3>1. Owned(s, n) = Owned(v, n) /\ Held(s, n) = Held(v, n)
      BY <2>1 DEF Moved, Owned, Held
    <3>2. UNCHANGED <<pool, outgoing>>
      BY <1>1, <1>4, <2>1 DEF Applies
    <3> QED BY <1>8, <1>9, <3>1, <3>2
  <2>2. CASE Moved(s, v, n) # {}
    BY <1>1, <1>4, <2>2, UpdatePartitionIs DEF Applies
  <2> QED BY <2>1, <2>2
<1>11. R = IF Answered(n, e) THEN [Q EXCEPT ![e.replica] = Gone(Q[e.replica])] ELSE Q
  BY <1>1 DEF Applies, Typed
<1>12. \A r \in Replica : R[r] = IF Answered(n, e) /\ r = e.replica THEN Gone(Q[r]) ELSE Q[r]
  BY <1>11
<1> HIDE DEF R
<1>13. ASSUME NEW r \in Replica
       PROVE  /\ R[r].at # "none" => r \in Owned(v, n)
              /\ R[r].at = "waiting" => F.at # "none"
  <2>1. R[r].at = Q[r].at \/ R[r].at = "none"
    BY <1>12, GoneIs
  <2>2. r \in Owned(s, n) => r \in Owned(v, n) \/ r \in lost
    OBVIOUS
  <2>3. r \in gained => Q[r].at # "waiting" \/ F.at # "none"
    BY <1>6 DEF Started
  <2>4. r \notin gained => Q[r] = P[r]
    BY <1>6 DEF Started
  <2>5. P[r].at # "none" => P[r] = proposal[n][r] /\ r \notin lost /\ D = download[n]
    BY <1>6
  <2>6. F = D \/ F.at # "none"
    BY <1>6, DownloadsAre DEF Started
  <2> QED BY <1>9, <2>1, <2>2, <2>3, <2>4, <2>5, <2>6
<1>14. ASSUME NEW r \in Owned(v, n) \ Held(v, n)
       PROVE  R[r].at # "none"
  <2>1. r \in Replica /\ v.owner[r] = n /\ v.holder[r] # n
    BY <1>14 DEF Owned, Held
  <2>2. ~(Answered(n, e) /\ r = e.replica)
    BY <1>5, <2>1, StepIs DEF Answered
  <2>3. CASE r \in gained
    BY <1>6, <1>12, <2>1, <2>2, <2>3 DEF Started
  <2>4. CASE r \notin gained
    <3>1. s.owner[r] = n /\ r \notin lost
      BY <1>14, <2>1, <2>4 DEF Owned
    <3>2. s.holder[r] # n
      BY <1>5, <1>8, <2>1, <3>1, StepIs
    <3>3. R[r] = proposal[n][r]
      BY <1>6, <1>12, <2>1, <2>2, <2>4, <3>1 DEF Started
    <3> QED BY <1>9, <2>1, <3>1, <3>2, <3>3 DEF Owned, Held
  <2> QED BY <2>3, <2>4
<1>15. proposal'[n] = R /\ download'[n].at = F.at
  BY <1>2 DEF R
<1> HIDE DEF lost, gained
<1> QED BY <1>5, <1>10, <1>13, <1>14, <1>15 DEF UnderWay

LEMMA UnderWayQuiet ==
  ASSUME \A m \in Nodes : UnderWay(m), UNCHANGED <<view, pool, outgoing, proposal>>,
         \A m \in Nodes : leaving[m] = "left" => leaving'[m] = "left",
         \A m \in Nodes : leaving[m] \in Locking => leaving'[m] \in Locking \cup {"left"},
         \A m \in Nodes : download'[m].at = "none" => download[m].at = "none"
  PROVE  \A m \in Nodes : UnderWay(m)'
<1> TAKE m \in Nodes
<1> QED BY UnderWayKept

\* A node that has given up its capacity owns nothing, so that nothing is queued there.
LEMMA GivenOwnsNothing ==
  ASSUME Typed, Logged, Given, NEW n \in Nodes, leaving[n] \in GaveUpPhases
  PROVE  Owned(view[n], n) = {}
<1>1. PICK h : IsPath(n, h)
  BY DEF Logged
<1>2. 0 \in 0 .. Len(pending[n])
  BY DEF Typed
<1>3. Sound(view[n])
  BY <1>1, <1>2 DEF IsPath
<1>4. n \in view[n].retired
  BY DEF Given
<1> QED BY <1>3, <1>4 DEF Sound, Owned

LEMMA UnderWayNext ==
  ASSUME Typed, Logged, Given, \A m \in Nodes : UnderWay(m), [Next]_vars
  PROVE  \A m \in Nodes : UnderWay(m)'
<1> USE DEF history, netVars
<1>1. CASE Move \/ AddSite \/ (\E e \in wire : CommitTake(e) \/ LoseTake(e))
  BY <1>1, UnderWayQuiet DEF Move, AddSite, CommitTake, LoseTake
<1>2. ASSUME NEW n \in Nodes, Apply(n)
      PROVE  \A m \in Nodes : UnderWay(m)'
  BY <1>2, ApplyUnderWay
<1>3. ASSUME NEW n \in Nodes, ChoosePartner(n)
      PROVE  \A m \in Nodes : UnderWay(m)'
  <2>1. PICK d : d.at # "none" /\ download' = [download EXCEPT ![n] = d]
    <3>1. CASE download' = [download EXCEPT ![n] = Done]
      BY <3>1, DownloadsAre
    <3>2. CASE \E p \in Partners(n) : download' = [download EXCEPT ![n] = Get(p)]
      <4>1. \A p \in Partners(n) : p \in Nodes
        BY DEF Partners, Typed, States
      <4> QED BY <3>2, <4>1, DownloadsAre
    <3> QED BY <1>3, <3>1, <3>2 DEF ChoosePartner
  <2> QED BY <1>3, <2>1, UnderWayQuiet DEF ChoosePartner, Typed
<1>4. ASSUME NEW n \in Nodes, Chunk(n) \/ SenderError(n)
      PROVE  \A m \in Nodes : UnderWay(m)'
  <2>1. /\ download[n].at = "stream"
        /\ \E d : download' = [download EXCEPT ![n] = d] /\ d.at = download[n].at
    <3>1. CASE Chunk(n)
      <4>1. download' = [download EXCEPT ![n] = [download[n] EXCEPT !.next = download[n].next + 1]]
        BY <3>1 DEF Chunk
      <4>2. [download[n] EXCEPT !.next = download[n].next + 1].at = download[n].at
        BY DEF Typed, Downloads
      <4> QED BY <3>1, <4>1, <4>2 DEF Chunk
    <3>2. CASE SenderError(n)
      <4>1. download' = [download EXCEPT ![n] = [download[n] EXCEPT !.cut = TRUE]]
        BY <3>2 DEF SenderError
      <4>2. [download[n] EXCEPT !.cut = TRUE].at = download[n].at
        BY DEF Typed, Downloads
      <4> QED BY <3>2, <4>1, <4>2 DEF SenderError
    <3> QED BY <1>4, <3>1, <3>2
  <2> QED BY <1>4, <2>1, UnderWayQuiet DEF Chunk, SenderError, Typed
<1>5. ASSUME NEW n \in Nodes, StreamEnd(n) \/ StreamError(n)
      PROVE  \A m \in Nodes : UnderWay(m)'
  <2>1. download' = [download EXCEPT ![n] = Done] \/ download' = [download EXCEPT ![n] = Choosing]
    BY <1>5 DEF StreamEnd, StreamError
  <2>2. \A m \in Nodes : download'[m].at = "none" => download[m].at = "none"
    BY <2>1, DownloadsAre DEF Typed
  <2> QED BY <1>5, <2>2, UnderWayQuiet DEF StreamEnd, StreamError
<1>6. ASSUME NEW n \in Nodes,
             \/ GiveUpTokens(n) \/ CheckHeld(n) \/ ReceiveEmpty(n) \/ LeaveCluster(n)
             \/ \E r \in Replica : GetHeld(n, r)
      PROVE  \A m \in Nodes : UnderWay(m)'
  <2>1. /\ leaving[n] # "left"
        /\ \E l : leaving' = [leaving EXCEPT ![n] = l] /\ (leaving[n] \in Locking => l \in Locking)
    BY <1>6 DEF GiveUpTokens, CheckHeld, ReceiveEmpty, LeaveCluster, RemoveSelf, GetHeld, LockNext, Locking
  <2>2. UNCHANGED <<view, pool, outgoing, proposal, download>>
    BY <1>6 DEF GiveUpTokens, CheckHeld, ReceiveEmpty, LeaveCluster, GetHeld
  <2>3. \A m \in Nodes : /\ leaving[m] = "left" => leaving'[m] = "left"
                         /\ leaving[m] \in Locking => leaving'[m] \in Locking
    BY <2>1 DEF Typed
  <2> QED BY <2>2, <2>3, UnderWayQuiet
<1>12. ASSUME NEW n \in Nodes, NEW r \in Replica, EnableHeld(n, r)
       PROVE  \A m \in Nodes : UnderWay(m)'
  <2>1. /\ leaving[n] \in Locking /\ leaving[n] # "left" /\ leaving'[n] \in Locking
        /\ \A m \in Nodes \ {n} : leaving'[m] = leaving[m]
    BY <1>12 DEF EnableHeld, LockNext, Typed, Locking
  <2>2. UNCHANGED <<view, pool, proposal, download>> /\ outgoing' = outgoing \cup {n}
    BY <1>12 DEF EnableHeld
  <2>3. UnderWay(n)'
    BY <2>1, <2>2 DEF UnderWay
  <2>4. ASSUME NEW m \in Nodes \ {n} PROVE UnderWay(m)'
    BY <2>1, <2>2, UnderWayKept
  <2> QED BY <2>3, <2>4
<1>13. ASSUME NEW n \in Nodes, StopAllTransfers(n)
       PROVE  \A m \in Nodes : UnderWay(m)'
  <2>1. PICK P \in [Replica -> Proposals], D \in Downloads, C \in SUBSET Stragglers :
          /\ \A r \in Replica : P[r].at = "none"
          /\ D = download[n] \/ D.at = "none"
          /\ proposal' = [proposal EXCEPT ![n] = P] /\ download' = [download EXCEPT ![n] = D]
          /\ cancelled' = [cancelled EXCEPT ![n] = C]
    BY <1>13, StopAllIs, Zenon
  <2>2. /\ leaving[n] = "given" /\ leaving' = [leaving EXCEPT ![n] = "stopped"]
        /\ UNCHANGED <<view, pool, outgoing>>
    BY <1>13 DEF StopAllTransfers
  <2>3. Owned(view[n], n) = {}
    BY <2>2, GivenOwnsNothing DEF GaveUpPhases
  <2>4. UnderWay(n)'
    <3>1. PICK s : s = view[n]
      OBVIOUS
    <3>2. view'[n] = s /\ proposal'[n] = P /\ leaving'[n] = "stopped"
      BY <2>1, <2>2, <3>1 DEF Typed
    <3>3. /\ n \in pool <=> Owned(s, n) \cup Held(s, n) # {}
          /\ Held(s, n) # {} => n \in outgoing
          /\ n \in outgoing => Held(s, n) # {}
      BY <2>2, <3>1 DEF UnderWay, Locking
    <3> QED BY <2>1, <2>2, <2>3, <3>1, <3>2, <3>3 DEF UnderWay
  <2>5. ASSUME NEW m \in Nodes \ {n} PROVE UnderWay(m)'
    <3>1. proposal'[m] = proposal[m] /\ download'[m] = download[m] /\ leaving'[m] = leaving[m]
      BY <2>1, <2>2 DEF Typed
    <3> QED BY <2>2, <3>1, UnderWayKept
  <2> QED BY <2>4, <2>5
<1>7. ASSUME NEW n \in Nodes, NEW g \in cancelled[n], CancelledChunk(n, g)
      PROVE  \A m \in Nodes : UnderWay(m)'
  <2>1. CASE Restart(n)
    BY <1>7, <2>1, CancelledIs, RestartUnderWay
  <2>2. CASE UNCHANGED <<pool, outgoing, proposal, download, leaving>>
    BY <1>7, <2>2, CancelledIs, UnderWayQuiet
  <2> QED BY <1>7, <2>1, <2>2, CancelledIs
<1>8. ASSUME NEW n \in Nodes, NEW r \in Replica, Propose(n, r)
      PROVE  \A m \in Nodes : UnderWay(m)'
  <2> TAKE m \in Nodes
  <2>1. proposal' = [proposal EXCEPT ![n] =
                       [proposal[n] EXCEPT ![r] = [proposal[n][r] EXCEPT !.at = "sent"]]]
    BY <1>8 DEF Propose
  <2>2. /\ [proposal[n][r] EXCEPT !.at = "sent"].at = "sent"
        /\ proposal[n] \in [Replica -> Proposals] /\ proposal[n][r].at # "none"
    BY <1>8, ProposalFields DEF Typed, Propose
  <2>3. \A q \in Replica : proposal'[m][q] = IF m = n /\ q = r
                             THEN [proposal[n][r] EXCEPT !.at = "sent"] ELSE proposal[m][q]
    BY <2>1, <2>2 DEF Typed
  <2>4. \A q \in Replica : /\ proposal'[m][q].at = "none" <=> proposal[m][q].at = "none"
                           /\ proposal'[m][q].at = "waiting" => proposal[m][q].at = "waiting"
    BY <2>2, <2>3
  <2> QED BY <1>8, <2>4, UnderWayKept DEF Propose
<1>9. ASSUME NEW n \in Nodes, NEW r \in Replica, Retry(n, r)
      PROVE  \A m \in Nodes : UnderWay(m)'
  BY <1>9, UnderWayQuiet DEF Retry
<1>10. ASSUME NEW n \in Nodes, Crash(n)
       PROVE  \A m \in Nodes : UnderWay(m)'
  BY <1>10, RestartUnderWay DEF Crash
<1>11. CASE UNCHANGED vars
  BY <1>11, UnderWayQuiet DEF vars
<1> QED BY <1>1, <1>2, <1>3, <1>4, <1>5, <1>6, <1>7, <1>8, <1>9, <1>10, <1>11, <1>12, <1>13
        DEF Next, Progress, Environment

-----------------------------------------------------------------------------
(* The log *)

LEMMA IntactOnce ==
  ASSUME [Next]_vars, Intact'
  PROVE  Intact
<1> USE DEF Intact, history, netVars
<1>1. ASSUME NEW n \in Nodes, StreamEnd(n) \/ ReceiveEmpty(n)
      PROVE  Intact
  BY <1>1 DEF StreamEnd, ReceiveEmpty
<1>2. CASE UNCHANGED <<short, early>>
  BY <1>2
<1>3. ASSUME NEW n \in Nodes
      PROVE  /\ Apply(n) \/ ChoosePartner(n) \/ Chunk(n) \/ GiveUpTokens(n) \/ CheckHeld(n)
                  => UNCHANGED <<short, early>>
             /\ StreamError(n) \/ SenderError(n) \/ Crash(n) \/ LeaveCluster(n)
                  => UNCHANGED <<short, early>>
             /\ \A g \in cancelled[n] : CancelledChunk(n, g) => UNCHANGED <<short, early>>
             /\ \A r \in Replica : Propose(n, r) \/ Retry(n, r) => UNCHANGED <<short, early>>
             /\ \A r \in Replica : GetHeld(n, r) \/ EnableHeld(n, r) => UNCHANGED <<short, early>>
             /\ StopAllTransfers(n) => UNCHANGED <<short, early>>
  BY DEF Apply, ChoosePartner, Chunk, GiveUpTokens, CheckHeld, StreamError, SenderError, Crash,
         LeaveCluster, CancelledChunk, Propose, Retry, GetHeld, EnableHeld, StopAllTransfers
<1>4. /\ Move \/ AddSite => UNCHANGED <<short, early>>
      /\ \A e \in wire : CommitTake(e) \/ LoseTake(e) => UNCHANGED <<short, early>>
      /\ UNCHANGED vars => UNCHANGED <<short, early>>
  BY DEF Move, AddSite, CommitTake, LoseTake, vars
<1> QED BY <1>1, <1>2, <1>3, <1>4 DEF Next, Progress, Environment

LEMMA WholeGrows ==
  ASSUME NEW s \in States, NEW d \in [Nodes -> SUBSET AllChunks], NEW f \in [Nodes -> SUBSET AllChunks],
         \A m \in Nodes : d[m] \subseteq f[m], Whole(s, d)
  PROVE  Whole(s, f)
<1>1. \A m \in Nodes : d[m] = AllChunks => f[m] = AllChunks
  BY SMT
<1>2. \A r \in Replica : s.holder[r] # None => s.holder[r] \in Nodes
  BY DEF States
<1> QED BY <1>1, <1>2 DEF Whole

LEMMA LoggedKept ==
  ASSUME Typed, Logged, UNCHANGED <<state, pending, view>>, Intact' => Intact,
         data' \in [Nodes -> SUBSET AllChunks], \A m \in Nodes : data[m] \subseteq data'[m]
  PROVE  Logged'
<1>1. \A s \in States : (Intact => Whole(s, data)) => (Intact' => Whole(s, data'))
  <2> TAKE s \in States
  <2> QED BY WholeGrows DEF Typed
<1>2. ASSUME NEW n \in Nodes
      PROVE  \E h : IsPath(n, h)'
  <2>1. PICK h : IsPath(n, h)
    BY DEF Logged
  <2>2. PICK L \in Nat : Len(pending[n]) = L
    BY DEF Typed
  <2>3. \A i \in 0 .. L : h[i] \in States
    BY <2>1, <2>2 DEF IsPath
  <2>4. \A i \in 0 .. L : Sound(h[i]) /\ Before(h[i], state) /\ (Intact' => Whole(h[i], data'))
    BY <1>1, <2>1, <2>2, <2>3 DEF IsPath
  <2>5. IsPath(n, h)'
    BY <2>1, <2>2, <2>4 DEF IsPath
  <2> QED BY <2>5
<1>3. Sound(state)' /\ (Intact => Whole(state, data))'
  <2>1. PICK s \in States : s = state
    BY DEF Typed
  <2>2. Sound(s) /\ (Intact' => Whole(s, data')) /\ state' = s
    BY <1>1, <2>1 DEF Logged
  <2> QED BY <2>2 DEF Sound, Whole
<1> QED BY <1>2, <1>3 DEF Logged

\* Every node will come to the state after the new entry.
LEMMA CommitLogged ==
  ASSUME Typed, Logged, NEW e \in Entries, Commit(e), UNCHANGED <<view, data>>,
         Intact' => Intact, Sound(Step(state, e)), Intact' => Whole(Step(state, e), data)
  PROVE  Logged'
<1>1. PICK t \in States : t = Step(state, e)
  BY StepIs DEF Typed
<1>2. state' = t /\ Before(state, t)
  BY <1>1, StepBefore DEF Commit, Logged, Typed
<1>3. t.members \subseteq state.members
  <2>1. state \in States
    BY DEF Typed
  <2>2. t.members = state.members \/ t.members = state.members \ {e.node}
    BY <1>1, <2>1, StepIs
  <2> QED BY <2>2
<1>4. ASSUME NEW n \in Nodes
      PROVE  \E h : IsPath(n, h)'
  <2>1. PICK h : IsPath(n, h)
    BY DEF Logged
  <2>2. PICK q \in Seq(Entries) : q = pending[n]
    BY DEF Typed
  <2> DEFINE L == Len(q)
  <2>3. L \in Nat
    BY <2>2
  <2>4. /\ h \in [0 .. L -> States] /\ h[0] = view[n]
        /\ \A i \in 1 .. L : h[i] = Step(h[i - 1], q[i])
        /\ n \in state.members => h[L] = state
    BY <2>1, <2>2 DEF IsPath
  <2>5. \A i \in 0 .. L : Sound(h[i]) /\ Before(h[i], t) /\ (Intact' => Whole(h[i], data))
    <3> TAKE i \in 0 .. L
    <3>1. Sound(h[i]) /\ Before(h[i], state) /\ (Intact => Whole(h[i], data))
      BY <2>1, <2>2 DEF IsPath
    <3>2. Before(h[i], t)
      BY <1>2, <3>1, BeforeTransitive
    <3> QED BY <3>1, <3>2
  <2>6. CASE n \notin state.members
    <3>1. pending'[n] = q /\ n \notin t.members
      BY <1>3, <2>2, <2>6 DEF Commit, Typed
    <3>2. IsPath(n, h)'
      <4> HIDE DEF L
      <4> QED BY <1>2, <2>4, <2>5, <3>1 DEF IsPath, L
    <3> QED BY <3>2
  <2>7. CASE n \in state.members
    <3> DEFINE g == [i \in 0 .. L + 1 |-> IF i <= L THEN h[i] ELSE t]
               p == Append(q, e)
    <3>1. pending'[n] = p
      BY <2>2, <2>7 DEF Commit, Typed
    <3>2. Len(p) = L + 1 /\ p[L + 1] = e /\ \A i \in 1 .. L : p[i] = q[i]
      BY <2>2
    <3> HIDE DEF p, L
    <3>3. /\ g \in [0 .. L + 1 -> States] /\ g[0] = view[n] /\ g[L + 1] = t
          /\ \A i \in 0 .. L : g[i] = h[i]
      BY <2>3, <2>4
    <3> HIDE DEF g
    <3>4. \A i \in 1 .. L + 1 : g[i] = Step(g[i - 1], p[i])
      <4> TAKE i \in 1 .. L + 1
      <4>1. CASE i \in 1 .. L
        <5>1. i - 1 \in 0 .. L /\ i \in 0 .. L
          BY <4>1, <2>3
        <5> QED BY <2>4, <3>2, <3>3, <4>1, <5>1
      <4>2. CASE i = L + 1
        <5>1. i - 1 = L /\ L \in 0 .. L
          BY <4>2, <2>3
        <5>2. g[i - 1] = state
          BY <2>4, <2>7, <3>3, <5>1
        <5> QED BY <1>1, <3>2, <3>3, <4>2, <5>2
      <4> QED BY <2>3, <4>1, <4>2
    <3>5. \A i \in 0 .. L + 1 : Sound(g[i]) /\ Before(g[i], t) /\ (Intact' => Whole(g[i], data))
      <4> TAKE i \in 0 .. L + 1
      <4>1. CASE i \in 0 .. L
        BY <2>5, <3>3, <4>1
      <4>2. CASE i = L + 1
        BY <1>1, <3>3, <4>2, BeforeReflexive
      <4> QED BY <2>3, <4>1, <4>2
    <3>6. IsPath(n, g)'
      BY <1>2, <3>1, <3>2, <3>3, <3>4, <3>5 DEF IsPath
    <3> QED BY <3>6
  <2> QED BY <2>6, <2>7
<1>5. Sound(state)' /\ (Intact => Whole(state, data))'
  <2>1. Sound(t) /\ (Intact' => Whole(t, data))
    BY <1>1
  <2> QED BY <1>2, <2>1 DEF Sound, Whole
<1> QED BY <1>4, <1>5 DEF Logged

\* The view of a node goes on to the next state on its path.
LEMMA ApplyLogged ==
  ASSUME Typed, Logged, NEW n \in Nodes, Apply(n), Intact' => Intact
  PROVE  Logged' /\ Sound(view[n]) /\ (Intact => Whole(view'[n], data))
<1>1. PICK e \in Entries, v \in States, P \in [Replica -> Proposals], D \in Downloads,
           C \in SUBSET Stragglers, Q \in [Replica -> Proposals], F \in Downloads :
        Applies(n, e, v, P, D, C, Q, F)
  BY ApplyIs
<1>2. /\ UNCHANGED <<state, data>> /\ v = Step(view[n], e) /\ e = Head(pending[n])
      /\ pending[n] # <<>> /\ pending'[n] = Tail(pending[n]) /\ view'[n] = v
      /\ \A m \in Nodes \ {n} : pending'[m] = pending[m] /\ view'[m] = view[m]
  BY <1>1 DEF Applies, Typed
<1>3. PICK h : IsPath(n, h)
  BY DEF Logged
<1>4. PICK q \in Seq(Entries) : q = pending[n]
  BY DEF Typed
<1> DEFINE L == Len(q)
<1>5. L \in Nat /\ L >= 1 /\ q[1] = e
  BY <1>2, <1>4
<1>6. Len(Tail(q)) = L - 1 /\ \A i \in 1 .. L - 1 : Tail(q)[i] = q[i + 1]
  BY <1>2, <1>4
<1>7. /\ h \in [0 .. L -> States] /\ h[0] = view[n]
      /\ \A i \in 1 .. L : h[i] = Step(h[i - 1], q[i])
      /\ n \in state.members => h[L] = state
      /\ \A i \in 0 .. L : Sound(h[i]) /\ Before(h[i], state) /\ (Intact => Whole(h[i], data))
  BY <1>3, <1>4 DEF IsPath
<1> HIDE DEF L
<1>8. h[1] = v /\ 0 \in 0 .. L /\ 1 \in 0 .. L
  <2>1. 1 \in 1 .. L /\ 0 = 1 - 1 /\ 0 \in 0 .. L /\ 1 \in 0 .. L
    BY <1>5
  <2> QED BY <1>2, <1>5, <1>7, <2>1
<1> DEFINE g == [i \in 0 .. L - 1 |-> h[i + 1]]
<1>9. \A i \in 0 .. L - 1 : i + 1 \in 0 .. L
  BY <1>5
<1>10. /\ g \in [0 .. L - 1 -> States] /\ g[0] = v
       /\ \A i \in 0 .. L - 1 : g[i] = h[i + 1]
       /\ n \in state.members => g[L - 1] = state
  <2>1. 0 \in 0 .. L - 1 /\ L - 1 \in 0 .. L - 1 /\ (L - 1) + 1 = L /\ 0 + 1 = 1
    BY <1>5
  <2> QED BY <1>7, <1>8, <1>9, <2>1
<1> HIDE DEF g
<1>11. \A i \in 1 .. L - 1 : g[i] = Step(g[i - 1], Tail(q)[i])
  <2> TAKE i \in 1 .. L - 1
  <2>1. i \in 0 .. L - 1 /\ i - 1 \in 0 .. L - 1 /\ (i - 1) + 1 = i /\ i + 1 \in 1 .. L /\ (i + 1) - 1 = i
    BY <1>5
  <2>2. h[i + 1] = Step(h[(i + 1) - 1], q[i + 1])
    BY <1>7, <2>1
  <2> QED BY <1>6, <1>10, <2>1, <2>2
<1>12. \A i \in 0 .. L - 1 : Sound(g[i]) /\ Before(g[i], state) /\ (Intact' => Whole(g[i], data))
  BY <1>7, <1>9, <1>10
<1>13. IsPath(n, g)'
  <2>1. pending'[n] = Tail(q) /\ Len(Tail(q)) = L - 1 /\ view'[n] = v
    BY <1>2, <1>4, <1>6
  <2> QED BY <1>2, <1>10, <1>11, <1>12, <2>1 DEF IsPath
<1>14. ASSUME NEW m \in Nodes, m # n
       PROVE  \E f : IsPath(m, f)'
  <2>1. PICK f : IsPath(m, f)
    BY DEF Logged
  <2>2. IsPath(m, f)'
    BY <1>2, <1>14, <2>1 DEF IsPath
  <2> QED BY <2>2
<1>15. Sound(state)' /\ (Intact => Whole(state, data))'
  BY <1>2 DEF Logged, Sound, Whole
<1>16. Sound(view[n]) /\ (Intact => Whole(view'[n], data))
  BY <1>2, <1>7, <1>8
<1> QED BY <1>13, <1>14, <1>15, <1>16 DEF Logged

\* A node that has given up its capacity and holds nothing in its view holds nothing at all.
LEMMA NothingHeld ==
  ASSUME Typed, Logged, NEW n \in Nodes, n \in state.members, n \in view[n].retired,
         Held(view[n], n) = {}
  PROVE  Held(state, n) = {}
<1>1. PICK h : IsPath(n, h)
  BY DEF Logged
<1>2. 0 \in 0 .. Len(pending[n])
  BY DEF Typed
<1>3. Before(view[n], state)
  BY <1>1, <1>2 DEF IsPath
<1> QED BY <1>3 DEF Before

\* New owners have capacity.
LEMMA AssignSound ==
  ASSUME Typed, NEW m \in SUBSET Nodes, NEW able \in SUBSET Nodes, able \cap (state.retired \cup m) = {},
         NEW f \in Layouts(able)
  PROVE  /\ [type |-> "assign", owner |-> f, retire |-> m] \in Entries
         /\ Sound(Step(state, [type |-> "assign", owner |-> f, retire |-> m]))
         /\ Step(state, [type |-> "assign", owner |-> f, retire |-> m]).holder = state.holder
<1> DEFINE e == [type |-> "assign", owner |-> f, retire |-> m]
<1>1. e \in Entries /\ e.type = "assign" /\ e.owner = f /\ e.retire = m
  BY EntriesAre
<1>2. f \in [Replica -> able] /\ state \in States
  BY DEF Layouts, Typed
<1> HIDE DEF e
<1>3. /\ Step(state, e).owner = f /\ Step(state, e).holder = state.holder
      /\ Step(state, e).retired = state.retired \cup m
  BY <1>1, <1>2, StepIs
<1>4. Sound(Step(state, e))
  <2>1. \A r \in Replica : f[r] \in able
    BY <1>2
  <2> QED BY <1>3, <2>1 DEF Sound
<1> QED BY <1>1, <1>3, <1>4 DEF e

\* Only an assignment changes owners, so that the other entries leave a sound state so.
LEMMA OtherSound ==
  ASSUME NEW s \in States, NEW e \in Entries, e.type # "assign", Sound(s)
  PROVE  Sound(Step(s, e))
BY StepIs DEF Sound

\* Removing a node that holds nothing, and taking a replica with all of the data, keep the
\* state whole.
LEMMA RemoveWhole ==
  ASSUME Typed, NEW n \in Nodes, Held(state, n) = {}, Whole(state, data)
  PROVE  Whole(Step(state, [type |-> "remove", node |-> n]), data)
<1> DEFINE e == [type |-> "remove", node |-> n]
<1>1. e \in Entries /\ e.type = "remove" /\ e.node = n
  BY EntriesAre
<1> HIDE DEF e
<1>2. \A r \in Replica : Step(state, e).holder[r] = state.holder[r]
  BY <1>1, StepIs DEF Held, Typed
<1>3. Whole(Step(state, e), data)
  BY <1>2 DEF Whole
<1> QED BY <1>3 DEF e

LEMMA TakeWhole ==
  ASSUME Typed, NEW e \in Takes, data[e.node] = AllChunks, Whole(state, data)
  PROVE  Whole(Step(state, e), data)
<1>1. e \in Entries /\ e.type = "take" /\ e.node \in Nodes
  BY DEF Takes, Entries
<1>2. \A r \in Replica : Step(state, e).holder[r] \in {state.holder[r], e.node}
  BY <1>1, StepIs DEF Typed
<1> QED BY <1>1, <1>2, TransferAssumption DEF Whole

\* RemoveSelf, once it is clear that the node holds nothing.
LEMMA RemoveLogged ==
  ASSUME Typed, Logged, NEW n \in Nodes, RemoveSelf(n), UNCHANGED <<view, data>>,
         Intact' => Intact, Intact' /\ n \in state.members => Held(state, n) = {}
  PROVE  Logged'
<1> DEFINE e == [type |-> "remove", node |-> n]
<1>1. CASE n \in state.members /\ Commit(e)
  <2>1. e \in Entries /\ e.type # "assign"
    BY EntriesAre
  <2>2. Intact' => Whole(Step(state, e), data)
    BY <1>1, RemoveWhole DEF Logged
  <2> HIDE DEF e
  <2>3. Sound(Step(state, e))
    BY <2>1, OtherSound DEF Logged, Typed
  <2> QED BY <1>1, <2>1, <2>2, <2>3, CommitLogged
<1>2. CASE UNCHANGED <<state, pending>>
  BY <1>2, LoggedKept DEF Typed
<1> QED BY <1>1, <1>2, RemoveSelfIs

LEMMA LoggedNext ==
  ASSUME Typed, Logged, Given, DownloadInv, [Next]_vars
  PROVE  Logged'
<1> USE DEF history, netVars
<1>1. Intact' => Intact
  BY IntactOnce
<1>2. Typed'
  BY TypedNext
<1>3. CASE Move
  <2>1. PICK f \in Layouts(state.members \ state.retired) :
          Commit([type |-> "assign", owner |-> f, retire |-> {}])
    BY <1>3 DEF Move
  <2> DEFINE e == [type |-> "assign", owner |-> f, retire |-> {}]
  <2>2. state.members \ state.retired \in SUBSET Nodes /\ {} \in SUBSET Nodes
    BY DEF Typed, States
  <2>3. e \in Entries /\ Sound(Step(state, e)) /\ Step(state, e).holder = state.holder
    BY <2>2, AssignSound
  <2> HIDE DEF e
  <2>4. Intact' => Whole(Step(state, e), data)
    BY <1>1, <2>3 DEF Logged, Whole
  <2>5. Commit(e) /\ UNCHANGED <<view, data>>
    BY <1>3, <2>1 DEF Move, e
  <2> QED BY <1>1, <2>3, <2>4, <2>5, CommitLogged
<1>4. CASE AddSite
  <2> DEFINE e == [type |-> "site"]
  <2>1. e \in Entries /\ e.type = "site"
    BY EntriesAre
  <2>2. Commit(e) /\ UNCHANGED <<view, data>>
    BY <1>4 DEF AddSite
  <2> HIDE DEF e
  <2>3. Step(state, e) = state
    BY <2>1, StepIs DEF Typed
  <2> QED BY <1>1, <2>1, <2>2, <2>3, CommitLogged DEF Logged
<1>5. ASSUME NEW n \in Nodes, Apply(n)
      PROVE  Logged'
  BY <1>1, <1>5, ApplyLogged
<1>6. ASSUME NEW n \in Nodes, GiveUpTokens(n)
      PROVE  Logged'
  <2>1. PICK f \in Layouts(state.members \ (state.retired \cup {n})) :
          Commit([type |-> "assign", owner |-> f, retire |-> {n}])
    BY <1>6 DEF GiveUpTokens
  <2> DEFINE e == [type |-> "assign", owner |-> f, retire |-> {n}]
             able == state.members \ (state.retired \cup {n})
  <2>2. able \in SUBSET Nodes /\ {n} \in SUBSET Nodes /\ able \cap (state.retired \cup {n}) = {}
    BY DEF Typed, States
  <2>3. e \in Entries /\ Sound(Step(state, e)) /\ Step(state, e).holder = state.holder
    BY <2>1, <2>2, AssignSound
  <2> HIDE DEF e
  <2>4. Intact' => Whole(Step(state, e), data)
    BY <1>1, <2>3 DEF Logged, Whole
  <2>5. Commit(e) /\ UNCHANGED <<view, data>>
    BY <1>6, <2>1 DEF GiveUpTokens, e
  <2> QED BY <1>1, <2>3, <2>4, <2>5, CommitLogged
<1>7. ASSUME NEW n \in Nodes, CheckHeld(n)
      PROVE  Logged'
  <2>1. CASE Held(view[n], n) = {}
    <3>1. n \in view[n].retired
      BY <1>7 DEF CheckHeld, Given, GaveUpPhases
    <3>2. RemoveSelf(n) /\ UNCHANGED <<view, data>>
      BY <1>7, <2>1 DEF CheckHeld
    <3> QED BY <1>1, <2>1, <3>1, <3>2, NothingHeld, RemoveLogged
  <2>2. CASE Held(view[n], n) # {}
    BY <1>1, <1>2, <1>7, <2>2, LoggedKept DEF CheckHeld, Typed
  <2> QED BY <2>1, <2>2
<1>8. ASSUME NEW n \in Nodes, ReceiveEmpty(n)
      PROVE  Logged'
  <2>1. Intact' => Held(state, n) = {}
    BY <1>8 DEF ReceiveEmpty, Intact
  <2>2. RemoveSelf(n) /\ UNCHANGED <<view, data>>
    BY <1>8 DEF ReceiveEmpty
  <2> QED BY <1>1, <2>1, <2>2, RemoveLogged
<1>9. ASSUME NEW e \in wire, CommitTake(e)
      PROVE  Logged'
  <2>1. e \in Takes /\ e \in Entries /\ e.type # "assign"
    BY EntriesAre DEF Typed, Takes
  <2>2. Intact' => Whole(Step(state, e), data)
    BY <1>1, <2>1, TakeWhole DEF Logged, DownloadInv
  <2>3. Sound(Step(state, e))
    BY <2>1, OtherSound DEF Logged, Typed
  <2> QED BY <1>1, <1>9, <2>1, <2>2, <2>3, CommitLogged DEF CommitTake
<1>10. CASE UNCHANGED <<state, pending, view>> /\ \A m \in Nodes : data[m] \subseteq data'[m]
  BY <1>1, <1>2, <1>10, LoggedKept DEF Typed
<1>11. ASSUME NEW n \in Nodes
       PROVE  /\ ChoosePartner(n) \/ StreamEnd(n) \/ StreamError(n) \/ SenderError(n) \/ Crash(n)
                   \/ LeaveCluster(n) => UNCHANGED <<state, pending, view, data>>
              /\ \A r \in Replica : Propose(n, r) \/ Retry(n, r) => UNCHANGED <<state, pending, view, data>>
              /\ \A r \in Replica : GetHeld(n, r) \/ EnableHeld(n, r) => UNCHANGED <<state, pending, view, data>>
              /\ StopAllTransfers(n) => UNCHANGED <<state, pending, view, data>>
              /\ \A e \in wire : LoseTake(e) => UNCHANGED <<state, pending, view, data>>
              /\ UNCHANGED vars => UNCHANGED <<state, pending, view, data>>
  BY DEF ChoosePartner, StreamEnd, StreamError, SenderError, Crash, LeaveCluster, Propose, Retry,
         GetHeld, EnableHeld, StopAllTransfers, LoseTake, vars
<1>12. ASSUME NEW n \in Nodes, Chunk(n) \/ \E g \in cancelled[n] : CancelledChunk(n, g)
       PROVE  UNCHANGED <<state, pending, view>> /\ \A m \in Nodes : data[m] \subseteq data'[m]
  <2>1. CASE Chunk(n)
    <3>1. UNCHANGED <<state, pending, view>> /\ data' = [data EXCEPT ![n] = data[n] \cup NextChunk(n)]
      BY <2>1 DEF Chunk
    <3> QED BY <3>1 DEF Typed
  <2>2. ASSUME NEW g \in cancelled[n], CancelledChunk(n, g)
        PROVE  UNCHANGED <<state, pending, view>> /\ \A m \in Nodes : data[m] \subseteq data'[m]
    BY <2>2, CancelledIs
  <2> QED BY <1>12, <2>1, <2>2
<1> QED
  <2>1. UNCHANGED <<state, pending, view, data>> => Logged'
    BY <1>10
  <2>2. \A e \in wire : LoseTake(e) => UNCHANGED <<state, pending, view, data>>
    BY DEF LoseTake
  <2>3. UNCHANGED vars => UNCHANGED <<state, pending, view, data>>
    BY DEF vars
  <2> QED BY <1>3, <1>4, <1>5, <1>6, <1>7, <1>8, <1>9, <1>10, <1>11, <1>12, <2>1, <2>2, <2>3
          DEF Next, Progress, Environment

LEMMA GivenNext ==
  ASSUME Typed, Given, [Next]_vars
  PROVE  Given'
<1> USE DEF history, netVars
<1>1. CASE UNCHANGED view /\ \A n \in Nodes : leaving'[n] \in GaveUpPhases => leaving[n] \in GaveUpPhases
  BY <1>1 DEF Given
<1>2. ASSUME NEW n \in Nodes, Apply(n)
      PROVE  Given'
  <2>1. PICK e \in Entries, v \in States, P \in [Replica -> Proposals], D \in Downloads,
             C \in SUBSET Stragglers, Q \in [Replica -> Proposals], F \in Downloads :
          Applies(n, e, v, P, D, C, Q, F)
    BY <1>2, ApplyIs
  <2>2. /\ view'[n] = v /\ v = Step(view[n], e)
        /\ leaving'[n] = CASE GaveUp(n, e) -> "given"
                           [] e.type = "remove" /\ e.node = n -> "left"
                           [] OTHER -> leaving[n]
        /\ \A m \in Nodes \ {n} : view'[m] = view[m] /\ leaving'[m] = leaving[m]
    BY <2>1 DEF Applies, Typed
  <2>3. PICK s \in States : s = view[n]
    BY DEF Typed
  <2>4. GaveUp(n, e) => n \in v.retired
    <3>1. GaveUp(n, e) => e.type = "assign" /\ e.retire = {n}
      BY DEF GaveUp
    <3> QED BY <2>2, <2>3, <3>1, StepIs
  <2>5. leaving[n] \in GaveUpPhases => n \in v.retired
    <3>1. s.retired \subseteq v.retired
      BY <2>2, <2>3, StepIs
    <3> QED BY <2>3, <3>1 DEF Given
  <2>6. leaving'[n] \in GaveUpPhases => n \in v.retired
    BY <2>2, <2>4, <2>5 DEF GaveUpPhases, Locking
  <2> QED BY <2>2, <2>6 DEF Given
<1>3. ASSUME NEW n \in Nodes, Restart(n), UNCHANGED view
      PROVE  Given'
  <2>1. leaving' = [leaving EXCEPT ![n] = CASE leaving[n] \in {"no", "left"} -> leaving[n]
                                            [] n \in view[n].retired -> "given"
                                            [] OTHER -> "asked"]
    BY <1>3, RestartIs DEF Restarts
  <2>2. leaving'[n] \in GaveUpPhases => n \in view[n].retired
    BY <2>1 DEF Typed, GaveUpPhases, Locking
  <2>3. \A m \in Nodes \ {n} : leaving'[m] = leaving[m]
    BY <2>1 DEF Typed
  <2> QED BY <1>3, <2>2, <2>3 DEF Given
<1>4. ASSUME NEW n \in Nodes,
             \/ GiveUpTokens(n) \/ StopAllTransfers(n) \/ CheckHeld(n) \/ ReceiveEmpty(n) \/ LeaveCluster(n)
             \/ \E r \in Replica : GetHeld(n, r) \/ EnableHeld(n, r)
      PROVE  Given'
  <2>1. /\ UNCHANGED view
        /\ \E l : /\ leaving' = [leaving EXCEPT ![n] = l]
                  /\ l \in GaveUpPhases => leaving[n] \in GaveUpPhases
    BY <1>4 DEF GiveUpTokens, StopAllTransfers, CheckHeld, ReceiveEmpty, LeaveCluster, RemoveSelf, GetHeld,
                EnableHeld, LockNext, GaveUpPhases, Locking
  <2> QED BY <1>1, <2>1 DEF Typed
<1>5. ASSUME NEW n \in Nodes
      PROVE  /\ ChoosePartner(n) \/ StreamEnd(n) \/ StreamError(n) \/ SenderError(n) \/ Chunk(n)
                  => UNCHANGED <<view, leaving>>
             /\ \A r \in Replica : Propose(n, r) \/ Retry(n, r) => UNCHANGED <<view, leaving>>
             /\ \A g \in cancelled[n] : CancelledChunk(n, g) =>
                  UNCHANGED <<view, leaving>> \/ (UNCHANGED view /\ Restart(n))
             /\ Crash(n) => UNCHANGED view /\ Restart(n)
  BY CancelledIs DEF ChoosePartner, StreamEnd, StreamError, SenderError, Chunk, Crash, Propose, Retry
<1>6. /\ Move \/ AddSite => UNCHANGED <<view, leaving>>
      /\ \A e \in wire : LoseTake(e) \/ CommitTake(e) => UNCHANGED <<view, leaving>>
      /\ UNCHANGED vars => UNCHANGED <<view, leaving>>
  BY DEF Move, AddSite, LoseTake, CommitTake, vars
<1>7. UNCHANGED <<view, leaving>> => Given'
  BY <1>1
<1> QED BY <1>2, <1>3, <1>4, <1>5, <1>6, <1>7 DEF Next, Progress, Environment

-----------------------------------------------------------------------------
(* The data *)

\* The part of DownloadInv about one node.
Loaded(n) ==
  /\ download[n].at = "stream" => /\ data[download[n].from] = AllChunks
                                  /\ 1 .. download[n].next - 1 \subseteq data[n]
  /\ download[n].at = "done" => data[n] = AllChunks
  /\ \A r \in Replica : proposal[n][r].at \in {"ready", "sent"} => data[n] = AllChunks

\* Nothing is lost when data grows and when a stream or a proposal stays or is gone.
LEMMA LoadedKept ==
  ASSUME Typed, NEW n \in Nodes, Loaded(n),
         data' \in [Nodes -> SUBSET AllChunks], \A m \in Nodes : data[m] \subseteq data'[m],
         \/ download'[n].at \in {"none", "choose"}
         \/ /\ download'[n].at = download[n].at /\ download'[n].from = download[n].from
            /\ download'[n].next = download[n].next,
         \A r \in Replica : proposal'[n][r].at \in {"ready", "sent"} => proposal[n][r].at \in {"ready", "sent"}
  PROVE  Loaded(n)'
<1>1. \A m \in Nodes : data[m] = AllChunks => data'[m] = AllChunks
  <2>1. \A m \in Nodes : data'[m] \in SUBSET AllChunks
    OBVIOUS
  <2>2. \A m \in Nodes : data'[m] \subseteq AllChunks
    BY <2>1
  <2>3. \A m \in Nodes : data[m] \subseteq data'[m]
    OBVIOUS
  <2> QED BY <2>2, <2>3, Zenon
<1>2. download[n].at = "stream" => download[n].from \in Nodes
  BY DEF Typed, Downloads
<1>3. PICK x \in SUBSET AllChunks : data[n] = x
  BY DEF Typed
<1>4. PICK y : data'[n] = y
  OBVIOUS
<1>5. x \subseteq y
  BY <1>3, <1>4
<1> QED BY <1>1, <1>2, <1>3, <1>4, <1>5 DEF Loaded

\* A node that starts transfers without a download holds the partition.
LEMMA HolderLoaded ==
  ASSUME NEW n \in Nodes, NEW s, Held(s, n) # {}, Whole(s, data)
  PROVE  data[n] = AllChunks
BY TransferAssumption DEF Held, Whole

LEMMA ViewWhole ==
  ASSUME Typed, Logged, Intact, NEW n \in Nodes
  PROVE  Whole(view[n], data)
<1>1. PICK h : IsPath(n, h)
  BY DEF Logged
<1>2. 0 \in 0 .. Len(pending[n])
  BY DEF Typed
<1> QED BY <1>1, <1>2 DEF IsPath

LEMMA ApplyLoaded ==
  ASSUME Typed, Logged, Intact, Intact', \A m \in Nodes : Loaded(m), NEW n \in Nodes, Apply(n)
  PROVE  \A m \in Nodes : Loaded(m)'
<1>1. PICK e \in Entries, v \in States, P \in [Replica -> Proposals], D \in Downloads,
           C \in SUBSET Stragglers, Q \in [Replica -> Proposals], F \in Downloads :
        Applies(n, e, v, P, D, C, Q, F)
  BY ApplyIs
<1>2. data' = data /\ view'[n] = v
  BY <1>1 DEF Applies, Typed
<1>3. Whole(v, data)
  BY <1>2, ApplyLogged
<1>4. \A m \in Nodes : /\ download'[m].at = IF m = n THEN F.at ELSE download[m].at
                       /\ download'[m].from = IF m = n THEN F.from ELSE download[m].from
                       /\ download'[m].next = IF m = n THEN F.next ELSE download[m].next
  <2> DEFINE dl == [download EXCEPT ![n] = F]
  <2>1. dl \in [Nodes -> Downloads] /\ \A m \in Nodes : dl[m] = IF m = n THEN F ELSE download[m]
    BY DEF Typed
  <2>2. download' = dl \/ download' = CutStreams(dl, n)
    BY <1>1 DEF Applies
  <2> HIDE DEF dl
  <2> QED BY <2>1, <2>2, CutStreamsIs
<1>5. ASSUME NEW m \in Nodes, m # n
      PROVE  Loaded(m)'
  <2>1. proposal'[m] = proposal[m]
    BY <1>1, <1>5 DEF Applies, Typed
  <2>2. data' \in [Nodes -> SUBSET AllChunks] /\ \A x \in Nodes : data[x] \subseteq data'[x]
    BY <1>2 DEF Typed
  <2>3. /\ download'[m].at = download[m].at /\ download'[m].from = download[m].from
        /\ download'[m].next = download[m].next
    BY <1>4, <1>5
  <2> QED BY <2>1, <2>2, <2>3, LoadedKept
<1>6. F.at \in {"none", "choose"} \/ F = download[n]
  BY <1>1, DownloadsAre DEF Applies, Started
<1>7. ASSUME NEW r \in Replica, Q[r].at \in {"ready", "sent"}
      PROVE  data[n] = AllChunks
  <2> DEFINE lost == Owned(view[n], n) \ Owned(v, n)
             gained == Owned(v, n) \ Owned(view[n], n)
  <2>1. /\ r \in lost => P[r].at = "none"
        /\ r \notin lost => P[r] = proposal[n][r]
        /\ Started(P, D, Held(v, n) # {}, gained, Q, F)
    BY <1>1 DEF Applies
  <2> HIDE DEF lost, gained
  <2>2. CASE r \in gained
    <3>1. Held(v, n) # {}
      BY <1>7, <2>1, <2>2 DEF Started
    <3> QED BY <1>3, <3>1, HolderLoaded
  <2>3. CASE r \notin gained
    <3>1. P[r].at \in {"ready", "sent"}
      BY <1>7, <2>1, <2>3 DEF Started
    <3>2. proposal[n][r].at \in {"ready", "sent"}
      BY <2>1, <3>1
    <3> QED BY <3>2 DEF Loaded
  <2> QED BY <2>2, <2>3
<1>8. ASSUME NEW r \in Replica, proposal'[n][r].at \in {"ready", "sent"}
      PROVE  data[n] = AllChunks
  <2> DEFINE R == IF Answered(n, e) THEN [Q EXCEPT ![e.replica] = Gone(Q[e.replica])] ELSE Q
  <2>1. proposal' = [proposal EXCEPT ![n] = R]
    BY <1>1 DEF Applies
  <2>2. R[r] = Q[r] \/ R[r] = Gone(Q[r])
    OBVIOUS
  <2> HIDE DEF R
  <2>3. proposal'[n][r] = Q[r] \/ proposal'[n][r] = Gone(Q[r])
    BY <2>1, <2>2 DEF Typed
  <2>4. Q[r].at \in {"ready", "sent"}
    BY <1>8, <2>3, GoneIs
  <2> QED BY <1>7, <2>4
<1>9. Loaded(n)'
  <2>1. CASE F.at \in {"none", "choose"}
    BY <1>2, <1>4, <1>8, <2>1 DEF Loaded
  <2>2. CASE F = download[n]
    <3>1. /\ download'[n].at = F.at /\ download'[n].from = F.from /\ download'[n].next = F.next
      BY <1>4
    <3>2. /\ F.at = "stream" => data[F.from] = AllChunks /\ 1 .. F.next - 1 \subseteq data[n]
          /\ F.at = "done" => data[n] = AllChunks
      BY <2>2 DEF Loaded
    <3> QED BY <1>2, <1>8, <3>1, <3>2 DEF Loaded
  <2> QED BY <1>6, <2>1, <2>2
<1> QED BY <1>5, <1>9

LEMMA RestartLoaded ==
  ASSUME Typed, Logged, Intact, \A m \in Nodes : Loaded(m), NEW n \in Nodes, Restart(n),
         UNCHANGED data
  PROVE  \A m \in Nodes : Loaded(m)'
<1>1. PICK Q \in [Replica -> Proposals], F \in Downloads : Restarts(n, Q, F)
  BY RestartIs
<1>2. data' \in [Nodes -> SUBSET AllChunks] /\ \A x \in Nodes : data[x] \subseteq data'[x]
  BY DEF Typed
<1>3. ASSUME NEW m \in Nodes, m # n
      PROVE  Loaded(m)'
  <2>1. proposal'[m] = proposal[m]
    BY <1>1, <1>3 DEF Restarts, Typed
  <2>2. download'[m] = download[m] \/ download'[m].at = "choose"
    BY <1>1, <1>3, DownloadsAre DEF Restarts
  <2> QED BY <1>2, <2>1, <2>2, LoadedKept
<1>4. Loaded(n)'
  <2>1. proposal'[n] = Q /\ download'[n] = F /\ F.at \in {"none", "choose"}
    BY <1>1, DownloadsAre DEF Restarts, Typed
  <2>2. ASSUME NEW r \in Replica, Q[r].at \in {"ready", "sent"}
        PROVE  data[n] = AllChunks
    <3>1. Held(view[n], n) # {}
      BY <1>1, <2>2 DEF Restarts
    <3> QED BY <3>1, ViewWhole, HolderLoaded
  <2> QED BY <2>1, <2>2 DEF Loaded
<1> QED BY <1>3, <1>4

LEMMA ChooseLoaded ==
  ASSUME Typed, Logged, Intact, \A m \in Nodes : Loaded(m), NEW n \in Nodes, ChoosePartner(n)
  PROVE  \A m \in Nodes : Loaded(m)'
<1>1. UNCHANGED <<data, proposal>> /\ Whole(view[n], data)
  BY ViewWhole DEF ChoosePartner
<1>2. PICK d : /\ download' = [download EXCEPT ![n] = d]
               /\ \/ d.at = "done" /\ data[n] = AllChunks
                  \/ d.at = "stream" /\ data[d.from] = AllChunks /\ d.next = 1
  <2>1. CASE Partners(n) = {} /\ download' = [download EXCEPT ![n] = Done]
    <3>1. PICK r \in Replica : TRUE
      BY TransferAssumption
    <3>2. view[n].holder[r] = None
      BY <2>1 DEF Partners
    <3> QED BY <1>1, <2>1, <3>2, DownloadsAre DEF Whole
  <2>2. ASSUME NEW p \in Partners(n), download' = [download EXCEPT ![n] = Get(p)]
        PROVE  \E d : /\ download' = [download EXCEPT ![n] = d]
                      /\ d.at = "stream" /\ data[d.from] = AllChunks /\ d.next = 1
    <3>1. p \in Nodes /\ \E r \in Replica : view[n].holder[r] = p /\ p # None
      BY DEF Partners, Typed, States
    <3>2. data[p] = AllChunks
      BY <1>1, <3>1 DEF Whole
    <3> QED BY <2>2, <3>1, <3>2, DownloadsAre
  <2> QED BY <2>1, <2>2 DEF ChoosePartner
<1>3. ASSUME NEW m \in Nodes, m # n
      PROVE  Loaded(m)'
  <2>1. download'[m] = download[m]
    BY <1>2, <1>3 DEF Typed
  <2> QED BY <1>1, <2>1, LoadedKept DEF Typed
<1>4. Loaded(n)'
  <2>1. download'[n] = d
    BY <1>2 DEF Typed
  <2>2. 1 .. 1 - 1 = {}
    OBVIOUS
  <2>3. \A r \in Replica : proposal'[n][r].at \in {"ready", "sent"} => data[n] = AllChunks
    BY <1>1 DEF Loaded
  <2>4. d.at = "stream" => 1 .. d.next - 1 \subseteq data[n]
    BY <1>2, <2>2
  <2> QED BY <1>1, <1>2, <2>1, <2>3, <2>4 DEF Loaded
<1> QED BY <1>3, <1>4

LEMMA ChunkLoaded ==
  ASSUME Typed, \A m \in Nodes : Loaded(m), NEW n \in Nodes, Chunk(n), Typed'
  PROVE  \A m \in Nodes : Loaded(m)'
<1>1. PICK d \in Downloads : d = download[n]
  BY DEF Typed
<1>2. /\ d.at = "stream" /\ d.next # Chunks + 1 /\ UNCHANGED proposal
      /\ download' = [download EXCEPT ![n] = [d EXCEPT !.next = d.next + 1]]
      /\ data' = [data EXCEPT ![n] = data[n] \cup ({d.next} \cap data[d.from])]
  BY <1>1 DEF Chunk, ResponseOver, NextChunk
<1>3. d.next \in Nat /\ d.next <= Chunks /\ Chunks \in Nat
  <2>1. d.next \in Nat /\ d.next <= Chunks + 1
    BY DownloadFields
  <2>2. Chunks \in Nat
    BY TransferAssumption
  <2> QED BY <1>2, <2>1, <2>2
<1>4. d.next \in 0 .. Chunks
  BY <1>3
<1>5. \A m \in Nodes : data[m] \subseteq data'[m]
  BY <1>2 DEF Typed
<1>6. ASSUME NEW m \in Nodes, m # n
      PROVE  Loaded(m)'
  <2>1. download'[m] = download[m]
    BY <1>2, <1>6 DEF Typed
  <2> QED BY <1>2, <1>5, <2>1, LoadedKept DEF Typed
<1>7. Loaded(n)'
  <2>1. /\ download'[n].at = "stream" /\ download'[n].from = d.from /\ download'[n].next = d.next + 1
    BY <1>2, <1>4, DownloadFields DEF Typed
  <2>2. data[d.from] = AllChunks /\ 1 .. d.next - 1 \subseteq data[n] /\ d.from \in Nodes
    BY <1>1, <1>2 DEF Loaded, Downloads
  <2>3. data'[d.from] = AllChunks
    <3>1. data'[d.from] \subseteq AllChunks /\ data[d.from] \subseteq data'[d.from]
      BY <1>5, <2>2 DEF Typed
    <3> QED BY <2>2, <3>1
  <2>4. 1 .. (d.next + 1) - 1 \subseteq data'[n]
    <3>1. data'[n] = data[n] \cup ({d.next} \cap AllChunks)
      BY <1>2, <2>2 DEF Typed
    <3>2. ASSUME NEW i \in 1 .. (d.next + 1) - 1
          PROVE  i \in 1 .. d.next - 1 \/ (i = d.next /\ i \in AllChunks)
      BY <1>3 DEF AllChunks
    <3> QED BY <2>2, <3>1, <3>2
  <2>5. \A r \in Replica : proposal'[n][r].at \in {"ready", "sent"} => data'[n] = AllChunks
    <3>1. ASSUME data[n] = AllChunks
          PROVE  data'[n] = AllChunks
      <4>1. data'[n] \subseteq AllChunks /\ data[n] \subseteq data'[n]
        BY <1>5 DEF Typed
      <4> QED BY <3>1, <4>1
    <3> QED BY <1>2, <3>1 DEF Loaded
  <2> QED BY <2>1, <2>3, <2>4, <2>5 DEF Loaded
<1> QED BY <1>6, <1>7

LEMMA StreamEndLoaded ==
  ASSUME Typed, Intact', \A m \in Nodes : Loaded(m), NEW n \in Nodes, StreamEnd(n)
  PROVE  \A m \in Nodes : Loaded(m)'
<1>1. /\ download' = [download EXCEPT ![n] = Done] /\ UNCHANGED <<data, proposal>>
      /\ download[n].at = "stream" /\ ResponseOver(n)
      /\ ~(download[n].cut /\ download[n].next # Chunks + 1)
  BY DEF StreamEnd, Intact
<1>2. download[n].next = Chunks + 1
  BY <1>1 DEF ResponseOver
<1>3. data[n] = AllChunks
  <2>1. 1 .. (Chunks + 1) - 1 \subseteq data[n]
    BY <1>1, <1>2 DEF Loaded
  <2>2. (Chunks + 1) - 1 = Chunks
    BY TransferAssumption
  <2>3. data[n] \subseteq 1 .. Chunks
    BY DEF Typed, AllChunks
  <2> QED BY <2>1, <2>2, <2>3 DEF AllChunks
<1>4. ASSUME NEW m \in Nodes, m # n
      PROVE  Loaded(m)'
  <2>1. download'[m] = download[m]
    BY <1>1, <1>4 DEF Typed
  <2> QED BY <1>1, <2>1, LoadedKept DEF Typed
<1>5. Loaded(n)'
  <2>1. download'[n].at = "done"
    BY <1>1, DownloadsAre DEF Typed
  <2> QED BY <1>1, <1>3, <2>1 DEF Loaded
<1> QED BY <1>4, <1>5

LEMMA ProposeLoaded ==
  ASSUME Typed, \A m \in Nodes : Loaded(m), NEW n \in Nodes, NEW r \in Replica, Propose(n, r)
  PROVE  data[n] = AllChunks /\ \A m \in Nodes : Loaded(m)'
<1>1. data[n] = AllChunks
  BY DEF Propose, Loaded
<1>2. UNCHANGED <<data, download>>
  BY DEF Propose
<1>3. \A m \in Nodes \ {n} : proposal'[m] = proposal[m]
  BY DEF Propose, Typed
<1>4. ASSUME NEW m \in Nodes, m # n
      PROVE  Loaded(m)'
  <2>1. proposal'[m] = proposal[m]
    BY <1>3, <1>4
  <2> QED BY <1>2, <2>1, LoadedKept DEF Typed
<1>5. Loaded(n)'
  BY <1>1, <1>2 DEF Loaded
<1> QED BY <1>1, <1>4, <1>5

LEMMA LoadedNext ==
  ASSUME Typed, Logged, Intact, Intact', \A m \in Nodes : Loaded(m), [Next]_vars
  PROVE  \A m \in Nodes : Loaded(m)'
<1> USE DEF history, netVars
<1>1. Typed'
  BY TypedNext
<1>2. ASSUME UNCHANGED <<download, proposal>>, \A m \in Nodes : data[m] \subseteq data'[m]
      PROVE  \A m \in Nodes : Loaded(m)'
  <2> TAKE m \in Nodes
  <2> QED BY <1>1, <1>2, LoadedKept DEF Typed
<1>3. ASSUME UNCHANGED <<data, download, proposal>>
      PROVE  \A m \in Nodes : Loaded(m)'
  BY <1>2, <1>3
<1>4. ASSUME NEW n \in Nodes, StreamError(n) \/ SenderError(n)
      PROVE  \A m \in Nodes : Loaded(m)'
  <2>1. /\ UNCHANGED <<data, proposal>>
        /\ \/ download' = [download EXCEPT ![n] = Choosing]
           \/ download' = [download EXCEPT ![n] = [download[n] EXCEPT !.cut = TRUE]]
    BY <1>4 DEF StreamError, SenderError
  <2> TAKE m \in Nodes
  <2>2. \/ download'[m].at \in {"none", "choose"}
        \/ /\ download'[m].at = download[m].at /\ download'[m].from = download[m].from
           /\ download'[m].next = download[m].next
    <3> DEFINE d == [download[n] EXCEPT !.cut = TRUE]
    <3>1. d.at = download[n].at /\ d.from = download[n].from /\ d.next = download[n].next
      BY DownloadFields DEF Typed
    <3> HIDE DEF d
    <3>2. CASE download' = [download EXCEPT ![n] = Choosing]
      BY <3>2, DownloadsAre DEF Typed
    <3>3. CASE download' = [download EXCEPT ![n] = d]
      BY <3>1, <3>3 DEF Typed
    <3> QED BY <2>1, <3>2, <3>3 DEF d
  <2> QED BY <2>1, <2>2, LoadedKept DEF Typed
<1>5. ASSUME NEW n \in Nodes, NEW g \in cancelled[n], CancelledChunk(n, g)
      PROVE  \A m \in Nodes : Loaded(m)'
  <2>1. CASE Restart(n) /\ UNCHANGED data
    BY <2>1, RestartLoaded
  <2>2. CASE UNCHANGED <<download, proposal>> /\ \A m \in Nodes : data[m] \subseteq data'[m]
    BY <1>2, <2>2
  <2> QED BY <1>5, <2>1, <2>2, CancelledIs
<1>9. ASSUME NEW n \in Nodes, StopAllTransfers(n)
      PROVE  \A m \in Nodes : Loaded(m)'
  <2>1. PICK P \in [Replica -> Proposals], D \in Downloads, C \in SUBSET Stragglers :
          /\ \A r \in Replica : P[r].at = "none"
          /\ D = download[n] \/ D.at = "none"
          /\ proposal' = [proposal EXCEPT ![n] = P] /\ download' = [download EXCEPT ![n] = D]
          /\ cancelled' = [cancelled EXCEPT ![n] = C]
    BY <1>9, StopAllIs, Zenon
  <2>2. UNCHANGED data
    BY <1>9 DEF StopAllTransfers
  <2> TAKE m \in Nodes
  <2>3. download'[m] = download[m] \/ download'[m].at = "none"
    BY <2>1 DEF Typed
  <2>4. \A r \in Replica : proposal'[m][r].at = "none" \/ proposal'[m][r] = proposal[m][r]
    BY <2>1 DEF Typed
  <2> QED BY <2>2, <2>3, <2>4, LoadedKept DEF Typed
<1>6. ASSUME NEW n \in Nodes
      PROVE  /\ GiveUpTokens(n) \/ CheckHeld(n) \/ ReceiveEmpty(n) \/ LeaveCluster(n)
                  => UNCHANGED <<data, download, proposal>>
             /\ \A r \in Replica : Retry(n, r) \/ GetHeld(n, r) \/ EnableHeld(n, r)
                  => UNCHANGED <<data, download, proposal>>
             /\ Crash(n) => Restart(n) /\ UNCHANGED data
  BY DEF GiveUpTokens, CheckHeld, ReceiveEmpty, LeaveCluster, Retry, GetHeld, EnableHeld, Crash
<1>7. /\ Move \/ AddSite => UNCHANGED <<data, download, proposal>>
      /\ \A e \in wire : LoseTake(e) \/ CommitTake(e) => UNCHANGED <<data, download, proposal>>
      /\ UNCHANGED vars => UNCHANGED <<data, download, proposal>>
  BY DEF Move, AddSite, LoseTake, CommitTake, vars
<1>8. ASSUME NEW n \in Nodes, Crash(n)
      PROVE  \A m \in Nodes : Loaded(m)'
  BY <1>6, <1>8, RestartLoaded
<1> QED BY <1>1, <1>3, <1>4, <1>5, <1>6, <1>7, <1>8, <1>9, ApplyLoaded, ChooseLoaded, ChunkLoaded,
           StreamEndLoaded, ProposeLoaded DEF Next, Progress, Environment

LEMMA DownloadNext ==
  ASSUME Typed, Logged, DownloadInv, [Next]_vars
  PROVE  DownloadInv'
<1> USE DEF history, netVars
<1>1. SUFFICES ASSUME Intact'
               PROVE  /\ \A m \in Nodes : Loaded(m)'
                      /\ \A e \in wire' : data'[e.node] = AllChunks
  BY DEF DownloadInv, Loaded
<1>2. Intact /\ (\A m \in Nodes : Loaded(m)) /\ \A e \in wire : data[e.node] = AllChunks
  BY <1>1, IntactOnce DEF DownloadInv, Loaded
<1>3. \A m \in Nodes : Loaded(m)'
  BY <1>1, <1>2, LoadedNext
<1>4. Typed'
  BY TypedNext
<1>5. \A m \in Nodes : data[m] \subseteq data'[m]
  <2>1. ASSUME NEW n \in Nodes, Chunk(n) \/ \E g \in cancelled[n] : CancelledChunk(n, g)
        PROVE  \A m \in Nodes : data[m] \subseteq data'[m]
    <3>1. CASE Chunk(n)
      <4>1. data' = [data EXCEPT ![n] = data[n] \cup NextChunk(n)]
        BY <3>1 DEF Chunk
      <4> QED BY <4>1 DEF Typed
    <3>2. ASSUME NEW g \in cancelled[n], CancelledChunk(n, g)
          PROVE  \A m \in Nodes : data[m] \subseteq data'[m]
      BY <3>2, CancelledIs
    <3> QED BY <2>1, <3>1, <3>2
  <2>2. ASSUME NEW n \in Nodes
        PROVE  /\ Apply(n) \/ ChoosePartner(n) \/ StreamEnd(n) \/ GiveUpTokens(n) \/ CheckHeld(n)
                    \/ ReceiveEmpty(n) \/ StreamError(n) \/ SenderError(n) \/ Crash(n)
                    \/ LeaveCluster(n) => UNCHANGED data
               /\ \A r \in Replica : Propose(n, r) \/ Retry(n, r) => UNCHANGED data
               /\ \A r \in Replica : GetHeld(n, r) \/ EnableHeld(n, r) => UNCHANGED data
               /\ StopAllTransfers(n) => UNCHANGED data
    BY DEF Apply, ChoosePartner, StreamEnd, GiveUpTokens, CheckHeld, ReceiveEmpty, StreamError,
           SenderError, Crash, LeaveCluster, Propose, Retry, GetHeld, EnableHeld, StopAllTransfers
  <2>3. /\ Move \/ AddSite => UNCHANGED data
        /\ \A e \in wire : CommitTake(e) \/ LoseTake(e) => UNCHANGED data
        /\ UNCHANGED vars => UNCHANGED data
    BY DEF Move, AddSite, CommitTake, LoseTake, vars
  <2> QED BY <2>1, <2>2, <2>3 DEF Next, Progress, Environment
<1>6. \A m \in Nodes : data[m] = AllChunks => data'[m] = AllChunks
  <2>1. \A m \in Nodes : data'[m] \subseteq AllChunks
    BY <1>4 DEF Typed
  <2> QED BY <1>5, <2>1, Zenon
<1>7. ASSUME NEW n \in Nodes, NEW r \in Replica, Propose(n, r) \/ Retry(n, r)
      PROVE  wire' = wire \cup {Take(n, r)} /\ data[n] = AllChunks
  <2>1. Retry(n, r) => data[n] = AllChunks
    BY <1>2 DEF Retry, Loaded
  <2>2. wire' = wire \cup {Take(n, r)}
    BY <1>7 DEF Propose, Retry
  <2> QED BY <1>2, <1>7, <2>1, <2>2, ProposeLoaded
<1>8. \/ wire' \subseteq wire
      \/ \E n \in Nodes, r \in Replica : wire' = wire \cup {Take(n, r)} /\ data[n] = AllChunks
  <2>1. ASSUME NEW n \in Nodes
        PROVE  /\ Apply(n) \/ ChoosePartner(n) \/ Chunk(n) \/ StreamEnd(n) \/ GiveUpTokens(n)
                    \/ CheckHeld(n) \/ ReceiveEmpty(n) \/ StreamError(n) \/ SenderError(n)
                    \/ Crash(n) \/ LeaveCluster(n) => UNCHANGED wire
               /\ \A g \in cancelled[n] : CancelledChunk(n, g) => UNCHANGED wire
               /\ \A r \in Replica : GetHeld(n, r) \/ EnableHeld(n, r) => UNCHANGED wire
               /\ StopAllTransfers(n) => UNCHANGED wire
    BY DEF Apply, ChoosePartner, Chunk, StreamEnd, GiveUpTokens, CheckHeld, ReceiveEmpty, StreamError,
           SenderError, Crash, LeaveCluster, CancelledChunk, GetHeld, EnableHeld, StopAllTransfers
  <2>2. /\ Move \/ AddSite => UNCHANGED wire
        /\ \A e \in wire : CommitTake(e) \/ LoseTake(e) => wire' \subseteq wire
        /\ UNCHANGED vars => UNCHANGED wire
    BY DEF Move, AddSite, CommitTake, LoseTake, vars
  <2> QED BY <1>7, <2>1, <2>2 DEF Next, Progress, Environment
<1>9. \A e \in wire' : data'[e.node] = AllChunks
  <2>1. CASE wire' \subseteq wire
    <3>1. \A e \in wire : e.node \in Nodes
      BY DEF Typed, Takes
    <3> QED BY <1>2, <1>6, <2>1, <3>1
  <2>2. ASSUME NEW n \in Nodes, NEW r \in Replica, wire' = wire \cup {Take(n, r)}, data[n] = AllChunks
        PROVE  \A e \in wire' : data'[e.node] = AllChunks
    <3>1. Take(n, r).node = n /\ \A e \in wire : e.node \in Nodes
      BY DEF Take, Typed, Takes
    <3> QED BY <1>2, <1>6, <2>2, <3>1
  <2> QED BY <1>8, <2>1, <2>2
<1> QED BY <1>3, <1>9

-----------------------------------------------------------------------------
(* The theorems *)

LEMMA InitInv == Init => IInv
<1> SUFFICES ASSUME Init
             PROVE  IInv
  OBVIOUS
<1> DEFINE owners == {FirstOwner[r] : r \in Replica}
           first(settled) == [at |-> IF settled THEN "none" ELSE "waiting", id |-> 1]
<1>1. PICK settled \in BOOLEAN :
        /\ state = [owner |-> FirstOwner, members |-> Nodes, retired |-> {},
                    holder |-> [r \in Replica |-> IF settled THEN FirstOwner[r] ELSE None]]
        /\ pending = [n \in Nodes |-> <<>>]
        /\ view = [n \in Nodes |-> state]
        /\ pool = owners
        /\ outgoing = IF settled THEN owners ELSE {}
        /\ data = [n \in Nodes |-> IF settled /\ n \notin owners THEN {} ELSE AllChunks]
        /\ download = [n \in Nodes |-> IF ~settled /\ n \in owners THEN Choosing ELSE NoDownload]
        /\ proposal = [n \in Nodes |-> [r \in Replica |->
                         IF FirstOwner[r] = n THEN first(settled) ELSE [at |-> "none", id |-> 0]]]
  BY DEF Init
<1>2. /\ cancelled = [n \in Nodes |-> {}] /\ wire = {} /\ leaving = [n \in Nodes |-> "no"]
      /\ locking = [n \in Nodes |-> {}]
      /\ empty = [n \in Nodes |-> 0] /\ FirstOwner \in [Replica -> Nodes] /\ None \notin Nodes
  BY TransferAssumption DEF Init
<1>3. state \in States
  BY <1>1, <1>2 DEF States
<1>4. \A n \in Nodes, r \in Replica :
        /\ proposal[n][r] \in Proposals
        /\ proposal[n][r].at = IF ~settled /\ FirstOwner[r] = n THEN "waiting" ELSE "none"
  BY <1>1 DEF Proposals
<1>5. \A n \in Nodes : download[n] \in Downloads
                       /\ download[n].at = IF ~settled /\ n \in owners THEN "choose" ELSE "none"
  BY <1>1, DownloadsAre
<1>6. Typed
  <2>1. pool \subseteq Nodes /\ outgoing \subseteq Nodes
    BY <1>1, <1>2
  <2>2. download \in [Nodes -> Downloads]
    BY <1>1, DownloadsAre
  <2>3. proposal \in [Nodes -> [Replica -> Proposals]]
    <3> DEFINE none == [at |-> "none", id |-> 0]
               p(n) == [r \in Replica |-> IF FirstOwner[r] = n THEN first(settled) ELSE none]
    <3>1. first(settled) \in Proposals /\ none \in Proposals
      BY DEF Proposals
    <3>2. proposal = [n \in Nodes |-> p(n)]
      BY <1>1
    <3> HIDE DEF first, none
    <3>3. \A n \in Nodes : p(n) \in [Replica -> Proposals]
      BY <3>1
    <3> HIDE DEF p
    <3> QED BY <3>2, <3>3
  <2>4. data \in [Nodes -> SUBSET AllChunks]
    BY <1>1
  <2>5. pending \in [Nodes -> Seq(Entries)] /\ view \in [Nodes -> States]
    <3>1. <<>> \in Seq(Entries)
      OBVIOUS
    <3>2. pending \in [Nodes -> Seq(Entries)]
      BY <1>1, <3>1
    <3>3. view \in [Nodes -> States]
      BY <1>1, <1>3
    <3> QED BY <3>2, <3>3
  <2> QED BY <1>2, <1>3, <2>1, <2>2, <2>3, <2>4, <2>5 DEF Typed, Phases
<1>7. ASSUME NEW n \in Nodes
      PROVE  /\ Owned(view[n], n) = {r \in Replica : FirstOwner[r] = n}
             /\ Held(view[n], n) = IF settled THEN {r \in Replica : FirstOwner[r] = n} ELSE {}
             /\ n \in owners <=> \E r \in Replica : FirstOwner[r] = n
  BY <1>1, <1>2 DEF Owned, Held
<1>8. ASSUME NEW n \in Nodes
      PROVE  UnderWay(n)
  <2> DEFINE mine == {r \in Replica : FirstOwner[r] = n}
  <2>0. mine # {} <=> n \in owners
    OBVIOUS
  <2>1. n \in pool <=> Owned(view[n], n) \cup Held(view[n], n) # {}
    <3>1. Owned(view[n], n) = mine /\ (Held(view[n], n) = mine \/ Held(view[n], n) = {})
      BY <1>7
    <3> HIDE DEF mine, owners
    <3> QED BY <1>1, <2>0, <3>1
  <2>2. n \in outgoing <=> Held(view[n], n) # {}
    <3>1. Held(view[n], n) = IF settled THEN mine ELSE {}
      BY <1>7
    <3> HIDE DEF mine, owners
    <3> QED BY <1>1, <2>0, <3>1
  <2>3. \A r \in Replica :
         /\ proposal[n][r].at # "none" => r \in Owned(view[n], n)
         /\ r \in Owned(view[n], n) \ Held(view[n], n) => proposal[n][r].at # "none"
         /\ proposal[n][r].at = "waiting" => download[n].at # "none"
    <3> TAKE r \in Replica
    <3>1. /\ r \in Owned(view[n], n) <=> FirstOwner[r] = n
          /\ r \in Held(view[n], n) <=> settled /\ FirstOwner[r] = n
      BY <1>7
    <3>2. FirstOwner[r] = n => n \in owners
      OBVIOUS
    <3> HIDE DEF owners
    <3> QED BY <1>4, <1>5, <3>1, <3>2
  <2> QED BY <2>1, <2>2, <2>3 DEF UnderWay
<1>9. Sound(state) /\ Whole(state, data)
  BY <1>1, <1>2 DEF Sound, Whole
<1>10. ASSUME NEW n \in Nodes
       PROVE  IsPath(n, [i \in 0 .. 0 |-> state])
  <2> DEFINE h == [i \in 0 .. 0 |-> state]
  <2>1. h \in [0 .. 0 -> States] /\ h[0] = state /\ (\A i \in 0 .. 0 : h[i] = state) /\ 1 .. 0 = {}
    BY <1>3
  <2>2. pending[n] = <<>> /\ Len(pending[n]) = 0 /\ view[n] = state
    BY <1>1
  <2> HIDE DEF h
  <2>3. IsPath(n, h)
    BY <1>9, <2>1, <2>2, BeforeReflexive DEF IsPath
  <2> QED BY <2>3 DEF h
<1>11. Logged /\ Given
  BY <1>2, <1>9, <1>10 DEF Logged, Given, GaveUpPhases, Locking
<1>12. DownloadInv
  BY <1>2, <1>4, <1>5 DEF DownloadInv
<1> QED BY <1>6, <1>8, <1>11, <1>12 DEF IInv

LEMMA Invariant == Spec => []IInv
<1>1. IInv /\ [Next]_vars => IInv'
  <2> SUFFICES ASSUME IInv, [Next]_vars
               PROVE  IInv'
    OBVIOUS
  <2>1. Typed' /\ Logged' /\ Given' /\ DownloadInv'
    BY TypedNext, LoggedNext, GivenNext, DownloadNext DEF IInv
  <2>2. \A n \in Nodes : UnderWay(n)'
    BY UnderWayNext DEF IInv
  <2> QED BY <2>1, <2>2 DEF IInv
<1> QED BY InitInv, <1>1, PTL DEF Spec

LEMMA TypedImplies == Typed => TypeOK
<1> SUFFICES ASSUME Typed
             PROVE  TypeOK
  OBVIOUS
<1>1. \A s \in {state} \cup {view[n] : n \in Nodes} : s \in States
  BY DEF Typed
<1>2. ASSUME NEW n \in Nodes
      PROVE  /\ download[n].at \in {"none", "choose", "stream", "done"}
             /\ download[n].at = "stream" <=> download[n].from # None
             /\ download[n].next \in 0 .. Chunks + 1
             /\ cancelled[n] \subseteq Stragglers
             /\ leaving[n] \in Phases /\ locking[n] \subseteq Replica
             /\ empty[n] \in 0 .. 2
             /\ \A r \in Replica : proposal[n][r].at \in {"none", "waiting", "ready", "sent"}
  <2>1. download[n] \in Downloads /\ \A r \in Replica : proposal[n][r] \in Proposals
    BY DEF Typed
  <2> QED BY <2>1 DEF Typed, Downloads, Proposals
<1>3. \A e \in wire : e.type = "take" /\ e.node \in Nodes /\ e.replica \in Replica
  BY DEF Typed, Takes
<1>4. \A s \in States : /\ s.owner \in [Replica -> Nodes]
                        /\ s.holder \in [Replica -> Nodes \cup {None}]
                        /\ s.members \subseteq Nodes /\ s.retired \subseteq Nodes
  BY DEF States
<1>5. pool \subseteq Nodes /\ outgoing \subseteq Nodes /\ data \in [Nodes -> SUBSET AllChunks]
  BY DEF Typed
<1> QED BY <1>1, <1>2, <1>3, <1>4, <1>5 DEF TypeOK

\* Whatever a node gained, lost, cancelled or was answered, and however often it restarted:
\* what it has opened, what it serves, its proposals and its download are those its view of the
\* log calls for (UpdatePartition, StartTransfer, stopTransfer, InitializeNodeState), also while
\* its decommissioning enables what it held when it looked: by then it owns nothing, so that a
\* partition it no longer holds is closed.
THEOREM TransfersStayInStep == Spec => []TransfersFollowLog
<1>1. IInv => TransfersFollowLog
  <2> SUFFICES ASSUME IInv
               PROVE  TransfersUnderWay
    BY TypedImplies DEF IInv, TransfersFollowLog
  <2> SUFFICES ASSUME NEW n \in Nodes, leaving[n] # "left"
               PROVE  /\ n \in pool <=> Owned(view[n], n) \cup Held(view[n], n) # {}
                      /\ Serves(n) <=> Held(view[n], n) # {}
                      /\ n \in outgoing => Held(view[n], n) # {} \/ leaving[n] \in Locking
                      /\ \A r \in Replica :
                           /\ proposal[n][r].at # "none" => r \in Owned(view[n], n)
                           /\ r \in Owned(view[n], n) \ Held(view[n], n) => proposal[n][r].at # "none"
                           /\ proposal[n][r].at = "waiting" => download[n].at # "none"
    BY DEF TransfersUnderWay
  <2>1. UnderWay(n)
    BY DEF IInv
  <2>2. leaving[n] \in Locking => Owned(view[n], n) = {}
    BY GivenOwnsNothing DEF IInv, GaveUpPhases
  <2>3. Serves(n) <=> Held(view[n], n) # {}
    BY <2>1, <2>2 DEF UnderWay, Serves
  <2> QED BY <2>1, <2>3 DEF UnderWay
<1> QED BY Invariant, <1>1, PTL

\* A node becomes a holder, in the log, only with all of the partition's data, whoever was
\* removed, restarted or lagged behind; excepted are histories in which a stream that was cut
\* off was taken for complete or a node left on an old notification (Download, decommission).
THEOREM HoldersStayComplete == Spec => []HoldersComplete
<1>1. IInv => HoldersComplete
  BY DEF IInv, Logged, Intact, Whole, HoldersComplete
<1> QED BY Invariant, <1>1, PTL
=============================================================================
