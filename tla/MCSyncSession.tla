---------------------------- MODULE MCSyncSession -----------------------------
(* Model checking of SyncSession: keys spread over a tree of depth 3, and   *)
(* peers whose trees differ in depth.                                       *)
EXTENDS SyncSession

TwoKeys == <<2, 6>>
Peers == {"cloud", "relay"}
UnequalDepths == [p \in Peers |-> IF p = "cloud" THEN 2 ELSE 3]
EqualDepths == [p \in Peers |-> 3]

\* A bucket that two relays write, whose trees were configured differently, and
\* the cloud bucket, of which the relay has a copy.
TwoBuckets == {[writers |-> Peers, relays |-> Peers, former |-> {}, depth |-> UnequalDepths, limit |-> 1],
               [writers |-> {"cloud"}, relays |-> {"relay"}, former |-> {1}, depth |-> EqualDepths, limit |-> 2]}
=============================================================================
