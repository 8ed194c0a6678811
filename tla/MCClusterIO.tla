---------------------------- MODULE MCClusterIO ----------------------------
(* Two operations of an agent on one of three nodes. *)
EXTENDS ClusterIO

MCPlans ==
  { [o \in Ops |-> p[o]] :
      p \in { <<"batch", "get">>, <<"get", "matches">>, <<"merge", "cancel">>, <<"cancel", "get">>,
              <<"cancel", "status">> } }

MCReplicaSets == {{}, {1}, {1, 2}, {2, 3}, {1, 2, 3}}
=============================================================================
