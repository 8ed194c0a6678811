------------------------ MODULE MCPartitionTransfer ------------------------
(* Three nodes of which two own and hold the replicas of the partition. *)
EXTENDS PartitionTransfer

CONSTANTS n1, n2, n3

MCNodes == {n1, n2, n3}
MCReplica == {0, 1}
MCFirstOwner == 0 :> n1 @@ 1 :> n2

\* The same with one replica.
MCOneReplica == {0}
MCOneOwner == 0 :> n1
=============================================================================
