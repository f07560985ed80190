----------------------------- MODULE MCCluster -----------------------------
(* Cluster for TLC: two instances, one of which may be started later.       *)
EXTENDS Cluster, TLC

CONSTANTS i1, i2, p1, p2

MCInstances == {i1, i2}
MCPair == <<p1, p2>>
MCLate == {i2}
MCConnects == p1 :> 1 @@ p2 :> 2
=============================================================================
