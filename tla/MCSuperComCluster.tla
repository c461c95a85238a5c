------------------------- MODULE MCSuperComCluster -------------------------
(***************************************************************************)
(* Small data centres for TLC.                                             *)
(***************************************************************************)
EXTENDS SuperComCluster

CONSTANTS c1, c2, c3, c4

R(n, c, m) == [nodes |-> n, cores |-> c, needMemory |-> m]

\* A job on two nodes, a job of one core and a job that takes all cores of a node.
MixedRequests == c1 :> {R(2, 1, 1)} @@ c2 :> {R(1, 1, 2)} @@ c3 :> {R(1, 2, 1)}

\* With c1 on one node and c2 at the head of the queue, c3 and c4 compete for the rest.
BackfillRequests == c1 :> {R(1, 1, 1)} @@ c2 :> {R(2, 2, 1)} @@ c3 :> {R(1, 1, 1)} @@ c4 :> {R(1, 2, 1)}

\* Each job fits on one node.
SmallRequests == c1 :> {R(1, 1, 1)} @@ c2 :> {R(1, 1, 1)}
============================================================================
