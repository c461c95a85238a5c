-------------------------- MODULE SuperComBestFit --------------------------
(***************************************************************************)
(* The selection rule of best-fit backfill (dequeue(), scheduling mode 3). *)
(* One pass over the candidate positions of the queue keeps an optimum: a  *)
(* record of the position and of the nodes, cores and memory that would be *)
(* left free, each -1 as long as nothing has been chosen.                  *)
(***************************************************************************)
EXTENDS Integers

NoOptimum == [jobIndex |-> 0, nodes |-> -1, cores |-> -1, memory |-> -1]

\* Whether a candidate that leaves `new' free takes the place of the optimum.
Replaces(new, opt) ==
    \/ new.nodes < opt.nodes \/ opt.nodes = -1
    \/ /\ new.nodes = opt.nodes
       /\ \/ new.cores < opt.cores \/ opt.cores = -1
          \/ /\ new.cores = opt.cores
             /\ new.memory < opt.memory \/ opt.memory = -1

\* The position selected among `candidates', positions in 1 .. n, where free[i] is
\* what the candidate at i leaves free.
OptimalJob(n, candidates, free) ==
    LET scan[i \in 0 .. n] ==
            IF i = 0 THEN NoOptimum
            ELSE IF i \in candidates /\ Replaces(free[i], scan[i - 1])
                 THEN [jobIndex |-> i, nodes |-> free[i].nodes, cores |-> free[i].cores,
                       memory |-> free[i].memory]
                 ELSE scan[i - 1]
    IN  scan[n].jobIndex
============================================================================
