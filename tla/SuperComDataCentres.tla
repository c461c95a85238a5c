------------------------ MODULE SuperComDataCentres ------------------------
(***************************************************************************)
(* The data centres of a federation as the USO sees them: each keeps a     *)
(* queue of jobs in FIFO order and runs those for which it has free        *)
(* servers.  (SuperComCluster models one of them in detail.)               *)
(***************************************************************************)
EXTENDS Integers, Sequences, FiniteSets, SequencesExt, FiniteSetsExt

CONSTANTS
    NumRMS,         \* data centres
    RmsServers      \* servers of each data centre; a job takes whole servers

ASSUME DataCentresAssumption == NumRMS \in Nat \ {0} /\ RmsServers \in Nat \ {0}

VARIABLES
    queue,          \* the jobs that wait at each data centre, as [client, nodes]
    running,        \* those that run
    requested,      \* requests on their way from the USO
    toUso           \* finish messages on their way to the USO, as clients

rmsVars == <<queue, running, requested, toUso>>

RMS == 0 .. NumRMS - 1

RmsInit ==
    /\ queue = [d \in RMS |-> <<>>] /\ running = [d \in RMS |-> {}]
    /\ requested = [d \in RMS |-> <<>>] /\ toUso = [d \in RMS |-> <<>>]

\* The servers that jobs occupy, job by job.
Occupied(jobs) == Cardinality(UNION {{j} \X (1 .. j.nodes) : j \in jobs})

FreeServers(jobs) == RmsServers - Occupied(jobs)

\* searchServers: whether a data centre has servers for a job now.
HasServers(d, nodes) == nodes <= FreeServers(running[d])

\* Wrong variant: the end of a job does not serve the queue.
StartableNone(jobs, q) == 0

\* The first jobs of a queue, as many as get servers beside the jobs that run.
Startable(jobs, q) ==
    LET Fits(n) == FreeServers(jobs \cup ToSet(SubSeq(q, 1, n))) >= 0
    IN  Max({n \in 0 .. Len(q) : Fits(n)})

\* A request arrives: the job starts unless others wait or servers lack.
AcceptJob(d) ==
    /\ requested[d] # <<>>
    /\ LET j == Head(requested[d])
       IN  IF queue[d] = <<>> /\ HasServers(d, j.nodes)
           THEN running' = [running EXCEPT ![d] = @ \cup {j}] /\ UNCHANGED queue
           ELSE queue' = [queue EXCEPT ![d] = Append(@, j)] /\ UNCHANGED running
    /\ requested' = [requested EXCEPT ![d] = Tail(@)]
    /\ UNCHANGED toUso

\* sendFinish: the USO, the client of a federated data centre, is told.
SendFinish(d, j) == toUso' = [toUso EXCEPT ![d] = Append(@, j.client)]

\* A job ends, and the queue is served.
EndJob(d, j) ==
    /\ j \in running[d]
    /\ SendFinish(d, j)
    /\ LET left == running[d] \ {j}
           n    == Startable(left, queue[d])
       IN  /\ running' = [running EXCEPT ![d] = left \cup ToSet(SubSeq(queue[d], 1, n))]
           /\ queue' = [queue EXCEPT ![d] = SubSeq(@, n + 1, Len(@))]
    /\ UNCHANGED requested
============================================================================
