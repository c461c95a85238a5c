---------------------------- MODULE SuperComUSO ----------------------------
(***************************************************************************)
(* The user service object: it takes the requests of the clients, chooses  *)
(* a data centre for each job, forwards the job on its connection to that  *)
(* centre's RMS, and connects to the client when the RMS reports the end.  *)
(***************************************************************************)
EXTENDS SuperComClients, SuperComDataCentres

VARIABLES
    fit4green,      \* whether jobs are placed by load, or in turn
    rmsConnected,   \* data centres whose connection to the USO is established
    cliList,        \* the jobs the USO knows, as [client, nodes, rms], oldest first
    previousRMS,    \* the data centre of the last job placed in turn, or -1
    selfMsgs,       \* INTERNAL_JOB_MSG and INTERNAL_FINISH_MSG, all due at once
    given,          \* how many jobs each data centre was chosen for
    usoError        \* error("USO not connected to this RMS.")

\* The messages that the user service object schedules for itself.
InternalMsg(kind, c, d) == [kind |-> kind, client |-> c, rms |-> d]

usoVars == <<fit4green, rmsConnected, cliList, previousRMS, selfMsgs, given, usoError>>

UsoInit ==
    /\ fit4green \in BOOLEAN
    /\ rmsConnected = {} /\ cliList = <<>> /\ previousRMS = -1 /\ selfMsgs = <<>>
    /\ given = [d \in RMS |-> 0] /\ usoError = FALSE

RmsEstablished(d) ==
    /\ d \notin rmsConnected
    /\ rmsConnected' = rmsConnected \cup {d}
    /\ UNCHANGED <<fit4green, cliList, previousRMS, selfMsgs, given, usoError,
                   clientVars, rmsVars>>

----------------------------------------------------------------------------
(* The table of clients *)

\* Position of the first entry of a client.
Entry(list, c) == Min({i \in 1 .. Len(list) : list[i].client = c})

Lookup(c) == cliList[Entry(cliList, c)]

Deleted(list, c) == RemoveAt(list, Entry(list, c))

\* Wrong variant: the client stays in the table.
DeletedNone(list, c) == list

DeleteClient(list, c) == Deleted(list, c)

----------------------------------------------------------------------------
(* The choice of a data centre *)

NextInTurn == (previousRMS + 1) % NumRMS

\* The data centre whose mean queueing time and queue length are not above those of the last
\* candidate; -1 stands for no candidate.
ShorterQueue(queueTime) ==
    LET Better(best, d) ==
            IF \/ best.rms = -1
               \/ queueTime[d] <= best.time /\ Len(queue[d]) < best.length
            THEN [rms |-> d, time |-> queueTime[d], length |-> Len(queue[d])]
            ELSE best
    IN  FoldLeft(Better, [rms |-> -1, time |-> -1, length |-> -1],
                 [i \in 1 .. NumRMS |-> i - 1]).rms

Immediate(nodes) == {d \in RMS : queue[d] = <<>> /\ HasServers(d, nodes)}

\* Wrong variant: an empty queue is taken for free servers.
SoonestIfEmpty(nodes, queueTime) ==
    LET empty == {d \in RMS : queue[d] = <<>>}
    IN  IF empty # {} THEN Min(empty) ELSE ShorterQueue(queueTime)

\* The first data centre that can start the job at once, or else one with a short queue.
Soonest(nodes, queueTime) ==
    IF Immediate(nodes) # {} THEN Min(Immediate(nodes)) ELSE ShorterQueue(queueTime)

\* Fewer than 0.7 waiting jobs for each server.
Unloaded == {d \in RMS : 10 * Len(queue[d]) < 7 * RmsServers}

\* The first with the least estimate of energy among the unloaded data centres, or the first
\* with the least load.
Greenest(estimate) ==
    LET Least(S, f) == Min({d \in S : \A e \in S : f[d] <= f[e]})
    IN  IF Unloaded # {}
        THEN Least(Unloaded, estimate)
        ELSE Least(RMS, [d \in RMS |-> Len(queue[d])])

\* Mean queueing times and estimates of energy are figures of the data centres: any order of
\* them may occur.
SelectRMS(job, d) ==
    IF ~fit4green THEN d = NextInTurn /\ previousRMS' = d
    ELSE /\ \E figure \in [RMS -> {0, 1}] :
               d = IF job.energyAware THEN Greenest(figure) ELSE Soonest(job.nodes, figure)
         /\ UNCHANGED previousRMS

----------------------------------------------------------------------------
(* The handlers *)

\* The job of a client enters the table, and d is written into the client's entry.
Added(c, d) ==
    LET list == Append(cliList, [client |-> c, nodes |-> asked[c].nodes, rms |-> -1])
    IN  [list EXCEPT ![Entry(list, c)].rms = d]

\* What the RMS is told of a job: what the table has of its client.
Forwarded(c) == [client |-> c, nodes |-> Lookup(c).nodes]

\* A request: the job enters the table, a data centre is chosen and named to the client, and
\* the job is forwarded.
UsoRequest(c) ==
    /\ request[c] = "job"
    /\ \E d \in RMS :
         /\ SelectRMS(asked[c], d)
         /\ given' = [given EXCEPT ![d] = @ + 1]
         /\ cliList' = Added(c, d)
         /\ selfMsgs' = Append(selfMsgs, InternalMsg("job", c, d))
    /\ request' = [request EXCEPT ![c] = "response"]
    /\ UNCHANGED <<report, socket, requestSent, connectMsg, asked, sentRequests, socketError,
                   rmsVars, fit4green, rmsConnected, usoError>>

\* INTERNAL_JOB_MSG: what the table says of the client goes to the RMS.
InternalJob ==
    /\ selfMsgs # <<>> /\ Head(selfMsgs).kind = "job"
    /\ LET m == Head(selfMsgs)
       IN  IF m.rms \in rmsConnected
           THEN /\ requested' = [requested EXCEPT ![m.rms] = Append(@, Forwarded(m.client))]
                /\ UNCHANGED usoError
           ELSE usoError' = TRUE /\ UNCHANGED requested
    /\ selfMsgs' = Tail(selfMsgs)
    /\ UNCHANGED <<clientVars, queue, running, toUso, fit4green, rmsConnected, cliList,
                   previousRMS, given>>

\* A finish message of an RMS.
UsoFinish(d) ==
    /\ toUso[d] # <<>>
    /\ selfMsgs' = Append(selfMsgs, InternalMsg("finish", Head(toUso[d]), d))
    /\ toUso' = [toUso EXCEPT ![d] = Tail(@)]
    /\ UNCHANGED <<clientVars, queue, running, requested, fit4green, rmsConnected, cliList,
                   previousRMS, given, usoError>>

\* INTERNAL_FINISH_MSG: the USO connects to the client.
InternalFinish ==
    /\ selfMsgs # <<>> /\ Head(selfMsgs).kind = "finish"
    /\ report' = [report EXCEPT ![Head(selfMsgs).client] = "uso"]
    /\ selfMsgs' = Tail(selfMsgs)
    /\ UNCHANGED <<request, socket, requestSent, connectMsg, asked, sentRequests, socketError,
                   rmsVars, fit4green, rmsConnected, cliList, previousRMS, given, usoError>>

\* The connection to the client is established: the end is reported and the client forgotten.
ReportEstablished(c) ==
    /\ report[c] = "uso"
    /\ report' = [report EXCEPT ![c] = "syn"]
    /\ cliList' = DeleteClient(cliList, c)
    /\ UNCHANGED <<request, socket, requestSent, connectMsg, asked, sentRequests, socketError,
                   rmsVars, fit4green, rmsConnected, previousRMS, selfMsgs, given, usoError>>

\* The client has closed a connection: the USO does too.
PeerClosed(c) ==
    /\ \/ /\ request[c] = "clientClosed"
          /\ request' = [request EXCEPT ![c] = "usoClosed"] /\ UNCHANGED report
       \/ /\ report[c] = "clientClosed"
          /\ report' = [report EXCEPT ![c] = "usoClosed"] /\ UNCHANGED request
    /\ UNCHANGED <<socket, requestSent, connectMsg, asked, sentRequests, socketError,
                   rmsVars, usoVars>>

UsoStep ==
    \/ InternalJob \/ InternalFinish
    \/ \E d \in RMS : RmsEstablished(d) \/ UsoFinish(d)
    \/ \E c \in FedClient : UsoRequest(c) \/ ReportEstablished(c) \/ PeerClosed(c)
============================================================================
