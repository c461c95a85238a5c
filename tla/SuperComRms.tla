---------------------------- MODULE SuperComRms ----------------------------
(***************************************************************************)
(* The Resource Management System of a data centre (SuperComRmsApp) in     *)
(* federated mode: it accepts the jobs of clients, places each on the      *)
(* servers it needs, wakes servers that sleep, queues the jobs that do not *)
(* fit, puts idle servers to sleep, and reports finished jobs.             *)
(*                                                                         *)
(* A handler of the program runs to its end before any other event.  Its   *)
(* searching loops are separate steps here: while pc differs from "idle"   *)
(* a handler is inside such a loop and nothing else may happen.            *)
(*                                                                         *)
(* Abstracted: times.  The comparison of an estimated start time with a    *)
(* completion time may go either way, and simTime() > 20 becomes true once *)
(* and for ever.  Every job has priority 1, as the code sets it.           *)
(***************************************************************************)
EXTENDS SuperComSrvList, SuperComBestFit, SequencesExt

CONSTANTS
    EnergyAware,    \* parameter energyAware
    Scheduling,     \* parameter scheduling: 1 FIFO, 2 first fit and 3 best fit backfill
    Requests,       \* what each client may ask for
    MaxRequests     \* bound: jobs of one client

ASSUME EnergyAwareAssumption == EnergyAware \in BOOLEAN
ASSUME SchedulingAssumption  == Scheduling \in {1, 2, 3}
ASSUME RequestsAssumption    == Requests \in [Client -> SUBSET Request]
ASSUME MaxRequestsAssumption == MaxRequests \in Nat

VARIABLES
    jobs,               \* per server, the clients whose job it has been given
    \* cliList, one clientInfo per accepted job; the fields of an absent client are reset
    cliList, request, serverNmb, wakeupNodes, needwakeupNodes, finishedServers, outputData,
    jobQueue,           \* clients whose jobs wait for resources
    rjbList,            \* clients whose jobs were sent to their servers
    \* self-messages scheduled for the current time, by kind
    jobMsg, wakeupMsg, sleepMsg, finishMsg,
    usoOutputData,      \* outputData_var of the handler of the USO's connection
    pc, index,          \* the loop a handler is in, and its position in the queue
    simTimeOver20,      \* simTime() > 20
    \* the clients, behind the USO
    finishSent,         \* finish messages in flight to the USO and on to the client
    outstanding,        \* clients that wait for their finish message
    sentRequests        \* jobs each client has sent

serverInfoVars == <<state, memory, coresInUse, reserved, jobs>>
placementVars == <<serverInfoVars, serverNmb, needwakeupNodes, rjbList, jobMsg, wakeupMsg>>
clientVars == <<finishSent, outstanding, sentRequests>>
rmsVars == <<placementVars, cliList, request, wakeupNodes, finishedServers, outputData,
             jobQueue, sleepMsg, finishMsg, usoOutputData, pc, index, simTimeOver20, clientVars>>

NoRequest == [nodes |-> 0, cores |-> 0, needMemory |-> 0]

RmsTypeOK ==
    /\ SrvListTypeOK
    /\ jobs \in [Server -> SUBSET Client]
    /\ cliList \subseteq Client
    /\ request \in [Client -> Request \cup {NoRequest}]
    /\ serverNmb \in [Client -> SUBSET Server]
    /\ wakeupNodes \in [Client -> Nat]
    /\ needwakeupNodes \in [Client -> Nat]
    /\ finishedServers \in [Client -> Nat]
    /\ outputData \in [Client -> Nat]
    /\ jobQueue \in Seq(Client)
    /\ rjbList \subseteq Client
    /\ jobMsg \subseteq Server \X Client
    /\ wakeupMsg \subseteq Server \X Client
    /\ sleepMsg \subseteq Server
    /\ finishMsg \subseteq [client : Client, data : Nat]
    /\ usoOutputData \in Nat
    /\ pc \in {"idle", "findResources", "firstFit", "bestFit", "checkServers"}
    /\ index \in Nat
    /\ simTimeOver20 \in BOOLEAN
    /\ finishSent \subseteq [client : Client, data : Nat]
    /\ outstanding \subseteq Client
    /\ sentRequests \in [Client -> Nat]

RmsInit ==
    /\ SrvListInit
    /\ jobs = [s \in Server |-> {}]
    /\ cliList = {}
    /\ request = [c \in Client |-> NoRequest]
    /\ serverNmb = [c \in Client |-> {}]
    /\ wakeupNodes = [c \in Client |-> 0]
    /\ needwakeupNodes = [c \in Client |-> 0]
    /\ finishedServers = [c \in Client |-> 0]
    /\ outputData = [c \in Client |-> 0]
    /\ jobQueue = <<>>
    /\ rjbList = {}
    /\ jobMsg = {} /\ wakeupMsg = {} /\ sleepMsg = {} /\ finishMsg = {}
    /\ usoOutputData = 0
    /\ pc = "idle" /\ index = 0
    /\ simTimeOver20 = FALSE
    /\ finishSent = {} /\ outstanding = {}
    /\ sentRequests = [c \in Client |-> 0]

----------------------------------------------------------------------------
(* Placing a job *)

\* initServerConnection for the job of c, with request r, on the servers T.  If
\* none of them sleeps, it goes on with sendClientRequests; otherwise the job waits
\* for the wake-ups: its cores are taken, its memory is not yet.
InitServerConnection(c, r, T) ==
    LET asleep == {s \in T : state[s] \in Asleep}
        start  == asleep = {}
    IN  /\ coresInUse' = [s \in Server |-> IF s \in T THEN coresInUse[s] + r.cores ELSE coresInUse[s]]
        /\ simError' = IF \E s \in T : coresInUse[s] + r.cores > NumCores THEN "coresInUse" ELSE "none"
        /\ jobs' = [s \in Server |-> IF s \in T THEN jobs[s] \cup {c} ELSE jobs[s]]
        /\ state' = [s \in Server |-> IF s \in T \ asleep THEN "RUNNING" ELSE state[s]]
        /\ reserved' = [s \in Server |-> s \in asleep \/ (s \notin T /\ reserved[s])]
        /\ memory' = [s \in Server |-> IF start /\ s \in T THEN memory[s] - r.needMemory ELSE memory[s]]
        /\ serverNmb' = [serverNmb EXCEPT ![c] = T]
        /\ needwakeupNodes' = [needwakeupNodes EXCEPT ![c] = @ + Cardinality(asleep)]
        /\ wakeupMsg' = wakeupMsg \cup (asleep \X {c})
        /\ jobMsg' = IF start THEN jobMsg \cup (T \X {c}) ELSE jobMsg
        /\ rjbList' = IF start THEN rjbList \cup {c} ELSE rjbList

\* Wrong variants of SendClientRequests: the memory is not deducted, or only the servers
\* that were woken get a request.
SendKeepsMemory(c) ==
    LET T == serverNmb[c]
    IN  /\ state' = [s \in Server |-> IF s \in T THEN "RUNNING" ELSE state[s]]
        /\ reserved' = [s \in Server |-> s \notin T /\ reserved[s]]
        /\ jobMsg' = jobMsg \cup (T \X {c})
        /\ rjbList' = rjbList \cup {c}
        /\ UNCHANGED <<memory, coresInUse, jobs, serverNmb, needwakeupNodes, wakeupMsg>>
SendToWokenOnly(c) ==
    LET T == serverNmb[c]
    IN  /\ memory' = [s \in Server |-> IF s \in T THEN memory[s] - request[c].needMemory ELSE memory[s]]
        /\ state' = [s \in Server |-> IF s \in T THEN "RUNNING" ELSE state[s]]
        /\ reserved' = [s \in Server |-> s \notin T /\ reserved[s]]
        /\ jobMsg' = jobMsg \cup ({s \in T : state[s] \in Asleep} \X {c})
        /\ rjbList' = rjbList \cup {c}
        /\ UNCHANGED <<coresInUse, jobs, serverNmb, needwakeupNodes, wakeupMsg>>

\* sendClientRequests once the last server needed by c is awake.
SendClientRequests(c) ==
    LET T == serverNmb[c]
    IN  /\ memory' = [s \in Server |-> IF s \in T THEN memory[s] - request[c].needMemory ELSE memory[s]]
        /\ state' = [s \in Server |-> IF s \in T THEN "RUNNING" ELSE state[s]]
        /\ reserved' = [s \in Server |-> s \notin T /\ reserved[s]]
        /\ jobMsg' = jobMsg \cup (T \X {c})
        /\ rjbList' = rjbList \cup {c}
        /\ UNCHANGED <<coresInUse, jobs, serverNmb, needwakeupNodes, wakeupMsg>>

----------------------------------------------------------------------------
(* Where a handler goes on *)

AfterLoops == IF EnergyAware THEN "checkServers" ELSE "idle"

\* Wrong variant of Dequeue: the queue is not served.
DequeueNothing == pc' = AfterLoops /\ UNCHANGED index

\* dequeue() is called
Dequeue == /\ pc' = IF jobQueue = <<>> THEN AfterLoops ELSE "findResources"
           /\ UNCHANGED index

\* findResources() has returned: a backfill needs a second job in the queue, and only
\* FIFO scheduling checks for idle servers when there is none.
AfterFindResources ==
    /\ pc' = CASE Scheduling = 1                             -> AfterLoops
               [] Scheduling = 2 /\ Len(jobQueue') > 1      -> "firstFit"
               [] Scheduling = 3 /\ Len(jobQueue') > 1      -> "bestFit"
               [] OTHER                                      -> "idle"
    /\ index' = IF pc' = "firstFit" THEN 2 ELSE 0

----------------------------------------------------------------------------
(* A request of a client arrives through the USO *)

\* enqueueJob: with one priority for all, a job goes to the end of the queue.
EnqueueJob(c) == /\ jobQueue' = Append(jobQueue, c)
                 /\ UNCHANGED <<placementVars, simError>>

Place(c, r) == /\ \E T \in SUBSET Eligible(r) : SearchServers(r, T) /\ InitServerConnection(c, r, T)
               /\ UNCHANGED jobQueue

\* Wrong variant of CheckQueue: a new job may pass those that wait.
CheckQueueOvertakes(c, r) ==
    /\ Place(c, r) \/ (~ServersFound(r) /\ EnqueueJob(c))
    /\ pc' = AfterLoops

\* checkQueue.  With jobs waiting, FIFO only appends; a backfill may start the new
\* job if it is estimated to complete before the first job of the queue starts.
CheckQueue(c, r) ==
    \/ /\ jobQueue = <<>>
       /\ Place(c, r) \/ (~ServersFound(r) /\ EnqueueJob(c))
       /\ pc' = AfterLoops
    \/ /\ jobQueue # <<>>
       /\ EnqueueJob(c) \/ (Scheduling # 1 /\ Place(c, r))
       /\ pc' = "idle"

RmsClientRequest(c, r) ==
    /\ pc = "idle"
    /\ c \notin outstanding /\ sentRequests[c] < MaxRequests /\ r \in Requests[c]
    /\ outstanding' = outstanding \cup {c}
    /\ sentRequests' = [sentRequests EXCEPT ![c] = @ + 1]
    /\ cliList' = cliList \cup {c}
    /\ request' = [request EXCEPT ![c] = r]
    /\ CheckQueue(c, r)
    /\ UNCHANGED <<wakeupNodes, finishedServers, outputData, sleepMsg, finishMsg,
                   usoOutputData, index, simTimeOver20, finishSent, toServer, toRms>>

----------------------------------------------------------------------------
(* The loops of dequeue() and checkServers() *)

\* Frame of the loop steps: they only place queued jobs.
loopFrame == <<cliList, request, wakeupNodes, finishedServers, outputData, finishMsg,
               usoOutputData, simTimeOver20, clientVars, toServer, toRms>>

\* The job at position i of the queue leaves it for the servers found for it.
StartQueued(i) ==
    LET c == jobQueue[i]
    IN  /\ \E T \in SUBSET Eligible(request[c]) :
             SearchServers(request[c], T) /\ InitServerConnection(c, request[c], T)
        /\ jobQueue' = RemoveAt(jobQueue, i)

NoneStarted == UNCHANGED <<jobQueue, placementVars, simError>>

\* findResources takes the first job of the queue as long as there are servers for it.
FindResources ==
    /\ pc = "findResources"
    /\ \/ /\ StartQueued(1)
          /\ IF jobQueue' = <<>> THEN AfterFindResources ELSE UNCHANGED <<pc, index>>
       \/ /\ ~ServersFound(request[Head(jobQueue)])
          /\ NoneStarted
          /\ AfterFindResources
    /\ UNCHANGED <<loopFrame, sleepMsg>>

\* First-fit backfill: one job of the queue, from the second on, is looked at.  It
\* starts if there are servers for it and it is estimated to complete in time.
FirstFit ==
    /\ pc = "firstFit"
    /\ \/ StartQueued(index) /\ index' = index
       \/ NoneStarted /\ index' = index + 1
    /\ pc' = IF index' <= Len(jobQueue') /\ IsResourcesAvailable' THEN "firstFit" ELSE AfterLoops
    /\ UNCHANGED <<loopFrame, sleepMsg>>

\* Best-fit backfill: of the jobs from the second on that have servers and are
\* estimated to complete in time, the one that fits best starts.  The search is
\* repeated as long as it finds a job, something is free and jobs wait.
BestFit ==
    /\ pc = "bestFit"
    /\ \E candidates \in SUBSET {i \in 2 .. Len(jobQueue) : ServersFound(request[jobQueue[i]])} :
         \/ /\ \E i \in candidates :
                 /\ i = OptimalJob(Len(jobQueue), candidates,
                                   [k \in candidates |-> FreeAfter(request[jobQueue[k]])])
                 /\ StartQueued(i)
            /\ pc' = IF IsResourcesAvailable' /\ Len(jobQueue') > 1 THEN "bestFit" ELSE AfterLoops
         \/ /\ candidates = {}
            /\ NoneStarted
            /\ pc' = AfterLoops
    /\ UNCHANGED <<loopFrame, sleepMsg, index>>

IdleServers == {s \in Server : state[s] = "IDLE" /\ ~reserved[s]}

\* checkServers: once simTime() > 20, servers that idle are put to sleep; all of them
\* if the queue is empty, else those for which the first job starts late enough.
CheckServers ==
    /\ pc = "checkServers"
    /\ \E hybernate \in SUBSET IdleServers :
         /\ ~simTimeOver20 => hybernate = {}
         /\ simTimeOver20 /\ jobQueue = <<>> => hybernate = IdleServers
         /\ state' = [s \in Server |-> IF s \in hybernate THEN "HYBERNATED" ELSE state[s]]
         /\ reserved' = [s \in Server |-> s \in hybernate \/ reserved[s]]
         /\ sleepMsg' = sleepMsg \cup hybernate
    /\ pc' = "idle" /\ index' = 0
    /\ UNCHANGED <<loopFrame, simError, memory, coresInUse, jobs, serverNmb, needwakeupNodes,
                   rjbList, jobMsg, wakeupMsg, jobQueue>>

----------------------------------------------------------------------------
(* Messages from a server *)

\* MSGKIND_FINISH: the server s has finished its part of the job of c.  The last
\* part ends the job: the client is forgotten and the queue is served.
RmsFinish(s, m) ==
    LET c    == m.client
        last == finishedServers[c] + 1 = request[c].nodes
    IN  /\ pc = "idle"
        /\ m \in toRms[s] /\ m.type = "FINISH"
        /\ toRms' = [toRms EXCEPT ![s] = @ \ {m}]
        /\ memory' = [memory EXCEPT ![s] = @ + request[c].needMemory]
        /\ coresInUse' = [coresInUse EXCEPT ![s] = @ - request[c].cores]
        /\ state' = IF coresInUse'[s] = 0 THEN [state EXCEPT ![s] = "IDLE"] ELSE state
        /\ jobs' = [jobs EXCEPT ![s] = @ \ {c}]
        /\ IF last
           THEN /\ rjbList' = rjbList \ {c}
                /\ finishMsg' = finishMsg \cup {[client |-> c, data |-> outputData[c] + 1]}
                /\ cliList' = cliList \ {c}
                /\ request' = [request EXCEPT ![c] = NoRequest]
                /\ serverNmb' = [serverNmb EXCEPT ![c] = {}]
                /\ wakeupNodes' = [wakeupNodes EXCEPT ![c] = 0]
                /\ needwakeupNodes' = [needwakeupNodes EXCEPT ![c] = 0]
                /\ finishedServers' = [finishedServers EXCEPT ![c] = 0]
                /\ outputData' = [outputData EXCEPT ![c] = 0]
                /\ Dequeue
           ELSE /\ finishedServers' = [finishedServers EXCEPT ![c] = @ + 1]
                /\ outputData' = [outputData EXCEPT ![c] = @ + 1]
                /\ UNCHANGED <<rjbList, finishMsg, cliList, request, serverNmb, wakeupNodes,
                               needwakeupNodes, pc, index>>
        /\ UNCHANGED <<reserved, jobQueue, jobMsg, wakeupMsg, sleepMsg, usoOutputData,
                       simTimeOver20, clientVars, toServer, simError>>

\* MSGKIND_SLEEP_RESPONSE: the server may be chosen again, but the queue is not served.
RmsSleepResponse(s, m) ==
    /\ pc = "idle"
    /\ m \in toRms[s] /\ m.type = "SLEEP_RESPONSE"
    /\ toRms' = [toRms EXCEPT ![s] = @ \ {m}]
    /\ reserved' = [reserved EXCEPT ![s] = FALSE]
    /\ UNCHANGED <<state, memory, coresInUse, jobs, serverNmb, needwakeupNodes, rjbList, jobMsg,
                   wakeupMsg, cliList, request, wakeupNodes, finishedServers, outputData, jobQueue,
                   sleepMsg, finishMsg, usoOutputData, pc, index, simTimeOver20, clientVars,
                   toServer, simError>>

\* Wrong variant of RmsWakeupResponse: the job starts with the first server awake.
StartWithFirstAwake(s, m) ==
    LET c == m.client
    IN  /\ pc = "idle"
        /\ m \in toRms[s] /\ m.type = "WAKEUP_RESPONSE"
        /\ toRms' = [toRms EXCEPT ![s] = @ \ {m}]
        /\ wakeupNodes' = [wakeupNodes EXCEPT ![c] = @ + 1]
        /\ IF wakeupNodes[c] = 0
           THEN SendClientRequests(c) /\ Dequeue
           ELSE UNCHANGED <<placementVars, pc, index>>
        /\ UNCHANGED <<cliList, request, finishedServers, outputData, jobQueue, sleepMsg, finishMsg,
                       usoOutputData, simTimeOver20, clientVars, toServer, simError>>

\* MSGKIND_WAKEUP_RESPONSE: when the last server that the job of c needs is awake,
\* the job starts and the queue is served.
RmsWakeupResponse(s, m) ==
    LET c == m.client
    IN  /\ pc = "idle"
        /\ m \in toRms[s] /\ m.type = "WAKEUP_RESPONSE"
        /\ toRms' = [toRms EXCEPT ![s] = @ \ {m}]
        /\ wakeupNodes' = [wakeupNodes EXCEPT ![c] = @ + 1]
        /\ IF wakeupNodes[c] + 1 = needwakeupNodes[c]
           THEN SendClientRequests(c) /\ Dequeue
           ELSE UNCHANGED <<placementVars, pc, index>>
        /\ UNCHANGED <<cliList, request, finishedServers, outputData, jobQueue, sleepMsg, finishMsg,
                       usoOutputData, simTimeOver20, clientVars, toServer, simError>>

----------------------------------------------------------------------------
(* Self-messages *)

selfFrame == <<serverInfoVars, serverNmb, needwakeupNodes, rjbList, cliList, request, wakeupNodes,
               finishedServers, outputData, jobQueue, pc, index, simTimeOver20, toRms, simError>>

\* INTERNAL_JOB_MSG: sendRequest to server s for the job of c.
RmsInternalJob(s, c) ==
    /\ pc = "idle"
    /\ <<s, c>> \in jobMsg
    /\ jobMsg' = jobMsg \ {<<s, c>>}
    /\ toServer' = [toServer EXCEPT ![s] = @ \cup {RequestMsg(c, request[c].needMemory)}]
    /\ UNCHANGED <<selfFrame, wakeupMsg, sleepMsg, finishMsg, usoOutputData, clientVars>>

\* INTERNAL_WAKEUP_MSG: sendWakeup
RmsInternalWakeup(s, c) ==
    /\ pc = "idle"
    /\ <<s, c>> \in wakeupMsg
    /\ wakeupMsg' = wakeupMsg \ {<<s, c>>}
    /\ toServer' = [toServer EXCEPT ![s] = @ \cup {WakeupMsg(c)}]
    /\ UNCHANGED <<selfFrame, jobMsg, sleepMsg, finishMsg, usoOutputData, clientVars>>

\* INTERNAL_SLEEP_MSG: sendSleep
RmsInternalSleep(s) ==
    /\ pc = "idle"
    /\ s \in sleepMsg
    /\ sleepMsg' = sleepMsg \ {s}
    /\ toServer' = [toServer EXCEPT ![s] = @ \cup {SleepMsg}]
    /\ UNCHANGED <<selfFrame, jobMsg, wakeupMsg, finishMsg, usoOutputData, clientVars>>

\* INTERNAL_FINISH_MSG: the handler of the USO's connection, which lives as long as
\* the connection, adds the output data to its own and sends the finish message.
RmsInternalFinish(f) ==
    /\ pc = "idle"
    /\ f \in finishMsg
    /\ finishMsg' = finishMsg \ {f}
    /\ usoOutputData' = usoOutputData + f.data
    /\ finishSent' = finishSent \cup {[client |-> f.client, data |-> usoOutputData']}
    /\ UNCHANGED <<selfFrame, jobMsg, wakeupMsg, sleepMsg, outstanding, sentRequests, toServer>>

----------------------------------------------------------------------------
(* The environment of the data centre *)

\* The USO forwards a finish message to its client, which may then send a new job.
ClientFinish(f) ==
    /\ pc = "idle"
    /\ f \in finishSent
    /\ finishSent' = finishSent \ {f}
    /\ outstanding' = outstanding \ {f.client}
    /\ UNCHANGED <<selfFrame, jobMsg, wakeupMsg, sleepMsg, finishMsg, usoOutputData,
                   sentRequests, toServer>>

\* The 20 s before which checkServers puts no server to sleep are over.
TimePasses ==
    /\ pc = "idle"
    /\ ~simTimeOver20
    /\ simTimeOver20' = TRUE
    /\ UNCHANGED <<placementVars, cliList, request, wakeupNodes, finishedServers, outputData,
                   jobQueue, sleepMsg, finishMsg, usoOutputData, pc, index, clientVars,
                   toServer, toRms, simError>>

----------------------------------------------------------------------------

RmsLoop == FindResources \/ FirstFit \/ BestFit \/ CheckServers

RmsReceive(s) ==
    \E m \in toRms[s] : RmsFinish(s, m) \/ RmsSleepResponse(s, m) \/ RmsWakeupResponse(s, m)

RmsSelfMessage ==
    \/ \E w \in jobMsg : RmsInternalJob(w[1], w[2])
    \/ \E w \in wakeupMsg : RmsInternalWakeup(w[1], w[2])
    \/ \E s \in sleepMsg : RmsInternalSleep(s)
    \/ \E f \in finishMsg : RmsInternalFinish(f)

RmsRequests == \E c \in Client : \E r \in Requests[c] : RmsClientRequest(c, r)

ClientsFinish == \E f \in finishSent : ClientFinish(f)
============================================================================
