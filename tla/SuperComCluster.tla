-------------------------- MODULE SuperComCluster --------------------------
(***************************************************************************)
(* A data centre: the RMS, its servers and the connections between them,   *)
(* fed by clients through the USO.                                         *)
(***************************************************************************)
EXTENDS SuperComRms, SuperComServers

vars == <<netVars, rmsVars, serverVars>>

Init == NetInit /\ RmsInit /\ ServersInit

\* OMNeT++ executes one event at a time: a server acts only between the handlers of
\* the RMS.  A call of error() ends the simulation.
RmsEvent == RmsLoop \/ RmsSelfMessage \/ (\E s \in Server : RmsReceive(s)) \/ ClientsFinish

ServerEvent == pc = "idle" /\ \E s \in Server : ServerStep(s)

\* An event that has been scheduled.
Event == \/ RmsEvent /\ UNCHANGED serverVars
         \/ ServerEvent /\ UNCHANGED rmsVars

\* A client decides to send a job, or time passes.
Stimulus == (RmsRequests \/ TimePasses) /\ UNCHANGED serverVars

Next == simError = "none" /\ (Event \/ Stimulus)

Spec == Init /\ [][Next]_vars

\* The simulation goes on as long as an event is scheduled.  Nothing obliges clients to
\* send jobs, or the clock to reach 20 s.
FairSpec == Spec /\ WF_vars(simError = "none" /\ Event)

----------------------------------------------------------------------------
(* Invariants *)

\* The variables of the RMS (srvList, cliList, the lists of jobs and of self-messages), of the
\* servers and of their connections have the types of the fields and messages they stand for.
TypeOK == NetTypeOK /\ RmsTypeOK /\ ServersTypeOK

Placed(c) == serverNmb[c] # {}

\* A job is in exactly one place: in the queue, once, or on the servers chosen for it; and
\* a client waits exactly as long as its job is known to the RMS or its finish message is
\* under way (checkQueue, the loops of dequeue, deleteClient, INTERNAL_FINISH_MSG).
EachJobInOnePlace ==
    /\ IsInjective(jobQueue)
    /\ \A c \in Client :
         /\ c \in cliList <=> c \in ToSet(jobQueue) \/ Placed(c)
         /\ ~(c \in ToSet(jobQueue) /\ Placed(c))
         /\ c \in outstanding <=> \/ c \in cliList
                                  \/ \E f \in finishMsg \cup finishSent : f.client = c

\* The cores and the memory that the jobs of a set C take of one server, unit by unit.
CoreUnits(C) == {u \in C \X (1 .. NumCores) : u[2] <= request[u[1]].cores}
MemoryUnits(C) == {u \in C \X (1 .. Memory) : u[2] <= request[u[1]].needMemory}

\* No core is handed out twice and none is lost: coresInUse counts the cores of the jobs
\* placed on the server (initServerConnection against MSGKIND_FINISH, over several jobs that
\* share a server), a server from which the last job has gone is idle, and the memory that
\* the RMS thinks is free is what the jobs it has started leave (sendClientRequests).
ResourcesAccounted ==
    \A s \in Server :
      /\ coresInUse[s] = Cardinality(CoreUnits(jobs[s]))
      /\ coresInUse[s] <= NumCores
      /\ state[s] = "RUNNING" <=> coresInUse[s] > 0 /\ state[s] # "HYBERNATED"
      /\ memory[s] = Memory - Cardinality(MemoryUnits(jobs[s] \cap rjbList))

\* The sleep or wake-up exchanges server s takes part in, with the step each has reached;
\* a wake-up belongs to a client.
Exchanges(s) ==
    {<<"scheduled", c>> : c \in {d \in Client : <<s, d>> \in wakeupMsg}
                                  \cup {NoClient : t \in sleepMsg \cap {s}}}
    \cup {<<"sent", m.client>> : m \in {n \in toServer[s] : n.type # "REQUEST"}}
    \cup {<<"timer", c>> : c \in wakeupResponse[s] \cup (IF sleepResponse[s] THEN {NoClient} ELSE {})}
    \cup {<<"answered", m.client>> : m \in {n \in toRms[s] : n.type # "FINISH"}}

\* The parts of a job of c that server s still owes: scheduled, requested, running, reported.
Part(s, c) ==
    {1 : w \in jobMsg \cap {<<s, c>>}}
    \cup {2 : m \in {n \in toServer[s] : n.type = "REQUEST" /\ n.client = c}}
    \cup {3 : j \in {k \in complete[s] : k.client = c}}
    \cup {4 : m \in {n \in toRms[s] : n.type = "FINISH" /\ n.client = c}}

\* A started job has exactly one live part on each server it still occupies, none elsewhere,
\* and finishedServers counts the others: no part runs twice, is lost, or outlives its job.
\* Before that a job waits for as many wake-ups as it has servers with a wake-up under way:
\* it starts when its counters meet, with all its servers awake (MSGKIND_WAKEUP_RESPONSE).
JobsAccounted ==
    \A c \in Client :
      /\ \A s \in Server : Cardinality(Part(s, c)) = IF c \in rjbList /\ c \in jobs[s] THEN 1 ELSE 0
      /\ finishedServers[c] = Cardinality({s \in serverNmb[c] : c \notin jobs[s]})
      /\ Placed(c) => \E s \in Server : c \in jobs[s]
      /\ needwakeupNodes[c] - wakeupNodes[c]
           = Cardinality({s \in serverNmb[c] : \E step \in {"scheduled", "sent", "timer", "answered"} :
                                                 <<step, c>> \in Exchanges(s)})
      /\ Placed(c) => (c \in rjbList <=> needwakeupNodes[c] = wakeupNodes[c])

\* No job is lost, doubled or stuck between the lists, counters and messages that speak of it.
JobsTracked == EachJobInOnePlace /\ JobsAccounted

\* No assertion of the RMS or of a server fails: cores and memory of a server suffice for
\* what the RMS sends it, and it never has more than four jobs.
NoSimError == simError = "none"

\* A job only stays in the queue while a placed job will end, for the queue is served when
\* a job ends ("When the queue is popped, the server who finished a certain job is contacted").
QueueAwaitsAFinish == pc = "idle" /\ jobQueue # <<>> => \E c \in Client : Placed(c)

----------------------------------------------------------------------------
(* The service that the data centre implements *)

Status(c) == CASE c \in rjbList                               -> "started"
               [] c \notin rjbList /\ Placed(c)               -> "placed"
               [] ~Placed(c) /\ c \in cliList                 -> "waiting"
               [] c \notin cliList /\ c \in outstanding       -> "finished"
               [] c \notin cliList /\ c \notin outstanding    -> "absent"

Service == INSTANCE SuperComService WITH status <- [c \in Client |-> Status(c)], holders <- jobs

\* The data centre gives each job all its nodes in one step and within the cores of the
\* servers, starts it once, takes the nodes back one by one, and reports it once, after the
\* last: the wake-ups, sleeps, queue and messages in between never show.
ImplementsService == Service!ServiceSpec

----------------------------------------------------------------------------
(* Action and temporal properties *)

\* FIFO scheduling: a job is placed before none that came earlier.
FifoOrder == [][\A c \in Client : ~Placed(c) /\ Placed(c)' => jobQueue = <<>> \/ Head(jobQueue) = c]_vars

\* Every client that sends a job is told that it has finished.
EveryJobFinishes == \A c \in Client : c \in outstanding ~> c \notin outstanding

\* A job that has been placed finishes, whatever it takes to wake its servers.
PlacedJobsFinish == \A c \in Client : Placed(c) ~> ~Placed(c)
============================================================================
