----------------------- MODULE SuperComCluster_proofs -----------------------
(***************************************************************************)
(* Proofs about the data centre of SuperComCluster: its types, the order   *)
(* under FIFO, that no job is lost, doubled or stuck, that no core of a    *)
(* server is handed out twice, that it implements SuperComService, and     *)
(* that without energy awareness no assertion of the RMS or a server fails.*)
(***************************************************************************)
EXTENDS SuperComCluster, FiniteSetTheorems, SequenceTheorems, TLAPS

----------------------------------------------------------------------------
(* Type correctness *)

\* Where a handler is in a loop, the position it looks at exists.
LoopInv == /\ pc = "findResources" => jobQueue # <<>>
           /\ pc = "firstFit" => index \in 2 .. Len(jobQueue)

TypeInv == TypeOK /\ LoopInv

\* The part of it that placing a job writes.
PlacementTypeOK ==
    /\ state \in [Server -> {"IDLE", "RUNNING"} \cup Asleep]
    /\ memory \in [Server -> Int]
    /\ coresInUse \in [Server -> Int]
    /\ reserved \in [Server -> BOOLEAN]
    /\ jobs \in [Server -> SUBSET Client]
    /\ serverNmb \in [Client -> SUBSET Server]
    /\ needwakeupNodes \in [Client -> Nat]
    /\ rjbList \subseteq Client
    /\ jobMsg \subseteq Server \X Client
    /\ wakeupMsg \subseteq Server \X Client
    /\ simError \in {"none", "usedMemory", "runningJobs", "coresInUse"}

\* A queue without one of its jobs.
LEMMA RemoveAtType ==
  ASSUME NEW S, NEW q \in Seq(S), NEW i \in 1 .. Len(q)
  PROVE  RemoveAt(q, i) \in Seq(S) /\ Len(RemoveAt(q, i)) = Len(q) - 1
<1>1. SubSeq(q, 1, i - 1) \in Seq(S) /\ Len(SubSeq(q, 1, i - 1)) = i - 1
  OBVIOUS
<1>2. SubSeq(q, i + 1, Len(q)) \in Seq(S) /\ Len(SubSeq(q, i + 1, Len(q))) = Len(q) - i
  OBVIOUS
<1>3. \A a, b \in Seq(S) : a \o b \in Seq(S) /\ Len(a \o b) = Len(a) + Len(b)
  OBVIOUS
<1>4. i - 1 + (Len(q) - i) = Len(q) - 1
  BY LenProperties
<1> QED
  BY <1>1, <1>2, <1>3, <1>4, Zenon DEF RemoveAt

\* Servers are numbers, and finitely many.
LEMMA ServerFinite == /\ IsFiniteSet(Server)
                      /\ \A T \in SUBSET Server : IsFiniteSet(T) /\ Cardinality(T) \in Nat
<1>1. IsFiniteSet(Server)
  BY FS_Interval, NumServersAssumption DEF Server
<1> QED
  BY <1>1, FS_Subset, FS_CardinalityType

\* Placing a job on servers keeps the variables it writes in their types.
LEMMA PlacementType ==
  ASSUME TypeOK, NEW c \in Client, NEW r \in Request \cup {NoRequest}, NEW T \in SUBSET Server,
         InitServerConnection(c, r, T)
  PROVE  PlacementTypeOK'
<1> DEFINE asleep == {s \in T : state[s] \in Asleep}
<1>1. asleep \in SUBSET Server /\ Cardinality(asleep) \in Nat
  BY ServerFinite
<1>2. r.cores \in Int /\ r.needMemory \in Int
  BY DEF Request, NoRequest
<1>3. state' \in [Server -> {"IDLE", "RUNNING"} \cup Asleep]
  BY DEF InitServerConnection, TypeOK, RmsTypeOK, SrvListTypeOK
<1>10. reserved' \in [Server -> BOOLEAN]
  <2>1. reserved' = [s \in Server |-> s \in asleep \/ (s \notin T /\ reserved[s])]
    BY DEF InitServerConnection
  <2>2. \A s \in Server : (s \in asleep \/ (s \notin T /\ reserved[s])) \in BOOLEAN
    OBVIOUS
  <2> QED
    BY <2>1, <2>2, Zenon
<1>7. jobs' \in [Server -> SUBSET Client]
  BY DEF InitServerConnection, TypeOK, RmsTypeOK, SrvListTypeOK
<1>8. serverNmb' \in [Client -> SUBSET Server] /\ rjbList' \subseteq Client
  BY DEF InitServerConnection, TypeOK, RmsTypeOK, SrvListTypeOK
<1>9. simError' \in {"none", "usedMemory", "runningJobs", "coresInUse"}
  BY DEF InitServerConnection
<1>4. memory' \in [Server -> Int] /\ coresInUse' \in [Server -> Int]
  BY <1>2 DEF InitServerConnection, TypeOK, RmsTypeOK, SrvListTypeOK
<1>5. needwakeupNodes' \in [Client -> Nat]
  BY <1>1 DEF InitServerConnection, TypeOK, RmsTypeOK, SrvListTypeOK
<1>6. jobMsg' \subseteq Server \X Client /\ wakeupMsg' \subseteq Server \X Client
  BY <1>1 DEF InitServerConnection, TypeOK, RmsTypeOK, SrvListTypeOK
<1> QED
  BY <1>3, <1>4, <1>5, <1>6, <1>7, <1>8, <1>9, <1>10 DEF PlacementTypeOK

\* What every step of the RMS leaves alone.
LEMMA ServersUnchanged ==
  ASSUME TypeInv, UNCHANGED serverVars
  PROVE  ServersTypeOK'
BY DEF TypeInv, TypeOK, ServersTypeOK, serverVars

\* Self-messages of the RMS, and its environment.
LEMMA SelfMessageType ==
  ASSUME TypeInv, RmsSelfMessage \/ ClientsFinish \/ TimePasses, UNCHANGED serverVars
  PROVE  TypeInv'
<1> USE DEF TypeInv, TypeOK
<1>1. ServersTypeOK'
  BY ServersUnchanged
<1>2. CASE \E w \in jobMsg : RmsInternalJob(w[1], w[2])
  <2> PICK w \in jobMsg : RmsInternalJob(w[1], w[2])
    BY <1>2
  <2> DEFINE s == w[1]  c == w[2]
  <2>1. s \in Server /\ c \in Client /\ request[c].needMemory \in Nat
    BY DEF RmsTypeOK, SrvListTypeOK, Request, NoRequest
  <2>2. RequestMsg(c, request[c].needMemory) \in ToServerMessage
    BY <2>1 DEF RequestMsg, ToServerMessage
  <2>3. NetTypeOK'
    BY <2>1, <2>2 DEF NetTypeOK, RmsInternalJob, selfFrame
  <2>4. RmsTypeOK' /\ LoopInv'
    BY DEF RmsTypeOK, SrvListTypeOK, LoopInv, RmsInternalJob, selfFrame, serverInfoVars, clientVars
  <2> QED
    BY <1>1, <2>3, <2>4
<1>3. CASE \E w \in wakeupMsg : RmsInternalWakeup(w[1], w[2])
  <2> PICK w \in wakeupMsg : RmsInternalWakeup(w[1], w[2])
    BY <1>3
  <2>1. w[1] \in Server /\ WakeupMsg(w[2]) \in ToServerMessage
    BY DEF RmsTypeOK, SrvListTypeOK, WakeupMsg, ToServerMessage
  <2>2. NetTypeOK'
    BY <2>1 DEF NetTypeOK, RmsInternalWakeup, selfFrame
  <2>3. RmsTypeOK' /\ LoopInv'
    BY DEF RmsTypeOK, SrvListTypeOK, LoopInv, RmsInternalWakeup, selfFrame, serverInfoVars, clientVars
  <2> QED
    BY <1>1, <2>2, <2>3
<1>4. CASE \E s \in sleepMsg : RmsInternalSleep(s)
  <2> PICK s \in sleepMsg : RmsInternalSleep(s)
    BY <1>4
  <2>1. NetTypeOK'
    BY DEF NetTypeOK, RmsInternalSleep, selfFrame, ToServerMessage, RmsTypeOK, SrvListTypeOK
  <2>2. RmsTypeOK' /\ LoopInv'
    BY DEF RmsTypeOK, SrvListTypeOK, LoopInv, RmsInternalSleep, selfFrame, serverInfoVars, clientVars
  <2> QED
    BY <1>1, <2>1, <2>2
<1>5. CASE \E f \in finishMsg : RmsInternalFinish(f)
  <2> PICK f \in finishMsg : RmsInternalFinish(f)
    BY <1>5
  <2>1. NetTypeOK'
    BY DEF NetTypeOK, RmsInternalFinish, selfFrame
  <2>2. f.client \in Client /\ f.data \in Nat
    BY DEF RmsTypeOK, SrvListTypeOK
  <2>3. usoOutputData' \in Nat
    BY <2>2 DEF RmsTypeOK, SrvListTypeOK, RmsInternalFinish
  <2>4. finishSent' \subseteq [client : Client, data : Nat]
    BY <2>2, <2>3 DEF RmsTypeOK, SrvListTypeOK, RmsInternalFinish
  <2>5. RmsTypeOK' /\ LoopInv'
    BY <2>3, <2>4 DEF RmsTypeOK, SrvListTypeOK, LoopInv, RmsInternalFinish, selfFrame, serverInfoVars
  <2> QED
    BY <1>1, <2>1, <2>5
<1>6. CASE ClientsFinish
  <2>1. NetTypeOK'
    BY <1>6 DEF NetTypeOK, ClientsFinish, ClientFinish, selfFrame
  <2>2. RmsTypeOK' /\ LoopInv'
    BY <1>6 DEF RmsTypeOK, SrvListTypeOK, LoopInv, ClientsFinish, ClientFinish, selfFrame, serverInfoVars
  <2> QED
    BY <1>1, <2>1, <2>2
<1>7. CASE TimePasses
  <2>1. NetTypeOK'
    BY <1>7 DEF NetTypeOK, TimePasses
  <2>2. RmsTypeOK' /\ LoopInv'
    BY <1>7 DEF RmsTypeOK, SrvListTypeOK, LoopInv, TimePasses, placementVars, serverInfoVars, clientVars
  <2> QED
    BY <1>1, <2>1, <2>2
<1> QED
  BY <1>2, <1>3, <1>4, <1>5, <1>6, <1>7 DEF RmsSelfMessage

\* The handlers of the servers.
LEMMA ServerType ==
  ASSUME TypeInv, NEW s \in Server, ServerStep(s), UNCHANGED rmsVars
  PROVE  TypeInv'
<1> USE DEF TypeInv, TypeOK
<1>1. RmsTypeOK' /\ LoopInv'
  BY DEF rmsVars, placementVars, serverInfoVars, clientVars, RmsTypeOK, SrvListTypeOK, LoopInv
<1>2. ASSUME NEW m \in toServer[s], ServerRequest(s, m)
      PROVE  NetTypeOK' /\ ServersTypeOK'
  <2>1. m.client \in Client /\ m.memory \in Nat
    BY <1>2 DEF NetTypeOK, ServerRequest, ToServerMessage, SleepMsg
  <2>2. [client |-> m.client, memory |-> m.memory] \in [client : Client, memory : Nat]
    BY <2>1
  <2>3. simError' \in {"none", "usedMemory", "runningJobs"}
    BY <1>2 DEF ServerRequest
  <2>4. NetTypeOK'
    BY <1>2, <2>3 DEF NetTypeOK, ServerRequest
  <2>5. ServersTypeOK'
    BY <1>2, <2>1, <2>2 DEF ServersTypeOK, ServerRequest
  <2> QED
    BY <2>4, <2>5
<1>3. ASSUME NEW m \in toServer[s], ServerSleep(s, m)
      PROVE  NetTypeOK' /\ ServersTypeOK'
  BY <1>3 DEF NetTypeOK, ServersTypeOK, ServerSleep
<1>4. ASSUME NEW m \in toServer[s], ServerWakeup(s, m)
      PROVE  NetTypeOK' /\ ServersTypeOK'
  <2>1. m.client \in Client
    BY <1>4 DEF NetTypeOK, ServerWakeup, ToServerMessage, SleepMsg
  <2> QED
    BY <1>4, <2>1 DEF NetTypeOK, ServersTypeOK, ServerWakeup
<1>5. ASSUME NEW j \in complete[s], ServerResponse(s, j)
      PROVE  NetTypeOK' /\ ServersTypeOK'
  <2>1. j.client \in Client /\ j.memory \in Nat
    BY DEF ServersTypeOK
  <2>2. FinishMsg(j.client) \in ToRmsMessage
    BY <2>1 DEF FinishMsg, ToRmsMessage
  <2>3. NetTypeOK'
    BY <1>5, <2>2 DEF NetTypeOK, ServerResponse
  <2>4. ServersTypeOK'
    BY <1>5, <2>1 DEF ServersTypeOK, ServerResponse
  <2> QED
    BY <2>3, <2>4
<1>6. ASSUME ServerSleepResponse(s)
      PROVE  NetTypeOK' /\ ServersTypeOK'
  BY <1>6 DEF NetTypeOK, ServersTypeOK, ServerSleepResponse, ToRmsMessage
<1>7. ASSUME NEW c \in wakeupResponse[s], ServerWakeupResponse(s, c)
      PROVE  NetTypeOK' /\ ServersTypeOK'
  <2>1. WakeupResponseMsg(c) \in ToRmsMessage
    BY DEF ServersTypeOK, WakeupResponseMsg, ToRmsMessage
  <2> QED
    BY <1>7, <2>1 DEF NetTypeOK, ServersTypeOK, ServerWakeupResponse
<1> QED
  BY <1>1, <1>2, <1>3, <1>4, <1>5, <1>6, <1>7 DEF ServerStep

\* The messages of servers at the RMS.
LEMMA ReceiveType ==
  ASSUME TypeInv, NEW s \in Server, RmsReceive(s), UNCHANGED serverVars
  PROVE  TypeInv'
<1> USE DEF TypeInv, TypeOK
<1>1. ServersTypeOK'
  BY ServersUnchanged
<1>2. ASSUME NEW m \in toRms[s], RmsFinish(s, m)
      PROVE  NetTypeOK' /\ RmsTypeOK' /\ LoopInv'
  <2> DEFINE c == m.client
  <2>1. c \in Client
    BY <1>2 DEF NetTypeOK, RmsFinish, ToRmsMessage, SleepResponseMsg
  <2>2. request[c].cores \in Int /\ request[c].needMemory \in Int
    BY <2>1 DEF RmsTypeOK, SrvListTypeOK, Request, NoRequest
  <2>3. NetTypeOK'
    BY <1>2 DEF NetTypeOK, RmsFinish
  <2>4. /\ memory' \in [Server -> Int] /\ coresInUse' \in [Server -> Int]
        /\ state' \in [Server -> {"IDLE", "RUNNING"} \cup Asleep]
        /\ jobs' \in [Server -> SUBSET Client]
    <3>1. memory' \in [Server -> Int]
      BY <1>2, <2>2 DEF RmsTypeOK, SrvListTypeOK, RmsFinish
    <3>2. coresInUse' \in [Server -> Int]
      BY <1>2, <2>2 DEF RmsTypeOK, SrvListTypeOK, RmsFinish
    <3>3. state' \in [Server -> {"IDLE", "RUNNING"} \cup Asleep]
      BY <1>2 DEF RmsTypeOK, SrvListTypeOK, RmsFinish
    <3>4. jobs' \in [Server -> SUBSET Client]
      BY <1>2 DEF RmsTypeOK, SrvListTypeOK, RmsFinish
    <3> QED
      BY <3>1, <3>2, <3>3, <3>4
  <2>5. [client |-> c, data |-> outputData[c] + 1] \in [client : Client, data : Nat]
    BY <2>1 DEF RmsTypeOK, SrvListTypeOK
  <2>6. finishMsg' \subseteq [client : Client, data : Nat]
    BY <1>2, <2>5 DEF RmsTypeOK, SrvListTypeOK, RmsFinish
  <2>7. /\ request' \in [Client -> Request \cup {NoRequest}]
        /\ rjbList' \subseteq Client /\ cliList' \subseteq Client
        /\ serverNmb' \in [Client -> SUBSET Server]
        /\ wakeupNodes' \in [Client -> Nat] /\ needwakeupNodes' \in [Client -> Nat]
        /\ finishedServers' \in [Client -> Nat] /\ outputData' \in [Client -> Nat]
    <3>1. request' \in [Client -> Request \cup {NoRequest}]
      BY <1>2 DEF RmsTypeOK, SrvListTypeOK, RmsFinish
    <3>2. rjbList' \subseteq Client /\ cliList' \subseteq Client
      BY <1>2 DEF RmsTypeOK, SrvListTypeOK, RmsFinish
    <3>3. serverNmb' \in [Client -> SUBSET Server]
      BY <1>2 DEF RmsTypeOK, SrvListTypeOK, RmsFinish
    <3>4. /\ wakeupNodes' = wakeupNodes \/ wakeupNodes' = [wakeupNodes EXCEPT ![c] = 0]
          /\ \/ needwakeupNodes' = needwakeupNodes
             \/ needwakeupNodes' = [needwakeupNodes EXCEPT ![c] = 0]
          /\ \/ finishedServers' = [finishedServers EXCEPT ![c] = 0]
             \/ finishedServers' = [finishedServers EXCEPT ![c] = @ + 1]
          /\ \/ outputData' = [outputData EXCEPT ![c] = 0]
             \/ outputData' = [outputData EXCEPT ![c] = @ + 1]
      BY <1>2 DEF RmsFinish
    <3>5. wakeupNodes' \in [Client -> Nat] /\ needwakeupNodes' \in [Client -> Nat]
      <4>1. wakeupNodes \in [Client -> Nat] /\ needwakeupNodes \in [Client -> Nat]
        BY DEF RmsTypeOK, SrvListTypeOK
      <4> HIDE DEF c
      <4> QED
        BY <3>4, <4>1
    <3>6. finishedServers[c] + 1 \in Nat /\ outputData[c] + 1 \in Nat
      BY <2>1 DEF RmsTypeOK, SrvListTypeOK
    <3>7. finishedServers' \in [Client -> Nat] /\ outputData' \in [Client -> Nat]
      <4>1. finishedServers \in [Client -> Nat] /\ outputData \in [Client -> Nat]
        BY DEF RmsTypeOK, SrvListTypeOK
      <4> HIDE DEF c
      <4> QED
        BY <3>4, <3>6, <4>1
    <3> QED
      BY <3>1, <3>2, <3>3, <3>5, <3>7
  <2>8. /\ pc' \in {"idle", "findResources", "checkServers"} /\ index' \in Nat
        /\ LoopInv'
    BY <1>2 DEF RmsTypeOK, SrvListTypeOK, RmsFinish, Dequeue, AfterLoops, LoopInv
  <2>9. RmsTypeOK'
    BY <1>2, <2>4, <2>6, <2>7, <2>8 DEF RmsTypeOK, SrvListTypeOK, RmsFinish, clientVars
  <2> QED
    BY <2>3, <2>8, <2>9
<1>3. ASSUME NEW m \in toRms[s], RmsSleepResponse(s, m)
      PROVE  NetTypeOK' /\ RmsTypeOK' /\ LoopInv'
  <2>1. NetTypeOK'
    BY <1>3 DEF NetTypeOK, RmsSleepResponse
  <2>2. RmsTypeOK' /\ LoopInv'
    BY <1>3 DEF RmsTypeOK, SrvListTypeOK, LoopInv, RmsSleepResponse, clientVars
  <2> QED
    BY <2>1, <2>2
<1>4. ASSUME NEW m \in toRms[s], RmsWakeupResponse(s, m)
      PROVE  NetTypeOK' /\ RmsTypeOK' /\ LoopInv'
  <2> DEFINE c == m.client
             ready == wakeupNodes[c] + 1 = needwakeupNodes[c]
  <2>1. c \in Client
    BY <1>4 DEF NetTypeOK, RmsWakeupResponse, ToRmsMessage, SleepResponseMsg
  <2>2. request[c].needMemory \in Int
    BY <2>1 DEF RmsTypeOK, SrvListTypeOK, Request, NoRequest
  <2>3. NetTypeOK'
    BY <1>4 DEF NetTypeOK, RmsWakeupResponse
  <2>4. wakeupNodes' \in [Client -> Nat]
    BY <1>4, <2>1 DEF RmsTypeOK, SrvListTypeOK, RmsWakeupResponse
  <2>5. CASE ready
    <3>1. SendClientRequests(c) /\ Dequeue
      BY <1>4, <2>5 DEF RmsWakeupResponse
    <3>2. memory' \in [Server -> Int]
      BY <2>2, <3>1 DEF SendClientRequests, RmsTypeOK, SrvListTypeOK
    <3>3. /\ state' \in [Server -> {"IDLE", "RUNNING"} \cup Asleep]
          /\ jobMsg' \subseteq Server \X Client /\ rjbList' \subseteq Client
      BY <2>1, <3>1 DEF SendClientRequests, RmsTypeOK, SrvListTypeOK
    <3>4. reserved' \in [Server -> BOOLEAN]
      BY <3>1, Zenon DEF SendClientRequests
    <3>5. pc' \in {"idle", "findResources", "checkServers"} /\ index' \in Nat
      BY <3>1 DEF Dequeue, AfterLoops, RmsTypeOK, SrvListTypeOK
    <3>6. RmsTypeOK'
      BY <1>4, <2>4, <3>1, <3>2, <3>3, <3>4, <3>5
      DEF RmsTypeOK, SrvListTypeOK, RmsWakeupResponse, SendClientRequests, clientVars
    <3>7. LoopInv'
      BY <1>4, <3>1 DEF Dequeue, AfterLoops, LoopInv, RmsWakeupResponse
    <3> QED
      BY <2>3, <3>6, <3>7
  <2>6. CASE ~ready
    <3>1. UNCHANGED <<placementVars, pc, index>>
      BY <1>4, <2>6 DEF RmsWakeupResponse
    <3>2. RmsTypeOK' /\ LoopInv'
      BY <1>4, <2>4, <3>1 DEF RmsTypeOK, SrvListTypeOK, LoopInv, RmsWakeupResponse, placementVars, serverInfoVars, clientVars
    <3> QED
      BY <2>3, <3>2
  <2> QED
    BY <2>5, <2>6
<1> QED
  BY <1>1, <1>2, <1>3, <1>4 DEF RmsReceive

\* A step that places nothing.
LEMMA NoPlacementType ==
  ASSUME TypeOK, UNCHANGED <<placementVars, simError>>
  PROVE  PlacementTypeOK'
BY DEF TypeOK, NetTypeOK, RmsTypeOK, SrvListTypeOK, PlacementTypeOK, placementVars, serverInfoVars

\* A request of a client.
LEMMA RequestType ==
  ASSUME TypeInv, NEW c \in Client, NEW r \in Requests[c], RmsClientRequest(c, r),
         UNCHANGED serverVars
  PROVE  TypeInv'
<1> USE DEF TypeInv
<1>1. ServersTypeOK'
  BY ServersUnchanged
<1>2. r \in Request
  BY RequestsAssumption
<1>3. /\ \/ \E T \in SUBSET Eligible(r) : SearchServers(r, T) /\ InitServerConnection(c, r, T)
         \/ UNCHANGED <<placementVars, simError>>
      /\ jobQueue' = jobQueue \/ jobQueue' = Append(jobQueue, c)
      /\ pc' \in {"idle", "checkServers"}
  BY DEF RmsClientRequest, CheckQueue, Place, EnqueueJob, AfterLoops
<1>4. PlacementTypeOK'
  <2>1. CASE \E T \in SUBSET Eligible(r) : SearchServers(r, T) /\ InitServerConnection(c, r, T)
    <3> PICK T \in SUBSET Eligible(r) : InitServerConnection(c, r, T)
      BY <2>1
    <3> QED
      BY <1>2, PlacementType DEF Eligible
  <2>2. CASE UNCHANGED <<placementVars, simError>>
    BY <2>2, NoPlacementType
  <2> QED
    BY <1>3, <2>1, <2>2
<1>5. jobQueue' \in Seq(Client)
  <2>1. jobQueue' = jobQueue \/ jobQueue' = Append(jobQueue, c)
    BY <1>3
  <2>2. jobQueue \in Seq(Client)
    BY DEF TypeOK, RmsTypeOK, SrvListTypeOK
  <2> QED
    BY <2>1, <2>2
<1>6. request' \in [Client -> Request \cup {NoRequest}]
  BY <1>2 DEF TypeOK, RmsTypeOK, SrvListTypeOK, RmsClientRequest
<1>7. sentRequests' \in [Client -> Nat]
  BY DEF TypeOK, RmsTypeOK, SrvListTypeOK, RmsClientRequest
<1>8. RmsTypeOK' /\ LoopInv'
  BY <1>3, <1>4, <1>5, <1>6, <1>7
  DEF TypeOK, RmsTypeOK, SrvListTypeOK, PlacementTypeOK, LoopInv, RmsClientRequest
<1>9. NetTypeOK'
  BY <1>4 DEF TypeOK, NetTypeOK, PlacementTypeOK, RmsClientRequest
<1> QED
  BY <1>1, <1>8, <1>9 DEF TypeOK

\* A job leaves the queue for its servers, or stays there.
LEMMA QueueStepType ==
  ASSUME TypeOK, NEW i \in 1 .. Len(jobQueue), StartQueued(i) \/ NoneStarted
  PROVE  /\ PlacementTypeOK' /\ jobQueue' \in Seq(Client)
         /\ Len(jobQueue') \in {Len(jobQueue), Len(jobQueue) - 1}
<1>1. jobQueue \in Seq(Client)
  BY DEF TypeOK, RmsTypeOK
<1>2. CASE StartQueued(i)
  <2> DEFINE c == jobQueue[i]
  <2>1. c \in Client /\ request[c] \in Request \cup {NoRequest}
    BY <1>1 DEF TypeOK, RmsTypeOK
  <2>2. PICK T \in SUBSET Server : InitServerConnection(c, request[c], T)
    BY <1>2 DEF StartQueued, Eligible
  <2>3. PlacementTypeOK'
    BY <2>1, <2>2, PlacementType
  <2>4. jobQueue' = RemoveAt(jobQueue, i)
    BY <1>2 DEF StartQueued
  <2> QED
    BY <1>1, <2>3, <2>4, RemoveAtType
<1>3. CASE NoneStarted
  BY <1>1, <1>3, NoPlacementType DEF NoneStarted
<1> QED
  BY <1>2, <1>3

\* The loops of the RMS.
LEMMA LoopType ==
  ASSUME TypeInv, RmsLoop, UNCHANGED serverVars
  PROVE  TypeInv'
<1> USE DEF TypeInv
<1>1. ServersTypeOK'
  BY ServersUnchanged
<1>6. jobQueue \in Seq(Client) /\ Len(jobQueue) \in Nat
  BY DEF TypeOK, RmsTypeOK
\* What is left to show once the queue and the loop are known to be in order.
<1>7. ASSUME PlacementTypeOK', jobQueue' \in Seq(Client), UNCHANGED <<loopFrame, sleepMsg>>,
             pc' \in {"idle", "findResources", "firstFit", "bestFit", "checkServers"},
             index' \in Nat, LoopInv'
      PROVE  TypeInv'
  <2>1. RmsTypeOK'
    BY <1>7 DEF TypeOK, RmsTypeOK, SrvListTypeOK, PlacementTypeOK, loopFrame, clientVars
  <2>2. NetTypeOK'
    BY <1>7 DEF TypeOK, NetTypeOK, PlacementTypeOK, loopFrame
  <2> QED
    BY <1>1, <1>7, <2>1, <2>2 DEF TypeOK
<1>2. CASE FindResources
  <2>1. jobQueue # <<>> /\ 1 \in 1 .. Len(jobQueue)
    BY <1>2, <1>6 DEF FindResources, LoopInv
  <2>2. /\ StartQueued(1) \/ NoneStarted
        /\ AfterFindResources \/ (jobQueue' # <<>> /\ UNCHANGED <<pc, index>>)
        /\ UNCHANGED <<loopFrame, sleepMsg>>
    BY <1>2 DEF FindResources
  <2>3. PlacementTypeOK' /\ jobQueue' \in Seq(Client)
    BY <2>1, <2>2, QueueStepType
  <2>4. /\ pc' \in {"idle", "findResources", "firstFit", "bestFit", "checkServers"}
        /\ index' \in Nat /\ LoopInv'
    <3>1. CASE jobQueue' # <<>> /\ UNCHANGED <<pc, index>>
      BY <1>2, <3>1 DEF TypeOK, RmsTypeOK, SrvListTypeOK, LoopInv, FindResources
    <3>2. CASE AfterFindResources
      <4>1. pc' \in {AfterLoops, "firstFit", "bestFit", "idle"} /\ index' \in {0, 2}
        BY <3>2, SchedulingAssumption DEF AfterFindResources
      <4>2. pc' = "firstFit" => index' = 2 /\ Len(jobQueue') > 1
        BY <3>2, SchedulingAssumption DEF AfterFindResources, AfterLoops
      <4>3. Len(jobQueue') \in Nat
        BY <2>3
      <4> QED
        BY <4>1, <4>2, <4>3 DEF AfterLoops, LoopInv
    <3> QED
      BY <2>2, <3>1, <3>2
  <2> QED
    BY <1>7, <2>2, <2>3, <2>4
<1>3. CASE FirstFit
  <2>1. index \in 2 .. Len(jobQueue)
    BY <1>3 DEF FirstFit, LoopInv
  <2>2. /\ StartQueued(index) \/ NoneStarted
        /\ index' \in {index, index + 1}
        /\ pc' = IF index' <= Len(jobQueue') /\ IsResourcesAvailable' THEN "firstFit" ELSE AfterLoops
        /\ UNCHANGED <<loopFrame, sleepMsg>>
    BY <1>3 DEF FirstFit
  <2>3. PlacementTypeOK' /\ jobQueue' \in Seq(Client)
    BY <1>6, <2>1, <2>2, QueueStepType
  <2>4. /\ pc' \in {"idle", "firstFit", "checkServers"}
        /\ index' \in Nat /\ LoopInv'
    BY <1>6, <2>1, <2>2, <2>3 DEF AfterLoops, LoopInv
  <2> QED
    BY <1>7, <2>2, <2>3, <2>4
<1>4. CASE BestFit
  <2>1. \/ \E i \in 2 .. Len(jobQueue) : StartQueued(i)
        \/ NoneStarted
    BY <1>4 DEF BestFit
  <2>2. PlacementTypeOK' /\ jobQueue' \in Seq(Client)
    <3>1. CASE NoneStarted
      BY <1>6, <3>1, NoPlacementType DEF NoneStarted
    <3>2. ASSUME NEW i \in 2 .. Len(jobQueue), StartQueued(i)
          PROVE  PlacementTypeOK' /\ jobQueue' \in Seq(Client)
      <4>1. i \in 1 .. Len(jobQueue)
        BY <1>6
      <4> QED
        BY <3>2, <4>1, QueueStepType
    <3> QED
      BY <2>1, <3>1, <3>2
  <2>3. /\ pc' \in {"idle", "bestFit", "checkServers"}
        /\ UNCHANGED <<loopFrame, sleepMsg, index>>
    BY <1>4 DEF BestFit, AfterLoops
  <2>4. index' \in Nat /\ LoopInv'
    BY <2>3 DEF TypeOK, RmsTypeOK, LoopInv
  <2> QED
    BY <1>7, <2>2, <2>3, <2>4
<1>5. CASE CheckServers
  <2> PICK hybernate \in SUBSET Server :
        /\ state' = [s \in Server |-> IF s \in hybernate THEN "HYBERNATED" ELSE state[s]]
        /\ reserved' = [s \in Server |-> s \in hybernate \/ reserved[s]]
        /\ sleepMsg' = sleepMsg \cup hybernate
    BY <1>5 DEF CheckServers, IdleServers
  <2>1. state' \in [Server -> {"IDLE", "RUNNING"} \cup Asleep]
    BY DEF TypeOK, RmsTypeOK, SrvListTypeOK, Asleep
  <2>2. reserved' \in [Server -> BOOLEAN]
    BY Zenon
  <2>3. RmsTypeOK' /\ LoopInv'
    BY <1>5, <2>1, <2>2 DEF TypeOK, RmsTypeOK, SrvListTypeOK, LoopInv, CheckServers, loopFrame, clientVars
  <2>4. NetTypeOK'
    BY <1>5 DEF TypeOK, NetTypeOK, CheckServers, loopFrame
  <2> QED
    BY <1>1, <2>3, <2>4 DEF TypeOK
<1> QED
  BY <1>2, <1>3, <1>4, <1>5 DEF RmsLoop

\* The inductive invariant.
LEMMA TypeInvariant == Spec => []TypeInv
<1>1. Init => TypeInv
  <2> SUFFICES ASSUME Init PROVE TypeInv
    OBVIOUS
  <2>1. NetTypeOK
    BY DEF Init, NetInit, NetTypeOK
  <2>2. ServersTypeOK
    BY DEF Init, ServersInit, ServersTypeOK
  <2>3. RmsTypeOK
    <3>1. /\ state \in [Server -> {"IDLE", "RUNNING"} \cup Asleep]
          /\ memory \in [Server -> Int] /\ coresInUse \in [Server -> Int]
      BY MemoryAssumption DEF Init, RmsInit, SrvListInit
    <3>2. reserved \in [Server -> BOOLEAN] /\ jobs \in [Server -> SUBSET Client]
      BY DEF Init, RmsInit, SrvListInit
    <3>3. /\ request \in [Client -> Request \cup {NoRequest}]
          /\ serverNmb \in [Client -> SUBSET Server]
      BY DEF Init, RmsInit, SrvListInit
    <3>4. /\ wakeupNodes \in [Client -> Nat] /\ needwakeupNodes \in [Client -> Nat]
          /\ finishedServers \in [Client -> Nat] /\ outputData \in [Client -> Nat]
          /\ sentRequests \in [Client -> Nat]
      BY DEF Init, RmsInit, SrvListInit
    <3>5. jobQueue \in Seq(Client)
      BY DEF Init, RmsInit, SrvListInit
    <3> QED
      BY <3>1, <3>2, <3>3, <3>4, <3>5 DEF Init, RmsInit, SrvListInit, RmsTypeOK, SrvListTypeOK
  <2>4. LoopInv
    BY DEF Init, RmsInit, SrvListInit, LoopInv
  <2> QED
    BY <2>1, <2>2, <2>3, <2>4 DEF TypeInv, TypeOK
<1>2. TypeInv /\ [Next]_vars => TypeInv'
  <2> SUFFICES ASSUME TypeInv, [Next]_vars PROVE TypeInv'
    OBVIOUS
  <2>1. CASE RmsEvent /\ UNCHANGED serverVars
    BY <2>1, LoopType, SelfMessageType, ReceiveType DEF RmsEvent
  <2>2. CASE ServerEvent /\ UNCHANGED rmsVars
    BY <2>2, ServerType DEF ServerEvent
  <2>3. CASE Stimulus
    BY <2>3, RequestType, SelfMessageType DEF Stimulus, RmsRequests
  <2>4. CASE UNCHANGED vars
    BY <2>4 DEF vars, netVars, rmsVars, serverVars, placementVars, serverInfoVars, clientVars,
         TypeInv, TypeOK, NetTypeOK, RmsTypeOK, SrvListTypeOK, ServersTypeOK, LoopInv
  <2> QED
    BY <2>1, <2>2, <2>3, <2>4 DEF Next, Event
<1> QED
  BY <1>1, <1>2, PTL DEF Spec

\* The variables of the data centre always have their types: every handler of the RMS and of
\* its servers, and every loop a handler runs, keeps them.
THEOREM TypeCorrect == Spec => []TypeOK
<1>1. TypeInv => TypeOK
  BY DEF TypeInv
<1> QED
  BY <1>1, TypeInvariant, PTL

----------------------------------------------------------------------------
(* FIFO scheduling *)

\* FIFO scheduling never enters a backfill loop.
NoBackfill == pc \notin {"firstFit", "bestFit"}

\* No handler enters one.
LEMMA NoBackfillStep ==
  ASSUME Scheduling = 1, NoBackfill, [Next]_vars
  PROVE  NoBackfill'
<1> USE DEF NoBackfill
<1>1. \/ UNCHANGED pc
      \/ pc' \in {"idle", "findResources", "checkServers"}
  <2>1. CASE RmsEvent
    <3>1. CASE RmsLoop
      BY <3>1 DEF RmsLoop, FindResources, AfterFindResources, FirstFit, BestFit, CheckServers, AfterLoops
    <3>2. CASE RmsSelfMessage
      BY <3>2 DEF RmsSelfMessage, RmsInternalJob, RmsInternalWakeup, RmsInternalSleep,
           RmsInternalFinish, selfFrame
    <3>3. CASE \E s \in Server : RmsReceive(s)
      BY <3>3 DEF RmsReceive, RmsFinish, RmsSleepResponse, RmsWakeupResponse, Dequeue, AfterLoops
    <3>4. CASE ClientsFinish
      BY <3>4 DEF ClientsFinish, ClientFinish, selfFrame
    <3> QED
      BY <2>1, <3>1, <3>2, <3>3, <3>4 DEF RmsEvent
  <2>2. CASE Stimulus
    BY <2>2 DEF Stimulus, RmsRequests, RmsClientRequest, CheckQueue, AfterLoops, TimePasses
  <2>3. CASE UNCHANGED rmsVars
    BY <2>3 DEF rmsVars
  <2>4. CASE UNCHANGED vars
    BY <2>4 DEF vars, rmsVars
  <2> QED
    BY <2>1, <2>2, <2>3, <2>4 DEF Next, Event
<1> QED
  BY <1>1

\* The only job that a placement places is the one it is for.
LEMMA PlacesOne ==
  ASSUME TypeOK, NEW c \in Client, NEW d \in Client, NEW r, NEW T,
         InitServerConnection(d, r, T), ~Placed(c), Placed(c)'
  PROVE  c = d
BY DEF InitServerConnection, Placed, TypeOK, RmsTypeOK

\* No other step of the RMS places a job.
LEMMA PlacesNone ==
  ASSUME TypeOK, NEW c \in Client, ~Placed(c), Placed(c)'
  PROVE  /\ ~ UNCHANGED serverNmb
         /\ ~ CheckServers /\ ~ RmsSelfMessage /\ ~ ClientsFinish /\ ~ TimePasses
         /\ \A s \in Server : ~ RmsReceive(s)
<1>1. serverNmb'[c] # serverNmb[c] /\ serverNmb'[c] # {}
  BY DEF Placed
<1>2. ~ CheckServers /\ ~ RmsSelfMessage /\ ~ ClientsFinish /\ ~ TimePasses
  BY <1>1 DEF CheckServers, RmsSelfMessage, RmsInternalJob, RmsInternalWakeup, RmsInternalSleep,
       RmsInternalFinish, selfFrame, ClientsFinish, ClientFinish, TimePasses, placementVars
<1>3. ASSUME NEW s \in Server, RmsReceive(s)
      PROVE  FALSE
  <2>1. PICK m \in toRms[s] : RmsFinish(s, m) \/ RmsSleepResponse(s, m) \/ RmsWakeupResponse(s, m)
    BY <1>3 DEF RmsReceive
  <2>2. UNCHANGED serverNmb \/ serverNmb' = [serverNmb EXCEPT ![m.client] = {}]
    BY <2>1 DEF RmsFinish, RmsSleepResponse, RmsWakeupResponse, SendClientRequests, placementVars
  <2> QED
    BY <1>1, <2>2 DEF TypeOK, RmsTypeOK
<1> QED
  BY <1>1, <1>2, <1>3

\* With FIFO scheduling, a step that places a job places the one at the head of the queue, or a
\* new one that finds the queue empty.
LEMMA FifoStep ==
  ASSUME Scheduling = 1, TypeInv, NoBackfill, Next, NEW c \in Client, ~Placed(c), Placed(c)'
  PROVE  jobQueue = <<>> \/ Head(jobQueue) = c
<1> USE DEF TypeInv
<1>1. CASE RmsLoop
  <2>1. FindResources
    BY <1>1, PlacesNone DEF RmsLoop, NoBackfill, FirstFit, BestFit
  <2>2. jobQueue \in Seq(Client) /\ jobQueue # <<>> /\ jobQueue[1] \in Client
    BY <2>1 DEF FindResources, LoopInv, TypeOK, RmsTypeOK
  <2>3. StartQueued(1)
    BY <2>1, PlacesNone DEF FindResources, NoneStarted, placementVars
  <2>4. c = jobQueue[1]
    BY <2>2, <2>3, PlacesOne DEF StartQueued
  <2> QED
    BY <2>2, <2>4
<1>2. CASE RmsRequests
  <2>1. PICK d \in Client : \E r \in Requests[d] : CheckQueue(d, r)
    BY <1>2 DEF RmsRequests, RmsClientRequest
  <2>2. CASE jobQueue = <<>>
    BY <2>2
  <2>3. CASE jobQueue # <<>>
    <3>1. EnqueueJob(d)
      BY <2>1, <2>3 DEF CheckQueue
    <3> QED
      BY <3>1, PlacesNone DEF EnqueueJob, placementVars
  <2> QED
    BY <2>2, <2>3
<1>3. CASE UNCHANGED rmsVars
  BY <1>3, PlacesNone DEF rmsVars, placementVars
<1> QED
  BY <1>1, <1>2, <1>3, PlacesNone DEF Next, Event, Stimulus, RmsEvent

\* FIFO scheduling serves jobs in the order in which they came: whatever the servers do, a job
\* that waits is never overtaken (checkQueue, findResources).
THEOREM FifoServesInOrder ==
  ASSUME Scheduling = 1
  PROVE  Spec => FifoOrder
<1>1. Init => NoBackfill
  BY DEF Init, RmsInit, NoBackfill
<1>2. NoBackfill /\ [Next]_vars => NoBackfill'
  BY NoBackfillStep
<1>3. TypeInv /\ NoBackfill /\ [Next]_vars
        => [\A c \in Client : ~Placed(c) /\ Placed(c)' => jobQueue = <<>> \/ Head(jobQueue) = c]_vars
  BY FifoStep
<1> QED
  BY <1>1, <1>2, <1>3, TypeInvariant, PTL DEF Spec, FifoOrder

----------------------------------------------------------------------------
(* Resources counted unit by unit *)

Units(C, n, amount) == {u \in C \X (1 .. n) : u[2] <= amount[u[1]]}

\* The units of finitely many holders are finitely many.
LEMMA UnitsFinite ==
  ASSUME NEW C, IsFiniteSet(C), NEW n \in Nat, NEW amount
  PROVE  IsFiniteSet(Units(C, n, amount)) /\ Cardinality(Units(C, n, amount)) \in Nat
<1>1. IsFiniteSet(1 .. n)
  BY FS_Interval
<1>2. IsFiniteSet(C \X (1 .. n))
  BY <1>1, FS_Product
<1>3. Units(C, n, amount) \in SUBSET (C \X (1 .. n))
  BY DEF Units
<1> QED
  BY <1>2, <1>3, FS_Subset, FS_CardinalityType

\* A further holder adds what it holds.
LEMMA UnitsAdd ==
  ASSUME NEW C, IsFiniteSet(C), NEW c, c \notin C, NEW n \in Nat, NEW amount, amount[c] \in 0 .. n
  PROVE  Cardinality(Units(C \cup {c}, n, amount)) = Cardinality(Units(C, n, amount)) + amount[c]
<1> DEFINE own == {c} \X (1 .. amount[c])
<1>1. Units(C \cup {c}, n, amount) = Units(C, n, amount) \cup own
  BY DEF Units
<1>2. Units(C, n, amount) \cap own = {}
  BY DEF Units
<1>3. IsFiniteSet(own) /\ Cardinality(own) = amount[c]
  <2>1. IsFiniteSet({c}) /\ Cardinality({c}) = 1
    BY FS_Singleton
  <2>2. IsFiniteSet(1 .. amount[c]) /\ Cardinality(1 .. amount[c]) = amount[c]
    <3>1. PICK k \in 0 .. n : k = amount[c]
      OBVIOUS
    <3>2. k \in Int /\ k >= 0
      OBVIOUS
    <3>3. IsFiniteSet(1 .. k) /\ Cardinality(1 .. k) = IF 1 > k THEN 0 ELSE k - 1 + 1
      <4>1. 1 \in Int
        OBVIOUS
      <4> QED
        BY <3>2, <4>1, FS_Interval, Zenon
    <3>4. Cardinality(1 .. k) = k
      BY <3>2, <3>3
    <3> QED
      BY <3>1, <3>3, <3>4
  <2>3. IsFiniteSet(own) /\ Cardinality(own) = 1 * amount[c]
    BY <2>1, <2>2, FS_Product
  <2> QED
    BY <2>3
<1> HIDE DEF own
<1>4. IsFiniteSet(Units(C, n, amount)) /\ Cardinality(Units(C, n, amount)) \in Nat
  BY UnitsFinite
<1>5. Cardinality(Units(C, n, amount) \cup own)
        = Cardinality(Units(C, n, amount)) + Cardinality(own) - Cardinality({})
  BY <1>2, <1>3, <1>4, FS_Union
<1>6. Cardinality({}) = 0
  BY FS_EmptySet
<1>7. Cardinality(Units(C, n, amount) \cup own) = Cardinality(Units(C, n, amount)) + amount[c]
  BY <1>3, <1>4, <1>5, <1>6
<1> QED
  BY <1>1, <1>7, Zenon

\* A holder that goes gives back what it held.
LEMMA UnitsRemove ==
  ASSUME NEW C, IsFiniteSet(C), NEW c \in C, NEW n \in Nat, NEW amount, amount[c] \in 0 .. n
  PROVE  Cardinality(Units(C \ {c}, n, amount)) = Cardinality(Units(C, n, amount)) - amount[c]
<1>1. IsFiniteSet(C \ {c}) /\ c \notin C \ {c} /\ (C \ {c}) \cup {c} = C
  BY FS_RemoveElement
<1>2. Cardinality(Units(C \ {c}, n, amount)) \in Nat
  BY <1>1, UnitsFinite
<1>3. Cardinality(Units((C \ {c}) \cup {c}, n, amount)) = Cardinality(Units(C \ {c}, n, amount)) + amount[c]
  BY <1>1, UnitsAdd
<1>4. Cardinality(Units(C, n, amount)) = Cardinality(Units(C \ {c}, n, amount)) + amount[c]
  BY <1>1, <1>3, Zenon
<1>5. \A x, y, z \in Int : x = y + z => y = x - z
  OBVIOUS
<1>6. Cardinality(Units(C \ {c}, n, amount)) \in Int /\ Cardinality(Units(C, n, amount)) \in Int /\ amount[c] \in Int
  BY <1>2, UnitsFinite
<1> QED
  BY <1>4, <1>5, <1>6, Zenon

\* Only the amounts of the holders count.
LEMMA UnitsSame ==
  ASSUME NEW C, NEW n, NEW a, NEW b, \A c \in C : a[c] = b[c]
  PROVE  Units(C, n, a) = Units(C, n, b)
BY DEF Units

\* Whoever holds something makes the sum positive.
LEMMA UnitsPositive ==
  ASSUME NEW C, IsFiniteSet(C), NEW c \in C, NEW n \in Nat, NEW amount, amount[c] \in 1 .. n
  PROVE  Cardinality(Units(C, n, amount)) > 0
<1>1. <<c, 1>> \in Units(C, n, amount)
  BY DEF Units
<1> QED
  BY <1>1, UnitsFinite, FS_EmptySet

\* Nobody holds nothing.
LEMMA UnitsEmpty ==
  ASSUME NEW n, NEW amount
  PROVE  Cardinality(Units({}, n, amount)) = 0
<1>1. Units({}, n, amount) = {}
  BY DEF Units
<1> QED
  BY <1>1, FS_EmptySet

----------------------------------------------------------------------------
(* A queue without repetition *)

\* A job that leaves the queue leaves it for good, and the others stay, each once.
LEMMA RemoveAtElements ==
  ASSUME NEW S, NEW q \in Seq(S), NEW i \in 1 .. Len(q), IsInjective(q)
  PROVE  IsInjective(RemoveAt(q, i)) /\ ToSet(RemoveAt(q, i)) = ToSet(q) \ {q[i]}
<1> DEFINE p == RemoveAt(q, i)
<1>1. p \in Seq(S) /\ Len(p) = Len(q) - 1
  BY RemoveAtType
<1>2. \A k \in 1 .. Len(p) : p[k] = IF k < i THEN q[k] ELSE q[k + 1]
  <2>1. SubSeq(q, 1, i - 1) \in Seq(S) /\ Len(SubSeq(q, 1, i - 1)) = i - 1
    OBVIOUS
  <2>2. SubSeq(q, i + 1, Len(q)) \in Seq(S) /\ Len(SubSeq(q, i + 1, Len(q))) = Len(q) - i
    OBVIOUS
  <2>3. \A k \in 1 .. i - 1 : SubSeq(q, 1, i - 1)[k] = q[k]
    OBVIOUS
  <2>4. \A k \in 1 .. Len(q) - i : SubSeq(q, i + 1, Len(q))[k] = q[k + i]
    OBVIOUS
  <2> DEFINE a == SubSeq(q, 1, i - 1)  b == SubSeq(q, i + 1, Len(q))
  <2> HIDE DEF a, b
  <2>5. \A k \in 1 .. Len(a) + Len(b) : (a \o b)[k] = IF k <= Len(a) THEN a[k] ELSE b[k - Len(a)]
    <3>1. a \in Seq(S) /\ b \in Seq(S)
      BY <2>1, <2>2 DEF a, b
    <3> QED
      BY <3>1
  <2>6. p = a \o b
    BY DEF RemoveAt, a, b
  <2> SUFFICES ASSUME NEW k \in 1 .. Len(p) PROVE p[k] = IF k < i THEN q[k] ELSE q[k + 1]
    OBVIOUS
  <2>7. Len(a) = i - 1 /\ Len(b) = Len(q) - i /\ Len(q) \in Nat /\ k \in 1 .. Len(q) - 1
    BY <1>1, <2>1, <2>2 DEF a, b
  <2>8. p[k] = IF k <= i - 1 THEN a[k] ELSE b[k - (i - 1)]
    BY <2>5, <2>6, <2>7
  <2>9. CASE k < i
    BY <2>3, <2>7, <2>8, <2>9 DEF a
  <2>10. CASE k >= i
    <3>1. k - (i - 1) \in 1 .. Len(q) - i /\ k - (i - 1) + i = k + 1
      BY <2>7, <2>10
    <3> QED
      BY <2>4, <2>7, <2>8, <2>10, <3>1 DEF b
  <2> QED
    BY <2>7, <2>9, <2>10
<1> HIDE DEF p
<1>3. \A j, k \in 1 .. Len(q) : q[j] = q[k] => j = k
  BY DEF IsInjective
<1>4. Len(q) \in Nat /\ DOMAIN p = 1 .. Len(p) /\ DOMAIN q = 1 .. Len(q)
  BY <1>1
<1>5. IsInjective(p)
  <2> SUFFICES ASSUME NEW j \in 1 .. Len(p), NEW k \in 1 .. Len(p), p[j] = p[k] PROVE j = k
    BY <1>4 DEF IsInjective
  <2>1. j \in 1 .. Len(q) /\ k \in 1 .. Len(q) /\ j + 1 \in 1 .. Len(q) /\ k + 1 \in 1 .. Len(q)
    BY <1>1, <1>4
  <2>2. p[j] = (IF j < i THEN q[j] ELSE q[j + 1]) /\ p[k] = (IF k < i THEN q[k] ELSE q[k + 1])
    BY <1>2
  <2>3. j \in Int /\ k \in Int /\ i \in Int
    BY <1>4
  <2>4. CASE j < i /\ k < i
    BY <1>3, <2>1, <2>2, <2>4
  <2>5. CASE j < i /\ ~(k < i)
    <3>1. q[j] = q[k + 1]
      BY <2>2, <2>5, Zenon
    <3>2. j = k + 1
      BY <1>3, <2>1, <3>1, Zenon
    <3> QED
      BY <2>3, <2>5, <3>2
  <2>6. CASE ~(j < i) /\ k < i
    <3>1. q[j + 1] = q[k]
      BY <2>2, <2>6, Zenon
    <3>2. j + 1 = k
      BY <1>3, <2>1, <3>1, Zenon
    <3> QED
      BY <2>3, <2>6, <3>2
  <2>7. CASE ~(j < i) /\ ~(k < i)
    <3>1. q[j + 1] = q[k + 1]
      BY <2>2, <2>7, Zenon
    <3>2. j + 1 = k + 1
      BY <1>3, <2>1, <3>1, Zenon
    <3> QED
      BY <2>3, <3>2
  <2> QED
    BY <2>4, <2>5, <2>6, <2>7
<1>6. ToSet(p) \subseteq ToSet(q) \ {q[i]}
  <2> SUFFICES ASSUME NEW k \in 1 .. Len(p) PROVE p[k] \in ToSet(q) /\ p[k] # q[i]
    BY <1>4 DEF ToSet
  <2>1. k \in 1 .. Len(q) /\ k + 1 \in 1 .. Len(q)
    BY <1>1, <1>4
  <2> QED
    BY <1>2, <1>3, <1>4, <2>1 DEF ToSet
<1>7. ToSet(q) \ {q[i]} \subseteq ToSet(p)
  <2> SUFFICES ASSUME NEW k \in 1 .. Len(q), k # i PROVE q[k] \in ToSet(p)
    BY <1>4 DEF ToSet
  <2>1. CASE k < i
    <3>1. k \in 1 .. Len(p) /\ p[k] = q[k]
      BY <1>1, <1>2, <1>4, <2>1
    <3> QED
      BY <1>4, <3>1 DEF ToSet
  <2>2. CASE k > i
    <3>1. k - 1 \in 1 .. Len(p) /\ p[k - 1] = q[k]
      BY <1>1, <1>2, <1>4, <2>2
    <3> QED
      BY <1>4, <3>1 DEF ToSet
  <2> QED
    BY <1>4, <2>1, <2>2
<1> QED
  BY <1>5, <1>6, <1>7 DEF p

\* A job that is not in the queue may be appended.
LEMMA AppendElements ==
  ASSUME NEW S, NEW q \in Seq(S), NEW e \in S
  PROVE  /\ ToSet(Append(q, e)) = ToSet(q) \cup {e}
         /\ IsInjective(q) /\ e \notin ToSet(q) => IsInjective(Append(q, e))
<1>1. /\ Append(q, e) \in Seq(S) /\ Len(Append(q, e)) = Len(q) + 1 /\ Len(q) \in Nat
      /\ \A k \in 1 .. Len(q) : Append(q, e)[k] = q[k]
      /\ Append(q, e)[Len(q) + 1] = e
  OBVIOUS
<1> DEFINE p == Append(q, e)
<1> HIDE DEF p
<1>2. /\ DOMAIN q = 1 .. Len(q) /\ DOMAIN p = 1 .. Len(q) + 1 /\ Len(q) \in Nat
      /\ \A k \in 1 .. Len(q) : p[k] = q[k]
      /\ p[Len(q) + 1] = e
  BY <1>1 DEF p
<1>3. ToSet(p) = ToSet(q) \cup {e}
  BY <1>2 DEF ToSet
<1>4. ASSUME IsInjective(q), e \notin ToSet(q)
      PROVE  IsInjective(p)
  BY <1>2, <1>4 DEF ToSet, IsInjective
<1> QED
  BY <1>3, <1>4 DEF p

----------------------------------------------------------------------------
(* The inductive invariant *)

Steps == {"scheduled", "sent", "timer", "answered"}

\* How far the sleep (d = NoClient) or the wake-up for d is at server s: the elements of Exchanges(s).
ExchangeAt(s, d, step) ==
    \/ step = "scheduled" /\ (IF d = NoClient THEN s \in sleepMsg ELSE <<s, d>> \in wakeupMsg)
    \/ step = "sent" /\ (IF d = NoClient THEN SleepMsg \in toServer[s] ELSE WakeupMsg(d) \in toServer[s])
    \/ step = "timer" /\ (IF d = NoClient THEN sleepResponse[s] ELSE d \in wakeupResponse[s])
    \/ step = "answered" /\ (IF d = NoClient THEN SleepResponseMsg \in toRms[s]
                                             ELSE WakeupResponseMsg(d) \in toRms[s])

\* How far the part of the job of c is at server s: the elements of Part(s, c).
PartAt(s, c, k) ==
    \/ k = 1 /\ <<s, c>> \in jobMsg
    \/ k = 2 /\ \E m \in toServer[s] : m.type = "REQUEST" /\ m.client = c
    \/ k = 3 /\ \E j \in complete[s] : j.client = c
    \/ k = 4 /\ FinishMsg(c) \in toRms[s]

NoExchange(s) == \A d \in Client \cup {NoClient}, step \in Steps : ~ExchangeAt(s, d, step)
OnlyExchange(s, d, step) ==
    \A e \in Client \cup {NoClient}, other \in Steps : ExchangeAt(s, e, other) <=> e = d /\ other = step

NoPart(s, c) == \A k \in 1 .. 4 : ~PartAt(s, c, k)
OnlyPart(s, c, k) == \A l \in 1 .. 4 : PartAt(s, c, l) <=> l = k

Waking(s, c) == \E step \in Steps : ExchangeAt(s, c, step)

QueueInv ==
    /\ IsInjective(jobQueue)
    /\ \A c \in Client : /\ c \in cliList <=> c \in ToSet(jobQueue) \/ Placed(c)
                         /\ ~(c \in ToSet(jobQueue) /\ Placed(c))

ClientInv == \A c \in Client : IF c \in cliList THEN request[c] \in Requests[c] ELSE request[c] = NoRequest

\* Finish messages are of different clients, whose jobs are gone.
ReportInv ==
    /\ \A c \in Client : c \in outstanding <=> c \in cliList \/ \E f \in finishMsg \cup finishSent : f.client = c
    /\ \A f \in finishMsg \cup finishSent : f.client \notin cliList
    /\ \A f, g \in finishMsg : f.client = g.client => f = g
    /\ \A f, g \in finishSent : f.client = g.client => f = g
    /\ \A f \in finishMsg, g \in finishSent : f.client # g.client

\* A placed job holds all its servers until it starts, and at least one until it ends.
PlacedOK(c) ==
    /\ \A s \in Server : c \in jobs[s] => s \in serverNmb[c]
    /\ Placed(c) => /\ Cardinality(serverNmb[c]) = request[c].nodes
                    /\ request[c].cores <= NumCores /\ request[c].needMemory <= Memory
                    /\ \E s \in Server : c \in jobs[s]
    /\ finishedServers[c] = Cardinality({s \in serverNmb[c] : c \notin jobs[s]})
    /\ c \in rjbList => Placed(c)
    /\ c \notin rjbList => \A s \in serverNmb[c] : c \in jobs[s]
PlacedInv == \A c \in Client : PlacedOK(c)

\* A started job has one part on each server that it holds.
PartOK(s, c) == IF c \in rjbList /\ c \in jobs[s] THEN \E k \in 1 .. 4 : OnlyPart(s, c, k) ELSE NoPart(s, c)
PartInv == \A s \in Server, c \in Client : PartOK(s, c)
\* It is asked and timed for the memory of the job.
MemoryOK(s) ==
    /\ \A m \in toServer[s] : m.type = "REQUEST" => m.memory = request[m.client].needMemory
    /\ \A j \in complete[s] : j.memory = request[j.client].needMemory
MessageInv == \A s \in Server : MemoryOK(s)

\* A reserved server sleeps: on the way to sleep without a job, or on the way to wake up for
\* one job, which has not started.  Any other has no exchange, and a job exactly if it runs.
ServerOK(s) ==
    /\ state[s] \in {"IDLE", "RUNNING", "HYBERNATED"}
    /\ state[s] = "IDLE" => jobs[s] = {}
    /\ state[s] = "RUNNING" => jobs[s] # {}
    /\ state[s] = "HYBERNATED" /\ ~reserved[s] => jobs[s] = {}
    /\ ~reserved[s] => NoExchange(s)
    /\ reserved[s] =>
         /\ state[s] = "HYBERNATED"
         /\ \/ jobs[s] = {} /\ \E step \in Steps : OnlyExchange(s, NoClient, step)
            \/ \E c \in Client \ rjbList :
                 jobs[s] = {c} /\ (NoExchange(s) \/ \E step \in Steps : OnlyExchange(s, c, step))
ServerInv == \A s \in Server : ServerOK(s)

\* A placed job that has not started waits for as many servers as its counters differ.
WakeupOK(c) ==
    /\ needwakeupNodes[c] - wakeupNodes[c] = Cardinality({s \in serverNmb[c] : Waking(s, c)})
    /\ Placed(c) => (c \in rjbList <=> needwakeupNodes[c] = wakeupNodes[c])
    /\ ~Placed(c) => needwakeupNodes[c] = 0
WakeupInv == \A c \in Client : WakeupOK(c)

Cores == [c \in Client |-> request[c].cores]
Memories == [c \in Client |-> request[c].needMemory]

ResourceOK(s) ==
    /\ IsFiniteSet(jobs[s])
    /\ coresInUse[s] = Cardinality(Units(jobs[s], NumCores, Cores))
    /\ coresInUse[s] <= NumCores
    /\ memory[s] = Memory - Cardinality(Units(jobs[s] \cap rjbList, Memory, Memories))
ResourceInv == \A s \in Server : ResourceOK(s)

ClusterInv == /\ QueueInv /\ ClientInv /\ ReportInv /\ PlacedInv /\ PartInv /\ MessageInv
              /\ ServerInv /\ WakeupInv /\ ResourceInv

----------------------------------------------------------------------------
(* Steps that only move messages *)

\* What the queue, the clients and the resources are stated of.
coreVars == <<serverInfoVars, serverNmb, needwakeupNodes, wakeupNodes, rjbList, cliList, request,
              finishedServers, jobQueue>>
reportVars == <<cliList, outstanding, finishMsg, finishSent>>

SameParts == \A s \in Server, c \in Client, k \in 1 .. 4 : PartAt(s, c, k)' <=> PartAt(s, c, k)
SameExchanges ==
    \A s \in Server, d \in Client \cup {NoClient}, step \in Steps : ExchangeAt(s, d, step)' <=> ExchangeAt(s, d, step)

\* Queue, clients and resources do not depend on messages.
LEMMA CoreUnchanged ==
  ASSUME ClusterInv, UNCHANGED coreVars
  PROVE  QueueInv' /\ ClientInv' /\ PlacedInv' /\ ResourceInv'
<1>1. QueueInv' /\ ClientInv'
  BY DEF ClusterInv, coreVars, serverInfoVars, QueueInv, ClientInv, Placed
<1>2. PlacedInv'
  BY DEF ClusterInv, coreVars, serverInfoVars, PlacedInv, PlacedOK, Placed
<1>3. ResourceInv'
  BY DEF ClusterInv, coreVars, serverInfoVars, ResourceInv, ResourceOK, Cores, Memories
<1> QED
  BY <1>1, <1>2, <1>3

\* Nor do reports depend on anything but the lists of clients.
LEMMA ReportsUnchanged ==
  ASSUME ClusterInv, UNCHANGED reportVars
  PROVE  ReportInv'
BY DEF ClusterInv, reportVars, ReportInv

\* No part of a job moves.
LEMMA PartsUnchanged ==
  ASSUME ClusterInv, UNCHANGED coreVars, SameParts
  PROVE  PartInv'
BY DEF ClusterInv, coreVars, serverInfoVars, PartInv, PartOK, OnlyPart, NoPart, SameParts

\* One part makes a step.
LEMMA PartMoves ==
  ASSUME ClusterInv, UNCHANGED coreVars, NEW s \in Server, NEW c \in Client,
         NEW k \in 1 .. 4, NEW l \in 1 .. 4, PartAt(s, c, k), OnlyPart(s, c, l)',
         \A t \in Server, d \in Client, i \in 1 .. 4 :
           t # s \/ d # c => (PartAt(t, d, i)' <=> PartAt(t, d, i))
  PROVE  PartInv'
<1> SUFFICES ASSUME NEW t \in Server, NEW d \in Client PROVE PartOK(t, d)'
  BY DEF PartInv
<1>1. PartOK(t, d) /\ PartOK(s, c)
  BY DEF ClusterInv, PartInv
<1>2. CASE t = s /\ d = c
  <2>1. c \in rjbList /\ c \in jobs[s]
    BY <1>1 DEF PartOK, NoPart
  <2> QED
    BY <1>2, <2>1 DEF coreVars, serverInfoVars, PartOK
<1>3. CASE t # s \/ d # c
  BY <1>1, <1>3 DEF coreVars, serverInfoVars, PartOK, OnlyPart, NoPart
<1> QED
  BY <1>2, <1>3

\* No exchange moves.
LEMMA ExchangesUnchanged ==
  ASSUME TypeOK, ClusterInv, UNCHANGED coreVars, SameExchanges
  PROVE  ServerInv' /\ WakeupInv'
<1>1. ServerInv'
  BY DEF ClusterInv, coreVars, serverInfoVars, ServerInv, ServerOK, NoExchange, OnlyExchange, SameExchanges
<1>2. \A c \in Client, s \in Server : Waking(s, c)' <=> Waking(s, c)
  BY DEF Waking, SameExchanges
<1>3. WakeupInv'
  <2> SUFFICES ASSUME NEW c \in Client PROVE WakeupOK(c)'
    BY DEF WakeupInv
  <2>1. serverNmb[c] \subseteq Server
    BY DEF TypeOK, RmsTypeOK
  <2>2. {s \in serverNmb[c] : Waking(s, c)}' = {s \in serverNmb[c] : Waking(s, c)}
    BY <1>2, <2>1 DEF coreVars, serverInfoVars
  <2> QED
    BY <2>2 DEF ClusterInv, coreVars, serverInfoVars, WakeupInv, WakeupOK, Placed
<1> QED
  BY <1>1, <1>3

\* One exchange makes a step.
LEMMA ExchangeMoves ==
  ASSUME TypeOK, ClusterInv, UNCHANGED coreVars, NEW s \in Server, NEW d \in Client \cup {NoClient},
         NEW step \in Steps, NEW next \in Steps, ExchangeAt(s, d, step), OnlyExchange(s, d, next)',
         \A t \in Server, e \in Client \cup {NoClient}, any \in Steps :
           t # s => (ExchangeAt(t, e, any)' <=> ExchangeAt(t, e, any))
  PROVE  ServerInv' /\ WakeupInv'
<1>1. ServerOK(s)
  BY DEF ClusterInv, ServerInv
<1>2. reserved[s] /\ state[s] = "HYBERNATED"
  BY <1>1 DEF ServerOK, NoExchange
<1>3. \A e \in Client \cup {NoClient}, any \in Steps : ExchangeAt(s, e, any) => e = d
  BY <1>1, <1>2 DEF ServerOK, NoExchange, OnlyExchange
<1>4. ServerInv'
  <2> SUFFICES ASSUME NEW t \in Server PROVE ServerOK(t)'
    BY DEF ServerInv
  <2>1. CASE t = s
    <3>1. CASE jobs[s] = {} /\ d = NoClient
      BY <1>1, <1>2, <2>1, <3>1 DEF ServerOK, coreVars, serverInfoVars
    <3>2. CASE d \in Client \ rjbList /\ jobs[s] = {d}
      BY <1>1, <1>2, <2>1, <3>2 DEF ServerOK, coreVars, serverInfoVars
    <3>3. \/ jobs[s] = {} /\ \E any \in Steps : OnlyExchange(s, NoClient, any)
          \/ \E c \in Client \ rjbList :
               jobs[s] = {c} /\ (NoExchange(s) \/ \E any \in Steps : OnlyExchange(s, c, any))
      BY <1>1, <1>2 DEF ServerOK
    <3>4. ~NoExchange(s) /\ \A c, any : OnlyExchange(s, c, any) => d = c
      BY DEF NoExchange, OnlyExchange
    <3> QED
      BY <3>1, <3>2, <3>3, <3>4
  <2>2. CASE t # s
    <3>1. ServerOK(t)
      BY DEF ClusterInv, ServerInv
    <3>2. \A e \in Client \cup {NoClient}, any \in Steps : ExchangeAt(t, e, any)' <=> ExchangeAt(t, e, any)
      BY <2>2
    <3>3. /\ NoExchange(t)' <=> NoExchange(t)
          /\ \A e, any : OnlyExchange(t, e, any)' <=> OnlyExchange(t, e, any)
      BY <3>2 DEF NoExchange, OnlyExchange
    <3> QED
      BY <3>1, <3>3 DEF ServerOK, coreVars, serverInfoVars
  <2> QED
    BY <2>1, <2>2
<1>5. \A c \in Client, t \in Server : Waking(t, c)' <=> Waking(t, c)
  BY <1>3 DEF Waking, OnlyExchange
<1>6. WakeupInv'
  <2> SUFFICES ASSUME NEW c \in Client PROVE WakeupOK(c)'
    BY DEF WakeupInv
  <2>1. serverNmb[c] \subseteq Server
    BY DEF TypeOK, RmsTypeOK
  <2>2. {t \in serverNmb[c] : Waking(t, c)}' = {t \in serverNmb[c] : Waking(t, c)}
    BY <1>5, <2>1 DEF coreVars, serverInfoVars
  <2> QED
    BY <2>2 DEF ClusterInv, coreVars, serverInfoVars, WakeupInv, WakeupOK, Placed
<1> QED
  BY <1>4, <1>6

\* An exchange is the only one of its server.
LEMMA ExchangeIsOnly ==
  ASSUME ClusterInv, NEW s \in Server, NEW d \in Client \cup {NoClient}, NEW step \in Steps,
         ExchangeAt(s, d, step)
  PROVE  /\ OnlyExchange(s, d, step)
         /\ reserved[s] /\ state[s] = "HYBERNATED"
         /\ IF d = NoClient THEN jobs[s] = {} ELSE d \notin rjbList /\ jobs[s] = {d}
BY NoClientAssumption DEF ClusterInv, ServerInv, ServerOK, NoExchange, OnlyExchange

\* A part is the only one of its job at its server.
LEMMA PartIsOnly ==
  ASSUME ClusterInv, NEW s \in Server, NEW c \in Client, NEW k \in 1 .. 4, PartAt(s, c, k)
  PROVE  OnlyPart(s, c, k) /\ c \in rjbList /\ c \in jobs[s]
BY DEF ClusterInv, PartInv, PartOK, NoPart, OnlyPart

\* The self-messages of the RMS.
LEMMA SelfMessageInv ==
  ASSUME TypeOK, ClusterInv, RmsSelfMessage, UNCHANGED serverVars
  PROVE  ClusterInv'
<1>1. CASE \E w \in jobMsg : RmsInternalJob(w[1], w[2])
  <2>1. PICK w \in jobMsg : RmsInternalJob(w[1], w[2])
    BY <1>1
  <2>2. w[1] \in Server /\ w[2] \in Client
    BY DEF TypeOK, RmsTypeOK
  <2>3. PICK s \in Server, c \in Client : RmsInternalJob(s, c)
    BY <2>1, <2>2
  <2>4. UNCHANGED <<coreVars, reportVars>>
    BY <2>3 DEF RmsInternalJob, coreVars, reportVars, selfFrame, clientVars
  <2>5. PartAt(s, c, 1)
    BY <2>3 DEF PartAt, RmsInternalJob
  <2>6. OnlyPart(s, c, 1)
    BY <2>5, PartIsOnly
  <2> DEFINE msg == RequestMsg(c, request[c].needMemory)
  <2>7. /\ jobMsg' = jobMsg \ {<<s, c>>}
        /\ toServer' = [toServer EXCEPT ![s] = @ \cup {msg}]
        /\ UNCHANGED <<complete, toRms, wakeupMsg, sleepMsg, sleepResponse, wakeupResponse>>
        /\ toServer \in [Server -> SUBSET ToServerMessage]
    BY <2>3 DEF RmsInternalJob, selfFrame, serverVars, TypeOK, NetTypeOK
  <2>8. msg.type = "REQUEST" /\ msg.client = c /\ msg.memory = request[c].needMemory
    BY DEF RequestMsg
  <2>9. msg \in toServer'[s] /\ \A t \in Server : toServer'[t] \subseteq toServer[t] \cup (IF t = s THEN {msg} ELSE {})
    BY <2>7
  <2>10. \A t \in Server : toServer[t] \subseteq toServer'[t]
    BY <2>7
  <2> HIDE DEF msg
  <2>11. OnlyPart(s, c, 2)'
    <3>1. PartAt(s, c, 2)'
      BY <2>8, <2>9 DEF PartAt
    <3>2. ~PartAt(s, c, 1)'
      BY <2>7 DEF PartAt
    <3>3. ~PartAt(s, c, 3)' /\ ~PartAt(s, c, 4)'
      BY <2>6, <2>7 DEF PartAt, OnlyPart
    <3> QED
      BY <3>1, <3>2, <3>3 DEF OnlyPart
  <2>12. \A t \in Server, d \in Client, i \in 1 .. 4 :
           t # s \/ d # c => (PartAt(t, d, i)' <=> PartAt(t, d, i))
    BY <2>7, <2>8, <2>9, <2>10 DEF PartAt
  <2>13. SameExchanges
    BY <2>7, <2>8, <2>9, <2>10 DEF SameExchanges, ExchangeAt, SleepMsg, WakeupMsg
  <2>14. MessageInv'
    BY <2>4, <2>7, <2>8, <2>9 DEF ClusterInv, MessageInv, MemoryOK, coreVars
  <2> QED
    BY <2>4, <2>5, <2>11, <2>12, <2>13, <2>14, CoreUnchanged, ReportsUnchanged, PartMoves, ExchangesUnchanged
    DEF ClusterInv
<1>2. CASE \E w \in wakeupMsg : RmsInternalWakeup(w[1], w[2])
  <2>1. PICK w \in wakeupMsg : RmsInternalWakeup(w[1], w[2])
    BY <1>2
  <2>2. w[1] \in Server /\ w[2] \in Client
    BY DEF TypeOK, RmsTypeOK
  <2>3. PICK s \in Server, c \in Client : RmsInternalWakeup(s, c)
    BY <2>1, <2>2
  <2>4. UNCHANGED <<coreVars, reportVars>>
    BY <2>3 DEF RmsInternalWakeup, coreVars, reportVars, selfFrame, clientVars
  <2>5. ExchangeAt(s, c, "scheduled") /\ c # NoClient
    BY <2>3, NoClientAssumption DEF ExchangeAt, RmsInternalWakeup
  <2>6. OnlyExchange(s, c, "scheduled")
    BY <2>5, ExchangeIsOnly DEF Steps
  <2> DEFINE msg == WakeupMsg(c)
  <2>7. /\ wakeupMsg' = wakeupMsg \ {<<s, c>>}
        /\ toServer' = [toServer EXCEPT ![s] = @ \cup {msg}]
        /\ UNCHANGED <<complete, toRms, jobMsg, sleepMsg, sleepResponse, wakeupResponse>>
        /\ toServer \in [Server -> SUBSET ToServerMessage]
    BY <2>3 DEF RmsInternalWakeup, selfFrame, serverVars, TypeOK, NetTypeOK
  <2>8. /\ msg.type = "WAKEUP" /\ msg # SleepMsg
        /\ \A d \in Client : msg = WakeupMsg(d) => c = d
    BY DEF WakeupMsg, SleepMsg
  <2>9. msg \in toServer'[s] /\ \A t \in Server : toServer'[t] \subseteq toServer[t] \cup (IF t = s THEN {msg} ELSE {})
    BY <2>7
  <2>10. \A t \in Server : toServer[t] \subseteq toServer'[t]
    BY <2>7
  <2>11. OnlyExchange(s, c, "sent")'
    <3> SUFFICES ASSUME NEW e \in Client \cup {NoClient}, NEW any \in Steps
                 PROVE  ExchangeAt(s, e, any)' <=> e = c /\ any = "sent"
      BY DEF OnlyExchange
    <3>1. ExchangeAt(s, e, any) <=> e = c /\ any = "scheduled"
      BY <2>6 DEF OnlyExchange
    <3> HIDE DEF msg
    <3>2. CASE any = "scheduled"
      BY <2>5, <2>7, <3>1, <3>2 DEF ExchangeAt
    <3>3. CASE any = "sent"
      BY <2>5, <2>8, <2>9, <3>1, <3>3 DEF ExchangeAt, msg
    <3>4. CASE any \in {"timer", "answered"}
      BY <2>7, <3>1, <3>4 DEF ExchangeAt
    <3> QED
      BY <3>2, <3>3, <3>4 DEF Steps
  <2> HIDE DEF msg
  <2>12. \A t \in Server, e \in Client \cup {NoClient}, any \in Steps :
           t # s => (ExchangeAt(t, e, any)' <=> ExchangeAt(t, e, any))
    BY <2>7, <2>9, <2>10 DEF ExchangeAt
  <2>13. SameParts
    BY <2>7, <2>8, <2>9, <2>10 DEF SameParts, PartAt
  <2>14. MessageInv'
    BY <2>4, <2>7, <2>8, <2>9 DEF ClusterInv, MessageInv, MemoryOK, coreVars
  <2>15. ServerInv' /\ WakeupInv'
    BY <2>4, <2>5, <2>11, <2>12, ExchangeMoves DEF Steps
  <2> QED
    BY <2>4, <2>13, <2>14, <2>15, CoreUnchanged, ReportsUnchanged, PartsUnchanged DEF ClusterInv
<1>3. CASE \E s \in sleepMsg : RmsInternalSleep(s)
  <2>3. PICK s \in Server : RmsInternalSleep(s)
    BY <1>3 DEF TypeOK, RmsTypeOK
  <2>4. UNCHANGED <<coreVars, reportVars>>
    BY <2>3 DEF RmsInternalSleep, coreVars, reportVars, selfFrame, clientVars
  <2>5. ExchangeAt(s, NoClient, "scheduled")
    BY <2>3 DEF ExchangeAt, RmsInternalSleep
  <2>6. OnlyExchange(s, NoClient, "scheduled")
    BY <2>5, ExchangeIsOnly DEF Steps
  <2> DEFINE msg == SleepMsg
  <2>7. /\ sleepMsg' = sleepMsg \ {s}
        /\ toServer' = [toServer EXCEPT ![s] = @ \cup {msg}]
        /\ UNCHANGED <<complete, toRms, jobMsg, wakeupMsg, sleepResponse, wakeupResponse>>
        /\ toServer \in [Server -> SUBSET ToServerMessage]
    BY <2>3 DEF RmsInternalSleep, selfFrame, serverVars, TypeOK, NetTypeOK
  <2>8. msg.type = "SLEEP" /\ msg = SleepMsg /\ \A d : msg # WakeupMsg(d)
    BY DEF WakeupMsg, SleepMsg
  <2>9. msg \in toServer'[s] /\ \A t \in Server : toServer'[t] \subseteq toServer[t] \cup (IF t = s THEN {msg} ELSE {})
    BY <2>7
  <2>10. \A t \in Server : toServer[t] \subseteq toServer'[t]
    BY <2>7
  <2> HIDE DEF msg
  <2>11. OnlyExchange(s, NoClient, "sent")'
    <3> SUFFICES ASSUME NEW e \in Client \cup {NoClient}, NEW any \in Steps
                 PROVE  ExchangeAt(s, e, any)' <=> e = NoClient /\ any = "sent"
      BY DEF OnlyExchange
    <3>1. ExchangeAt(s, e, any) <=> e = NoClient /\ any = "scheduled"
      BY <2>6 DEF OnlyExchange
    <3>2. CASE any = "scheduled"
      BY <2>5, <2>7, <3>1, <3>2 DEF ExchangeAt
    <3>3. CASE any = "sent"
      BY <2>5, <2>8, <2>9, <3>1, <3>3 DEF ExchangeAt
    <3>4. CASE any \in {"timer", "answered"}
      BY <2>7, <3>1, <3>4 DEF ExchangeAt
    <3> QED
      BY <3>2, <3>3, <3>4 DEF Steps
  <2>12. \A t \in Server, e \in Client \cup {NoClient}, any \in Steps :
           t # s => (ExchangeAt(t, e, any)' <=> ExchangeAt(t, e, any))
    BY <2>7, <2>9, <2>10 DEF ExchangeAt
  <2>13. SameParts
    BY <2>7, <2>8, <2>9, <2>10 DEF SameParts, PartAt
  <2>14. MessageInv'
    BY <2>4, <2>7, <2>8, <2>9 DEF ClusterInv, MessageInv, MemoryOK, coreVars
  <2>15. ServerInv' /\ WakeupInv'
    BY <2>4, <2>5, <2>11, <2>12, ExchangeMoves DEF Steps
  <2> QED
    BY <2>4, <2>13, <2>14, <2>15, CoreUnchanged, ReportsUnchanged, PartsUnchanged DEF ClusterInv
<1>4. CASE \E f \in finishMsg : RmsInternalFinish(f)
  <2>1. PICK f \in finishMsg : RmsInternalFinish(f)
    BY <1>4
  <2>2. UNCHANGED <<coreVars, jobMsg, wakeupMsg, sleepMsg, outstanding, toServer, toRms, serverVars>>
    BY <2>1 DEF RmsInternalFinish, coreVars, selfFrame
  <2>3. ReportInv'
    <3>1. PICK g : g.client = f.client /\ finishMsg' = finishMsg \ {f} /\ finishSent' = finishSent \cup {g}
      BY <2>1 DEF RmsInternalFinish
    <3>2. UNCHANGED <<cliList, outstanding>>
      BY <2>2 DEF coreVars
    <3> QED
      BY <3>1, <3>2 DEF ClusterInv, ReportInv
  <2>4. SameParts /\ SameExchanges
    BY <2>2 DEF SameParts, PartAt, SameExchanges, ExchangeAt, serverVars
  <2>5. MessageInv'
    BY <2>2 DEF ClusterInv, MessageInv, MemoryOK, coreVars, serverVars
  <2> QED
    BY <2>2, <2>3, <2>4, <2>5, CoreUnchanged, PartsUnchanged, ExchangesUnchanged DEF ClusterInv
<1> QED
  BY <1>1, <1>2, <1>3, <1>4 DEF RmsSelfMessage

\* Clients receive their finish messages, and time passes.
LEMMA EnvironmentInv ==
  ASSUME TypeOK, ClusterInv, ClientsFinish \/ TimePasses, UNCHANGED serverVars
  PROVE  ClusterInv'
<1>1. UNCHANGED <<coreVars, jobMsg, wakeupMsg, sleepMsg, toServer, toRms, serverVars>>
  BY DEF ClientsFinish, ClientFinish, TimePasses, coreVars, selfFrame, placementVars, serverInfoVars
<1>2. ReportInv'
  <2>1. CASE ClientsFinish
    <3>1. PICK f \in finishSent : ClientFinish(f)
      BY <2>1 DEF ClientsFinish
    <3>2. /\ finishSent' = finishSent \ {f} /\ outstanding' = outstanding \ {f.client}
          /\ UNCHANGED <<finishMsg, cliList>>
      BY <3>1 DEF ClientFinish, selfFrame
    <3> QED
      BY <3>2 DEF ClusterInv, ReportInv
  <2>2. CASE TimePasses
    BY <2>2 DEF TimePasses, ClusterInv, ReportInv, clientVars
  <2> QED
    BY <2>1, <2>2
<1>3. SameParts /\ SameExchanges
  BY <1>1 DEF SameParts, PartAt, SameExchanges, ExchangeAt, serverVars
<1>4. MessageInv'
  BY <1>1 DEF ClusterInv, MessageInv, MemoryOK, coreVars, serverVars
<1> QED
  BY <1>1, <1>2, <1>3, <1>4, CoreUnchanged, PartsUnchanged, ExchangesUnchanged DEF ClusterInv

\* The handlers of the servers.
LEMMA ServerInvariant ==
  ASSUME TypeOK, ClusterInv, NEW s \in Server, ServerStep(s), UNCHANGED rmsVars
  PROVE  ClusterInv'
<1>1. UNCHANGED <<coreVars, reportVars, jobMsg, wakeupMsg, sleepMsg>>
  BY DEF rmsVars, placementVars, serverInfoVars, clientVars, coreVars, reportVars
<1>2. QueueInv' /\ ClientInv' /\ PlacedInv' /\ ResourceInv' /\ ReportInv'
  BY <1>1, CoreUnchanged, ReportsUnchanged
<1>3. /\ toServer \in [Server -> SUBSET ToServerMessage] /\ toRms \in [Server -> SUBSET ToRmsMessage]
      /\ complete \in [Server -> SUBSET [client : Client, memory : Nat]]
      /\ sleepResponse \in [Server -> BOOLEAN] /\ wakeupResponse \in [Server -> SUBSET Client]
  BY DEF TypeOK, NetTypeOK, ServersTypeOK
<1>4. \A t \in Server : MemoryOK(t)
  BY DEF ClusterInv, MessageInv
\* A part moves: what is left to show.
<1>5. ASSUME NEW c \in Client, NEW k \in 1 .. 4, NEW l \in 1 .. 4, PartAt(s, c, k), OnlyPart(s, c, l)',
             \A t \in Server, d \in Client, i \in 1 .. 4 :
               t # s \/ d # c => (PartAt(t, d, i)' <=> PartAt(t, d, i)),
             SameExchanges, MessageInv'
      PROVE  ClusterInv'
  BY <1>1, <1>2, <1>5, PartMoves, ExchangesUnchanged DEF ClusterInv
\* An exchange moves: what is left to show.
<1>6. ASSUME NEW d \in Client \cup {NoClient}, NEW step \in Steps, NEW next \in Steps,
             ExchangeAt(s, d, step), OnlyExchange(s, d, next)',
             \A t \in Server, e \in Client \cup {NoClient}, any \in Steps :
               t # s => (ExchangeAt(t, e, any)' <=> ExchangeAt(t, e, any)),
             SameParts, MessageInv'
      PROVE  ClusterInv'
  BY <1>1, <1>2, <1>6, PartsUnchanged, ExchangeMoves DEF ClusterInv
<1>7. ASSUME NEW m \in toServer[s], ServerRequest(s, m)
      PROVE  ClusterInv'
  <2> DEFINE c == m.client
             timer == [client |-> m.client, memory |-> m.memory]
  <2>1. m.type = "REQUEST" /\ c \in Client /\ m.memory = request[c].needMemory
    BY <1>3, <1>4, <1>7 DEF ServerRequest, MemoryOK, ToServerMessage, SleepMsg
  <2>2. /\ toServer' = [toServer EXCEPT ![s] = @ \ {m}]
        /\ complete' = [complete EXCEPT ![s] = @ \cup {timer}]
        /\ UNCHANGED <<toRms, sleepResponse, wakeupResponse>>
    BY <1>7 DEF ServerRequest
  <2>3. timer.client = c /\ timer.memory = request[c].needMemory
    BY <2>1
  <2>4. /\ timer \in complete'[s]
        /\ \A t \in Server : /\ complete[t] \subseteq complete'[t]
                             /\ complete'[t] \subseteq complete[t] \cup (IF t = s THEN {timer} ELSE {})
    BY <1>3, <2>2
  <2>5. \A t \in Server : toServer'[t] = IF t = s THEN toServer[t] \ {m} ELSE toServer[t]
    BY <1>3, <2>2
  <2> HIDE DEF timer
  <2>6. PartAt(s, c, 2)
    BY <2>1 DEF PartAt
  <2>7. OnlyPart(s, c, 2)
    BY <2>1, <2>6, PartIsOnly
  \* The request that arrives is the only one of its client.
  <2>8. \A n \in toServer[s] : n.type = "REQUEST" /\ n.client = c => n = m
    <3> SUFFICES ASSUME NEW n \in toServer[s], n.type = "REQUEST", n.client = c PROVE n = m
      OBVIOUS
    <3>1. n.memory = m.memory
      BY <1>4, <2>1 DEF MemoryOK
    <3>2. n \in [type : {"REQUEST"}, client : Client, memory : Nat] /\ m \in [type : {"REQUEST"}, client : Client, memory : Nat]
      BY <1>3, <2>1 DEF ToServerMessage, SleepMsg
    <3> QED
      BY <2>1, <3>1, <3>2
  <2>9. OnlyPart(s, c, 3)'
    <3>1. PartAt(s, c, 3)'
      BY <2>3, <2>4 DEF PartAt
    <3>2. ~PartAt(s, c, 2)'
      <4>1. toServer'[s] = toServer[s] \ {m}
        BY <2>5
      <4>2. ~ \E n \in toServer'[s] : n.type = "REQUEST" /\ n.client = c
        BY <2>8, <4>1
      <4> HIDE DEF c
      <4> QED
        BY <4>2 DEF PartAt
    <3>3. ~PartAt(s, c, 1)' /\ ~PartAt(s, c, 4)'
      BY <1>1, <2>2, <2>7 DEF PartAt, OnlyPart
    <3> QED
      BY <3>1, <3>2, <3>3 DEF OnlyPart
  <2>10. \A t \in Server, d \in Client, i \in 1 .. 4 :
           t # s \/ d # c => (PartAt(t, d, i)' <=> PartAt(t, d, i))
    BY <1>1, <2>2, <2>3, <2>4, <2>5 DEF PartAt
  <2>11. SameExchanges
    BY <1>1, <2>1, <2>2, <2>5 DEF SameExchanges, ExchangeAt, SleepMsg, WakeupMsg
  <2>12. MessageInv'
    BY <1>1, <1>4, <2>3, <2>4, <2>5 DEF MessageInv, MemoryOK, coreVars
  <2> QED
    BY <1>5, <2>1, <2>6, <2>9, <2>10, <2>11, <2>12
<1>8. ASSUME NEW j \in complete[s], ServerResponse(s, j)
      PROVE  ClusterInv'
  <2> DEFINE c == j.client
             msg == FinishMsg(c)
  <2>1. c \in Client /\ j.memory = request[c].needMemory
    BY <1>3, <1>4 DEF MemoryOK
  <2>2. /\ complete' = [complete EXCEPT ![s] = @ \ {j}]
        /\ toRms' = [toRms EXCEPT ![s] = @ \cup {msg}]
        /\ UNCHANGED <<toServer, sleepResponse, wakeupResponse>>
    BY <1>8 DEF ServerResponse
  <2>3. /\ \A d : FinishMsg(d) = msg => d = c
        /\ \A d : WakeupResponseMsg(d) # msg
        /\ SleepResponseMsg # msg
    BY DEF FinishMsg, WakeupResponseMsg, SleepResponseMsg
  <2>4. /\ msg \in toRms'[s]
        /\ \A t \in Server : /\ toRms[t] \subseteq toRms'[t]
                             /\ toRms'[t] \subseteq toRms[t] \cup (IF t = s THEN {msg} ELSE {})
    BY <1>3, <2>2
  <2>5. \A t \in Server : complete'[t] = IF t = s THEN complete[t] \ {j} ELSE complete[t]
    BY <1>3, <2>2
  <2>6. PartAt(s, c, 3)
    BY DEF PartAt
  <2>7. OnlyPart(s, c, 3)
    BY <2>1, <2>6, PartIsOnly
  \* The timer that expires is the only one of its client.
  <2>8. \A n \in complete[s] : n.client = c => n = j
    BY <1>3, <1>4 DEF MemoryOK
  <2>9. OnlyPart(s, c, 4)'
    <3>1. PartAt(s, c, 4)'
      BY <2>4 DEF PartAt
    <3>2. ~PartAt(s, c, 3)'
      <4>1. complete'[s] = complete[s] \ {j}
        BY <2>5
      <4>2. ~ \E n \in complete'[s] : n.client = c
        BY <2>8, <4>1
      <4> HIDE DEF c
      <4> QED
        BY <4>2 DEF PartAt
    <3>3. ~PartAt(s, c, 1)' /\ ~PartAt(s, c, 2)'
      BY <1>1, <2>2, <2>7 DEF PartAt, OnlyPart
    <3> QED
      BY <3>1, <3>2, <3>3 DEF OnlyPart
  <2> HIDE DEF msg
  <2>10. \A t \in Server, d \in Client, i \in 1 .. 4 :
           t # s \/ d # c => (PartAt(t, d, i)' <=> PartAt(t, d, i))
    BY <1>1, <2>2, <2>3, <2>4, <2>5 DEF PartAt
  <2>11. SameExchanges
    BY <1>1, <2>2, <2>3, <2>4 DEF SameExchanges, ExchangeAt
  <2>12. MessageInv'
    BY <1>1, <1>4, <2>2, <2>5 DEF MessageInv, MemoryOK, coreVars
  <2> QED
    BY <1>5, <2>1, <2>6, <2>9, <2>10, <2>11, <2>12
<1>9. ASSUME NEW m \in toServer[s], ServerSleep(s, m)
      PROVE  ClusterInv'
  <2>1. m = SleepMsg
    BY <1>3, <1>9 DEF ServerSleep, ToServerMessage
  <2>2. /\ toServer' = [toServer EXCEPT ![s] = @ \ {m}]
        /\ sleepResponse' = [sleepResponse EXCEPT ![s] = TRUE]
        /\ UNCHANGED <<toRms, complete, wakeupResponse>>
    BY <1>9 DEF ServerSleep
  <2>3. \A t \in Server : /\ toServer'[t] = IF t = s THEN toServer[t] \ {m} ELSE toServer[t]
                          /\ sleepResponse'[t] = IF t = s THEN TRUE ELSE sleepResponse[t]
    BY <1>3, <2>2
  <2>4. ExchangeAt(s, NoClient, "sent")
    BY <2>1 DEF ExchangeAt
  <2>5. OnlyExchange(s, NoClient, "sent")
    BY <2>4, ExchangeIsOnly DEF Steps
  <2>6. \A d : m # WakeupMsg(d)
    BY <2>1 DEF SleepMsg, WakeupMsg
  <2>7. OnlyExchange(s, NoClient, "timer")'
    <3> SUFFICES ASSUME NEW e \in Client \cup {NoClient}, NEW any \in Steps
                 PROVE  ExchangeAt(s, e, any)' <=> e = NoClient /\ any = "timer"
      BY DEF OnlyExchange
    <3>1. ExchangeAt(s, e, any) <=> e = NoClient /\ any = "sent"
      BY <2>5 DEF OnlyExchange
    <3>2. CASE any \in {"scheduled", "answered"}
      BY <1>1, <2>2, <3>1, <3>2 DEF ExchangeAt
    <3>3. CASE any = "sent"
      BY <2>1, <2>3, <2>6, <3>1, <3>3 DEF ExchangeAt
    <3>4. CASE any = "timer"
      BY <2>2, <2>3, <3>1, <3>4 DEF ExchangeAt
    <3> QED
      BY <3>2, <3>3, <3>4 DEF Steps
  <2>8. \A t \in Server, e \in Client \cup {NoClient}, any \in Steps :
          t # s => (ExchangeAt(t, e, any)' <=> ExchangeAt(t, e, any))
    BY <1>1, <2>2, <2>3 DEF ExchangeAt
  <2>9. SameParts
    BY <1>1, <2>1, <2>2, <2>3 DEF SameParts, PartAt, SleepMsg
  <2>10. MessageInv'
    BY <1>1, <1>4, <2>2, <2>3 DEF MessageInv, MemoryOK, coreVars
  <2> QED
    BY <1>6, <2>4, <2>7, <2>8, <2>9, <2>10 DEF Steps
<1>10. ASSUME NEW m \in toServer[s], ServerWakeup(s, m)
       PROVE  ClusterInv'
  <2> DEFINE c == m.client
  <2>1. c \in Client /\ m = WakeupMsg(c) /\ m.type = "WAKEUP" /\ c # NoClient
    BY <1>3, <1>10, NoClientAssumption DEF ServerWakeup, ToServerMessage, SleepMsg, WakeupMsg
  <2>2. /\ toServer' = [toServer EXCEPT ![s] = @ \ {m}]
        /\ wakeupResponse' = [wakeupResponse EXCEPT ![s] = @ \cup {c}]
        /\ UNCHANGED <<toRms, complete, sleepResponse>>
    BY <1>10 DEF ServerWakeup
  <2> HIDE DEF c
  <2>3. \A t \in Server : /\ toServer'[t] = IF t = s THEN toServer[t] \ {m} ELSE toServer[t]
                          /\ wakeupResponse'[t] = wakeupResponse[t] \cup IF t = s THEN {c} ELSE {}
    BY <1>3, <2>2
  <2>4. ExchangeAt(s, c, "sent")
    BY <2>1 DEF ExchangeAt
  <2>5. OnlyExchange(s, c, "sent")
    BY <2>1, <2>4, ExchangeIsOnly DEF Steps
  <2>6. m # SleepMsg
    BY <2>1 DEF SleepMsg, WakeupMsg
  <2>7. OnlyExchange(s, c, "timer")'
    <3> SUFFICES ASSUME NEW e \in Client \cup {NoClient}, NEW any \in Steps
                 PROVE  ExchangeAt(s, e, any)' <=> e = c /\ any = "timer"
      BY DEF OnlyExchange
    <3>1. ExchangeAt(s, e, any) <=> e = c /\ any = "sent"
      BY <2>5 DEF OnlyExchange
    <3>2. CASE any \in {"scheduled", "answered"}
      BY <1>1, <2>2, <3>1, <3>2 DEF ExchangeAt
    <3>3. CASE any = "sent"
      BY <2>1, <2>3, <2>6, <3>1, <3>3 DEF ExchangeAt
    <3>4. CASE any = "timer"
      BY <2>1, <2>2, <2>3, <3>1, <3>4 DEF ExchangeAt
    <3> QED
      BY <3>2, <3>3, <3>4 DEF Steps
  <2>8. \A t \in Server, e \in Client \cup {NoClient}, any \in Steps :
          t # s => (ExchangeAt(t, e, any)' <=> ExchangeAt(t, e, any))
    BY <1>1, <2>2, <2>3 DEF ExchangeAt
  <2>9. SameParts
    BY <1>1, <2>1, <2>2, <2>3 DEF SameParts, PartAt
  <2>10. MessageInv'
    BY <1>1, <1>4, <2>2, <2>3 DEF MessageInv, MemoryOK, coreVars
  <2> QED
    BY <1>6, <2>1, <2>4, <2>7, <2>8, <2>9, <2>10 DEF Steps
<1>11. ASSUME ServerSleepResponse(s)
       PROVE  ClusterInv'
  <2> DEFINE msg == SleepResponseMsg
  <2>1. msg = SleepResponseMsg /\ \A d : msg # WakeupResponseMsg(d) /\ msg # FinishMsg(d)
    BY DEF SleepResponseMsg, WakeupResponseMsg, FinishMsg
  <2>2. /\ sleepResponse[s]
        /\ sleepResponse' = [sleepResponse EXCEPT ![s] = FALSE]
        /\ toRms' = [toRms EXCEPT ![s] = @ \cup {msg}]
        /\ UNCHANGED <<toServer, complete, wakeupResponse>>
    BY <1>11 DEF ServerSleepResponse
  <2>3. \A t \in Server : /\ toRms'[t] = toRms[t] \cup IF t = s THEN {msg} ELSE {}
                          /\ sleepResponse'[t] = IF t = s THEN FALSE ELSE sleepResponse[t]
    BY <1>3, <2>2
  <2> HIDE DEF msg
  <2>4. ExchangeAt(s, NoClient, "timer")
    BY <2>2 DEF ExchangeAt
  <2>5. OnlyExchange(s, NoClient, "timer")
    BY <2>4, ExchangeIsOnly DEF Steps
  <2>6. OnlyExchange(s, NoClient, "answered")'
    <3> SUFFICES ASSUME NEW e \in Client \cup {NoClient}, NEW any \in Steps
                 PROVE  ExchangeAt(s, e, any)' <=> e = NoClient /\ any = "answered"
      BY DEF OnlyExchange
    <3>1. ExchangeAt(s, e, any) <=> e = NoClient /\ any = "timer"
      BY <2>5 DEF OnlyExchange
    <3>2. CASE any \in {"scheduled", "sent"}
      BY <1>1, <2>2, <3>1, <3>2 DEF ExchangeAt
    <3>3. CASE any = "timer"
      BY <2>2, <2>3, <3>1, <3>3 DEF ExchangeAt
    <3>4. CASE any = "answered"
      BY <2>1, <2>3, <3>1, <3>4 DEF ExchangeAt
    <3> QED
      BY <3>2, <3>3, <3>4 DEF Steps
  <2>7. \A t \in Server, e \in Client \cup {NoClient}, any \in Steps :
          t # s => (ExchangeAt(t, e, any)' <=> ExchangeAt(t, e, any))
    BY <1>1, <2>2, <2>3 DEF ExchangeAt
  <2>8. SameParts
    BY <1>1, <2>1, <2>2, <2>3 DEF SameParts, PartAt
  <2>9. MessageInv'
    BY <1>1, <1>4, <2>2 DEF MessageInv, MemoryOK, coreVars
  <2> QED
    BY <1>6, <2>4, <2>6, <2>7, <2>8, <2>9 DEF Steps
<1>12. ASSUME NEW c \in wakeupResponse[s], ServerWakeupResponse(s, c)
       PROVE  ClusterInv'
  <2> DEFINE msg == WakeupResponseMsg(c)
  <2>1. msg = WakeupResponseMsg(c) /\ msg # SleepResponseMsg /\ (\A d : msg # FinishMsg(d))
         /\ \A d : msg = WakeupResponseMsg(d) => c = d
    BY DEF SleepResponseMsg, WakeupResponseMsg, FinishMsg
  <2>2. /\ c \in Client /\ c # NoClient
        /\ wakeupResponse' = [wakeupResponse EXCEPT ![s] = @ \ {c}]
        /\ toRms' = [toRms EXCEPT ![s] = @ \cup {msg}]
        /\ UNCHANGED <<toServer, complete, sleepResponse>>
    BY <1>3, <1>12, NoClientAssumption DEF ServerWakeupResponse
  <2>3. \A t \in Server : /\ toRms'[t] = toRms[t] \cup IF t = s THEN {msg} ELSE {}
                          /\ wakeupResponse'[t] = wakeupResponse[t] \ IF t = s THEN {c} ELSE {}
    BY <1>3, <2>2
  <2> HIDE DEF msg
  <2>4. ExchangeAt(s, c, "timer")
    BY <2>2 DEF ExchangeAt
  <2>5. OnlyExchange(s, c, "timer")
    BY <2>2, <2>4, ExchangeIsOnly DEF Steps
  <2>6. OnlyExchange(s, c, "answered")'
    <3> SUFFICES ASSUME NEW e \in Client \cup {NoClient}, NEW any \in Steps
                 PROVE  ExchangeAt(s, e, any)' <=> e = c /\ any = "answered"
      BY DEF OnlyExchange
    <3>1. ExchangeAt(s, e, any) <=> e = c /\ any = "timer"
      BY <2>5 DEF OnlyExchange
    <3>2. CASE any \in {"scheduled", "sent"}
      BY <1>1, <2>2, <3>1, <3>2 DEF ExchangeAt
    <3>3. CASE any = "timer"
      BY <2>2, <2>3, <3>1, <3>3 DEF ExchangeAt
    <3>4. CASE any = "answered"
      BY <2>1, <2>2, <2>3, <3>1, <3>4 DEF ExchangeAt
    <3> QED
      BY <3>2, <3>3, <3>4 DEF Steps
  <2>7. \A t \in Server, e \in Client \cup {NoClient}, any \in Steps :
          t # s => (ExchangeAt(t, e, any)' <=> ExchangeAt(t, e, any))
    BY <1>1, <2>2, <2>3 DEF ExchangeAt
  <2>8. SameParts
    BY <1>1, <2>1, <2>2, <2>3 DEF SameParts, PartAt
  <2>9. MessageInv'
    BY <1>1, <1>4, <2>2 DEF MessageInv, MemoryOK, coreVars
  <2> QED
    BY <1>6, <2>2, <2>4, <2>6, <2>7, <2>8, <2>9 DEF Steps
<1> QED
  BY <1>7, <1>8, <1>9, <1>10, <1>11, <1>12 DEF ServerStep

----------------------------------------------------------------------------
(* Placing a job *)

\* Nothing at the servers speaks of a job that is not placed.
LEMMA NotPlaced ==
  ASSUME TypeOK, ClusterInv, NEW c \in Client, ~Placed(c)
  PROVE  /\ serverNmb[c] = {} /\ c \notin rjbList
         /\ finishedServers[c] = 0 /\ needwakeupNodes[c] = 0 /\ wakeupNodes[c] = 0
         /\ \A s \in Server : /\ c \notin jobs[s] /\ NoPart(s, c)
                              /\ \A step \in Steps : ~ExchangeAt(s, c, step)
<1>1. serverNmb[c] = {}
  BY DEF Placed
<1>2. PlacedOK(c) /\ WakeupOK(c)
  BY DEF ClusterInv, PlacedInv, WakeupInv
<1>3. c \notin rjbList /\ \A s \in Server : c \notin jobs[s]
  BY <1>1, <1>2 DEF PlacedOK
<1>4. {s \in serverNmb[c] : c \notin jobs[s]} = {} /\ {s \in serverNmb[c] : Waking(s, c)} = {}
  BY <1>1
<1>5. Cardinality({}) = 0
  BY FS_EmptySet
<1>6. finishedServers[c] = 0 /\ needwakeupNodes[c] = 0 /\ wakeupNodes[c] \in Nat
      /\ needwakeupNodes[c] - wakeupNodes[c] = 0
  BY <1>2, <1>4, <1>5 DEF PlacedOK, WakeupOK, TypeOK, RmsTypeOK
<1>7. \A s \in Server : NoPart(s, c)
  BY <1>3, PartIsOnly DEF NoPart
<1>8. \A s \in Server, step \in Steps : ~ExchangeAt(s, c, step)
  BY <1>3, ExchangeIsOnly, NoClientAssumption
<1> QED
  BY <1>1, <1>3, <1>6, <1>7, <1>8

\* Amounts are natural numbers, and those of a placed job fit in a server.
LEMMA AmountsOfPlaced ==
  ASSUME TypeOK, ClusterInv, NEW c \in Client, Placed(c)
  PROVE  Cores[c] \in 1 .. NumCores /\ Memories[c] \in 0 .. Memory /\ request[c] \in Request
<1>1. c \in cliList /\ PlacedOK(c)
  BY DEF ClusterInv, QueueInv, PlacedInv
<1>2. request[c] \in Requests[c] /\ Requests[c] \subseteq Request
  BY <1>1, RequestsAssumption DEF ClusterInv, ClientInv
<1>3. request[c].cores \in Nat \ {0} /\ request[c].needMemory \in Nat
  BY <1>2 DEF Request
<1>4. request[c].cores <= NumCores /\ request[c].needMemory <= Memory
  BY <1>1 DEF PlacedOK
<1> QED
  BY <1>2, <1>3, <1>4, NumCoresAssumption, MemoryAssumption DEF Cores, Memories

\* The jobs on a server are placed jobs.
LEMMA JobsArePlaced ==
  ASSUME TypeOK, ClusterInv, NEW s \in Server, NEW c \in jobs[s]
  PROVE  c \in Client /\ Placed(c)
BY DEF ClusterInv, PlacedInv, PlacedOK, Placed, TypeOK, RmsTypeOK

\* A job that has no request or timer may have its request written.
LEMMA MessagesOfOthers ==
  ASSUME TypeOK, ClusterInv, NEW c \in Client, UNCHANGED <<toServer, complete>>,
         \A d \in Client \ {c} : request'[d] = request[d],
         \A s \in Server : ~PartAt(s, c, 2) /\ ~PartAt(s, c, 3)
  PROVE  MessageInv'
<1> SUFFICES ASSUME NEW s \in Server PROVE MemoryOK(s)'
  BY DEF MessageInv
<1>1. MemoryOK(s)
  BY DEF ClusterInv, MessageInv
<1>2. /\ toServer \in [Server -> SUBSET ToServerMessage]
      /\ complete \in [Server -> SUBSET [client : Client, memory : Nat]]
  BY DEF TypeOK, NetTypeOK, ServersTypeOK
<1>3. ASSUME NEW m \in toServer[s], m.type = "REQUEST"
      PROVE  m.client \in Client /\ m.client # c
  <2>1. m.client \in Client
    BY <1>2, <1>3 DEF ToServerMessage, SleepMsg
  <2>2. PartAt(s, m.client, 2)
    BY <1>3 DEF PartAt
  <2> QED
    BY <2>1, <2>2
<1>4. ASSUME NEW j \in complete[s]
      PROVE  j.client \in Client /\ j.client # c
  <2>1. j.client \in Client
    BY <1>2
  <2>2. PartAt(s, j.client, 3)
    BY DEF PartAt
  <2> QED
    BY <2>1, <2>2
<1> QED
  BY <1>1, <1>3, <1>4 DEF MemoryOK

\* Placing a job on the servers found for it (initServerConnection).
LEMMA PlacementInvariant ==
  ASSUME TypeOK, ClusterInv, NEW c \in Client, NEW r \in Request, NEW T \in SUBSET Eligible(r),
         SearchServers(r, T), InitServerConnection(c, r, T), ~Placed(c),
         request' = [request EXCEPT ![c] = r],
         UNCHANGED <<wakeupNodes, finishedServers, toServer, toRms, sleepMsg, serverVars>>
  PROVE  /\ PlacedInv' /\ PartInv' /\ MessageInv' /\ ServerInv' /\ WakeupInv' /\ ResourceInv'
         /\ \A d \in Client : Placed(d)' <=> Placed(d) \/ d = c
<1> DEFINE asleep == {s \in T : state[s] \in Asleep}
           start == asleep = {}
<1>1. /\ serverNmb[c] = {} /\ c \notin rjbList
      /\ finishedServers[c] = 0 /\ needwakeupNodes[c] = 0 /\ wakeupNodes[c] = 0
      /\ \A s \in Server : /\ c \notin jobs[s] /\ NoPart(s, c)
                           /\ \A step \in Steps : ~ExchangeAt(s, c, step)
  BY NotPlaced
<1>2. /\ coresInUse' = [s \in Server |-> IF s \in T THEN coresInUse[s] + r.cores ELSE coresInUse[s]]
      /\ jobs' = [s \in Server |-> IF s \in T THEN jobs[s] \cup {c} ELSE jobs[s]]
      /\ state' = [s \in Server |-> IF s \in T \ asleep THEN "RUNNING" ELSE state[s]]
      /\ reserved' = [s \in Server |-> s \in asleep \/ (s \notin T /\ reserved[s])]
      /\ memory' = [s \in Server |-> IF start /\ s \in T THEN memory[s] - r.needMemory ELSE memory[s]]
      /\ serverNmb' = [serverNmb EXCEPT ![c] = T]
      /\ needwakeupNodes' = [needwakeupNodes EXCEPT ![c] = @ + Cardinality(asleep)]
      /\ wakeupMsg' = wakeupMsg \cup (asleep \X {c})
      /\ jobMsg' = IF start THEN jobMsg \cup (T \X {c}) ELSE jobMsg
      /\ rjbList' = IF start THEN rjbList \cup {c} ELSE rjbList
  BY DEF InitServerConnection
<1>3. /\ T \subseteq Server /\ asleep \subseteq T
      /\ \A s \in T : memory[s] >= r.needMemory /\ ~reserved[s] /\ NumCores - coresInUse[s] >= r.cores
  BY DEF Eligible, FreeCores
<1>4. /\ IsFiniteSet(T) /\ Cardinality(T) = r.nodes
      /\ IsFiniteSet(asleep) /\ Cardinality(asleep) \in Nat
      /\ r.nodes \in Nat \ {0} /\ r.cores \in Nat \ {0} /\ r.needMemory \in Nat
  BY <1>3, ServerFinite DEF SearchServers, Request
<1>5. T # {}
  BY <1>4, FS_EmptySet
<1>6. /\ jobs \in [Server -> SUBSET Client] /\ serverNmb \in [Client -> SUBSET Server]
      /\ needwakeupNodes \in [Client -> Nat] /\ state \in [Server -> {"IDLE", "RUNNING"} \cup Asleep]
      /\ memory \in [Server -> Int] /\ coresInUse \in [Server -> Int]
      /\ request \in [Client -> Request \cup {NoRequest}]
      /\ reserved \in [Server -> BOOLEAN]
  BY DEF TypeOK, RmsTypeOK, SrvListTypeOK
<1> HIDE DEF asleep, start
<1>7. /\ serverNmb'[c] = T /\ request'[c] = r /\ c \in Client
      /\ \A d \in Client \ {c} : serverNmb'[d] = serverNmb[d] /\ request'[d] = request[d]
                                 /\ needwakeupNodes'[d] = needwakeupNodes[d]
      /\ needwakeupNodes'[c] = Cardinality(asleep)
      /\ \A d \in Client \ {c} : d \in rjbList' <=> d \in rjbList
      /\ c \in rjbList' <=> start
      /\ start <=> asleep = {}
      /\ \A s \in Server, d \in Client \ {c} : d \in jobs'[s] <=> d \in jobs[s]
      /\ \A s \in Server : c \in jobs'[s] <=> s \in T
  BY <1>1, <1>2, <1>4, <1>6 DEF start
<1>8. \A d \in Client : Placed(d)' <=> Placed(d) \/ d = c
  BY <1>5, <1>7 DEF Placed
\* The resources of each server.
<1>9. \A s \in Server : /\ ResourceOK(s)
                        /\ Cardinality(Units(jobs[s], NumCores, Cores)) \in Nat
                        /\ Cardinality(Units(jobs[s] \cap rjbList, Memory, Memories)) \in Nat
                        /\ IsFiniteSet(jobs[s] \cap rjbList)
  <2> SUFFICES ASSUME NEW s \in Server
               PROVE  /\ ResourceOK(s)
                      /\ Cardinality(Units(jobs[s], NumCores, Cores)) \in Nat
                      /\ Cardinality(Units(jobs[s] \cap rjbList, Memory, Memories)) \in Nat
                      /\ IsFiniteSet(jobs[s] \cap rjbList)
    OBVIOUS
  <2>1. ResourceOK(s)
    BY DEF ClusterInv, ResourceInv
  <2>2. IsFiniteSet(jobs[s]) /\ IsFiniteSet(jobs[s] \cap rjbList)
    BY <2>1, FS_Intersection DEF ResourceOK
  <2> QED
    BY <2>1, <2>2, UnitsFinite, NumCoresAssumption, MemoryAssumption
<1>10. r.cores <= NumCores /\ r.needMemory <= Memory
  <2>1. PICK s \in T : TRUE
    BY <1>5
  <2>2. s \in Server
    BY <1>3
  <2>3. PICK n \in Nat, k \in Nat : coresInUse[s] = n /\ memory[s] = Memory - k
    BY <1>9, <2>2 DEF ResourceOK
  <2> QED
    BY <1>3, <1>4, <2>3, NumCoresAssumption, MemoryAssumption
<1>11. PlacedInv'
  <2> SUFFICES ASSUME NEW d \in Client PROVE PlacedOK(d)'
    BY DEF PlacedInv
  <2>1. CASE d = c
    <3>1. \A s \in Server : c \in jobs'[s] <=> s \in serverNmb'[c]
      BY <1>7
    <3>2. {s \in serverNmb'[c] : c \notin jobs'[s]} = {}
      BY <1>3, <1>7
    <3>3. finishedServers'[c] = Cardinality({})
      BY <1>1, FS_EmptySet
    <3>4. \E s \in Server : c \in jobs'[s]
      BY <1>3, <1>5, <1>7
    <3> QED
      BY <1>3, <1>4, <1>7, <1>8, <1>10, <2>1, <3>1, <3>2, <3>3, <3>4 DEF PlacedOK
  <2>2. CASE d # c
    <3>1. PlacedOK(d)
      BY DEF ClusterInv, PlacedInv
    <3>2. {s \in serverNmb'[d] : d \notin jobs'[s]} = {s \in serverNmb[d] : d \notin jobs[s]}
      BY <1>6, <1>7, <2>2
    <3> QED
      BY <1>6, <1>7, <1>8, <2>2, <3>1, <3>2 DEF PlacedOK
  <2> QED
    BY <2>1, <2>2
<1>12. ResourceInv'
  <2> SUFFICES ASSUME NEW s \in Server PROVE ResourceOK(s)'
    BY DEF ResourceInv
  <2>1. \A d \in jobs[s] : d \in Client \ {c} /\ Cores'[d] = Cores[d] /\ Memories'[d] = Memories[d]
    BY <1>1, <1>6, <1>7 DEF Cores, Memories
  <2>2. Cores'[c] = r.cores /\ Memories'[c] = r.needMemory
    BY <1>7 DEF Cores, Memories
  <2>3. /\ Units(jobs[s], NumCores, Cores') = Units(jobs[s], NumCores, Cores)
        /\ Units(jobs[s] \cap rjbList, Memory, Memories') = Units(jobs[s] \cap rjbList, Memory, Memories)
    BY <2>1, UnitsSame
  <2>4. c \notin jobs[s] /\ c \notin jobs[s] \cap rjbList
    BY <1>1
  <2>5. IsFiniteSet(jobs[s]) /\ IsFiniteSet(jobs[s] \cap rjbList)
    BY <1>9 DEF ResourceOK
  <2>6. CASE s \in T
    <3>1. jobs'[s] = jobs[s] \cup {c}
      BY <1>2, <2>6
    <3>2. IsFiniteSet(jobs'[s])
      BY <2>5, <3>1, FS_AddElement
    <3>3. Cardinality(Units(jobs'[s], NumCores, Cores')) = Cardinality(Units(jobs[s], NumCores, Cores)) + r.cores
      BY <1>4, <1>10, <2>2, <2>3, <2>4, <2>5, <3>1, UnitsAdd, NumCoresAssumption
    <3>4. coresInUse'[s] = Cardinality(Units(jobs'[s], NumCores, Cores')) /\ coresInUse'[s] <= NumCores
      <4>1. coresInUse[s] = Cardinality(Units(jobs[s], NumCores, Cores)) /\ coresInUse[s] \in Int
        BY <1>6, <1>9 DEF ResourceOK
      <4>2. coresInUse'[s] = coresInUse[s] + r.cores
        BY <1>2, <2>6
      <4>3. NumCores - coresInUse[s] >= r.cores
        BY <1>3, <2>6
      <4>4. coresInUse'[s] <= NumCores
        BY <1>4, <4>1, <4>2, <4>3, NumCoresAssumption
      <4> QED
        BY <3>3, <4>1, <4>2, <4>4
    <3>5. memory'[s] = Memory - Cardinality(Units(jobs'[s] \cap rjbList', Memory, Memories'))
      <4>1. CASE start
        <5>1. jobs'[s] \cap rjbList' = (jobs[s] \cap rjbList) \cup {c}
          BY <1>1, <1>2, <3>1, <4>1
        <5> DEFINE started == jobs[s] \cap rjbList
        <5>2. c \notin started /\ IsFiniteSet(started) /\ r.needMemory \in 0 .. Memory
              /\ Units(started, Memory, Memories') = Units(started, Memory, Memories)
          BY <1>4, <1>10, <2>3, <2>4, <2>5, MemoryAssumption
        <5>3. memory[s] = Memory - Cardinality(Units(started, Memory, Memories))
              /\ Cardinality(Units(started, Memory, Memories)) \in Nat
          BY <1>9 DEF ResourceOK
        <5> HIDE DEF started
        <5>4. Cardinality(Units(started \cup {c}, Memory, Memories'))
                = Cardinality(Units(started, Memory, Memories)) + r.needMemory
          <6>1. Memories'[c] \in 0 .. Memory
            BY <2>2, <5>2
          <6>2. Cardinality(Units(started \cup {c}, Memory, Memories'))
                  = Cardinality(Units(started, Memory, Memories')) + Memories'[c]
            BY <5>2, <6>1, UnitsAdd, MemoryAssumption
          <6> QED
            BY <2>2, <5>2, <6>2, Zenon
        <5>5. memory'[s] = memory[s] - r.needMemory
          BY <1>2, <2>6, <4>1
        <5>6. memory'[s] = Memory - Cardinality(Units(started \cup {c}, Memory, Memories'))
          BY <5>2, <5>3, <5>4, <5>5, MemoryAssumption
        <5> QED
          BY <5>1, <5>6 DEF started
      <4>2. CASE ~start
        <5>1. jobs'[s] \cap rjbList' = jobs[s] \cap rjbList
          BY <1>1, <1>2, <3>1, <4>2
        <5> QED
          BY <1>2, <1>9, <2>3, <4>2, <5>1 DEF ResourceOK
      <4> QED
        BY <4>1, <4>2
    <3> QED
      BY <3>2, <3>4, <3>5 DEF ResourceOK
  <2>7. CASE s \notin T
    <3>1. jobs'[s] = jobs[s] /\ jobs'[s] \cap rjbList' = jobs[s] \cap rjbList
      BY <1>1, <1>2, <2>7
    <3>2. coresInUse'[s] = coresInUse[s] /\ memory'[s] = memory[s]
      BY <1>2, <2>7
    <3> QED
      BY <1>9, <2>3, <3>1, <3>2 DEF ResourceOK
  <2> QED
    BY <2>6, <2>7
\* The messages of the job: none yet, but those that the step sends.
<1>13. /\ \A s \in Server, d \in Client, k \in 1 .. 4 :
            PartAt(s, d, k)' <=> PartAt(s, d, k) \/ (start /\ s \in T /\ d = c /\ k = 1)
       /\ \A s \in Server, d \in Client \cup {NoClient}, step \in Steps :
            ExchangeAt(s, d, step)' <=> ExchangeAt(s, d, step) \/ (s \in asleep /\ d = c /\ step = "scheduled")
  <2>1. UNCHANGED <<toServer, toRms, sleepMsg, complete, sleepResponse, wakeupResponse>>
    BY DEF serverVars
  <2>2. \A s \in Server, d \in Client : <<s, d>> \in jobMsg' <=> <<s, d>> \in jobMsg \/ (start /\ s \in T /\ d = c)
    BY <1>2
  <2>3. \A s \in Server, d \in Client : <<s, d>> \in wakeupMsg' <=> <<s, d>> \in wakeupMsg \/ (s \in asleep /\ d = c)
    BY <1>2
  <2> QED
    BY <2>1, <2>2, <2>3, NoClientAssumption DEF PartAt, ExchangeAt
<1>14. PartInv'
  <2> SUFFICES ASSUME NEW s \in Server, NEW d \in Client PROVE PartOK(s, d)'
    BY DEF PartInv
  <2>1. PartOK(s, d)
    BY DEF ClusterInv, PartInv
  <2>2. CASE d = c /\ start /\ s \in T
    <3>1. OnlyPart(s, d, 1)'
      BY <1>1, <1>13, <2>2 DEF OnlyPart, NoPart
    <3>2. d \in rjbList' /\ d \in jobs'[s]
      BY <1>7, <2>2
    <3> QED
      BY <3>1, <3>2 DEF PartOK
  <2>3. CASE d = c /\ ~(start /\ s \in T)
    <3>1. NoPart(s, d)'
      BY <1>1, <1>13, <2>3 DEF NoPart
    <3>2. ~(d \in rjbList' /\ d \in jobs'[s])
      BY <1>7, <2>3
    <3> QED
      BY <3>1, <3>2 DEF PartOK
  <2>4. CASE d # c
    <3>1. \A k \in 1 .. 4 : PartAt(s, d, k)' <=> PartAt(s, d, k)
      BY <1>13, <2>4
    <3>2. /\ NoPart(s, d)' <=> NoPart(s, d)
          /\ \A k \in 1 .. 4 : OnlyPart(s, d, k)' <=> OnlyPart(s, d, k)
      BY <3>1 DEF NoPart, OnlyPart
    <3>3. (d \in rjbList' <=> d \in rjbList) /\ (d \in jobs'[s] <=> d \in jobs[s])
      BY <1>7, <2>4
    <3> QED
      BY <2>1, <3>2, <3>3 DEF PartOK
  <2> QED
    BY <2>2, <2>3, <2>4
<1>15. MessageInv'
  <2>1. \A s \in Server : ~PartAt(s, c, 2) /\ ~PartAt(s, c, 3)
    BY <1>1 DEF NoPart
  <2> QED
    BY <1>7, <2>1, MessagesOfOthers DEF serverVars
<1>16. ServerInv'
  <2> SUFFICES ASSUME NEW s \in Server PROVE ServerOK(s)'
    BY DEF ServerInv
  <2>1. ServerOK(s)
    BY DEF ClusterInv, ServerInv
  <2>2. CASE s \in asleep
    <3>1. ~reserved[s] /\ state[s] \in Asleep
      BY <1>3, <2>2 DEF asleep
    <3>2. state[s] = "HYBERNATED" /\ jobs[s] = {} /\ NoExchange(s)
      BY <2>1, <3>1 DEF ServerOK, Asleep
    <3>3. reserved'[s] /\ state'[s] = "HYBERNATED" /\ jobs'[s] = {c}
      BY <1>2, <1>3, <2>2, <3>2
    <3>4. c \notin rjbList'
      BY <1>7, <2>2
    <3>5. OnlyExchange(s, c, "scheduled")'
      BY <1>13, <2>2, <3>2 DEF OnlyExchange, NoExchange, Steps
    <3> QED
      BY <3>3, <3>4, <3>5 DEF ServerOK, Steps
  <2>3. CASE s \in T /\ s \notin asleep
    <3>1. ~reserved[s]
      BY <1>3, <2>3
    <3>2. NoExchange(s)
      BY <2>1, <3>1 DEF ServerOK
    <3>3. NoExchange(s)'
      BY <1>13, <2>3, <3>2 DEF NoExchange
    <3>4. ~reserved'[s] /\ state'[s] = "RUNNING" /\ jobs'[s] # {}
      BY <1>2, <2>3
    <3> QED
      BY <3>3, <3>4 DEF ServerOK
  <2>4. CASE s \notin T
    <3>1. state'[s] = state[s] /\ jobs'[s] = jobs[s] /\ (reserved'[s] <=> reserved[s])
      BY <1>2, <1>3, <2>4
    <3>2. \A d \in Client \cup {NoClient}, step \in Steps : ExchangeAt(s, d, step)' <=> ExchangeAt(s, d, step)
      BY <1>3, <1>13, <2>4
    <3>3. /\ NoExchange(s)' <=> NoExchange(s)
          /\ \A d, step : OnlyExchange(s, d, step)' <=> OnlyExchange(s, d, step)
      BY <3>2 DEF NoExchange, OnlyExchange
    <3>4. \A d \in Client : jobs[s] = {d} => (d \in rjbList' <=> d \in rjbList)
      BY <1>1, <1>7
    <3> QED
      BY <2>1, <3>1, <3>3, <3>4 DEF ServerOK
  <2> QED
    BY <1>3, <2>2, <2>3, <2>4
<1>17. WakeupInv'
  <2> SUFFICES ASSUME NEW d \in Client PROVE WakeupOK(d)'
    BY DEF WakeupInv
  <2>1. \A s \in Server, e \in Client : Waking(s, e)' <=> Waking(s, e) \/ (s \in asleep /\ e = c)
    BY <1>13 DEF Waking, Steps
  <2>2. WakeupOK(d) /\ UNCHANGED wakeupNodes
    BY DEF ClusterInv, WakeupInv
  <2>3. CASE d = c
    <3>1. \A s \in Server : ~Waking(s, c)
      BY <1>1 DEF Waking
    <3>2. {s \in serverNmb[c] : Waking(s, c)}' = asleep
      BY <1>3, <1>7, <2>1, <3>1
    <3>3. needwakeupNodes'[c] = Cardinality(asleep) /\ wakeupNodes'[c] = 0
      BY <1>1, <1>7, <2>2
    <3>4. asleep = {} <=> Cardinality(asleep) = 0
      BY <1>4, FS_EmptySet
    <3>5. c \in rjbList' <=> needwakeupNodes'[c] = wakeupNodes'[c]
      BY <1>7, <3>3, <3>4
    <3>6. needwakeupNodes'[c] - wakeupNodes'[c] = Cardinality(asleep)
      BY <1>4, <3>3
    <3> QED
      BY <1>8, <2>3, <3>2, <3>5, <3>6 DEF WakeupOK
  <2>4. CASE d # c
    <3>1. {s \in serverNmb[d] : Waking(s, d)}' = {s \in serverNmb[d] : Waking(s, d)}
      BY <1>6, <1>7, <2>1, <2>4
    <3> QED
      BY <1>7, <1>8, <2>2, <2>4, <3>1 DEF WakeupOK
  <2> QED
    BY <2>3, <2>4
<1> QED
  BY <1>8, <1>11, <1>12, <1>14, <1>15, <1>16, <1>17

\* A request that is only written down.
LEMMA RequestWritten ==
  ASSUME TypeOK, ClusterInv, NEW c \in Client, NEW r, ~Placed(c), request' = [request EXCEPT ![c] = r],
         UNCHANGED <<placementVars, wakeupNodes, finishedServers, toServer, toRms, sleepMsg, serverVars>>
  PROVE  /\ PlacedInv' /\ PartInv' /\ MessageInv' /\ ServerInv' /\ WakeupInv' /\ ResourceInv'
         /\ \A d \in Client : Placed(d)' <=> Placed(d)
<1>1. /\ serverNmb[c] = {} /\ c \notin rjbList
      /\ \A s \in Server : c \notin jobs[s] /\ NoPart(s, c)
  BY NotPlaced
<1>2. \A d \in Client \ {c} : request'[d] = request[d]
  BY DEF TypeOK, RmsTypeOK
<1>3. UNCHANGED <<serverInfoVars, serverNmb, needwakeupNodes, rjbList, jobMsg, wakeupMsg>>
  BY DEF placementVars
<1>4. \A d \in Client : Placed(d)' <=> Placed(d)
  BY <1>3 DEF Placed
<1>5. PlacedInv'
  <2> SUFFICES ASSUME NEW d \in Client PROVE PlacedOK(d)'
    BY DEF PlacedInv
  <2>1. PlacedOK(d)
    BY DEF ClusterInv, PlacedInv
  <2>2. CASE d # c
    BY <1>2, <1>3, <1>4, <2>1, <2>2 DEF PlacedOK, serverInfoVars
  <2>3. CASE d = c
    BY <1>3, <1>4, <2>1, <2>3 DEF PlacedOK, serverInfoVars
  <2> QED
    BY <2>2, <2>3
<1>6. SameParts /\ SameExchanges
  BY <1>3 DEF SameParts, SameExchanges, PartAt, ExchangeAt, serverVars
<1>7. PartInv'
  BY <1>3, <1>6 DEF ClusterInv, PartInv, PartOK, OnlyPart, NoPart, SameParts, serverInfoVars
<1>8. MessageInv'
  <2>1. \A s \in Server : ~PartAt(s, c, 2) /\ ~PartAt(s, c, 3)
    BY <1>1 DEF NoPart
  <2> QED
    BY <1>2, <2>1, MessagesOfOthers DEF serverVars
<1>9. ServerInv'
  <2> SUFFICES ASSUME NEW s \in Server PROVE ServerOK(s)'
    BY DEF ServerInv
  <2>1. ServerOK(s)
    BY DEF ClusterInv, ServerInv
  <2>2. /\ NoExchange(s)' <=> NoExchange(s)
        /\ \A d, step : OnlyExchange(s, d, step)' <=> OnlyExchange(s, d, step)
    BY <1>6 DEF NoExchange, OnlyExchange, SameExchanges
  <2> QED
    BY <1>3, <2>1, <2>2 DEF ServerOK, serverInfoVars
<1>10. WakeupInv'
  <2> SUFFICES ASSUME NEW d \in Client PROVE WakeupOK(d)'
    BY DEF WakeupInv
  <2>1. serverNmb[d] \subseteq Server /\ UNCHANGED wakeupNodes
    BY DEF TypeOK, RmsTypeOK
  <2>2. \A s \in Server : Waking(s, d)' <=> Waking(s, d)
    BY <1>6 DEF Waking, SameExchanges
  <2>3. {s \in serverNmb[d] : Waking(s, d)}' = {s \in serverNmb[d] : Waking(s, d)}
    BY <1>3, <2>1, <2>2
  <2> QED
    BY <1>3, <1>4, <2>1, <2>3 DEF ClusterInv, WakeupInv, WakeupOK
<1>11. ResourceInv'
  <2> SUFFICES ASSUME NEW s \in Server PROVE ResourceOK(s)'
    BY DEF ResourceInv
  <2>1. \A d \in jobs[s] : Cores'[d] = Cores[d] /\ Memories'[d] = Memories[d]
    BY <1>1, <1>2, JobsArePlaced DEF Cores, Memories
  <2>2. /\ Units(jobs[s], NumCores, Cores') = Units(jobs[s], NumCores, Cores)
        /\ Units(jobs[s] \cap rjbList, Memory, Memories') = Units(jobs[s] \cap rjbList, Memory, Memories)
    BY <2>1, UnitsSame
  <2> QED
    BY <1>3, <2>2 DEF ClusterInv, ResourceInv, ResourceOK, serverInfoVars
<1> QED
  BY <1>4, <1>5, <1>7, <1>8, <1>9, <1>10, <1>11

\* A request of a client: checkQueue places its job or appends it to the queue.
LEMMA RequestInvariant ==
  ASSUME TypeOK, ClusterInv, NEW c \in Client, NEW r \in Requests[c], RmsClientRequest(c, r),
         UNCHANGED serverVars
  PROVE  ClusterInv'
<1>1. /\ c \notin outstanding
      /\ outstanding' = outstanding \cup {c} /\ cliList' = cliList \cup {c}
      /\ request' = [request EXCEPT ![c] = r]
      /\ CheckQueue(c, r)
      /\ UNCHANGED <<wakeupNodes, finishedServers, sleepMsg, finishMsg, finishSent, toServer, toRms>>
  BY DEF RmsClientRequest
<1>2. c \notin cliList /\ c \notin ToSet(jobQueue) /\ ~Placed(c)
  BY <1>1 DEF ClusterInv, ReportInv, QueueInv
<1>3. r \in Request /\ request \in [Client -> Request \cup {NoRequest}] /\ jobQueue \in Seq(Client)
  BY RequestsAssumption DEF TypeOK, RmsTypeOK
<1>4. Place(c, r) \/ EnqueueJob(c)
  BY <1>1 DEF CheckQueue
<1>5. ClientInv'
  BY <1>1, <1>3 DEF ClusterInv, ClientInv
<1>6. ReportInv'
  BY <1>1 DEF ClusterInv, ReportInv
<1>7. CASE Place(c, r)
  <2>1. PICK T \in SUBSET Eligible(r) : SearchServers(r, T) /\ InitServerConnection(c, r, T)
    BY <1>7 DEF Place
  <2>2. /\ PlacedInv' /\ PartInv' /\ MessageInv' /\ ServerInv' /\ WakeupInv' /\ ResourceInv'
        /\ \A d \in Client : Placed(d)' <=> Placed(d) \/ d = c
    BY <1>1, <1>2, <1>3, <2>1, PlacementInvariant
  <2>3. jobQueue' = jobQueue
    BY <1>7 DEF Place
  <2>4. QueueInv'
    BY <1>1, <1>2, <2>2, <2>3 DEF ClusterInv, QueueInv
  <2> QED
    BY <1>5, <1>6, <2>2, <2>4 DEF ClusterInv
<1>8. CASE EnqueueJob(c)
  <2>1. /\ PlacedInv' /\ PartInv' /\ MessageInv' /\ ServerInv' /\ WakeupInv' /\ ResourceInv'
        /\ \A d \in Client : Placed(d)' <=> Placed(d)
    BY <1>1, <1>2, <1>8, RequestWritten DEF EnqueueJob
  <2>2. jobQueue' = Append(jobQueue, c)
    BY <1>8 DEF EnqueueJob
  <2>3. ToSet(jobQueue') = ToSet(jobQueue) \cup {c} /\ IsInjective(jobQueue')
    BY <1>2, <1>3, <2>2, AppendElements DEF ClusterInv, QueueInv
  <2>4. QueueInv'
    BY <1>1, <1>2, <2>1, <2>3 DEF ClusterInv, QueueInv
  <2> QED
    BY <1>5, <1>6, <2>1, <2>4 DEF ClusterInv
<1> QED
  BY <1>4, <1>7, <1>8

\* A queued job leaves the queue for its servers.
LEMMA StartQueuedInvariant ==
  ASSUME TypeOK, ClusterInv, NEW i \in 1 .. Len(jobQueue), StartQueued(i),
         UNCHANGED <<loopFrame, sleepMsg, serverVars>>
  PROVE  ClusterInv'
<1> DEFINE c == jobQueue[i]
           r == request[c]
<1>1. jobQueue \in Seq(Client) /\ IsInjective(jobQueue)
  BY DEF TypeOK, RmsTypeOK, ClusterInv, QueueInv
<1>2. c \in Client /\ c \in ToSet(jobQueue)
  BY <1>1 DEF ToSet
<1>3. c \in cliList /\ ~Placed(c)
  BY <1>2 DEF ClusterInv, QueueInv
<1>4. r \in Request
  BY <1>2, <1>3, RequestsAssumption DEF ClusterInv, ClientInv
<1>5. request \in [Client -> Request \cup {NoRequest}]
  BY DEF TypeOK, RmsTypeOK
<1>6. PICK T \in SUBSET Eligible(r) : SearchServers(r, T) /\ InitServerConnection(c, r, T)
  BY DEF StartQueued
<1>7. UNCHANGED <<cliList, request, wakeupNodes, finishedServers, finishMsg, finishSent, outstanding,
                  toServer, toRms, sleepMsg, serverVars>>
  BY DEF loopFrame, clientVars
<1>8. ToSet(jobQueue') = ToSet(jobQueue) \ {c} /\ IsInjective(jobQueue')
  BY <1>1, RemoveAtElements DEF StartQueued
<1> HIDE DEF c, r
<1>9. request' = [request EXCEPT ![c] = r]
  BY <1>5, <1>7 DEF r
<1>10. /\ PlacedInv' /\ PartInv' /\ MessageInv' /\ ServerInv' /\ WakeupInv' /\ ResourceInv'
       /\ \A d \in Client : Placed(d)' <=> Placed(d) \/ d = c
  BY <1>2, <1>3, <1>4, <1>6, <1>7, <1>9, PlacementInvariant
<1>11. QueueInv'
  BY <1>2, <1>7, <1>8, <1>10 DEF ClusterInv, QueueInv
<1>12. ClientInv'
  BY <1>7 DEF ClusterInv, ClientInv
<1>13. ReportInv'
  BY <1>7 DEF ClusterInv, ReportInv
<1> QED
  BY <1>10, <1>11, <1>12, <1>13 DEF ClusterInv

\* A step of a loop that finds nothing to start.
LEMMA NoneStartedInvariant ==
  ASSUME TypeOK, ClusterInv, NoneStarted, UNCHANGED <<loopFrame, sleepMsg, serverVars>>
  PROVE  ClusterInv'
<1>1. UNCHANGED <<coreVars, reportVars, jobMsg, wakeupMsg, sleepMsg, toServer, toRms, serverVars>>
  BY DEF NoneStarted, loopFrame, placementVars, clientVars, coreVars, reportVars
<1>2. SameParts /\ SameExchanges
  BY <1>1 DEF SameParts, PartAt, SameExchanges, ExchangeAt, serverVars
<1>3. MessageInv'
  BY <1>1 DEF ClusterInv, MessageInv, MemoryOK, coreVars, serverVars
<1> QED
  BY <1>1, <1>2, <1>3, CoreUnchanged, ReportsUnchanged, PartsUnchanged, ExchangesUnchanged DEF ClusterInv

\* Idle servers are told to sleep (checkServers).
LEMMA CheckServersInvariant ==
  ASSUME TypeOK, ClusterInv, CheckServers, UNCHANGED serverVars
  PROVE  ClusterInv'
<1>1. PICK hybernate \in SUBSET IdleServers :
        /\ state' = [s \in Server |-> IF s \in hybernate THEN "HYBERNATED" ELSE state[s]]
        /\ reserved' = [s \in Server |-> s \in hybernate \/ reserved[s]]
        /\ sleepMsg' = sleepMsg \cup hybernate
  BY DEF CheckServers
<1>2. UNCHANGED <<memory, coresInUse, jobs, serverNmb, needwakeupNodes, wakeupNodes, rjbList, jobMsg, wakeupMsg,
                  jobQueue, finishedServers, toServer, toRms, serverVars, reportVars, request>>
  BY DEF CheckServers, loopFrame, clientVars, reportVars
<1>3. QueueInv' /\ ClientInv' /\ ReportInv'
  BY <1>2 DEF ClusterInv, QueueInv, ClientInv, ReportInv, Placed, reportVars
<1>4. PlacedInv'
  BY <1>2 DEF ClusterInv, PlacedInv, PlacedOK, Placed
<1>5. SameParts
  BY <1>2 DEF SameParts, PartAt, serverVars
<1>6. PartInv' /\ MessageInv'
  BY <1>2, <1>5
  DEF ClusterInv, PartInv, PartOK, OnlyPart, NoPart, SameParts, MessageInv, MemoryOK, serverVars
<1>7. \A s \in Server, d \in Client \cup {NoClient}, step \in Steps :
        ExchangeAt(s, d, step)' <=> ExchangeAt(s, d, step) \/ (s \in hybernate /\ d = NoClient /\ step = "scheduled")
  BY <1>1, <1>2 DEF ExchangeAt, serverVars
<1>8. ServerInv'
  <2> SUFFICES ASSUME NEW s \in Server PROVE ServerOK(s)'
    BY DEF ServerInv
  <2>1. ServerOK(s)
    BY DEF ClusterInv, ServerInv
  <2>2. CASE s \in hybernate
    <3>1. jobs[s] = {} /\ NoExchange(s)
      BY <2>1, <2>2 DEF IdleServers, ServerOK
    <3>2. OnlyExchange(s, NoClient, "scheduled")'
      BY <1>7, <2>2, <3>1 DEF OnlyExchange, NoExchange, Steps
    <3>3. state'[s] = "HYBERNATED" /\ reserved'[s] /\ jobs'[s] = {}
      BY <1>1, <1>2, <2>2, <3>1
    <3> QED
      BY <3>2, <3>3 DEF ServerOK, Steps
  <2>3. CASE s \notin hybernate
    <3>1. state'[s] = state[s] /\ jobs'[s] = jobs[s] /\ (reserved'[s] <=> reserved[s])
      BY <1>1, <1>2, <2>3
    <3>2. \A d \in Client \cup {NoClient}, step \in Steps : ExchangeAt(s, d, step)' <=> ExchangeAt(s, d, step)
      BY <1>7, <2>3
    <3>3. /\ NoExchange(s)' <=> NoExchange(s)
          /\ \A d, step : OnlyExchange(s, d, step)' <=> OnlyExchange(s, d, step)
      BY <3>2 DEF NoExchange, OnlyExchange
    <3> QED
      BY <1>2, <2>1, <3>1, <3>3 DEF ServerOK
  <2> QED
    BY <2>2, <2>3
<1>9. WakeupInv'
  <2> SUFFICES ASSUME NEW c \in Client PROVE WakeupOK(c)'
    BY DEF WakeupInv
  <2>1. serverNmb[c] \subseteq Server
    BY DEF TypeOK, RmsTypeOK
  <2>2. \A s \in Server : Waking(s, c)' <=> Waking(s, c)
    BY <1>7, NoClientAssumption DEF Waking
  <2>3. {s \in serverNmb[c] : Waking(s, c)}' = {s \in serverNmb[c] : Waking(s, c)}
    BY <1>2, <2>1, <2>2
  <2> QED
    BY <1>2, <2>3 DEF ClusterInv, WakeupInv, WakeupOK, Placed
<1>10. ResourceInv'
  BY <1>2 DEF ClusterInv, ResourceInv, ResourceOK, Cores, Memories
<1> QED
  BY <1>3, <1>4, <1>6, <1>8, <1>9, <1>10 DEF ClusterInv

----------------------------------------------------------------------------
(* The messages of the servers *)

\* The answer to a sleep or a wake-up ends the only exchange of its server.
LEMMA AnswerReceived ==
  ASSUME TypeOK, ClusterInv, NEW s \in Server, NEW d \in Client \cup {NoClient}, NEW m \in toRms[s],
         m = IF d = NoClient THEN SleepResponseMsg ELSE WakeupResponseMsg(d),
         toRms' = [toRms EXCEPT ![s] = @ \ {m}], UNCHANGED <<toServer, wakeupMsg, sleepMsg, serverVars>>
  PROVE  /\ OnlyExchange(s, d, "answered")
         /\ NoExchange(s)'
         /\ \A t \in Server, e \in Client \cup {NoClient}, step \in Steps :
              t # s => (ExchangeAt(t, e, step)' <=> ExchangeAt(t, e, step))
         /\ \A t \in Server, c \in Client, k \in 2 .. 4 : PartAt(t, c, k)' <=> PartAt(t, c, k)
<1>1. \A t \in Server : toRms'[t] = IF t = s THEN toRms[t] \ {m} ELSE toRms[t]
  BY DEF TypeOK, NetTypeOK
<1>2. \A c : m # FinishMsg(c)
  BY DEF FinishMsg, SleepResponseMsg, WakeupResponseMsg
<1>3. ExchangeAt(s, d, "answered")
  BY DEF ExchangeAt
<1>4. OnlyExchange(s, d, "answered")
  BY <1>3, ExchangeIsOnly DEF Steps
<1>5. NoExchange(s)'
  <2> SUFFICES ASSUME NEW e \in Client \cup {NoClient}, NEW step \in Steps
               PROVE  ~ExchangeAt(s, e, step)'
    BY DEF NoExchange
  <2>1. ExchangeAt(s, e, step) <=> e = d /\ step = "answered"
    BY <1>4 DEF OnlyExchange
  <2>2. CASE step = "answered"
    BY <1>1, <2>1, <2>2 DEF ExchangeAt
  <2>3. CASE step # "answered"
    BY <2>1, <2>3 DEF ExchangeAt, serverVars
  <2> QED
    BY <2>2, <2>3
<1>6. \A t \in Server, e \in Client \cup {NoClient}, step \in Steps :
        t # s => (ExchangeAt(t, e, step)' <=> ExchangeAt(t, e, step))
  BY <1>1 DEF ExchangeAt, serverVars
<1>7. \A t \in Server, c \in Client, k \in 2 .. 4 : PartAt(t, c, k)' <=> PartAt(t, c, k)
  BY <1>1, <1>2 DEF PartAt, serverVars
<1> QED
  BY <1>4, <1>5, <1>6, <1>7

\* MSGKIND_SLEEP_RESPONSE
LEMMA SleepResponseInvariant ==
  ASSUME TypeOK, ClusterInv, NEW s \in Server, NEW m \in toRms[s], RmsSleepResponse(s, m), UNCHANGED serverVars
  PROVE  ClusterInv'
<1>1. m = SleepResponseMsg
  BY DEF RmsSleepResponse, TypeOK, NetTypeOK, ToRmsMessage
<1>2. /\ toRms' = [toRms EXCEPT ![s] = @ \ {m}]
      /\ reserved' = [reserved EXCEPT ![s] = FALSE]
      /\ UNCHANGED <<state, memory, coresInUse, jobs, serverNmb, needwakeupNodes, rjbList, jobMsg,
                     wakeupMsg, cliList, request, wakeupNodes, finishedServers, jobQueue, sleepMsg,
                     finishMsg, finishSent, outstanding, toServer>>
  BY DEF RmsSleepResponse, clientVars
<1>3. /\ OnlyExchange(s, NoClient, "answered")
      /\ NoExchange(s)'
      /\ \A t \in Server, e \in Client \cup {NoClient}, step \in Steps :
           t # s => (ExchangeAt(t, e, step)' <=> ExchangeAt(t, e, step))
      /\ \A t \in Server, c \in Client, k \in 2 .. 4 : PartAt(t, c, k)' <=> PartAt(t, c, k)
  BY <1>1, <1>2, AnswerReceived
<1>4. QueueInv' /\ ClientInv' /\ ReportInv' /\ PlacedInv'
  BY <1>2 DEF ClusterInv, QueueInv, ClientInv, ReportInv, PlacedInv, PlacedOK, Placed
<1>5. SameParts
  BY <1>2, <1>3 DEF SameParts, PartAt
<1>6. PartInv' /\ MessageInv'
  BY <1>2, <1>5
  DEF ClusterInv, PartInv, PartOK, OnlyPart, NoPart, SameParts, MessageInv, MemoryOK, serverVars
<1>7. ServerInv'
  <2> SUFFICES ASSUME NEW t \in Server PROVE ServerOK(t)'
    BY DEF ServerInv
  <2>1. CASE t = s
    <3>1. ExchangeAt(s, NoClient, "answered")
      BY <1>3 DEF OnlyExchange, Steps
    <3>2. state[s] = "HYBERNATED" /\ jobs[s] = {}
      BY <3>1, ExchangeIsOnly DEF Steps
    <3>3. ~reserved'[s] /\ state'[s] = "HYBERNATED" /\ jobs'[s] = {}
      BY <1>2, <3>2 DEF TypeOK, RmsTypeOK, SrvListTypeOK
    <3> QED
      BY <1>3, <2>1, <3>3 DEF ServerOK
  <2>2. CASE t # s
    <3>1. ServerOK(t)
      BY DEF ClusterInv, ServerInv
    <3>2. /\ NoExchange(t)' <=> NoExchange(t)
          /\ \A d, step : OnlyExchange(t, d, step)' <=> OnlyExchange(t, d, step)
      BY <1>3, <2>2 DEF NoExchange, OnlyExchange
    <3>3. reserved'[t] = reserved[t]
      BY <1>2, <2>2 DEF TypeOK, RmsTypeOK, SrvListTypeOK
    <3> QED
      BY <1>2, <3>1, <3>2, <3>3 DEF ServerOK
  <2> QED
    BY <2>1, <2>2
<1>8. WakeupInv'
  <2> SUFFICES ASSUME NEW c \in Client PROVE WakeupOK(c)'
    BY DEF WakeupInv
  <2>1. serverNmb[c] \subseteq Server
    BY DEF TypeOK, RmsTypeOK
  <2>2. \A t \in Server : Waking(t, c)' <=> Waking(t, c)
    BY <1>3, NoClientAssumption DEF Waking, NoExchange, OnlyExchange
  <2>3. {t \in serverNmb[c] : Waking(t, c)}' = {t \in serverNmb[c] : Waking(t, c)}
    BY <1>2, <2>1, <2>2
  <2> QED
    BY <1>2, <2>3 DEF ClusterInv, WakeupInv, WakeupOK, Placed
<1>9. ResourceInv'
  BY <1>2 DEF ClusterInv, ResourceInv, ResourceOK, Cores, Memories
<1> QED
  BY <1>4, <1>6, <1>7, <1>8, <1>9 DEF ClusterInv

\* MSGKIND_WAKEUP_RESPONSE: one server less to wait for, and with the last the job starts.
LEMMA WakeupResponseInvariant ==
  ASSUME TypeOK, ClusterInv, NEW s \in Server, NEW m \in toRms[s], RmsWakeupResponse(s, m), UNCHANGED serverVars
  PROVE  ClusterInv'
<1> DEFINE c == m.client
           last == wakeupNodes[c] + 1 = needwakeupNodes[c]
           T == serverNmb[c]
<1>1. c \in Client /\ c # NoClient /\ m = WakeupResponseMsg(c)
  BY NoClientAssumption DEF RmsWakeupResponse, TypeOK, NetTypeOK, ToRmsMessage, WakeupResponseMsg, SleepResponseMsg
<1>2. /\ toRms' = [toRms EXCEPT ![s] = @ \ {m}]
      /\ wakeupNodes' = [wakeupNodes EXCEPT ![c] = @ + 1]
      /\ IF last
         THEN /\ memory' = [t \in Server |-> IF t \in T THEN memory[t] - request[c].needMemory ELSE memory[t]]
              /\ state' = [t \in Server |-> IF t \in T THEN "RUNNING" ELSE state[t]]
              /\ reserved' = [t \in Server |-> t \notin T /\ reserved[t]]
              /\ jobMsg' = jobMsg \cup (T \X {c})
              /\ rjbList' = rjbList \cup {c}
         ELSE UNCHANGED <<memory, state, reserved, jobMsg, rjbList>>
      /\ UNCHANGED <<coresInUse, jobs, serverNmb, needwakeupNodes, wakeupMsg, cliList, request,
                     finishedServers, jobQueue, sleepMsg, finishMsg, finishSent, outstanding, toServer>>
  BY DEF RmsWakeupResponse, SendClientRequests, placementVars, serverInfoVars, clientVars
<1>3. /\ jobs \in [Server -> SUBSET Client] /\ serverNmb \in [Client -> SUBSET Server]
      /\ needwakeupNodes \in [Client -> Nat] /\ wakeupNodes \in [Client -> Nat]
      /\ memory \in [Server -> Int] /\ rjbList \subseteq Client
  BY DEF TypeOK, RmsTypeOK, SrvListTypeOK
<1> HIDE DEF c, last, T
<1>4. /\ OnlyExchange(s, c, "answered")
      /\ NoExchange(s)'
      /\ \A t \in Server, e \in Client \cup {NoClient}, step \in Steps :
           t # s => (ExchangeAt(t, e, step)' <=> ExchangeAt(t, e, step))
      /\ \A t \in Server, d \in Client, k \in 2 .. 4 : PartAt(t, d, k)' <=> PartAt(t, d, k)
  BY <1>1, <1>2, AnswerReceived
<1>5. ExchangeAt(s, c, "answered")
  BY <1>1, <1>4 DEF OnlyExchange, Steps
<1>6. reserved[s] /\ state[s] = "HYBERNATED" /\ c \notin rjbList /\ jobs[s] = {c}
  BY <1>1, <1>5, ExchangeIsOnly DEF Steps
<1>7. PlacedOK(c) /\ WakeupOK(c)
  BY <1>1 DEF ClusterInv, PlacedInv, WakeupInv
<1>8. /\ s \in T /\ T \subseteq Server /\ Placed(c) /\ \A t \in Server : c \in jobs[t] <=> t \in T
      /\ T = serverNmb[c]
  BY <1>1, <1>3, <1>6, <1>7 DEF PlacedOK, Placed, T
\* One server less is waking up for the job.
<1>9. \A t \in Server, d \in Client : Waking(t, d)' <=> Waking(t, d) /\ ~(t = s /\ d = c)
  BY <1>4 DEF Waking, NoExchange, OnlyExchange
<1>10. PICK waking : waking = {t \in T : Waking(t, c)}
  OBVIOUS
<1>11. /\ IsFiniteSet(waking) /\ s \in waking
       /\ waking \ {s} = {t \in serverNmb[c] : Waking(t, c)}'
       /\ Cardinality(waking) \in Nat
       /\ Cardinality(waking \ {s}) = Cardinality(waking) - 1
  <2>1. waking \in SUBSET Server
    BY <1>8, <1>10
  <2>2. IsFiniteSet(waking) /\ Cardinality(waking) \in Nat
    BY <2>1, ServerFinite
  <2>3. s \in waking
    BY <1>5, <1>8, <1>10 DEF Waking, Steps
  <2>4. waking \ {s} = {t \in serverNmb[c] : Waking(t, c)}'
    BY <1>1, <1>2, <1>8, <1>9, <1>10
  <2> QED
    BY <2>2, <2>3, <2>4, FS_RemoveElement
<1>12. needwakeupNodes[c] - wakeupNodes[c] = Cardinality(waking)
  BY <1>7, <1>8, <1>10 DEF WakeupOK
<1>13. /\ needwakeupNodes'[c] - wakeupNodes'[c] = Cardinality(waking \ {s})
       /\ last <=> needwakeupNodes'[c] = wakeupNodes'[c]
       /\ last <=> Cardinality(waking \ {s}) = 0
  <2>1. needwakeupNodes'[c] = needwakeupNodes[c] /\ wakeupNodes'[c] = wakeupNodes[c] + 1
    BY <1>1, <1>2, <1>3
  <2>2. needwakeupNodes[c] \in Int /\ wakeupNodes[c] \in Int
    BY <1>1, <1>3
  <2>3. last <=> wakeupNodes[c] + 1 = needwakeupNodes[c]
    BY DEF last
  <2>4. PICK n \in Nat : n = Cardinality(waking)
    BY <1>11
  <2> QED
    BY <1>11, <1>12, <2>1, <2>2, <2>3, <2>4
\* When the job starts, none of its servers has an exchange left.
<1>14. ASSUME last, NEW t \in Server, t \in T
       PROVE  NoExchange(t)'
  <2>1. CASE t = s
    BY <1>4, <2>1
  <2>2. CASE t # s
    <3>1. waking \ {s} = {}
      BY <1>11, <1>13, <1>14, FS_EmptySet, FS_RemoveElement
    <3>2. \A step \in Steps : ~ExchangeAt(t, c, step)
      BY <1>10, <1>14, <2>2, <3>1 DEF Waking
    <3>3. ServerOK(t) /\ c \in jobs[t]
      BY <1>8, <1>14 DEF ClusterInv, ServerInv
    <3>4. NoExchange(t)
      BY <1>1, <3>2, <3>3 DEF ServerOK, NoExchange, OnlyExchange
    <3> QED
      BY <1>4, <2>2, <3>4 DEF NoExchange
  <2> QED
    BY <2>1, <2>2
<1>15. QueueInv' /\ ClientInv' /\ ReportInv'
  BY <1>2 DEF ClusterInv, QueueInv, ClientInv, ReportInv, Placed
<1>16. PlacedInv'
  <2> SUFFICES ASSUME NEW d \in Client PROVE PlacedOK(d)'
    BY DEF PlacedInv
  <2>1. PlacedOK(d) /\ (Placed(d)' <=> Placed(d))
    BY <1>2 DEF ClusterInv, PlacedInv, Placed
  <2>2. d \in rjbList' <=> d \in rjbList \/ (d = c /\ last)
    BY <1>2
  <2> QED
    BY <1>2, <1>8, <2>1, <2>2 DEF PlacedOK
<1>17. PartInv'
  <2> SUFFICES ASSUME NEW t \in Server, NEW d \in Client PROVE PartOK(t, d)'
    BY DEF PartInv
  <2>1. PartOK(t, d)
    BY DEF ClusterInv, PartInv
  <2>2. PartAt(t, d, 1)' <=> PartAt(t, d, 1) \/ (last /\ t \in T /\ d = c)
    <3>1. <<t, d>> \in jobMsg' <=> <<t, d>> \in jobMsg \/ (last /\ t \in T /\ d = c)
      BY <1>2
    <3> QED
      BY <3>1 DEF PartAt
  <2>3. CASE last /\ t \in T /\ d = c
    <3>1. NoPart(t, d)
      BY <1>6, <2>1, <2>3 DEF PartOK
    <3>2. OnlyPart(t, d, 1)'
      BY <1>4, <2>2, <2>3, <3>1 DEF OnlyPart, NoPart
    <3>3. d \in rjbList' /\ d \in jobs'[t]
      BY <1>2, <1>8, <2>3
    <3> QED
      BY <3>2, <3>3 DEF PartOK
  <2>4. CASE ~(last /\ t \in T /\ d = c)
    <3>1. \A k \in 1 .. 4 : PartAt(t, d, k)' <=> PartAt(t, d, k)
      BY <1>4, <2>2, <2>4
    <3>2. /\ NoPart(t, d)' <=> NoPart(t, d)
          /\ \A k \in 1 .. 4 : OnlyPart(t, d, k)' <=> OnlyPart(t, d, k)
      BY <3>1 DEF NoPart, OnlyPart
    <3>3. d \in rjbList' /\ d \in jobs'[t] <=> d \in rjbList /\ d \in jobs[t]
      BY <1>2, <1>8, <2>4
    <3> QED
      BY <2>1, <3>2, <3>3 DEF PartOK
  <2> QED
    BY <2>3, <2>4
<1>18. MessageInv'
  BY <1>2 DEF ClusterInv, MessageInv, MemoryOK, serverVars
<1>19. ServerInv'
  <2> SUFFICES ASSUME NEW t \in Server PROVE ServerOK(t)'
    BY DEF ServerInv
  <2>1. ServerOK(t) /\ jobs'[t] = jobs[t]
    BY <1>2 DEF ClusterInv, ServerInv
  <2>2. CASE last /\ t \in T
    <3>1. NoExchange(t)'
      BY <1>14, <2>2
    <3>2. state'[t] = "RUNNING" /\ ~reserved'[t]
      BY <1>2, <2>2
    <3>3. jobs'[t] # {}
      BY <1>8, <2>1, <2>2
    <3> QED
      BY <3>1, <3>2, <3>3 DEF ServerOK
  <2>3. CASE ~last /\ t = s
    <3>1. reserved'[t] /\ state'[t] = "HYBERNATED" /\ jobs'[t] = {c} /\ c \in Client \ rjbList'
      BY <1>1, <1>2, <1>6, <2>1, <2>3
    <3> QED
      BY <1>4, <2>3, <3>1 DEF ServerOK
  <2>4. CASE t # s /\ ~(last /\ t \in T)
    <3>1. /\ NoExchange(t)' <=> NoExchange(t)
          /\ \A d, step : OnlyExchange(t, d, step)' <=> OnlyExchange(t, d, step)
      BY <1>4, <2>4 DEF NoExchange, OnlyExchange
    <3>2. state'[t] = state[t] /\ (reserved'[t] <=> reserved[t])
      BY <1>2, <2>4
    <3>3. \A d \in Client : jobs[t] = {d} => (d \in rjbList' <=> d \in rjbList)
      BY <1>2, <1>8, <2>4
    <3> QED
      BY <2>1, <3>1, <3>2, <3>3 DEF ServerOK
  <2> QED
    BY <1>8, <2>2, <2>3, <2>4
<1>20. WakeupInv'
  <2> SUFFICES ASSUME NEW d \in Client PROVE WakeupOK(d)'
    BY DEF WakeupInv
  <2>1. Placed(d)' <=> Placed(d)
    BY <1>2 DEF Placed
  <2>2. CASE d = c
    <3>1. c \in rjbList' <=> last
      BY <1>2, <1>6
    <3> QED
      BY <1>8, <1>11, <1>13, <2>1, <2>2, <3>1 DEF WakeupOK
  <2>3. CASE d # c
    <3>1. WakeupOK(d) /\ serverNmb[d] \subseteq Server
      BY <1>3 DEF ClusterInv, WakeupInv
    <3>2. {t \in serverNmb[d] : Waking(t, d)}' = {t \in serverNmb[d] : Waking(t, d)}
      BY <1>2, <1>9, <2>3, <3>1
    <3>3. needwakeupNodes'[d] = needwakeupNodes[d] /\ wakeupNodes'[d] = wakeupNodes[d]
          /\ (d \in rjbList' <=> d \in rjbList)
      BY <1>2, <1>3, <2>3
    <3> QED
      BY <2>1, <3>1, <3>2, <3>3 DEF WakeupOK
  <2> QED
    BY <2>2, <2>3
<1>21. ResourceInv'
  <2> SUFFICES ASSUME NEW t \in Server PROVE ResourceOK(t)'
    BY DEF ResourceInv
  <2>1. ResourceOK(t) /\ jobs'[t] = jobs[t] /\ coresInUse'[t] = coresInUse[t] /\ Cores' = Cores /\ Memories' = Memories
    BY <1>2 DEF ClusterInv, ResourceInv, Cores, Memories
  <2>2. CASE last /\ t \in T
    <3> DEFINE started == jobs[t] \cap rjbList
    <3>1. jobs'[t] \cap rjbList' = started \cup {c}
      BY <1>2, <1>8, <2>1, <2>2
    <3>2. IsFiniteSet(started) /\ c \notin started
      BY <1>6, <2>1, FS_Intersection DEF ResourceOK
    <3>3. memory[t] = Memory - Cardinality(Units(started, Memory, Memories))
      BY <2>1 DEF ResourceOK
    <3>4. memory'[t] = memory[t] - Memories[c]
      BY <1>1, <1>2, <2>2 DEF Memories
    <3> HIDE DEF started
    <3>5. Memories[c] \in 0 .. Memory
      BY <1>1, <1>8, AmountsOfPlaced
    <3>6. Cardinality(Units(started \cup {c}, Memory, Memories))
            = Cardinality(Units(started, Memory, Memories)) + Memories[c]
          /\ Cardinality(Units(started, Memory, Memories)) \in Nat
      BY <3>2, <3>5, UnitsAdd, UnitsFinite, MemoryAssumption
    <3>7. memory'[t] = Memory - Cardinality(Units(started \cup {c}, Memory, Memories))
      <4>1. PICK n \in Nat : n = Cardinality(Units(started, Memory, Memories))
        BY <3>6
      <4>2. PICK k \in Nat : k = Memories[c]
        BY <3>5
      <4> QED
        BY <3>3, <3>4, <3>6, <4>1, <4>2, MemoryAssumption
    <3> QED
      BY <2>1, <3>1, <3>7 DEF ResourceOK
  <2>3. CASE ~(last /\ t \in T)
    <3>1. jobs'[t] \cap rjbList' = jobs[t] \cap rjbList
      BY <1>2, <1>8, <2>1, <2>3
    <3>2. memory'[t] = memory[t]
      BY <1>2, <2>3
    <3> QED
      BY <2>1, <3>1, <3>2 DEF ResourceOK
  <2> QED
    BY <2>2, <2>3
<1> QED
  BY <1>15, <1>16, <1>17, <1>18, <1>19, <1>20, <1>21 DEF ClusterInv

\* MSGKIND_FINISH: a server gives its cores and memory back, and with the last the job is over.
LEMMA FinishInvariant ==
  ASSUME TypeOK, ClusterInv, NEW s \in Server, NEW m \in toRms[s], RmsFinish(s, m), UNCHANGED serverVars
  PROVE  /\ ClusterInv'
         /\ m.client \in rjbList /\ m.client \in jobs[s]
         /\ finishedServers[m.client] + 1 = request[m.client].nodes
              <=> \A t \in Server : m.client \in jobs[t] => t = s
<1> DEFINE c == m.client
           last == finishedServers[c] + 1 = request[c].nodes
<1>1. c \in Client /\ m = FinishMsg(c)
  BY DEF RmsFinish, TypeOK, NetTypeOK, ToRmsMessage, FinishMsg, SleepResponseMsg
<1>2. /\ toRms' = [toRms EXCEPT ![s] = @ \ {m}]
      /\ memory' = [memory EXCEPT ![s] = @ + request[c].needMemory]
      /\ coresInUse' = [coresInUse EXCEPT ![s] = @ - request[c].cores]
      /\ state' = IF coresInUse'[s] = 0 THEN [state EXCEPT ![s] = "IDLE"] ELSE state
      /\ jobs' = [jobs EXCEPT ![s] = @ \ {c}]
      /\ IF last
         THEN /\ rjbList' = rjbList \ {c}
              /\ finishMsg' = finishMsg \cup {[client |-> c, data |-> outputData[c] + 1]}
              /\ cliList' = cliList \ {c}
              /\ request' = [request EXCEPT ![c] = NoRequest]
              /\ serverNmb' = [serverNmb EXCEPT ![c] = {}]
              /\ wakeupNodes' = [wakeupNodes EXCEPT ![c] = 0]
              /\ needwakeupNodes' = [needwakeupNodes EXCEPT ![c] = 0]
              /\ finishedServers' = [finishedServers EXCEPT ![c] = 0]
         ELSE /\ finishedServers' = [finishedServers EXCEPT ![c] = @ + 1]
              /\ UNCHANGED <<rjbList, finishMsg, cliList, request, serverNmb, wakeupNodes, needwakeupNodes>>
      /\ UNCHANGED <<reserved, jobQueue, jobMsg, wakeupMsg, sleepMsg, finishSent, outstanding, toServer>>
  BY DEF RmsFinish, clientVars
<1>3. /\ jobs \in [Server -> SUBSET Client] /\ serverNmb \in [Client -> SUBSET Server]
      /\ needwakeupNodes \in [Client -> Nat] /\ wakeupNodes \in [Client -> Nat]
      /\ finishedServers \in [Client -> Nat] /\ request \in [Client -> Request \cup {NoRequest}]
      /\ memory \in [Server -> Int] /\ coresInUse \in [Server -> Int]
      /\ state \in [Server -> {"IDLE", "RUNNING"} \cup Asleep]
  BY DEF TypeOK, RmsTypeOK, SrvListTypeOK
<1>4. \A t \in Server : toRms'[t] = IF t = s THEN toRms[t] \ {m} ELSE toRms[t]
  BY <1>2 DEF TypeOK, NetTypeOK
<1>5. PartAt(s, c, 4)
  BY <1>1 DEF PartAt
<1>6. OnlyPart(s, c, 4) /\ c \in rjbList /\ c \in jobs[s]
  BY <1>1, <1>5, PartIsOnly
<1>7. PlacedOK(c) /\ WakeupOK(c) /\ ServerOK(s)
  BY <1>1 DEF ClusterInv, PlacedInv, WakeupInv, ServerInv
<1>8. Placed(c) /\ s \in serverNmb[c] /\ serverNmb[c] \subseteq Server
  BY <1>1, <1>3, <1>6, <1>7 DEF PlacedOK
<1>9. ~reserved[s] /\ state[s] = "RUNNING" /\ NoExchange(s)
  BY <1>6, <1>7 DEF ServerOK
<1>10. \A d : (m = FinishMsg(d) => d = c) /\ m # WakeupResponseMsg(d) /\ m # SleepResponseMsg
  BY <1>1 DEF FinishMsg, WakeupResponseMsg, SleepResponseMsg
<1> HIDE DEF c, last
\* The servers that have given the job back, with this one.
<1>11. PICK gone : gone = {t \in serverNmb[c] : c \notin jobs[t]}
  OBVIOUS
<1>12. /\ gone \cup {s} = {t \in serverNmb[c] : c \notin jobs'[t]}
       /\ IsFiniteSet(gone) /\ Cardinality(gone) \in Nat /\ finishedServers[c] = Cardinality(gone)
       /\ Cardinality(gone \cup {s}) = finishedServers[c] + 1
       /\ IsFiniteSet(serverNmb[c]) /\ gone \cup {s} \subseteq serverNmb[c]
  <2>1. gone \in SUBSET Server /\ s \notin gone
    BY <1>6, <1>8, <1>11
  <2>2. IsFiniteSet(gone) /\ Cardinality(gone) \in Nat /\ IsFiniteSet(serverNmb[c])
    BY <1>8, <2>1, ServerFinite
  <2>3. finishedServers[c] = Cardinality(gone)
    BY <1>7, <1>11 DEF PlacedOK
  <2>4. \A t \in Server : c \notin jobs'[t] <=> c \notin jobs[t] \/ t = s
    BY <1>2, <1>3
  <2>5. gone \cup {s} = {t \in serverNmb[c] : c \notin jobs'[t]}
    BY <1>8, <1>11, <2>4
  <2> QED
    BY <1>8, <1>11, <2>1, <2>2, <2>3, <2>5, FS_AddElement
<1>13. last <=> \A t \in Server : c \in jobs[t] => t = s
  <2>1. Cardinality(serverNmb[c]) = request[c].nodes
    BY <1>7, <1>8 DEF PlacedOK
  <2>2. last <=> Cardinality(gone \cup {s}) = Cardinality(serverNmb[c])
    BY <1>12, <2>1 DEF last
  <2>3. Cardinality(gone \cup {s}) = Cardinality(serverNmb[c]) <=> gone \cup {s} = serverNmb[c]
    BY <1>12, FS_Subset
  <2>4. gone \cup {s} = serverNmb[c] <=> \A t \in serverNmb[c] : c \in jobs[t] => t = s
    BY <1>8, <1>11
  <2> QED
    BY <1>7, <1>8, <2>2, <2>3, <2>4 DEF PlacedOK
<1>14. \A t \in Server, d \in Client : d \in jobs'[t] <=> d \in jobs[t] /\ ~(t = s /\ d = c)
  BY <1>2, <1>3
<1>15. \A d \in Client \ {c} : /\ serverNmb'[d] = serverNmb[d] /\ request'[d] = request[d]
                               /\ needwakeupNodes'[d] = needwakeupNodes[d] /\ wakeupNodes'[d] = wakeupNodes[d]
                               /\ finishedServers'[d] = finishedServers[d]
                               /\ d \in rjbList' <=> d \in rjbList
                               /\ Placed(d)' <=> Placed(d)
  BY <1>1, <1>2, <1>3 DEF Placed
<1>16. IF last THEN serverNmb'[c] = {} /\ ~Placed(c)' /\ c \notin rjbList' /\ request'[c] = NoRequest
               ELSE serverNmb'[c] = serverNmb[c] /\ Placed(c)' /\ c \in rjbList' /\ request'[c] = request[c]
  BY <1>1, <1>2, <1>3, <1>6, <1>8 DEF Placed
<1>17. QueueInv'
  BY <1>2, <1>8, <1>15, <1>16 DEF ClusterInv, QueueInv
<1>18. ClientInv'
  BY <1>2, <1>15, <1>16 DEF ClusterInv, ClientInv
<1>19. ReportInv'
  <2>1. c \in cliList
    BY <1>1, <1>8 DEF ClusterInv, QueueInv
  <2>2. CASE last
    <3>1. PICK f : f.client = c /\ finishMsg' = finishMsg \cup {f}
      BY <1>2, <2>2
    <3>2. cliList' = cliList \ {c} /\ UNCHANGED <<outstanding, finishSent>>
      BY <1>2, <2>2
    <3> QED
      BY <1>1, <2>1, <3>1, <3>2 DEF ClusterInv, ReportInv
  <2>3. CASE ~last
    BY <1>2, <2>3 DEF ClusterInv, ReportInv
  <2> QED
    BY <2>2, <2>3
<1>20. PlacedInv'
  <2> SUFFICES ASSUME NEW d \in Client PROVE PlacedOK(d)'
    BY DEF PlacedInv
  <2>1. CASE d # c
    <3>1. PlacedOK(d) /\ serverNmb[d] \subseteq Server
      BY <1>3 DEF ClusterInv, PlacedInv
    <3>2. {t \in serverNmb'[d] : d \notin jobs'[t]} = {t \in serverNmb[d] : d \notin jobs[t]}
      BY <1>14, <1>15, <2>1, <3>1
    <3> QED
      BY <1>14, <1>15, <2>1, <3>1, <3>2 DEF PlacedOK
  <2>2. CASE d = c /\ last
    <3>1. \A t \in Server : c \notin jobs'[t]
      BY <1>1, <1>13, <1>14, <2>2
    <3>2. {t \in serverNmb'[c] : c \notin jobs'[t]} = {} /\ finishedServers'[c] = 0
      BY <1>1, <1>2, <1>3, <1>16, <2>2
    <3>3. Cardinality({}) = 0
      BY FS_EmptySet
    <3> QED
      BY <1>16, <2>2, <3>1, <3>2, <3>3 DEF PlacedOK
  <2>3. CASE d = c /\ ~last
    <3>1. {t \in serverNmb'[c] : c \notin jobs'[t]} = gone \cup {s} /\ finishedServers'[c] = finishedServers[c] + 1
      BY <1>1, <1>2, <1>3, <1>12, <1>16, <2>3
    <3>2. \E t \in Server : c \in jobs'[t]
      BY <1>1, <1>13, <1>14, <2>3
    <3>3. \A t \in Server : c \in jobs'[t] => c \in jobs[t]
      BY <1>1, <1>14
    <3> QED
      BY <1>7, <1>8, <1>12, <1>16, <2>3, <3>1, <3>2, <3>3 DEF PlacedOK
  <2> QED
    BY <2>1, <2>2, <2>3
<1>21. \A t \in Server, d \in Client, k \in 1 .. 4 :
         PartAt(t, d, k)' <=> PartAt(t, d, k) /\ ~(t = s /\ d = c)
  <2> SUFFICES ASSUME NEW t \in Server, NEW d \in Client, NEW k \in 1 .. 4
               PROVE  PartAt(t, d, k)' <=> PartAt(t, d, k) /\ ~(t = s /\ d = c)
    OBVIOUS
  <2>1. CASE k = 4
    <3>1. PartAt(t, d, k)' <=> FinishMsg(d) \in toRms'[t]
      BY <2>1 DEF PartAt
    <3>2. PartAt(t, d, k) <=> FinishMsg(d) \in toRms[t]
      BY <2>1 DEF PartAt
    <3>3. FinishMsg(d) = m <=> d = c
      BY <1>1, <1>10
    <3>4. FinishMsg(d) \in toRms'[t] <=> FinishMsg(d) \in toRms[t] /\ ~(t = s /\ FinishMsg(d) = m)
      BY <1>4
    <3> QED
      BY <3>1, <3>2, <3>3, <3>4
  <2>2. CASE k # 4
    <3>1. PartAt(t, d, k)' <=> PartAt(t, d, k)
      BY <1>2, <2>2 DEF PartAt, serverVars
    <3> QED
      BY <1>6, <2>2, <3>1 DEF OnlyPart
  <2> QED
    BY <2>1, <2>2
<1>22. PartInv'
  <2> SUFFICES ASSUME NEW t \in Server, NEW d \in Client PROVE PartOK(t, d)'
    BY DEF PartInv
  <2>1. PartOK(t, d)
    BY DEF ClusterInv, PartInv
  <2>2. CASE t = s /\ d = c
    <3>1. NoPart(t, d)' /\ d \notin jobs'[t]
      BY <1>14, <1>21, <2>2 DEF NoPart
    <3> QED
      BY <3>1 DEF PartOK
  <2>3. CASE ~(t = s /\ d = c)
    <3>1. /\ NoPart(t, d)' <=> NoPart(t, d)
          /\ \A k \in 1 .. 4 : OnlyPart(t, d, k)' <=> OnlyPart(t, d, k)
      BY <1>21, <2>3 DEF NoPart, OnlyPart
    <3>2. d \in rjbList' /\ d \in jobs'[t] <=> d \in rjbList /\ d \in jobs[t]
      BY <1>6, <1>13, <1>14, <1>15, <1>16, <2>3
    <3> QED
      BY <2>1, <3>1, <3>2 DEF PartOK
  <2> QED
    BY <2>2, <2>3
<1>23. MessageInv'
  <2>1. CASE last
    <3>1. \A t \in Server : ~PartAt(t, c, 2) /\ ~PartAt(t, c, 3)
      BY <1>1, <1>6, <1>13, <2>1, PartIsOnly DEF OnlyPart
    <3> QED
      BY <1>1, <1>2, <1>15, <3>1, MessagesOfOthers DEF serverVars
  <2>2. CASE ~last
    BY <1>2, <2>2 DEF ClusterInv, MessageInv, MemoryOK, serverVars
  <2> QED
    BY <2>1, <2>2
<1>24. SameExchanges
  BY <1>2, <1>4, <1>10 DEF SameExchanges, ExchangeAt, serverVars
\* What the server has left.
<1>25. /\ Cardinality(Units(jobs[s] \ {c}, NumCores, Cores)) = coresInUse'[s]
       /\ coresInUse'[s] = 0 <=> jobs[s] \ {c} = {}
       /\ coresInUse'[s] <= NumCores
       /\ memory'[s] = Memory - Cardinality(Units((jobs[s] \cap rjbList) \ {c}, Memory, Memories))
       /\ IsFiniteSet(jobs[s] \ {c})
  <2>1. ResourceOK(s) /\ IsFiniteSet(jobs[s])
    BY DEF ClusterInv, ResourceInv, ResourceOK
  <2>2. Cores[c] = request[c].cores /\ Memories[c] = request[c].needMemory
    BY <1>1 DEF Cores, Memories
  <2>3. Cores[c] \in 1 .. NumCores /\ Memories[c] \in 0 .. Memory
    BY <1>1, <1>8, AmountsOfPlaced
  <2>4. IsFiniteSet(jobs[s] \cap rjbList) /\ IsFiniteSet(jobs[s] \ {c})
    BY <2>1, FS_Intersection, FS_RemoveElement
  <2>5. Cardinality(Units(jobs[s] \ {c}, NumCores, Cores))
          = Cardinality(Units(jobs[s], NumCores, Cores)) - Cores[c]
    BY <1>6, <2>1, <2>3, UnitsRemove, NumCoresAssumption
  <2>6. Cardinality(Units((jobs[s] \cap rjbList) \ {c}, Memory, Memories))
          = Cardinality(Units(jobs[s] \cap rjbList, Memory, Memories)) - Memories[c]
    BY <1>6, <2>3, <2>4, UnitsRemove, MemoryAssumption
  <2>7. coresInUse'[s] = coresInUse[s] - Cores[c] /\ memory'[s] = memory[s] + Memories[c]
    BY <1>2, <1>3, <2>2
  <2>8. Cardinality(Units(jobs[s] \ {c}, NumCores, Cores)) = coresInUse'[s]
    BY <2>1, <2>5, <2>7 DEF ResourceOK
  <2>9. coresInUse'[s] = 0 <=> jobs[s] \ {c} = {}
    <3>1. CASE jobs[s] \ {c} = {}
      BY <2>8, <3>1, UnitsEmpty
    <3>2. CASE jobs[s] \ {c} # {}
      <4>1. PICK d \in jobs[s] \ {c} : TRUE
        BY <3>2
      <4>2. Cores[d] \in 1 .. NumCores
        BY JobsArePlaced, AmountsOfPlaced
      <4>3. coresInUse'[s] > 0
        BY <2>4, <2>8, <4>2, UnitsPositive, NumCoresAssumption
      <4> QED
        BY <3>2, <4>3
    <3> QED
      BY <3>1, <3>2
  <2>10. coresInUse'[s] <= NumCores
    <3>1. coresInUse[s] \in Int /\ coresInUse[s] <= NumCores
      BY <1>3, <2>1 DEF ResourceOK
    <3> QED
      BY <2>3, <2>7, <3>1, NumCoresAssumption
  <2>11. memory'[s] = Memory - Cardinality(Units((jobs[s] \cap rjbList) \ {c}, Memory, Memories))
    <3>1. PICK n \in Nat : n = Cardinality(Units(jobs[s] \cap rjbList, Memory, Memories))
      BY <2>4, UnitsFinite, MemoryAssumption
    <3>2. memory[s] = Memory - n
      BY <2>1, <3>1 DEF ResourceOK
    <3>3. memory'[s] = Memory - (n - Memories[c])
      BY <2>3, <2>7, <3>2, MemoryAssumption
    <3> QED
      BY <2>6, <3>1, <3>3
  <2> QED
    BY <2>4, <2>8, <2>9, <2>10, <2>11
<1>26. ServerInv'
  <2> SUFFICES ASSUME NEW t \in Server PROVE ServerOK(t)'
    BY DEF ServerInv
  <2>1. /\ NoExchange(t)' <=> NoExchange(t)
        /\ \A d, step : OnlyExchange(t, d, step)' <=> OnlyExchange(t, d, step)
    BY <1>24 DEF NoExchange, OnlyExchange, SameExchanges
  <2>2. CASE t = s
    <3>1. ~reserved'[s] /\ NoExchange(s)'
      BY <1>2, <1>9, <2>1, <2>2
    <3>2. jobs'[s] = jobs[s] \ {c}
      BY <1>2, <1>3
    <3>3. IF jobs'[s] = {} THEN state'[s] = "IDLE" ELSE state'[s] = "RUNNING"
      BY <1>2, <1>3, <1>9, <1>25, <3>2
    <3> QED
      BY <2>2, <3>1, <3>3 DEF ServerOK
  <2>3. CASE t # s
    <3>1. ServerOK(t)
      BY DEF ClusterInv, ServerInv
    <3>2. state'[t] = state[t] /\ jobs'[t] = jobs[t] /\ (reserved'[t] <=> reserved[t])
      BY <1>2, <1>3, <2>3
    <3>3. \A d \in Client : d \notin rjbList => d \notin rjbList'
      BY <1>2
    <3>4. reserved[t] /\ jobs[t] # {} => \E d \in Client \ rjbList : jobs[t] = {d}
      BY <3>1 DEF ServerOK
    <3> QED
      BY <2>1, <3>1, <3>2, <3>3 DEF ServerOK
  <2> QED
    BY <2>2, <2>3
<1>27. WakeupInv'
  <2> SUFFICES ASSUME NEW d \in Client PROVE WakeupOK(d)'
    BY DEF WakeupInv
  <2>1. WakeupOK(d) /\ serverNmb[d] \subseteq Server
    BY <1>3 DEF ClusterInv, WakeupInv
  <2>2. \A t \in Server : Waking(t, d)' <=> Waking(t, d)
    BY <1>24 DEF Waking, SameExchanges
  <2>3. CASE d # c
    <3>1. {t \in serverNmb[d] : Waking(t, d)}' = {t \in serverNmb[d] : Waking(t, d)}
      BY <1>15, <2>1, <2>2, <2>3
    <3> QED
      BY <1>15, <2>1, <2>3, <3>1 DEF WakeupOK
  <2>4. CASE d = c /\ ~last
    <3>1. {t \in serverNmb[c] : Waking(t, c)}' = {t \in serverNmb[c] : Waking(t, c)}
      BY <1>8, <1>16, <2>2, <2>4
    <3>2. UNCHANGED <<needwakeupNodes, wakeupNodes>> /\ c \in rjbList
      BY <1>2, <1>6, <2>4
    <3> QED
      BY <1>8, <1>16, <2>1, <2>4, <3>1, <3>2 DEF WakeupOK
  <2>5. CASE d = c /\ last
    <3>1. needwakeupNodes'[c] = 0 /\ wakeupNodes'[c] = 0
      BY <1>1, <1>2, <1>3, <2>5
    <3>2. {t \in serverNmb[c] : Waking(t, c)}' = {}
      BY <1>16, <2>5
    <3>3. Cardinality({}) = 0
      BY FS_EmptySet
    <3> QED
      BY <1>16, <2>5, <3>1, <3>2, <3>3 DEF WakeupOK
  <2> QED
    BY <2>3, <2>4, <2>5
<1>28. ResourceInv'
  <2> SUFFICES ASSUME NEW t \in Server PROVE ResourceOK(t)'
    BY DEF ResourceInv
  <2>1. ResourceOK(t)
    BY DEF ClusterInv, ResourceInv
  <2>2. \A d \in jobs'[t] : d \in Client /\ Cores'[d] = Cores[d] /\ Memories'[d] = Memories[d]
    <3> SUFFICES ASSUME NEW d \in jobs'[t]
                 PROVE  d \in Client /\ request'[d] = request[d]
      BY DEF Cores, Memories
    <3>1. jobs'[t] \subseteq jobs[t]
      BY <1>2, <1>3
    <3>2. d \in Client /\ d \in jobs[t]
      BY <1>3, <3>1
    <3>3. d = c => ~last
      BY <1>13, <1>14, <3>2
    <3> QED
      BY <1>15, <1>16, <3>2, <3>3
  <2>3. /\ Units(jobs'[t], NumCores, Cores') = Units(jobs'[t], NumCores, Cores)
        /\ Units(jobs'[t] \cap rjbList', Memory, Memories') = Units(jobs'[t] \cap rjbList', Memory, Memories)
    BY <2>2, UnitsSame
  <2>4. CASE t = s
    <3>1. jobs'[s] = jobs[s] \ {c} /\ jobs'[s] \cap rjbList' = (jobs[s] \cap rjbList) \ {c}
      BY <1>2, <1>3
    <3> QED
      BY <1>25, <2>3, <2>4, <3>1 DEF ResourceOK
  <2>5. CASE t # s
    <3>1. jobs'[t] = jobs[t] /\ coresInUse'[t] = coresInUse[t] /\ memory'[t] = memory[t]
      BY <1>2, <1>3, <2>5
    <3>2. jobs'[t] \cap rjbList' = jobs[t] \cap rjbList
      BY <1>2, <1>13, <2>5, <3>1
    <3> QED
      BY <2>1, <2>3, <3>1, <3>2 DEF ResourceOK
  <2> QED
    BY <2>4, <2>5
<1> QED
  BY <1>6, <1>13, <1>17, <1>18, <1>19, <1>20, <1>22, <1>23, <1>26, <1>27, <1>28 DEF ClusterInv, c, last

----------------------------------------------------------------------------
(* The invariant of the data centre *)

\* At the start there are no jobs.
LEMMA InitialInvariant == Init => ClusterInv
<1> SUFFICES ASSUME Init PROVE ClusterInv
  OBVIOUS
<1>1. Cardinality({}) = 0 /\ IsFiniteSet({})
  BY FS_EmptySet
<1>2. \A s \in Server : /\ toServer[s] = {} /\ toRms[s] = {} /\ complete[s] = {} /\ jobs[s] = {}
                        /\ wakeupResponse[s] = {} /\ ~sleepResponse[s] /\ ~reserved[s]
                        /\ state[s] = "IDLE" /\ memory[s] = Memory /\ coresInUse[s] = 0
  BY DEF Init, NetInit, RmsInit, SrvListInit, ServersInit
<1>3. /\ jobMsg = {} /\ wakeupMsg = {} /\ sleepMsg = {} /\ finishMsg = {} /\ finishSent = {}
      /\ cliList = {} /\ rjbList = {} /\ outstanding = {} /\ jobQueue = <<>>
      /\ \A c \in Client : /\ serverNmb[c] = {} /\ request[c] = NoRequest /\ finishedServers[c] = 0
                           /\ wakeupNodes[c] = 0 /\ needwakeupNodes[c] = 0
  BY DEF Init, RmsInit
<1>4. QueueInv /\ ClientInv /\ ReportInv
  BY <1>3 DEF QueueInv, ClientInv, ReportInv, Placed, IsInjective, ToSet
<1>5. PlacedInv
  BY <1>1, <1>2, <1>3 DEF PlacedInv, PlacedOK, Placed
<1>6. PartInv /\ MessageInv
  BY <1>2, <1>3 DEF PartInv, PartOK, NoPart, PartAt, MessageInv, MemoryOK
<1>7. \A s \in Server : NoExchange(s)
  BY <1>2, <1>3 DEF NoExchange, ExchangeAt
<1>8. ServerInv
  BY <1>2, <1>7 DEF ServerInv, ServerOK
<1>9. WakeupInv
  <2> SUFFICES ASSUME NEW c \in Client PROVE WakeupOK(c)
    BY DEF WakeupInv
  <2>1. {s \in serverNmb[c] : Waking(s, c)} = {}
    BY <1>3
  <2>2. needwakeupNodes[c] - wakeupNodes[c] = Cardinality({s \in serverNmb[c] : Waking(s, c)})
    <3>1. Cardinality({s \in serverNmb[c] : Waking(s, c)}) = 0
      BY <1>1, <2>1, Zenon
    <3>2. needwakeupNodes[c] - wakeupNodes[c] = 0
      BY <1>3
    <3> QED
      BY <3>1, <3>2, Zenon
  <2>3. ~Placed(c) /\ needwakeupNodes[c] = 0
    BY <1>3 DEF Placed
  <2> QED
    BY <2>2, <2>3 DEF WakeupOK
<1>10. ResourceInv
  <2> SUFFICES ASSUME NEW s \in Server PROVE ResourceOK(s)
    BY DEF ResourceInv
  <2>1. jobs[s] = {} /\ jobs[s] \cap rjbList = {}
    BY <1>2
  <2>2. /\ Cardinality(Units(jobs[s], NumCores, Cores)) = 0
        /\ Cardinality(Units(jobs[s] \cap rjbList, Memory, Memories)) = 0
    BY <2>1, UnitsEmpty
  <2> QED
    BY <1>1, <1>2, <2>1, <2>2, NumCoresAssumption, MemoryAssumption DEF ResourceOK
<1> QED
  BY <1>4, <1>5, <1>6, <1>8, <1>9, <1>10 DEF ClusterInv

\* The loops of dequeue() and checkServers().
LEMMA LoopInvariant ==
  ASSUME TypeInv, ClusterInv, RmsLoop, UNCHANGED serverVars
  PROVE  ClusterInv'
<1> USE DEF TypeInv
<1>1. Len(jobQueue) \in Nat
  BY DEF TypeOK, RmsTypeOK
<1>2. CASE FindResources
  <2>1. jobQueue # <<>> /\ 1 \in 1 .. Len(jobQueue)
    BY <1>1, <1>2 DEF FindResources, LoopInv, TypeOK, RmsTypeOK
  <2> QED
    BY <1>2, <2>1, StartQueuedInvariant, NoneStartedInvariant DEF FindResources
<1>3. CASE FirstFit
  <2>1. index \in 1 .. Len(jobQueue)
    BY <1>1, <1>3 DEF FirstFit, LoopInv
  <2> QED
    BY <1>3, <2>1, StartQueuedInvariant, NoneStartedInvariant DEF FirstFit
<1>4. CASE BestFit
  <2>1. /\ (\E i \in 2 .. Len(jobQueue) : StartQueued(i)) \/ NoneStarted
        /\ UNCHANGED <<loopFrame, sleepMsg>>
    BY <1>4 DEF BestFit
  <2> QED
    BY <1>1, <2>1, StartQueuedInvariant, NoneStartedInvariant
<1> QED
  BY <1>2, <1>3, <1>4, CheckServersInvariant DEF RmsLoop

\* The inductive invariant.
LEMMA ClusterInvariant == Spec => [](TypeInv /\ ClusterInv)
<1>1. TypeInv /\ ClusterInv /\ [Next]_vars => ClusterInv'
  <2> SUFFICES ASSUME TypeInv, ClusterInv, [Next]_vars PROVE ClusterInv'
    OBVIOUS
  <2>1. TypeOK
    BY DEF TypeInv
  <2>2. CASE RmsLoop /\ UNCHANGED serverVars
    BY <2>2, LoopInvariant
  <2>3. CASE RmsSelfMessage /\ UNCHANGED serverVars
    BY <2>1, <2>3, SelfMessageInv
  <2>4. CASE (\E s \in Server : RmsReceive(s)) /\ UNCHANGED serverVars
    BY <2>1, <2>4, FinishInvariant, SleepResponseInvariant, WakeupResponseInvariant DEF RmsReceive
  <2>5. CASE (ClientsFinish \/ TimePasses) /\ UNCHANGED serverVars
    BY <2>1, <2>5, EnvironmentInv
  <2>6. CASE ServerEvent /\ UNCHANGED rmsVars
    BY <2>1, <2>6, ServerInvariant DEF ServerEvent
  <2>7. CASE RmsRequests /\ UNCHANGED serverVars
    BY <2>1, <2>7, RequestInvariant DEF RmsRequests
  <2>8. CASE UNCHANGED vars
    <3>1. UNCHANGED <<coreVars, reportVars, jobMsg, wakeupMsg, sleepMsg, toServer, toRms, serverVars>>
      BY <2>8 DEF vars, netVars, rmsVars, placementVars, serverInfoVars, clientVars, coreVars, reportVars
    <3>2. SameParts /\ SameExchanges
      BY <3>1 DEF SameParts, PartAt, SameExchanges, ExchangeAt, serverVars
    <3>3. MessageInv'
      BY <3>1 DEF ClusterInv, MessageInv, MemoryOK, coreVars, serverVars
    <3> QED
      BY <2>1, <3>1, <3>2, <3>3, CoreUnchanged, ReportsUnchanged, PartsUnchanged, ExchangesUnchanged DEF ClusterInv
  <2> QED
    BY <2>2, <2>3, <2>4, <2>5, <2>6, <2>7, <2>8 DEF Next, Event, RmsEvent, Stimulus
<1> QED
  BY <1>1, InitialInvariant, TypeInvariant, PTL DEF Spec

----------------------------------------------------------------------------
(* The properties *)

\* An exchange is an element of Exchanges, a part of Part.
LEMMA ExchangesAreSteps ==
  ASSUME TypeOK, NEW s \in Server, NEW c \in Client, NEW step \in Steps
  PROVE  <<step, c>> \in Exchanges(s) <=> ExchangeAt(s, c, step)
<1> DEFINE scheduled == {<<"scheduled", d>> : d \in {d \in Client : <<s, d>> \in wakeupMsg}
                                                      \cup {NoClient : t \in sleepMsg \cap {s}}}
           sent == {<<"sent", m.client>> : m \in {n \in toServer[s] : n.type # "REQUEST"}}
           timer == {<<"timer", d>> : d \in wakeupResponse[s] \cup (IF sleepResponse[s] THEN {NoClient} ELSE {})}
           answered == {<<"answered", m.client>> : m \in {n \in toRms[s] : n.type # "FINISH"}}
<1>1. Exchanges(s) = scheduled \cup sent \cup timer \cup answered
  BY DEF Exchanges
<1>2. c # NoClient
  BY NoClientAssumption
<1>3. toServer[s] \subseteq ToServerMessage /\ toRms[s] \subseteq ToRmsMessage
  BY DEF TypeOK, NetTypeOK
<1>4. <<step, c>> \in scheduled <=> step = "scheduled" /\ <<s, c>> \in wakeupMsg
  BY <1>2
<1>5. <<step, c>> \in timer <=> step = "timer" /\ c \in wakeupResponse[s]
  BY <1>2
<1>6. <<step, c>> \in sent <=> step = "sent" /\ WakeupMsg(c) \in toServer[s]
  <2>1. \A m \in ToServerMessage : m.type # "REQUEST" /\ m.client = c <=> m = WakeupMsg(c)
    BY <1>2 DEF ToServerMessage, SleepMsg, WakeupMsg
  <2>2. WakeupMsg(c).client = c
    BY DEF WakeupMsg
  <2> QED
    BY <1>3, <2>1, <2>2
<1>7. <<step, c>> \in answered <=> step = "answered" /\ WakeupResponseMsg(c) \in toRms[s]
  <2>1. \A m \in ToRmsMessage : m.type # "FINISH" /\ m.client = c <=> m = WakeupResponseMsg(c)
    BY <1>2 DEF ToRmsMessage, SleepResponseMsg, WakeupResponseMsg
  <2>2. WakeupResponseMsg(c).client = c
    BY DEF WakeupResponseMsg
  <2> QED
    BY <1>3, <2>1, <2>2
<1> HIDE DEF scheduled, sent, timer, answered
<1> QED
  BY <1>1, <1>2, <1>4, <1>5, <1>6, <1>7 DEF ExchangeAt, Steps

\* The parts of a job that are counted are the steps at which it is.
LEMMA PartIsSteps ==
  ASSUME TypeOK, NEW s \in Server, NEW c \in Client
  PROVE  Part(s, c) = {k \in 1 .. 4 : PartAt(s, c, k)}
<1>1. \A m \in ToRmsMessage : m.type = "FINISH" /\ m.client = c <=> m = FinishMsg(c)
  BY NoClientAssumption DEF ToRmsMessage, SleepResponseMsg, FinishMsg
<1>2. toRms[s] \subseteq ToRmsMessage
  BY DEF TypeOK, NetTypeOK
<1>3. (\E m \in toRms[s] : m.type = "FINISH" /\ m.client = c) <=> FinishMsg(c) \in toRms[s]
  BY <1>1, <1>2
<1>4. ASSUME NEW k
      PROVE  k \in Part(s, c) <=> \/ k = 1 /\ <<s, c>> \in jobMsg
                                  \/ k = 2 /\ \E m \in toServer[s] : m.type = "REQUEST" /\ m.client = c
                                  \/ k = 3 /\ \E j \in complete[s] : j.client = c
                                  \/ k = 4 /\ \E m \in toRms[s] : m.type = "FINISH" /\ m.client = c
  BY DEF Part
<1>5. ASSUME NEW k
      PROVE  k \in Part(s, c) <=> k \in 1 .. 4 /\ PartAt(s, c, k)
  BY <1>3, <1>4 DEF PartAt
<1> QED
  BY <1>5

\* No job is lost, doubled or stuck between the queue, the servers, the counters and the
\* messages of the RMS, whatever the handlers of the RMS and the servers interleave.
THEOREM JobsAreTracked == Spec => []JobsTracked
<1>1. TypeInv /\ ClusterInv => JobsTracked
  <2> SUFFICES ASSUME TypeInv, ClusterInv PROVE JobsTracked
    OBVIOUS
  <2>1. TypeOK
    BY DEF TypeInv
  <2>2. EachJobInOnePlace
    BY DEF ClusterInv, QueueInv, ReportInv, EachJobInOnePlace
  <2>3. ASSUME NEW c \in Client, NEW s \in Server
        PROVE  Cardinality(Part(s, c)) = IF c \in rjbList /\ c \in jobs[s] THEN 1 ELSE 0
    <3>1. Part(s, c) = {k \in 1 .. 4 : PartAt(s, c, k)} /\ PartOK(s, c)
      BY <2>1, PartIsSteps DEF ClusterInv, PartInv
    <3>2. CASE c \in rjbList /\ c \in jobs[s]
      <4>1. PICK k \in 1 .. 4 : OnlyPart(s, c, k)
        BY <3>1, <3>2 DEF PartOK
      <4>2. Part(s, c) = {k}
        BY <3>1, <4>1 DEF OnlyPart
      <4> QED
        BY <3>2, <4>2, FS_Singleton
    <3>3. CASE ~(c \in rjbList /\ c \in jobs[s])
      <4>1. Part(s, c) = {}
        BY <3>1, <3>3 DEF PartOK, NoPart
      <4> QED
        BY <3>3, <4>1, FS_EmptySet
    <3> QED
      BY <3>2, <3>3
  <2>4. ASSUME NEW c \in Client
        PROVE  {s \in serverNmb[c] : \E step \in Steps : <<step, c>> \in Exchanges(s)}
                 = {s \in serverNmb[c] : Waking(s, c)}
    <3>1. serverNmb[c] \subseteq Server
      BY <2>1 DEF TypeOK, RmsTypeOK
    <3> QED
      BY <2>1, <3>1, ExchangesAreSteps DEF Waking
  <2>5. JobsAccounted
    BY <2>3, <2>4 DEF ClusterInv, PlacedInv, PlacedOK, WakeupInv, WakeupOK, JobsAccounted, Steps
  <2> QED
    BY <2>2, <2>5 DEF JobsTracked
<1> QED
  BY <1>1, ClusterInvariant, PTL

\* The cores and the memory that the RMS counts on a server are those of the jobs it has
\* placed and started there, and never more than the server has cores.
THEOREM ResourcesAreAccounted == Spec => []ResourcesAccounted
<1>1. TypeInv /\ ClusterInv => ResourcesAccounted
  <2> SUFFICES ASSUME TypeInv, ClusterInv, NEW s \in Server
               PROVE  /\ coresInUse[s] = Cardinality(CoreUnits(jobs[s]))
                      /\ coresInUse[s] <= NumCores
                      /\ state[s] = "RUNNING" <=> coresInUse[s] > 0 /\ state[s] # "HYBERNATED"
                      /\ memory[s] = Memory - Cardinality(MemoryUnits(jobs[s] \cap rjbList))
    BY DEF ResourcesAccounted
  <2>1. jobs[s] \subseteq Client /\ TypeOK
    BY DEF TypeInv, TypeOK, RmsTypeOK
  <2>2. CoreUnits(jobs[s]) = Units(jobs[s], NumCores, Cores)
    BY <2>1 DEF CoreUnits, Units, Cores
  <2>3. MemoryUnits(jobs[s] \cap rjbList) = Units(jobs[s] \cap rjbList, Memory, Memories)
    BY <2>1 DEF MemoryUnits, Units, Memories
  <2>4. ResourceOK(s) /\ ServerOK(s)
    BY DEF ClusterInv, ResourceInv, ServerInv
  <2>5. coresInUse[s] > 0 <=> jobs[s] # {}
    <3>1. CASE jobs[s] = {}
      BY <2>4, <3>1, UnitsEmpty DEF ResourceOK
    <3>2. CASE jobs[s] # {}
      <4>1. PICK c \in jobs[s] : TRUE
        BY <3>2
      <4>2. Cores[c] \in 1 .. NumCores
        BY <2>1, JobsArePlaced, AmountsOfPlaced
      <4> QED
        BY <2>4, <3>2, <4>2, UnitsPositive, NumCoresAssumption DEF ResourceOK
    <3> QED
      BY <3>1, <3>2
  <2> QED
    BY <2>2, <2>3, <2>4, <2>5 DEF ResourceOK, ServerOK
<1> QED
  BY <1>1, ClusterInvariant, PTL

----------------------------------------------------------------------------
(* The status of a job *)

\* The cases of Status exclude one another and leave none out.
LEMMA StatusCases ==
  ASSUME QueueInv, PlacedInv, NEW c \in Client
  PROVE  /\ Status(c) = "started" <=> c \in rjbList
         /\ Status(c) = "placed" <=> c \notin rjbList /\ Placed(c)
         /\ Status(c) = "waiting" <=> ~Placed(c) /\ c \in cliList
         /\ Status(c) = "finished" <=> c \notin cliList /\ c \in outstanding
         /\ Status(c) = "absent" <=> c \notin cliList /\ c \notin outstanding
<1> DEFINE placed == Placed(c)
           status == Status(c)
<1>1. status = CASE c \in rjbList                             -> "started"
                 [] c \notin rjbList /\ placed                -> "placed"
                 [] ~placed /\ c \in cliList                  -> "waiting"
                 [] c \notin cliList /\ c \in outstanding  -> "finished"
                 [] c \notin cliList /\ c \notin outstanding -> "absent"
  BY DEF Status
<1>2. (c \in rjbList => placed) /\ (placed => c \in cliList)
  BY DEF PlacedInv, PlacedOK, QueueInv
<1> HIDE DEF placed, status
<1>3. CASE c \in rjbList
  BY <1>1, <1>2, <1>3 DEF placed, status
<1>4. CASE c \notin rjbList /\ placed
  BY <1>1, <1>2, <1>4 DEF placed, status
<1>5. CASE ~placed /\ c \in cliList
  BY <1>1, <1>2, <1>5 DEF placed, status
<1>6. CASE c \notin cliList
  BY <1>1, <1>2, <1>6 DEF placed, status
<1> QED
  BY <1>2, <1>3, <1>4, <1>5, <1>6

\* The same after a step.
LEMMA NextStatusCases ==
  ASSUME QueueInv', PlacedInv', NEW c \in Client
  PROVE  /\ Status(c)' = "started" <=> c \in rjbList'
         /\ Status(c)' = "placed" <=> c \notin rjbList' /\ Placed(c)'
         /\ Status(c)' = "waiting" <=> ~Placed(c)' /\ c \in cliList'
         /\ Status(c)' = "finished" <=> c \notin cliList' /\ c \in outstanding'
         /\ Status(c)' = "absent" <=> c \notin cliList' /\ c \notin outstanding'
<1> DEFINE placed == Placed(c)'
           status == Status(c)'
<1>1. status = CASE c \in rjbList'                             -> "started"
                 [] c \notin rjbList' /\ placed                -> "placed"
                 [] ~placed /\ c \in cliList'                  -> "waiting"
                 [] c \notin cliList' /\ c \in outstanding'  -> "finished"
                 [] c \notin cliList' /\ c \notin outstanding' -> "absent"
  BY DEF Status
<1>2. (c \in rjbList' => placed) /\ (placed => c \in cliList')
  BY DEF PlacedInv, PlacedOK, QueueInv
<1> HIDE DEF placed, status
<1>3. CASE c \in rjbList'
  BY <1>1, <1>2, <1>3 DEF placed, status
<1>4. CASE c \notin rjbList' /\ placed
  BY <1>1, <1>2, <1>4 DEF placed, status
<1>5. CASE ~placed /\ c \in cliList'
  BY <1>1, <1>2, <1>5 DEF placed, status
<1>6. CASE c \notin cliList'
  BY <1>1, <1>2, <1>6 DEF placed, status
<1> QED
  BY <1>2, <1>3, <1>4, <1>5, <1>6

StatusOf == [c \in Client |-> Status(c)]

\* What the service shows depends on these variables only.
serviceState == <<rjbList, serverNmb, cliList, outstanding, request, jobs>>

\* A step that changes none of these variables is a stutter of the service.
LEMMA ServiceStutters ==
  ASSUME UNCHANGED serviceState
  PROVE  UNCHANGED Service!serviceVars
BY DEF serviceState, Service!serviceVars, Status, Placed

\* A step that changes where one job stands.
LEMMA StatusChanges ==
  ASSUME NEW c \in Client, NEW st, Status(c)' = st, \A d \in Client \ {c} : Status(d)' = Status(d)
  PROVE  StatusOf' = [StatusOf EXCEPT ![c] = st]
BY DEF StatusOf

\* The same for the jobs of which nothing changes.
LEMMA StatusSame ==
  ASSUME NEW d \in Client, d \in rjbList' <=> d \in rjbList, Placed(d)' <=> Placed(d),
         d \in cliList' <=> d \in cliList, d \in outstanding' <=> d \in outstanding
  PROVE  Status(d)' = Status(d)
BY DEF Status

----------------------------------------------------------------------------
(* The steps of the service *)

\* The service counts as the data centre does.
LEMMA ServiceCounts == \A S : Service!Cardinality(S) = Cardinality(S)
BY DEF Service!Cardinality, Cardinality

\* Placing a job gives it all its servers, within their cores.
LEMMA PlacementIsHold ==
  ASSUME TypeOK, ClusterInv, ClusterInv', NEW c \in Client, NEW r \in Request, NEW T \in SUBSET Eligible(r),
         SearchServers(r, T), InitServerConnection(c, r, T), ~Placed(c), c \in cliList',
         \A d \in Client \ {c} : (d \in cliList' <=> d \in cliList) /\ (d \in outstanding' <=> d \in outstanding)
  PROVE  T \in SUBSET Server /\ Service!Hold(c, r, T)
<1>1. T \in SUBSET Server /\ Cardinality(T) = r.nodes
  BY DEF Eligible, SearchServers
<1>2. T # {}
  BY <1>1, FS_EmptySet DEF Request
<1>3. ASSUME NEW s \in T
      PROVE  Cardinality({u \in jobs[s] \X (1 .. NumCores) : u[2] <= request[u[1]].cores}) + r.cores <= NumCores
  <2>1. s \in Server /\ NumCores - coresInUse[s] >= r.cores
    BY <1>1, <1>3 DEF Eligible, FreeCores
  <2>2. coresInUse[s] = Cardinality(Units(jobs[s], NumCores, Cores)) /\ coresInUse[s] \in Int
    BY <2>1 DEF ClusterInv, ResourceInv, ResourceOK, TypeOK, RmsTypeOK, SrvListTypeOK
  <2>3. jobs[s] \subseteq Client
    BY <2>1 DEF TypeOK, RmsTypeOK
  <2>4. {u \in jobs[s] \X (1 .. NumCores) : u[2] <= request[u[1]].cores} = Units(jobs[s], NumCores, Cores)
    BY <2>3 DEF Units, Cores
  <2>5. coresInUse[s] + r.cores <= NumCores
    BY <2>1, <2>2, NumCoresAssumption DEF Request
  <2> QED
    BY <2>2, <2>4, <2>5
<1>4. Service!CanHold(T, r)
  BY <1>1, <1>3, ServiceCounts DEF Service!CanHold, Service!CoresHeld
<1>5. jobs' = [s \in Server |-> IF s \in T THEN jobs[s] \cup {c} ELSE jobs[s]]
  BY DEF InitServerConnection
<1>6. /\ serverNmb' = [serverNmb EXCEPT ![c] = T]
      /\ rjbList' = rjbList \/ rjbList' = rjbList \cup {c}
  BY DEF InitServerConnection
<1>7. Placed(c)' /\ \A d \in Client \ {c} : (Placed(d)' <=> Placed(d)) /\ (d \in rjbList' <=> d \in rjbList)
  BY <1>2, <1>6 DEF Placed, TypeOK, RmsTypeOK
<1>8. Status(c)' \in {"placed", "started"}
  <2>1. Status(c)' = "started" <=> c \in rjbList'
    BY NextStatusCases DEF ClusterInv
  <2>2. Status(c)' = "placed" <=> c \notin rjbList' /\ Placed(c)'
    BY NextStatusCases DEF ClusterInv
  <2> QED
    BY <1>7, <2>1, <2>2
<1>9. \A d \in Client \ {c} : Status(d)' = Status(d)
  BY <1>7, StatusSame
<1>10. StatusOf' = [StatusOf EXCEPT ![c] = Status(c)']
  BY <1>9, StatusChanges
<1> QED
  BY <1>1, <1>4, <1>5, <1>8, <1>10 DEF Service!Hold, StatusOf

\* A request of a client (RmsClientRequest) is a submission.
LEMMA RequestIsSubmit ==
  ASSUME TypeOK, ClusterInv, ClusterInv', NEW c \in Client, NEW r \in Requests[c], RmsClientRequest(c, r)
  PROVE  Service!Submit(c, r)
<1>1. /\ c \notin outstanding /\ outstanding' = outstanding \cup {c} /\ cliList' = cliList \cup {c}
      /\ request' = [request EXCEPT ![c] = r]
      /\ Place(c, r) \/ EnqueueJob(c)
  BY DEF RmsClientRequest, CheckQueue
<1>2. c \notin cliList /\ ~Placed(c)
  BY <1>1 DEF ClusterInv, ReportInv, QueueInv
<1>3. StatusOf[c] = "absent" /\ r \in Request
  BY <1>1, <1>2, StatusCases, RequestsAssumption DEF StatusOf, ClusterInv
<1>4. CASE Place(c, r)
  <2>1. PICK T \in SUBSET Eligible(r) : SearchServers(r, T) /\ InitServerConnection(c, r, T)
    BY <1>4 DEF Place
  <2>2. T \in SUBSET Server /\ Service!Hold(c, r, T)
    BY <1>1, <1>2, <1>3, <2>1, PlacementIsHold
  <2> QED
    BY <1>1, <1>3, <2>2 DEF Service!Submit, StatusOf
<1>5. CASE EnqueueJob(c)
  <2>1. UNCHANGED <<jobs, serverNmb, rjbList>>
    BY <1>5 DEF EnqueueJob, placementVars, serverInfoVars
  <2>2. \A d \in Client : (Placed(d)' <=> Placed(d)) /\ (d \in rjbList' <=> d \in rjbList)
    BY <2>1 DEF Placed
  <2>3. Status(c)' = "waiting"
    BY <1>1, <1>2, <2>2, NextStatusCases DEF ClusterInv
  <2>4. \A d \in Client \ {c} : Status(d)' = Status(d)
    BY <1>1, <2>2, StatusSame
  <2>5. StatusOf' = [StatusOf EXCEPT ![c] = "waiting"]
    BY <2>3, <2>4, StatusChanges
  <2> QED
    BY <1>1, <1>3, <2>1, <2>5 DEF Service!Submit, StatusOf
<1> QED
  BY <1>1, <1>4, <1>5

\* A job that leaves the queue for servers is placed.
LEMMA StartQueuedIsPlaceJob ==
  ASSUME TypeOK, ClusterInv, ClusterInv', NEW i \in 1 .. Len(jobQueue), StartQueued(i), UNCHANGED loopFrame
  PROVE  \E c \in Client : Service!PlaceJob(c)
<1> DEFINE c == jobQueue[i]
           r == request[c]
<1>1. c \in Client /\ c \in ToSet(jobQueue)
  BY DEF ToSet, TypeOK, RmsTypeOK
<1>2. c \in cliList /\ ~Placed(c)
  BY <1>1 DEF ClusterInv, QueueInv
<1>3. r \in Request
  BY <1>1, <1>2, RequestsAssumption DEF ClusterInv, ClientInv
<1>4. PICK T \in SUBSET Eligible(r) : SearchServers(r, T) /\ InitServerConnection(c, r, T)
  BY DEF StartQueued
<1>5. UNCHANGED <<cliList, outstanding, request>>
  BY DEF loopFrame, clientVars
<1>6. T \in SUBSET Server /\ Service!Hold(c, request[c], T)
  BY <1>1, <1>2, <1>3, <1>4, <1>5, PlacementIsHold
<1>7. StatusOf[c] = "waiting"
  BY <1>1, <1>2, StatusCases DEF StatusOf, ClusterInv
<1> HIDE DEF c
<1>8. Service!PlaceJob(c)
  BY <1>5, <1>6, <1>7 DEF Service!PlaceJob, StatusOf
<1> QED
  BY <1>1, <1>8

\* The loops of dequeue() place jobs; checkServers does not show.
LEMMA LoopIsService ==
  ASSUME TypeInv, ClusterInv, ClusterInv', RmsLoop
  PROVE  (\E c \in Client : Service!PlaceJob(c)) \/ UNCHANGED Service!serviceVars
<1> USE DEF TypeInv
<1>1. Len(jobQueue) \in Nat
  BY DEF TypeOK, RmsTypeOK
<1>2. ASSUME NEW i \in 1 .. Len(jobQueue), StartQueued(i) \/ NoneStarted, UNCHANGED loopFrame
      PROVE  (\E c \in Client : Service!PlaceJob(c)) \/ UNCHANGED Service!serviceVars
  <2>1. CASE StartQueued(i)
    BY <1>2, <2>1, StartQueuedIsPlaceJob
  <2>2. CASE NoneStarted
    <3>1. UNCHANGED serviceState
      BY <1>2, <2>2 DEF NoneStarted, placementVars, serverInfoVars, loopFrame, clientVars, serviceState
    <3> QED
      BY <3>1, ServiceStutters
  <2> QED
    BY <1>2, <2>1, <2>2
<1>3. CASE FindResources
  <2>1. jobQueue # <<>> /\ 1 \in 1 .. Len(jobQueue)
    BY <1>1, <1>3 DEF FindResources, LoopInv, TypeOK, RmsTypeOK
  <2> QED
    BY <1>2, <1>3, <2>1 DEF FindResources
<1>4. CASE FirstFit
  <2>1. index \in 1 .. Len(jobQueue)
    BY <1>1, <1>4 DEF FirstFit, LoopInv
  <2> QED
    BY <1>2, <1>4, <2>1 DEF FirstFit
<1>5. CASE BestFit
  <2>1. /\ (\E i \in 2 .. Len(jobQueue) : StartQueued(i)) \/ NoneStarted
        /\ UNCHANGED loopFrame
    BY <1>5 DEF BestFit
  <2>2. CASE NoneStarted
    <3>1. UNCHANGED serviceState
      BY <2>1, <2>2 DEF NoneStarted, placementVars, serverInfoVars, loopFrame, clientVars, serviceState
    <3> QED
      BY <3>1, ServiceStutters
  <2>3. CASE \E i \in 2 .. Len(jobQueue) : StartQueued(i)
    BY <1>1, <1>2, <2>1, <2>3
  <2> QED
    BY <2>1, <2>2, <2>3
<1>6. CASE CheckServers
  <2>1. UNCHANGED serviceState
    BY <1>6 DEF CheckServers, loopFrame, clientVars, serviceState
  <2> QED
    BY <2>1, ServiceStutters
<1> QED
  BY <1>3, <1>4, <1>5, <1>6 DEF RmsLoop

\* MSGKIND_FINISH releases a node, the last one ends the job.
LEMMA FinishIsReleaseNode ==
  ASSUME TypeOK, ClusterInv, NEW s \in Server, NEW m \in toRms[s], RmsFinish(s, m), UNCHANGED serverVars
  PROVE  \E c \in Client : Service!ReleaseNode(c, s)
<1> DEFINE c == m.client
           last == finishedServers[c] + 1 = request[c].nodes
<1>1. c \in Client
  BY DEF RmsFinish, TypeOK, NetTypeOK, ToRmsMessage, SleepResponseMsg
<1>2. /\ ClusterInv'
      /\ c \in rjbList /\ c \in jobs[s]
      /\ last <=> \A t \in Server : c \in jobs[t] => t = s
  BY FinishInvariant
<1>3. /\ jobs' = [jobs EXCEPT ![s] = @ \ {c}]
      /\ UNCHANGED outstanding
      /\ IF last
         THEN /\ rjbList' = rjbList \ {c} /\ cliList' = cliList \ {c}
              /\ request' = [request EXCEPT ![c] = NoRequest]
              /\ serverNmb' = [serverNmb EXCEPT ![c] = {}]
         ELSE UNCHANGED <<rjbList, cliList, request, serverNmb>>
  BY DEF RmsFinish, clientVars
<1> HIDE DEF c, last
<1>4. StatusOf[c] = "started"
  BY <1>1, <1>2, StatusCases DEF StatusOf, ClusterInv
<1>5. CASE last
  <2>1. ~ \E t \in Server \ {s} : c \in jobs[t]
    BY <1>2, <1>5
  <2>2. \A d \in Client \ {c} : (Placed(d)' <=> Placed(d))
    BY <1>1, <1>3, <1>5 DEF Placed, TypeOK, RmsTypeOK
  <2>3. \A d \in Client \ {c} : Status(d)' = Status(d)
    BY <1>3, <1>5, <2>2, StatusSame
  <2>4. c \in outstanding' /\ c \notin cliList'
    <3>1. PlacedOK(c) /\ (Placed(c) => c \in cliList) /\ (c \in cliList => c \in outstanding)
      BY <1>1 DEF ClusterInv, PlacedInv, QueueInv, ReportInv
    <3> QED
      BY <1>2, <1>3, <1>5, <3>1 DEF PlacedOK
  <2>5. Status(c)' = "finished"
    BY <1>1, <1>2, <2>4, NextStatusCases DEF ClusterInv
  <2>6. StatusOf' = [StatusOf EXCEPT ![c] = "finished"]
    BY <1>1, <2>3, <2>5, StatusChanges
  <2>7. Service!NoRequest = NoRequest
    BY DEF Service!NoRequest, NoRequest
  <2>8. Service!ReleaseNode(c, s)
    BY <1>2, <1>3, <1>4, <1>5, <2>1, <2>6, <2>7 DEF Service!ReleaseNode, StatusOf
  <2> QED
    BY <1>1, <2>8
<1>6. CASE ~last
  <2>1. \E t \in Server \ {s} : c \in jobs[t]
    BY <1>2, <1>6
  <2>2. UNCHANGED <<rjbList, cliList, request, serverNmb, outstanding>>
    BY <1>3, <1>6
  <2>3. UNCHANGED StatusOf
    BY <2>2 DEF StatusOf, Status, Placed
  <2>4. Service!ReleaseNode(c, s)
    BY <1>2, <1>3, <1>4, <2>1, <2>2, <2>3 DEF Service!ReleaseNode, StatusOf
  <2> QED
    BY <1>1, <2>4
<1> QED
  BY <1>5, <1>6

\* MSGKIND_WAKEUP_RESPONSE starts a job or does not show.
LEMMA WakeupResponseIsStart ==
  ASSUME TypeOK, ClusterInv, ClusterInv', NEW s \in Server, NEW m \in toRms[s], RmsWakeupResponse(s, m)
  PROVE  (\E c \in Client : Service!Start(c)) \/ UNCHANGED Service!serviceVars
<1> DEFINE c == m.client
<1>1. c \in Client /\ c # NoClient /\ m = WakeupResponseMsg(c)
  BY NoClientAssumption DEF RmsWakeupResponse, TypeOK, NetTypeOK, ToRmsMessage, WakeupResponseMsg, SleepResponseMsg
<1>2. /\ UNCHANGED <<jobs, serverNmb, cliList, outstanding, request>>
      /\ rjbList' = rjbList \/ rjbList' = rjbList \cup {c}
  BY DEF RmsWakeupResponse, SendClientRequests, placementVars, serverInfoVars, clientVars
<1> HIDE DEF c
<1>3. ExchangeAt(s, c, "answered")
  BY <1>1 DEF ExchangeAt
<1>4. c \notin rjbList /\ c \in jobs[s]
  BY <1>1, <1>3, ExchangeIsOnly DEF Steps
<1>5. Placed(c)
  BY <1>1, <1>4, JobsArePlaced
<1>6. CASE rjbList' = rjbList
  <2>1. UNCHANGED serviceState
    BY <1>2, <1>6 DEF serviceState
  <2> QED
    BY <2>1, ServiceStutters
<1>7. CASE rjbList' = rjbList \cup {c}
  <2>1. StatusOf[c] = "placed"
    BY <1>1, <1>4, <1>5, StatusCases DEF StatusOf, ClusterInv
  <2>2. Status(c)' = "started"
    BY <1>1, <1>7, NextStatusCases DEF ClusterInv
  <2>3. \A d \in Client : Placed(d)' <=> Placed(d)
    BY <1>2 DEF Placed
  <2>4. \A d \in Client \ {c} : Status(d)' = Status(d)
    BY <1>2, <1>7, <2>3, StatusSame
  <2>5. StatusOf' = [StatusOf EXCEPT ![c] = "started"]
    BY <1>1, <2>2, <2>4, StatusChanges
  <2>6. Service!Start(c)
    BY <1>2, <2>1, <2>5 DEF Service!Start, StatusOf
  <2> QED
    BY <1>1, <2>6
<1> QED
  BY <1>2, <1>6, <1>7

\* A finish message that reaches its client is the notification.
LEMMA ClientFinishIsNotify ==
  ASSUME TypeOK, ClusterInv, ClusterInv', ClientsFinish
  PROVE  \E c \in Client : Service!Notify(c)
<1>1. PICK f \in finishSent : ClientFinish(f)
  BY DEF ClientsFinish
<1>2. PICK c \in Client : c = f.client
  BY DEF TypeOK, RmsTypeOK
<1>3. /\ outstanding' = outstanding \ {c}
      /\ UNCHANGED <<rjbList, serverNmb, cliList, request, jobs>>
  BY <1>1, <1>2 DEF ClientFinish, selfFrame, serverInfoVars
<1>4. c \notin cliList /\ c \in outstanding
  BY <1>2 DEF ClusterInv, ReportInv
<1>5. StatusOf[c] = "finished"
  BY <1>4, StatusCases DEF StatusOf, ClusterInv
<1>6. Status(c)' = "absent"
  BY <1>3, <1>4, NextStatusCases DEF ClusterInv
<1>7. \A d \in Client : Placed(d)' <=> Placed(d)
  BY <1>3 DEF Placed
<1>8. \A d \in Client \ {c} : Status(d)' = Status(d)
  BY <1>3, <1>7, StatusSame
<1>9. StatusOf' = [StatusOf EXCEPT ![c] = "absent"]
  BY <1>6, <1>8, StatusChanges
<1>10. Service!Notify(c)
  BY <1>3, <1>5, <1>9 DEF Service!Notify, StatusOf
<1> QED
  BY <1>10

\* Every step of the data centre is a step of the service or leaves it alone.
LEMMA StepIsServiceStep ==
  ASSUME TypeInv, ClusterInv, TypeInv', ClusterInv', [Next]_vars
  PROVE  [Service!ServiceNext]_(Service!serviceVars)
<1>1. TypeOK
  BY DEF TypeInv
<1>2. CASE RmsLoop
  BY <1>2, LoopIsService DEF Service!ServiceNext
<1>3. CASE RmsRequests
  <2>1. PICK c \in Client : \E r \in Requests[c] : RmsClientRequest(c, r)
    BY <1>3 DEF RmsRequests
  <2>2. PICK r \in Requests[c] : RmsClientRequest(c, r)
    BY <2>1
  <2>3. Service!Submit(c, r)
    BY <1>1, <2>2, RequestIsSubmit
  <2> QED
    BY <2>3 DEF Service!ServiceNext
<1>4. CASE (\E s \in Server : RmsReceive(s)) /\ UNCHANGED serverVars
  <2>1. PICK s \in Server : RmsReceive(s)
    BY <1>4
  <2>2. PICK m \in toRms[s] : RmsFinish(s, m) \/ RmsSleepResponse(s, m) \/ RmsWakeupResponse(s, m)
    BY <2>1 DEF RmsReceive
  <2>3. CASE RmsFinish(s, m)
    <3>1. PICK c \in Client : Service!ReleaseNode(c, s)
      BY <1>1, <1>4, <2>3, FinishIsReleaseNode
    <3> QED
      BY <3>1 DEF Service!ServiceNext
  <2>4. CASE RmsSleepResponse(s, m)
    <3>1. UNCHANGED serviceState
      BY <2>4 DEF RmsSleepResponse, clientVars, serviceState
    <3> QED
      BY <3>1, ServiceStutters
  <2>5. CASE RmsWakeupResponse(s, m)
    BY <1>1, <2>5, WakeupResponseIsStart DEF Service!ServiceNext
  <2> QED
    BY <2>2, <2>3, <2>4, <2>5
<1>5. CASE ClientsFinish
  BY <1>1, <1>5, ClientFinishIsNotify DEF Service!ServiceNext
<1>6. CASE RmsSelfMessage \/ TimePasses \/ UNCHANGED rmsVars \/ UNCHANGED vars
  <2>1. UNCHANGED serviceState
    BY <1>6 DEF RmsSelfMessage, RmsInternalJob, RmsInternalWakeup, RmsInternalSleep, RmsInternalFinish,
         TimePasses, selfFrame, clientVars, placementVars, serverInfoVars, rmsVars, vars, serviceState
  <2> QED
    BY <2>1, ServiceStutters
<1> QED
  BY <1>2, <1>3, <1>4, <1>5, <1>6 DEF Next, Event, RmsEvent, Stimulus

\* The data centre implements the service: through wake-ups, sleeps, queue and messages, a job
\* is placed at once within the cores, started once, released node by node and reported once.
THEOREM ServiceIsImplemented == Spec => ImplementsService
<1>1. Init => Service!ServiceInit
  <2> SUFFICES ASSUME Init PROVE Service!ServiceInit
    OBVIOUS
  <2>1. /\ jobs = [s \in Server |-> {}] /\ request = [c \in Client |-> NoRequest]
        /\ serverNmb = [c \in Client |-> {}] /\ rjbList = {} /\ cliList = {} /\ outstanding = {}
    BY DEF Init, RmsInit
  <2>2. \A c \in Client : Status(c) = "absent"
    BY <2>1 DEF Status, Placed
  <2> QED
    BY <2>1, <2>2 DEF Service!ServiceInit, Service!NoRequest, NoRequest
<1>2. TypeInv /\ ClusterInv /\ (TypeInv /\ ClusterInv)' /\ [Next]_vars
        => [Service!ServiceNext]_(Service!serviceVars)
  BY StepIsServiceStep
<1> QED
  BY <1>1, <1>2, ClusterInvariant, PTL DEF Spec, ImplementsService, Service!ServiceSpec

----------------------------------------------------------------------------
(* Assertions: a data centre whose servers never sleep *)

\* The clients whose jobs server s runs.
Running(s) == {j.client : j \in complete[s]}

\* The memory a server uses is that of the jobs it runs.
UsedInv == \A s \in Server : usedMemory[s] = Cardinality(Units(Running(s), Memory, Memories))

\* Without energy awareness no server sleeps, so that a job starts when it is placed.
AwakeInv == /\ pc # "checkServers" /\ simError = "none"
            /\ \A s \in Server : state[s] # "HYBERNATED" /\ memory[s] >= 0

\* Jobs that take at least one unit each are no more than their units.
LEMMA UnitsBound ==
  ASSUME NEW C, IsFiniteSet(C), NEW n \in Nat, NEW amount, \A c \in C : amount[c] \in 1 .. n
  PROVE  Cardinality(C) <= Cardinality(Units(C, n, amount))
<1> DEFINE first == C \X {1}
<1>1. IsFiniteSet({1}) /\ Cardinality({1}) = 1
  BY FS_Singleton
<1>2. Cardinality(first) = Cardinality(C) * 1
  BY <1>1, FS_Product
<1>3. Cardinality(C) \in Nat
  BY FS_CardinalityType
<1>4. first \in SUBSET Units(C, n, amount)
  <2> SUFFICES ASSUME NEW c \in C PROVE <<c, 1>> \in Units(C, n, amount)
    OBVIOUS
  <2>1. amount[c] \in 1 .. n
    OBVIOUS
  <2>2. 1 \in 1 .. n /\ 1 <= amount[c]
    BY <2>1
  <2> QED
    BY <2>2 DEF Units
<1>5. Cardinality(first) <= Cardinality(Units(C, n, amount))
  BY <1>4, UnitsFinite, FS_Subset
<1> QED
  BY <1>2, <1>3, <1>5

\* A server runs one job per client, all of them started there.
LEMMA RunningJobs ==
  ASSUME TypeOK, ClusterInv, NEW s \in Server
  PROVE  /\ Running(s) \subseteq jobs[s] \cap rjbList
         /\ IsFiniteSet(Running(s)) /\ IsFiniteSet(jobs[s])
         /\ IsFiniteSet(complete[s]) /\ Cardinality(complete[s]) = Cardinality(Running(s))
         /\ \A j, k \in complete[s] : j.client = k.client => j = k
<1>1. complete[s] \subseteq [client : Client, memory : Nat]
  BY DEF TypeOK, ServersTypeOK
<1>2. \A j \in complete[s] : j.client \in rjbList /\ j.client \in jobs[s]
  <2> SUFFICES ASSUME NEW j \in complete[s] PROVE j.client \in rjbList /\ j.client \in jobs[s]
    OBVIOUS
  <2>1. j.client \in Client /\ PartAt(s, j.client, 3)
    BY <1>1 DEF PartAt
  <2> QED
    BY <2>1, PartIsOnly
<1>3. \A j, k \in complete[s] : j.client = k.client => j = k
  <2> SUFFICES ASSUME NEW j \in complete[s], NEW k \in complete[s], j.client = k.client PROVE j = k
    OBVIOUS
  <2>1. j.memory = k.memory
    BY DEF ClusterInv, MessageInv, MemoryOK
  <2>2. j \in [client : Client, memory : Nat] /\ k \in [client : Client, memory : Nat]
    BY <1>1
  <2> QED
    BY <2>1, <2>2
<1>4. Running(s) \subseteq jobs[s] \cap rjbList
  BY <1>2 DEF Running
<1>5. IsFiniteSet(jobs[s])
  BY DEF ClusterInv, ResourceInv, ResourceOK
<1>6. IsFiniteSet(Running(s))
  <2>1. Running(s) \in SUBSET jobs[s]
    BY <1>4
  <2> QED
    BY <1>5, <2>1, FS_Subset
<1>7. IsFiniteSet(complete[s]) /\ Cardinality(complete[s]) = Cardinality(Running(s))
  <2> DEFINE f == [j \in complete[s] |-> j.client]
  <2>1. f \in [complete[s] -> Running(s)]
    BY DEF Running
  <2>2. \A j, k \in complete[s] : f[j] = f[k] => j = k
    BY <1>3
  <2>3. \A c \in Running(s) : \E j \in complete[s] : f[j] = c
    BY DEF Running
  <2> HIDE DEF f
  <2>4. f \in Injection(complete[s], Running(s)) /\ f \in Surjection(complete[s], Running(s))
    BY <2>1, <2>2, <2>3 DEF Injection, Surjection, IsInjective
  <2> QED
    BY <1>6, <2>4, FS_Injection
<1> QED
  BY <1>3, <1>4, <1>5, <1>6, <1>7

\* The cores of a server bound the jobs that it has, its memory what they use.
LEMMA RunningFits ==
  ASSUME TypeOK, ClusterInv, NEW s \in Server, memory[s] >= 0, NEW C \in SUBSET (jobs[s] \cap rjbList)
  PROVE  /\ IsFiniteSet(C) /\ Cardinality(C) \in Nat /\ Cardinality(C) <= NumCores
         /\ Cardinality(Units(C, Memory, Memories)) \in Nat
         /\ Cardinality(Units(C, Memory, Memories)) <= Memory
<1> DEFINE started == jobs[s] \cap rjbList
<1>1. /\ IsFiniteSet(jobs[s])
      /\ coresInUse[s] = Cardinality(Units(jobs[s], NumCores, Cores)) /\ coresInUse[s] <= NumCores
      /\ memory[s] = Memory - Cardinality(Units(started, Memory, Memories))
  BY DEF ClusterInv, ResourceInv, ResourceOK
<1>2. C \in SUBSET jobs[s] /\ C \in SUBSET started /\ started \in SUBSET jobs[s]
  OBVIOUS
<1>3. IsFiniteSet(C) /\ IsFiniteSet(started) /\ Cardinality(C) \in Nat
  BY <1>1, <1>2, FS_Subset, FS_CardinalityType
<1>4. Cardinality(C) <= NumCores
  <2>1. \A c \in jobs[s] : Cores[c] \in 1 .. NumCores
    BY JobsArePlaced, AmountsOfPlaced
  <2>2. Cardinality(jobs[s]) <= Cardinality(Units(jobs[s], NumCores, Cores))
    BY <1>1, <2>1, UnitsBound, NumCoresAssumption
  <2>3. Cardinality(C) <= Cardinality(jobs[s]) /\ Cardinality(jobs[s]) \in Nat
    BY <1>1, <1>2, FS_Subset, FS_CardinalityType
  <2>4. PICK k \in Nat : k = Cardinality(jobs[s])
    BY <2>3
  <2>5. PICK n \in Nat : n = Cardinality(C)
    BY <1>3
  <2>6. coresInUse[s] \in Int /\ NumCores \in Nat
    BY NumCoresAssumption DEF TypeOK, RmsTypeOK, SrvListTypeOK
  <2>7. n <= k /\ k <= coresInUse[s] /\ coresInUse[s] <= NumCores
    BY <1>1, <2>2, <2>3, <2>4, <2>5
  <2>8. n <= NumCores
    BY <2>6, <2>7
  <2> QED
    BY <2>5, <2>8
<1>5. Units(C, Memory, Memories) \in SUBSET Units(started, Memory, Memories)
  BY <1>2 DEF Units
<1>6. /\ Cardinality(Units(C, Memory, Memories)) \in Nat
      /\ Cardinality(Units(started, Memory, Memories)) \in Nat
      /\ Cardinality(Units(C, Memory, Memories)) <= Cardinality(Units(started, Memory, Memories))
  BY <1>3, <1>5, UnitsFinite, FS_Subset, MemoryAssumption
<1>7. Cardinality(Units(C, Memory, Memories)) <= Memory
  <2>1. PICK k \in Nat : k = Cardinality(Units(started, Memory, Memories))
    BY <1>6
  <2>2. memory[s] = Memory - k /\ Memory \in Nat
    BY <1>1, <2>1, MemoryAssumption
  <2>3. k <= Memory
    BY <2>2
  <2> QED
    BY <1>6, <2>1, <2>3, MemoryAssumption
<1> QED
  BY <1>3, <1>4, <1>6, <1>7

\* What a server uses follows the requests it takes and the jobs it ends.
LEMMA UsedUnchanged ==
  ASSUME TypeOK, ClusterInv, UsedInv, ClusterInv', UNCHANGED <<complete, usedMemory>>
  PROVE  UsedInv'
<1> SUFFICES ASSUME NEW s \in Server
             PROVE  usedMemory'[s] = Cardinality(Units(Running(s), Memory, Memories)')
  BY DEF UsedInv
<1>1. Running(s)' = Running(s)
  BY DEF Running
<1>2. \A c \in Running(s) : Memories'[c] = Memories[c]
  <2> SUFFICES ASSUME NEW j \in complete[s] PROVE Memories'[j.client] = Memories[j.client]
    BY DEF Running
  <2>1. j.client \in Client
    BY DEF TypeOK, ServersTypeOK
  <2>2. j.memory = request[j.client].needMemory /\ j.memory = request'[j.client].needMemory
    BY DEF ClusterInv, MessageInv, MemoryOK
  <2> QED
    BY <2>1, <2>2 DEF Memories
<1>3. Units(Running(s), Memory, Memories') = Units(Running(s), Memory, Memories)
  BY <1>2, UnitsSame
<1>4. Units(Running(s), Memory, Memories)' = Units(Running(s), Memory, Memories)
  BY <1>1, <1>3 DEF Units
<1> QED
  BY <1>4 DEF UsedInv

\* A server accepts what the RMS sends it, and never gives back more than it uses.
LEMMA ServersSafe ==
  ASSUME NumCores <= MaxRunningJobs, TypeOK, ClusterInv, ClusterInv', UsedInv, AwakeInv,
         NEW s \in Server, ServerStep(s), UNCHANGED rmsVars
  PROVE  UsedInv' /\ AwakeInv'
<1> DEFINE used(C) == Cardinality(Units(C, Memory, Memories))
<1>1. UNCHANGED <<pc, state, memory, request, jobs, rjbList>>
  BY DEF rmsVars, placementVars, serverInfoVars
<1>2. /\ complete \in [Server -> SUBSET [client : Client, memory : Nat]]
      /\ usedMemory \in [Server -> Int]
      /\ simError = "none" /\ memory[s] >= 0 /\ usedMemory[s] = used(Running(s))
  BY DEF TypeOK, ServersTypeOK, AwakeInv, UsedInv
<1>3. /\ Running(s) \in SUBSET (jobs[s] \cap rjbList) /\ IsFiniteSet(Running(s))
      /\ Cardinality(complete[s]) = Cardinality(Running(s))
      /\ \A j, k \in complete[s] : j.client = k.client => j = k
  BY RunningJobs
<1>4. Memories' = Memories
  BY <1>1 DEF Memories
<1>5. \A c \in jobs[s] : Memories[c] \in 0 .. Memory
  BY JobsArePlaced, AmountsOfPlaced
<1>6. Memory \in Nat /\ NumCores \in Nat /\ MaxRunningJobs = 4
  BY MemoryAssumption, NumCoresAssumption DEF MaxRunningJobs
\* What is left to show.
<1>7. ASSUME NEW C, Running(s)' = C, usedMemory'[s] = used(C), simError' = "none",
             \A t \in Server \ {s} : usedMemory'[t] = usedMemory[t] /\ complete'[t] = complete[t]
      PROVE  UsedInv' /\ AwakeInv'
  <2>1. AwakeInv'
    BY <1>1, <1>7 DEF AwakeInv
  <2>2. ASSUME NEW t \in Server
        PROVE  usedMemory'[t] = Cardinality(Units(Running(t), Memory, Memories)')
    <3>1. CASE t = s
      <4>1. Units(Running(s), Memory, Memories)' = Units(C, Memory, Memories)
        BY <1>4, <1>7 DEF Units
      <4> QED
        BY <1>7, <3>1, <4>1
    <3>2. CASE t # s
      <4>1. Running(t)' = Running(t) /\ usedMemory'[t] = usedMemory[t]
        BY <1>7, <3>2 DEF Running
      <4>2. Units(Running(t), Memory, Memories)' = Units(Running(t), Memory, Memories)
        BY <1>4, <4>1 DEF Units
      <4> QED
        BY <4>1, <4>2 DEF UsedInv
    <3> QED
      BY <3>1, <3>2
  <2> QED
    BY <2>1, <2>2 DEF UsedInv
<1>8. ASSUME NEW m \in toServer[s], ServerRequest(s, m)
      PROVE  UsedInv' /\ AwakeInv'
  <2> DEFINE c == m.client
             C == Running(s) \cup {c}
  <2>1. m.type = "REQUEST" /\ c \in Client /\ m.memory = Memories[c]
    <3>1. m.type = "REQUEST" /\ c \in Client
      BY <1>8 DEF ServerRequest, TypeOK, NetTypeOK, ToServerMessage, SleepMsg
    <3>2. m.memory = request[c].needMemory
      BY <3>1 DEF ClusterInv, MessageInv, MemoryOK
    <3> QED
      BY <3>1, <3>2 DEF Memories
  <2>2. PartAt(s, c, 2)
    BY <2>1 DEF PartAt
  <2>3. OnlyPart(s, c, 2) /\ c \in rjbList /\ c \in jobs[s]
    BY <2>1, <2>2, PartIsOnly
  <2>4. c \notin Running(s)
    <3>1. ~PartAt(s, c, 3)
      BY <2>3 DEF OnlyPart
    <3> QED
      BY <3>1 DEF PartAt, Running
  <2>5. C \in SUBSET (jobs[s] \cap rjbList)
    BY <1>3, <2>3
  <2>6. /\ Cardinality(C) \in Nat /\ Cardinality(C) <= NumCores
        /\ used(C) \in Nat /\ used(C) <= Memory
    BY <1>2, <2>5, RunningFits
  <2>7. Cardinality(C) = Cardinality(complete[s]) + 1
    BY <1>3, <2>4, FS_AddElement
  <2>8. used(C) = usedMemory[s] + m.memory
    <3>1. Memories[c] \in 0 .. Memory
      BY <1>5, <2>3
    <3>2. Cardinality(Units(Running(s) \cup {c}, Memory, Memories))
            = Cardinality(Units(Running(s), Memory, Memories)) + Memories[c]
      BY <1>3, <1>6, <2>4, <3>1, UnitsAdd
    <3> QED
      BY <1>2, <2>1, <3>2, Zenon
  <2>9. /\ complete' = [complete EXCEPT ![s] = @ \cup {[client |-> c, memory |-> m.memory]}]
        /\ usedMemory' = [usedMemory EXCEPT ![s] = @ + m.memory]
        /\ simError' = IF Cardinality(complete[s]) + 1 > MaxRunningJobs THEN "runningJobs"
                       ELSE IF usedMemory[s] + m.memory > Memory THEN "usedMemory" ELSE "none"
    BY <1>8 DEF ServerRequest
  <2>10. simError' = "none"
    <3>1. PICK n \in Nat : n = Cardinality(C)
      BY <2>6
    <3>2. PICK u \in Nat : u = used(C)
      BY <2>6
    <3>3. n <= 4 /\ u <= Memory
      BY <1>6, <2>6, <3>1, <3>2
    <3>4. ~(n > 4) /\ ~(u > Memory)
      BY <1>6, <3>3
    <3>5. ~(Cardinality(complete[s]) + 1 > MaxRunningJobs) /\ ~(usedMemory[s] + m.memory > Memory)
      BY <1>6, <2>7, <2>8, <3>1, <3>2, <3>4, Zenon
    <3> QED
      BY <2>9, <3>5
  <2>11. Running(s)' = C
    <3> DEFINE job == [client |-> c, memory |-> m.memory]
    <3>1. complete'[s] = complete[s] \cup {job} /\ job.client = c
      BY <1>2, <2>9
    <3> HIDE DEF job, c
    <3>2. Running(s)' = {j.client : j \in complete[s] \cup {job}}
      BY <3>1 DEF Running
    <3>3. {j.client : j \in complete[s] \cup {job}} = {j.client : j \in complete[s]} \cup {job.client}
      OBVIOUS
    <3> QED
      BY <3>1, <3>2, <3>3 DEF Running
  <2>12. /\ usedMemory'[s] = used(C)
         /\ \A t \in Server \ {s} : usedMemory'[t] = usedMemory[t] /\ complete'[t] = complete[t]
    BY <1>2, <2>8, <2>9
  <2> QED
    BY <1>7, <2>10, <2>11, <2>12
<1>9. ASSUME NEW j \in complete[s], ServerResponse(s, j)
      PROVE  UsedInv' /\ AwakeInv'
  <2> DEFINE c == j.client
             C == Running(s) \ {c}
  <2>1. c \in Running(s) /\ c \in Client /\ c \in jobs[s]
    BY <1>2, <1>3 DEF Running
  <2>2. j.memory = Memories[c]
    BY <2>1 DEF ClusterInv, MessageInv, MemoryOK, Memories
  <2>3. used(C) = usedMemory[s] - j.memory
    <3>1. Memories[c] \in 0 .. Memory
      BY <1>5, <2>1
    <3>2. Cardinality(Units(Running(s) \ {c}, Memory, Memories))
            = Cardinality(Units(Running(s), Memory, Memories)) - Memories[c]
      <4>1. c \in Running(s) /\ IsFiniteSet(Running(s)) /\ Memory \in Nat
        BY <1>3, <1>6, <2>1
      <4> HIDE DEF c
      <4> QED
        BY <3>1, <4>1, UnitsRemove
    <3> QED
      BY <1>2, <2>2, <3>2, Zenon
  <2>4. used(C) \in Nat
    <3>1. C \in SUBSET (jobs[s] \cap rjbList)
      BY <1>3
    <3> QED
      BY <1>2, <3>1, RunningFits
  <2>5. /\ complete' = [complete EXCEPT ![s] = @ \ {j}]
        /\ usedMemory' = [usedMemory EXCEPT ![s] = @ - j.memory]
        /\ simError' = IF usedMemory[s] - j.memory < 0 THEN "usedMemory" ELSE "none"
    BY <1>9 DEF ServerResponse
  <2>6. simError' = "none"
    <3>1. PICK u \in Nat : u = used(C)
      BY <2>4
    <3>2. ~(usedMemory[s] - j.memory < 0)
      BY <2>3, <3>1
    <3> QED
      BY <2>5, <3>2
  <2>7. Running(s)' = C
    <3>1. complete'[s] = complete[s] \ {j}
      BY <1>2, <2>5
    <3> QED
      BY <1>3, <3>1 DEF Running
  <2>8. /\ usedMemory'[s] = used(C)
        /\ \A t \in Server \ {s} : usedMemory'[t] = usedMemory[t] /\ complete'[t] = complete[t]
    BY <1>2, <2>3, <2>5
  <2> QED
    BY <1>7, <2>6, <2>7, <2>8
<1>10. ASSUME UNCHANGED <<complete, usedMemory, simError>>
       PROVE  UsedInv' /\ AwakeInv'
  BY <1>1, <1>10, UsedUnchanged DEF AwakeInv
<1> QED
  BY <1>8, <1>9, <1>10 DEF ServerStep, ServerSleep, ServerWakeup, ServerSleepResponse, ServerWakeupResponse

\* Placing a job on servers that are awake takes cores and memory that they have.
LEMMA PlacementSafe ==
  ASSUME TypeOK, AwakeInv, NEW c \in Client, NEW r \in Request, NEW T \in SUBSET Eligible(r),
         InitServerConnection(c, r, T)
  PROVE  simError' = "none" /\ \A s \in Server : state'[s] # "HYBERNATED" /\ memory'[s] >= 0
<1>1. /\ coresInUse \in [Server -> Int] /\ memory \in [Server -> Int]
      /\ r.cores \in Int /\ r.needMemory \in Int /\ NumCores \in Int
  BY NumCoresAssumption DEF TypeOK, RmsTypeOK, SrvListTypeOK, Request
<1>2. \A s \in T : s \in Server /\ memory[s] >= r.needMemory /\ FreeCores(s) >= r.cores
  BY DEF Eligible
<1>3. \A s \in T : ~(coresInUse[s] + r.cores > NumCores)
  <2> SUFFICES ASSUME NEW s \in T PROVE ~(coresInUse[s] + r.cores > NumCores)
    OBVIOUS
  <2>1. s \in Server /\ NumCores - coresInUse[s] >= r.cores
    BY <1>2 DEF FreeCores
  <2> QED
    BY <1>1, <2>1
<1>4. simError' = "none"
  BY <1>3 DEF InitServerConnection
<1>5. \A s \in Server : state'[s] # "HYBERNATED"
  <2>1. \A s \in Server : state'[s] = "RUNNING" \/ state'[s] = state[s]
    BY DEF InitServerConnection
  <2> QED
    BY <2>1 DEF AwakeInv
<1>6. \A s \in Server : memory'[s] >= 0
  <2> SUFFICES ASSUME NEW s \in Server PROVE memory'[s] >= 0
    OBVIOUS
  <2>1. memory'[s] = memory[s] \/ (s \in T /\ memory'[s] = memory[s] - r.needMemory)
    BY DEF InitServerConnection
  <2>2. memory[s] \in Int /\ memory[s] >= 0
    BY <1>1 DEF AwakeInv
  <2>3. s \in T => memory[s] >= r.needMemory
    BY <1>2
  <2> QED
    BY <1>1, <2>1, <2>2, <2>3
<1> QED
  BY <1>4, <1>5, <1>6

\* A step of the RMS that leaves pc, the error, the states and the memory in order.
LEMMA RmsSafe ==
  ASSUME EnergyAware = FALSE, TypeInv, ClusterInv, ClusterInv', UsedInv, AwakeInv,
         RmsEvent \/ RmsRequests \/ TimePasses, UNCHANGED serverVars
  PROVE  UsedInv' /\ AwakeInv'
<1>1. TypeOK /\ AfterLoops = "idle"
  BY DEF TypeInv, AfterLoops
<1>2. UsedInv'
  BY <1>1, UsedUnchanged DEF serverVars
<1>3. ASSUME pc' # "checkServers",
             \/ UNCHANGED <<state, memory, simError>>
             \/ simError' = "none" /\ \A s \in Server : state'[s] # "HYBERNATED" /\ memory'[s] >= 0
      PROVE  AwakeInv'
  BY <1>3 DEF AwakeInv
<1>4. CASE RmsLoop
  <2>1. ~CheckServers
    BY DEF CheckServers, AwakeInv
  <2>2. pc' # "checkServers"
    BY <1>1, <1>4, <2>1 DEF RmsLoop, FindResources, AfterFindResources, FirstFit, BestFit, AwakeInv
  <2>3. NoneStarted \/ \E i \in 1 .. Len(jobQueue) : StartQueued(i)
    <3>1. Len(jobQueue) \in Nat
      BY <1>1 DEF TypeOK, RmsTypeOK
    <3>2. CASE FindResources
      <4>1. 1 \in 1 .. Len(jobQueue)
        BY <1>1, <3>1, <3>2 DEF FindResources, TypeInv, LoopInv, TypeOK, RmsTypeOK
      <4> QED
        BY <3>2, <4>1 DEF FindResources
    <3>3. CASE FirstFit
      <4>1. index \in 1 .. Len(jobQueue)
        BY <3>1, <3>3 DEF FirstFit, TypeInv, LoopInv
      <4> QED
        BY <3>3, <4>1 DEF FirstFit
    <3>4. CASE BestFit
      <4>1. NoneStarted \/ \E i \in 2 .. Len(jobQueue) : StartQueued(i)
        BY <3>4 DEF BestFit
      <4>2. \A i \in 2 .. Len(jobQueue) : i \in 1 .. Len(jobQueue)
        BY <3>1
      <4> QED
        BY <4>1, <4>2
    <3> QED
      BY <1>4, <2>1, <3>2, <3>3, <3>4 DEF RmsLoop
  <2>4. CASE NoneStarted
    BY <1>2, <1>3, <2>2, <2>4 DEF NoneStarted, placementVars, serverInfoVars
  <2>5. ASSUME NEW i \in 1 .. Len(jobQueue), StartQueued(i)
        PROVE  AwakeInv'
    <3>1. jobQueue[i] \in Client /\ jobQueue[i] \in ToSet(jobQueue)
      BY <1>1 DEF TypeOK, RmsTypeOK, ToSet
    <3>2. request[jobQueue[i]] \in Request
      BY <3>1, RequestsAssumption DEF ClusterInv, QueueInv, ClientInv
    <3>3. PICK T \in SUBSET Eligible(request[jobQueue[i]]) :
             InitServerConnection(jobQueue[i], request[jobQueue[i]], T)
      BY <2>5 DEF StartQueued
    <3> QED
      BY <1>1, <1>3, <2>2, <3>1, <3>2, <3>3, PlacementSafe
  <2> QED
    BY <1>2, <2>3, <2>4, <2>5
<1>5. CASE RmsRequests
  <2> PICK c \in Client : \E r \in Requests[c] : RmsClientRequest(c, r)
    BY <1>5 DEF RmsRequests
  <2>1. PICK r \in Requests[c] : RmsClientRequest(c, r)
    OBVIOUS
  <2>2. r \in Request
    BY RequestsAssumption
  <2>3. pc' # "checkServers" /\ (Place(c, r) \/ EnqueueJob(c))
    BY <1>1, <2>1 DEF RmsClientRequest, CheckQueue
  <2>4. CASE Place(c, r)
    <3>1. PICK T \in SUBSET Eligible(r) : InitServerConnection(c, r, T)
      BY <2>4 DEF Place
    <3> QED
      BY <1>1, <1>2, <1>3, <2>2, <2>3, <3>1, PlacementSafe
  <2>5. CASE EnqueueJob(c)
    BY <1>2, <1>3, <2>3, <2>5 DEF EnqueueJob, placementVars, serverInfoVars
  <2> QED
    BY <2>3, <2>4, <2>5
<1>6. ASSUME NEW s \in Server, RmsReceive(s)
      PROVE  AwakeInv'
  <2>1. PICK m \in toRms[s] : RmsFinish(s, m) \/ RmsSleepResponse(s, m) \/ RmsWakeupResponse(s, m)
    BY <1>6 DEF RmsReceive
  <2>2. CASE RmsFinish(s, m)
    <3>1. pc' # "checkServers"
      BY <1>1, <2>2 DEF RmsFinish, Dequeue, AwakeInv
    <3>2. m.client \in Client
      BY <1>1, <2>2 DEF RmsFinish, TypeOK, NetTypeOK, ToRmsMessage, SleepResponseMsg
    <3>3. request[m.client].needMemory \in Nat
      BY <1>1, <3>2 DEF TypeOK, RmsTypeOK, Request, NoRequest
    <3>4. \A t \in Server : memory[t] \in Int /\ memory[t] >= 0 /\ state[t] # "HYBERNATED"
      BY <1>1 DEF TypeOK, RmsTypeOK, SrvListTypeOK, AwakeInv
    <3>5. /\ memory' = [memory EXCEPT ![s] = @ + request[m.client].needMemory]
          /\ state' = state \/ state' = [state EXCEPT ![s] = "IDLE"]
          /\ UNCHANGED simError
      BY <2>2 DEF RmsFinish
    <3>6. memory \in [Server -> Int] /\ state \in [Server -> {"IDLE", "RUNNING"} \cup Asleep]
      BY <1>1 DEF TypeOK, RmsTypeOK, SrvListTypeOK
    <3>7. \A t \in Server : memory'[t] = memory[t] \/ memory'[t] = memory[t] + request[m.client].needMemory
      BY <3>5, <3>6
    <3>8. \A t \in Server : memory'[t] >= 0
      BY <3>3, <3>4, <3>7
    <3>9. \A t \in Server : state'[t] # "HYBERNATED"
      BY <3>4, <3>5, <3>6
    <3> QED
      BY <1>3, <3>1, <3>5, <3>8, <3>9 DEF AwakeInv
  <2>3. CASE RmsSleepResponse(s, m)
    BY <1>3, <2>3 DEF RmsSleepResponse, AwakeInv
  <2>4. CASE RmsWakeupResponse(s, m)
    <3>1. m.client \in Client /\ m = WakeupResponseMsg(m.client)
      BY <1>1, <2>4, NoClientAssumption
      DEF RmsWakeupResponse, TypeOK, NetTypeOK, ToRmsMessage, WakeupResponseMsg, SleepResponseMsg
    <3>2. m.client # NoClient /\ m.client \in Client \cup {NoClient} /\ "answered" \in Steps
      BY <3>1, NoClientAssumption DEF Steps
    <3>3. ExchangeAt(s, m.client, "answered")
      BY <3>1, <3>2 DEF ExchangeAt
    <3>4. state[s] = "HYBERNATED"
      BY <3>2, <3>3, ExchangeIsOnly
    <3> QED
      BY <3>4 DEF AwakeInv
  <2> QED
    BY <2>1, <2>2, <2>3, <2>4
<1>7. CASE RmsSelfMessage \/ ClientsFinish \/ TimePasses
  <2>1. UNCHANGED <<pc, state, memory, simError>>
    BY <1>7 DEF RmsSelfMessage, RmsInternalJob, RmsInternalWakeup, RmsInternalSleep, RmsInternalFinish,
         selfFrame, serverInfoVars, ClientsFinish, ClientFinish, TimePasses, placementVars
  <2> QED
    BY <1>2, <2>1 DEF AwakeInv
<1> QED
  BY <1>2, <1>4, <1>5, <1>6, <1>7 DEF RmsEvent

\* Without energy awareness, and with no more cores in a server than jobs it may run, no
\* assertion of the RMS or of a server fails: the RMS sends a server no job for which it lacks
\* a core or memory, whatever the order of requests, starts and ends (initServerConnection,
\* MSGKIND_REQUEST and INTERNAL_COMPLETE of the server).
THEOREM NoAssertionFails ==
  ASSUME EnergyAware = FALSE, NumCores <= MaxRunningJobs
  PROVE  Spec => []NoSimError
<1>1. Init => UsedInv /\ AwakeInv
  <2> SUFFICES ASSUME Init PROVE UsedInv /\ AwakeInv
    OBVIOUS
  <2>1. \A s \in Server : Running(s) = {} /\ usedMemory[s] = 0 /\ state[s] = "IDLE" /\ memory[s] = Memory
    BY DEF Init, ServersInit, RmsInit, SrvListInit, Running
  <2>2. pc = "idle" /\ simError = "none"
    BY DEF Init, RmsInit, NetInit
  <2> QED
    BY <2>1, <2>2, UnitsEmpty, MemoryAssumption DEF UsedInv, AwakeInv
<1>2. TypeInv /\ ClusterInv /\ (TypeInv /\ ClusterInv)' /\ UsedInv /\ AwakeInv /\ [Next]_vars
        => (UsedInv /\ AwakeInv)'
  <2> SUFFICES ASSUME TypeInv, ClusterInv, ClusterInv', UsedInv, AwakeInv, [Next]_vars
               PROVE  UsedInv' /\ AwakeInv'
    OBVIOUS
  <2>1. TypeOK
    BY DEF TypeInv
  <2>2. CASE (RmsEvent \/ RmsRequests \/ TimePasses) /\ UNCHANGED serverVars
    BY <2>2, RmsSafe
  <2>3. CASE ServerEvent /\ UNCHANGED rmsVars
    BY <2>1, <2>3, ServersSafe DEF ServerEvent
  <2>4. CASE UNCHANGED vars
    <3>1. UNCHANGED <<complete, usedMemory, pc, state, memory, simError>>
      BY <2>4 DEF vars, netVars, rmsVars, placementVars, serverInfoVars, serverVars
    <3> QED
      BY <2>1, <3>1, UsedUnchanged DEF AwakeInv
  <2> QED
    BY <2>2, <2>3, <2>4 DEF Next, Event, Stimulus
<1>3. AwakeInv => NoSimError
  BY DEF AwakeInv, NoSimError
<1> QED
  BY <1>1, <1>2, <1>3, ClusterInvariant, PTL DEF Spec
=============================================================================
