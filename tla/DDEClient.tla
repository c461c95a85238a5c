------------------------------ MODULE DDEClient ------------------------------
(***************************************************************************)
(* A wireless client that downloads a file or a video through an access    *)
(* point and moves to another one when its fuzzy rule, its learning agent  *)
(* or the information server's load balancer says so.  Events the client   *)
(* schedules for the present moment (selfQ) are handled before the next    *)
(* packet or timer, as in the simulation's event list.                     *)
(***************************************************************************)
EXTENDS DDEAccessPoint, DDERLAgent, FiniteSetsExt

CONSTANTS
  Configs,     \* the configurations of the client explored
  FileSize,    \* packets of the file or video
  InitAdv,     \* initAdvBufferSize: packets before playing starts
  MinAdv,      \* minAdvBufferSize: packets before playing goes on after a pause
  MaxLocks     \* bound on the decision-lock timers that are counted

ASSUME ClientAssumption ==
  \* closeTcp: close the connections before a handover, or only unregister
  /\ Configs \subseteq [app : {"ftp", "video"}, closeTcp : BOOLEAN,
                        control : {"fuzzy", "learning", "pure", "balanced", "combined"}]
  /\ {FileSize, InitAdv, MinAdv, MaxLocks, Burst} \subseteq Nat \ {0}

VARIABLES
  config,             \* the configuration of this behaviour
  link,               \* SSID of the associated access point
  associating,        \* the access point the radio is associating with
  assocTimers,        \* targets of the scheduled associate messages
  apInitTimer,        \* the delayed first connection to the access point
  started,            \* isDownloadStarted_var
  selfQ,              \* the events scheduled for the present moment
  apThread, infoThread,
  apList,             \* the access points ever connected to
  newSSID,            \* target of the last handover
  assocNs,            \* nsClass of the associated access point
  decisionLock, decisionTimers,
  downloaded, downloadComplete,
  playBuffer, player, \* the play buffer and what its timer does
  agent, pureAgent

radio == <<link, associating, assocTimers, apInitTimer>>
threads == <<apThread, infoThread, apList, started>>
lock == <<decisionLock, decisionTimers>>
play == <<downloaded, downloadComplete, playBuffer, player>>
choice == <<newSSID, assocNs, agent, pureAgent>>
serverVars == <<apVars, client>>
vars == <<conns, serverVars, config, radio, selfQ, threads, choice, lock, play>>

Learning == config.control \in {"learning", "combined"}
LoadBalancing == config.control \in {"balanced", "combined"}
PureQLearning == config.control = "pure"

Init ==
  /\ conns = [c \in ConnIds |-> FreeConn]
  /\ InitAP /\ InitInfo
  /\ config \in Configs
  /\ link = NoAP /\ associating \in AccessPoints
  /\ assocTimers = {} /\ apInitTimer = NoAP
  /\ started = FALSE /\ selfQ = <<>> /\ apThread = 0 /\ infoThread = 0 /\ apList = {}
  /\ newSSID = NoAP /\ assocNs = "BAD"
  /\ decisionLock = FALSE /\ decisionTimers = 0
  /\ downloaded = 0 /\ downloadComplete = FALSE /\ playBuffer = 0 /\ player = "idle"
  /\ agent = InitialAgent /\ pureAgent = InitialPureAgent

Idle == selfQ = <<>> /\ simError = "none"
Fails(error) == simError' = error /\ UNCHANGED <<cliList, appContext, videoTimers>>

-----------------------------------------------------------------------------
(* The radio and the notification of a new address.                        *)

\* A number that no list, timer or entry refers to any more.
Reusable == {c \in ConnIds : /\ ~InUse(c) /\ c \notin videoTimers /\ client.thread # c
                             /\ \A a \in AccessPoints : cliList[a] # c}

ConnectBoth(a) ==
  LET apInit == InitMsg("ap", a)
      infoInit == InitMsg("info", NoAP)
  IN  IF started
      THEN selfQ' = selfQ \o <<apInit, infoInit>> /\ UNCHANGED apInitTimer
      ELSE selfQ' = Append(selfQ, infoInit) /\ apInitTimer' = a   \* after startTime

\* receiveChangeNotification, when the interface has an address again.  With
\* sockets left over, a client that closes them first does nothing.
Configured ==
  /\ Idle /\ associating # NoAP
  /\ Cardinality(Reusable) >= 2      \* bound: numbers for both connections
  /\ link' = associating /\ associating' = NoAP
  /\ IF SocketMap = {} THEN ConnectBoth(associating) /\ UNCHANGED apThread
     ELSE IF ~config.closeTcp THEN ConnectBoth(associating) /\ apThread' = 0
     ELSE UNCHANGED <<selfQ, apInitTimer, apThread>>
  /\ UNCHANGED <<conns, serverVars, config, assocTimers, infoThread, apList, started,
                 choice, lock, play>>

\* sendScanRequest: the radio leaves its access point and scans for, or
\* authenticates with, the other one.
SendScanRequest(a) == link' = NoAP /\ associating' = a

\* INTERNAL_ASSOCIATE_MSG: the radio is sent to the target of the handover.
Associate(a) ==
  /\ Idle /\ a \in assocTimers
  /\ assocTimers' = assocTimers \ {a}
  /\ SendScanRequest(a)
  /\ UNCHANGED <<conns, serverVars, config, apInitTimer, selfQ, threads, choice, lock, play>>

-----------------------------------------------------------------------------
(* INTERNAL_INIT_CONNECTION_MSG                                            *)

InitConnection(kind, ap) ==
  /\ Reusable # {}
  /\ LET c == Min(Reusable)
     IN  /\ conns' = [conns EXCEPT ![c] = Connecting(kind, ap)]
         /\ IF kind = "ap" THEN apThread' = c /\ UNCHANGED infoThread
                           ELSE infoThread' = c /\ UNCHANGED apThread
  /\ started' = TRUE
  /\ UNCHANGED <<serverVars, config, link, associating, assocTimers, apList, choice, lock, play>>

FirstConnection ==
  /\ Idle /\ apInitTimer # NoAP
  /\ InitConnection("ap", apInitTimer)
  /\ apInitTimer' = NoAP
  /\ UNCHANGED selfQ

SelfInit ==
  /\ InitConnection(Head(selfQ).kind, Head(selfQ).ap)
  /\ selfQ' = Tail(selfQ)
  /\ UNCHANGED apInitTimer

-----------------------------------------------------------------------------
(* The events scheduled for the present moment.                            *)

RestOfSelf == /\ selfQ' = Tail(selfQ)
              /\ UNCHANGED <<client, config, threads, choice, lock, play>>

\* INTERNAL_CLOSE_CONNECTION_MSG closes the access-point thread of the moment.
SelfCloseAP ==
  /\ IF apThread = 0
     THEN Fails("threadZero") /\ UNCHANGED conns
     ELSE /\ conns' = [conns EXCEPT ![apThread] = CallClosed(@)]
          /\ UNCHANGED apVars
  /\ RestOfSelf /\ UNCHANGED radio

SelfUnregisterAP ==
  /\ IF apThread = 0
     THEN Fails("threadZero") /\ UNCHANGED conns
     ELSE IF conns[apThread].cli \in {"connecting", "connected"}
     THEN /\ conns' = [conns EXCEPT ![apThread] = SentByClient(@, <<Msg("unregister")>>)]
          /\ UNCHANGED apVars
     ELSE Fails("sendOnClosedSocket") /\ UNCHANGED conns
  /\ RestOfSelf /\ UNCHANGED radio

SelfInfoClose ==
  /\ IF infoThread = 0
     THEN Fails("threadZero") /\ UNCHANGED conns
     ELSE /\ conns' = [conns EXCEPT ![infoThread] = CallClosed(@)]
          /\ UNCHANGED apVars
  /\ RestOfSelf /\ UNCHANGED radio

\* sendClassifyAP to the information server, on a connected socket only.
SelfInfoClassify ==
  /\ IF infoThread = 0
     THEN Fails("threadZero") /\ UNCHANGED conns
     ELSE /\ conns' = IF conns[infoThread].cli = "connected"
                      THEN [conns EXCEPT ![infoThread] = SentByClient(@, <<Msg("classify")>>)]
                      ELSE conns
          /\ UNCHANGED apVars
  /\ RestOfSelf /\ UNCHANGED radio

\* sendClassificationMN: what the client knows of itself and its access point.
SendClassificationMN(conn) == SentByClient(conn, <<[t |-> "mn", assocAP |-> link]>>)

\* The state of the socket is not looked at.
SelfMnClassify ==
  /\ IF infoThread = 0
     THEN Fails("threadZero") /\ UNCHANGED conns
     ELSE IF conns[infoThread].cli \in {"connecting", "connected"}
     THEN /\ conns' = [conns EXCEPT ![infoThread] = SendClassificationMN(@)]
          /\ UNCHANGED apVars
     ELSE Fails("sendOnClosedSocket") /\ UNCHANGED conns
  /\ RestOfSelf /\ UNCHANGED radio

\* Wrong variant: the socket map is looked at before the thread is removed from it.
RemoveLooksFirst ==
  /\ conns' = [conns EXCEPT ![Head(selfQ).c] = FreeConn]
  /\ assocTimers' = IF SocketMap = {} /\ ~downloadComplete
                    THEN assocTimers \cup {newSSID} ELSE assocTimers
  /\ UNCHANGED <<apVars, link, associating, apInitTimer>>
  /\ RestOfSelf

\* INTERNAL_REMOVE_THREAD_MSG: the association with the new access point is
\* scheduled when the last socket has gone, unless the download is complete.
SelfRemove ==
  /\ conns' = [conns EXCEPT ![Head(selfQ).c] = FreeConn]
  /\ assocTimers' = IF SocketMap = {Head(selfQ).c} /\ ~downloadComplete
                    THEN assocTimers \cup {newSSID} ELSE assocTimers
  /\ UNCHANGED <<apVars, link, associating, apInitTimer>>
  /\ RestOfSelf

Self ==
  /\ selfQ # <<>> /\ simError = "none"
  /\ \/ Head(selfQ).t = "init" /\ SelfInit
     \/ Head(selfQ).t = "closeAp" /\ SelfCloseAP
     \/ Head(selfQ).t = "unregisterAp" /\ SelfUnregisterAP
     \/ Head(selfQ).t = "infoClose" /\ SelfInfoClose
     \/ Head(selfQ).t = "infoClassify" /\ SelfInfoClassify
     \/ Head(selfQ).t = "mnClassify" /\ SelfMnClassify
     \/ Head(selfQ).t = "remove" /\ SelfRemove

-----------------------------------------------------------------------------
(* Connections: established() and the messages of an access point.         *)

\* Wrong variant: a new access point is asked for the whole video.
RequestAll == IF config.app = "ftp" THEN Msg("request")
              ELSE AppContext(FileSize)

Request == IF config.app = "ftp" THEN Msg("request")
           ELSE AppContext(FileSize - downloaded)

\* addAPListInfo: the associated access point is in the list from now on.
AddAPListInfo == apList \cup {link}
LookupAP(a) == a \in apList

\* Both ends: an access point enters the client with this connection; the
\* client asks for a classification and for data.
APEstablished(c, open) ==
  /\ open.kind = "ap"
  /\ conns' = [conns EXCEPT ![c] = SentByClient(open, <<Msg("classify"), Request>>)]
  /\ cliList' = AddClientInfo(open.ap, c)
  /\ apList' = AddAPListInfo

\* The information server is told nothing yet.
InfoEstablished(c, open) ==
  /\ open.kind = "info"
  /\ conns' = [conns EXCEPT ![c] = open]
  /\ UNCHANGED <<cliList, apList>>

Established(c) ==
  /\ Idle /\ link # NoAP /\ conns[c].cli = "connecting"
  /\ LET open == [conns[c] EXCEPT !.cli = "connected", !.srv = "connected"]
     IN  APEstablished(c, open) \/ InfoEstablished(c, open)
  /\ UNCHANGED <<appContext, videoTimers, simError, client, config, radio, selfQ,
                 apThread, infoThread, started, choice, lock, play>>

ClientGets(c, kind, type) ==
  Idle /\ link # NoAP /\ conns[c].kind = kind /\ ToClient(c, type)

\* The reward of the learning agent: the bandwidth, or the logarithm of the
\* play buffer, whose value for an empty buffer is minus infinity; a pause
\* costs a fixed amount.
Reward == IF config.app = "video" /\ player # "pause" /\ playBuffer = 0
          THEN "minusInfinity" ELSE "finite"

FeedbackAgent(own, best) ==
  GiveFeedback(agent, own, best, Reward, LoadBalancing /\ decisionLock)

\* The fuzzy state of the own access point, from its classification, the
\* signal and the cached content or the play buffer: any, as these are left open.
Classified == NsClasses

\* A new classification of the own access point: every second one is acted on.
APClassArrives(c) ==
  /\ ClientGets(c, "ap", "apClass")
  /\ IF downloadComplete \/ conns[c].cli # "connected"
     THEN /\ conns' = [conns EXCEPT ![c] = Received(@)]
          /\ UNCHANGED <<selfQ, choice>>
     ELSE \E ns \in Classified :
       LET second == conns[c].timestep = 1
           mn     == SelfMsg("mnClassify")
           active == config.app = "ftp" \/ player # "idle"
       IN  /\ assocNs' = ns
           /\ IF LoadBalancing /\ ~Learning
              THEN /\ conns' = [conns EXCEPT ![c] = Received(@)]
                   /\ selfQ' = Append(selfQ, mn)
                   /\ UNCHANGED agent
              ELSE /\ conns' = [conns EXCEPT ![c] =
                                  [Received(conns[c]) EXCEPT !.timestep = 1 - @]]
                   /\ selfQ' = selfQ
                        \o (IF second /\ LoadBalancing THEN <<mn>> ELSE <<>>)
                        \o (IF second /\ active /\ ns = "BAD"
                            THEN <<SelfMsg("infoClassify")>> ELSE <<>>)
                   /\ IF second /\ active /\ ns # "BAD" /\ Learning
                      THEN agent' \in FeedbackAgent(ns, ns)
                      ELSE UNCHANGED agent
           /\ UNCHANGED <<newSSID, pureAgent>>
  /\ UNCHANGED <<serverVars, config, radio, threads, lock, play>>

\* The reply of a file download; the end of the file closes the connection
\* again, whatever the state of its socket.
ReplyArrives(c) ==
  /\ ClientGets(c, "ap", "reply")
  /\ IF downloadComplete
     THEN /\ conns' = [conns EXCEPT ![c] = Received(@)]
          /\ UNCHANGED <<apVars, selfQ, downloaded, downloadComplete>>
     ELSE /\ downloaded' = downloaded + 1
          /\ IF downloaded + 1 < FileSize
             THEN /\ conns' = [conns EXCEPT ![c] = IF @.cli = "connected"
                                THEN SentByClient(Received(@), <<Request>>) ELSE Received(@)]
                  /\ UNCHANGED <<apVars, selfQ, downloadComplete>>
             ELSE /\ downloadComplete' = TRUE
                  /\ IF conns[c].cli = "connected"
                     THEN /\ conns' = [conns EXCEPT ![c] = ClosedByClient(Received(@))]
                          /\ selfQ' = Append(selfQ, SelfMsg("infoClose"))
                          /\ UNCHANGED apVars
                     ELSE /\ Fails("closedTwice")
                          /\ UNCHANGED <<conns, selfQ>>
  /\ UNCHANGED <<client, config, radio, threads, choice, lock, playBuffer, player>>

\* A packet goes into the play buffer; enough of them start the player.
UpdatePlayBuffer ==
  /\ playBuffer' = playBuffer + 1
  /\ player' = IF downloaded + 1 = InitAdv THEN "play" ELSE player

\* A video packet; the last one closes both connections.
VideoArrives(c) ==
  /\ ClientGets(c, "ap", "video")
  /\ IF downloadComplete
     THEN /\ conns' = [conns EXCEPT ![c] = Received(@)]
          /\ UNCHANGED <<selfQ, play>>
     ELSE /\ downloaded' = downloaded + 1
          /\ UpdatePlayBuffer
          /\ downloadComplete' = (downloaded + 1 >= FileSize)
          /\ IF downloadComplete'
             THEN /\ conns' = [conns EXCEPT ![c] = CallClosed(Received(@))]
                  /\ selfQ' = Append(selfQ, SelfMsg("infoClose"))
             ELSE /\ conns' = [conns EXCEPT ![c] = Received(@)]
                  /\ UNCHANGED selfQ
  /\ UNCHANGED <<serverVars, config, radio, threads, choice, lock>>

\* The other end has closed as well: the thread is to be removed.
FinArrives(c) ==
  /\ Idle /\ ToClient(c, "FIN") /\ conns[c].cli = "locallyClosed"
  /\ conns' = [conns EXCEPT ![c] = [Received(@) EXCEPT !.cli = "closed"]]
  /\ selfQ' = Append(selfQ, [t |-> "remove", c |-> c])
  /\ UNCHANGED <<serverVars, config, radio, threads, choice, lock, play>>

-----------------------------------------------------------------------------
(* Handovers: the messages of the information server.                      *)

\* The observation handed to pure Q-learning: the signal strengths are
\* passed as 0 for both access points, the losses as they are known.
PureState(loss) == [ss |-> "BAD_SIGNAL", loss |-> loss, users |-> "LOW"]
Losses == {s.loss : s \in PureStates}

\* The common end of a handover decision, on the connection c to the
\* information server: close the connections, or only unregister.
StartHandover(c, a) ==
  /\ newSSID' = a
  /\ IF ~LookupAP(link)             \* suspendAP writes to a null entry
     THEN Fails("nullAP") /\ UNCHANGED <<conns, selfQ, assocTimers>>
     ELSE /\ UNCHANGED apVars
          /\ IF config.closeTcp
             THEN /\ selfQ' = Append(selfQ, SelfMsg("closeAp"))
                  /\ conns' = [conns EXCEPT ![c] = ClosedByClient(Received(@))]
                  /\ UNCHANGED assocTimers
             ELSE /\ selfQ' = Append(selfQ, SelfMsg("unregisterAp"))
                  /\ conns' = [conns EXCEPT ![c] =
                                 SentByClient(Received(@), <<Msg("unregister")>>)]
                  /\ assocTimers' = assocTimers \cup {a}

StayHere(c) == /\ conns' = [conns EXCEPT ![c] = Received(@)]
               /\ UNCHANGED <<apVars, selfQ, assocTimers, newSSID>>

\* What doHandover may decide for the best other access point: pure
\* Q-learning, Q-learning or, without load balancing, the fuzzy rule.
FeedbackPureAgent(own, other) ==
  GivePureFeedback(pureAgent, PureState(own), PureState(other), Reward)

DoHandover(best) ==
  IF PureQLearning
  THEN {[change |-> next.last.changeAP, agent |-> agent, pureAgent |-> next] :
          next \in UNION {FeedbackPureAgent(own, other) : own, other \in Losses}}
  ELSE IF Learning
  THEN {[change |-> next.last.changeAP, agent |-> next, pureAgent |-> pureAgent] :
          next \in FeedbackAgent(assocNs, best)}
  ELSE {[change |-> ~LoadBalancing /\ assocNs = "BAD" /\ best # "BAD" /\ ~decisionLock,
         agent |-> agent, pureAgent |-> pureAgent]}

\* INFO_CLASSIFICATION: the best other access point of the list is determined.
InfoClassArrives(c) ==
  /\ ClientGets(c, "info", "infoClass")
  /\ IF conns[c].cli # "connected"
     THEN StayHere(c) /\ UNCHANGED <<agent, pureAgent>>
     ELSE \E a \in AccessPoints \ {link}, best \in NsClasses : \E d \in DoHandover(best) :
            /\ agent' = d.agent /\ pureAgent' = d.pureAgent
            /\ IF d.change THEN StartHandover(c, a) ELSE StayHere(c)
  /\ UNCHANGED <<client, config, link, associating, apInitTimer, threads, assocNs, lock, play>>

\* HANDOVER_RECOMMENDATION; a learning client locks its own decisions.
RecommendationArrives(c) ==
  /\ ClientGets(c, "info", "ho")
  /\ IF conns[c].cli # "connected"
     THEN StayHere(c) /\ UNCHANGED lock
     ELSE /\ StartHandover(c, Head(conns[c].in).ssid)
          /\ IF Learning
             THEN /\ decisionLock' = TRUE
                  /\ decisionTimers' = Least(MaxLocks, decisionTimers + 1)
             ELSE UNCHANGED lock
  /\ UNCHANGED <<client, config, link, associating, apInitTimer, threads,
                 assocNs, agent, pureAgent, play>>

\* INTERNAL_DECISION_TIMEOUT: the timer of any lock releases the lock.
DecisionTimeout ==
  /\ Idle /\ decisionTimers > 0
  /\ decisionTimers' = decisionTimers - 1
  /\ decisionLock' = FALSE
  /\ UNCHANGED <<conns, serverVars, config, radio, selfQ, threads, choice, play>>

-----------------------------------------------------------------------------
(* The player.                                                             *)

\* Take a packet; an empty buffer is a pause, or the end.
PlayContent ==
  IF playBuffer > 0 THEN playBuffer' = playBuffer - 1 /\ UNCHANGED player
  ELSE /\ player' = IF downloaded < FileSize THEN "pause" ELSE "finished"
       /\ UNCHANGED playBuffer

\* MK_PLAY_CONTENT, until there is a pause or the end.
PlayTimer ==
  /\ Idle /\ player = "play"
  /\ PlayContent
  /\ UNCHANGED <<conns, serverVars, config, radio, selfQ, threads, choice, lock,
                 downloaded, downloadComplete>>

\* Play on with enough packets, or when no more will come.
PauseContent == /\ playBuffer >= MinAdv \/ downloaded >= FileSize
                /\ player' = "play"

\* MK_PAUSE_CONTENT, until the pause is over.
PauseTimer ==
  /\ Idle /\ player = "pause"
  /\ PauseContent
  /\ UNCHANGED <<conns, serverVars, config, radio, selfQ, threads, choice, lock,
                 downloaded, downloadComplete, playBuffer>>

-----------------------------------------------------------------------------
clientVars == <<config, radio, selfQ, threads, choice, lock, play>>

Servers ==
  \/ \E c \in ConnIds : \/ Idle /\ APDelivers(c) /\ UNCHANGED <<client, clientVars>>
                        \/ Idle /\ InfoDelivers(c) /\ UNCHANGED clientVars
                        \/ Idle /\ APVideoTimer(c) /\ UNCHANGED <<client, clientVars>>
  \/ \E a \in AccessPoints : Idle /\ APClassifyTimer(a) /\ UNCHANGED <<client, clientVars>>
  \/ Idle /\ LoadBalancing /\ DoLoadBalancing /\ UNCHANGED clientVars

ClientReceives(c) ==
  \/ Established(c) \/ APClassArrives(c) \/ ReplyArrives(c) \/ VideoArrives(c)
  \/ FinArrives(c) \/ InfoClassArrives(c) \/ RecommendationArrives(c)

Next ==
  \/ Self \/ Configured \/ FirstConnection \/ DecisionTimeout \/ PlayTimer \/ PauseTimer
  \/ \E a \in AccessPoints : Associate(a)
  \/ \E c \in ConnIds : ClientReceives(c)
  \/ Servers

Spec == Init /\ [][Next]_vars

\* Scheduled events are handled, established links deliver, and the radio
\* finds the access point it was sent to.
Fairness ==
  /\ WF_vars(Self) /\ WF_vars(Configured) /\ WF_vars(FirstConnection)
  /\ \A a \in AccessPoints : WF_vars(Associate(a))
  /\ \A c \in ConnIds :
       /\ WF_vars(ClientReceives(c)) /\ SF_vars(Established(c))
       /\ WF_vars(Idle /\ APDelivers(c) /\ UNCHANGED <<client, clientVars>>)
       /\ WF_vars(Idle /\ APVideoTimer(c) /\ UNCHANGED <<client, clientVars>>)
       /\ WF_vars(Idle /\ InfoDelivers(c) /\ UNCHANGED clientVars)

FairSpec == Spec /\ Fairness

-----------------------------------------------------------------------------
(* Properties.                                                             *)

\* No handover of a client that closes its connections first, from whichever of
\* the decisions, ends in an error() of the program: no timer acts on a thread
\* that is not there, nothing is sent on a closed socket, no access point misses
\* the client that asks it.  The one exception is written in the code: the end of
\* a file closes the connection "TODO: this can cause errors" also when a handover
\* has closed it before.  (With connections that stay open the errors do happen:
\* see UnregisteredClientIsServed.)
NoUnexpectedError ==
  config.closeTcp => simError = "none" \/ (simError = "closedTwice" /\ config.app = "ftp")

\* The tables of the servers and their connections agree through closing,
\* reconnecting and late messages: every entry points to an open connection of
\* its own server, and a client that closes its connections is entered at an
\* access point exactly as long as its connection there is open.
EntriesPointToOpenConnections ==
  /\ \A a \in AccessPoints :
       cliList[a] # 0 => conns[cliList[a]].ap = a /\ conns[cliList[a]].srv = "connected"
  /\ config.closeTcp => \A c \in ConnIds :
       (conns[c].kind = "ap" /\ conns[c].srv = "connected") => cliList[conns[c].ap] = c
  /\ client.thread # 0 => /\ conns[client.thread].kind = "info"
                          /\ conns[client.thread].srv = "connected"

\* Packets of the video on the way to the client, and those the access point is
\* still asked for: one pair for each, the request and a number.
OnTheWay(C) == {i \in DOMAIN C.in : C.in[i].t = "video"}
AskedFor(C) == UNION {{i} \X (1 .. C.out[i].remaining) :
                        i \in {j \in DOMAIN C.out : C.out[j].t = "videoRequest"}}
LeftToSend(c) == IF c \in videoTimers /\ conns[c].srv = "connected" THEN appContext[c] ELSE 0

\* All that connection c may still deliver.
Promised(c) ==
  Cardinality(OnTheWay(conns[c])) + Cardinality(AskedFor(conns[c])) + LeftToSend(c)

\* The new access point is asked for what the old one has not delivered: one
\* connection at most promises anything, and what is downloaded, on the way and
\* promised is never more than the video.
VideoPromisedOnce ==
  config.app = "video" /\ config.closeTcp /\ ~downloadComplete =>
    \A c \in ConnIds :
      /\ downloaded + Promised(c) <= FileSize
      /\ Promised(c) # 0 => \A d \in ConnIds \ {c} : Promised(d) = 0

HandingOver == /\ infoThread # 0 /\ conns[infoThread].cli = "locallyClosed"
               /\ config.closeTcp /\ ~downloadComplete

\* Once a handover has closed the connection to the information server, both
\* threads are removed, the radio moves and the client registers again.
HandoverCompletes ==
  HandingOver ~> \/ link = newSSID /\ infoThread # 0 /\ conns[infoThread].cli = "connected"
                 \/ downloadComplete \/ simError # "none"

\* DDEClient.ned: "FALSE connections stay open, unregister from servers".
\* An unregistered client whose connection stays open is still served.
UnregisteredClientIsServed == simError # "clientNotFound"
=============================================================================
