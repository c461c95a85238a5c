--------------------------- MODULE DDEAccessPoint ---------------------------
(***************************************************************************)
(* The servers of a client.  The access points: the table of registered    *)
(* clients, the answers to a client's requests, the periodic               *)
(* classification sent to the registered clients and the paced sending of  *)
(* a video.  There is one client, so a table is the connection its entry   *)
(* points to, or 0.  The information server: the client's entry, the       *)
(* answers to its requests and the load balancer's recommendations.        *)
(*                                                                         *)
(* First the TCP connections of the client, to the access point it is      *)
(* associated with and to the information server.  A connection is a       *)
(* record with the state of its socket at both ends and the two streams.   *)
(* TCP itself is external: streams are reliable and in order, the end of a *)
(* stream is a FIN, and the handshake is one step.                         *)
(***************************************************************************)
EXTENDS Naturals, Sequences, FiniteSets

CONSTANTS
  AccessPoints,   \* the access points
  MaxConns        \* how many connections of the client may exist at a time

ASSUME MaxConnsAssumption == MaxConns \in Nat \ {0}

NoAP == "none"
ASSUME AccessPointsAssumption == NoAP \notin AccessPoints

VARIABLE conns    \* connection number -> connection

ConnIds == 1 .. MaxConns
FreeConn == [kind |-> "ap", ap |-> NoAP, cli |-> "free", srv |-> "none",
             out |-> <<>>, in |-> <<>>, timestep |-> 0]

\* The messages of the protocol, the request for a video, and those that the client
\* schedules for itself.
Msg(type)         == [t |-> type]
AppContext(bytes) == [t |-> "videoRequest", remaining |-> bytes]
InitMsg(kind, ap)  == [t |-> "init", kind |-> kind, ap |-> ap]
SelfMsg(type)      == [t |-> type]
Fin == Msg("FIN")

\* A new connection in the connecting state (init, bind and connect).
Connecting(kind, ap) ==
  [FreeConn EXCEPT !.kind = kind, !.ap = ap, !.cli = "connecting"]

InUse(c) == conns[c].cli # "free"
SocketMap == {c \in ConnIds : InUse(c)}

\* close() of the client: the FIN follows what was sent before.
ClosedByClient(conn) ==
  [conn EXCEPT !.cli = "locallyClosed", !.out = Append(@, Fin)]

\* callClose(): only a connected socket is closed.
CallClosed(conn) == IF conn.cli = "connected" THEN ClosedByClient(conn) ELSE conn

SentByClient(conn, msgs) == [conn EXCEPT !.out = @ \o msgs]
SentByServer(conn, msgs) == [conn EXCEPT !.in = @ \o msgs]

\* The heads of the streams, when the other end's socket takes them.
ToClient(c, type) == conns[c].in # <<>> /\ Head(conns[c].in).t = type
ToServer(c, type) == conns[c].out # <<>> /\ Head(conns[c].out).t = type
Carries(c, types) == \E i \in DOMAIN (conns[c].in \o conns[c].out) :
                       (conns[c].in \o conns[c].out)[i].t \in types
Received(conn) == [conn EXCEPT !.in = Tail(@)]
Taken(conn) == [conn EXCEPT !.out = Tail(@)]

----------------------------------------------------------------------------
(* The access points *)

CONSTANT Burst    \* packets sent per video timer (3 in sendVideoData)

VARIABLES
  cliList,     \* access point -> connection of the client's entry, or 0
  appContext,  \* connection -> packets of the video still to send
  videoTimers, \* the connections whose video timer is scheduled
  simError     \* "none", or the error() the program has stopped with

apVars == <<cliList, appContext, videoTimers, simError>>

InitAP ==
  /\ cliList = [a \in AccessPoints |-> 0]
  /\ appContext = [c \in ConnIds |-> 0]
  /\ videoTimers = {}
  /\ simError = "none"

IsClientRegistered(a) == cliList[a] # 0
\* addClientInfo: the entry of the client, found by its address or added.
AddClientInfo(a, c) == [cliList EXCEPT ![a] = c]
\* Wrong variant: the entry is not found.
DeleteNone(a) == cliList
DeleteClient(a) == [cliList EXCEPT ![a] = 0]
Least(m, n) == IF m < n THEN m ELSE n
Packets(n) == [i \in 1 .. n |-> Msg("video")]

\* sendVideoData: up to Burst packets, and a timer for the rest.
SendVideoData(c, conn, remaining) ==
  LET now == Least(Burst, remaining)
  IN  /\ conns' = [conns EXCEPT ![c] = SentByServer(conn, Packets(now))]
      /\ appContext' = [appContext EXCEPT ![c] = remaining - now]
      /\ videoTimers' = IF remaining > now THEN videoTimers \cup {c} ELSE videoTimers \ {c}

APConn(c) == conns[c].kind = "ap" /\ conns[c].srv # "none"

\* CLASSIFY_AP is answered with the current classification.
APClassify(c) ==
  /\ APConn(c) /\ ToServer(c, "classify")
  /\ conns' = [conns EXCEPT ![c] = SentByServer(Taken(@), <<Msg("apClass")>>)]
  /\ UNCHANGED apVars

\* A request enters the user class in the client's entry; without an entry
\* the program stops, otherwise the request is sent back as the reply.
APRequest(c) ==
  /\ APConn(c) /\ ToServer(c, "request")
  /\ IF IsClientRegistered(conns[c].ap)
     THEN /\ conns' = [conns EXCEPT ![c] = IF @.srv = "connected"
                                           THEN SentByServer(Taken(@), <<Msg("reply")>>)
                                           ELSE Taken(@)]
          /\ UNCHANGED simError
     ELSE /\ simError' = "clientNotFound"
          /\ conns' = [conns EXCEPT ![c] = Taken(@)]
  /\ UNCHANGED <<cliList, appContext, videoTimers>>

APVideoRequest(c) ==
  /\ APConn(c) /\ ToServer(c, "videoRequest")
  /\ IF ~IsClientRegistered(conns[c].ap)
     THEN /\ simError' = "clientNotFound"
          /\ conns' = [conns EXCEPT ![c] = Taken(@)]
          /\ UNCHANGED <<appContext, videoTimers>>
     ELSE /\ IF conns[c].srv = "connected"
             THEN SendVideoData(c, Taken(conns[c]), Head(conns[c].out).remaining)
             ELSE /\ appContext' = [appContext EXCEPT ![c] = Head(conns[c].out).remaining]
                  /\ conns' = [conns EXCEPT ![c] = Taken(@)]
                  /\ UNCHANGED videoTimers
          /\ UNCHANGED simError
  /\ UNCHANGED cliList

APUnregister(c) ==
  /\ APConn(c) /\ ToServer(c, "unregister")
  /\ conns' = [conns EXCEPT ![c] = Taken(@)]
  /\ cliList' = DeleteClient(conns[c].ap)
  /\ UNCHANGED <<appContext, videoTimers, simError>>

\* peerClosed: the access point closes too and deletes the client's entry.
APPeerClosed(c) ==
  /\ APConn(c) /\ ToServer(c, "FIN")
  /\ conns' = [conns EXCEPT ![c] = [SentByServer(Taken(@), <<Fin>>) EXCEPT !.srv = "closed"]]
  /\ cliList' = DeleteClient(conns[c].ap)
  /\ UNCHANGED <<appContext, videoTimers, simError>>

\* The video timer goes on only for a registered client on a connected socket.
APVideoTimer(c) ==
  /\ c \in videoTimers
  /\ IF conns[c].srv = "connected" /\ IsClientRegistered(conns[c].ap)
     THEN SendVideoData(c, conns[c], appContext[c])
     ELSE /\ videoTimers' = videoTimers \ {c}
          /\ UNCHANGED <<conns, appContext>>
  /\ UNCHANGED <<cliList, simError>>

\* sendInfoToClients: the classification, on the open connection of the entry.
SendInfoToClients(a) ==
  /\ cliList[a] # 0 /\ conns[cliList[a]].srv = "connected"
  /\ conns' = [conns EXCEPT ![cliList[a]] = SentByServer(@, <<Msg("apClass")>>)]

\* The periodic classification.  Bound:
\* none is pushed while one, or what the client sent because of one, is under way.
APClassifyTimer(a) ==
  /\ \A c \in ConnIds : ~Carries(c, {"apClass", "infoClass", "classify", "mn", "unregister"})
  /\ SendInfoToClients(a)
  /\ UNCHANGED apVars

APDelivers(c) == \/ APClassify(c) \/ APRequest(c) \/ APVideoRequest(c)
                 \/ APUnregister(c) \/ APPeerClosed(c)

----------------------------------------------------------------------------
(* The information server.  Which client the load balancer moves where is  *)
(* left open, and the classification values of the access points are       *)
(* abstracted away.                                                        *)

VARIABLE client   \* the client's entry: [assocAP, thread]; thread 0 without one

NoClient == [assocAP |-> NoAP, thread |-> 0]

InitInfo == client = NoClient

\* addClientInfo: the entry is found by the name of the host, or added.
EntryOf(ap, c) == [assocAP |-> ap, thread |-> c]
\* deleteClient looks for the address of the client, whatever its thread.
EntryDeleted == NoClient

InfoConn(c) == conns[c].kind = "info" /\ conns[c].srv # "none"

\* CLASSIFY_AP is answered with the list of access points.
InfoClassify(c) ==
  /\ InfoConn(c) /\ ToServer(c, "classify")
  /\ conns' = [conns EXCEPT ![c] = SentByServer(Taken(@), <<Msg("infoClass")>>)]
  /\ UNCHANGED <<apVars, client>>

\* A report enters the client with the connection the report came on.
InfoMnClassification(c) ==
  /\ InfoConn(c) /\ ToServer(c, "mn")
  /\ client' = EntryOf(Head(conns[c].out).assocAP, c)
  /\ conns' = [conns EXCEPT ![c] = Taken(@)]
  /\ UNCHANGED apVars

InfoUnregister(c) ==
  /\ InfoConn(c) /\ ToServer(c, "unregister")
  /\ client' = EntryDeleted
  /\ conns' = [conns EXCEPT ![c] = Taken(@)]
  /\ UNCHANGED apVars

\* Wrong variant: the entry outlives the connection.
PeerClosedKeepsEntry(c) ==
  /\ InfoConn(c) /\ ToServer(c, "FIN")
  /\ conns' = [conns EXCEPT ![c] = [SentByServer(Taken(@), <<Fin>>) EXCEPT !.srv = "closed"]]
  /\ UNCHANGED <<apVars, client>>

\* The server closes too, and close() deletes the entry of the client.
InfoPeerClosed(c) ==
  /\ InfoConn(c) /\ ToServer(c, "FIN")
  /\ client' = EntryDeleted
  /\ conns' = [conns EXCEPT ![c] = [SentByServer(Taken(@), <<Fin>>) EXCEPT !.srv = "closed"]]
  /\ UNCHANGED apVars

\* The load-balancing timer: with a client in the table, the algorithm may
\* recommend a move to another access point than the reported one; it is sent
\* on the connection of the entry, which has to be open.  Bound: one
\* recommendation under way.
DoLoadBalancing ==
  /\ client.thread # 0
  /\ ~Carries(client.thread, {"ho"})
  /\ \E a \in AccessPoints \ {client.assocAP} :
       IF conns[client.thread].srv = "connected"
       THEN /\ conns' = [conns EXCEPT ![client.thread] =
                           SentByServer(@, <<[t |-> "ho", ssid |-> a]>>)]
            /\ UNCHANGED simError
       ELSE /\ simError' = "sendOnClosedSocket"
            /\ UNCHANGED conns
  /\ UNCHANGED <<cliList, appContext, videoTimers, client>>

InfoDelivers(c) == \/ InfoClassify(c) \/ InfoMnClassification(c)
                   \/ InfoUnregister(c) \/ InfoPeerClosed(c)
=============================================================================
