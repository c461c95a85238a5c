----------------------- MODULE AccessSelection_proofs -----------------------
(***************************************************************************)
(* Proofs about DDEClient: the tables of the servers point to open         *)
(* connections, a client that closes its connections meets no error, and a *)
(* video is promised to it once.                                           *)
(*                                                                         *)
(* Proofs about DDELoadBalancer, whose rounds decide which clients are to  *)
(* move: the moves of a round fit and help, nobody that could move is left *)
(* behind or overtaken, and the action that is judged is the one that was  *)
(* realised.                                                               *)
(***************************************************************************)
EXTENDS DDEClient, DDELoadBalancer, FiniteSetTheorems, SequenceTheorems, WellFoundedInduction, TLAPS

(* The types of the state *)

APOrNone == AccessPoints \cup {NoAP}
ThreadIds == ConnIds \cup {0}

ClientMsgs == [t : {"classify", "request", "unregister", "FIN"}]
                \cup [t : {"videoRequest"}, remaining : Nat]
                \cup [t : {"mn"}, assocAP : APOrNone]
ServerMsgs == [t : {"apClass", "infoClass", "reply", "video", "FIN"}]
                \cup [t : {"ho"}, ssid : AccessPoints]

Conn == [kind : {"ap", "info"}, ap : APOrNone,
         cli : {"free", "connecting", "connected", "locallyClosed", "closed"},
         srv : {"none", "connected", "closed"},
         out : Seq(ClientMsgs), in : Seq(ServerMsgs), timestep : {0, 1}]

TypeInv ==
  /\ conns \in [ConnIds -> Conn]
  /\ config \in Configs
  /\ {link, associating, apInitTimer} \subseteq APOrNone
  /\ apThread \in ThreadIds /\ infoThread \in ThreadIds
  /\ cliList \in [AccessPoints -> ThreadIds]
  /\ client \in [assocAP : APOrNone, thread : ThreadIds]
  /\ videoTimers \subseteq ConnIds /\ appContext \in [ConnIds -> Nat]
  /\ downloaded \in 0 .. FileSize /\ (downloadComplete <=> downloaded = FileSize)

(* The life of a connection: at most one FIN each way, as the last message. *)

Types(s) == {s[j].t : j \in DOMAIN s}
FinIsLast(s) == \A j \in DOMAIN s : s[j].t = "FIN" => j = Len(s)

FromAP == {"apClass", "reply", "video", "FIN"}
FromInfo == {"infoClass", "ho", "FIN"}

Opened(C) ==
  /\ C.cli = "connecting" => C.srv = "none"
  /\ C.cli = "connected" => C.srv = "connected"
  /\ C.srv = "none" => C.in = <<>> /\ C.cli \in {"free", "connecting"}
  /\ C.kind = "ap" => C.ap \in AccessPoints

Ended(C) ==
  /\ FinIsLast(C.out) /\ FinIsLast(C.in)
  /\ C.srv = "closed" => C.out = <<>> /\ C.cli \in {"locallyClosed", "closed"}
  /\ C.cli = "closed" => C.in = <<>> /\ C.srv = "closed"
  /\ "FIN" \in Types(C.out) <=> C.cli = "locallyClosed" /\ C.srv = "connected"
  /\ "FIN" \in Types(C.in) <=> C.cli = "locallyClosed" /\ C.srv = "closed"

Carried(C) ==
  IF C.kind = "ap" THEN Types(C.in) \subseteq FromAP
  ELSE Types(C.in) \subseteq FromInfo /\ "videoRequest" \notin Types(C.out)

ConnOK(C) == C = FreeConn \/ (C.cli # "free" /\ Opened(C) /\ Ended(C) /\ Carried(C))

\* What a configuration excludes.
ModeOK(C) ==
  /\ config.app = "video" => "request" \notin Types(C.out) /\ "reply" \notin Types(C.in)
  /\ config.closeTcp => /\ "unregister" \notin Types(C.out)
                        /\ C.kind = "ap" /\ C.srv = "none" => C.out = <<>>

ConnInv == \A c \in ConnIds : ConnOK(conns[c]) /\ ModeOK(conns[c])

(* What is scheduled for the present moment *)

InfoInit == InitMsg("info", NoAP)
SelfForm ==
  \/ selfQ = <<>> \/ selfQ = <<InfoInit>>
  \/ \E a \in AccessPoints : selfQ = <<InitMsg("ap", a), InfoInit>>
  \/ \E e \in {"infoClose", "infoClassify", "mnClassify"} : selfQ = <<SelfMsg(e)>>
  \/ selfQ = <<SelfMsg("mnClassify"), SelfMsg("infoClassify")>>
  \/ selfQ = <<SelfMsg(IF config.closeTcp THEN "closeAp" ELSE "unregisterAp")>>
  \/ \E c \in ConnIds : conns[c].cli = "closed" /\ selfQ = <<[t |-> "remove", c |-> c]>>

Due(event) == selfQ # <<>> /\ selfQ[1].t = event

(* The tables of the servers *)

EntryInv ==
  /\ \A a \in AccessPoints : cliList[a] # 0 =>
       conns[cliList[a]].kind = "ap" /\ conns[cliList[a]].ap = a /\ conns[cliList[a]].srv = "connected"
  /\ client.thread # 0 => conns[client.thread].kind = "info" /\ conns[client.thread].srv = "connected"
  /\ config.closeTcp => \A c \in ConnIds :
       (conns[c].kind = "ap" /\ conns[c].srv = "connected") => cliList[conns[c].ap] = c

(* A session of a client that closes its connections before a handover *)

OpenTo(kind) == {c \in SocketMap : conns[c].kind = kind}
InfoOpen == infoThread # 0 /\ conns[infoThread].kind = "info"
              /\ conns[infoThread].cli \in {"connecting", "connected"}

\* The thread of a server is its only connection, and goes to the present access point.
OneThread ==
  \A c \in SocketMap : IF conns[c].kind = "ap" THEN c = apThread /\ conns[c].ap = link
                                               ELSE c = infoThread
\* The radio moves between sessions only.
Moving ==
  (associating # NoAP \/ assocTimers # {}) =>
    /\ SocketMap = {} /\ selfQ = <<>> /\ apInitTimer = NoAP
    /\ associating # NoAP => assocTimers = {}
    /\ assocTimers \subseteq {newSSID}
\* A session begins with the two connections, the first time with a delay between them.
Beginning ==
  /\ Due("init") => /\ OpenTo("info") = {} /\ \A c \in OpenTo("ap") : conns[c].cli = "connecting"
                    /\ selfQ[1].kind = "ap" => /\ SocketMap = {} /\ apInitTimer = NoAP
                                               /\ selfQ[1].ap = link
  /\ apInitTimer # NoAP => /\ apInitTimer = link /\ OpenTo("ap") = {}
                           /\ InfoOpen \/ Due("init")
\* The client knows its access point and both threads.
Met == /\ link \in apList /\ apThread # 0 /\ infoThread # 0 /\ apInitTimer = NoAP
       /\ \A c \in OpenTo("ap") : conns[c].cli # "connecting"
\* All this follows an answer of the access point.
UnderWay ==
  \/ \E c \in OpenTo("ap") : conns[c].cli # "connecting"
  \/ \E c \in OpenTo("info") : \/ conns[c].in # <<>> \/ conns[c].out # <<>>
                               \/ conns[c].cli \in {"locallyClosed", "closed"}
  \/ client.thread # 0
  \/ selfQ # <<>> /\ selfQ[1].t # "init"
\* The information server can be told as long as the access point is heard.
Heard ==
  /\ \A c \in OpenTo("ap") : conns[c].cli = "connecting" => InfoOpen \/ Due("init")
  /\ \A c \in OpenTo("ap") : (conns[c].cli = "connected" /\ ~downloadComplete) => InfoOpen \/ Due("closeAp")
  /\ Due("mnClassify") => InfoOpen
  /\ Due("infoClose") => downloadComplete

SessionInv ==
  /\ OneThread /\ Moving /\ Beginning /\ Heard
  /\ UnderWay => Met

(* The promises of a video *)

\* A video timer belongs to a connection of an access point.
TimerInv == \A c \in videoTimers : conns[c].cli # "free" => conns[c].kind = "ap" /\ conns[c].srv # "none"

VideoInv ==
  config.app = "video" /\ ~downloadComplete => \A c \in ConnIds : downloaded + Promised(c) <= FileSize

Inv == /\ TypeInv /\ ConnInv /\ SelfForm /\ EntryInv /\ TimerInv
       /\ config.closeTcp => SessionInv /\ VideoInv
       /\ NoUnexpectedError

----------------------------------------------------------------------------
(* Streams *)

LEMMA ConstantFacts ==
  /\ ConnIds \subseteq Nat /\ 0 \notin ConnIds
  /\ NoAP \notin AccessPoints
  /\ FileSize \in Nat /\ Burst \in Nat /\ FileSize > 0 /\ Burst > 0
BY MaxConnsAssumption, AccessPointsAssumption, ClientAssumption DEF ConnIds

LEMMA Joined ==
  ASSUME NEW S, NEW s \in Seq(S), NEW t \in Seq(S)
  PROVE  /\ s \o t \in Seq(S)
         /\ Types(s \o t) = Types(s) \cup Types(t)
         /\ "FIN" \notin Types(s) /\ FinIsLast(t) => FinIsLast(s \o t)
<1>1. s \o t \in Seq(S) /\ Len(s \o t) = Len(s) + Len(t)
  OBVIOUS
<1>2. /\ DOMAIN s = 1 .. Len(s) /\ DOMAIN t = 1 .. Len(t) /\ Len(s) \in Nat /\ Len(t) \in Nat
      /\ DOMAIN (s \o t) = 1 .. Len(s) + Len(t)
  BY <1>1
<1>3. \A j \in 1 .. Len(s) + Len(t) : (s \o t)[j] = IF j <= Len(s) THEN s[j] ELSE t[j - Len(s)]
  BY <1>2
<1>4. Types(s \o t) \subseteq Types(s) \cup Types(t)
  BY <1>2, <1>3 DEF Types
<1>5. Types(s) \subseteq Types(s \o t)
  BY <1>2, <1>3 DEF Types
<1>6. Types(t) \subseteq Types(s \o t)
  <2> SUFFICES ASSUME NEW j \in DOMAIN t PROVE t[j].t \in Types(s \o t)
    BY DEF Types
  <2>1. j + Len(s) \in DOMAIN (s \o t) /\ (s \o t)[j + Len(s)] = t[j]
    BY <1>2, <1>3
  <2> QED BY <2>1 DEF Types
<1>7. ASSUME "FIN" \notin Types(s), FinIsLast(t) PROVE FinIsLast(s \o t)
  BY <1>1, <1>2, <1>3, <1>7 DEF Types, FinIsLast
<1> QED BY <1>1, <1>4, <1>5, <1>6, <1>7

LEMMA Short ==
  /\ Types(<<>>) = {} /\ FinIsLast(<<>>)
  /\ \A g : Types(<<g>>) = {g.t} /\ FinIsLast(<<g>>)
  /\ \A g, n : Types(<<g, n>>) = {g.t, n.t}
BY DEF Types, FinIsLast

LEMMA HeadAndTail ==
  ASSUME NEW S, NEW s \in Seq(S), s # <<>>
  PROVE  /\ Head(s) \in S /\ Head(s) = s[1] /\ Tail(s) \in Seq(S) /\ Len(Tail(s)) = Len(s) - 1
         /\ \A j \in 1 .. Len(s) - 1 : Tail(s)[j] = s[j + 1]
         /\ Types(s) = {Head(s).t} \cup Types(Tail(s))
<1>1. /\ Head(s) \in S /\ Head(s) = s[1] /\ Tail(s) \in Seq(S) /\ Len(Tail(s)) = Len(s) - 1
      /\ Len(s) \in Nat /\ Len(s) # 0 /\ DOMAIN s = 1 .. Len(s) /\ DOMAIN Tail(s) = 1 .. Len(s) - 1
  OBVIOUS
<1>2. \A j \in 1 .. Len(s) - 1 : Tail(s)[j] = s[j + 1]
  OBVIOUS
<1>3. Types(Tail(s)) \subseteq Types(s) /\ Head(s).t \in Types(s)
  BY <1>1, <1>2 DEF Types
<1>4. Types(s) \subseteq {Head(s).t} \cup Types(Tail(s))
  <2> SUFFICES ASSUME NEW j \in DOMAIN s PROVE s[j].t \in {Head(s).t} \cup Types(Tail(s))
    BY DEF Types
  <2>1. CASE j = 1
    BY <2>1, <1>1
  <2>2. CASE j # 1
    <3>1. j - 1 \in DOMAIN Tail(s) /\ Tail(s)[j - 1] = s[j]
      BY <2>2, <1>1, <1>2
    <3> QED BY <3>1 DEF Types
  <2> QED BY <2>1, <2>2
<1> QED BY <1>1, <1>2, <1>3, <1>4

LEMMA TailOfFin ==
  ASSUME NEW S, NEW s \in Seq(S), s # <<>>, FinIsLast(s)
  PROVE  /\ FinIsLast(Tail(s))
         /\ Head(s).t = "FIN" => Tail(s) = <<>>
<1>1. /\ Head(s) = s[1] /\ Tail(s) \in Seq(S) /\ Len(Tail(s)) = Len(s) - 1
      /\ Len(s) \in Nat /\ Len(s) # 0 /\ DOMAIN s = 1 .. Len(s) /\ DOMAIN Tail(s) = 1 .. Len(s) - 1
      /\ \A j \in 1 .. Len(s) - 1 : Tail(s)[j] = s[j + 1]
  OBVIOUS
<1>2. FinIsLast(Tail(s))
  BY <1>1 DEF FinIsLast
<1>3. Head(s).t = "FIN" => Len(s) = 1
  BY <1>1 DEF FinIsLast
<1>4. Head(s).t = "FIN" => Tail(s) = <<>>
  BY <1>1, <1>3, EmptySeq
<1> QED BY <1>2, <1>4

----------------------------------------------------------------------------
(* What happens to a connection *)

LEMMA FreeConnFields ==
  /\ FreeConn \in Conn /\ FreeConn.cli = "free" /\ FreeConn.srv = "none" /\ FreeConn.kind = "ap"
  /\ FreeConn.out = <<>> /\ FreeConn.in = <<>> /\ FreeConn.ap = NoAP
BY DEF FreeConn, Conn, APOrNone

LEMMA Messages ==
  /\ Msg("FIN") \in ClientMsgs /\ Msg("FIN") \in ServerMsgs /\ Msg("FIN").t = "FIN"
  /\ \A g \in ClientMsgs : /\ g.t = "videoRequest" => g.remaining \in Nat
                           /\ g.t = "mn" => g.assocAP \in APOrNone
  /\ \A g \in ServerMsgs : g.t = "ho" => g.ssid \in AccessPoints
BY DEF ClientMsgs, ServerMsgs, Msg

LEMMA SendOK ==
  ASSUME NEW C \in Conn, ConnOK(C), C.cli \in {"connecting", "connected"},
         NEW ms \in Seq(ClientMsgs), "FIN" \notin Types(ms),
         C.kind = "info" => "videoRequest" \notin Types(ms)
  PROVE  /\ SentByClient(C, ms) \in Conn /\ ConnOK(SentByClient(C, ms))
         /\ SentByClient(C, ms) = [C EXCEPT !.out = C.out \o ms]
<1> DEFINE o == C.out \o ms
           D == [C EXCEPT !.out = o]
<1>1. SentByClient(C, ms) = D
  BY DEF SentByClient
<1>2. /\ C.out \in Seq(ClientMsgs) /\ C.in \in Seq(ServerMsgs)
      /\ C.cli # "free" /\ C.srv \in {"none", "connected"} /\ Opened(C) /\ Ended(C) /\ Carried(C)
  BY FreeConnFields DEF ConnOK, Conn, Opened, Ended
<1>3. "FIN" \notin Types(C.out)
  BY <1>2 DEF Ended
<1>4. o \in Seq(ClientMsgs) /\ Types(o) = Types(C.out) \cup Types(ms)
  BY <1>2, Joined
<1>5. FinIsLast(o)
  <2>1. FinIsLast(ms)
    BY DEF FinIsLast, Types
  <2> QED BY <1>2, <1>3, <2>1, Joined
<1> HIDE DEF o
<1>6. /\ D \in Conn /\ D.kind = C.kind /\ D.ap = C.ap /\ D.cli = C.cli /\ D.srv = C.srv
      /\ D.out = o /\ D.in = C.in
  BY <1>4 DEF Conn
<1> HIDE DEF D
<1>7. Opened(D) /\ Ended(D) /\ Carried(D)
  <2>1. Opened(D)
    BY <1>2, <1>6 DEF Opened
  <2>2. Ended(D)
    BY <1>2, <1>3, <1>4, <1>5, <1>6 DEF Ended
  <2>3. Carried(D)
    BY <1>2, <1>4, <1>6 DEF Carried, Conn
  <2> QED BY <2>1, <2>2, <2>3
<1> QED BY <1>1, <1>2, <1>6, <1>7 DEF ConnOK, D, o

LEMMA CloseOK ==
  ASSUME NEW C \in Conn, ConnOK(C), C.cli = "connected"
  PROVE  /\ ClosedByClient(C) \in Conn /\ ConnOK(ClosedByClient(C))
         /\ ClosedByClient(C) = [C EXCEPT !.cli = "locallyClosed", !.out = Append(C.out, Fin)]
         /\ CallClosed(C) = ClosedByClient(C)
<1> DEFINE f == <<Fin>>
           o == C.out \o f
           D == [C EXCEPT !.cli = "locallyClosed", !.out = o]
<1>2. /\ C.out \in Seq(ClientMsgs) /\ C.in \in Seq(ServerMsgs)
      /\ C.cli # "free" /\ C.srv = "connected" /\ Opened(C) /\ Ended(C) /\ Carried(C)
  BY FreeConnFields DEF ConnOK, Conn, Opened, Ended
<1>3. "FIN" \notin Types(C.out) /\ "FIN" \notin Types(C.in)
  BY <1>2 DEF Ended
<1>4. f \in Seq(ClientMsgs) /\ Types(f) = {"FIN"} /\ FinIsLast(f)
  BY Messages, Short DEF Fin
<1>5. o = Append(C.out, Fin)
  BY <1>2, Messages, AppendIsConcat DEF Fin
<1>1. ClosedByClient(C) = D /\ CallClosed(C) = D
  BY <1>5 DEF ClosedByClient, CallClosed
<1> HIDE DEF f
<1>6. o \in Seq(ClientMsgs) /\ Types(o) = Types(C.out) \cup {"FIN"} /\ FinIsLast(o)
  BY <1>2, <1>3, <1>4, Joined
<1> HIDE DEF o
<1>7. /\ D \in Conn /\ D.kind = C.kind /\ D.ap = C.ap /\ D.cli = "locallyClosed" /\ D.srv = "connected"
      /\ D.out = o /\ D.in = C.in
  BY <1>2, <1>6 DEF Conn
<1> HIDE DEF D
<1>8. Opened(D) /\ Ended(D) /\ Carried(D)
  <2>1. Opened(D)
    BY <1>2, <1>7 DEF Opened
  <2>2. Ended(D)
    BY <1>2, <1>3, <1>6, <1>7 DEF Ended
  <2>3. Carried(D)
    BY <1>2, <1>6, <1>7 DEF Carried, Conn
  <2> QED BY <2>1, <2>2, <2>3
<1> QED BY <1>1, <1>2, <1>5, <1>7, <1>8 DEF ConnOK, D

LEMMA ReceiveOK ==
  ASSUME NEW C \in Conn, ConnOK(C), C.in # <<>>, Head(C.in).t # "FIN"
  PROVE  /\ Received(C) \in Conn /\ ConnOK(Received(C))
         /\ Received(C) = [C EXCEPT !.in = Tail(C.in)]
         /\ C.cli \in {"connected", "locallyClosed"}
<1> DEFINE j == Tail(C.in)
           D == [C EXCEPT !.in = j]
<1>1. Received(C) = D
  BY DEF Received
<1>2. /\ C.out \in Seq(ClientMsgs) /\ C.in \in Seq(ServerMsgs)
      /\ C.cli # "free" /\ C.srv # "none" /\ C.cli # "closed" /\ Opened(C) /\ Ended(C) /\ Carried(C)
  BY FreeConnFields DEF ConnOK, Conn, Opened, Ended
<1>3. C.cli \in {"connected", "locallyClosed"}
  BY <1>2 DEF Conn, Opened
<1>4. j \in Seq(ServerMsgs) /\ Types(C.in) = {Head(C.in).t} \cup Types(j)
  BY <1>2, HeadAndTail
<1>5. FinIsLast(j)
  BY <1>2, TailOfFin DEF Ended
<1> HIDE DEF j
<1>7. /\ D \in Conn /\ D.kind = C.kind /\ D.ap = C.ap /\ D.cli = C.cli /\ D.srv = C.srv
      /\ D.out = C.out /\ D.in = j
  BY <1>2, <1>4 DEF Conn
<1> HIDE DEF D
<1>8. Opened(D) /\ Ended(D) /\ Carried(D)
  <2>1. Opened(D)
    BY <1>2, <1>7 DEF Opened
  <2>2. Ended(D)
    BY <1>2, <1>4, <1>5, <1>7 DEF Ended
  <2>3. Carried(D)
    BY <1>2, <1>4, <1>7 DEF Carried, Conn
  <2> QED BY <2>1, <2>2, <2>3
<1> QED BY <1>1, <1>2, <1>3, <1>7, <1>8 DEF ConnOK, D, j

LEMMA ReceiveFinOK ==
  ASSUME NEW C \in Conn, ConnOK(C), C.in # <<>>, Head(C.in).t = "FIN", C.cli = "locallyClosed"
  PROVE  LET D == [Received(C) EXCEPT !.cli = "closed"]
         IN  /\ D \in Conn /\ ConnOK(D)
             /\ D = [C EXCEPT !.cli = "closed", !.in = <<>>]
             /\ C.srv = "closed" /\ C.out = <<>>
<1> DEFINE D == [C EXCEPT !.cli = "closed", !.in = <<>>]
<1>2. /\ C.out \in Seq(ClientMsgs) /\ C.in \in Seq(ServerMsgs)
      /\ C.cli # "free" /\ Opened(C) /\ Ended(C) /\ Carried(C)
  BY FreeConnFields DEF ConnOK, Conn, Opened, Ended
<1>3. "FIN" \in Types(C.in)
  BY <1>2, HeadAndTail
<1>4. C.srv = "closed" /\ C.out = <<>>
  BY <1>2, <1>3 DEF Ended
<1>5. Tail(C.in) = <<>>
  BY <1>2, TailOfFin DEF Ended
<1>1. [Received(C) EXCEPT !.cli = "closed"] = D
  BY <1>5 DEF Received, Conn
<1>6. <<>> \in Seq(ServerMsgs)
  OBVIOUS
<1>7. /\ D \in Conn /\ D.kind = C.kind /\ D.ap = C.ap /\ D.cli = "closed" /\ D.srv = "closed"
      /\ D.out = <<>> /\ D.in = <<>>
  BY <1>4, <1>6 DEF Conn
<1> HIDE DEF D
<1>8. Opened(D) /\ Ended(D) /\ Carried(D)
  <2>1. Opened(D)
    BY <1>2, <1>7 DEF Opened
  <2>2. Ended(D)
    BY <1>7, Short DEF Ended
  <2>3. Carried(D)
    BY <1>7, Short DEF Carried
  <2> QED BY <2>1, <2>2, <2>3
<1> QED BY <1>1, <1>4, <1>7, <1>8 DEF ConnOK, D

LEMMA TakeOK ==
  ASSUME NEW C \in Conn, ConnOK(C), C.out # <<>>, C.srv # "none", Head(C.out).t # "FIN"
  PROVE  /\ Taken(C) \in Conn /\ ConnOK(Taken(C))
         /\ Taken(C) = [C EXCEPT !.out = Tail(C.out)]
         /\ C.srv = "connected" /\ C.cli \in {"connected", "locallyClosed"}
<1> DEFINE o == Tail(C.out)
           D == [C EXCEPT !.out = o]
<1>1. Taken(C) = D
  BY DEF Taken
<1>2. /\ C.out \in Seq(ClientMsgs) /\ C.in \in Seq(ServerMsgs)
      /\ C.cli # "free" /\ C.srv = "connected" /\ Opened(C) /\ Ended(C) /\ Carried(C)
  BY FreeConnFields DEF ConnOK, Conn, Opened, Ended
<1>3. C.cli \in {"connected", "locallyClosed"}
  BY <1>2 DEF Conn, Opened, Ended
<1>4. o \in Seq(ClientMsgs) /\ Types(C.out) = {Head(C.out).t} \cup Types(o)
  BY <1>2, HeadAndTail
<1>5. FinIsLast(o)
  BY <1>2, TailOfFin DEF Ended
<1> HIDE DEF o
<1>7. /\ D \in Conn /\ D.kind = C.kind /\ D.ap = C.ap /\ D.cli = C.cli /\ D.srv = C.srv
      /\ D.out = o /\ D.in = C.in
  BY <1>2, <1>4 DEF Conn
<1> HIDE DEF D
<1>8. Opened(D) /\ Ended(D) /\ Carried(D)
  <2>1. Opened(D)
    BY <1>2, <1>7 DEF Opened
  <2>2. Ended(D)
    BY <1>2, <1>4, <1>5, <1>7 DEF Ended
  <2>3. Carried(D)
    BY <1>2, <1>4, <1>7 DEF Carried, Conn
  <2> QED BY <2>1, <2>2, <2>3
<1> QED BY <1>1, <1>2, <1>3, <1>7, <1>8 DEF ConnOK, D, o

LEMMA ServerSendOK ==
  ASSUME NEW C \in Conn, ConnOK(C), C.srv = "connected",
         NEW ms \in Seq(ServerMsgs), "FIN" \notin Types(ms),
         Types(ms) \subseteq IF C.kind = "ap" THEN FromAP ELSE FromInfo
  PROVE  /\ SentByServer(C, ms) \in Conn /\ ConnOK(SentByServer(C, ms))
         /\ SentByServer(C, ms) = [C EXCEPT !.in = C.in \o ms]
         /\ Types(C.in \o ms) = Types(C.in) \cup Types(ms)
<1> DEFINE j == C.in \o ms
           D == [C EXCEPT !.in = j]
<1>1. SentByServer(C, ms) = D
  BY DEF SentByServer
<1>2. /\ C.out \in Seq(ClientMsgs) /\ C.in \in Seq(ServerMsgs)
      /\ C.cli # "free" /\ Opened(C) /\ Ended(C) /\ Carried(C)
  BY FreeConnFields DEF ConnOK, Conn, Opened, Ended
<1>3. "FIN" \notin Types(C.in) /\ C.cli # "closed"
  BY <1>2 DEF Ended
<1>4. j \in Seq(ServerMsgs) /\ Types(j) = Types(C.in) \cup Types(ms)
  BY <1>2, Joined
<1>5. FinIsLast(j)
  <2>1. FinIsLast(ms)
    BY DEF FinIsLast, Types
  <2> QED BY <1>2, <1>3, <2>1, Joined
<1> HIDE DEF j
<1>6. /\ D \in Conn /\ D.kind = C.kind /\ D.ap = C.ap /\ D.cli = C.cli /\ D.srv = C.srv
      /\ D.out = C.out /\ D.in = j
  BY <1>4 DEF Conn
<1> HIDE DEF D
<1>7. Opened(D) /\ Ended(D) /\ Carried(D)
  <2>1. Opened(D)
    BY <1>2, <1>6 DEF Opened
  <2>2. Ended(D)
    BY <1>2, <1>3, <1>4, <1>5, <1>6 DEF Ended
  <2>3. Carried(D)
    BY <1>2, <1>4, <1>6 DEF Carried, Conn
  <2> QED BY <2>1, <2>2, <2>3
<1> QED BY <1>1, <1>2, <1>4, <1>6, <1>7 DEF ConnOK, D, j

LEMMA ServerCloseOK ==
  ASSUME NEW C \in Conn, ConnOK(C), C.out # <<>>, C.srv # "none", Head(C.out).t = "FIN"
  PROVE  LET D == [SentByServer(Taken(C), <<Fin>>) EXCEPT !.srv = "closed"]
         IN  /\ D \in Conn /\ ConnOK(D)
             /\ D = [C EXCEPT !.out = <<>>, !.in = C.in \o <<Fin>>, !.srv = "closed"]
             /\ Types(D.in) = Types(C.in) \cup {"FIN"}
             /\ C.srv = "connected" /\ C.cli = "locallyClosed"
<1> DEFINE f == <<Fin>>
           j == C.in \o f
           D == [C EXCEPT !.out = <<>>, !.in = j, !.srv = "closed"]
<1>2. /\ C.out \in Seq(ClientMsgs) /\ C.in \in Seq(ServerMsgs)
      /\ C.cli # "free" /\ C.srv = "connected" /\ Opened(C) /\ Ended(C) /\ Carried(C)
  BY FreeConnFields DEF ConnOK, Conn, Opened, Ended
<1>3. "FIN" \in Types(C.out)
  BY <1>2, HeadAndTail
<1>4. C.cli = "locallyClosed" /\ "FIN" \notin Types(C.in)
  BY <1>2, <1>3 DEF Ended
<1>5. Tail(C.out) = <<>>
  BY <1>2, TailOfFin DEF Ended
<1>6. f \in Seq(ServerMsgs) /\ Types(f) = {"FIN"} /\ FinIsLast(f)
  BY Messages, Short DEF Fin
<1>1. [SentByServer(Taken(C), <<Fin>>) EXCEPT !.srv = "closed"] = D
  BY <1>5 DEF SentByServer, Taken, Conn
<1> HIDE DEF f
<1>7. j \in Seq(ServerMsgs) /\ Types(j) = Types(C.in) \cup {"FIN"} /\ FinIsLast(j)
  BY <1>2, <1>4, <1>6, Joined
<1> HIDE DEF j
<1>8. <<>> \in Seq(ClientMsgs)
  OBVIOUS
<1>9. /\ D \in Conn /\ D.kind = C.kind /\ D.ap = C.ap /\ D.cli = C.cli /\ D.srv = "closed"
      /\ D.out = <<>> /\ D.in = j
  BY <1>7, <1>8 DEF Conn
<1> HIDE DEF D
<1>10. Opened(D) /\ Ended(D) /\ Carried(D)
  <2>1. Opened(D)
    BY <1>2, <1>4, <1>9 DEF Opened
  <2>2. Ended(D)
    BY <1>2, <1>4, <1>7, <1>9, Short DEF Ended
  <2>3. Carried(D)
    BY <1>2, <1>7, <1>9, Short DEF Carried, Conn, FromAP, FromInfo
  <2> QED BY <2>1, <2>2, <2>3
<1>11. ConnOK(D)
  BY <1>2, <1>9, <1>10 DEF ConnOK
<1>12. D = [C EXCEPT !.out = <<>>, !.in = C.in \o <<Fin>>, !.srv = "closed"]
  BY DEF D, j, f
<1> QED BY <1>1, <1>2, <1>4, <1>7, <1>9, <1>11, <1>12

LEMMA EstablishOK ==
  ASSUME NEW C \in Conn, ConnOK(C), C.cli = "connecting"
  PROVE  LET D == [C EXCEPT !.cli = "connected", !.srv = "connected"]
         IN  D \in Conn /\ ConnOK(D) /\ C.srv = "none" /\ C.in = <<>>
<1> DEFINE D == [C EXCEPT !.cli = "connected", !.srv = "connected"]
<1>1. C.srv = "none" /\ C.in = <<>> /\ Opened(C) /\ Ended(C) /\ Carried(C)
  BY FreeConnFields DEF ConnOK, Opened, Ended
<1>2. D \in Conn /\ D.kind = C.kind /\ D.ap = C.ap /\ D.cli = "connected" /\ D.srv = "connected"
      /\ D.out = C.out /\ D.in = <<>>
  BY <1>1 DEF Conn
<1> HIDE DEF D
<1>3. Opened(D)
  BY <1>1, <1>2 DEF Opened
<1>4. Ended(D)
  BY <1>1, <1>2, Short DEF Ended
<1>5. Carried(D)
  BY <1>1, <1>2, Short DEF Carried
<1>6. ConnOK(D)
  BY <1>2, <1>3, <1>4, <1>5 DEF ConnOK
<1> QED BY <1>1, <1>2, <1>6 DEF D

LEMMA TimestepOK ==
  ASSUME NEW C \in Conn, ConnOK(C), C.cli # "free", NEW n \in {0, 1}
  PROVE  LET D == [C EXCEPT !.timestep = n] IN D \in Conn /\ ConnOK(D)
<1> DEFINE D == [C EXCEPT !.timestep = n]
<1>1. /\ D \in Conn /\ D.kind = C.kind /\ D.ap = C.ap /\ D.cli = C.cli /\ D.srv = C.srv
      /\ D.out = C.out /\ D.in = C.in
  BY DEF Conn
<1>2. Opened(C) /\ Ended(C) /\ Carried(C)
  BY FreeConnFields DEF ConnOK
<1> HIDE DEF D
<1>3. Opened(D) /\ Ended(D) /\ Carried(D)
  BY <1>1, <1>2 DEF Opened, Ended, Carried
<1> QED BY <1>1, <1>3 DEF ConnOK, D

LEMMA ConnectingOK ==
  ASSUME NEW k \in {"ap", "info"}, NEW a \in APOrNone, k = "ap" => a \in AccessPoints
  PROVE  /\ Connecting(k, a) \in Conn /\ ConnOK(Connecting(k, a)) /\ ModeOK(Connecting(k, a))
         /\ Connecting(k, a).kind = k /\ Connecting(k, a).ap = a
         /\ Connecting(k, a).cli = "connecting" /\ Connecting(k, a).srv = "none"
         /\ Connecting(k, a).out = <<>> /\ Connecting(k, a).in = <<>>
<1> DEFINE D == Connecting(k, a)
<1>1. <<>> \in Seq(ClientMsgs) /\ <<>> \in Seq(ServerMsgs)
  OBVIOUS
<1>2. /\ D \in Conn /\ D.kind = k /\ D.ap = a /\ D.cli = "connecting" /\ D.srv = "none"
      /\ D.out = <<>> /\ D.in = <<>>
  BY <1>1 DEF Connecting, FreeConn, Conn
<1> HIDE DEF D
<1>3. Opened(D)
  BY <1>2 DEF Opened
<1>4. Ended(D) /\ Carried(D) /\ ModeOK(D)
  BY <1>2, Short DEF Ended, Carried, ModeOK
<1> QED BY <1>2, <1>3, <1>4 DEF ConnOK, D

LEMMA ModeKept ==
  ASSUME NEW C \in Conn, NEW D \in Conn, ModeOK(C), D.kind = C.kind,
         NEW X, Types(D.out) \subseteq Types(C.out) \cup X,
         NEW Y, Types(D.in) \subseteq Types(C.in) \cup Y,
         config.app = "video" => "request" \notin X /\ "reply" \notin Y,
         config.closeTcp => "unregister" \notin X,
         config.closeTcp /\ D.kind = "ap" /\ D.srv = "none" => D.out = <<>>
  PROVE  ModeOK(D)
BY DEF ModeOK

----------------------------------------------------------------------------
(* Steps of the servers *)

\* A connection is replaced.
Put(c, D) == /\ D \in Conn /\ ConnOK(D) /\ ModeOK(D)
             /\ conns' = [conns EXCEPT ![c] = D] /\ UNCHANGED config

LEMMA PutOK ==
  ASSUME TypeInv, ConnInv, NEW c \in ConnIds, NEW D, Put(c, D)
  PROVE  /\ conns' \in [ConnIds -> Conn] /\ ConnInv'
         /\ conns'[c] = D /\ \A d \in ConnIds \ {c} : conns'[d] = conns[d]
<1>1. /\ conns' \in [ConnIds -> Conn]
      /\ conns'[c] = D /\ \A d \in ConnIds \ {c} : conns'[d] = conns[d]
  BY DEF TypeInv, Put
<1>2. ConnInv'
  BY <1>1 DEF ConnInv, ModeOK, Put
<1> QED BY <1>1, <1>2

\* The ends of the client are the same.
SameEnds(C, D) == D.kind = C.kind /\ D.ap = C.ap /\ D.cli = C.cli

LEMMA ServerKeepsSession ==
  ASSUME Inv, config.closeTcp, UNCHANGED clientVars,
         \A d \in ConnIds : SameEnds(conns[d], conns'[d]),
         \A d \in ConnIds : (conns[d].kind = "info" /\ conns[d].cli # "free" /\ ~UnderWay) =>
                              conns'[d].in = <<>> /\ conns'[d].out = <<>>,
         client'.thread # 0 => UnderWay
  PROVE  SessionInv'
<1>1. /\ UNCHANGED <<config, link, associating, assocTimers, apInitTimer, selfQ, apThread, infoThread,
                     apList, newSSID, downloadComplete>>
      /\ UNCHANGED <<radio, selfQ, threads>>
  BY DEF clientVars, radio, threads, choice, play
<1>2. \A d \in ConnIds : conns'[d].kind = conns[d].kind /\ conns'[d].ap = conns[d].ap
                         /\ conns'[d].cli = conns[d].cli
  BY DEF SameEnds
<1>3. SocketMap' = SocketMap
  BY <1>2 DEF SocketMap, InUse
<1>4. OpenTo("ap")' = OpenTo("ap") /\ OpenTo("info")' = OpenTo("info")
      /\ SocketMap \subseteq ConnIds /\ OpenTo("ap") \subseteq ConnIds /\ OpenTo("info") \subseteq ConnIds
  BY <1>2, <1>3 DEF OpenTo, SocketMap
<1>5. infoThread # 0 => infoThread \in ConnIds
  BY DEF Inv, TypeInv, ThreadIds
<1>6. InfoOpen' <=> InfoOpen
  BY <1>1, <1>2, <1>5 DEF InfoOpen
<1>7. SessionInv
  BY DEF Inv
<1>8. OneThread'
  BY <1>1, <1>2, <1>3, <1>4, <1>7 DEF SessionInv, OneThread
<1>9. Moving'
  BY <1>1, <1>3, <1>7 DEF SessionInv, Moving
<1>10. Beginning'
  BY <1>1, <1>2, <1>3, <1>4, <1>6, <1>7 DEF SessionInv, Beginning, Due
<1>11. Heard'
  BY <1>1, <1>2, <1>4, <1>6, <1>7 DEF SessionInv, Heard, Due
<1>12. UnderWay' => UnderWay
  <2> SUFFICES ASSUME UnderWay', ~UnderWay PROVE FALSE
    OBVIOUS
  <2>1. \A c \in OpenTo("ap") : conns'[c].cli = "connecting"
    BY <1>2, <1>4 DEF UnderWay
  <2>2. \A c \in OpenTo("info") : /\ conns'[c].cli \notin {"locallyClosed", "closed"}
                                  /\ conns'[c].in = <<>> /\ conns'[c].out = <<>>
    BY <1>2, <1>4 DEF UnderWay, OpenTo, SocketMap, InUse
  <2>3. ~(selfQ # <<>> /\ selfQ[1].t # "init") /\ client'.thread = 0
    BY DEF UnderWay
  <2> QED BY <1>1, <1>4, <2>1, <2>2, <2>3 DEF UnderWay
<1>13. Met => Met'
  BY <1>1, <1>2, <1>4 DEF Met
<1> QED BY <1>7, <1>8, <1>9, <1>10, <1>11, <1>12, <1>13 DEF SessionInv

----------------------------------------------------------------------------
(* Counting the packets of a video *)

VideosIn(s) == {j \in DOMAIN s : s[j].t = "video"}
RequestsIn(s) == {j \in DOMAIN s : s[j].t = "videoRequest"}
RequestedIn(s) == UNION {{j} \X (1 .. s[j].remaining) : j \in RequestsIn(s)}

LEMMA Shifted ==
  ASSUME NEW S \in SUBSET Nat, IsFiniteSet(S), NEW k \in Nat
  PROVE  LET T == {j + k : j \in S} IN IsFiniteSet(T) /\ Cardinality(T) = Cardinality(S)
<1> DEFINE T == {j + k : j \in S}
           f == [j \in S |-> j + k]
<1>1. f \in Bijection(S, T)
  BY DEF Bijection, Injection, Surjection, IsInjective
<1>2. ExistsBijection(S, T)
  BY <1>1 DEF ExistsBijection
<1> QED BY <1>2, FS_Bijection

LEMMA VideosFinite ==
  ASSUME NEW s \in Seq(ServerMsgs)
  PROVE  /\ VideosIn(s) \in SUBSET Nat /\ IsFiniteSet(VideosIn(s)) /\ Cardinality(VideosIn(s)) \in Nat
         /\ "video" \notin Types(s) => Cardinality(VideosIn(s)) = 0
<1>1. VideosIn(s) \in SUBSET (1 .. Len(s)) /\ Len(s) \in Nat
  BY DEF VideosIn
<1>2. IsFiniteSet(1 .. Len(s))
  BY <1>1, FS_Interval
<1>3. IsFiniteSet(VideosIn(s))
  BY <1>1, <1>2, FS_Subset
<1>4. "video" \notin Types(s) => VideosIn(s) = {}
  BY DEF VideosIn, Types
<1> QED BY <1>1, <1>3, <1>4, FS_CardinalityType, FS_EmptySet

LEMMA VideosJoined ==
  ASSUME NEW s \in Seq(ServerMsgs), NEW t \in Seq(ServerMsgs)
  PROVE  Cardinality(VideosIn(s \o t)) = Cardinality(VideosIn(s)) + Cardinality(VideosIn(t))
<1> DEFINE T == {j + Len(s) : j \in VideosIn(t)}
<1>1. /\ DOMAIN s = 1 .. Len(s) /\ DOMAIN t = 1 .. Len(t) /\ Len(s) \in Nat /\ Len(t) \in Nat
      /\ s \o t \in Seq(ServerMsgs) /\ Len(s \o t) = Len(s) + Len(t)
      /\ DOMAIN (s \o t) = 1 .. Len(s) + Len(t)
  OBVIOUS
<1>2. \A j \in 1 .. Len(s) + Len(t) : (s \o t)[j] = IF j <= Len(s) THEN s[j] ELSE t[j - Len(s)]
  BY <1>1
<1>3. IsFiniteSet(T) /\ Cardinality(T) = Cardinality(VideosIn(t))
  BY <1>1, VideosFinite, Shifted
<1>4. VideosIn(s \o t) \subseteq VideosIn(s) \cup T
  <2> SUFFICES ASSUME NEW j \in VideosIn(s \o t), j \notin VideosIn(s) PROVE j \in T
    OBVIOUS
  <2>1. j - Len(s) \in VideosIn(t)
    BY <1>1, <1>2 DEF VideosIn
  <2>2. j = (j - Len(s)) + Len(s)
    BY <1>1 DEF VideosIn
  <2> QED BY <2>1, <2>2
<1>5. VideosIn(s) \subseteq VideosIn(s \o t)
  BY <1>1, <1>2 DEF VideosIn
<1>6. T \subseteq VideosIn(s \o t)
  BY <1>1, <1>2 DEF VideosIn
<1>7. VideosIn(s) \cap T = {}
  BY <1>1 DEF VideosIn
<1>8. VideosIn(s \o t) = VideosIn(s) \cup T
  BY <1>4, <1>5, <1>6
<1>9. IsFiniteSet(VideosIn(s)) /\ Cardinality(VideosIn(s)) \in Nat /\ Cardinality(VideosIn(t)) \in Nat
  BY VideosFinite
<1>10. Cardinality(VideosIn(s) \cup T) = Cardinality(VideosIn(s)) + Cardinality(T) - Cardinality(VideosIn(s) \cap T)
  BY <1>3, <1>9, FS_Union
<1>11. Cardinality(VideosIn(s) \cap T) = 0
  BY <1>7, FS_EmptySet
<1>12. Cardinality(VideosIn(s \o t)) = Cardinality(VideosIn(s) \cup T)
  BY <1>8
<1> HIDE DEF T
<1> QED BY <1>3, <1>9, <1>10, <1>11, <1>12

LEMMA PacketsCounted ==
  ASSUME NEW n \in Nat
  PROVE  /\ Packets(n) \in Seq(ServerMsgs) /\ Types(Packets(n)) \subseteq {"video"}
         /\ Cardinality(VideosIn(Packets(n))) = n
<1>1. Msg("video") \in ServerMsgs /\ Msg("video").t = "video"
  BY DEF Msg, ServerMsgs
<1>2. Packets(n) \in [1 .. n -> ServerMsgs]
  BY <1>1 DEF Packets
<1>3. Packets(n) \in Seq(ServerMsgs)
  BY <1>2
<1>4. VideosIn(Packets(n)) = 1 .. n /\ Types(Packets(n)) \subseteq {"video"}
  BY <1>1 DEF Packets, VideosIn, Types
<1>5. Cardinality(1 .. n) = n
  BY FS_Interval
<1> QED BY <1>3, <1>4, <1>5

LEMMA RequestedFinite ==
  ASSUME NEW s \in Seq(ClientMsgs)
  PROVE  /\ IsFiniteSet(RequestedIn(s)) /\ Cardinality(RequestedIn(s)) \in Nat
         /\ "videoRequest" \notin Types(s) => Cardinality(RequestedIn(s)) = 0
<1> DEFINE I == RequestsIn(s)
           f == [j \in I |-> {j} \X (1 .. s[j].remaining)]
           P == {{j} \X (1 .. s[j].remaining) : j \in I}
<1>1. I \in SUBSET (1 .. Len(s)) /\ Len(s) \in Nat
  BY DEF RequestsIn
<1>2. IsFiniteSet(I)
  <2>1. IsFiniteSet(1 .. Len(s))
    BY <1>1, FS_Interval
  <2> QED BY <1>1, <2>1, FS_Subset
<1>3. f \in Surjection(I, P)
  BY DEF Surjection
<1>4. IsFiniteSet(P)
  BY <1>2, <1>3, FS_Surjection
<1>5. \A j \in I : s[j].remaining \in Nat
  BY Messages DEF RequestsIn
<1>6. \A j \in I : IsFiniteSet({j} \X (1 .. s[j].remaining))
  <2> SUFFICES ASSUME NEW j \in I PROVE IsFiniteSet({j} \X (1 .. s[j].remaining))
    OBVIOUS
  <2>1. IsFiniteSet(1 .. s[j].remaining)
    <3>1. s[j].remaining \in Int /\ 1 \in Int
      BY <1>5
    <3> QED BY <3>1, FS_Interval
  <2>2. IsFiniteSet({j})
    BY FS_Singleton
  <2> QED BY <2>1, <2>2, FS_Product
<1>7. IsFiniteSet(UNION P)
  BY <1>4, <1>6, FS_UNION
<1>8. RequestedIn(s) = UNION P
  BY DEF RequestedIn
<1>9. "videoRequest" \notin Types(s) => RequestedIn(s) = {}
  BY DEF RequestedIn, RequestsIn, Types
<1> QED BY <1>7, <1>8, <1>9, FS_CardinalityType, FS_EmptySet

LEMMA RequestedJoined ==
  ASSUME NEW s \in Seq(ClientMsgs), NEW t \in Seq(ClientMsgs)
  PROVE  Cardinality(RequestedIn(s \o t)) = Cardinality(RequestedIn(s)) + Cardinality(RequestedIn(t))
<1> SUFFICES ASSUME NEW u, u = s \o t
             PROVE  Cardinality(RequestedIn(u)) = Cardinality(RequestedIn(s)) + Cardinality(RequestedIn(t))
  OBVIOUS
<1> DEFINE R == RequestedIn(t)
           f == [p \in R |-> <<p[1] + Len(s), p[2]>>]
           T == {<<p[1] + Len(s), p[2]>> : p \in R}
<1>1. /\ DOMAIN s = 1 .. Len(s) /\ DOMAIN t = 1 .. Len(t) /\ Len(s) \in Nat /\ Len(t) \in Nat
      /\ u \in Seq(ClientMsgs) /\ Len(u) = Len(s) + Len(t)
      /\ DOMAIN u = 1 .. Len(s) + Len(t)
  OBVIOUS
<1>2. \A j \in 1 .. Len(s) + Len(t) : u[j] = IF j <= Len(s) THEN s[j] ELSE t[j - Len(s)]
  BY <1>1
<1>3. \A w \in Seq(ClientMsgs) : \A p :
        p \in RequestedIn(w) <=> \E j \in 1 .. Len(w) : /\ w[j].t = "videoRequest"
                                                        /\ \E n \in 1 .. w[j].remaining : p = <<j, n>>
  <2> TAKE w \in Seq(ClientMsgs)
  <2>1. DOMAIN w = 1 .. Len(w)
    OBVIOUS
  <2>2. \A p : p \in RequestedIn(w) <=> \E j \in RequestsIn(w) : p \in {j} \X (1 .. w[j].remaining)
    BY DEF RequestedIn
  <2>3. \A j : j \in RequestsIn(w) <=> j \in 1 .. Len(w) /\ w[j].t = "videoRequest"
    BY <2>1 DEF RequestsIn
  <2>4. \A j, p : p \in {j} \X (1 .. w[j].remaining) <=> \E n \in 1 .. w[j].remaining : p = <<j, n>>
    OBVIOUS
  <2> SUFFICES ASSUME NEW p
               PROVE  p \in RequestedIn(w) <=> \E j \in 1 .. Len(w) :
                        w[j].t = "videoRequest" /\ \E n \in 1 .. w[j].remaining : p = <<j, n>>
    OBVIOUS
  <2>5. p \in RequestedIn(w) <=> \E j \in RequestsIn(w) : p \in {j} \X (1 .. w[j].remaining)
    BY <2>2
  <2> QED BY <2>3, <2>4, <2>5
<1>14. \A p : p \in RequestedIn(u) <=> \E j \in 1 .. Len(s) + Len(t) :
                 u[j].t = "videoRequest" /\ \E n \in 1 .. u[j].remaining : p = <<j, n>>
  <2>1. u \in Seq(ClientMsgs) /\ 1 .. Len(u) = 1 .. Len(s) + Len(t)
    BY <1>1
  <2>2. \A p : p \in RequestedIn(u) <=> \E j \in 1 .. Len(u) :
                 u[j].t = "videoRequest" /\ \E n \in 1 .. u[j].remaining : p = <<j, n>>
    BY <2>1, <1>3
  <2> QED BY <2>1, <2>2
<1>15. \A p : p \in RequestedIn(s) <=> \E j \in 1 .. Len(s) :
                 s[j].t = "videoRequest" /\ \E n \in 1 .. s[j].remaining : p = <<j, n>>
  BY <1>3
<1>4. RequestedIn(u) \subseteq RequestedIn(s) \cup T
  <2> SUFFICES ASSUME NEW p \in RequestedIn(u), p \notin RequestedIn(s) PROVE p \in T
    OBVIOUS
  <2>1. PICK j \in 1 .. Len(s) + Len(t) : /\ u[j].t = "videoRequest"
                                          /\ \E n \in 1 .. u[j].remaining : p = <<j, n>>
    BY <1>14
  <2>2. PICK n \in 1 .. u[j].remaining : p = <<j, n>>
    BY <2>1
  <2>3. ~(j <= Len(s))
    BY <1>1, <1>2, <1>15, <2>1, <2>2
  <2>4. j - Len(s) \in 1 .. Len(t) /\ u[j] = t[j - Len(s)] /\ j = (j - Len(s)) + Len(s)
    BY <1>1, <1>2, <2>3
  <2> DEFINE q == <<j - Len(s), n>>
  <2>5. q \in R
    BY <1>3, <2>1, <2>2, <2>4
  <2>6. p = <<q[1] + Len(s), q[2]>>
    BY <2>2, <2>4
  <2> HIDE DEF q
  <2> QED BY <2>5, <2>6
<1>5. RequestedIn(s) \subseteq RequestedIn(u)
  <2> SUFFICES ASSUME NEW p \in RequestedIn(s) PROVE p \in RequestedIn(u)
    OBVIOUS
  <2>1. PICK j \in 1 .. Len(s) : s[j].t = "videoRequest" /\ \E n \in 1 .. s[j].remaining : p = <<j, n>>
    BY <1>15
  <2>2. j \in 1 .. Len(s) + Len(t) /\ u[j] = s[j]
    BY <1>1, <1>2
  <2> QED BY <1>1, <1>14, <2>1, <2>2
<1>6. T \subseteq RequestedIn(u)
  <2> SUFFICES ASSUME NEW p \in R PROVE <<p[1] + Len(s), p[2]>> \in RequestedIn(u)
    OBVIOUS
  <2>1. PICK j \in 1 .. Len(t) : t[j].t = "videoRequest" /\ \E n \in 1 .. t[j].remaining : p = <<j, n>>
    BY <1>3
  <2>2. PICK n \in 1 .. t[j].remaining : p = <<j, n>>
    BY <2>1
  <2>3. j + Len(s) \in 1 .. Len(s) + Len(t) /\ u[j + Len(s)] = t[j]
    BY <1>1, <1>2
  <2>4. <<j + Len(s), n>> \in RequestedIn(u)
    BY <1>1, <1>14, <2>1, <2>3
  <2> QED BY <2>2, <2>4
<1>7. RequestedIn(s) \cap T = {}
  <2> SUFFICES ASSUME NEW p \in R, <<p[1] + Len(s), p[2]>> \in RequestedIn(s) PROVE FALSE
    OBVIOUS
  <2>1. PICK j \in 1 .. Len(t) : \E n \in 1 .. t[j].remaining : p = <<j, n>>
    BY <1>3
  <2>2. p[1] + Len(s) \in 1 .. Len(s)
    BY <1>15
  <2> QED BY <1>1, <2>1, <2>2
<1>8. IsFiniteSet(R) /\ Cardinality(R) \in Nat /\ IsFiniteSet(RequestedIn(s)) /\ Cardinality(RequestedIn(s)) \in Nat
  BY RequestedFinite
<1>9. f \in Bijection(R, T)
  <2>1. \A p \in R : p[1] \in Nat /\ p = <<p[1], p[2]>>
    BY <1>1, <1>3
  <2>2. f \in [R -> T] /\ \A p \in T : \E q \in R : f[q] = p
    OBVIOUS
  <2>3. ASSUME NEW p \in R, NEW q \in R, f[p] = f[q] PROVE p = q
    <3>1. p[1] + Len(s) = q[1] + Len(s) /\ p[2] = q[2]
      BY <2>3
    <3>2. p[1] = q[1]
      BY <1>1, <2>1, <3>1
    <3> QED BY <2>1, <3>1, <3>2
  <2> QED BY <2>2, <2>3 DEF Bijection, Injection, Surjection, IsInjective
<1>10. IsFiniteSet(T) /\ Cardinality(T) = Cardinality(R)
  BY <1>8, <1>9, FS_Bijection DEF ExistsBijection
<1>11. RequestedIn(u) = RequestedIn(s) \cup T
  BY <1>4, <1>5, <1>6
<1> HIDE DEF T
<1>12. Cardinality(RequestedIn(s) \cup T) = Cardinality(RequestedIn(s)) + Cardinality(T) - Cardinality(RequestedIn(s) \cap T)
  BY <1>8, <1>10, FS_Union
<1>13. Cardinality(RequestedIn(s) \cap T) = 0
  BY <1>7, FS_EmptySet
<1> QED BY <1>8, <1>10, <1>11, <1>12, <1>13

LEMMA RequestCounted ==
  ASSUME NEW g \in ClientMsgs
  PROVE  /\ <<g>> \in Seq(ClientMsgs)
         /\ Cardinality(RequestedIn(<<g>>)) = IF g.t = "videoRequest" THEN g.remaining ELSE 0
<1>1. CASE g.t # "videoRequest"
  <2>1. "videoRequest" \notin Types(<<g>>) /\ <<g>> \in Seq(ClientMsgs)
    BY <1>1, Short
  <2> QED BY <1>1, <2>1, RequestedFinite
<1>2. CASE g.t = "videoRequest"
  <2>1. g.remaining \in Nat
    BY <1>2, Messages
  <2>2. RequestedIn(<<g>>) = {1} \X (1 .. g.remaining)
    BY <1>2 DEF RequestedIn, RequestsIn
  <2>3. IsFiniteSet({1}) /\ Cardinality({1}) = 1
    BY FS_Singleton
  <2>4. IsFiniteSet(1 .. g.remaining) /\ Cardinality(1 .. g.remaining) = g.remaining
    <3>1. g.remaining \in Int /\ 1 \in Int
      BY <2>1
    <3> QED BY <2>1, <3>1, FS_Interval
  <2>5. Cardinality({1} \X (1 .. g.remaining)) = Cardinality({1}) * Cardinality(1 .. g.remaining)
    BY <2>3, <2>4, FS_Product
  <2>6. Cardinality({1} \X (1 .. g.remaining)) = g.remaining
    BY <2>1, <2>3, <2>4, <2>5
  <2> QED BY <1>2, <2>2, <2>6
<1> QED BY <1>1, <1>2

LEMMA HeadThenTail ==
  ASSUME NEW S, NEW s \in Seq(S), s # <<>>
  PROVE  s = <<Head(s)>> \o Tail(s) /\ <<Head(s)>> \in Seq(S) /\ Tail(s) \in Seq(S)
<1>1. Head(s) \in S /\ Tail(s) \in Seq(S) /\ Len(Tail(s)) = Len(s) - 1 /\ Len(s) \in Nat /\ Len(s) # 0
      /\ Head(s) = s[1] /\ \A j \in 1 .. Len(s) - 1 : Tail(s)[j] = s[j + 1]
  OBVIOUS
<1> DEFINE w == <<Head(s)>> \o Tail(s)
<1>2. <<Head(s)>> \in Seq(S) /\ Len(<<Head(s)>>) = 1
  BY <1>1
<1>3. w \in Seq(S) /\ Len(w) = Len(s)
  BY <1>1, <1>2
<1>4. \A j \in 1 .. Len(s) : w[j] = s[j]
  BY <1>1, <1>2
<1> HIDE DEF w
<1>5. s = w
  BY <1>3, <1>4, SeqEqual
<1> QED BY <1>1, <1>2, <1>5 DEF w

LEMMA RequestsTaken ==
  ASSUME NEW s \in Seq(ClientMsgs), s # <<>>
  PROVE  /\ Tail(s) \in Seq(ClientMsgs)
         /\ Cardinality(RequestedIn(s)) =
              Cardinality(RequestedIn(Tail(s))) + IF Head(s).t = "videoRequest" THEN Head(s).remaining ELSE 0
<1>1. s = <<Head(s)>> \o Tail(s) /\ <<Head(s)>> \in Seq(ClientMsgs) /\ Tail(s) \in Seq(ClientMsgs)
  BY HeadThenTail
<1>2. Head(s) \in ClientMsgs
  OBVIOUS
<1>3. Cardinality(RequestedIn(<<Head(s)>>)) = IF Head(s).t = "videoRequest" THEN Head(s).remaining ELSE 0
  BY <1>2, RequestCounted
<1>4. Cardinality(RequestedIn(<<Head(s)>> \o Tail(s))) =
        Cardinality(RequestedIn(<<Head(s)>>)) + Cardinality(RequestedIn(Tail(s)))
  BY <1>1, RequestedJoined
<1>5. Cardinality(RequestedIn(Tail(s))) \in Nat /\ Cardinality(RequestedIn(<<Head(s)>>)) \in Nat
  BY <1>1, RequestedFinite
<1>6. Cardinality(RequestedIn(s)) = Cardinality(RequestedIn(<<Head(s)>> \o Tail(s)))
  BY <1>1
<1> QED BY <1>1, <1>3, <1>4, <1>5, <1>6

LEMMA VideosTaken ==
  ASSUME NEW s \in Seq(ServerMsgs), s # <<>>
  PROVE  /\ Tail(s) \in Seq(ServerMsgs)
         /\ Cardinality(VideosIn(s)) =
              Cardinality(VideosIn(Tail(s))) + IF Head(s).t = "video" THEN 1 ELSE 0
<1>1. s = <<Head(s)>> \o Tail(s) /\ <<Head(s)>> \in Seq(ServerMsgs) /\ Tail(s) \in Seq(ServerMsgs)
  BY HeadThenTail
<1>2. Cardinality(VideosIn(<<Head(s)>>)) = IF Head(s).t = "video" THEN 1 ELSE 0
  <2>1. VideosIn(<<Head(s)>>) = IF Head(s).t = "video" THEN {1} ELSE {}
    BY DEF VideosIn
  <2>2. Cardinality({1}) = 1 /\ Cardinality({}) = 0
    BY FS_Singleton, FS_EmptySet
  <2> QED BY <2>1, <2>2
<1>3. Cardinality(VideosIn(<<Head(s)>> \o Tail(s))) =
        Cardinality(VideosIn(<<Head(s)>>)) + Cardinality(VideosIn(Tail(s)))
  BY <1>1, VideosJoined
<1>4. Cardinality(VideosIn(Tail(s))) \in Nat
  BY <1>1, VideosFinite
<1>5. Cardinality(VideosIn(s)) = Cardinality(VideosIn(<<Head(s)>> \o Tail(s)))
  BY <1>1
<1> QED BY <1>1, <1>2, <1>3, <1>4, <1>5

LEMMA PromisedIs ==
  ASSUME TypeInv, NEW c \in ConnIds
  PROVE  /\ Cardinality(VideosIn(conns[c].in)) \in Nat /\ Cardinality(RequestedIn(conns[c].out)) \in Nat
         /\ LeftToSend(c) \in Nat /\ Promised(c) \in Nat
         /\ Promised(c) = Cardinality(VideosIn(conns[c].in)) + Cardinality(RequestedIn(conns[c].out))
                            + LeftToSend(c)
<1>1. conns[c].in \in Seq(ServerMsgs) /\ conns[c].out \in Seq(ClientMsgs) /\ appContext[c] \in Nat
  BY DEF TypeInv, Conn
<1>2. Cardinality(VideosIn(conns[c].in)) \in Nat
  BY <1>1, VideosFinite
<1>3. Cardinality(RequestedIn(conns[c].out)) \in Nat
  BY <1>1, RequestedFinite
<1>4. LeftToSend(c) \in Nat
  BY <1>1 DEF LeftToSend
<1>5. OnTheWay(conns[c]) = VideosIn(conns[c].in)
  BY DEF OnTheWay, VideosIn
<1>6. AskedFor(conns[c]) = RequestedIn(conns[c].out)
  BY DEF AskedFor, RequestedIn, RequestsIn
<1> QED BY <1>2, <1>3, <1>4, <1>5, <1>6 DEF Promised

PromisesCounted == \A c \in ConnIds : Promised(c) \in Nat

LEMMA PromisedNat == TypeInv => PromisesCounted
BY PromisedIs DEF PromisesCounted

LEMMA VideoPut ==
  ASSUME Inv, config.closeTcp, TypeInv', NEW c \in ConnIds, NEW D, Put(c, D),
         UNCHANGED <<downloaded, downloadComplete>>,
         \A d \in ConnIds \ {c} : (d \in videoTimers' <=> d \in videoTimers) /\ appContext'[d] = appContext[d],
         config.app = "video" => Promised(c)' <= Promised(c)
  PROVE  VideoInv'
<1>1. /\ conns'[c] = D /\ \A d \in ConnIds \ {c} : conns'[d] = conns[d]
      /\ UNCHANGED config
  BY PutOK DEF Inv, Put
<1>2. VideoInv
  BY DEF Inv
<1>4. ASSUME config.app = "video", ~downloadComplete, NEW d \in ConnIds
      PROVE  downloaded + Promised(d)' <= FileSize
  <2>1. downloaded + Promised(d) <= FileSize /\ downloaded \in Nat /\ Promised(d) \in Nat /\ Promised(d)' \in Nat
    <3>1. Promised(d) \in Nat
      BY PromisedIs DEF Inv
    <3>2. PromisesCounted'
      BY PromisedNat, PTL
    <3> QED BY <1>2, <1>4, <3>1, <3>2, ConstantFacts DEF VideoInv, Inv, TypeInv, PromisesCounted
  <2>2. Promised(d)' <= Promised(d)
    <3>1. CASE d = c
      BY <1>4, <3>1
    <3>2. CASE d # c
      <4>1. conns'[d] = conns[d] /\ LeftToSend(d)' = LeftToSend(d)
        BY <1>1, <3>2 DEF LeftToSend
      <4>2. Promised(d)' = Promised(d)
        BY <4>1 DEF Promised
      <4> QED BY <2>1, <4>2
    <3> QED BY <3>1, <3>2
  <2> QED BY <2>1, <2>2, ConstantFacts
<1> QED BY <1>1, <1>4 DEF VideoInv

LEMMA PromisedAfter ==
  ASSUME NEW c \in ConnIds, NEW D, conns'[c] = D
  PROVE  Promised(c)' = Cardinality(VideosIn(D.in)) + Cardinality(RequestedIn(D.out)) + LeftToSend(c)'
BY DEF Promised, OnTheWay, AskedFor, VideosIn, RequestedIn, RequestsIn

LEMMA LessPromised ==
  ASSUME Inv, NEW c \in ConnIds, NEW D \in Conn, conns'[c] = D,
         Cardinality(VideosIn(D.in)) <= Cardinality(VideosIn(conns[c].in)),
         Cardinality(RequestedIn(D.out)) <= Cardinality(RequestedIn(conns[c].out)),
         LeftToSend(c)' \in Nat, LeftToSend(c)' <= LeftToSend(c)
  PROVE  Promised(c)' <= Promised(c)
<1>1. Promised(c)' = Cardinality(VideosIn(D.in)) + Cardinality(RequestedIn(D.out)) + LeftToSend(c)'
  BY PromisedAfter
<1>2. D.in \in Seq(ServerMsgs) /\ D.out \in Seq(ClientMsgs)
  BY DEF Conn
<1>3. Cardinality(VideosIn(D.in)) \in Nat
  BY <1>2, VideosFinite
<1>4. Cardinality(RequestedIn(D.out)) \in Nat
  BY <1>2, RequestedFinite
<1>5. /\ Cardinality(VideosIn(conns[c].in)) \in Nat /\ Cardinality(RequestedIn(conns[c].out)) \in Nat
      /\ LeftToSend(c) \in Nat
      /\ Promised(c) = Cardinality(VideosIn(conns[c].in)) + Cardinality(RequestedIn(conns[c].out)) + LeftToSend(c)
  BY PromisedIs DEF Inv
<1> QED BY <1>1, <1>3, <1>4, <1>5

LEMMA TimerPut ==
  ASSUME Inv, NEW c \in ConnIds, NEW D, Put(c, D), videoTimers' \subseteq ConnIds,
         \A d \in ConnIds \ {c} : d \in videoTimers' => d \in videoTimers,
         c \in videoTimers' /\ D.cli # "free" => D.kind = "ap" /\ D.srv # "none"
  PROVE  TimerInv'
<1>1. conns'[c] = D /\ \A d \in ConnIds \ {c} : conns'[d] = conns[d]
  BY PutOK DEF Inv
<1> QED BY <1>1 DEF Inv, TimerInv

LEMMA ServerStep ==
  ASSUME Inv, Idle, UNCHANGED clientVars,
         NEW c \in ConnIds, NEW D, Put(c, D), SameEnds(conns[c], D), D.cli # "free",
         config.closeTcp /\ D.kind = "info" => UnderWay,
         config.closeTcp /\ client'.thread # 0 => UnderWay,
         cliList' \in [AccessPoints -> ThreadIds], client' \in [assocAP : APOrNone, thread : ThreadIds],
         videoTimers' \subseteq ConnIds, appContext' \in [ConnIds -> Nat],
         EntryInv',
         \A d \in ConnIds \ {c} : (d \in videoTimers' <=> d \in videoTimers) /\ appContext'[d] = appContext[d],
         c \in videoTimers' => D.kind = "ap" /\ D.srv # "none",
         config.closeTcp => /\ config.app = "video" => Promised(c)' <= Promised(c)
                            /\ simError' = simError
  PROVE  Inv'
<1>1. /\ conns' \in [ConnIds -> Conn] /\ ConnInv'
      /\ conns'[c] = D /\ \A d \in ConnIds \ {c} : conns'[d] = conns[d]
  BY PutOK DEF Inv
<1>2. UNCHANGED <<config, radio, selfQ, threads, choice, lock, play>>
  BY DEF clientVars
<1>3. TypeInv'
  BY <1>1, <1>2 DEF Inv, TypeInv, radio, threads, play
<1>4. selfQ' = <<>> /\ SelfForm'
  BY <1>2 DEF Idle, SelfForm
<1>5. ASSUME config.closeTcp PROVE SessionInv'
  <2>1. \A d \in ConnIds : SameEnds(conns[d], conns'[d])
    BY <1>1 DEF SameEnds
  <2>2. \A d \in ConnIds : (conns[d].kind = "info" /\ conns[d].cli # "free" /\ ~UnderWay) =>
                              conns'[d].in = <<>> /\ conns'[d].out = <<>>
    <3> SUFFICES ASSUME NEW d \in ConnIds, conns[d].kind = "info", conns[d].cli # "free", ~UnderWay
                 PROVE  conns'[d].in = <<>> /\ conns'[d].out = <<>>
      OBVIOUS
    <3>1. d # c
      BY <1>5 DEF SameEnds
    <3>2. d \in OpenTo("info")
      BY DEF OpenTo, SocketMap, InUse
    <3> QED BY <1>1, <3>1, <3>2 DEF UnderWay
  <2> QED BY <1>5, <2>1, <2>2, ServerKeepsSession
<1>6. ASSUME config.closeTcp PROVE VideoInv'
  <2>1. UNCHANGED <<downloaded, downloadComplete>>
    BY <1>2 DEF play
  <2> QED BY <1>3, <1>6, <2>1, VideoPut
<1>7. NoUnexpectedError'
  BY <1>2 DEF Idle, NoUnexpectedError
<1>8. config' = config
  BY <1>2
<1>9. TimerInv'
  BY TimerPut
<1> QED BY <1>1, <1>3, <1>4, <1>5, <1>6, <1>7, <1>8, <1>9 DEF Inv

\* The entries follow when no end of a connection and no entry changes.
LEMMA EntriesKept ==
  ASSUME Inv, UNCHANGED <<cliList, client, config>>, NEW c \in ConnIds, NEW D, Put(c, D),
         D.kind = conns[c].kind, D.ap = conns[c].ap, D.srv = conns[c].srv
  PROVE  EntryInv'
<1>1. \A d \in ConnIds : conns'[d].kind = conns[d].kind /\ conns'[d].ap = conns[d].ap
                         /\ conns'[d].srv = conns[d].srv
  BY PutOK DEF Inv
<1>2. \A a \in AccessPoints : cliList[a] # 0 => cliList[a] \in ConnIds
  BY DEF Inv, TypeInv, ThreadIds
<1>3. client.thread # 0 => client.thread \in ConnIds
  BY DEF Inv, TypeInv, ThreadIds
<1>4. EntryInv
  BY DEF Inv
<1> QED BY <1>1, <1>2, <1>3, <1>4 DEF EntryInv

LEMMA TakenOK ==
  ASSUME Inv, NEW c \in ConnIds, NEW type, type # "FIN", ToServer(c, type), conns[c].srv # "none"
  PROVE  /\ Taken(conns[c]) \in Conn /\ ConnOK(Taken(conns[c])) /\ ModeOK(Taken(conns[c]))
         /\ SameEnds(conns[c], Taken(conns[c])) /\ Taken(conns[c]).cli # "free"
         /\ Taken(conns[c]).srv = "connected" /\ conns[c].srv = "connected"
         /\ Taken(conns[c]).in = conns[c].in
         /\ Cardinality(RequestedIn(conns[c].out)) = Cardinality(RequestedIn(Taken(conns[c]).out))
              + IF type = "videoRequest" THEN Head(conns[c].out).remaining ELSE 0
         /\ Cardinality(RequestedIn(Taken(conns[c]).out)) \in Nat
         /\ Cardinality(VideosIn(conns[c].in)) \in Nat
         /\ Head(conns[c].out) \in ClientMsgs /\ Head(conns[c].out).t = type /\ type \in Types(conns[c].out)
         /\ conns[c].kind = "info" => UnderWay
<1> DEFINE C == conns[c]
           D == Taken(C)
<1>1. C \in Conn /\ ConnOK(C) /\ ModeOK(C) /\ C.out # <<>> /\ Head(C.out).t = type /\ C.srv # "none"
  BY DEF Inv, TypeInv, ConnInv, ToServer
<1>2. C.out \in Seq(ClientMsgs)
  BY <1>1 DEF Conn
<1>3. Head(C.out) \in ClientMsgs /\ Types(C.out) = {type} \cup Types(Tail(C.out))
  BY <1>1, <1>2, HeadAndTail
<1>4. Cardinality(RequestedIn(C.out)) = Cardinality(RequestedIn(Tail(C.out)))
              + IF type = "videoRequest" THEN Head(C.out).remaining ELSE 0
  BY <1>1, <1>2, RequestsTaken
<1> HIDE DEF C
<1>5. /\ D \in Conn /\ ConnOK(D) /\ D = [C EXCEPT !.out = Tail(C.out)]
      /\ C.srv = "connected" /\ C.cli \in {"connected", "locallyClosed"}
  BY <1>1, TakeOK
<1>6. D.kind = C.kind /\ D.ap = C.ap /\ D.cli = C.cli /\ D.srv = C.srv /\ D.out = Tail(C.out) /\ D.in = C.in
  BY <1>1, <1>5 DEF Conn
<1> HIDE DEF D
<1>7. ModeOK(D)
  <2>1. Types(D.out) \subseteq Types(C.out) \cup {} /\ Types(D.in) \subseteq Types(C.in) \cup {}
    BY <1>3, <1>6
  <2> QED BY <1>1, <1>5, <1>6, <2>1 DEF ModeOK
<1>9. Cardinality(RequestedIn(D.out)) \in Nat
  BY <1>5, RequestedFinite DEF Conn
<1>10. Cardinality(VideosIn(C.in)) \in Nat
  BY <1>1, VideosFinite DEF Conn
<1>8. C.kind = "info" => UnderWay
  <2> SUFFICES ASSUME C.kind = "info" PROVE UnderWay
    OBVIOUS
  <2>1. c \in OpenTo("info") /\ conns[c].out # <<>>
    BY <1>1, <1>5 DEF OpenTo, SocketMap, InUse, C
  <2> QED BY <2>1 DEF UnderWay
<1> QED BY <1>1, <1>3, <1>4, <1>5, <1>6, <1>7, <1>8, <1>9, <1>10 DEF C, D, SameEnds

LEMMA SentOK ==
  ASSUME NEW C \in Conn, ConnOK(C), ModeOK(C), C.srv = "connected",
         NEW ms \in Seq(ServerMsgs), "FIN" \notin Types(ms),
         Types(ms) \subseteq IF C.kind = "ap" THEN FromAP ELSE FromInfo,
         config.app = "video" => "reply" \notin Types(ms)
  PROVE  /\ SentByServer(C, ms) \in Conn /\ ConnOK(SentByServer(C, ms)) /\ ModeOK(SentByServer(C, ms))
         /\ SameEnds(C, SentByServer(C, ms)) /\ SentByServer(C, ms).srv = "connected"
         /\ SentByServer(C, ms).cli = C.cli
         /\ SentByServer(C, ms).out = C.out
         /\ Cardinality(VideosIn(SentByServer(C, ms).in)) =
              Cardinality(VideosIn(C.in)) + Cardinality(VideosIn(ms))
<1> DEFINE D == SentByServer(C, ms)
<1>1. /\ D \in Conn /\ ConnOK(D) /\ D = [C EXCEPT !.in = C.in \o ms]
      /\ Types(C.in \o ms) = Types(C.in) \cup Types(ms)
  BY ServerSendOK
<1>2. D.kind = C.kind /\ D.ap = C.ap /\ D.cli = C.cli /\ D.srv = C.srv /\ D.out = C.out /\ D.in = C.in \o ms
  BY <1>1 DEF Conn
<1> HIDE DEF D
<1>3. ModeOK(D)
  BY <1>1, <1>2 DEF ModeOK
<1>4. C.in \in Seq(ServerMsgs)
  BY DEF Conn
<1>5. Cardinality(VideosIn(C.in \o ms)) = Cardinality(VideosIn(C.in)) + Cardinality(VideosIn(ms))
  BY <1>4, VideosJoined
<1> QED BY <1>1, <1>2, <1>3, <1>5 DEF D, SameEnds

LEMMA InfoHeard ==
  ASSUME Inv, config.closeTcp, client.thread # 0
  PROVE  UnderWay
BY DEF UnderWay

\* A message is taken or sent, and no table or timer changes.
LEMMA AnsweredStep ==
  ASSUME Inv, Idle, UNCHANGED <<client, clientVars, cliList, appContext, videoTimers>>,
         config.closeTcp => simError' = simError,
         NEW c \in ConnIds, NEW D, Put(c, D), SameEnds(conns[c], D), D.cli # "free",
         D.srv = "connected", conns[c].srv = "connected",
         config.closeTcp /\ D.kind = "info" => UnderWay,
         Cardinality(VideosIn(D.in)) <= Cardinality(VideosIn(conns[c].in)),
         Cardinality(RequestedIn(D.out)) <= Cardinality(RequestedIn(conns[c].out))
  PROVE  Inv'
<1>1. config' = config /\ conns'[c] = D /\ D \in Conn
  BY PutOK DEF Put, Inv
<1>2. EntryInv'
  BY <1>1, EntriesKept DEF SameEnds
<1>3. LeftToSend(c)' = LeftToSend(c) /\ LeftToSend(c) \in Nat
  BY <1>1, PromisedIs DEF LeftToSend, Inv
<1>4. Promised(c)' <= Promised(c)
  BY <1>1, <1>3, LessPromised
<1>5. /\ cliList' \in [AccessPoints -> ThreadIds] /\ client' \in [assocAP : APOrNone, thread : ThreadIds]
      /\ videoTimers' \subseteq ConnIds /\ appContext' \in [ConnIds -> Nat]
      /\ \A d \in ConnIds \ {c} : (d \in videoTimers' <=> d \in videoTimers) /\ appContext'[d] = appContext[d]
  BY DEF Inv, TypeInv
<1>6. c \in videoTimers' => D.kind = "ap" /\ D.srv # "none"
  BY DEF SameEnds, Inv, TimerInv
<1>7. config.closeTcp /\ client'.thread # 0 => UnderWay
  BY InfoHeard
<1> QED BY <1>2, <1>4, <1>5, <1>6, <1>7, ServerStep

LEMMA OneMessage ==
  ASSUME NEW g \in ServerMsgs, g.t # "video"
  PROVE  <<g>> \in Seq(ServerMsgs) /\ Types(<<g>>) = {g.t} /\ Cardinality(VideosIn(<<g>>)) = 0
<1>1. <<g>> \in Seq(ServerMsgs) /\ Types(<<g>>) = {g.t}
  BY Short
<1> QED BY <1>1, VideosFinite

LEMMA ServerTypes ==
  /\ \A t \in {"apClass", "infoClass", "reply", "video", "FIN"} : Msg(t) \in ServerMsgs /\ Msg(t).t = t
  /\ \A t \in {"classify", "request", "unregister", "FIN"} : Msg(t) \in ClientMsgs /\ Msg(t).t = t
  /\ \A a \in AccessPoints : [t |-> "ho", ssid |-> a] \in ServerMsgs /\ [t |-> "ho", ssid |-> a].t = "ho"
BY DEF Msg, ServerMsgs, ClientMsgs

\* A question is answered by one message.
LEMMA ReplyStep ==
  ASSUME Inv, Idle, UNCHANGED <<client, clientVars, cliList, appContext, videoTimers>>,
         config.closeTcp => simError' = simError,
         NEW c \in ConnIds, NEW type, type # "FIN", ToServer(c, type), conns[c].srv # "none",
         NEW g \in ServerMsgs, g.t \notin {"FIN", "video"},
         g.t \in IF conns[c].kind = "ap" THEN FromAP ELSE FromInfo,
         config.app = "video" => g.t # "reply",
         conns' = [conns EXCEPT ![c] = SentByServer(Taken(conns[c]), <<g>>)]
  PROVE  Inv'
<1> DEFINE C == conns[c]
           T == Taken(C)
           ms == <<g>>
           D == SentByServer(T, ms)
<1>1. /\ T \in Conn /\ ConnOK(T) /\ ModeOK(T) /\ SameEnds(C, T) /\ T.cli # "free"
      /\ T.srv = "connected" /\ C.srv = "connected" /\ T.in = C.in
      /\ Cardinality(RequestedIn(C.out)) = Cardinality(RequestedIn(T.out))
           + IF type = "videoRequest" THEN Head(C.out).remaining ELSE 0
      /\ Cardinality(RequestedIn(T.out)) \in Nat /\ Cardinality(VideosIn(C.in)) \in Nat
      /\ C.kind = "info" => UnderWay
      /\ Head(C.out) \in ClientMsgs /\ Head(C.out).t = type
  BY TakenOK
<1>2. ms \in Seq(ServerMsgs) /\ Types(ms) = {g.t} /\ Cardinality(VideosIn(ms)) = 0
  BY OneMessage
<1>3. T.kind = C.kind /\ T.cli = C.cli
  BY <1>1 DEF SameEnds
<1>4. conns' = [conns EXCEPT ![c] = D] /\ config' = config
  BY DEF clientVars
<1>5. Cardinality(RequestedIn(T.out)) <= Cardinality(RequestedIn(C.out))
  BY <1>1, Messages
<1> HIDE DEF ms, T
<1>6. /\ D \in Conn /\ ConnOK(D) /\ ModeOK(D) /\ SameEnds(T, D) /\ D.srv = "connected" /\ D.cli = T.cli
      /\ D.out = T.out
      /\ Cardinality(VideosIn(D.in)) = Cardinality(VideosIn(T.in)) + Cardinality(VideosIn(ms))
  <2>1. "FIN" \notin Types(ms) /\ (config.app = "video" => "reply" \notin Types(ms))
        /\ Types(ms) \subseteq IF T.kind = "ap" THEN FromAP ELSE FromInfo
    BY <1>2, <1>3
  <2> QED BY <1>1, <1>2, <2>1, SentOK
<1> HIDE DEF D
<1>7. Put(c, D) /\ SameEnds(C, D) /\ D.cli # "free"
  BY <1>1, <1>4, <1>6 DEF Put, SameEnds
<1>8. /\ Cardinality(VideosIn(D.in)) <= Cardinality(VideosIn(C.in))
      /\ Cardinality(RequestedIn(D.out)) <= Cardinality(RequestedIn(C.out))
  BY <1>1, <1>2, <1>5, <1>6
<1>9. D.kind = "info" => UnderWay
  BY <1>1, <1>7 DEF SameEnds
<1> QED BY <1>1, <1>6, <1>7, <1>8, <1>9, AnsweredStep

\* A message is pushed.
LEMMA PushStep ==
  ASSUME Inv, Idle, UNCHANGED <<client, clientVars, cliList, appContext, videoTimers>>,
         config.closeTcp => simError' = simError,
         NEW c \in ConnIds, conns[c].srv = "connected",
         NEW g \in ServerMsgs, g.t \notin {"FIN", "video", "reply"},
         g.t \in IF conns[c].kind = "ap" THEN FromAP ELSE FromInfo,
         conns[c].kind = "info" /\ config.closeTcp => UnderWay,
         conns' = [conns EXCEPT ![c] = SentByServer(conns[c], <<g>>)]
  PROVE  Inv'
<1> DEFINE C == conns[c]
           ms == <<g>>
           D == SentByServer(C, ms)
<1>1. C \in Conn /\ ConnOK(C) /\ ModeOK(C) /\ C.cli # "free"
  BY FreeConnFields DEF Inv, TypeInv, ConnInv, ConnOK
<1>2. ms \in Seq(ServerMsgs) /\ Types(ms) = {g.t} /\ Cardinality(VideosIn(ms)) = 0
  BY OneMessage
<1>3. Cardinality(VideosIn(C.in)) \in Nat /\ Cardinality(RequestedIn(C.out)) \in Nat
  BY PromisedIs DEF Inv
<1>4. conns' = [conns EXCEPT ![c] = D] /\ config' = config
  BY DEF clientVars
<1> HIDE DEF ms
<1>6. /\ D \in Conn /\ ConnOK(D) /\ ModeOK(D) /\ SameEnds(C, D) /\ D.srv = "connected" /\ D.cli = C.cli
      /\ D.out = C.out
      /\ Cardinality(VideosIn(D.in)) = Cardinality(VideosIn(C.in)) + Cardinality(VideosIn(ms))
  <2>1. "FIN" \notin Types(ms) /\ (config.app = "video" => "reply" \notin Types(ms))
        /\ Types(ms) \subseteq IF C.kind = "ap" THEN FromAP ELSE FromInfo
    BY <1>2
  <2> QED BY <1>1, <1>2, <2>1, SentOK
<1> HIDE DEF D
<1>7. Put(c, D)
  BY <1>4, <1>6 DEF Put
<1>8. /\ Cardinality(VideosIn(D.in)) <= Cardinality(VideosIn(C.in))
      /\ Cardinality(RequestedIn(D.out)) <= Cardinality(RequestedIn(C.out))
  BY <1>2, <1>3, <1>6
<1>9. D.kind = "info" /\ config.closeTcp => UnderWay
  BY <1>6 DEF SameEnds
<1> QED BY <1>1, <1>6, <1>7, <1>8, <1>9, AnsweredStep

LEMMA APClassifyStep ==
  ASSUME Inv, Idle, NEW c \in ConnIds, APClassify(c), UNCHANGED <<client, clientVars>>
  PROVE  Inv'
<1>1. /\ conns[c].kind = "ap" /\ conns[c].srv # "none" /\ ToServer(c, "classify")
      /\ conns' = [conns EXCEPT ![c] = SentByServer(Taken(conns[c]), <<Msg("apClass")>>)]
      /\ UNCHANGED <<cliList, appContext, videoTimers, simError>>
  BY DEF APClassify, APConn, apVars
<1>2. Msg("apClass") \in ServerMsgs /\ Msg("apClass").t = "apClass" /\ "apClass" \in FromAP
  BY ServerTypes DEF FromAP
<1> DEFINE g == Msg("apClass")
<1> HIDE DEF g
<1>3. g \in ServerMsgs /\ g.t = "apClass" /\ conns' = [conns EXCEPT ![c] = SentByServer(Taken(conns[c]), <<g>>)]
  BY <1>1, <1>2 DEF g
<1> QED BY <1>1, <1>2, <1>3, ReplyStep

LEMMA InfoClassifyStep ==
  ASSUME Inv, Idle, NEW c \in ConnIds, InfoClassify(c), UNCHANGED clientVars
  PROVE  Inv'
<1>1. /\ conns[c].kind = "info" /\ conns[c].srv # "none" /\ ToServer(c, "classify")
      /\ conns' = [conns EXCEPT ![c] = SentByServer(Taken(conns[c]), <<Msg("infoClass")>>)]
      /\ UNCHANGED <<client, cliList, appContext, videoTimers, simError>>
  BY DEF InfoClassify, InfoConn, apVars
<1> DEFINE g == Msg("infoClass")
<1>2. g \in ServerMsgs /\ g.t = "infoClass" /\ "infoClass" \in FromInfo
  BY ServerTypes DEF FromInfo
<1> HIDE DEF g
<1>3. conns' = [conns EXCEPT ![c] = SentByServer(Taken(conns[c]), <<g>>)]
  BY <1>1 DEF g
<1> QED BY <1>1, <1>2, <1>3, ReplyStep

LEMMA APClassifyTimerStep ==
  ASSUME Inv, Idle, NEW a \in AccessPoints, APClassifyTimer(a), UNCHANGED <<client, clientVars>>
  PROVE  Inv'
<1> DEFINE c == cliList[a]
           g == Msg("apClass")
<1>1. /\ c # 0 /\ conns[c].srv = "connected" /\ conns' = [conns EXCEPT ![c] = SentByServer(conns[c], <<g>>)]
      /\ UNCHANGED <<client, cliList, appContext, videoTimers, simError>>
  BY DEF APClassifyTimer, SendInfoToClients, apVars
<1>2. c \in ConnIds /\ conns[c].kind = "ap"
  BY <1>1 DEF Inv, TypeInv, EntryInv, ThreadIds
<1>3. g \in ServerMsgs /\ g.t = "apClass" /\ "apClass" \in FromAP
  BY ServerTypes DEF FromAP
<1> HIDE DEF g, c
<1> QED BY <1>1, <1>2, <1>3, PushStep

LEMMA DoLoadBalancingStep ==
  ASSUME Inv, Idle, DoLoadBalancing, UNCHANGED clientVars
  PROVE  Inv'
<1> DEFINE c == client.thread
<1>1. /\ c # 0 /\ UNCHANGED <<client, cliList, appContext, videoTimers>>
      /\ \E a \in AccessPoints : 
           IF conns[c].srv = "connected"
           THEN conns' = [conns EXCEPT ![c] = SentByServer(@, <<[t |-> "ho", ssid |-> a]>>)] /\ UNCHANGED simError
           ELSE simError' = "sendOnClosedSocket" /\ UNCHANGED conns
  BY DEF DoLoadBalancing
<1>2. c \in ConnIds /\ conns[c].kind = "info" /\ conns[c].srv = "connected"
  BY <1>1 DEF Inv, TypeInv, EntryInv, ThreadIds
<1>3. PICK a \in AccessPoints : conns' = [conns EXCEPT ![c] = SentByServer(@, <<[t |-> "ho", ssid |-> a]>>)]
                                /\ UNCHANGED simError
  BY <1>1, <1>2
<1> DEFINE g == [t |-> "ho", ssid |-> a]
<1>4. g \in ServerMsgs /\ g.t = "ho" /\ "ho" \in FromInfo
  BY ServerTypes DEF FromInfo
<1>5. conns' = [conns EXCEPT ![c] = SentByServer(conns[c], <<g>>)]
  BY <1>3
<1>6. config.closeTcp => UnderWay
  BY <1>1, InfoHeard
<1> HIDE DEF g, c
<1> QED BY <1>1, <1>2, <1>3, <1>4, <1>5, <1>6, PushStep

\* A message is taken.
LEMMA TakeStep ==
  ASSUME Inv, Idle, UNCHANGED clientVars,
         NEW c \in ConnIds, NEW type, type # "FIN", ToServer(c, type), conns[c].srv # "none",
         conns' = [conns EXCEPT ![c] = Taken(conns[c])],
         UNCHANGED videoTimers, appContext' \in [ConnIds -> Nat],
         \A d \in ConnIds \ {c} : appContext'[d] = appContext[d],
         config.closeTcp => simError' = simError /\ appContext' = appContext,
         cliList' \in [AccessPoints -> ThreadIds], client' \in [assocAP : APOrNone, thread : ThreadIds],
         config.closeTcp /\ client'.thread # 0 => UnderWay,
         ASSUME \A d \in ConnIds : conns'[d].kind = conns[d].kind /\ conns'[d].ap = conns[d].ap
                                   /\ conns'[d].srv = conns[d].srv
         PROVE  EntryInv'
  PROVE  Inv'
<1> DEFINE C == conns[c]
           D == Taken(C)
<1>1. /\ D \in Conn /\ ConnOK(D) /\ ModeOK(D) /\ SameEnds(C, D) /\ D.cli # "free"
      /\ D.srv = "connected" /\ C.srv = "connected" /\ D.in = C.in
      /\ Cardinality(RequestedIn(C.out)) = Cardinality(RequestedIn(D.out))
           + IF type = "videoRequest" THEN Head(C.out).remaining ELSE 0
      /\ Cardinality(RequestedIn(D.out)) \in Nat /\ Cardinality(VideosIn(C.in)) \in Nat
      /\ C.kind = "info" => UnderWay
      /\ Head(C.out) \in ClientMsgs /\ Head(C.out).t = type
  BY TakenOK
<1>2. conns' = [conns EXCEPT ![c] = D] /\ config' = config
  BY DEF clientVars
<1>3. Cardinality(RequestedIn(D.out)) <= Cardinality(RequestedIn(C.out))
  BY <1>1, Messages
<1>4. Cardinality(VideosIn(D.in)) <= Cardinality(VideosIn(C.in))
  BY <1>1
<1> HIDE DEF D
<1>5. Put(c, D)
  BY <1>1, <1>2 DEF Put
<1>6. conns'[c] = D /\ \A d \in ConnIds \ {c} : conns'[d] = conns[d]
  BY <1>5, PutOK DEF Inv
<1>7. EntryInv'
  <2>1. \A d \in ConnIds : conns'[d].kind = conns[d].kind /\ conns'[d].ap = conns[d].ap
                           /\ conns'[d].srv = conns[d].srv
    BY <1>1, <1>6 DEF SameEnds
  <2> QED BY <2>1
<1>8. config.closeTcp => LeftToSend(c)' = LeftToSend(c) /\ LeftToSend(c) \in Nat
  BY <1>1, <1>6, PromisedIs DEF LeftToSend, Inv
<1>9. config.closeTcp => Promised(c)' <= Promised(c)
  BY <1>1, <1>3, <1>4, <1>6, <1>8, LessPromised
<1>10. D.kind = "info" => UnderWay
  BY <1>1 DEF SameEnds
<1>11. c \in videoTimers' => D.kind = "ap" /\ D.srv # "none"
  BY <1>1 DEF SameEnds, Inv, TimerInv
<1>12. videoTimers' \subseteq ConnIds
  BY DEF Inv, TypeInv
<1> QED BY <1>1, <1>5, <1>7, <1>9, <1>10, <1>11, <1>12, ServerStep

LEMMA Registered ==
  ASSUME Inv, config.closeTcp, NEW c \in ConnIds, conns[c].kind = "ap", conns[c].srv = "connected"
  PROVE  IsClientRegistered(conns[c].ap)
BY ConstantFacts DEF Inv, EntryInv, IsClientRegistered

LEMMA APRequestStep ==
  ASSUME Inv, Idle, NEW c \in ConnIds, APRequest(c), UNCHANGED <<client, clientVars>>
  PROVE  Inv'
<1>1. /\ conns[c].kind = "ap" /\ conns[c].srv # "none" /\ ToServer(c, "request")
      /\ UNCHANGED <<cliList, appContext, videoTimers>>
  BY DEF APRequest, APConn
<1>2. conns[c].srv = "connected" /\ "request" \in Types(conns[c].out)
  BY <1>1, TakenOK
<1>3. config.app # "video"
  BY <1>2 DEF Inv, ConnInv, ModeOK
<1>4. CASE IsClientRegistered(conns[c].ap)
  <2> DEFINE g == Msg("reply")
  <2>1. conns' = [conns EXCEPT ![c] = SentByServer(Taken(conns[c]), <<g>>)] /\ simError' = simError
    BY <1>2, <1>4 DEF APRequest
  <2>2. g \in ServerMsgs /\ g.t = "reply" /\ "reply" \in FromAP
    BY ServerTypes DEF FromAP
  <2> HIDE DEF g
  <2> QED BY <1>1, <1>3, <2>1, <2>2, ReplyStep
<1>5. CASE ~IsClientRegistered(conns[c].ap)
  <2>1. ~config.closeTcp
    BY <1>1, <1>2, <1>5, Registered
  <2>2. conns' = [conns EXCEPT ![c] = Taken(conns[c])]
    BY <1>5 DEF APRequest
  <2>3. ASSUME \A d \in ConnIds : conns'[d].kind = conns[d].kind /\ conns'[d].ap = conns[d].ap
                                  /\ conns'[d].srv = conns[d].srv
        PROVE  EntryInv'
    BY <1>1, <2>1, <2>3 DEF Inv, TypeInv, EntryInv, ThreadIds, clientVars
  <2>4. /\ appContext' \in [ConnIds -> Nat] /\ \A d \in ConnIds \ {c} : appContext'[d] = appContext[d]
        /\ cliList' \in [AccessPoints -> ThreadIds] /\ client' \in [assocAP : APOrNone, thread : ThreadIds]
    BY <1>1 DEF Inv, TypeInv
  <2> QED BY <1>1, <2>1, <2>2, <2>3, <2>4, TakeStep
<1> QED BY <1>4, <1>5

LEMMA APUnregisterStep ==
  ASSUME Inv, Idle, NEW c \in ConnIds, APUnregister(c), UNCHANGED <<client, clientVars>>
  PROVE  Inv'
<1>1. /\ conns[c].kind = "ap" /\ conns[c].srv # "none" /\ ToServer(c, "unregister")
      /\ UNCHANGED <<appContext, videoTimers, simError>>
      /\ conns' = [conns EXCEPT ![c] = Taken(conns[c])]
      /\ cliList' = [cliList EXCEPT ![conns[c].ap] = 0]
  BY DEF APUnregister, APConn, DeleteClient
<1>2. "unregister" \in Types(conns[c].out)
  BY <1>1, TakenOK
<1>3. ~config.closeTcp
  BY <1>2 DEF Inv, ConnInv, ModeOK
<1>4. cliList' \in [AccessPoints -> ThreadIds] /\ \A a \in AccessPoints : cliList'[a] \in {0, cliList[a]}
  BY <1>1 DEF Inv, TypeInv, ThreadIds
<1>5. ASSUME \A d \in ConnIds : conns'[d].kind = conns[d].kind /\ conns'[d].ap = conns[d].ap
                                /\ conns'[d].srv = conns[d].srv
      PROVE  EntryInv'
  BY <1>3, <1>4, <1>5 DEF Inv, TypeInv, EntryInv, ThreadIds, clientVars
<1>6. /\ appContext' \in [ConnIds -> Nat] /\ \A d \in ConnIds \ {c} : appContext'[d] = appContext[d]
      /\ client' \in [assocAP : APOrNone, thread : ThreadIds]
  BY <1>1 DEF Inv, TypeInv
<1> QED BY <1>1, <1>3, <1>4, <1>5, <1>6, TakeStep

LEMMA InfoUnregisterStep ==
  ASSUME Inv, Idle, NEW c \in ConnIds, InfoUnregister(c), UNCHANGED clientVars
  PROVE  Inv'
<1>1. /\ conns[c].kind = "info" /\ conns[c].srv # "none" /\ ToServer(c, "unregister")
      /\ UNCHANGED <<cliList, appContext, videoTimers, simError>>
      /\ conns' = [conns EXCEPT ![c] = Taken(conns[c])]
      /\ client' = NoClient
  BY DEF InfoUnregister, InfoConn, EntryDeleted, apVars
<1>2. client' \in [assocAP : APOrNone, thread : ThreadIds] /\ client'.thread = 0
  BY <1>1 DEF NoClient, APOrNone, ThreadIds
<1>3. ASSUME \A d \in ConnIds : conns'[d].kind = conns[d].kind /\ conns'[d].ap = conns[d].ap
                                /\ conns'[d].srv = conns[d].srv
      PROVE  EntryInv'
  BY <1>1, <1>2, <1>3 DEF Inv, TypeInv, EntryInv, ThreadIds, clientVars
<1>4. /\ appContext' \in [ConnIds -> Nat] /\ \A d \in ConnIds \ {c} : appContext'[d] = appContext[d]
      /\ cliList' \in [AccessPoints -> ThreadIds]
  BY <1>1 DEF Inv, TypeInv
<1> QED BY <1>1, <1>2, <1>3, <1>4, TakeStep

LEMMA InfoMnClassificationStep ==
  ASSUME Inv, Idle, NEW c \in ConnIds, InfoMnClassification(c), UNCHANGED clientVars
  PROVE  Inv'
<1>1. /\ conns[c].kind = "info" /\ conns[c].srv # "none" /\ ToServer(c, "mn")
      /\ UNCHANGED <<cliList, appContext, videoTimers, simError>>
      /\ conns' = [conns EXCEPT ![c] = Taken(conns[c])]
      /\ client' = [assocAP |-> Head(conns[c].out).assocAP, thread |-> c]
  BY DEF InfoMnClassification, InfoConn, EntryOf, apVars
<1>2. /\ Head(conns[c].out) \in ClientMsgs /\ Head(conns[c].out).t = "mn"
      /\ conns[c].srv = "connected" /\ UnderWay
  BY <1>1, TakenOK
<1>3. Head(conns[c].out).assocAP \in APOrNone
  BY <1>2, Messages
<1>4. client' \in [assocAP : APOrNone, thread : ThreadIds] /\ client'.thread = c
  BY <1>1, <1>3 DEF ThreadIds
<1>5. ASSUME \A d \in ConnIds : conns'[d].kind = conns[d].kind /\ conns'[d].ap = conns[d].ap
                                /\ conns'[d].srv = conns[d].srv
      PROVE  EntryInv'
  BY <1>1, <1>2, <1>4, <1>5 DEF Inv, TypeInv, EntryInv, ThreadIds, clientVars
<1>6. /\ appContext' \in [ConnIds -> Nat] /\ \A d \in ConnIds \ {c} : appContext'[d] = appContext[d]
      /\ cliList' \in [AccessPoints -> ThreadIds]
  BY <1>1 DEF Inv, TypeInv
<1> QED BY <1>1, <1>2, <1>4, <1>5, <1>6, TakeStep

\* The server closes its end as well, and its entry of the client has gone.
LEMMA PeerClosedStep ==
  ASSUME Inv, Idle, UNCHANGED <<clientVars, appContext, videoTimers, simError>>,
         NEW c \in ConnIds, ToServer(c, "FIN"), conns[c].srv # "none",
         conns' = [conns EXCEPT ![c] = [SentByServer(Taken(conns[c]), <<Fin>>) EXCEPT !.srv = "closed"]],
         cliList' \in [AccessPoints -> ThreadIds], client' \in [assocAP : APOrNone, thread : ThreadIds],
         client'.thread # 0 => client'.thread = client.thread,
         conns[c].kind = "info" => cliList' = cliList /\ client'.thread = 0,
         conns[c].kind = "ap" => cliList' = [cliList EXCEPT ![conns[c].ap] = 0]
  PROVE  Inv'
<1> DEFINE C == conns[c]
           D == [SentByServer(Taken(C), <<Fin>>) EXCEPT !.srv = "closed"]
<1>1. C \in Conn /\ ConnOK(C) /\ ModeOK(C) /\ C.out # <<>> /\ Head(C.out).t = "FIN" /\ C.srv # "none"
  BY DEF Inv, TypeInv, ConnInv, ToServer
<1>2. conns' = [conns EXCEPT ![c] = D] /\ config' = config
  BY DEF clientVars
<1>3. C.kind = "info" => UnderWay
  <2> SUFFICES ASSUME C.kind = "info" PROVE UnderWay
    OBVIOUS
  <2>1. C.cli # "free"
    BY <1>1, FreeConnFields DEF ConnOK
  <2>2. c \in OpenTo("info") /\ conns[c].out # <<>>
    BY <1>1, <2>1 DEF OpenTo, SocketMap, InUse
  <2> QED BY <2>2 DEF UnderWay
<1>4. C.kind = "ap" => C.ap \in AccessPoints
  BY <1>1, FreeConnFields DEF ConnOK, Opened
<1> HIDE DEF C
<1>5. /\ D \in Conn /\ ConnOK(D) /\ D = [C EXCEPT !.out = <<>>, !.in = C.in \o <<Fin>>, !.srv = "closed"]
      /\ Types(D.in) = Types(C.in) \cup {"FIN"}
      /\ C.srv = "connected" /\ C.cli = "locallyClosed"
  BY <1>1, ServerCloseOK
<1>6. D.kind = C.kind /\ D.ap = C.ap /\ D.cli = C.cli /\ D.srv = "closed" /\ D.out = <<>> /\ D.in = C.in \o <<Fin>>
  BY <1>1, <1>5 DEF Conn
<1> HIDE DEF D
<1>7. ModeOK(D)
  BY <1>1, <1>5, <1>6, Short DEF ModeOK
<1>8. Put(c, D) /\ SameEnds(conns[c], D) /\ D.cli # "free"
  BY <1>2, <1>5, <1>6, <1>7 DEF Put, SameEnds, C
<1>9. conns'[c] = D /\ \A d \in ConnIds \ {c} : conns'[d] = conns[d]
  BY <1>8, PutOK DEF Inv
<1>10. Cardinality(VideosIn(D.in)) <= Cardinality(VideosIn(C.in))
  <2>1. Fin \in ServerMsgs /\ Fin.t # "video"
    BY Messages DEF Fin
  <2>2. <<Fin>> \in Seq(ServerMsgs) /\ Cardinality(VideosIn(<<Fin>>)) = 0
    BY <2>1, OneMessage
  <2>3. C.in \in Seq(ServerMsgs)
    BY <1>1 DEF Conn
  <2>4. Cardinality(VideosIn(C.in)) \in Nat
    BY <2>3, VideosFinite
  <2> DEFINE f == <<Fin>>
  <2> HIDE DEF f
  <2>5. f \in Seq(ServerMsgs) /\ Cardinality(VideosIn(f)) = 0 /\ D.in = C.in \o f
    BY <2>2, <1>6 DEF f
  <2>6. Cardinality(VideosIn(C.in \o f)) = Cardinality(VideosIn(C.in)) + Cardinality(VideosIn(f))
    BY <2>3, <2>5, VideosJoined
  <2> QED BY <2>4, <2>5, <2>6
<1>11. Cardinality(RequestedIn(D.out)) <= Cardinality(RequestedIn(C.out))
  <2>1. D.out \in Seq(ClientMsgs) /\ "videoRequest" \notin Types(D.out)
    BY <1>5, <1>6, Short DEF Conn
  <2>2. Cardinality(RequestedIn(D.out)) = 0
    BY <2>1, RequestedFinite
  <2>3. Cardinality(RequestedIn(C.out)) \in Nat
    BY <1>1, RequestedFinite DEF Conn
  <2> QED BY <2>2, <2>3
<1>12. Promised(c)' <= Promised(c)
  <2>1. LeftToSend(c)' = 0 /\ LeftToSend(c) \in Nat
    BY <1>6, <1>9, PromisedIs DEF LeftToSend, Inv
  <2>2. /\ Cardinality(VideosIn(D.in)) <= Cardinality(VideosIn(conns[c].in))
        /\ Cardinality(RequestedIn(D.out)) <= Cardinality(RequestedIn(conns[c].out))
    BY <1>10, <1>11 DEF C
  <2>3. LeftToSend(c)' \in Nat /\ LeftToSend(c)' <= LeftToSend(c)
    BY <2>1
  <2> QED BY <1>5, <1>9, <2>2, <2>3, LessPromised
<1>13. EntryInv'
  <2>1. \A a \in AccessPoints : cliList'[a] # 0 => cliList'[a] = cliList[a] /\ cliList[a] \in ConnIds
                                                    /\ (C.kind = "ap" => a # C.ap)
    BY <1>1, <1>4 DEF Inv, TypeInv, ThreadIds, Conn, C
  <2>2. \A a \in AccessPoints : cliList'[a] # 0 =>
          /\ cliList'[a] # c /\ cliList'[a] \in ConnIds
          /\ conns[cliList'[a]].kind = "ap" /\ conns[cliList'[a]].ap = a
          /\ conns[cliList'[a]].srv = "connected"
    BY <2>1 DEF Inv, EntryInv, C
  <2>3. \A a \in AccessPoints : cliList'[a] # 0 =>
          conns'[cliList'[a]].kind = "ap" /\ conns'[cliList'[a]].ap = a /\ conns'[cliList'[a]].srv = "connected"
    BY <2>2, <1>9
  <2>4. client'.thread # 0 => client'.thread \in ConnIds \ {c} /\ conns[client'.thread].kind = "info"
                              /\ conns[client'.thread].srv = "connected"
    BY <1>1 DEF Inv, TypeInv, EntryInv, ThreadIds, Conn, C
  <2>5. client'.thread # 0 => conns'[client'.thread].kind = "info" /\ conns'[client'.thread].srv = "connected"
    BY <2>4, <1>9
  <2>6. ASSUME config.closeTcp, NEW d \in ConnIds, conns'[d].kind = "ap", conns'[d].srv = "connected"
        PROVE  cliList'[conns'[d].ap] = d
    <3>1. d # c /\ conns'[d] = conns[d]
      BY <2>6, <1>6, <1>9
    <3>2. cliList[conns[d].ap] = d /\ conns[d].ap \in AccessPoints
      <4>1. conns[d].cli # "free" /\ ConnOK(conns[d]) /\ conns[d].kind = "ap"
        BY <2>6, <3>1, FreeConnFields DEF Inv, ConnInv, ConnOK
      <4> QED BY <2>6, <3>1, <4>1, FreeConnFields DEF Inv, EntryInv, ConnOK, Opened
    <3>3. C.kind = "ap" => cliList[C.ap] = c
      BY <1>5, <2>6 DEF Inv, EntryInv, C
    <3>4. C.kind = "ap" => conns[d].ap # C.ap
      BY <3>1, <3>2, <3>3
    <3>5. C.kind = "ap" \/ C.kind = "info"
      BY <1>1 DEF Conn
    <3> QED BY <3>1, <3>2, <3>4, <3>5 DEF Inv, TypeInv, C
  <2> QED BY <1>2, <2>3, <2>5, <2>6 DEF EntryInv
<1>14. config.closeTcp /\ client'.thread # 0 => UnderWay
  BY InfoHeard
<1>15. D.kind = "info" => UnderWay
  BY <1>3, <1>6
<1>16. c \in videoTimers' => D.kind = "ap" /\ D.srv # "none"
  BY <1>5, <1>6 DEF Inv, TimerInv, C
<1>17. /\ videoTimers' \subseteq ConnIds /\ appContext' \in [ConnIds -> Nat]
       /\ \A d \in ConnIds \ {c} : (d \in videoTimers' <=> d \in videoTimers) /\ appContext'[d] = appContext[d]
  BY DEF Inv, TypeInv
<1> QED BY <1>8, <1>12, <1>13, <1>14, <1>15, <1>16, <1>17, ServerStep

LEMMA APPeerClosedStep ==
  ASSUME Inv, Idle, NEW c \in ConnIds, APPeerClosed(c), UNCHANGED <<client, clientVars>>
  PROVE  Inv'
<1>1. /\ conns[c].kind = "ap" /\ conns[c].srv # "none" /\ ToServer(c, "FIN")
      /\ UNCHANGED <<appContext, videoTimers, simError>>
      /\ conns' = [conns EXCEPT ![c] = [SentByServer(Taken(conns[c]), <<Fin>>) EXCEPT !.srv = "closed"]]
      /\ cliList' = [cliList EXCEPT ![conns[c].ap] = 0]
  BY DEF APPeerClosed, APConn, DeleteClient
<1>2. cliList' \in [AccessPoints -> ThreadIds] /\ client' \in [assocAP : APOrNone, thread : ThreadIds]
  BY <1>1 DEF Inv, TypeInv, ThreadIds
<1> QED BY <1>1, <1>2, PeerClosedStep

LEMMA InfoPeerClosedStep ==
  ASSUME Inv, Idle, NEW c \in ConnIds, InfoPeerClosed(c), UNCHANGED clientVars
  PROVE  Inv'
<1>1. /\ conns[c].kind = "info" /\ conns[c].srv # "none" /\ ToServer(c, "FIN")
      /\ UNCHANGED <<cliList, appContext, videoTimers, simError>>
      /\ conns' = [conns EXCEPT ![c] = [SentByServer(Taken(conns[c]), <<Fin>>) EXCEPT !.srv = "closed"]]
      /\ client' = NoClient
  BY DEF InfoPeerClosed, InfoConn, EntryDeleted, apVars
<1>2. cliList' \in [AccessPoints -> ThreadIds]
      /\ client' \in [assocAP : APOrNone, thread : ThreadIds] /\ client'.thread = 0
  BY <1>1 DEF Inv, TypeInv, ThreadIds, NoClient, APOrNone
<1> QED BY <1>1, <1>2, PeerClosedStep

\* Packets of the video are sent on a connection that has owed them.
LEMMA SendVideoDataStep ==
  ASSUME Inv, Idle, UNCHANGED <<clientVars, client, cliList, simError>>,
         NEW c \in ConnIds, conns[c].kind = "ap", conns[c].srv = "connected",
         NEW T, T \in Conn, ConnOK(T), ModeOK(T), SameEnds(conns[c], T), T.cli # "free",
         T.srv = "connected", T.in = conns[c].in,
         NEW n \in Nat, SendVideoData(c, T, n),
         config.closeTcp => Cardinality(VideosIn(T.in)) + Cardinality(RequestedIn(T.out)) + n <= Promised(c)
  PROVE  Inv'
<1> DEFINE now == Least(Burst, n)
           ms == Packets(now)
           D == SentByServer(T, ms)
<1>1. now \in Nat /\ n - now \in Nat
  BY ConstantFacts DEF Least
<1>2. /\ conns' = [conns EXCEPT ![c] = D] /\ config' = config
      /\ appContext' = [appContext EXCEPT ![c] = n - now]
      /\ videoTimers' = IF n > now THEN videoTimers \cup {c} ELSE videoTimers \ {c}
  BY DEF SendVideoData, clientVars
<1>3. T.kind = "ap"
  BY DEF SameEnds
<1> HIDE DEF now
<1>4. ms \in Seq(ServerMsgs) /\ Types(ms) \subseteq {"video"} /\ Cardinality(VideosIn(ms)) = now
  BY <1>1, PacketsCounted
<1> HIDE DEF ms
<1>5. /\ D \in Conn /\ ConnOK(D) /\ ModeOK(D) /\ SameEnds(T, D) /\ D.srv = "connected" /\ D.cli = T.cli
      /\ D.out = T.out
      /\ Cardinality(VideosIn(D.in)) = Cardinality(VideosIn(T.in)) + Cardinality(VideosIn(ms))
  <2>1. "FIN" \notin Types(ms) /\ "reply" \notin Types(ms) /\ Types(ms) \subseteq IF T.kind = "ap" THEN FromAP ELSE FromInfo
    BY <1>3, <1>4 DEF FromAP
  <2> QED BY <1>4, <2>1, SentOK
<1> HIDE DEF D
<1>6. Put(c, D) /\ SameEnds(conns[c], D) /\ D.cli # "free"
  BY <1>2, <1>5 DEF Put, SameEnds
<1>7. conns'[c] = D
  BY <1>6, PutOK DEF Inv
<1>8. EntryInv'
  BY <1>2, <1>5, <1>6, EntriesKept DEF SameEnds
<1>9. /\ cliList' \in [AccessPoints -> ThreadIds] /\ client' \in [assocAP : APOrNone, thread : ThreadIds]
      /\ videoTimers' \subseteq ConnIds /\ appContext' \in [ConnIds -> Nat] /\ appContext'[c] = n - now
      /\ \A d \in ConnIds \ {c} : (d \in videoTimers' <=> d \in videoTimers) /\ appContext'[d] = appContext[d]
  BY <1>1, <1>2 DEF Inv, TypeInv
<1>10. LeftToSend(c)' = n - now
  BY <1>1, <1>2, <1>5, <1>7, <1>9 DEF LeftToSend
<1>11. ASSUME config.closeTcp PROVE Promised(c)' <= Promised(c)
  <2>1. Promised(c)' = Cardinality(VideosIn(D.in)) + Cardinality(RequestedIn(D.out)) + LeftToSend(c)'
    BY <1>7, PromisedAfter
  <2>2. Cardinality(VideosIn(T.in)) \in Nat /\ Cardinality(RequestedIn(T.out)) \in Nat
    <3>1. T.in \in Seq(ServerMsgs) /\ T.out \in Seq(ClientMsgs)
      BY DEF Conn
    <3>2. Cardinality(VideosIn(T.in)) \in Nat
      BY <3>1, VideosFinite
    <3>3. Cardinality(RequestedIn(T.out)) \in Nat
      BY <3>1, RequestedFinite
    <3> QED BY <3>2, <3>3
  <2>3. Promised(c) \in Nat
    BY PromisedIs DEF Inv
  <2> QED BY <1>1, <1>4, <1>5, <1>10, <1>11, <2>1, <2>2, <2>3
<1>12. config.closeTcp /\ client'.thread # 0 => UnderWay
  BY InfoHeard
<1>13. D.kind = "ap" /\ D.srv # "none"
  BY <1>5, <1>6 DEF SameEnds
<1> QED BY <1>6, <1>8, <1>9, <1>11, <1>12, <1>13, ServerStep

LEMMA APVideoRequestStep ==
  ASSUME Inv, Idle, NEW c \in ConnIds, APVideoRequest(c), UNCHANGED <<client, clientVars>>
  PROVE  Inv'
<1> DEFINE C == conns[c]
           T == Taken(C)
           n == Head(C.out).remaining
<1>1. C.kind = "ap" /\ C.srv # "none" /\ ToServer(c, "videoRequest") /\ cliList' = cliList
  BY DEF APVideoRequest, APConn
<1>2. /\ T \in Conn /\ ConnOK(T) /\ ModeOK(T) /\ SameEnds(C, T) /\ T.cli # "free"
      /\ T.srv = "connected" /\ C.srv = "connected" /\ T.in = C.in
      /\ Cardinality(RequestedIn(C.out)) = Cardinality(RequestedIn(T.out)) + n
      /\ Cardinality(RequestedIn(T.out)) \in Nat /\ Cardinality(VideosIn(C.in)) \in Nat
      /\ Head(C.out) \in ClientMsgs /\ Head(C.out).t = "videoRequest"
  BY <1>1, TakenOK
<1>3. n \in Nat
  BY <1>2, Messages
<1>4. CASE IsClientRegistered(C.ap)
  <2>1. SendVideoData(c, T, n) /\ simError' = simError
    BY <1>2, <1>4 DEF APVideoRequest
  <2>2. Cardinality(VideosIn(T.in)) + Cardinality(RequestedIn(T.out)) + n <= Promised(c)
    <3>1. LeftToSend(c) \in Nat
          /\ Promised(c) = Cardinality(VideosIn(C.in)) + Cardinality(RequestedIn(C.out)) + LeftToSend(c)
      BY PromisedIs DEF Inv
    <3> HIDE DEF n, T, C
    <3> QED BY <1>2, <1>3, <3>1
  <2> HIDE DEF n, T
  <2> QED BY <1>1, <1>2, <1>3, <2>1, <2>2, SendVideoDataStep
<1>5. CASE ~IsClientRegistered(C.ap)
  <2>1. ~config.closeTcp
    BY <1>1, <1>2, <1>5, Registered
  <2>2. conns' = [conns EXCEPT ![c] = Taken(conns[c])] /\ UNCHANGED <<appContext, videoTimers>>
    BY <1>5 DEF APVideoRequest
  <2>3. ASSUME \A d \in ConnIds : conns'[d].kind = conns[d].kind /\ conns'[d].ap = conns[d].ap
                                  /\ conns'[d].srv = conns[d].srv
        PROVE  EntryInv'
    BY <1>1, <2>1, <2>3 DEF Inv, TypeInv, EntryInv, ThreadIds, clientVars
  <2>4. /\ appContext' \in [ConnIds -> Nat] /\ \A d \in ConnIds \ {c} : appContext'[d] = appContext[d]
        /\ cliList' \in [AccessPoints -> ThreadIds] /\ client' \in [assocAP : APOrNone, thread : ThreadIds]
    BY <1>1, <2>2 DEF Inv, TypeInv
  <2> QED BY <1>1, <2>1, <2>2, <2>3, <2>4, TakeStep
<1> QED BY <1>4, <1>5

LEMMA APVideoTimerStep ==
  ASSUME Inv, Idle, NEW c \in ConnIds, APVideoTimer(c), UNCHANGED <<client, clientVars>>
  PROVE  Inv'
<1> DEFINE C == conns[c]
           n == appContext[c]
<1>1. c \in videoTimers /\ UNCHANGED <<cliList, simError>> /\ n \in Nat
  BY DEF APVideoTimer, Inv, TypeInv
<1>2. CASE C.srv = "connected" /\ IsClientRegistered(C.ap)
  <2>1. SendVideoData(c, C, n)
    BY <1>2 DEF APVideoTimer
  <2>2. C \in Conn /\ ConnOK(C) /\ ModeOK(C) /\ SameEnds(C, C) /\ C.cli # "free"
    BY <1>2, FreeConnFields DEF Inv, TypeInv, ConnInv, ConnOK, SameEnds
  <2>3. C.kind = "ap"
    BY <1>1, <2>2 DEF Inv, TimerInv
  <2>4. Cardinality(VideosIn(C.in)) + Cardinality(RequestedIn(C.out)) + n <= Promised(c)
    <3>1. /\ Cardinality(VideosIn(C.in)) \in Nat /\ Cardinality(RequestedIn(C.out)) \in Nat
          /\ Promised(c) = Cardinality(VideosIn(C.in)) + Cardinality(RequestedIn(C.out)) + LeftToSend(c)
      BY PromisedIs DEF Inv
    <3>2. LeftToSend(c) = n
      BY <1>1, <1>2 DEF LeftToSend
    <3> QED BY <1>1, <3>1, <3>2
  <2>5. UNCHANGED <<clientVars, client, cliList, simError>>
    BY <1>1
  <2> HIDE DEF n
  <2> QED BY <1>1, <1>2, <2>1, <2>2, <2>3, <2>4, <2>5, SendVideoDataStep
<1>3. CASE ~(C.srv = "connected" /\ IsClientRegistered(C.ap))
  <2>1. videoTimers' = videoTimers \ {c} /\ UNCHANGED <<conns, appContext>>
    BY <1>3 DEF APVideoTimer
  <2>2. UNCHANGED <<config, radio, selfQ, threads, choice, lock, play>>
    BY DEF clientVars
  <2>3. TypeInv'
    BY <1>1, <2>1, <2>2 DEF Inv, TypeInv, radio, threads, play
  <2>4. ConnInv' /\ EntryInv' /\ TimerInv'
    BY <1>1, <2>1, <2>2 DEF Inv, ConnInv, ModeOK, EntryInv, TimerInv
  <2>5. SelfForm' /\ NoUnexpectedError'
    BY <1>1, <2>2 DEF Idle, SelfForm, NoUnexpectedError
  <2>6. config.closeTcp => SessionInv'
    <3> SUFFICES ASSUME config.closeTcp PROVE SessionInv'
      OBVIOUS
    <3>1. \A d \in ConnIds : SameEnds(conns[d], conns'[d])
      BY <2>1 DEF SameEnds
    <3>2. \A d \in ConnIds : (conns[d].kind = "info" /\ conns[d].cli # "free" /\ ~UnderWay) =>
                              conns'[d].in = <<>> /\ conns'[d].out = <<>>
      BY <2>1 DEF UnderWay, OpenTo, SocketMap, InUse
    <3>3. client'.thread # 0 => UnderWay
      BY InfoHeard
    <3> QED BY <3>1, <3>2, <3>3, ServerKeepsSession
  <2>7. config.closeTcp => VideoInv'
    <3> SUFFICES ASSUME config.closeTcp, config.app = "video", ~downloadComplete, NEW d \in ConnIds
                 PROVE  downloaded + Promised(d)' <= FileSize
      BY <2>2 DEF VideoInv, play
    <3>1. downloaded + Promised(d) <= FileSize
      BY DEF Inv, VideoInv
    <3>2. LeftToSend(d)' <= LeftToSend(d) /\ LeftToSend(d)' \in Nat
      BY <2>1 DEF LeftToSend, Inv, TypeInv
    <3>3. conns'[d] = conns[d] /\ conns[d] \in Conn
      BY <2>1 DEF Inv, TypeInv
    <3>4. Promised(d)' <= Promised(d) /\ Promised(d) \in Nat
      <4>1. /\ Cardinality(VideosIn(conns[d].in)) \in Nat /\ Cardinality(RequestedIn(conns[d].out)) \in Nat
            /\ Promised(d) \in Nat
        BY PromisedIs DEF Inv
      <4>2. /\ Cardinality(VideosIn(conns[d].in)) <= Cardinality(VideosIn(conns[d].in))
            /\ Cardinality(RequestedIn(conns[d].out)) <= Cardinality(RequestedIn(conns[d].out))
        BY <4>1
      <4> QED BY <3>2, <3>3, <4>1, <4>2, LessPromised
    <3>5. Promised(d)' \in Nat
      <4>1. PromisesCounted'
        BY <2>3, PromisedNat, PTL
      <4> QED BY <4>1 DEF PromisesCounted
    <3> QED BY <3>1, <3>4, <3>5, ConstantFacts DEF Inv, TypeInv
  <2> QED BY <2>2, <2>3, <2>4, <2>5, <2>6, <2>7 DEF Inv
<1> QED BY <1>2, <1>3

\* Whatever a server does.
LEMMA ServersStep ==
  ASSUME Inv, Servers
  PROVE  Inv'
<1>1. Idle
  BY DEF Servers
<1>2. CASE \E c \in ConnIds : APDelivers(c) /\ UNCHANGED <<client, clientVars>>
  BY <1>1, <1>2, APClassifyStep, APRequestStep, APVideoRequestStep, APUnregisterStep, APPeerClosedStep
     DEF APDelivers
<1>3. CASE \E c \in ConnIds : InfoDelivers(c) /\ UNCHANGED clientVars
  BY <1>1, <1>3, InfoClassifyStep, InfoMnClassificationStep, InfoUnregisterStep, InfoPeerClosedStep
     DEF InfoDelivers
<1>4. CASE \E c \in ConnIds : APVideoTimer(c) /\ UNCHANGED <<client, clientVars>>
  BY <1>1, <1>4, APVideoTimerStep
<1>5. CASE \E a \in AccessPoints : APClassifyTimer(a) /\ UNCHANGED <<client, clientVars>>
  BY <1>1, <1>5, APClassifyTimerStep
<1>6. CASE DoLoadBalancing /\ UNCHANGED clientVars
  BY <1>1, <1>6, DoLoadBalancingStep
<1> QED BY <1>2, <1>3, <1>4, <1>5, <1>6 DEF Servers

----------------------------------------------------------------------------
(* Steps of the client *)

LEMMA QuietStep ==
  ASSUME Inv, UNCHANGED <<conns, cliList, appContext, videoTimers, client, config, radio, selfQ,
                          apThread, infoThread, apList, newSSID, downloaded, downloadComplete, simError>>
  PROVE  Inv'
<1>1. UNCHANGED <<link, associating, assocTimers, apInitTimer>>
  BY DEF radio
<1>2. TypeInv' /\ ConnInv' /\ SelfForm' /\ EntryInv' /\ TimerInv' /\ NoUnexpectedError'
  BY <1>1 DEF Inv, TypeInv, ConnInv, ModeOK, SelfForm, EntryInv, TimerInv, NoUnexpectedError
<1>3. (OneThread => OneThread') /\ (Moving => Moving') /\ (Beginning => Beginning') /\ (Heard => Heard')
      /\ (UnderWay' => UnderWay) /\ (Met => Met')
  BY <1>1 DEF OneThread, Moving, Beginning, Heard, UnderWay, Met, OpenTo, SocketMap, InUse, InfoOpen, Due
<1>4. SessionInv => SessionInv'
  BY <1>3 DEF SessionInv
<1>5. \A c : Promised(c)' = Promised(c)
  BY DEF Promised, LeftToSend
<1>6. VideoInv => VideoInv'
  BY <1>5 DEF VideoInv
<1> QED BY <1>2, <1>4, <1>6 DEF Inv

LEMMA AfterEvent ==
  ASSUME SelfForm, selfQ # <<>>, Head(selfQ).t # "init"
  PROVE  /\ selfQ[1] = Head(selfQ)
         /\ Tail(selfQ) = <<>> \/ Tail(selfQ) = <<SelfMsg("infoClassify")>>
         /\ Head(selfQ).t # "mnClassify" => Tail(selfQ) = <<>>
         /\ Head(selfQ).t = "remove" => Head(selfQ).c \in ConnIds /\ conns[Head(selfQ).c].cli = "closed"
         /\ Head(selfQ).t = "closeAp" => config.closeTcp
         /\ Head(selfQ).t = "unregisterAp" => ~config.closeTcp
<1>1. \A g : Head(<<g>>) = g /\ Tail(<<g>>) = <<>> /\ <<g>>[1] = g
  OBVIOUS
<1>2. \A g, n : Head(<<g, n>>) = g /\ Tail(<<g, n>>) = <<n>> /\ <<g, n>>[1] = g
  OBVIOUS
<1>3. CASE selfQ = <<InfoInit>> \/ \E a \in AccessPoints : selfQ = <<InitMsg("ap", a), InfoInit>>
  <2>1. InfoInit.t = "init" /\ \A a : InitMsg("ap", a).t = "init"
    BY DEF InfoInit, InitMsg
  <2> QED BY <1>1, <1>2, <1>3, <2>1
<1>4. ASSUME NEW e \in {"infoClose", "infoClassify", "mnClassify"}, selfQ = <<SelfMsg(e)>>
      PROVE  selfQ[1] = Head(selfQ) /\ Tail(selfQ) = <<>> /\ Head(selfQ).t = e
  BY <1>1, <1>4 DEF SelfMsg
<1>5. CASE selfQ = <<SelfMsg("mnClassify"), SelfMsg("infoClassify")>>
  <2>1. selfQ[1] = Head(selfQ) /\ Tail(selfQ) = <<SelfMsg("infoClassify")>> /\ Head(selfQ).t = "mnClassify"
    BY <1>2, <1>5 DEF SelfMsg
  <2> QED BY <2>1
<1>6. CASE selfQ = <<SelfMsg(IF config.closeTcp THEN "closeAp" ELSE "unregisterAp")>>
  <2>1. selfQ[1] = Head(selfQ) /\ Tail(selfQ) = <<>>
        /\ Head(selfQ).t = IF config.closeTcp THEN "closeAp" ELSE "unregisterAp"
    BY <1>1, <1>6 DEF SelfMsg
  <2> QED BY <2>1
<1>7. ASSUME NEW c \in ConnIds, conns[c].cli = "closed", selfQ = <<[t |-> "remove", c |-> c]>>
      PROVE  selfQ[1] = Head(selfQ) /\ Tail(selfQ) = <<>> /\ Head(selfQ).t = "remove" /\ Head(selfQ).c = c
  BY <1>1, <1>7
<1> QED BY <1>3, <1>4, <1>5, <1>6, <1>7 DEF SelfForm

LEMMA StillBeforeMoving ==
  ASSUME Inv, config.closeTcp, UnderWay
  PROVE  Met /\ associating = NoAP /\ assocTimers = {} /\ apInitTimer = NoAP
<1>1. SessionInv /\ Met
  BY DEF Inv, SessionInv
<1>2. SocketMap # {} \/ selfQ # <<>>
  <2> SUFFICES ASSUME SocketMap = {}, selfQ = <<>> PROVE FALSE
    OBVIOUS
  <2>1. client.thread # 0
    BY DEF UnderWay, OpenTo
  <2>2. client.thread \in ConnIds /\ conns[client.thread].srv = "connected"
    BY <2>1 DEF Inv, TypeInv, EntryInv, ThreadIds
  <2>3. conns[client.thread].cli # "free"
    BY <2>2, FreeConnFields DEF Inv, ConnInv, ConnOK
  <2> QED BY <2>2, <2>3 DEF SocketMap, InUse
<1> QED BY <1>1, <1>2 DEF SessionInv, Moving, Met

\* A step of a client that has met its servers.
LEMMA MetStep ==
  ASSUME Inv, config.closeTcp, UnderWay,
         UNCHANGED <<config, link, apInitTimer, apThread, infoThread, apList>>,
         \A d \in ConnIds : /\ conns'[d].cli # "free" => /\ conns[d].cli # "free"
                                                         /\ conns'[d].kind = conns[d].kind
                                                         /\ conns'[d].ap = conns[d].ap
                            /\ conns'[d].cli = "connecting" => conns[d].cli = "connecting",
         ~Due("init")', Moving',
         \A d \in ConnIds : conns'[d].kind = "ap" /\ conns'[d].cli = "connected" /\ ~downloadComplete' =>
                              InfoOpen' \/ Due("closeAp")',
         Due("mnClassify")' => InfoOpen', Due("infoClose")' => downloadComplete'
  PROVE  SessionInv'
<1>1. SessionInv /\ Met /\ apInitTimer = NoAP
  BY StillBeforeMoving DEF Inv
<1>2. \A d \in SocketMap' : d \in SocketMap /\ d \in ConnIds /\ conns'[d].kind = conns[d].kind /\ conns'[d].ap = conns[d].ap
  BY DEF SocketMap, InUse
<1>3. \A d \in OpenTo("ap")' : /\ d \in OpenTo("ap") /\ d \in ConnIds /\ conns'[d].kind = "ap"
                               /\ conns'[d].cli = "connecting" => conns[d].cli = "connecting"
  BY <1>2 DEF OpenTo
<1>4. OneThread'
  BY <1>1, <1>2 DEF SessionInv, OneThread
<1>5. Met'
  BY <1>1, <1>3 DEF Met
<1>6. Beginning'
  BY <1>1 DEF Beginning
<1>7. Heard'
  BY <1>3, <1>5 DEF Heard, Met
<1> QED BY <1>4, <1>5, <1>6, <1>7 DEF SessionInv

LEMMA EndsKept ==
  ASSUME Inv, UNCHANGED <<cliList, client, config, videoTimers>>,
         \A d \in ConnIds : /\ conns'[d].kind = conns[d].kind /\ conns'[d].ap = conns[d].ap
                            /\ conns'[d].srv = conns[d].srv
                            /\ conns'[d].cli # "free" => conns[d].cli # "free"
  PROVE  EntryInv' /\ TimerInv'
<1>1. \A a \in AccessPoints : cliList[a] # 0 => cliList[a] \in ConnIds
  BY DEF Inv, TypeInv, ThreadIds
<1>2. client.thread # 0 => client.thread \in ConnIds
  BY DEF Inv, TypeInv, ThreadIds
<1>3. videoTimers \subseteq ConnIds
  BY DEF Inv, TypeInv
<1> QED BY <1>1, <1>2, <1>3 DEF Inv, EntryInv, TimerInv

\* What is heard or said on the client's ends of its connections.
LEMMA ClientStep ==
  ASSUME Inv, config.closeTcp => UnderWay /\ assocTimers' = assocTimers,
         conns' \in [ConnIds -> Conn], ConnInv',
         \A d \in ConnIds : /\ conns'[d].kind = conns[d].kind /\ conns'[d].ap = conns[d].ap
                            /\ conns'[d].srv = conns[d].srv
                            /\ \/ conns'[d].cli = conns[d].cli
                               \/ conns[d].cli # "free" /\ conns'[d].cli \in {"locallyClosed", "closed"},
         UNCHANGED <<cliList, client, appContext, videoTimers, config, link, associating, apInitTimer,
                     apThread, infoThread, apList>>,
         downloaded' \in 0 .. FileSize, downloadComplete' <=> downloaded' = FileSize,
         SelfForm', ~Due("init")',
         config.closeTcp =>
           /\ \A d \in ConnIds : conns'[d].kind = "ap" /\ conns'[d].cli = "connected" /\ ~downloadComplete' =>
                              InfoOpen' \/ Due("closeAp")'
           /\ Due("mnClassify")' => InfoOpen'
           /\ Due("infoClose")' => downloadComplete'
           /\ VideoInv',
         NoUnexpectedError'
  PROVE  Inv'
<1>1. TypeInv'
  BY DEF Inv, TypeInv
<1>2. EntryInv' /\ TimerInv'
  BY EndsKept
<1>3. ASSUME config.closeTcp PROVE SessionInv'
  <2>1. associating = NoAP /\ assocTimers = {}
    BY <1>3, StillBeforeMoving
  <2>2. Moving'
    BY <1>3, <2>1 DEF Moving
  <2>3. \A d \in ConnIds : /\ conns'[d].cli # "free" => /\ conns[d].cli # "free"
                                                        /\ conns'[d].kind = conns[d].kind
                                                        /\ conns'[d].ap = conns[d].ap
                           /\ conns'[d].cli = "connecting" => conns[d].cli = "connecting"
    OBVIOUS
  <2> QED BY <1>3, <2>2, <2>3, MetStep
<1> QED BY <1>1, <1>2, <1>3 DEF Inv

\* D is C after some messages, with the same ends and no new promise.
Follows(C, D) ==
  /\ D \in Conn /\ ConnOK(D) /\ ModeOK(D)
  /\ D.kind = C.kind /\ D.ap = C.ap /\ D.srv = C.srv
  /\ Cardinality(VideosIn(D.in)) <= Cardinality(VideosIn(C.in))
  /\ Cardinality(RequestedIn(D.out)) <= Cardinality(RequestedIn(C.out))

LEMMA Counts ==
  ASSUME NEW C \in Conn
  PROVE  /\ C.in \in Seq(ServerMsgs) /\ C.out \in Seq(ClientMsgs)
         /\ Cardinality(VideosIn(C.in)) \in Nat /\ Cardinality(RequestedIn(C.out)) \in Nat
<1>1. C.in \in Seq(ServerMsgs) /\ C.out \in Seq(ClientMsgs)
  BY DEF Conn
<1>2. Cardinality(VideosIn(C.in)) \in Nat
  BY <1>1, VideosFinite
<1>3. Cardinality(RequestedIn(C.out)) \in Nat
  BY <1>1, RequestedFinite
<1> QED BY <1>1, <1>2, <1>3

LEMMA FollowsTwice ==
  ASSUME NEW A \in Conn, NEW B, NEW C, Follows(A, B), Follows(B, C)
  PROVE  Follows(A, C)
<1>1. B \in Conn /\ C \in Conn
  BY DEF Follows
<1>2. /\ Cardinality(VideosIn(A.in)) \in Nat /\ Cardinality(RequestedIn(A.out)) \in Nat
      /\ Cardinality(VideosIn(B.in)) \in Nat /\ Cardinality(RequestedIn(B.out)) \in Nat
      /\ Cardinality(VideosIn(C.in)) \in Nat /\ Cardinality(RequestedIn(C.out)) \in Nat
  BY <1>1, Counts
<1> QED BY <1>2 DEF Follows

LEMMA Said ==
  ASSUME NEW C \in Conn, ConnOK(C), ModeOK(C), C.cli \in {"connecting", "connected"},
         NEW g \in ClientMsgs, g.t \notin {"FIN", "videoRequest"},
         config.app = "video" => g.t # "request",
         config.closeTcp => g.t # "unregister" /\ ~(C.kind = "ap" /\ C.srv = "none")
  PROVE  Follows(C, SentByClient(C, <<g>>)) /\ SentByClient(C, <<g>>).cli = C.cli
<1> DEFINE ms == <<g>>
           D == SentByClient(C, ms)
<1>1. ms \in Seq(ClientMsgs) /\ Types(ms) = {g.t} /\ Cardinality(RequestedIn(ms)) = 0
  BY Short, RequestCounted
<1> HIDE DEF ms
<1>2. D \in Conn /\ ConnOK(D) /\ D = [C EXCEPT !.out = C.out \o ms]
  BY <1>1, SendOK
<1>3. D.kind = C.kind /\ D.ap = C.ap /\ D.cli = C.cli /\ D.srv = C.srv /\ D.out = C.out \o ms /\ D.in = C.in
  BY <1>2 DEF Conn
<1> HIDE DEF D
<1>4. C.out \in Seq(ClientMsgs) /\ Cardinality(RequestedIn(C.out)) \in Nat /\ Cardinality(VideosIn(C.in)) \in Nat
  BY Counts
<1>5. Types(C.out \o ms) = Types(C.out) \cup Types(ms)
  BY <1>1, <1>4, Joined
<1>6. Cardinality(RequestedIn(C.out \o ms)) = Cardinality(RequestedIn(C.out)) + Cardinality(RequestedIn(ms))
  BY <1>1, <1>4, RequestedJoined
<1>7. ModeOK(D)
  BY <1>1, <1>3, <1>5 DEF ModeOK
<1>8. /\ Cardinality(VideosIn(D.in)) <= Cardinality(VideosIn(C.in))
      /\ Cardinality(RequestedIn(D.out)) <= Cardinality(RequestedIn(C.out))
  BY <1>1, <1>3, <1>4, <1>6
<1>9. Follows(C, D) /\ D.cli = C.cli
  BY <1>2, <1>3, <1>7, <1>8 DEF Follows
<1> QED BY <1>9 DEF D, ms

LEMMA HeardOf ==
  ASSUME NEW C \in Conn, ConnOK(C), ModeOK(C), C.in # <<>>, Head(C.in).t # "FIN"
  PROVE  /\ Follows(C, Received(C)) /\ Received(C).cli = C.cli
         /\ C.cli \in {"connected", "locallyClosed"} /\ C.srv # "none"
         /\ Head(C.in) \in ServerMsgs /\ Head(C.in).t \in Types(C.in)
         /\ Received(C).out = C.out
         /\ Cardinality(VideosIn(C.in)) =
              Cardinality(VideosIn(Received(C).in)) + IF Head(C.in).t = "video" THEN 1 ELSE 0
<1> DEFINE D == Received(C)
<1>1. D \in Conn /\ ConnOK(D) /\ D = [C EXCEPT !.in = Tail(C.in)] /\ C.cli \in {"connected", "locallyClosed"}
  BY ReceiveOK
<1>2. D.kind = C.kind /\ D.ap = C.ap /\ D.cli = C.cli /\ D.srv = C.srv /\ D.out = C.out /\ D.in = Tail(C.in)
  BY <1>1 DEF Conn
<1> HIDE DEF D
<1>3. C.in \in Seq(ServerMsgs) /\ Cardinality(RequestedIn(C.out)) \in Nat /\ Cardinality(VideosIn(C.in)) \in Nat
      /\ Cardinality(VideosIn(D.in)) \in Nat
  BY <1>1, Counts
<1>4. Head(C.in) \in ServerMsgs /\ Types(C.in) = {Head(C.in).t} \cup Types(Tail(C.in))
  BY <1>3, HeadAndTail
<1>5. Cardinality(VideosIn(C.in)) = Cardinality(VideosIn(Tail(C.in))) + IF Head(C.in).t = "video" THEN 1 ELSE 0
  BY <1>3, VideosTaken
<1>6. ModeOK(D)
  BY <1>2, <1>4 DEF ModeOK
<1>7. C.srv # "none"
  BY FreeConnFields DEF ConnOK, Opened
<1>8. /\ Cardinality(VideosIn(D.in)) <= Cardinality(VideosIn(C.in))
      /\ Cardinality(RequestedIn(D.out)) <= Cardinality(RequestedIn(C.out))
  BY <1>2, <1>3, <1>5
<1>9. Follows(C, D)
  BY <1>1, <1>2, <1>6, <1>8 DEF Follows
<1> QED BY <1>1, <1>2, <1>4, <1>5, <1>7, <1>9 DEF D

LEMMA ClosedOf ==
  ASSUME NEW C \in Conn, ConnOK(C), ModeOK(C), C.cli = "connected"
  PROVE  /\ Follows(C, ClosedByClient(C)) /\ ClosedByClient(C).cli = "locallyClosed"
         /\ CallClosed(C) = ClosedByClient(C) /\ ClosedByClient(C).in = C.in
<1> DEFINE D == ClosedByClient(C)
           ms == <<Fin>>
<1>1. /\ D \in Conn /\ ConnOK(D) /\ D = [C EXCEPT !.cli = "locallyClosed", !.out = Append(C.out, Fin)]
      /\ CallClosed(C) = D
  BY CloseOK
<1>2. /\ D.kind = C.kind /\ D.ap = C.ap /\ D.cli = "locallyClosed" /\ D.srv = C.srv
      /\ D.out = Append(C.out, Fin) /\ D.in = C.in
  BY <1>1 DEF Conn
<1> HIDE DEF D
<1>3. C.out \in Seq(ClientMsgs) /\ Cardinality(RequestedIn(C.out)) \in Nat /\ Cardinality(VideosIn(C.in)) \in Nat
  BY Counts
<1>4. Fin \in ClientMsgs /\ Fin.t = "FIN"
  BY Messages DEF Fin
<1>5. ms \in Seq(ClientMsgs) /\ Types(ms) = {"FIN"} /\ Cardinality(RequestedIn(ms)) = 0
  BY <1>4, Short, RequestCounted
<1>6. D.out = C.out \o ms
  BY <1>2, <1>3, <1>4, AppendIsConcat
<1> HIDE DEF ms
<1>7. Types(C.out \o ms) = Types(C.out) \cup Types(ms)
  BY <1>3, <1>5, Joined
<1>8. Cardinality(RequestedIn(C.out \o ms)) = Cardinality(RequestedIn(C.out)) + Cardinality(RequestedIn(ms))
  BY <1>3, <1>5, RequestedJoined
<1>9. C.srv # "none"
  BY FreeConnFields DEF ConnOK, Opened
<1>10. ModeOK(D)
  BY <1>2, <1>5, <1>6, <1>7, <1>9 DEF ModeOK
<1>11. /\ Cardinality(VideosIn(D.in)) <= Cardinality(VideosIn(C.in))
       /\ Cardinality(RequestedIn(D.out)) <= Cardinality(RequestedIn(C.out))
  BY <1>2, <1>3, <1>5, <1>6, <1>8
<1>12. Follows(C, D)
  BY <1>1, <1>2, <1>10, <1>11 DEF Follows
<1> QED BY <1>1, <1>2, <1>12 DEF D

\* The promises after such a step, when nothing was downloaded by it.
LEMMA FollowedPromise ==
  ASSUME Inv, config.closeTcp, TypeInv', NEW c \in ConnIds, NEW D, Follows(conns[c], D),
         conns' = [conns EXCEPT ![c] = D],
         UNCHANGED <<config, videoTimers, appContext, downloaded, downloadComplete>>
  PROVE  VideoInv'
<1>1. Put(c, D)
  BY DEF Put, Follows
<1>2. conns'[c] = D
  BY <1>1, PutOK DEF Inv
<1>3. LeftToSend(c)' = LeftToSend(c) /\ LeftToSend(c) \in Nat
  BY <1>2, PromisedIs DEF LeftToSend, Follows, Inv
<1>4. Promised(c)' <= Promised(c)
  BY <1>2, <1>3, LessPromised DEF Follows
<1> QED BY <1>1, <1>4, VideoPut

LEMMA FollowStep ==
  ASSUME Inv, config.closeTcp => UnderWay /\ assocTimers' = assocTimers,
         NEW c \in ConnIds, NEW D, Follows(conns[c], D),
         D.cli = conns[c].cli \/ (conns[c].cli # "free" /\ D.cli \in {"locallyClosed", "closed"}),
         conns' = [conns EXCEPT ![c] = D],
         UNCHANGED <<cliList, client, appContext, videoTimers, config, link, associating, apInitTimer,
                     apThread, infoThread, apList, downloaded, downloadComplete>>,
         SelfForm', ~Due("init")',
         config.closeTcp =>
           /\ \A d \in ConnIds : conns'[d].kind = "ap" /\ conns'[d].cli = "connected" /\ ~downloadComplete' =>
                              InfoOpen' \/ Due("closeAp")'
           /\ Due("mnClassify")' => InfoOpen'
           /\ Due("infoClose")' => downloadComplete',
         NoUnexpectedError'
  PROVE  Inv'
<1>1. Put(c, D)
  BY DEF Put, Follows
<1>2. /\ conns' \in [ConnIds -> Conn] /\ ConnInv'
      /\ conns'[c] = D /\ \A d \in ConnIds \ {c} : conns'[d] = conns[d]
  BY <1>1, PutOK DEF Inv
<1>3. \A d \in ConnIds : /\ conns'[d].kind = conns[d].kind /\ conns'[d].ap = conns[d].ap
                         /\ conns'[d].srv = conns[d].srv
                         /\ \/ conns'[d].cli = conns[d].cli
                            \/ conns[d].cli # "free" /\ conns'[d].cli \in {"locallyClosed", "closed"}
  BY <1>2 DEF Follows
<1>4. downloaded' \in 0 .. FileSize /\ (downloadComplete' <=> downloaded' = FileSize)
  BY DEF Inv, TypeInv
<1>5. TypeInv'
  BY <1>2, <1>4 DEF Inv, TypeInv
<1>6. config.closeTcp => VideoInv'
  BY <1>5, FollowedPromise
<1> QED BY <1>2, <1>3, <1>4, <1>6, ClientStep

LEMMA FollowsItself ==
  ASSUME Inv, NEW c \in ConnIds
  PROVE  Follows(conns[c], conns[c])
<1>1. conns[c] \in Conn /\ ConnOK(conns[c]) /\ ModeOK(conns[c])
  BY DEF Inv, TypeInv, ConnInv
<1>2. Cardinality(VideosIn(conns[c].in)) \in Nat /\ Cardinality(RequestedIn(conns[c].out)) \in Nat
  BY <1>1, Counts
<1> QED BY <1>1, <1>2 DEF Follows

\* The events of the present moment that leave the connections where they are in their lives.
LEMMA SelfSends ==
  ASSUME Inv, selfQ # <<>>, Head(selfQ).t # "init", selfQ' = Tail(selfQ),
         NEW c \in ConnIds, NEW D, Follows(conns[c], D), D.cli = conns[c].cli,
         conns' = [conns EXCEPT ![c] = D],
         UNCHANGED <<cliList, client, appContext, videoTimers, config, link, associating, assocTimers, apInitTimer,
                     apThread, infoThread, apList, downloaded, downloadComplete>>,
         Head(selfQ).t # "closeAp", NoUnexpectedError'
  PROVE  Inv'
<1>1. SelfForm /\ selfQ[1] = Head(selfQ) /\ (selfQ' = <<>> \/ selfQ' = <<SelfMsg("infoClassify")>>)
  BY AfterEvent DEF Inv
<1>2. \A g : <<g>> # <<>> /\ <<g>>[1] = g
  OBVIOUS
<1>3. SelfMsg("infoClassify").t = "infoClassify"
  BY DEF SelfMsg
<1>4. \A t : Due(t)' => t = "infoClassify"
  BY <1>1, <1>2, <1>3 DEF Due
<1>5. SelfForm'
  BY <1>1 DEF SelfForm
<1>6. UnderWay
  BY <1>1 DEF UnderWay
<1>7. Put(c, D)
  BY DEF Put, Follows
<1>8. conns'[c] = D /\ \A d \in ConnIds \ {c} : conns'[d] = conns[d]
  BY <1>7, PutOK DEF Inv
<1>9. \A d \in ConnIds : conns'[d].kind = conns[d].kind /\ conns'[d].cli = conns[d].cli
  BY <1>8 DEF Follows
<1>10. InfoOpen' <=> InfoOpen
  BY <1>9 DEF InfoOpen, Inv, TypeInv, ThreadIds
<1>11. ASSUME config.closeTcp, NEW d \in ConnIds, conns'[d].kind = "ap", conns'[d].cli = "connected", ~downloadComplete'
       PROVE  InfoOpen'
  <2>1. d \in OpenTo("ap") /\ conns[d].cli = "connected"
    BY <1>9, <1>11 DEF OpenTo, SocketMap, InUse
  <2>2. Heard /\ ~Due("closeAp")
    BY <1>1, <1>11 DEF Inv, SessionInv, Due
  <2> QED BY <1>10, <1>11, <2>1, <2>2 DEF Heard
<1>12. ~Due("init")' /\ ~Due("mnClassify")' /\ ~Due("infoClose")'
  BY <1>4
<1> QED BY <1>5, <1>6, <1>11, <1>12, FollowStep

LEMMA SelfFramed ==
  ASSUME RestOfSelf, UNCHANGED radio
  PROVE  /\ selfQ' = Tail(selfQ)
         /\ UNCHANGED <<client, config, link, associating, assocTimers, apInitTimer,
                        apThread, infoThread, apList, downloaded, downloadComplete>>
BY DEF RestOfSelf, radio, threads, play

LEMMA SelfInfoClassifyStep ==
  ASSUME Inv, selfQ # <<>>, simError = "none", Head(selfQ).t = "infoClassify", SelfInfoClassify
  PROVE  Inv'
<1>1. /\ selfQ' = Tail(selfQ) /\ UNCHANGED <<cliList, appContext, videoTimers>>
      /\ UNCHANGED <<client, config, link, associating, assocTimers, apInitTimer,
                     apThread, infoThread, apList, downloaded, downloadComplete>>
  BY SelfFramed DEF SelfInfoClassify, Fails, apVars
<1>2. selfQ[1] = Head(selfQ)
  BY AfterEvent DEF Inv
<1>3. config.closeTcp => infoThread # 0
  BY <1>2, StillBeforeMoving DEF UnderWay, Met
<1>4. NoUnexpectedError'
  BY <1>1, <1>3 DEF SelfInfoClassify, NoUnexpectedError, apVars
<1>5. CASE infoThread # 0 /\ conns[infoThread].cli = "connected"
  <2> DEFINE C == conns[infoThread]
             g == Msg("classify")
             D == SentByClient(C, <<g>>)
  <2>1. infoThread \in ConnIds
    BY <1>5 DEF Inv, TypeInv, ThreadIds
  <2>2. C \in Conn /\ ConnOK(C) /\ ModeOK(C) /\ C.cli = "connected" /\ C.srv = "connected"
    BY <1>5, <2>1, FreeConnFields DEF Inv, TypeInv, ConnInv, ConnOK, Opened
  <2>3. g \in ClientMsgs /\ g.t = "classify"
    BY ServerTypes
  <2>4. conns' = [conns EXCEPT ![infoThread] = D]
    BY <1>5 DEF SelfInfoClassify
  <2> HIDE DEF g
  <2>5. Follows(C, D) /\ D.cli = C.cli
    BY <2>2, <2>3, Said
  <2> HIDE DEF D
  <2> QED BY <1>1, <1>4, <2>1, <2>4, <2>5, SelfSends
<1>6. CASE ~(infoThread # 0 /\ conns[infoThread].cli = "connected")
  <2>1. conns' = conns /\ 1 \in ConnIds
    BY <1>6, MaxConnsAssumption DEF SelfInfoClassify, ConnIds
  <2>2. conns' = [conns EXCEPT ![1] = conns[1]]
    BY <2>1 DEF Inv, TypeInv
  <2>3. Follows(conns[1], conns[1])
    BY <2>1, FollowsItself
  <2> QED BY <1>1, <1>4, <2>1, <2>2, <2>3, SelfSends
<1> QED BY <1>5, <1>6

LEMMA SelfMnClassifyStep ==
  ASSUME Inv, selfQ # <<>>, simError = "none", Head(selfQ).t = "mnClassify", SelfMnClassify
  PROVE  Inv'
<1>1. /\ selfQ' = Tail(selfQ) /\ UNCHANGED <<cliList, appContext, videoTimers>>
      /\ UNCHANGED <<client, config, link, associating, assocTimers, apInitTimer,
                     apThread, infoThread, apList, downloaded, downloadComplete>>
  BY SelfFramed DEF SelfMnClassify, Fails, apVars
<1>2. selfQ[1] = Head(selfQ)
  BY AfterEvent DEF Inv
<1>3. config.closeTcp => infoThread # 0 /\ conns[infoThread].kind = "info"
                         /\ conns[infoThread].cli \in {"connecting", "connected"}
  BY <1>2 DEF Inv, SessionInv, Heard, Due, InfoOpen
<1>4. NoUnexpectedError'
  BY <1>1, <1>3 DEF SelfMnClassify, NoUnexpectedError, apVars
<1>5. CASE infoThread # 0 /\ conns[infoThread].cli \in {"connecting", "connected"}
  <2> DEFINE C == conns[infoThread]
             g == [t |-> "mn", assocAP |-> link]
             D == SentByClient(C, <<g>>)
  <2>1. infoThread \in ConnIds
    BY <1>5 DEF Inv, TypeInv, ThreadIds
  <2>2. C \in Conn /\ ConnOK(C) /\ ModeOK(C) /\ C.cli \in {"connecting", "connected"}
    BY <1>5, <2>1 DEF Inv, TypeInv, ConnInv
  <2>3. g \in ClientMsgs /\ g.t = "mn"
    BY DEF Inv, TypeInv, ClientMsgs
  <2>4. conns' = [conns EXCEPT ![infoThread] = D]
    BY <1>5 DEF SelfMnClassify, SendClassificationMN
  <2>5. config.closeTcp => C.kind # "ap"
    BY <1>3
  <2> HIDE DEF g, C
  <2>6. Follows(C, D) /\ D.cli = C.cli
    BY <2>2, <2>3, <2>5, Said
  <2> HIDE DEF D
  <2> QED BY <1>1, <1>4, <2>1, <2>4, <2>6, SelfSends DEF C
<1>6. CASE ~(infoThread # 0 /\ conns[infoThread].cli \in {"connecting", "connected"})
  <2>1. conns' = conns /\ 1 \in ConnIds
    BY <1>6, MaxConnsAssumption DEF SelfMnClassify, ConnIds
  <2>2. conns' = [conns EXCEPT ![1] = conns[1]]
    BY <2>1 DEF Inv, TypeInv
  <2>3. Follows(conns[1], conns[1])
    BY <2>1, FollowsItself
  <2> QED BY <1>1, <1>4, <2>1, <2>2, <2>3, SelfSends
<1> QED BY <1>5, <1>6

LEMMA SelfUnregisterAPStep ==
  ASSUME Inv, selfQ # <<>>, simError = "none", Head(selfQ).t = "unregisterAp", SelfUnregisterAP
  PROVE  Inv'
<1>1. /\ selfQ' = Tail(selfQ) /\ UNCHANGED <<cliList, appContext, videoTimers>>
      /\ UNCHANGED <<client, config, link, associating, assocTimers, apInitTimer,
                     apThread, infoThread, apList, downloaded, downloadComplete>>
  BY SelfFramed DEF SelfUnregisterAP, Fails, apVars
<1>2. ~config.closeTcp
  BY AfterEvent DEF Inv
<1>4. NoUnexpectedError'
  BY <1>1, <1>2 DEF NoUnexpectedError
<1>5. CASE apThread # 0 /\ conns[apThread].cli \in {"connecting", "connected"}
  <2> DEFINE C == conns[apThread]
             g == Msg("unregister")
             D == SentByClient(C, <<g>>)
  <2>1. apThread \in ConnIds
    BY <1>5 DEF Inv, TypeInv, ThreadIds
  <2>2. C \in Conn /\ ConnOK(C) /\ ModeOK(C) /\ C.cli \in {"connecting", "connected"}
    BY <1>5, <2>1 DEF Inv, TypeInv, ConnInv
  <2>3. g \in ClientMsgs /\ g.t = "unregister"
    BY ServerTypes
  <2>4. conns' = [conns EXCEPT ![apThread] = D]
    BY <1>5 DEF SelfUnregisterAP
  <2> HIDE DEF g, C
  <2>6. Follows(C, D) /\ D.cli = C.cli
    BY <1>2, <2>2, <2>3, Said
  <2> HIDE DEF D
  <2> QED BY <1>1, <1>4, <2>1, <2>4, <2>6, SelfSends DEF C
<1>6. CASE ~(apThread # 0 /\ conns[apThread].cli \in {"connecting", "connected"})
  <2>1. conns' = conns /\ 1 \in ConnIds
    BY <1>6, MaxConnsAssumption DEF SelfUnregisterAP, ConnIds
  <2>2. conns' = [conns EXCEPT ![1] = conns[1]]
    BY <2>1 DEF Inv, TypeInv
  <2>3. Follows(conns[1], conns[1])
    BY <2>1, FollowsItself
  <2> QED BY <1>1, <1>4, <2>1, <2>2, <2>3, SelfSends
<1> QED BY <1>5, <1>6

LEMMA CalledToClose ==
  ASSUME NEW C \in Conn, ConnOK(C), ModeOK(C)
  PROVE  /\ Follows(C, CallClosed(C)) /\ CallClosed(C).cli # "connected"
         /\ CallClosed(C).cli = C.cli \/ (C.cli # "free" /\ CallClosed(C).cli = "locallyClosed")
         /\ CallClosed(C).in = C.in
<1>1. CASE C.cli = "connected"
  BY <1>1, ClosedOf
<1>2. CASE C.cli # "connected"
  <2>1. CallClosed(C) = C
    BY <1>2 DEF CallClosed
  <2>2. Cardinality(VideosIn(C.in)) \in Nat /\ Cardinality(RequestedIn(C.out)) \in Nat
    BY Counts
  <2> QED BY <1>2, <2>1, <2>2 DEF Follows
<1> QED BY <1>1, <1>2

LEMMA SelfCloseAPStep ==
  ASSUME Inv, selfQ # <<>>, simError = "none", Head(selfQ).t = "closeAp", SelfCloseAP
  PROVE  Inv'
<1>1. /\ selfQ' = Tail(selfQ) /\ UNCHANGED <<cliList, appContext, videoTimers>>
      /\ UNCHANGED <<client, config, link, associating, assocTimers, apInitTimer,
                     apThread, infoThread, apList, downloaded, downloadComplete>>
  BY SelfFramed DEF SelfCloseAP, Fails, apVars
<1>2. selfQ[1] = Head(selfQ) /\ config.closeTcp /\ selfQ' = <<>>
  BY <1>1, AfterEvent DEF Inv
<1>3. UnderWay
  BY <1>2 DEF UnderWay
<1>4. apThread # 0 /\ apThread \in ConnIds /\ OneThread
  BY <1>2, <1>3, StillBeforeMoving DEF Met, Inv, TypeInv, ThreadIds, SessionInv
<1>5. NoUnexpectedError'
  BY <1>1, <1>4 DEF SelfCloseAP, NoUnexpectedError, apVars
<1> DEFINE C == conns[apThread]
           D == CallClosed(C)
<1>6. C \in Conn /\ ConnOK(C) /\ ModeOK(C)
  BY <1>4 DEF Inv, TypeInv, ConnInv
<1>7. conns' = [conns EXCEPT ![apThread] = D]
  BY <1>4 DEF SelfCloseAP
<1>8. /\ Follows(C, D) /\ D.cli # "connected"
      /\ D.cli = C.cli \/ (C.cli # "free" /\ D.cli = "locallyClosed")
  BY <1>6, CalledToClose
<1> HIDE DEF D
<1>9. \A d \in ConnIds : ~(conns'[d].kind = "ap" /\ conns'[d].cli = "connected")
  <2> SUFFICES ASSUME NEW d \in ConnIds, conns'[d].kind = "ap", conns'[d].cli = "connected" PROVE FALSE
    OBVIOUS
  <2>1. conns'[apThread] = D /\ (d # apThread => conns'[d] = conns[d])
    BY <1>4, <1>7 DEF Inv, TypeInv
  <2>2. d # apThread
    BY <1>8, <2>1
  <2> QED BY <1>4, <2>1, <2>2 DEF OneThread, SocketMap, InUse
<1>10. SelfForm' /\ \A t : ~Due(t)'
  BY <1>2 DEF SelfForm, Due
<1> QED BY <1>1, <1>3, <1>4, <1>5, <1>7, <1>8, <1>9, <1>10, FollowStep

LEMMA SelfInfoCloseStep ==
  ASSUME Inv, selfQ # <<>>, simError = "none", Head(selfQ).t = "infoClose", SelfInfoClose
  PROVE  Inv'
<1>1. /\ selfQ' = Tail(selfQ) /\ UNCHANGED <<cliList, appContext, videoTimers>>
      /\ UNCHANGED <<client, config, link, associating, assocTimers, apInitTimer,
                     apThread, infoThread, apList, downloaded, downloadComplete>>
  BY SelfFramed DEF SelfInfoClose, Fails, apVars
<1>2. selfQ[1] = Head(selfQ) /\ selfQ' = <<>>
  BY <1>1, AfterEvent DEF Inv
<1>3. UnderWay
  BY <1>2 DEF UnderWay
<1>4. config.closeTcp => infoThread # 0 /\ downloadComplete
  BY <1>2, <1>3, StillBeforeMoving DEF Met, Inv, SessionInv, Heard, Due
<1>5. NoUnexpectedError'
  BY <1>1, <1>4 DEF SelfInfoClose, NoUnexpectedError, apVars
<1>10. SelfForm' /\ \A t : ~Due(t)'
  BY <1>2 DEF SelfForm, Due
<1>11. config.closeTcp => downloadComplete'
  BY <1>1, <1>4
<1>6. CASE infoThread # 0
  <2> DEFINE C == conns[infoThread]
             D == CallClosed(C)
  <2>1. infoThread \in ConnIds
    BY <1>6 DEF Inv, TypeInv, ThreadIds
  <2>2. C \in Conn /\ ConnOK(C) /\ ModeOK(C)
    BY <2>1 DEF Inv, TypeInv, ConnInv
  <2>3. conns' = [conns EXCEPT ![infoThread] = D]
    BY <1>6 DEF SelfInfoClose
  <2>4. /\ Follows(C, D) /\ D.cli # "connected"
        /\ D.cli = C.cli \/ (C.cli # "free" /\ D.cli = "locallyClosed")
    BY <2>2, CalledToClose
  <2> HIDE DEF D
  <2> QED BY <1>1, <1>3, <1>5, <1>10, <1>11, <2>1, <2>3, <2>4, FollowStep
<1>7. CASE infoThread = 0
  <2>1. conns' = conns /\ 1 \in ConnIds
    BY <1>7, MaxConnsAssumption DEF SelfInfoClose, ConnIds
  <2>2. conns' = [conns EXCEPT ![1] = conns[1]]
    BY <2>1 DEF Inv, TypeInv
  <2>3. Follows(conns[1], conns[1])
    BY <2>1, FollowsItself
  <2> QED BY <1>1, <1>3, <1>5, <1>10, <1>11, <2>1, <2>2, <2>3, FollowStep
<1> QED BY <1>6, <1>7

LEMMA FreeAgain ==
  /\ ConnOK(FreeConn) /\ ModeOK(FreeConn)
  /\ Cardinality(VideosIn(FreeConn.in)) = 0 /\ Cardinality(RequestedIn(FreeConn.out)) = 0
<1>1. ConnOK(FreeConn) /\ ModeOK(FreeConn)
  BY FreeConnFields, Short DEF ConnOK, ModeOK
<1>2. <<>> \in Seq(ServerMsgs) /\ <<>> \in Seq(ClientMsgs)
  OBVIOUS
<1>3. Cardinality(VideosIn(<<>>)) = 0
  BY <1>2, Short, VideosFinite
<1>4. Cardinality(RequestedIn(<<>>)) = 0
  BY <1>2, Short, RequestedFinite
<1> QED BY <1>1, <1>3, <1>4, FreeConnFields

LEMMA SelfRemoveStep ==
  ASSUME Inv, selfQ # <<>>, simError = "none", Head(selfQ).t = "remove", SelfRemove
  PROVE  Inv'
<1>0. PICK r \in ConnIds : r = Head(selfQ).c
  BY AfterEvent DEF Inv
<1>1. /\ selfQ' = Tail(selfQ) /\ UNCHANGED <<cliList, appContext, videoTimers, simError>>
      /\ UNCHANGED <<client, config, link, associating, apInitTimer, newSSID,
                     apThread, infoThread, apList, downloaded, downloadComplete>>
      /\ conns' = [conns EXCEPT ![r] = FreeConn]
      /\ assocTimers' = IF SocketMap = {r} /\ ~downloadComplete
                        THEN assocTimers \cup {newSSID} ELSE assocTimers
  BY <1>0 DEF SelfRemove, apVars, RestOfSelf, threads, play, choice
<1>2. selfQ[1] = Head(selfQ) /\ selfQ' = <<>> /\ r \in ConnIds /\ conns[r].cli = "closed"
  BY <1>0, <1>1, AfterEvent DEF Inv
<1>3. UnderWay
  BY <1>2 DEF UnderWay
<1>4. conns[r].srv = "closed" /\ conns[r] \in Conn
  BY <1>2, FreeConnFields DEF Inv, TypeInv, ConnInv, ConnOK, Ended
<1>5. Put(r, FreeConn)
  BY <1>1, FreeConnFields, FreeAgain DEF Put
<1>6. /\ conns' \in [ConnIds -> Conn] /\ ConnInv'
      /\ conns'[r] = FreeConn /\ \A d \in ConnIds \ {r} : conns'[d] = conns[d]
  BY <1>2, <1>5, PutOK DEF Inv
<1>7. TypeInv'
  BY <1>1, <1>6 DEF Inv, TypeInv
<1>8. SelfForm' /\ \A t : ~Due(t)'
  BY <1>2 DEF SelfForm, Due
<1>9. EntryInv'
  BY <1>1, <1>4, <1>6, FreeConnFields DEF Inv, TypeInv, EntryInv, ThreadIds
<1>10. TimerInv'
  <2>1. videoTimers' \subseteq ConnIds /\ \A d \in ConnIds \ {r} : d \in videoTimers' => d \in videoTimers
    BY <1>1 DEF Inv, TypeInv
  <2> QED BY <1>2, <1>5, <2>1, FreeConnFields, TimerPut
<1>11. ASSUME config.closeTcp PROVE VideoInv'
  <2>1. LeftToSend(r)' = 0
    BY <1>6, FreeConnFields DEF LeftToSend
  <2>2. LeftToSend(r) \in Nat
    BY <1>2, PromisedIs DEF Inv
  <2>3. Cardinality(VideosIn(conns[r].in)) \in Nat /\ Cardinality(RequestedIn(conns[r].out)) \in Nat
    BY <1>4, Counts
  <2>4. Promised(r)' <= Promised(r)
    BY <1>2, <1>6, <2>1, <2>2, <2>3, FreeConnFields, FreeAgain, LessPromised
  <2> QED BY <1>1, <1>2, <1>5, <1>7, <1>11, <2>4, VideoPut
<1>12. ASSUME config.closeTcp PROVE SessionInv'
  <2>1. SessionInv /\ Met /\ associating = NoAP /\ assocTimers = {} /\ apInitTimer = NoAP
    BY <1>3, <1>12, StillBeforeMoving DEF Inv
  <2>2. SocketMap' = SocketMap \ {r}
    BY <1>6, FreeConnFields DEF SocketMap, InUse
  <2>3. Moving'
    BY <1>1, <1>2, <2>1, <2>2 DEF Moving
  <2>4. ASSUME NEW d \in ConnIds, conns'[d].kind = "ap", conns'[d].cli = "connected", ~downloadComplete'
        PROVE  InfoOpen'
    <3>1. d # r /\ conns'[d] = conns[d]
      BY <1>6, <2>4, FreeConnFields
    <3>2. d \in OpenTo("ap")
      BY <2>4, <3>1 DEF OpenTo, SocketMap, InUse
    <3>3. InfoOpen
      BY <1>1, <1>2, <2>1, <2>4, <3>1, <3>2 DEF SessionInv, Heard, Due
    <3>4. infoThread # r /\ infoThread \in ConnIds
      BY <1>2, <3>3 DEF InfoOpen, Inv, TypeInv, ThreadIds
    <3> QED BY <1>1, <1>6, <3>3, <3>4 DEF InfoOpen
  <2>5. \A d \in ConnIds : /\ conns'[d].cli # "free" => /\ conns[d].cli # "free"
                                                        /\ conns'[d].kind = conns[d].kind
                                                        /\ conns'[d].ap = conns[d].ap
                           /\ conns'[d].cli = "connecting" => conns[d].cli = "connecting"
    BY <1>6, FreeConnFields
  <2> QED BY <1>1, <1>3, <1>8, <1>12, <2>3, <2>4, <2>5, MetStep
<1>13. NoUnexpectedError'
  BY <1>1 DEF Inv, NoUnexpectedError
<1> QED BY <1>1, <1>6, <1>7, <1>8, <1>9, <1>10, <1>11, <1>12, <1>13 DEF Inv

----------------------------------------------------------------------------
(* New connections *)

Below == {p \in Nat \X Nat : p[1] < p[2]}

LEMMA BelowWellFounded == IsWellFoundedOn(Below, Nat)
BY NatLessThanWellFounded DEF OpToRel, Below

LEMMA LeastNumber ==
  ASSUME NEW T, T \subseteq Nat, T # {}
  PROVE  Min(T) \in T
<1>1. PICK x \in T : \A y \in T : ~(<<y, x>> \in Below)
  BY BelowWellFounded, WFMin
<1>2. ASSUME NEW y \in T PROVE x <= y
  <2>1. x \in Nat /\ y \in Nat /\ ~(<<y, x>> \in Below)
    BY <1>1
  <2>2. y < x => <<y, x>> \in Below
    BY <2>1 DEF Below
  <2> QED BY <2>1, <2>2
<1> QED BY <1>2 DEF Min

\* The connection c is opened.
Opens(c, kind, ap) ==
  /\ c \in Reusable
  /\ conns' = [conns EXCEPT ![c] = Connecting(kind, ap)]
  /\ apThread' = IF kind = "ap" THEN c ELSE apThread
  /\ infoThread' = IF kind = "ap" THEN infoThread ELSE c
  /\ UNCHANGED <<cliList, appContext, videoTimers, simError, client, config, link, associating, assocTimers,
                 apList, newSSID, downloaded, downloadComplete>>

LEMMA InitOpens ==
  ASSUME NEW kind, NEW ap, InitConnection(kind, ap)
  PROVE  \E c \in ConnIds : Opens(c, kind, ap)
<1> DEFINE c == Min(Reusable)
<1>1. c \in Reusable
  <2>1. Reusable # {} /\ Reusable \subseteq Nat
    BY ConstantFacts DEF InitConnection, Reusable
  <2> QED BY <2>1, LeastNumber
<1>2. /\ conns' = [conns EXCEPT ![c] = Connecting(kind, ap)]
      /\ apThread' = IF kind = "ap" THEN c ELSE apThread
      /\ infoThread' = IF kind = "ap" THEN infoThread ELSE c
  BY DEF InitConnection
<1> HIDE DEF c
<1>3. UNCHANGED <<cliList, appContext, videoTimers, simError, client, config, link, associating, assocTimers,
                  apList, newSSID, downloaded, downloadComplete>>
  BY DEF InitConnection, serverVars, apVars, play, choice
<1>4. c \in ConnIds
  BY <1>1 DEF Reusable
<1> QED BY <1>1, <1>2, <1>3, <1>4 DEF Opens

LEMMA Opened1 ==
  ASSUME Inv, NEW c \in ConnIds, NEW kind \in {"ap", "info"}, NEW ap \in APOrNone,
         kind = "ap" => ap \in AccessPoints, Opens(c, kind, ap)
  PROVE  /\ conns[c].cli = "free" /\ conns'[c] = Connecting(kind, ap)
         /\ \A d \in ConnIds \ {c} : conns'[d] = conns[d]
         /\ SocketMap' = SocketMap \cup {c} /\ c \notin SocketMap
         /\ conns'[c].kind = kind /\ conns'[c].ap = ap /\ conns'[c].cli = "connecting"
         /\ conns'[c].in = <<>> /\ conns'[c].out = <<>>
         /\ kind = "ap" => OpenTo("ap")' = OpenTo("ap") \cup {c} /\ OpenTo("info")' = OpenTo("info")
         /\ kind = "info" => OpenTo("info")' = OpenTo("info") \cup {c} /\ OpenTo("ap")' = OpenTo("ap")
         /\ Put(c, Connecting(kind, ap))
<1> DEFINE D == Connecting(kind, ap)
<1>1. /\ D \in Conn /\ ConnOK(D) /\ ModeOK(D) /\ D.kind = kind /\ D.ap = ap /\ D.cli = "connecting"
      /\ D.in = <<>> /\ D.out = <<>>
  BY ConnectingOK
<1>2. Put(c, D)
  BY <1>1 DEF Put, Opens
<1> HIDE DEF D
<1>3. conns'[c] = D /\ \A d \in ConnIds \ {c} : conns'[d] = conns[d]
  BY <1>2, PutOK DEF Inv
<1>4. conns[c].cli = "free"
  BY DEF Opens, Reusable, InUse
<1>5. SocketMap' = SocketMap \cup {c} /\ c \notin SocketMap
  BY <1>1, <1>3, <1>4 DEF SocketMap, InUse
<1>6. /\ kind = "ap" => OpenTo("ap")' = OpenTo("ap") \cup {c} /\ OpenTo("info")' = OpenTo("info")
      /\ kind = "info" => OpenTo("info")' = OpenTo("info") \cup {c} /\ OpenTo("ap")' = OpenTo("ap")
  BY <1>1, <1>3, <1>5 DEF OpenTo, SocketMap
<1> QED BY <1>1, <1>2, <1>3, <1>4, <1>5, <1>6 DEF D

LEMMA OpensStep ==
  ASSUME Inv, NEW c \in ConnIds, NEW kind \in {"ap", "info"}, NEW ap \in APOrNone,
         kind = "ap" => ap \in AccessPoints, Opens(c, kind, ap),
         apInitTimer' \in APOrNone, SelfForm', config.closeTcp => SessionInv'
  PROVE  Inv'
<1> DEFINE D == Connecting(kind, ap)
<1>1. /\ conns'[c] = D /\ Put(c, D) /\ conns[c].cli = "free"
  BY Opened1
<1>2. D \in Conn /\ D.srv = "none" /\ D.in = <<>> /\ D.out = <<>> /\ ConnOK(D)
  BY ConnectingOK
<1> HIDE DEF D
<1>3. /\ conns' \in [ConnIds -> Conn] /\ ConnInv'
      /\ conns'[c] = D /\ \A d \in ConnIds \ {c} : conns'[d] = conns[d]
  BY <1>1, PutOK DEF Inv
<1>4. /\ UNCHANGED <<cliList, appContext, videoTimers, simError, client, config, downloaded, downloadComplete>>
      /\ c \notin videoTimers /\ client.thread # c /\ \A a \in AccessPoints : cliList[a] # c
  BY DEF Opens, Reusable
<1>5. TypeInv'
  BY <1>3, <1>4 DEF Inv, TypeInv, Opens, ThreadIds
<1>6. EntryInv'
  BY <1>2, <1>3, <1>4 DEF Inv, TypeInv, EntryInv, ThreadIds
<1>7. TimerInv'
  <2>1. videoTimers' \subseteq ConnIds /\ \A d \in ConnIds \ {c} : d \in videoTimers' => d \in videoTimers
    BY <1>4 DEF Inv, TypeInv
  <2> QED BY <1>1, <1>4, <2>1, TimerPut
<1>8. ASSUME config.closeTcp PROVE VideoInv'
  <2>1. LeftToSend(c)' = 0
    BY <1>2, <1>3 DEF LeftToSend
  <2>2. LeftToSend(c) \in Nat
    BY PromisedIs DEF Inv
  <2>3. /\ Cardinality(VideosIn(conns[c].in)) \in Nat /\ Cardinality(RequestedIn(conns[c].out)) \in Nat
    BY Counts DEF Inv, TypeInv
  <2>4. Cardinality(VideosIn(D.in)) = 0 /\ Cardinality(RequestedIn(D.out)) = 0
    BY <1>2, FreeAgain, FreeConnFields
  <2>5. Promised(c)' <= Promised(c)
    BY <1>2, <1>3, <2>1, <2>2, <2>3, <2>4, LessPromised
  <2> QED BY <1>1, <1>4, <1>5, <1>8, <2>5, VideoPut
<1>9. NoUnexpectedError'
  BY <1>4 DEF Inv, NoUnexpectedError
<1> QED BY <1>3, <1>4, <1>5, <1>6, <1>7, <1>8, <1>9 DEF Inv

LEMMA FirstForm ==
  ASSUME SelfForm, selfQ # <<>>, Head(selfQ).t = "init"
  PROVE  \/ selfQ = <<InfoInit>> /\ Head(selfQ) = InfoInit /\ selfQ[1] = InfoInit /\ Tail(selfQ) = <<>>
         \/ \E a \in AccessPoints :
              /\ Head(selfQ) = InitMsg("ap", a) /\ selfQ[1] = InitMsg("ap", a)
              /\ Tail(selfQ) = <<InfoInit>> /\ <<InfoInit>>[1] = InfoInit
<1>1. \A g : Head(<<g>>) = g /\ Tail(<<g>>) = <<>> /\ <<g>>[1] = g
  OBVIOUS
<1>2. \A g, n : Head(<<g, n>>) = g /\ Tail(<<g, n>>) = <<n>> /\ <<g, n>>[1] = g
  OBVIOUS
<1>3. \A e : SelfMsg(e).t = e
  BY DEF SelfMsg
<1>4. ASSUME NEW e \in {"infoClose", "infoClassify", "mnClassify"}, selfQ = <<SelfMsg(e)>>
      PROVE  FALSE
  BY <1>1, <1>3, <1>4
<1>5. selfQ # <<SelfMsg("mnClassify"), SelfMsg("infoClassify")>>
  <2>1. Head(<<SelfMsg("mnClassify"), SelfMsg("infoClassify")>>).t # "init"
    BY <1>2, <1>3
  <2> QED BY <2>1
<1>6. selfQ # <<SelfMsg(IF config.closeTcp THEN "closeAp" ELSE "unregisterAp")>>
  <2>1. Head(<<SelfMsg(IF config.closeTcp THEN "closeAp" ELSE "unregisterAp")>>).t # "init"
    BY <1>1, <1>3
  <2> QED BY <2>1
<1>7. ASSUME NEW c \in ConnIds, selfQ = <<[t |-> "remove", c |-> c]>> PROVE FALSE
  <2>1. Head(<<[t |-> "remove", c |-> c]>>).t # "init"
    BY <1>1
  <2> QED BY <1>7, <2>1
<1>8. selfQ = <<InfoInit>> \/ \E a \in AccessPoints : selfQ = <<InitMsg("ap", a), InfoInit>>
  BY <1>4, <1>5, <1>6, <1>7 DEF SelfForm
<1>9. CASE selfQ = <<InfoInit>>
  BY <1>1, <1>9
<1>10. ASSUME NEW a \in AccessPoints, selfQ = <<InitMsg("ap", a), InfoInit>>
       PROVE  /\ Head(selfQ) = InitMsg("ap", a) /\ selfQ[1] = InitMsg("ap", a)
              /\ Tail(selfQ) = <<InfoInit>> /\ <<InfoInit>>[1] = InfoInit
  BY <1>1, <1>2, <1>10
<1> QED BY <1>8, <1>9, <1>10

LEMMA InfoEntryOpen ==
  ASSUME Inv, client.thread # 0
  PROVE  client.thread \in OpenTo("info")
<1>1. client.thread \in ConnIds /\ conns[client.thread].kind = "info" /\ conns[client.thread].srv = "connected"
  BY DEF Inv, TypeInv, EntryInv, ThreadIds
<1>2. conns[client.thread].cli # "free"
  BY <1>1, FreeConnFields DEF Inv, ConnInv, ConnOK
<1> QED BY <1>1, <1>2 DEF OpenTo, SocketMap, InUse

LEMMA FirstConnectionStep ==
  ASSUME Inv, FirstConnection
  PROVE  Inv'
<1> DEFINE a == apInitTimer
<1>1. selfQ = <<>> /\ selfQ' = <<>> /\ a # NoAP /\ apInitTimer' = NoAP
  BY DEF FirstConnection, Idle
<1>2. PICK c \in ConnIds : Opens(c, "ap", a)
  BY InitOpens DEF FirstConnection
<1>3. a \in AccessPoints /\ a \in APOrNone /\ apInitTimer' \in APOrNone
  BY <1>1 DEF Inv, TypeInv, APOrNone
<1>4. /\ conns[c].cli = "free" /\ conns'[c].kind = "ap" /\ conns'[c].ap = a /\ conns'[c].cli = "connecting"
      /\ \A d \in ConnIds \ {c} : conns'[d] = conns[d]
      /\ SocketMap' = SocketMap \cup {c} /\ c \notin SocketMap
      /\ OpenTo("ap")' = OpenTo("ap") \cup {c} /\ OpenTo("info")' = OpenTo("info")
  BY <1>2, <1>3, Opened1
<1>5. SelfForm'
  BY <1>1 DEF SelfForm
<1>6. ASSUME config.closeTcp PROVE SessionInv'
  <2>1. SessionInv /\ ~UnderWay
    BY <1>1, <1>6 DEF Inv, SessionInv, Met
  <2>2. \A t : ~Due(t) /\ ~Due(t)'
    BY <1>1 DEF Due
  <2>3. a = link /\ OpenTo("ap") = {} /\ InfoOpen
    BY <1>1, <2>1, <2>2 DEF SessionInv, Beginning
  <2>4. /\ apThread' = c /\ infoThread' = infoThread
        /\ UNCHANGED <<link, associating, assocTimers, apList, newSSID, client>>
    BY <1>2 DEF Opens
  <2>5. InfoOpen'
    <3>1. infoThread \in ConnIds /\ infoThread # c
      BY <1>4, <2>3 DEF InfoOpen, Inv, TypeInv, ThreadIds
    <3> QED BY <1>4, <2>3, <2>4, <3>1 DEF InfoOpen
  <2>6. OneThread'
    <3> SUFFICES ASSUME NEW d \in SocketMap'
                 PROVE  IF conns'[d].kind = "ap" THEN d = c /\ conns'[d].ap = link ELSE d = infoThread
      BY <2>4 DEF OneThread
    <3>1. CASE d = c
      BY <1>4, <2>3, <3>1
    <3>2. CASE d # c
      <4>1. d \in SocketMap /\ d \in ConnIds /\ conns'[d] = conns[d]
        BY <1>4, <3>2 DEF SocketMap
      <4>2. conns[d].kind # "ap"
        BY <2>3, <4>1 DEF OpenTo
      <4> QED BY <2>1, <4>1, <4>2 DEF SessionInv, OneThread
    <3> QED BY <3>1, <3>2
  <2>7. Moving'
    BY <1>1, <2>1, <2>4 DEF SessionInv, Moving
  <2>8. Beginning'
    BY <1>1, <2>2 DEF Beginning
  <2>9. Heard'
    BY <1>4, <2>2, <2>3, <2>5 DEF Heard
  <2>10. \A d \in OpenTo("info") : conns'[d] = conns[d]
    BY <1>4 DEF OpenTo, SocketMap
  <2>11. ~UnderWay'
    BY <1>1, <1>4, <2>1, <2>3, <2>4, <2>10 DEF UnderWay
  <2> QED BY <2>6, <2>7, <2>8, <2>9, <2>11 DEF SessionInv
<1> HIDE DEF a
<1> QED BY <1>2, <1>3, <1>5, <1>6, OpensStep

LEMMA SelfInitStep ==
  ASSUME Inv, selfQ # <<>>, simError = "none", Head(selfQ).t = "init", SelfInit
  PROVE  Inv'
<1>1. /\ selfQ' = Tail(selfQ) /\ apInitTimer' = apInitTimer
      /\ InitConnection(Head(selfQ).kind, Head(selfQ).ap)
  BY DEF SelfInit
<1>2. apInitTimer' \in APOrNone
  BY <1>1 DEF Inv, TypeInv
<1>3. CASE selfQ = <<InfoInit>> /\ Head(selfQ) = InfoInit /\ selfQ[1] = InfoInit /\ Tail(selfQ) = <<>>
  <2>1. Head(selfQ).kind = "info" /\ Head(selfQ).ap = NoAP /\ selfQ[1].t = "init" /\ selfQ' = <<>>
    BY <1>1, <1>3 DEF InfoInit, InitMsg
  <2>2. PICK c \in ConnIds : Opens(c, "info", NoAP)
    BY <1>1, <2>1, InitOpens
  <2>3. NoAP \in APOrNone
    BY DEF APOrNone
  <2>4. /\ conns[c].cli = "free" /\ conns'[c].kind = "info" /\ conns'[c].cli = "connecting"
        /\ conns'[c].in = <<>> /\ conns'[c].out = <<>>
        /\ \A d \in ConnIds \ {c} : conns'[d] = conns[d]
        /\ SocketMap' = SocketMap \cup {c} /\ c \notin SocketMap
        /\ OpenTo("info")' = OpenTo("info") \cup {c} /\ OpenTo("ap")' = OpenTo("ap")
    BY <2>2, <2>3, Opened1
  <2>5. SelfForm'
    BY <2>1 DEF SelfForm
  <2>6. ASSUME config.closeTcp PROVE SessionInv'
    <3>1. SessionInv /\ Due("init")
      BY <1>3, <2>1, <2>6 DEF Inv, Due
    <3>2. OpenTo("info") = {} /\ \A d \in OpenTo("ap") : conns[d].cli = "connecting"
      BY <3>1 DEF SessionInv, Beginning
    <3>3. /\ infoThread' = c /\ apThread' = apThread /\ c # 0
          /\ UNCHANGED <<link, associating, assocTimers, apList, newSSID, client>>
      BY <2>2, ConstantFacts DEF Opens
    <3>4. \A t : ~Due(t)'
      BY <2>1 DEF Due
    <3>5. InfoOpen'
      BY <2>4, <3>3 DEF InfoOpen
    <3>6. \A d \in OpenTo("ap") : d \in SocketMap /\ conns'[d] = conns[d]
      BY <2>4 DEF OpenTo, SocketMap
    <3>7. OneThread'
      <4> SUFFICES ASSUME NEW d \in SocketMap'
                   PROVE  IF conns'[d].kind = "ap" THEN d = apThread /\ conns'[d].ap = link ELSE d = c
        BY <3>3 DEF OneThread
      <4>1. CASE d = c
        BY <2>4, <4>1
      <4>2. CASE d # c
        <5>1. d \in SocketMap /\ conns'[d] = conns[d]
          BY <2>4, <4>2 DEF SocketMap
        <5>2. conns[d].kind = "ap"
          BY <3>2, <5>1 DEF OpenTo, Inv, TypeInv, Conn, SocketMap
        <5> QED BY <3>1, <5>1, <5>2 DEF SessionInv, OneThread
      <4> QED BY <4>1, <4>2
    <3>8. Moving'
      BY <1>1, <1>3, <3>1, <3>3 DEF SessionInv, Moving
    <3>9. Beginning'
      BY <1>1, <2>4, <3>1, <3>3, <3>4, <3>5 DEF SessionInv, Beginning
    <3>10. Heard'
      BY <2>4, <3>2, <3>4, <3>5, <3>6 DEF Heard
    <3>11. client.thread = 0
      BY <3>2, InfoEntryOpen
    <3>12. ~UnderWay'
      BY <2>1, <2>4, <3>2, <3>3, <3>6, <3>11 DEF UnderWay
    <3> QED BY <3>7, <3>8, <3>9, <3>10, <3>12 DEF SessionInv
  <2> QED BY <1>2, <2>2, <2>3, <2>5, <2>6, OpensStep
<1>4. ASSUME NEW a \in AccessPoints,
             Head(selfQ) = InitMsg("ap", a), selfQ[1] = InitMsg("ap", a),
             Tail(selfQ) = <<InfoInit>>, <<InfoInit>>[1] = InfoInit
      PROVE  Inv'
  <2>1. /\ Head(selfQ).kind = "ap" /\ Head(selfQ).ap = a /\ selfQ[1].t = "init" /\ selfQ' = <<InfoInit>>
        /\ selfQ[1].kind = "ap" /\ selfQ[1].ap = a
        /\ selfQ'[1].t = "init" /\ selfQ'[1].kind = "info" /\ selfQ' # <<>>
    <3>1. selfQ' = <<InfoInit>> /\ selfQ'[1] = InfoInit
      BY <1>1, <1>4
    <3>2. <<InfoInit>> # <<>>
      OBVIOUS
    <3>3. InfoInit.t = "init" /\ InfoInit.kind = "info"
      BY DEF InfoInit, InitMsg
    <3>4. /\ InitMsg("ap", a).kind = "ap" /\ InitMsg("ap", a).ap = a /\ InitMsg("ap", a).t = "init"
      BY DEF InitMsg
    <3> QED BY <1>4, <3>1, <3>2, <3>3, <3>4
  <2>2. PICK c \in ConnIds : Opens(c, "ap", a)
    BY <1>1, <2>1, InitOpens
  <2>3. a \in APOrNone
    BY DEF APOrNone
  <2>4. /\ conns[c].cli = "free" /\ conns'[c].kind = "ap" /\ conns'[c].cli = "connecting" /\ conns'[c].ap = a
        /\ \A d \in ConnIds \ {c} : conns'[d] = conns[d]
        /\ SocketMap' = SocketMap \cup {c} /\ c \notin SocketMap
        /\ OpenTo("ap")' = OpenTo("ap") \cup {c} /\ OpenTo("info")' = OpenTo("info")
    BY <2>2, <2>3, Opened1
  <2>5. SelfForm'
    BY <2>1 DEF SelfForm
  <2>6. ASSUME config.closeTcp PROVE SessionInv'
    <3>1. SessionInv /\ Due("init")
      BY <2>1, <2>6 DEF Inv, Due
    <3>2. SocketMap = {} /\ apInitTimer = NoAP /\ a = link /\ OpenTo("info") = {} /\ OpenTo("ap") = {}
      BY <2>1, <3>1 DEF SessionInv, Beginning, OpenTo
    <3>3. /\ apThread' = c /\ infoThread' = infoThread /\ apInitTimer' = NoAP
          /\ UNCHANGED <<link, associating, assocTimers, apList, newSSID, client>>
      BY <1>1, <2>2, <3>2 DEF Opens
    <3>4. Due("init")' /\ ~Due("mnClassify")' /\ ~Due("infoClose")'
      BY <2>1 DEF Due
    <3>7. OneThread'
      BY <2>4, <3>2, <3>3 DEF OneThread
    <3>8. Moving'
      BY <3>1, <3>3 DEF SessionInv, Moving, Due
    <3>9. Beginning'
      BY <2>1, <2>4, <3>2, <3>3 DEF Beginning
    <3>10. Heard'
      BY <2>4, <3>2, <3>4 DEF Heard
    <3>11. client.thread = 0
      BY <3>2, InfoEntryOpen
    <3>12. ~UnderWay'
      BY <2>1, <2>4, <3>2, <3>3, <3>11 DEF UnderWay
    <3> QED BY <3>7, <3>8, <3>9, <3>10, <3>12 DEF SessionInv
  <2> QED BY <1>2, <2>2, <2>3, <2>5, <2>6, OpensStep
<1>5. SelfForm
  BY DEF Inv
<1> QED BY <1>3, <1>4, <1>5, FirstForm

----------------------------------------------------------------------------
(* The radio *)

LEMMA TablesKept ==
  ASSUME Inv, UNCHANGED <<conns, serverVars, config, downloaded, downloadComplete>>
  PROVE  /\ ConnInv' /\ EntryInv' /\ TimerInv' /\ NoUnexpectedError'
         /\ config.closeTcp => VideoInv'
         /\ conns' \in [ConnIds -> Conn] /\ SocketMap' = SocketMap
         /\ \A k : OpenTo(k)' = OpenTo(k)
<1>1. UNCHANGED <<cliList, appContext, videoTimers, simError, client>>
  BY DEF serverVars, apVars
<1>2. ConnInv' /\ EntryInv' /\ TimerInv' /\ NoUnexpectedError'
  BY <1>1 DEF Inv, ConnInv, ModeOK, EntryInv, TimerInv, NoUnexpectedError
<1>3. \A c : Promised(c)' = Promised(c)
  BY <1>1 DEF Promised, LeftToSend
<1>4. config.closeTcp => VideoInv'
  BY <1>3 DEF Inv, VideoInv
<1>5. SocketMap' = SocketMap /\ \A k : OpenTo(k)' = OpenTo(k)
  BY DEF SocketMap, InUse, OpenTo
<1> QED BY <1>2, <1>4, <1>5 DEF Inv, TypeInv

LEMMA AssociateStep ==
  ASSUME Inv, NEW a \in AccessPoints, Associate(a)
  PROVE  Inv'
<1>1. /\ selfQ = <<>> /\ selfQ' = <<>> /\ a \in assocTimers /\ assocTimers' = assocTimers \ {a}
      /\ link' = NoAP /\ associating' = a
      /\ UNCHANGED <<conns, serverVars, config, apInitTimer, downloaded, downloadComplete,
                     apThread, infoThread, apList, newSSID, cliList, videoTimers, appContext, client>>
  BY DEF Associate, Idle, SendScanRequest, threads, choice, play, serverVars, apVars
<1>2. /\ ConnInv' /\ EntryInv' /\ TimerInv' /\ NoUnexpectedError'
      /\ config.closeTcp => VideoInv'
      /\ conns' \in [ConnIds -> Conn] /\ SocketMap' = SocketMap
      /\ \A k : OpenTo(k)' = OpenTo(k)
  BY <1>1, TablesKept
<1>3. TypeInv'
  BY <1>1, <1>2 DEF Inv, TypeInv, APOrNone
<1>4. SelfForm' /\ \A t : ~Due(t)'
  BY <1>1 DEF SelfForm, Due
<1>5. ASSUME config.closeTcp PROVE SessionInv'
  <2>1. SessionInv
    BY <1>5 DEF Inv
  <2>2. SocketMap = {} /\ apInitTimer = NoAP /\ assocTimers = {a} /\ a = newSSID
    BY <1>1, <2>1 DEF SessionInv, Moving
  <2>3. OpenTo("ap")' = {} /\ OpenTo("info")' = {} /\ SocketMap' = {}
    BY <1>2, <2>2 DEF OpenTo
  <2>4. client'.thread = 0
    BY <1>1, <1>2, <2>3, InfoEntryOpen
  <2>5. OneThread' /\ Moving' /\ Beginning' /\ Heard' /\ ~UnderWay'
    BY <1>1, <1>4, <2>2, <2>3, <2>4 DEF OneThread, Moving, Beginning, Heard, UnderWay
  <2> QED BY <2>5 DEF SessionInv
<1> QED BY <1>1, <1>2, <1>3, <1>4, <1>5 DEF Inv

LEMMA ConfiguredStep ==
  ASSUME Inv, Configured
  PROVE  Inv'
<1> DEFINE a == associating
<1>1. /\ selfQ = <<>> /\ a # NoAP /\ link' = a /\ associating' = NoAP
      /\ UNCHANGED <<conns, serverVars, config, assocTimers, downloaded, downloadComplete,
                     infoThread, apList, newSSID, cliList, videoTimers, appContext, client>>
  BY DEF Configured, Idle, choice, play, serverVars, apVars
<1>2. /\ ConnInv' /\ EntryInv' /\ TimerInv' /\ NoUnexpectedError'
      /\ config.closeTcp => VideoInv'
      /\ conns' \in [ConnIds -> Conn] /\ SocketMap' = SocketMap
      /\ \A k : OpenTo(k)' = OpenTo(k)
  BY <1>1, TablesKept
<1>3. a \in AccessPoints /\ a \in APOrNone /\ NoAP \in APOrNone
  BY <1>1 DEF Inv, TypeInv, APOrNone
<1>4. /\ \/ selfQ' = <<InitMsg("ap", a), InfoInit>> /\ apInitTimer' = apInitTimer
         \/ selfQ' = <<InfoInit>> /\ apInitTimer' = a
         \/ selfQ' = <<>> /\ apInitTimer' = apInitTimer /\ SocketMap # {}
      /\ apThread' \in {apThread, 0}
  <2>1. \A g : Append(<<>>, g) = <<g>>
    OBVIOUS
  <2>2. \A g, n : <<>> \o <<g, n>> = <<g, n>>
    OBVIOUS
  <2>3. ConnectBoth(a) => \/ selfQ' = <<InitMsg("ap", a), InfoInit>> /\ apInitTimer' = apInitTimer
                          \/ selfQ' = <<InfoInit>> /\ apInitTimer' = a
    BY <1>1, <2>1, <2>2 DEF ConnectBoth, InfoInit
  <2> QED BY <1>1, <2>3 DEF Configured
<1>5. TypeInv'
  BY <1>1, <1>2, <1>3, <1>4 DEF Inv, TypeInv, ThreadIds
<1>6. SelfForm'
  BY <1>3, <1>4 DEF SelfForm
<1>7. ASSUME config.closeTcp PROVE SessionInv'
  <2>1. SessionInv
    BY <1>7 DEF Inv
  <2>2. SocketMap = {} /\ apInitTimer = NoAP /\ assocTimers = {}
    BY <1>1, <2>1 DEF SessionInv, Moving
  <2>3. OpenTo("ap")' = {} /\ OpenTo("info")' = {} /\ SocketMap' = {}
    BY <1>2, <2>2 DEF OpenTo
  <2>4. client'.thread = 0
    BY <1>1, <1>2, <2>3, InfoEntryOpen
  <2>5. \A g : <<g>>[1] = g /\ <<g>> # <<>>
    OBVIOUS
  <2>6. \A g, n : <<g, n>>[1] = g /\ <<g, n>> # <<>>
    OBVIOUS
  <2>7. /\ InfoInit.t = "init" /\ InfoInit.kind = "info"
        /\ InitMsg("ap", a).kind = "ap" /\ InitMsg("ap", a).ap = a /\ InitMsg("ap", a).t = "init"
    BY DEF InfoInit, InitMsg
  <2>8. /\ selfQ' # <<>> /\ selfQ'[1].t = "init"
        /\ \/ selfQ'[1].kind = "ap" /\ selfQ'[1].ap = a /\ apInitTimer' = NoAP
           \/ selfQ'[1].kind = "info" /\ apInitTimer' = a
    BY <1>4, <2>2, <2>5, <2>6, <2>7
  <2>9. OneThread' /\ Moving'
    BY <1>1, <2>2, <2>3 DEF OneThread, Moving
  <2>10. Beginning'
    BY <1>1, <2>3, <2>8 DEF Beginning, Due
  <2>11. Heard' /\ ~UnderWay'
    BY <1>1, <2>3, <2>4, <2>8 DEF Heard, UnderWay, Due
  <2> QED BY <2>9, <2>10, <2>11 DEF SessionInv
<1> QED BY <1>1, <1>2, <1>5, <1>6, <1>7 DEF Inv

----------------------------------------------------------------------------
(* Established connections *)

LEMMA PairJoined ==
  ASSUME NEW S, NEW x \in S, NEW y \in S, NEW s \in Seq(S), s = <<x>>, NEW t \in Seq(S), t = <<y>>
  PROVE  <<x, y>> = s \o t /\ <<x, y>> \in Seq(S)
<1> DEFINE w == s \o t
           v == <<x, y>>
<1>1. Len(s) = 1 /\ Len(t) = 1 /\ s[1] = x /\ t[1] = y
  OBVIOUS
<1>2. w \in Seq(S) /\ Len(w) = 2 /\ w[1] = x /\ w[2] = y
  BY <1>1
<1>3. v \in Seq(S) /\ Len(v) = 2 /\ v[1] = x /\ v[2] = y
  OBVIOUS
<1> HIDE DEF w, v
<1>4. \A j \in 1 .. Len(w) : w[j] = v[j]
  BY <1>2, <1>3
<1>5. w = v
  BY <1>2, <1>3, <1>4, SeqEqual
<1> QED BY <1>3, <1>5 DEF w, v

LEMMA Requested ==
  ASSUME TypeInv
  PROVE  LET ms == <<Msg("classify"), Request>>
         IN  /\ ms \in Seq(ClientMsgs) /\ Types(ms) = {"classify", Request.t}
             /\ Request.t = IF config.app = "ftp" THEN "request" ELSE "videoRequest"
             /\ Cardinality(RequestedIn(ms)) = IF config.app = "ftp" THEN 0 ELSE FileSize - downloaded
             /\ Request \in ClientMsgs
<1> DEFINE g == Msg("classify")
           n == Request
           s == <<g>>
           t == <<n>>
           ms == <<g, n>>
<1>1. g \in ClientMsgs /\ g.t = "classify"
  BY ServerTypes
<1>2. n \in ClientMsgs /\ n.t = (IF config.app = "ftp" THEN "request" ELSE "videoRequest")
      /\ (config.app # "ftp" => n.remaining = FileSize - downloaded)
  <2>1. FileSize - downloaded \in Nat
    BY ConstantFacts DEF TypeInv
  <2> QED BY <2>1 DEF Request, Msg, AppContext, ClientMsgs
<1> HIDE DEF g, n
<1>5. s \in Seq(ClientMsgs) /\ Cardinality(RequestedIn(s)) = 0
  BY <1>1, RequestCounted
<1>6. t \in Seq(ClientMsgs)
      /\ Cardinality(RequestedIn(t)) = IF n.t = "videoRequest" THEN n.remaining ELSE 0
  BY <1>2, RequestCounted
<1>3. ms = s \o t /\ ms \in Seq(ClientMsgs)
  BY <1>1, <1>2, <1>5, <1>6, PairJoined
<1>4. Types(ms) = {"classify", n.t}
  BY <1>1, Short
<1> HIDE DEF s, t, ms
<1>7. Cardinality(RequestedIn(t)) \in Nat
  BY <1>6, RequestedFinite
<1>8. Cardinality(RequestedIn(s \o t)) = Cardinality(RequestedIn(s)) + Cardinality(RequestedIn(t))
  BY <1>5, <1>6, RequestedJoined
<1>9. Cardinality(RequestedIn(ms)) = IF config.app = "ftp" THEN 0 ELSE FileSize - downloaded
  BY <1>2, <1>3, <1>5, <1>6, <1>7, <1>8
<1> QED BY <1>2, <1>3, <1>4, <1>9 DEF g, n, ms

SameKind(C, D) == D.kind = C.kind /\ D.ap = C.ap

\* The two ends of c have met; what the steps for both kinds share.
LEMMA Meeting ==
  ASSUME Inv, NEW c \in ConnIds, conns[c].cli = "connecting",
         NEW D, Put(c, D), SameKind(conns[c], D), D.cli = "connected"
  PROVE  /\ conns' \in [ConnIds -> Conn] /\ ConnInv'
         /\ conns'[c] = D /\ \A d \in ConnIds \ {c} : conns'[d] = conns[d]
         /\ SocketMap' = SocketMap /\ \A k : OpenTo(k)' = OpenTo(k)
         /\ conns[c].srv = "none" /\ conns[c].in = <<>> /\ c \notin videoTimers /\ client.thread # c
         /\ \A a \in AccessPoints : cliList[a] # c
         /\ c \in OpenTo(conns[c].kind)
         /\ UNCHANGED infoThread => (InfoOpen' <=> InfoOpen)
<1>1. /\ conns' \in [ConnIds -> Conn] /\ ConnInv'
      /\ conns'[c] = D /\ \A d \in ConnIds \ {c} : conns'[d] = conns[d]
  BY PutOK DEF Inv
<1>2. \A d \in ConnIds : conns'[d].kind = conns[d].kind /\ (conns'[d].cli = "free" <=> conns[d].cli = "free")
  BY <1>1 DEF SameKind
<1>3. SocketMap' = SocketMap /\ \A k : OpenTo(k)' = OpenTo(k)
  BY <1>2 DEF SocketMap, InUse, OpenTo
<1>4. conns[c].srv = "none" /\ conns[c].in = <<>>
  BY EstablishOK DEF Inv, TypeInv, ConnInv
<1>5. c \notin videoTimers /\ client.thread # c /\ \A a \in AccessPoints : cliList[a] # c
  BY <1>4, ConstantFacts DEF Inv, TimerInv, EntryInv
<1>6. c \in OpenTo(conns[c].kind)
  BY DEF OpenTo, SocketMap, InUse
<1>7. ASSUME UNCHANGED infoThread PROVE InfoOpen' <=> InfoOpen
  <2>1. infoThread # 0 => infoThread \in ConnIds
    BY DEF Inv, TypeInv, ThreadIds
  <2>2. \A d \in ConnIds : /\ conns'[d].kind = conns[d].kind
                           /\ conns'[d].cli \in {"connecting", "connected"} <=> conns[d].cli \in {"connecting", "connected"}
    BY <1>1 DEF SameKind
  <2> QED BY <1>7, <2>1, <2>2 DEF InfoOpen
<1> QED BY <1>1, <1>3, <1>4, <1>5, <1>6, <1>7

LEMMA InfoEstablishedStep ==
  ASSUME Inv, Idle, NEW c \in ConnIds, conns[c].cli = "connecting",
         InfoEstablished(c, [conns[c] EXCEPT !.cli = "connected", !.srv = "connected"]),
         UNCHANGED <<appContext, videoTimers, simError, client, config, radio, selfQ,
                     apThread, infoThread, started, choice, lock, play>>
  PROVE  Inv'
<1> DEFINE C == conns[c]
           D == [C EXCEPT !.cli = "connected", !.srv = "connected"]
<1>1. /\ C.kind = "info" /\ conns' = [conns EXCEPT ![c] = D] /\ selfQ = <<>>
      /\ UNCHANGED <<cliList, appContext, videoTimers, simError, client, config, link, associating, assocTimers,
                     apInitTimer, selfQ, apThread, infoThread, apList, newSSID, downloaded, downloadComplete>>
  BY DEF InfoEstablished, Idle, radio, choice, play
<1>2. C \in Conn /\ ConnOK(C) /\ ModeOK(C)
  BY DEF Inv, TypeInv, ConnInv
<1>3. D \in Conn /\ ConnOK(D) /\ C.srv = "none" /\ C.in = <<>>
  BY <1>2, EstablishOK
<1>4. /\ D.kind = C.kind /\ D.ap = C.ap /\ D.cli = "connected" /\ D.srv = "connected"
      /\ D.in = <<>> /\ D.out = C.out
  BY <1>2, <1>3 DEF Conn
<1> HIDE DEF D
<1>5. ModeOK(D)
  BY <1>1, <1>2, <1>3, <1>4 DEF ModeOK
<1>6. Put(c, D)
  BY <1>1, <1>3, <1>5 DEF Put
<1>7. SameKind(C, D)
  BY <1>4 DEF SameKind
<1>8. /\ conns' \in [ConnIds -> Conn] /\ ConnInv'
      /\ conns'[c] = D /\ \A d \in ConnIds \ {c} : conns'[d] = conns[d]
      /\ SocketMap' = SocketMap /\ \A k : OpenTo(k)' = OpenTo(k)
      /\ c \notin videoTimers /\ client.thread # c
      /\ \A a \in AccessPoints : cliList[a] # c
      /\ c \in OpenTo(C.kind)
      /\ InfoOpen' <=> InfoOpen
  BY <1>1, <1>4, <1>6, <1>7, Meeting
<1>9. TypeInv'
  BY <1>1, <1>8 DEF Inv, TypeInv
<1>10. EntryInv'
  BY <1>1, <1>4, <1>8 DEF Inv, TypeInv, EntryInv, ThreadIds
<1>11. TimerInv'
  <2>1. videoTimers' \subseteq ConnIds /\ \A d \in ConnIds \ {c} : d \in videoTimers' => d \in videoTimers
    BY <1>1 DEF Inv, TypeInv
  <2> QED BY <1>1, <1>6, <1>8, <2>1, TimerPut
<1>12. ASSUME config.closeTcp PROVE VideoInv'
  <2>1. LeftToSend(c)' = 0 /\ LeftToSend(c) \in Nat
    BY <1>1, <1>8, PromisedIs DEF LeftToSend, Inv
  <2>2. Cardinality(VideosIn(D.in)) <= Cardinality(VideosIn(C.in))
    BY <1>2, <1>3, <1>4, Counts
  <2>3. Cardinality(RequestedIn(D.out)) <= Cardinality(RequestedIn(C.out))
    BY <1>2, <1>4, Counts
  <2>4. Promised(c)' <= Promised(c)
    BY <1>3, <1>8, <2>1, <2>2, <2>3, LessPromised
  <2> QED BY <1>1, <1>6, <1>9, <1>12, <2>4, VideoPut
<1>13. ASSUME config.closeTcp PROVE SessionInv'
  <2>1. SessionInv /\ \A k : OpenTo(k) \subseteq SocketMap /\ SocketMap \subseteq ConnIds
    BY <1>13 DEF Inv, OpenTo, SocketMap
  <2>2. \A d \in SocketMap : conns'[d].kind = conns[d].kind /\ conns'[d].ap = conns[d].ap
    BY <1>4, <1>8, <2>1
  <2>3. \A d \in OpenTo("ap") : conns'[d] = conns[d]
    BY <1>1, <1>8, <2>1 DEF OpenTo
  <2>4. \A t : Due(t)' <=> Due(t)
    BY <1>1 DEF Due
  <2>5. OneThread'
    BY <1>1, <1>8, <2>1, <2>2 DEF SessionInv, OneThread
  <2>6. Moving'
    BY <1>1, <1>8, <2>1 DEF SessionInv, Moving
  <2>7. Beginning'
    BY <1>1, <1>8, <2>1, <2>3, <2>4 DEF SessionInv, Beginning
  <2>8. Heard'
    BY <1>1, <1>8, <2>1, <2>3, <2>4 DEF SessionInv, Heard
  <2>9. \A d \in OpenTo("info") : /\ conns'[d].in = conns[d].in /\ conns'[d].out = conns[d].out
                                  /\ conns'[d].cli \in {"locallyClosed", "closed"} =>
                                       conns[d].cli \in {"locallyClosed", "closed"}
    BY <1>3, <1>4, <1>8, <2>1
  <2>10. UnderWay' => UnderWay
    BY <1>1, <1>8, <2>3, <2>9 DEF UnderWay
  <2>11. Met => Met'
    BY <1>1, <1>8, <2>3 DEF Met
  <2> QED BY <2>1, <2>5, <2>6, <2>7, <2>8, <2>10, <2>11 DEF SessionInv
<1>14. NoUnexpectedError' /\ SelfForm'
  BY <1>1 DEF Inv, NoUnexpectedError, SelfForm
<1> QED BY <1>1, <1>8, <1>9, <1>10, <1>11, <1>12, <1>13, <1>14 DEF Inv

LEMMA APEstablishedStep ==
  ASSUME Inv, Idle, NEW c \in ConnIds, conns[c].cli = "connecting",
         APEstablished(c, [conns[c] EXCEPT !.cli = "connected", !.srv = "connected"]),
         UNCHANGED <<appContext, videoTimers, simError, client, config, radio, selfQ,
                     apThread, infoThread, started, choice, lock, play>>
  PROVE  Inv'
<1> DEFINE C == conns[c]
           E == [C EXCEPT !.cli = "connected", !.srv = "connected"]
           ms == <<Msg("classify"), Request>>
           D == SentByClient(E, ms)
<1>1. /\ E.kind = "ap" /\ conns' = [conns EXCEPT ![c] = D] /\ selfQ = <<>>
      /\ cliList' = [cliList EXCEPT ![E.ap] = c] /\ apList' = apList \cup {link}
      /\ UNCHANGED <<appContext, videoTimers, simError, client, config, link, associating, assocTimers,
                     apInitTimer, selfQ, apThread, infoThread, newSSID, downloaded, downloadComplete>>
  BY DEF APEstablished, AddClientInfo, AddAPListInfo, Idle, radio, choice, play
<1>2. C \in Conn /\ ConnOK(C) /\ ModeOK(C) /\ TypeInv
  BY DEF Inv, TypeInv, ConnInv
<1>3. E \in Conn /\ ConnOK(E) /\ C.srv = "none" /\ C.in = <<>>
  BY <1>2, EstablishOK
<1>4. /\ C.kind = "ap" /\ E.kind = "ap" /\ E.ap = C.ap /\ E.cli = "connected" /\ E.srv = "connected"
      /\ E.in = <<>> /\ E.out = C.out
  BY <1>1, <1>2, <1>3 DEF Conn
<1>5. C.ap \in AccessPoints
  BY <1>2, <1>4, FreeConnFields DEF ConnOK, Opened
<1>6. /\ ms \in Seq(ClientMsgs) /\ Types(ms) = {"classify", Request.t}
      /\ Request.t = (IF config.app = "ftp" THEN "request" ELSE "videoRequest")
      /\ Cardinality(RequestedIn(ms)) = IF config.app = "ftp" THEN 0 ELSE FileSize - downloaded
  BY <1>2, Requested
<1> HIDE DEF E, ms
<1>7. "FIN" \notin Types(ms) /\ "unregister" \notin Types(ms)
      /\ (config.app = "video" => "request" \notin Types(ms))
  BY <1>6
<1>8. D \in Conn /\ ConnOK(D) /\ D = [E EXCEPT !.out = E.out \o ms]
  BY <1>3, <1>4, <1>6, <1>7, SendOK
<1>9. /\ D.kind = "ap" /\ D.ap = C.ap /\ D.cli = "connected" /\ D.srv = "connected"
      /\ D.in = <<>> /\ D.out = C.out \o ms
  BY <1>3, <1>4, <1>8 DEF Conn
<1> HIDE DEF D
<1>10. C.out \in Seq(ClientMsgs)
  BY <1>2 DEF Conn
<1>11. Types(C.out \o ms) = Types(C.out) \cup Types(ms)
  BY <1>6, <1>10, Joined
<1>12. ModeOK(D)
  BY <1>2, <1>7, <1>9, <1>11, Short DEF ModeOK
<1>13. Put(c, D)
  BY <1>1, <1>8, <1>12 DEF Put
<1>14. SameKind(C, D)
  BY <1>4, <1>9 DEF SameKind
<1>15. /\ conns' \in [ConnIds -> Conn] /\ ConnInv'
       /\ conns'[c] = D /\ \A d \in ConnIds \ {c} : conns'[d] = conns[d]
       /\ SocketMap' = SocketMap /\ \A k : OpenTo(k)' = OpenTo(k)
       /\ c \notin videoTimers /\ client.thread # c
       /\ \A a \in AccessPoints : cliList[a] # c
       /\ c \in OpenTo(C.kind)
       /\ InfoOpen' <=> InfoOpen
  BY <1>1, <1>9, <1>13, <1>14, Meeting
<1>16. cliList' \in [AccessPoints -> ThreadIds] /\ cliList'[C.ap] = c
       /\ \A a \in AccessPoints \ {C.ap} : cliList'[a] = cliList[a]
  BY <1>1, <1>4, <1>5 DEF Inv, TypeInv, ThreadIds
<1>17. TypeInv'
  BY <1>1, <1>15, <1>16 DEF Inv, TypeInv
<1>18. ASSUME config.closeTcp PROVE c = apThread /\ \A d \in SocketMap : conns[d].kind = "ap" => d = c
  BY <1>4, <1>15, <1>18 DEF Inv, SessionInv, OneThread, OpenTo
<1>19. EntryInv'
  <2>1. \A a \in AccessPoints : cliList'[a] # 0 =>
          conns'[cliList'[a]].kind = "ap" /\ conns'[cliList'[a]].ap = a /\ conns'[cliList'[a]].srv = "connected"
    <3> SUFFICES ASSUME NEW a \in AccessPoints, cliList'[a] # 0
                 PROVE  conns'[cliList'[a]].kind = "ap" /\ conns'[cliList'[a]].ap = a
                        /\ conns'[cliList'[a]].srv = "connected"
      OBVIOUS
    <3>1. CASE a = C.ap
      BY <1>9, <1>15, <1>16, <3>1
    <3>2. CASE a # C.ap
      <4>1. cliList'[a] = cliList[a] /\ cliList[a] \in ConnIds \ {c}
        BY <1>15, <1>16, <3>2 DEF Inv, TypeInv, ThreadIds
      <4> QED BY <1>15, <4>1 DEF Inv, EntryInv
    <3> QED BY <3>1, <3>2
  <2>2. client'.thread # 0 => conns'[client'.thread].kind = "info" /\ conns'[client'.thread].srv = "connected"
    BY <1>1, <1>15 DEF Inv, TypeInv, EntryInv, ThreadIds
  <2>3. ASSUME config.closeTcp, NEW d \in ConnIds, conns'[d].kind = "ap", conns'[d].srv = "connected"
        PROVE  cliList'[conns'[d].ap] = d
    <3>1. CASE d = c
      BY <1>9, <1>15, <1>16, <3>1
    <3>2. CASE d # c
      <4>1. conns'[d] = conns[d] /\ conns[d].cli # "free"
        BY <1>15, <2>3, <3>2, FreeConnFields DEF Inv, ConnInv, ConnOK
      <4>2. d = c
        BY <1>18, <2>3, <4>1 DEF SocketMap, InUse
      <4> QED BY <3>2, <4>2
    <3> QED BY <3>1, <3>2
  <2> QED BY <1>1, <2>1, <2>2, <2>3 DEF EntryInv
<1>20. TimerInv'
  <2>1. videoTimers' \subseteq ConnIds /\ \A d \in ConnIds \ {c} : d \in videoTimers' => d \in videoTimers
    BY <1>1 DEF Inv, TypeInv
  <2> QED BY <1>1, <1>13, <1>15, <2>1, TimerPut
<1>21. ASSUME config.closeTcp PROVE VideoInv'
  <2> SUFFICES ASSUME config.app = "video", ~downloadComplete, NEW d \in ConnIds
               PROVE  downloaded + Promised(d)' <= FileSize
    BY <1>1 DEF VideoInv
  <2>1. CASE d = c
    <3>1. LeftToSend(c)' = 0
      BY <1>1, <1>15 DEF LeftToSend
    <3>2. C.out = <<>>
      BY <1>2, <1>3, <1>4, <1>21 DEF ModeOK
    <3>3. Cardinality(RequestedIn(C.out)) = 0 /\ Cardinality(VideosIn(D.in)) = 0
      BY <1>9, <3>2, FreeAgain, FreeConnFields
    <3>4. Cardinality(RequestedIn(C.out \o ms)) = Cardinality(RequestedIn(C.out)) + Cardinality(RequestedIn(ms))
      BY <1>6, <1>10, RequestedJoined
    <3>5. FileSize - downloaded \in Nat /\ downloaded \in Nat
      BY ConstantFacts DEF Inv, TypeInv
    <3>6. Cardinality(RequestedIn(D.out)) = FileSize - downloaded
      BY <1>6, <1>9, <3>3, <3>4, <3>5
    <3>7. Promised(c)' = Cardinality(VideosIn(D.in)) + Cardinality(RequestedIn(D.out)) + LeftToSend(c)'
      BY <1>15, PromisedAfter
    <3> QED BY <2>1, <3>1, <3>3, <3>5, <3>6, <3>7, ConstantFacts
  <2>2. CASE d # c
    <3>1. conns'[d] = conns[d] /\ LeftToSend(d)' = LeftToSend(d)
      BY <1>1, <1>15, <2>2 DEF LeftToSend
    <3>2. Promised(d)' = Promised(d)
      BY <3>1 DEF Promised
    <3> QED BY <1>21, <3>2 DEF Inv, VideoInv
  <2> QED BY <2>1, <2>2
<1>22. ASSUME config.closeTcp PROVE SessionInv'
  <2>1. SessionInv /\ \A k : OpenTo(k) \subseteq SocketMap /\ SocketMap \subseteq ConnIds
    BY <1>22 DEF Inv, OpenTo, SocketMap
  <2>2. \A d \in SocketMap : conns'[d].kind = conns[d].kind /\ conns'[d].ap = conns[d].ap
    BY <1>4, <1>9, <1>15, <2>1
  <2>3. \A d \in OpenTo("ap") : d = c /\ conns'[d].cli = "connected"
    BY <1>9, <1>15, <1>18, <1>22 DEF OpenTo
  <2>4. \A t : ~Due(t)' /\ ~Due(t)
    BY <1>1 DEF Due
  <2>5. c \in OpenTo("ap") /\ SocketMap # {}
    BY <1>4, <1>15, <2>1
  <2>6. InfoOpen' /\ infoThread # 0
    BY <1>15, <2>1, <2>4, <2>5 DEF SessionInv, Heard, InfoOpen
  <2>7. apInitTimer = NoAP
    BY <2>1, <2>5 DEF SessionInv, Beginning
  <2>8. OneThread'
    BY <1>1, <1>15, <2>1, <2>2 DEF SessionInv, OneThread
  <2>9. Moving'
    BY <1>1, <1>15, <2>1, <2>5 DEF SessionInv, Moving
  <2>10. Beginning'
    BY <1>1, <2>4, <2>7 DEF Beginning
  <2>11. Heard'
    BY <2>4, <2>6 DEF Heard
  <2>12. Met'
    BY <1>1, <1>15, <1>18, <1>22, <2>3, <2>6, <2>7, ConstantFacts DEF Met
  <2> QED BY <2>8, <2>9, <2>10, <2>11, <2>12 DEF SessionInv
<1>23. NoUnexpectedError' /\ SelfForm'
  BY <1>1 DEF Inv, NoUnexpectedError, SelfForm
<1> QED BY <1>1, <1>15, <1>17, <1>19, <1>20, <1>21, <1>22, <1>23 DEF Inv

LEMMA EstablishedStep ==
  ASSUME Inv, NEW c \in ConnIds, Established(c)
  PROVE  Inv'
BY InfoEstablishedStep, APEstablishedStep DEF Established

----------------------------------------------------------------------------
(* Messages to the client *)

LEMMA Gets ==
  ASSUME Inv, NEW c \in ConnIds, NEW kind \in {"ap", "info"}, NEW type, type # "FIN", ClientGets(c, kind, type)
  PROVE  /\ conns[c] \in Conn /\ Follows(conns[c], Received(conns[c])) /\ Received(conns[c]).cli = conns[c].cli
         /\ Received(conns[c]) \in Conn /\ ConnOK(Received(conns[c])) /\ ModeOK(Received(conns[c]))
         /\ Received(conns[c]).kind = conns[c].kind /\ Received(conns[c]).srv = conns[c].srv
         /\ conns[c].cli \in {"connected", "locallyClosed"} /\ conns[c].srv # "none"
         /\ Head(conns[c].in) \in ServerMsgs /\ type \in Types(conns[c].in)
         /\ Received(conns[c]).out = conns[c].out
         /\ Cardinality(VideosIn(conns[c].in)) =
              Cardinality(VideosIn(Received(conns[c]).in)) + IF type = "video" THEN 1 ELSE 0
         /\ selfQ = <<>> /\ simError = "none" /\ conns[c].kind = kind /\ c \in OpenTo(kind) /\ UnderWay
         /\ config.closeTcp /\ ~downloadComplete =>
              \A d \in ConnIds : conns[d].kind = "ap" /\ conns[d].cli = "connected" => InfoOpen
<1> DEFINE C == conns[c]
<1>1. /\ selfQ = <<>> /\ simError = "none" /\ C.kind = kind /\ C.in # <<>> /\ Head(C.in).t = type
  BY DEF ClientGets, Idle, ToClient
<1>2. C \in Conn /\ ConnOK(C) /\ ModeOK(C)
  BY DEF Inv, TypeInv, ConnInv
<1> HIDE DEF C
<1>3. /\ Follows(C, Received(C)) /\ Received(C).cli = C.cli
      /\ C.cli \in {"connected", "locallyClosed"} /\ C.srv # "none"
      /\ Head(C.in) \in ServerMsgs /\ Head(C.in).t \in Types(C.in)
      /\ Received(C).out = C.out
      /\ Cardinality(VideosIn(C.in)) =
              Cardinality(VideosIn(Received(C).in)) + IF Head(C.in).t = "video" THEN 1 ELSE 0
  BY <1>1, <1>2, HeardOf
<1>4. c \in OpenTo(kind)
  BY <1>1, <1>3 DEF OpenTo, SocketMap, InUse, C
<1>5. UnderWay
  BY <1>1, <1>3, <1>4 DEF UnderWay, C
<1>6. ASSUME config.closeTcp, ~downloadComplete, NEW d \in ConnIds, conns[d].kind = "ap", conns[d].cli = "connected"
      PROVE  InfoOpen
  <2>1. d \in OpenTo("ap") /\ ~Due("closeAp")
    BY <1>1, <1>6 DEF OpenTo, SocketMap, InUse, Due
  <2> QED BY <1>6, <2>1 DEF Inv, SessionInv, Heard
<1> QED BY <1>1, <1>2, <1>3, <1>4, <1>5, <1>6 DEF C, Follows

\* Something is heard, and at most the present moment is made busy with it.
LEMMA HeardStep ==
  ASSUME Inv, NEW c \in ConnIds, NEW kind \in {"ap", "info"}, NEW type, type # "FIN", ClientGets(c, kind, type),
         NEW D, Follows(conns[c], D), D.cli = conns[c].cli, conns' = [conns EXCEPT ![c] = D],
         UNCHANGED <<cliList, client, appContext, videoTimers, simError, config, link, associating, assocTimers,
                     apInitTimer, apThread, infoThread, apList, downloaded, downloadComplete>>,
         SelfForm', ~Due("init")', ~Due("infoClose")',
         Due("mnClassify")' => kind = "ap" /\ conns[c].cli = "connected" /\ ~downloadComplete
  PROVE  Inv'
<1>1. /\ UnderWay /\ conns[c].kind = kind
      /\ config.closeTcp /\ ~downloadComplete =>
              \A d \in ConnIds : conns[d].kind = "ap" /\ conns[d].cli = "connected" => InfoOpen
  BY Gets
<1>2. Put(c, D)
  BY DEF Put, Follows
<1>3. conns'[c] = D /\ \A d \in ConnIds \ {c} : conns'[d] = conns[d]
  BY <1>2, PutOK DEF Inv
<1>4. \A d \in ConnIds : conns'[d].kind = conns[d].kind /\ conns'[d].cli = conns[d].cli
  BY <1>3 DEF Follows
<1>5. InfoOpen' <=> InfoOpen
  BY <1>4 DEF InfoOpen, Inv, TypeInv, ThreadIds
<1>6. NoUnexpectedError'
  BY DEF Inv, NoUnexpectedError
<1>7. config.closeTcp =>
        /\ \A d \in ConnIds : conns'[d].kind = "ap" /\ conns'[d].cli = "connected" /\ ~downloadComplete' =>
                              InfoOpen' \/ Due("closeAp")'
        /\ Due("mnClassify")' => InfoOpen'
        /\ Due("infoClose")' => downloadComplete'
  BY <1>1, <1>4, <1>5
<1> QED BY <1>1, <1>6, <1>7, FollowStep

LEMMA Stepped ==
  ASSUME NEW C \in Conn, ConnOK(C), ModeOK(C), C.cli # "free", NEW n \in {0, 1}
  PROVE  Follows(C, [C EXCEPT !.timestep = n]) /\ [C EXCEPT !.timestep = n].cli = C.cli
<1> DEFINE D == [C EXCEPT !.timestep = n]
<1>1. D \in Conn /\ ConnOK(D)
  BY TimestepOK
<1>2. /\ D.kind = C.kind /\ D.ap = C.ap /\ D.cli = C.cli /\ D.srv = C.srv
      /\ D.out = C.out /\ D.in = C.in
  BY DEF Conn
<1> HIDE DEF D
<1>3. Cardinality(VideosIn(C.in)) \in Nat /\ Cardinality(RequestedIn(C.out)) \in Nat
  BY Counts
<1>4. ModeOK(D)
  BY <1>2 DEF ModeOK
<1>5. Follows(C, D)
  BY <1>1, <1>2, <1>3, <1>4 DEF Follows
<1> QED BY <1>2, <1>5 DEF D

LEMMA APClassArrivesStep ==
  ASSUME Inv, NEW c \in ConnIds, APClassArrives(c)
  PROVE  Inv'
<1> DEFINE C == conns[c]
           R == Received(C)
           T == [R EXCEPT !.timestep = 1 - @]
           mn == SelfMsg("mnClassify")
           ic == SelfMsg("infoClassify")
<1>1. /\ ClientGets(c, "ap", "apClass") /\ "apClass" # "FIN"
      /\ UNCHANGED <<cliList, client, appContext, videoTimers, simError, config, link, associating, assocTimers,
                     apInitTimer, apThread, infoThread, apList, downloaded, downloadComplete>>
  BY DEF APClassArrives, serverVars, apVars, radio, threads, play
<1>2. /\ C \in Conn /\ R \in Conn /\ Follows(C, R) /\ R.cli = C.cli /\ C.cli \in {"connected", "locallyClosed"}
      /\ selfQ = <<>> /\ ConnOK(R) /\ ModeOK(R)
  BY <1>1, Gets
<1>3. \/ conns' = [conns EXCEPT ![c] = R] /\ selfQ' = selfQ
      \/ /\ ~downloadComplete /\ C.cli = "connected"
         /\ conns' = [conns EXCEPT ![c] = R] \/ conns' = [conns EXCEPT ![c] = T]
         /\ selfQ' \in {Append(selfQ, mn), selfQ \o <<>> \o <<>>, selfQ \o <<mn>> \o <<>>,
                        selfQ \o <<>> \o <<ic>>, selfQ \o <<mn>> \o <<ic>>}
  <2>1. CASE downloadComplete \/ C.cli # "connected"
    BY <2>1 DEF APClassArrives
  <2>2. CASE ~(downloadComplete \/ C.cli # "connected")
    <3>1. PICK ns \in Classified :
            IF LoadBalancing /\ ~Learning
            THEN conns' = [conns EXCEPT ![c] = R] /\ selfQ' = Append(selfQ, mn)
            ELSE /\ conns' = [conns EXCEPT ![c] = T]
                 /\ selfQ' = selfQ
                        \o (IF C.timestep = 1 /\ LoadBalancing THEN <<mn>> ELSE <<>>)
                        \o (IF C.timestep = 1 /\ (config.app = "ftp" \/ player # "idle") /\ ns = "BAD"
                            THEN <<ic>> ELSE <<>>)
      BY <2>2 DEF APClassArrives
    <3> HIDE DEF R, T, mn, ic
    <3> QED BY <2>2, <3>1
  <2> QED BY <2>1, <2>2
<1> HIDE DEF R
<1>4. Follows(C, T) /\ T.cli = C.cli
  <2>1. 1 - R.timestep \in {0, 1} /\ T = [R EXCEPT !.timestep = 1 - R.timestep]
    BY <1>2 DEF Conn
  <2>2. Follows(R, T) /\ T.cli = R.cli
    BY <1>2, <2>1, Stepped
  <2> QED BY <1>2, <2>2, FollowsTwice
<1> HIDE DEF T
<1>5. selfQ' \in {<<>>, <<mn>>, <<ic>>, <<mn, ic>>} /\ (selfQ' # <<>> => ~downloadComplete /\ C.cli = "connected")
  <2>1. \A g : Append(<<>>, g) = <<g>> /\ <<>> \o <<g>> \o <<>> = <<g>> /\ <<>> \o <<>> \o <<g>> = <<g>>
    OBVIOUS
  <2>2. <<>> \o <<>> \o <<>> = <<>>
    OBVIOUS
  <2>3. <<>> \o <<mn>> \o <<ic>> = <<mn, ic>>
    <3> DEFINE S == {mn, ic}
               s == <<mn>>
               t == <<ic>>
    <3>1. mn \in S /\ ic \in S /\ s \in Seq(S) /\ t \in Seq(S) /\ <<>> \o s = s
      OBVIOUS
    <3> HIDE DEF S, mn, ic
    <3>2. <<mn, ic>> = s \o t
      BY <3>1, PairJoined
    <3> QED BY <3>1, <3>2
  <2> QED BY <1>2, <1>3, <2>1, <2>2, <2>3
<1>6. SelfForm'
  BY <1>5 DEF SelfForm
<1>7. \A t : Due(t)' => t \in {"mnClassify", "infoClassify"} /\ ~downloadComplete /\ C.cli = "connected"
  <2>1. mn.t = "mnClassify" /\ ic.t = "infoClassify"
    BY DEF SelfMsg
  <2>2. \A g : <<g>>[1] = g
    OBVIOUS
  <2>3. \A g, n : <<g, n>>[1] = g
    OBVIOUS
  <2> QED BY <1>5, <2>1, <2>2, <2>3 DEF Due
<1>10. /\ ~Due("init")' /\ ~Due("infoClose")'
       /\ Due("mnClassify")' => C.cli = "connected" /\ ~downloadComplete
  BY <1>7
<1>8. CASE conns' = [conns EXCEPT ![c] = R]
  BY <1>1, <1>2, <1>6, <1>8, <1>10, HeardStep
<1>9. CASE conns' = [conns EXCEPT ![c] = T]
  BY <1>1, <1>4, <1>6, <1>9, <1>10, HeardStep
<1> QED BY <1>3, <1>8, <1>9

\* What is downloaded now was promised before.
LEMMA DownloadStep ==
  ASSUME Inv, NEW c \in ConnIds, NEW type, type # "FIN", ClientGets(c, "ap", type), ~downloadComplete,
         NEW D, Follows(conns[c], D),
         D.cli = conns[c].cli \/ D.cli = "locallyClosed", conns' = [conns EXCEPT ![c] = D],
         UNCHANGED <<cliList, client, appContext, videoTimers, config, link, associating, assocTimers,
                     apInitTimer, apThread, infoThread, apList>>,
         downloaded' = downloaded + 1, downloadComplete' <=> downloaded + 1 >= FileSize,
         selfQ' = <<>> \/ (selfQ' = <<SelfMsg("infoClose")>> /\ downloadComplete'),
         config.closeTcp => VideoInv', NoUnexpectedError'
  PROVE  Inv'
<1>1. /\ UnderWay /\ conns[c].kind = "ap" /\ conns[c].cli # "free"
      /\ config.closeTcp /\ ~downloadComplete =>
              \A d \in ConnIds : conns[d].kind = "ap" /\ conns[d].cli = "connected" => InfoOpen
  BY Gets
<1>2. Put(c, D)
  BY DEF Put, Follows
<1>3. /\ conns' \in [ConnIds -> Conn] /\ ConnInv'
      /\ conns'[c] = D /\ \A d \in ConnIds \ {c} : conns'[d] = conns[d]
  BY <1>2, PutOK DEF Inv
<1>4. \A d \in ConnIds : /\ conns'[d].kind = conns[d].kind /\ conns'[d].ap = conns[d].ap
                         /\ conns'[d].srv = conns[d].srv
                         /\ \/ conns'[d].cli = conns[d].cli
                            \/ conns[d].cli # "free" /\ conns'[d].cli \in {"locallyClosed", "closed"}
  BY <1>1, <1>3 DEF Follows
<1>5. InfoOpen => InfoOpen'
  BY <1>1, <1>3 DEF InfoOpen, Inv, TypeInv, ThreadIds
<1>6. downloaded' \in 0 .. FileSize /\ (downloadComplete' <=> downloaded' = FileSize)
  BY ConstantFacts DEF Inv, TypeInv
<1>7. SelfForm'
  BY DEF SelfForm
<1>8. ~Due("init")' /\ ~Due("mnClassify")' /\ (Due("infoClose")' => downloadComplete')
  <2>1. \A g : <<g>>[1] = g
    OBVIOUS
  <2>2. SelfMsg("infoClose").t = "infoClose"
    BY DEF SelfMsg
  <2> QED BY <2>1, <2>2 DEF Due
<1>9. config.closeTcp =>
        /\ \A d \in ConnIds : conns'[d].kind = "ap" /\ conns'[d].cli = "connected" /\ ~downloadComplete' =>
                              InfoOpen' \/ Due("closeAp")'
        /\ Due("mnClassify")' => InfoOpen'
        /\ Due("infoClose")' => downloadComplete'
        /\ VideoInv'
  <2> SUFFICES ASSUME config.closeTcp
               PROVE  \A d \in ConnIds : conns'[d].kind = "ap" /\ conns'[d].cli = "connected" => InfoOpen'
    BY <1>8
  <2> QED BY <1>1, <1>4, <1>5
<1> QED BY <1>1, <1>3, <1>4, <1>6, <1>7, <1>8, <1>9, ClientStep

LEMMA PromiseOfAP ==
  ASSUME Inv, NEW d \in ConnIds, Promised(d) # 0
  PROVE  d \in OpenTo("ap")
<1> SUFFICES ASSUME d \notin OpenTo("ap") PROVE Promised(d) = 0
  OBVIOUS
<1>1. conns[d] \in Conn /\ ConnOK(conns[d])
  BY DEF Inv, TypeInv, ConnInv
<1>2. conns[d].in \in Seq(ServerMsgs) /\ conns[d].out \in Seq(ClientMsgs)
  BY <1>1, Counts
<1>3. CASE conns[d].cli = "free"
  <2>1. conns[d] = FreeConn
    BY <1>1, <1>3 DEF ConnOK
  <2>2. LeftToSend(d) = 0
    BY <2>1, FreeConnFields DEF LeftToSend
  <2> QED BY <2>1, <2>2, FreeAgain, PromisedIs DEF Inv
<1>4. CASE conns[d].cli # "free" /\ conns[d].kind = "info"
  <2>1. "video" \notin Types(conns[d].in) /\ "videoRequest" \notin Types(conns[d].out)
    BY <1>1, <1>4, FreeConnFields DEF ConnOK, Carried, FromInfo
  <2>2. Cardinality(VideosIn(conns[d].in)) = 0 /\ Cardinality(RequestedIn(conns[d].out)) = 0
    BY <1>2, <2>1, VideosFinite, RequestedFinite
  <2>3. LeftToSend(d) = 0
    BY <1>4 DEF LeftToSend, Inv, TimerInv
  <2> QED BY <2>2, <2>3, PromisedIs DEF Inv
<1> QED BY <1>1, <1>3, <1>4 DEF OpenTo, SocketMap, InUse, Conn

LEMMA PromisedByOne ==
  ASSUME Inv, config.closeTcp, NEW c \in ConnIds, NEW d \in ConnIds, d # c, c \in OpenTo("ap")
  PROVE  Promised(d) = 0
BY PromiseOfAP DEF Inv, SessionInv, OneThread, OpenTo

LEMMA ReplyArrivesStep ==
  ASSUME Inv, NEW c \in ConnIds, ReplyArrives(c)
  PROVE  Inv'
<1> DEFINE C == conns[c]
           R == Received(C)
<1>1. /\ ClientGets(c, "ap", "reply") /\ "reply" # "FIN"
      /\ UNCHANGED <<cliList, client, appContext, videoTimers, config, link, associating, assocTimers,
                     apInitTimer, apThread, infoThread, apList>>
  BY DEF ReplyArrives, apVars, Fails, radio, threads
<1>2. /\ C \in Conn /\ R \in Conn /\ Follows(C, R) /\ R.cli = C.cli /\ C.cli \in {"connected", "locallyClosed"}
      /\ selfQ = <<>> /\ simError = "none" /\ ConnOK(R) /\ ModeOK(R) /\ R.srv # "none"
      /\ "reply" \in Types(C.in)
  BY <1>1, Gets
<1>3. config.app # "video" /\ config.app = "ftp"
  BY <1>2, ClientAssumption DEF Inv, TypeInv, ConnInv, ModeOK
<1>4. VideoInv'
  BY <1>1, <1>3 DEF VideoInv
<1>5. CASE downloadComplete
  <2>1. /\ conns' = [conns EXCEPT ![c] = R] /\ selfQ' = <<>>
        /\ UNCHANGED <<simError, downloaded, downloadComplete>>
    BY <1>2, <1>5 DEF ReplyArrives, apVars
  <2>2. SelfForm' /\ ~Due("init")' /\ ~Due("infoClose")' /\ ~Due("mnClassify")'
    BY <2>1 DEF SelfForm, Due
  <2> HIDE DEF R
  <2> QED BY <1>1, <1>2, <2>1, <2>2, HeardStep
<1>6. ASSUME ~downloadComplete, downloaded + 1 < FileSize
      PROVE  Inv'
  <2>1. /\ downloaded' = downloaded + 1 /\ UNCHANGED <<simError, downloadComplete>> /\ selfQ' = <<>>
        /\ conns' = [conns EXCEPT ![c] = IF C.cli = "connected" THEN SentByClient(R, <<Request>>) ELSE R]
    BY <1>2, <1>6 DEF ReplyArrives, apVars
  <2> DEFINE S == SentByClient(R, <<Request>>)
  <2>2. Request \in ClientMsgs /\ Request.t = "request"
    BY <1>3, Requested DEF Inv
  <2> HIDE DEF R
  <2>3. R.cli = "connected" => Follows(R, S) /\ S.cli = R.cli
    BY <1>2, <1>3, <2>2, Said
  <2> HIDE DEF S
  <2>4. C.cli = "connected" => Follows(C, S) /\ S.cli = C.cli
    BY <1>2, <2>3, FollowsTwice
  <2> DEFINE D == IF C.cli = "connected" THEN S ELSE R
  <2>5. Follows(C, D) /\ D.cli = C.cli /\ conns' = [conns EXCEPT ![c] = D]
    BY <1>2, <2>1, <2>4 DEF S
  <2> HIDE DEF D
  <2>6. NoUnexpectedError' /\ ~(downloaded + 1 >= FileSize)
    BY <1>1, <1>6, <2>1, ConstantFacts DEF Inv, TypeInv, NoUnexpectedError
  <2> QED BY <1>1, <1>4, <1>6, <2>1, <2>5, <2>6, DownloadStep
<1>7. ASSUME ~downloadComplete, ~(downloaded + 1 < FileSize)
      PROVE  Inv'
  <2>1. /\ downloaded' = downloaded + 1 /\ downloadComplete' = TRUE /\ downloaded + 1 >= FileSize
    BY <1>7, ConstantFacts DEF ReplyArrives, Inv, TypeInv
  <2>2. CASE C.cli = "connected"
    <3> DEFINE S == ClosedByClient(R)
    <3>1. conns' = [conns EXCEPT ![c] = S] /\ selfQ' = Append(selfQ, SelfMsg("infoClose")) /\ simError' = simError
      BY <1>7, <2>2 DEF ReplyArrives, apVars
    <3>2. selfQ' = <<SelfMsg("infoClose")>>
      BY <1>2, <3>1
    <3> HIDE DEF R
    <3>3. Follows(R, S) /\ S.cli = "locallyClosed"
      BY <1>2, <2>2, ClosedOf
    <3> HIDE DEF S
    <3>4. Follows(C, S)
      BY <1>2, <3>3, FollowsTwice
    <3>5. NoUnexpectedError'
      BY <1>1, <3>1 DEF Inv, NoUnexpectedError
    <3> QED BY <1>1, <1>4, <1>7, <2>1, <3>1, <3>2, <3>3, <3>4, <3>5, DownloadStep
  <2>3. CASE C.cli # "connected"
    <3>1. conns' = conns /\ selfQ' = <<>> /\ simError' = "closedTwice"
      BY <1>2, <1>7, <2>3 DEF ReplyArrives, Fails
    <3>2. conns' = [conns EXCEPT ![c] = C] /\ Follows(C, C)
      BY <3>1, FollowsItself DEF Inv, TypeInv
    <3>3. NoUnexpectedError'
      BY <1>1, <1>3, <3>1 DEF NoUnexpectedError
    <3> QED BY <1>1, <1>4, <1>7, <2>1, <3>1, <3>2, <3>3, DownloadStep
  <2> QED BY <2>2, <2>3
<1> QED BY <1>5, <1>6, <1>7

LEMMA VideoArrivesStep ==
  ASSUME Inv, NEW c \in ConnIds, VideoArrives(c)
  PROVE  Inv'
<1> DEFINE C == conns[c]
           R == Received(C)
           S == CallClosed(R)
<1>1. /\ ClientGets(c, "ap", "video") /\ "video" # "FIN"
      /\ UNCHANGED <<cliList, client, appContext, videoTimers, simError, config, link, associating, assocTimers,
                     apInitTimer, apThread, infoThread, apList>>
  BY DEF VideoArrives, serverVars, apVars, radio, threads
<1>2. /\ C \in Conn /\ R \in Conn /\ Follows(C, R) /\ R.cli = C.cli /\ C.cli \in {"connected", "locallyClosed"}
      /\ selfQ = <<>> /\ ConnOK(R) /\ ModeOK(R) /\ c \in OpenTo("ap")
      /\ Cardinality(VideosIn(C.in)) = Cardinality(VideosIn(R.in)) + 1
  BY <1>1, Gets
<1>3. NoUnexpectedError'
  BY <1>1 DEF Inv, NoUnexpectedError
<1>4. CASE downloadComplete
  <2>1. /\ conns' = [conns EXCEPT ![c] = R] /\ selfQ' = <<>>
        /\ UNCHANGED <<downloaded, downloadComplete>>
    BY <1>2, <1>4 DEF VideoArrives, play
  <2>2. SelfForm' /\ ~Due("init")' /\ ~Due("infoClose")' /\ ~Due("mnClassify")'
    BY <2>1 DEF SelfForm, Due
  <2> HIDE DEF R
  <2> QED BY <1>1, <1>2, <2>1, <2>2, HeardStep
<1>5. CASE ~downloadComplete
  <2>1. /\ downloaded' = downloaded + 1 /\ downloadComplete' = (downloaded + 1 >= FileSize)
        /\ IF downloadComplete'
           THEN conns' = [conns EXCEPT ![c] = S] /\ selfQ' = Append(selfQ, SelfMsg("infoClose"))
           ELSE conns' = [conns EXCEPT ![c] = R] /\ UNCHANGED selfQ
    BY <1>5 DEF VideoArrives
  <2>2. \A g : Append(<<>>, g) = <<g>>
    OBVIOUS
  <2>3. selfQ' = <<>> \/ (selfQ' = <<SelfMsg("infoClose")>> /\ downloadComplete')
    BY <1>2, <2>1, <2>2
  <2> HIDE DEF R
  <2>4. /\ Follows(R, S) /\ S.in = R.in
        /\ S.cli = R.cli \/ S.cli = "locallyClosed"
    BY <1>2, CalledToClose
  <2> HIDE DEF S
  <2>5. Follows(C, S)
    BY <1>2, <2>4, FollowsTwice
  <2> DEFINE D == IF downloadComplete' THEN S ELSE R
  <2>6. PICK E : E = D
    OBVIOUS
  <2>7. /\ Follows(C, E) /\ Follows(R, E) /\ (E.cli = C.cli \/ E.cli = "locallyClosed")
        /\ conns' = [conns EXCEPT ![c] = E] /\ E.in = R.in
    <3>1. Follows(R, R)
      <4>1. Cardinality(VideosIn(R.in)) \in Nat /\ Cardinality(RequestedIn(R.out)) \in Nat
        BY <1>2, Counts
      <4> QED BY <1>2, <4>1 DEF Follows
    <3> QED BY <1>2, <2>1, <2>4, <2>5, <2>6, <3>1
  <2>8. ASSUME config.closeTcp PROVE VideoInv'
    <3> SUFFICES ASSUME config.app = "video", ~downloadComplete', NEW d \in ConnIds
                 PROVE  downloaded' + Promised(d)' <= FileSize
      BY <1>1 DEF VideoInv
    <3>1. Put(c, E)
      BY <1>1, <2>7 DEF Put, Follows
    <3>2. conns'[c] = E /\ \A e \in ConnIds \ {c} : conns'[e] = conns[e]
      BY <3>1, PutOK DEF Inv
    <3>3. \A e \in ConnIds : LeftToSend(e)' = LeftToSend(e)
      BY <1>1, <2>7, <3>2 DEF LeftToSend, Follows
    <3>4. downloaded + Promised(d) <= FileSize /\ downloaded \in Nat
      BY <1>5, <2>8 DEF Inv, VideoInv, TypeInv
    <3>5. CASE d = c
      <4>1. /\ Promised(c)' = Cardinality(VideosIn(E.in)) + Cardinality(RequestedIn(E.out)) + LeftToSend(c)'
        BY <3>2, PromisedAfter
      <4>2. /\ Promised(c) = Cardinality(VideosIn(C.in)) + Cardinality(RequestedIn(C.out)) + LeftToSend(c)
            /\ LeftToSend(c) \in Nat
        BY PromisedIs DEF Inv
      <4>3. LeftToSend(c)' = LeftToSend(c)
        BY <3>3
      <4>4. Cardinality(RequestedIn(E.out)) <= Cardinality(RequestedIn(C.out))
        BY <2>7 DEF Follows
      <4>5. /\ Cardinality(VideosIn(R.in)) \in Nat /\ Cardinality(RequestedIn(C.out)) \in Nat
        BY <1>2, Counts
      <4>6. E \in Conn
        BY <2>7 DEF Follows
      <4>7. Cardinality(RequestedIn(E.out)) \in Nat
        BY <4>6, Counts
      <4> QED BY <1>2, <2>1, <2>7, <3>4, <3>5, <4>1, <4>2, <4>3, <4>4, <4>5, <4>7, ConstantFacts
    <3>6. CASE d # c
      <4>1. Promised(d) = 0
        BY <1>2, <2>8, <3>6, PromisedByOne
      <4>2. LeftToSend(d)' = LeftToSend(d)
        BY <3>3
      <4>3. Promised(d)' = Promised(d)
        BY <3>2, <3>6, <4>2 DEF Promised
      <4>4. downloaded + 1 <= FileSize
        BY <1>5, <3>4, ConstantFacts DEF Inv, TypeInv
      <4> QED BY <2>1, <3>4, <4>1, <4>3, <4>4, ConstantFacts
    <3> QED BY <3>5, <3>6
  <2> QED BY <1>1, <1>3, <1>5, <2>1, <2>3, <2>7, <2>8, DownloadStep
<1> QED BY <1>4, <1>5

LEMMA FinArrivesStep ==
  ASSUME Inv, NEW c \in ConnIds, FinArrives(c)
  PROVE  Inv'
<1> DEFINE C == conns[c]
           D == [Received(C) EXCEPT !.cli = "closed"]
           e == [t |-> "remove", c |-> c]
<1>1. /\ C.in # <<>> /\ Head(C.in).t = "FIN" /\ C.cli = "locallyClosed" /\ selfQ = <<>>
      /\ conns' = [conns EXCEPT ![c] = D] /\ selfQ' = <<e>>
      /\ UNCHANGED <<cliList, client, appContext, videoTimers, simError, config, link, associating, assocTimers,
                     apInitTimer, apThread, infoThread, apList, downloaded, downloadComplete>>
  <2>1. \A g : Append(<<>>, g) = <<g>>
    OBVIOUS
  <2> QED BY <2>1 DEF FinArrives, Idle, ToClient, serverVars, apVars, radio, threads, play
<1>2. C \in Conn /\ ConnOK(C) /\ ModeOK(C)
  BY DEF Inv, TypeInv, ConnInv
<1>3. D \in Conn /\ ConnOK(D) /\ D = [C EXCEPT !.cli = "closed", !.in = <<>>] /\ C.srv = "closed" /\ C.out = <<>>
  BY <1>1, <1>2, ReceiveFinOK
<1>4. /\ D.kind = C.kind /\ D.ap = C.ap /\ D.cli = "closed" /\ D.srv = C.srv /\ D.out = C.out /\ D.in = <<>>
  BY <1>2, <1>3 DEF Conn
<1> HIDE DEF D
<1>5. Cardinality(VideosIn(C.in)) \in Nat /\ Cardinality(RequestedIn(C.out)) \in Nat
      /\ Cardinality(VideosIn(D.in)) = 0
  BY <1>2, <1>4, Counts, FreeAgain, FreeConnFields
<1>6. ModeOK(D)
  BY <1>2, <1>3, <1>4, Short DEF ModeOK
<1>7. Follows(C, D)
  BY <1>3, <1>4, <1>5, <1>6 DEF Follows
<1>8. Put(c, D)
  BY <1>1, <1>3, <1>6 DEF Put
<1>9. conns'[c] = D /\ \A d \in ConnIds \ {c} : conns'[d] = conns[d]
  BY <1>8, PutOK DEF Inv
<1>10. SelfForm'
  BY <1>1, <1>4, <1>9 DEF SelfForm
<1>11. ~Due("init")' /\ ~Due("mnClassify")' /\ ~Due("infoClose")'
  <2>1. \A g : <<g>>[1] = g
    OBVIOUS
  <2> QED BY <1>1, <2>1 DEF Due
<1>12. UnderWay
  <2>1. c \in SocketMap /\ c \in OpenTo(C.kind) /\ C.kind \in {"ap", "info"}
    BY <1>1, <1>2 DEF SocketMap, InUse, OpenTo, Conn
  <2> QED BY <1>1, <2>1 DEF UnderWay
<1>13. ASSUME config.closeTcp, NEW d \in ConnIds, conns'[d].kind = "ap", conns'[d].cli = "connected", ~downloadComplete'
       PROVE  InfoOpen'
  <2>1. d # c /\ conns'[d] = conns[d]
    BY <1>4, <1>9, <1>13
  <2>2. d \in OpenTo("ap") /\ ~Due("closeAp")
    BY <1>1, <1>13, <2>1 DEF OpenTo, SocketMap, InUse, Due
  <2>3. InfoOpen
    BY <1>1, <1>13, <2>1, <2>2 DEF Inv, SessionInv, Heard
  <2>4. infoThread \in ConnIds /\ infoThread # c
    BY <1>1, <2>3 DEF InfoOpen, Inv, TypeInv, ThreadIds
  <2> QED BY <1>1, <1>9, <2>3, <2>4 DEF InfoOpen
<1>14. NoUnexpectedError'
  BY <1>1 DEF Inv, NoUnexpectedError
<1>15. conns[c].cli # "free" /\ D.cli \in {"locallyClosed", "closed"}
  BY <1>1, <1>4
<1> HIDE DEF C
<1> QED BY <1>1, <1>7, <1>10, <1>11, <1>12, <1>13, <1>14, <1>15, FollowStep DEF C

----------------------------------------------------------------------------
(* Decisions *)

LEMMA StayHereStep ==
  ASSUME Inv, NEW c \in ConnIds, NEW type, type # "FIN", ClientGets(c, "info", type), StayHere(c),
         UNCHANGED <<client, config, link, associating, apInitTimer, threads, play>>
  PROVE  Inv'
<1>1. /\ Follows(conns[c], Received(conns[c])) /\ Received(conns[c]).cli = conns[c].cli /\ selfQ = <<>>
  BY Gets
<1> DEFINE D == Received(conns[c])
<1>2. /\ conns' = [conns EXCEPT ![c] = D] /\ selfQ' = <<>>
      /\ UNCHANGED <<cliList, client, appContext, videoTimers, simError, config, link, associating, assocTimers,
                     apInitTimer, apThread, infoThread, apList, downloaded, downloadComplete>>
  BY <1>1 DEF StayHere, apVars, threads, play
<1>3. SelfForm' /\ ~Due("init")' /\ ~Due("infoClose")' /\ ~Due("mnClassify")'
  BY <1>2 DEF SelfForm, Due
<1> HIDE DEF D
<1> QED BY <1>1, <1>2, <1>3, HeardStep DEF D

LEMMA StartHandoverStep ==
  ASSUME Inv, NEW c \in ConnIds, NEW type, type # "FIN", ClientGets(c, "info", type),
         conns[c].cli = "connected", NEW a, StartHandover(c, a),
         UNCHANGED <<client, config, link, associating, apInitTimer, threads, play>>
  PROVE  Inv'
<1> DEFINE C == conns[c]
           R == Received(C)
<1>1. /\ C \in Conn /\ R \in Conn /\ Follows(C, R) /\ R.cli = C.cli /\ C.cli = "connected"
      /\ selfQ = <<>> /\ ConnOK(R) /\ ModeOK(R) /\ UnderWay /\ simError = "none" /\ R.kind = "info"
  BY Gets
<1>2. UNCHANGED <<cliList, appContext, videoTimers, client, config, link, associating,
                  apInitTimer, apThread, infoThread, apList, downloaded, downloadComplete>>
  BY DEF StartHandover, Fails, apVars, threads, play
<1>3. config.closeTcp => link \in apList
  BY <1>1, StillBeforeMoving DEF Met
<1>4. \A g : Append(<<>>, g) = <<g>> /\ <<g>>[1] = g
  OBVIOUS
<1>5. CASE link \notin apList
  <2>1. conns' = conns /\ selfQ' = <<>> /\ ~config.closeTcp
    BY <1>1, <1>3, <1>5 DEF StartHandover, LookupAP
  <2>2. conns' = [conns EXCEPT ![c] = C] /\ Follows(C, C)
    BY <2>1, FollowsItself DEF Inv, TypeInv
  <2>3. SelfForm' /\ ~Due("init")' /\ NoUnexpectedError'
    BY <1>2, <2>1 DEF SelfForm, Due, NoUnexpectedError
  <2> QED BY <1>2, <2>1, <2>2, <2>3, FollowStep
<1>6. CASE link \in apList /\ config.closeTcp
  <2> DEFINE D == ClosedByClient(R)
  <2>1. /\ conns' = [conns EXCEPT ![c] = D] /\ selfQ' = <<SelfMsg("closeAp")>>
        /\ assocTimers' = assocTimers /\ simError' = simError
    BY <1>1, <1>4, <1>6 DEF StartHandover, LookupAP, apVars
  <2> HIDE DEF R
  <2>2. Follows(R, D) /\ D.cli = "locallyClosed"
    BY <1>1, ClosedOf
  <2> HIDE DEF D
  <2>3. Follows(C, D)
    BY <1>1, <2>2, FollowsTwice
  <2>4. SelfForm'
    BY <1>2, <1>6, <2>1 DEF SelfForm
  <2>5. Due("closeAp")' /\ ~Due("init")' /\ ~Due("mnClassify")' /\ ~Due("infoClose")'
    <3>1. SelfMsg("closeAp").t = "closeAp" /\ selfQ'[1] = SelfMsg("closeAp") /\ selfQ' # <<>>
      BY <1>4, <2>1 DEF SelfMsg
    <3> QED BY <3>1 DEF Due
  <2>6. NoUnexpectedError'
    BY <1>1, <1>2, <2>1 DEF NoUnexpectedError
  <2>7. C.cli # "free" /\ D.cli \in {"locallyClosed", "closed"}
    BY <1>1, <2>2
  <2> HIDE DEF C
  <2> QED BY <1>1, <1>2, <2>1, <2>3, <2>4, <2>5, <2>6, <2>7, FollowStep DEF C
<1>7. CASE link \in apList /\ ~config.closeTcp
  <2> DEFINE g == Msg("unregister")
             D == SentByClient(R, <<g>>)
  <2>1. conns' = [conns EXCEPT ![c] = D] /\ selfQ' = <<SelfMsg("unregisterAp")>>
    BY <1>1, <1>4, <1>7 DEF StartHandover, LookupAP
  <2>2. g \in ClientMsgs /\ g.t = "unregister"
    BY ServerTypes
  <2> HIDE DEF R, g
  <2>3. Follows(R, D) /\ D.cli = R.cli
    BY <1>1, <1>7, <2>2, Said
  <2> HIDE DEF D
  <2>4. Follows(C, D)
    BY <1>1, <2>3, FollowsTwice
  <2>5. SelfForm'
    BY <1>2, <1>7, <2>1 DEF SelfForm
  <2>6. ~Due("init")'
    <3>1. SelfMsg("unregisterAp").t = "unregisterAp" /\ selfQ'[1] = SelfMsg("unregisterAp")
      BY <1>4, <2>1 DEF SelfMsg
    <3> QED BY <3>1 DEF Due
  <2>7. NoUnexpectedError'
    BY <1>2, <1>7 DEF NoUnexpectedError
  <2>8. D.cli = C.cli
    BY <1>1, <2>3
  <2> HIDE DEF C
  <2> QED BY <1>2, <1>7, <2>1, <2>4, <2>5, <2>6, <2>7, <2>8, FollowStep DEF C
<1> QED BY <1>5, <1>6, <1>7

LEMMA InfoClassArrivesStep ==
  ASSUME Inv, NEW c \in ConnIds, InfoClassArrives(c)
  PROVE  Inv'
<1>1. /\ ClientGets(c, "info", "infoClass") /\ "infoClass" # "FIN"
      /\ UNCHANGED <<client, config, link, associating, apInitTimer, threads, play>>
  BY DEF InfoClassArrives
<1>2. CASE StayHere(c)
  BY <1>1, <1>2, StayHereStep
<1>3. ASSUME ~StayHere(c) PROVE conns[c].cli = "connected" /\ \E a \in AccessPoints : StartHandover(c, a)
  BY <1>3 DEF InfoClassArrives
<1> QED BY <1>1, <1>2, <1>3, StartHandoverStep

LEMMA RecommendationArrivesStep ==
  ASSUME Inv, NEW c \in ConnIds, RecommendationArrives(c)
  PROVE  Inv'
<1>1. /\ ClientGets(c, "info", "ho") /\ "ho" # "FIN"
      /\ UNCHANGED <<client, config, link, associating, apInitTimer, threads, play>>
  BY DEF RecommendationArrives
<1>2. CASE StayHere(c)
  BY <1>1, <1>2, StayHereStep
<1>3. ASSUME ~StayHere(c) PROVE conns[c].cli = "connected" /\ \E a : StartHandover(c, a)
  BY <1>3 DEF RecommendationArrives
<1> QED BY <1>1, <1>2, <1>3, StartHandoverStep

----------------------------------------------------------------------------
(* The invariant *)

LEMMA InvInit == Init => Inv
<1> SUFFICES ASSUME Init PROVE Inv
  OBVIOUS
<1>1. /\ \A c \in ConnIds : conns[c] = FreeConn
      /\ cliList = [a \in AccessPoints |-> 0] /\ appContext = [c \in ConnIds |-> 0] /\ videoTimers = {}
      /\ simError = "none" /\ client = NoClient /\ selfQ = <<>>
      /\ link = NoAP /\ associating \in AccessPoints /\ assocTimers = {} /\ apInitTimer = NoAP
      /\ apThread = 0 /\ infoThread = 0 /\ downloaded = 0 /\ downloadComplete = FALSE /\ config \in Configs
  BY DEF Init, InitAP, InitInfo
<1>2. conns \in [ConnIds -> Conn]
  BY FreeConnFields DEF Init
<1>3. TypeInv
  BY <1>1, <1>2, ConstantFacts DEF TypeInv, APOrNone, ThreadIds, NoClient
<1>4. ConnInv
  BY <1>1, FreeAgain DEF ConnInv
<1>5. EntryInv
  BY <1>1, FreeConnFields DEF EntryInv, NoClient
<1>6. SelfForm /\ TimerInv /\ NoUnexpectedError
  BY <1>1 DEF SelfForm, TimerInv, NoUnexpectedError
<1>7. SocketMap = {} /\ \A k : OpenTo(k) = {}
  BY <1>1, FreeConnFields DEF SocketMap, InUse, OpenTo
<1>8. SessionInv
  BY <1>1, <1>7 DEF SessionInv, OneThread, Moving, Beginning, Heard, UnderWay, Due, NoClient
<1>9. VideoInv
  <2> SUFFICES ASSUME NEW c \in ConnIds PROVE downloaded + Promised(c) <= FileSize
    BY DEF VideoInv
  <2>1. LeftToSend(c) = 0
    BY <1>1 DEF LeftToSend
  <2>2. Promised(c) = 0
    BY <1>1, <1>3, <2>1, FreeAgain, PromisedIs
  <2> QED BY <1>1, <2>2, ConstantFacts
<1> QED BY <1>3, <1>4, <1>5, <1>6, <1>8, <1>9 DEF Inv

LEMMA SelfStep ==
  ASSUME Inv, Self
  PROVE  Inv'
BY SelfInitStep, SelfCloseAPStep, SelfUnregisterAPStep, SelfInfoCloseStep, SelfInfoClassifyStep,
   SelfMnClassifyStep, SelfRemoveStep DEF Self

LEMMA TimersStep ==
  ASSUME Inv, DecisionTimeout \/ PlayTimer \/ PauseTimer
  PROVE  Inv'
<1>1. UNCHANGED <<conns, serverVars, config, radio, selfQ, threads, choice, downloaded, downloadComplete>>
  BY DEF DecisionTimeout, PlayTimer, PauseTimer, play
<1>2. UNCHANGED <<conns, cliList, appContext, videoTimers, client, config, radio, selfQ,
                  apThread, infoThread, apList, newSSID, downloaded, downloadComplete, simError>>
  BY <1>1 DEF serverVars, apVars, threads, choice
<1> QED BY <1>2, QuietStep

LEMMA ClientReceivesStep ==
  ASSUME Inv, NEW c \in ConnIds, ClientReceives(c)
  PROVE  Inv'
BY EstablishedStep, APClassArrivesStep, ReplyArrivesStep, VideoArrivesStep, FinArrivesStep,
   InfoClassArrivesStep, RecommendationArrivesStep DEF ClientReceives

LEMMA InvStep == Inv /\ [Next]_vars => Inv'
<1> SUFFICES ASSUME Inv, [Next]_vars PROVE Inv'
  OBVIOUS
<1>1. CASE Self
  BY <1>1, SelfStep
<1>2. CASE Configured
  BY <1>2, ConfiguredStep
<1>3. CASE FirstConnection
  BY <1>3, FirstConnectionStep
<1>4. CASE DecisionTimeout \/ PlayTimer \/ PauseTimer
  BY <1>4, TimersStep
<1>5. ASSUME NEW a \in AccessPoints, Associate(a) PROVE Inv'
  BY <1>5, AssociateStep
<1>6. ASSUME NEW c \in ConnIds, ClientReceives(c) PROVE Inv'
  BY <1>6, ClientReceivesStep
<1>7. CASE Servers
  BY <1>7, ServersStep
<1>8. CASE UNCHANGED vars
  <2>1. UNCHANGED <<conns, cliList, appContext, videoTimers, client, config, radio, selfQ,
                    apThread, infoThread, apList, newSSID, downloaded, downloadComplete, simError>>
    BY <1>8 DEF vars, serverVars, apVars, threads, choice, play
  <2> QED BY <2>1, QuietStep
<1> QED BY <1>1, <1>2, <1>3, <1>4, <1>5, <1>6, <1>7, <1>8 DEF Next

LEMMA Invariant == Spec => []Inv
BY InvInit, InvStep, PTL DEF Spec

----------------------------------------------------------------------------
(* The theorems *)

LEMMA EntriesFollow == Inv => EntriesPointToOpenConnections
BY DEF Inv, EntryInv, EntriesPointToOpenConnections

LEMMA PromisesFollow == Inv => VideoPromisedOnce
<1> SUFFICES ASSUME Inv, config.app = "video", config.closeTcp, ~downloadComplete, NEW c \in ConnIds
             PROVE  /\ downloaded + Promised(c) <= FileSize
                    /\ Promised(c) # 0 => \A d \in ConnIds \ {c} : Promised(d) = 0
  BY DEF VideoPromisedOnce
<1>1. downloaded + Promised(c) <= FileSize
  BY DEF Inv, VideoInv
<1>2. ASSUME Promised(c) # 0, NEW d \in ConnIds \ {c} PROVE Promised(d) = 0
  <2>1. c \in OpenTo("ap")
    BY <1>2, PromiseOfAP
  <2> QED BY <2>1, PromisedByOne
<1> QED BY <1>1, <1>2

\* With any number of access points and connections, in every configuration and
\* however the messages, timers and handovers interleave: every entry of an access
\* point or of the information server points to an open connection of its own, and
\* a client that closes its connections is entered exactly where it is connected.
THEOREM TablesAgree == Spec => []EntriesPointToOpenConnections
BY Invariant, EntriesFollow, PTL

\* A client that closes its connections before a handover never runs into an
\* error() of the program, whatever the number of access points, the size of the
\* file and the decisions taken; only the end of a file may close a connection twice.
THEOREM HandoversMeetNoError == Spec => []NoUnexpectedError
<1>1. Inv => NoUnexpectedError
  BY DEF Inv
<1> QED BY <1>1, Invariant, PTL

\* Whatever the size of the video and however often its client moves, one connection
\* at most still promises packets, and what has arrived and what is promised is never
\* more than the video: no packet is asked for a second time.
THEOREM VideoAskedForOnce == Spec => []VideoPromisedOnce
BY Invariant, PromisesFollow, PTL

-----------------------------------------------------------------------------
(* The rounds of load balancing *)

Stages == {"sample", "poa", "client", "done", "error"}
Ranked == Cardinality(PoAs)

TablesInv ==
  /\ network \in Networks /\ rules \in Rules /\ at \in Stages
  /\ capacity \in [PoAs -> Int] /\ chosenAction \in [PoAs -> 0 .. 10]
  /\ recommended \in [Hosts -> PoAs \cup {NoPoA}]
  /\ m \in Nat /\ i \in Nat

\* Before the rankings are made nothing has happened; then they stay as they are.
RankingInv ==
  /\ at = "sample" => /\ recommended = [h \in Hosts |-> NoPoA] /\ poaRanking = <<>>
                      /\ capacity = [p \in PoAs |-> Ap(p).available]
  /\ at # "sample" => /\ poaRanking \in Sorted(PoAs, PoABefore)
                      /\ clientRanking \in Sorted(Hosts, ComesBefore)
                      /\ m \in 0 .. Ranked
  /\ at \in {"client", "error"} =>
       /\ m > 0 /\ Congested(poaRanking[m]) /\ rules.single \in {NoPoA, poaRanking[m]}
       /\ i \in 1 .. Cardinality(Hosts) + 1

\* The PoAs that are through, and the one that is worked on.
Through(p) == \E k \in m + 1 .. Ranked : poaRanking[k] = p
Current(p) == at \in {"client", "error"} /\ poaRanking[m] = p

\* Clients move from a congested PoA that was reached; those still to be asked have not moved.
ReachedInv ==
  at # "sample" =>
  /\ \A h \in Hosts : recommended[h] # NoPoA => Through(Host(h).poa) \/ Current(Host(h).poa)
  /\ at = "client" => \A k \in i .. Cardinality(Hosts) :
       Current(Host(clientRanking[k]).poa) => recommended[clientRanking[k]] = NoPoA

Coming(p) == {h \in Hosts : recommended[h] = p}

\* What is left of a PoA's bandwidth.
RoomInv ==
  \A p \in PoAs : /\ capacity[p] = Ap(p).available - Demand(Coming(p))
                  /\ Coming(p) # {} => capacity[p] >= PoAMargin

NoPlace(h) == \A p \in PoAs : ~CouldGo(h, p)
Left(p) == {h \in Hosts : Host(h).poa = p /\ recommended[h] = NoPoA}
Asked(h) == \E k \in 1 .. i - 1 : clientRanking[k] = h

\* Who was asked and has not moved had no place to go to.
LeftInv ==
  /\ at = "client" => \/ i = Cardinality(Hosts) + 1 /\ Enough(poaRanking[m], recommended)
                      \/ \A h \in Left(poaRanking[m]) : Asked(h) => NoPlace(h)
  /\ at # "sample" /\ ~rules.useLearning /\ rules.single = NoPoA =>
       \A p \in PoAs : Through(p) =>
         Enough(p, recommended) \/ \A h \in Left(p) : NoPlace(h)

\* The action of a PoA that is through fits what was freed.
Fits(p) ==
  /\ chosenAction[p] = 10 \/ 20 * Freed(p, recommended) <= chosenAction[p] * Ap(p).max
  /\ chosenAction[p] = 0 \/ 20 * Freed(p, recommended) > (chosenAction[p] - 1) * Ap(p).max
ActionInv ==
  at # "sample" /\ rules.useLearning =>
    \A p \in PoAs : Through(p) /\ rules.single \in {NoPoA, p} => Fits(p)

\* A round ends when no congested PoA is left.
EndInv == at = "done" => \A p \in PoAs : Congested(p) => Through(p)

RoundInv ==
  /\ TablesInv /\ RankingInv /\ ReachedInv /\ RoomInv /\ MovesHelp
  /\ LeftInv /\ PreferredFirst /\ ActionInv /\ EndInv

-----------------------------------------------------------------------------
(* Numbers and rankings *)

LEMMA LeastOf ==
  ASSUME NEW T, T \subseteq Nat, T # {}
  PROVE  \E x \in T : x = Min(T) /\ \A y \in T : x <= y
<1>1. PICK x \in T : \A y \in T : ~(<<y, x>> \in Below)
  BY BelowWellFounded, WFMin
<1>2. ASSUME NEW y \in T PROVE x <= y
  <2>1. x \in Nat /\ y \in Nat /\ ~(<<y, x>> \in Below)
    BY <1>1
  <2>2. y < x => <<y, x>> \in Below
    BY <2>1 DEF Below
  <2> QED BY <2>1, <2>2
<1>3. \A y \in T : (\A z \in T : y <= z) => y = x
  <2> SUFFICES ASSUME NEW y \in T, \A z \in T : y <= z PROVE y = x
    OBVIOUS
  <2>1. y <= x /\ x <= y /\ x \in Nat /\ y \in Nat
    BY <1>2
  <2> QED BY <2>1
<1>4. Min(T) \in T /\ \A z \in T : Min(T) <= z
  BY <1>2 DEF Min
<1> QED BY <1>3, <1>4

LEMMA LargerOfTwo ==
  ASSUME NEW x \in Nat, NEW y \in Nat
  PROVE  \E z \in {x, y} : z = Max({x, y}) /\ x <= z /\ y <= z
<1>1. PICK z \in {x, y} : x <= z /\ y <= z
  OBVIOUS
<1>2. \A u \in {x, y} : (\A v \in {x, y} : u >= v) => u = z
  BY <1>1
<1>3. Max({x, y}) = z
  BY <1>1, <1>2 DEF Max
<1> QED BY <1>1, <1>3

\* A sequence without repetition of all members of a finite set.
Ranks(s, S) ==
  /\ s \in [1 .. Cardinality(S) -> S] /\ Len(s) = Cardinality(S)
  /\ \A k, l \in 1 .. Cardinality(S) : s[k] = s[l] => k = l
  /\ \A x \in S : \E k \in 1 .. Cardinality(S) : s[k] = x

LEMMA SeqsRank ==
  ASSUME NEW S, IsFiniteSet(S), NEW s \in SetToSeqs(S)
  PROVE  Ranks(s, S)
<1> DEFINE D == 1 .. Cardinality(S)
<1>1. Cardinality(S) \in Nat
  BY FS_CardinalityType
<1>2. s \in [D -> S] /\ \A k, l \in D : s[k] = s[l] => k = l
  BY DEF SetToSeqs
<1>3. IsFiniteSet(D) /\ Cardinality(D) = Cardinality(S)
  <2>1. 1 \in Int /\ Cardinality(S) \in Int
    BY <1>1
  <2>2. IsFiniteSet(D) /\ Cardinality(D) = IF 1 > Cardinality(S) THEN 0 ELSE Cardinality(S) - 1 + 1
    BY <2>1, FS_Interval
  <2> QED BY <1>1, <2>2
<1>4. s \in Injection(D, S)
  BY <1>2 DEF Injection, IsInjective
<1>5. s \in Surjection(D, S)
  <2> HIDE DEF D
  <2> QED BY <1>3, <1>4, FS_Injection
<1>6. Len(s) = Cardinality(S)
  <2>1. s \in Seq(S)
    BY <1>1, <1>2
  <2> QED BY <1>1, <1>2, <2>1, LenProperties
<1> QED BY <1>2, <1>5, <1>6 DEF Ranks, Surjection

LEMMA PoAsRank ==
  ASSUME RankingInv, at # "sample"
  PROVE  /\ Ranks(poaRanking, PoAs) /\ Ranks(clientRanking, Hosts)
         /\ \A k \in 1 .. Ranked : \A l \in 1 .. k - 1 : ~PoABefore(poaRanking[k], poaRanking[l])
         /\ \A k \in 1 .. Cardinality(Hosts) : \A l \in 1 .. k - 1 :
              ~ComesBefore(clientRanking[k], clientRanking[l])
<1>1. /\ poaRanking \in SetToSeqs(PoAs)
      /\ \A k \in 1 .. Len(poaRanking) : \A l \in 1 .. k - 1 : ~PoABefore(poaRanking[k], poaRanking[l])
  BY DEF RankingInv, Sorted
<1>2. /\ clientRanking \in SetToSeqs(Hosts)
      /\ \A k \in 1 .. Len(clientRanking) : \A l \in 1 .. k - 1 :
           ~ComesBefore(clientRanking[k], clientRanking[l])
  BY DEF RankingInv, Sorted
<1>3. Ranks(poaRanking, PoAs) /\ Ranks(clientRanking, Hosts)
  BY <1>1, <1>2, SeqsRank, TablesAssumption
<1> QED BY <1>1, <1>2, <1>3 DEF Ranks, Ranked

LEMMA TableTypes ==
  ASSUME TablesInv
  PROVE  /\ \A h \in Hosts : /\ Host(h).poa \in PoAs /\ Host(h).class \in 1 .. 3 /\ Host(h).need \in Nat
                             /\ Host(h).potential \in 0 .. 5 /\ Host(h).grade \in [PoAs -> 0 .. 5]
         /\ \A p \in PoAs : /\ Ap(p).status \in 1 .. 5 /\ Ap(p).max \in Nat \ {0}
                            /\ Ap(p).available \in Nat
<1>1. network \in TablesOf(1 .. 5, Nat, Nat, 0 .. 5)
  BY NetworksAssumption DEF TablesInv
<1>2. /\ network.ap \in [PoAs -> [status : 1 .. 5, max : Nat \ {0}, available : Nat]]
      /\ network.host \in [Hosts -> [poa : PoAs, class : 1 .. 3, need : Nat, potential : 0 .. 5,
                                     grade : [PoAs -> 0 .. 5]]]
  BY <1>1 DEF TablesOf
<1> QED BY <1>2 DEF Host, Ap

\* How well a PoA can take clients is a number, and 0 for a congested one.
LEMMA CapacityType ==
  ASSUME TablesInv, NEW p \in PoAs
  PROVE  Capacity(p) \in 0 .. 5 /\ (Congested(p) => Capacity(p) = 0)
<1>1. Ap(p).status \in 1 .. 5
  BY TableTypes
<1>2. AvailableBandwidth(Ap(p).available) \in 0 .. 5
  <2> DEFINE peaks == {7, 14, 22, 33, 51}
             below == {peak \in peaks : Ap(p).available >= peak}
  <2>1. IsFiniteSet(peaks) /\ Cardinality(peaks) <= 5
    <3> DEFINE f == [k \in 1 .. 5 |-> IF k = 1 THEN 7 ELSE IF k = 2 THEN 14 ELSE IF k = 3 THEN 22
                                       ELSE IF k = 4 THEN 33 ELSE 51]
    <3>1. f[1] = 7 /\ f[2] = 14 /\ f[3] = 22 /\ f[4] = 33 /\ f[5] = 51 /\ {1, 2, 3, 4, 5} \subseteq 1 .. 5
      OBVIOUS
    <3>2. f \in [1 .. 5 -> peaks]
      OBVIOUS
    <3>3. \A y \in peaks : \E k \in 1 .. 5 : f[k] = y
      <4> HIDE DEF f
      <4> QED BY <3>1
    <3> HIDE DEF f, peaks
    <3>4. f \in Surjection(1 .. 5, peaks)
      BY <3>2, <3>3 DEF Surjection
    <3>5. IsFiniteSet(1 .. 5) /\ Cardinality(1 .. 5) = 5
      <4>1. 1 \in Int /\ 5 \in Int
        OBVIOUS
      <4>2. IsFiniteSet(1 .. 5) /\ Cardinality(1 .. 5) = IF 1 > 5 THEN 0 ELSE 5 - 1 + 1
        BY <4>1, FS_Interval, Zenon
      <4> QED BY <4>2
    <3>6. IsFiniteSet(peaks) /\ Cardinality(peaks) <= Cardinality(1 .. 5)
      BY <3>4, <3>5, FS_Surjection
    <3> QED BY <3>5, <3>6
  <2>2. below \in SUBSET peaks
    OBVIOUS
  <2> HIDE DEF peaks
  <2>3. IsFiniteSet(below) /\ Cardinality(below) <= Cardinality(peaks)
    BY <2>1, <2>2, FS_Subset
  <2>4. Cardinality(below) \in Nat /\ Cardinality(peaks) \in Nat
    BY <2>1, <2>3, FS_CardinalityType
  <2>5. Cardinality(below) \in 0 .. 5
    BY <2>1, <2>3, <2>4
  <2> QED BY <2>5 DEF AvailableBandwidth, peaks
<1>3. ASSUME NEW s \in 1 .. 5, NEW b \in 0 .. 5 PROVE CapacityRules[s + 1][b + 1] \in 0 .. 5
  <2>1. s = 1 \/ s = 2 \/ s = 3 \/ s = 4 \/ s = 5
    OBVIOUS
  <2>2. b = 0 \/ b = 1 \/ b = 2 \/ b = 3 \/ b = 4 \/ b = 5
    OBVIOUS
  <2> QED BY <2>1, <2>2 DEF CapacityRules
<1> QED BY <1>1, <1>2, <1>3 DEF Capacity

\* What is ranked before a PoA that is not congested is not congested either and can take as many.
LEMMA BetterBefore ==
  ASSUME TablesInv, NEW p \in PoAs, NEW q \in PoAs, ~PoABefore(p, q), ~Congested(p)
  PROVE  ~Congested(q) /\ Capacity(q) >= Capacity(p)
<1>1. Capacity(p) \in 0 .. 5 /\ Capacity(q) \in 0 .. 5
  BY CapacityType
<1> DEFINE Key(a) == <<IF Congested(a) THEN 1 ELSE 0, -Capacity(a), Users(a, 3), Users(a, 2), Users(a, 1)>>
<1>2. \A k \in 1 .. 5 : ~(Key(p)[k] < Key(q)[k] /\ \A l \in 1 .. k - 1 : Key(p)[l] = Key(q)[l])
  BY DEF PoABefore
<1>3. ~(Key(p)[1] < Key(q)[1])
  <2>1. 1 \in 1 .. 5 /\ \A l \in 1 .. 1 - 1 : FALSE
    OBVIOUS
  <2> HIDE DEF Key
  <2> QED BY <1>2, <2>1
<1>4. ~Congested(q)
  BY <1>3
<1>5. ~(Key(p)[2] < Key(q)[2])
  <2>1. Key(p)[1] = Key(q)[1]
    BY <1>4
  <2>2. 2 \in 1 .. 5 /\ \A l \in 1 .. 2 - 1 : l = 1
    OBVIOUS
  <2> HIDE DEF Key
  <2> QED BY <1>2, <2>1, <2>2
<1>6. ~(-Capacity(p) < -Capacity(q))
  BY <1>5
<1> QED BY <1>1, <1>4, <1>6

\* Every set of PoAs can be sorted by grade, best first.
LEMMA CanBeSorted ==
  ASSUME NEW grade \in [PoAs -> 0 .. 5], NEW S \in SUBSET PoAs
  PROVE  \E s \in SetToSeqs(S) : \A k \in 1 .. Len(s) : \A l \in 1 .. k - 1 : ~(grade[s[k]] > grade[s[l]])
<1> DEFINE OK(A) == \E s \in SetToSeqs(A) :
                      \A k \in 1 .. Len(s) : \A l \in 1 .. k - 1 : ~(grade[s[k]] > grade[s[l]])
           Bad == {n \in Nat : \E A \in SUBSET PoAs : Cardinality(A) = n /\ ~OK(A)}
<1>1. \A A \in SUBSET PoAs : IsFiniteSet(A) /\ Cardinality(A) \in Nat
  BY TablesAssumption, FS_Subset, FS_CardinalityType
<1>2. SUFFICES ASSUME Bad # {} PROVE FALSE
  BY <1>1
<1>3. PICK n \in Bad : \A x \in Bad : n <= x
  BY <1>2, LeastOf
<1>4. PICK A \in SUBSET PoAs : Cardinality(A) = n /\ ~OK(A)
  BY <1>3
<1>5. A # {}
  <2> SUFFICES ASSUME A = {} PROVE FALSE
    OBVIOUS
  <2>1. Cardinality(A) = 0
    BY FS_EmptySet
  <2>2. << >> \in [1 .. 0 -> A] /\ Len(<< >>) = 0
    OBVIOUS
  <2>3. << >> \in SetToSeqs(A)
    BY <2>1, <2>2 DEF SetToSeqs
  <2>4. OK(A)
    BY <2>2, <2>3
  <2> QED BY <1>4, <2>4
<1>6. PICK x \in A : \A y \in A : grade[x] <= grade[y]
  <2> DEFINE T == {grade[y] : y \in A}
  <2>1. T # {} /\ T \subseteq Nat
    BY <1>5
  <2>2. \E g \in T : \A h \in T : g <= h
    <3> HIDE DEF T
    <3> QED BY <2>1, LeastOf
  <2> QED BY <2>2
<1> DEFINE B == A \ {x}
<1>7. B \in SUBSET PoAs /\ Cardinality(B) = n - 1 /\ n \in Nat /\ n - 1 \in Nat
  <2>1. Cardinality(B) = Cardinality(A) - 1 /\ Cardinality(B) \in Nat /\ Cardinality(A) \in Nat
    BY <1>1, FS_RemoveElement
  <2> QED BY <1>4, <2>1
<1>8. OK(B)
  <2>1. n - 1 \notin Bad
    BY <1>3, <1>7
  <2> HIDE DEF OK
  <2> QED BY <1>7, <2>1
<1>9. PICK t \in SetToSeqs(B) : \A k \in 1 .. Len(t) : \A l \in 1 .. k - 1 : ~(grade[t[k]] > grade[t[l]])
  BY <1>8
<1>10. Ranks(t, B)
  <2> HIDE DEF B
  <2> QED BY <1>1, <1>7, <1>9, SeqsRank
<1>11. /\ t \in [1 .. n - 1 -> B] /\ Len(t) = n - 1
       /\ \A k, l \in 1 .. n - 1 : t[k] = t[l] => k = l
  BY <1>7, <1>10 DEF Ranks
<1> DEFINE s == [k \in 1 .. n |-> IF k < n THEN t[k] ELSE x]
<1>12. \A k \in 1 .. n : IF k < n THEN k \in 1 .. n - 1 /\ s[k] = t[k] /\ s[k] \in B
                                  ELSE k = n /\ s[k] = x
  BY <1>7, <1>11
<1>13. s \in [1 .. n -> A] /\ Len(s) = n
  <2>1. s \in [1 .. n -> A]
    BY <1>12
  <2>2. s \in Seq(A) /\ DOMAIN s = 1 .. n
    BY <1>7, <2>1
  <2> HIDE DEF s
  <2> QED BY <1>7, <2>1, <2>2, LenProperties
<1> HIDE DEF s
<1>14. s \in SetToSeqs(A)
  <2>1. ASSUME NEW k \in 1 .. n, NEW l \in 1 .. n, k # l PROVE s[k] # s[l]
    <3>1. CASE k < n /\ l < n
      BY <1>11, <1>12, <2>1, <3>1
    <3>2. CASE ~(k < n /\ l < n)
      <4>1. (k < n => s[k] # x) /\ (l < n => s[l] # x)
        BY <1>12
      <4> QED BY <1>7, <1>12, <2>1, <3>2, <4>1
    <3> QED BY <3>1, <3>2
  <2> QED BY <1>4, <1>13, <2>1 DEF SetToSeqs
<1>15. \A k \in 1 .. Len(s) : \A l \in 1 .. k - 1 : ~(grade[s[k]] > grade[s[l]])
  <2> SUFFICES ASSUME NEW k \in 1 .. n, NEW l \in 1 .. k - 1 PROVE ~(grade[s[k]] > grade[s[l]])
    BY <1>13
  <2>1. l \in 1 .. n /\ l < n /\ s[l] = t[l] /\ l \in 1 .. n - 1 /\ s[l] \in A
    BY <1>7, <1>12, <1>13
  <2>2. CASE k < n
    BY <1>7, <1>9, <1>11, <1>12, <2>1, <2>2
  <2>3. CASE ~(k < n)
    <3>1. s[k] = x /\ grade[x] <= grade[s[l]]
      BY <1>6, <1>12, <2>1, <2>3
    <3>2. grade[x] \in Nat /\ grade[s[l]] \in Nat
      BY <2>1
    <3> QED BY <3>1, <3>2
  <2> QED BY <2>2, <2>3
<1>16. OK(A)
  BY <1>14, <1>15
<1> QED BY <1>4, <1>16

-----------------------------------------------------------------------------
(* The PoA that a client is given *)

LEMMA ListOfClient ==
  ASSUME TablesInv, NEW h \in Hosts
  PROVE  LET good == {p \in PoAs : Host(h).grade[p] > 1}
         IN  /\ Ranks(PoAList(h), good)
             /\ \A k \in 1 .. Cardinality(good) : \A l \in 1 .. k - 1 :
                  ~(Host(h).grade[PoAList(h)[k]] > Host(h).grade[PoAList(h)[l]])
<1> DEFINE grade == Host(h).grade
           good == {p \in PoAs : grade[p] > 1}
           sorted == {s \in SetToSeqs(good) : \A k \in 1 .. Len(s) : \A l \in 1 .. k - 1 :
                                                ~(grade[s[k]] > grade[s[l]])}
<1>1. grade \in [PoAs -> 0 .. 5] /\ good \in SUBSET PoAs
  BY TableTypes
<1>2. sorted # {}
  <2>1. \E s \in SetToSeqs(good) : \A k \in 1 .. Len(s) : \A l \in 1 .. k - 1 : ~(grade[s[k]] > grade[s[l]])
    <3> HIDE DEF grade, good
    <3> QED BY <1>1, CanBeSorted
  <2> QED BY <2>1
<1>3. PoAList(h) = CHOOSE s \in sorted : TRUE
  BY DEF PoAList, Sorted
<1>4. PoAList(h) \in sorted
  <2> HIDE DEF sorted
  <2> QED BY <1>2, <1>3
<1>5. Ranks(PoAList(h), good)
  <2>1. IsFiniteSet(good)
    BY TablesAssumption, FS_Subset, <1>1
  <2> QED BY <1>4, <2>1, SeqsRank
<1> QED BY <1>4, <1>5 DEF Ranks

LEMMA GoodIsSeen ==
  ASSUME TablesInv, NEW h \in Hosts, NEW p \in PoAs,
         Host(h).grade[p] > 1, Host(h).grade[p] >= ClientsPoAGradingLimit
  PROVE  SeesWell(h, p)
<1> DEFINE good == {q \in PoAs : Host(h).grade[q] > 1}
           list == PoAList(h)
<1>1. Ranks(list, good) /\ \A k \in 1 .. Cardinality(good) : \A l \in 1 .. k - 1 :
        ~(Host(h).grade[list[k]] > Host(h).grade[list[l]])
  BY ListOfClient
<1>2. p \in good
  OBVIOUS
<1>3. Cardinality(good) \in Nat
  BY TablesAssumption, FS_Subset, FS_CardinalityType
<1> HIDE DEF list
<1>4. PICK k \in 1 .. Cardinality(good) : list[k] = p
  BY <1>1, <1>2 DEF Ranks
<1>5. Len(list) = Cardinality(good) /\ list \in [1 .. Cardinality(good) -> good]
  BY <1>1 DEF Ranks
<1>6. Host(h).grade \in [PoAs -> 0 .. 5]
  BY TableTypes
<1>7. ASSUME NEW l \in 1 .. k PROVE Host(h).grade[list[l]] >= ClientsPoAGradingLimit
  <2>1. l \in 1 .. Cardinality(good) /\ list[l] \in PoAs
    BY <1>3, <1>5
  <2>2. Host(h).grade[list[l]] >= Host(h).grade[p]
    <3>1. CASE l = k
      BY <1>4, <1>6, <3>1
    <3>2. CASE l # k
      <4>1. l \in 1 .. k - 1
        BY <1>3, <3>2
      <4>2. ~(Host(h).grade[p] > Host(h).grade[list[l]])
        BY <1>1, <1>4, <4>1
      <4> QED BY <1>6, <2>1, <4>2
    <3> QED BY <3>1, <3>2
  <2>3. Host(h).grade[list[l]] \in Int /\ Host(h).grade[p] \in Int /\ ClientsPoAGradingLimit \in Int
    BY <1>6, <2>1, LimitsAssumption
  <2> QED BY <2>2, <2>3
<1> QED BY <1>4, <1>5, <1>7 DEF SeesWell, ClientsGrading, list

LEMMA SuitableCanGo ==
  ASSUME TablesInv, RankingInv, at # "sample", NEW h \in Hosts, NEW j \in Suitable(h)
  PROVE  /\ poaRanking[j] \in PoAs /\ poaRanking[j] # Host(h).poa
         /\ HasRoom(h, poaRanking[j]) /\ ~Congested(poaRanking[j])
         /\ Capacity(poaRanking[j]) >= PoARankingLimit
         /\ Host(h).grade[poaRanking[j]] >= ClientsPoAGradingLimit
<1>1. poaRanking[j] \in PoAs
  BY PoAsRank DEF Ranks, Suitable
<1>2. ~Congested(poaRanking[j])
  <2>1. Capacity(poaRanking[j]) \in 0 .. 5 /\ (Congested(poaRanking[j]) => Capacity(poaRanking[j]) = 0)
    BY <1>1, CapacityType
  <2>2. Capacity(poaRanking[j]) >= PoARankingLimit
    BY DEF Suitable
  <2> QED BY <2>1, <2>2, LimitsAssumption
<1>3. Host(h).grade[poaRanking[j]] >= ClientsPoAGradingLimit
  <2>1. poaRanking[j] # Host(h).poa /\ SeesWell(h, poaRanking[j])
    BY DEF Suitable
  <2> DEFINE list == ClientsGrading(h)
  <2>2. PICK k \in 1 .. Len(list) :
          /\ list[k] = poaRanking[j]
          /\ \A l \in 1 .. k : list[l] # Host(h).poa => Host(h).grade[list[l]] >= ClientsPoAGradingLimit
    BY <2>1 DEF SeesWell
  <2>3. k \in 1 .. k
    <3>1. k \in Int /\ 1 <= k
      OBVIOUS
    <3> QED BY <3>1
  <2> HIDE DEF list
  <2> QED BY <2>1, <2>2, <2>3
<1> QED BY <1>1, <1>2, <1>3 DEF Suitable

LEMMA PlaceIsSuitable ==
  ASSUME TablesInv, RankingInv, at # "sample", NEW h \in Hosts, NEW p \in PoAs, CouldGo(h, p)
  PROVE  Suitable(h) # {}
<1>1. /\ Ranks(poaRanking, PoAs)
      /\ \A k \in 1 .. Ranked : \A l \in 1 .. k - 1 : ~PoABefore(poaRanking[k], poaRanking[l])
  BY PoAsRank
<1>2. PICK j \in 1 .. Ranked : poaRanking[j] = p
  BY <1>1 DEF Ranks, Ranked
<1>3. SeesWell(h, p)
  BY GoodIsSeen DEF CouldGo
<1>4. Reached(h, j)
  <2> SUFFICES ASSUME NEW l \in 1 .. j - 1 PROVE Capacity(poaRanking[l]) >= PoARankingLimit
    BY DEF Reached
  <2>1. Ranked \in Nat
    BY TablesAssumption, FS_CardinalityType DEF Ranked
  <2>2. l \in 1 .. Ranked
    BY <2>1
  <2>3. poaRanking[l] \in PoAs
    BY <1>1, <2>2 DEF Ranks, Ranked
  <2>4. ~PoABefore(p, poaRanking[l])
    BY <1>1, <1>2
  <2>5. Capacity(poaRanking[l]) >= Capacity(p)
    BY <2>3, <2>4, BetterBefore DEF CouldGo
  <2>6. Capacity(p) >= PoARankingLimit
    BY DEF CouldGo
  <2>7. Capacity(poaRanking[l]) \in Int /\ Capacity(p) \in Int /\ PoARankingLimit \in Int
    BY <2>3, CapacityType, LimitsAssumption
  <2> QED BY <2>5, <2>6, <2>7
<1>5. j \in 1 .. Len(poaRanking)
  BY <1>1 DEF Ranks, Ranked
<1>6. j \in Suitable(h)
  BY <1>2, <1>3, <1>4, <1>5 DEF Suitable, CouldGo
<1> QED BY <1>6

-----------------------------------------------------------------------------
(* Bandwidth that clients need together *)

UnitsOf(clients) == UNION {{h} \X (1 .. Host(h).need) : h \in clients}

LEMMA OwnUnits ==
  ASSUME TablesInv, NEW h \in Hosts
  PROVE  /\ IsFiniteSet({h} \X (1 .. Host(h).need))
         /\ Cardinality({h} \X (1 .. Host(h).need)) = Host(h).need
<1>1. PICK n \in Nat : n = Host(h).need
  BY TableTypes
<1>2. IsFiniteSet({h}) /\ Cardinality({h}) = 1
  BY FS_Singleton
<1>3. IsFiniteSet(1 .. n) /\ Cardinality(1 .. n) = n
  <2>1. 1 \in Int /\ n \in Int
    OBVIOUS
  <2>2. IsFiniteSet(1 .. n) /\ Cardinality(1 .. n) = IF 1 > n THEN 0 ELSE n - 1 + 1
    BY <2>1, FS_Interval, Zenon
  <2> QED BY <2>2
<1>4. IsFiniteSet({h} \X (1 .. n)) /\ Cardinality({h} \X (1 .. n)) = n
  <2> DEFINE S == {h}
             T == 1 .. n
  <2>1. IsFiniteSet(S) /\ IsFiniteSet(T) /\ Cardinality(S) = 1 /\ Cardinality(T) = n
    BY <1>2, <1>3
  <2> HIDE DEF S, T
  <2>2. IsFiniteSet(S \X T) /\ Cardinality(S \X T) = Cardinality(S) * Cardinality(T)
    BY <2>1, FS_Product, Zenon
  <2>3. IsFiniteSet(S \X T) /\ Cardinality(S \X T) = n
    BY <2>1, <2>2
  <2> QED BY <2>3 DEF S, T
<1> QED BY <1>1, <1>4

LEMMA UnitsFinite ==
  ASSUME TablesInv, NEW clients \in SUBSET Hosts
  PROVE  IsFiniteSet(UnitsOf(clients)) /\ Demand(clients) = Cardinality(UnitsOf(clients)) /\ Demand(clients) \in Nat
<1> DEFINE all == {{h} \X (1 .. Host(h).need) : h \in clients}
           f == [h \in clients |-> {h} \X (1 .. Host(h).need)]
<1>1. f \in Surjection(clients, all)
  BY DEF Surjection
<1>2. IsFiniteSet(clients)
  BY TablesAssumption, FS_Subset
<1>3. IsFiniteSet(all)
  <2> HIDE DEF f, all
  <2> QED BY <1>1, <1>2, FS_Surjection
<1>4. \A T \in all : IsFiniteSet(T)
  BY OwnUnits
<1>5. IsFiniteSet(UNION all)
  <2> HIDE DEF all
  <2> QED BY <1>3, <1>4, FS_UNION
<1>6. Demand(clients) = Cardinality(UNION all)
  BY DEF Demand
<1>7. Cardinality(UNION all) \in Nat
  BY <1>5, FS_CardinalityType
<1> QED BY <1>5, <1>6, <1>7 DEF UnitsOf

LEMMA DemandAdd ==
  ASSUME TablesInv, NEW clients \in SUBSET Hosts, NEW h \in Hosts \ clients
  PROVE  Demand(clients \cup {h}) = Demand(clients) + Host(h).need
<1> DEFINE own == {h} \X (1 .. Host(h).need)
<1>1. UnitsOf(clients \cup {h}) = UnitsOf(clients) \cup own
  BY DEF UnitsOf
<1>2. UnitsOf(clients) \cap own = {}
  BY DEF UnitsOf
<1>3. IsFiniteSet(own) /\ Cardinality(own) = Host(h).need
  BY OwnUnits
<1>4. IsFiniteSet(UnitsOf(clients)) /\ Demand(clients) = Cardinality(UnitsOf(clients)) /\ Demand(clients) \in Nat
  BY UnitsFinite
<1>5. Demand(clients \cup {h}) = Cardinality(UnitsOf(clients \cup {h}))
  <2>1. clients \cup {h} \in SUBSET Hosts
    OBVIOUS
  <2> QED BY <2>1, UnitsFinite
<1>6. Host(h).need \in Nat
  BY TableTypes
<1> HIDE DEF own
<1>7. Cardinality(UnitsOf(clients) \cup own)
        = Cardinality(UnitsOf(clients)) + Cardinality(own) - Cardinality({})
  BY <1>2, <1>3, <1>4, FS_Union
<1>8. Cardinality({}) = 0
  BY FS_EmptySet
<1>9. Demand(clients \cup {h}) = Cardinality(UnitsOf(clients)) + Cardinality(own) - 0
  BY <1>1, <1>5, <1>7, <1>8, Zenon
<1> QED BY <1>3, <1>4, <1>6, <1>9

-----------------------------------------------------------------------------
(* What a step leaves as it is *)

Fixed == UNCHANGED <<network, rules>>
Ranked1 == UNCHANGED <<poaRanking, clientRanking>>

LEMMA TablesFixed ==
  ASSUME Fixed
  PROVE  /\ \A h : Host(h)' = Host(h)
         /\ \A p : /\ Ap(p)' = Ap(p) /\ Congested(p)' = Congested(p)
                   /\ Capacity(p)' = Capacity(p)
         /\ \A clients : Demand(clients)' = Demand(clients)
         /\ \A g, h : IsPreferred(g, h)' = IsPreferred(g, h)
<1>1. network' = network /\ rules' = rules
  BY DEF Fixed
<1>2. \A h : Host(h)' = Host(h)
  BY <1>1 DEF Host
<1>3. \A p : Ap(p)' = Ap(p)
  BY <1>1 DEF Ap
<1>4. \A p : Congested(p)' = Congested(p)
  BY <1>3 DEF Congested
<1>5. \A p : Capacity(p)' = Capacity(p)
  BY <1>1 DEF Capacity, Congested, Ap, AvailableBandwidth, CapacityRules
<1>6. \A clients : Demand(clients)' = Demand(clients)
  BY <1>1 DEF Demand, Host
<1>7. \A g, h : IsPreferred(g, h)' = IsPreferred(g, h)
  BY <1>1 DEF IsPreferred, Host
<1> QED BY <1>2, <1>3, <1>4, <1>5, <1>6, <1>7

LEMMA SortedFixed ==
  ASSUME Fixed
  PROVE  Sorted(PoAs, PoABefore)' = Sorted(PoAs, PoABefore) /\ Sorted(Hosts, ComesBefore)' = Sorted(Hosts, ComesBefore)
<1>1. network' = network /\ rules' = rules
  BY DEF Fixed
<1>2. Sorted(PoAs, PoABefore)' = Sorted(PoAs, PoABefore)
  BY <1>1 DEF Sorted, PoABefore, Congested, Capacity, Users, Ap, Host, AvailableBandwidth, CapacityRules, SetToSeqs
<1>3. Sorted(Hosts, ComesBefore)' = Sorted(Hosts, ComesBefore)
  BY <1>1 DEF Sorted, ComesBefore, ByPotential, GoldFirst, BronzeFirst, Host, SetToSeqs
<1> QED BY <1>2, <1>3

\* Steps that move nobody.
LEMMA NobodyMoves ==
  ASSUME RoundInv, Fixed, UNCHANGED <<capacity, recommended>>
  PROVE  /\ RoomInv' /\ MovesHelp' /\ PreferredFirst'
         /\ \A h : NoPlace(h)' = NoPlace(h)
         /\ \A p : Left(p)' = Left(p) /\ Freed(p, recommended)' = Freed(p, recommended)
                   /\ Moved(p, recommended)' = Moved(p, recommended)
<1>1. /\ \A h : Host(h)' = Host(h)
      /\ \A p : Ap(p)' = Ap(p) /\ Congested(p)' = Congested(p) /\ Capacity(p)' = Capacity(p)
      /\ \A clients : Demand(clients)' = Demand(clients)
      /\ \A g, h : IsPreferred(g, h)' = IsPreferred(g, h)
  BY TablesFixed
<1>2. capacity' = capacity /\ recommended' = recommended
  OBVIOUS
<1>3. RoomInv'
  <2>1. \A p : Coming(p)' = Coming(p)
    BY <1>2 DEF Coming
  <2> QED BY <1>1, <1>2, <2>1 DEF RoundInv, RoomInv
<1>4. MovesHelp'
  BY <1>1, <1>2 DEF RoundInv, MovesHelp
<1>5. PreferredFirst'
  BY <1>1, <1>2 DEF RoundInv, PreferredFirst
<1>6. \A h : NoPlace(h)' = NoPlace(h)
  BY <1>1, <1>2 DEF NoPlace, CouldGo, HasRoom
<1>7. \A p : Left(p)' = Left(p) /\ Moved(p, recommended)' = Moved(p, recommended)
  BY <1>1, <1>2 DEF Left, Moved
<1>8. \A p : Freed(p, recommended)' = Freed(p, recommended)
  BY <1>1, <1>7 DEF Freed
<1> QED BY <1>3, <1>4, <1>5, <1>6, <1>7, <1>8

\* The place of the PoA worked on is its own.
LEMMA CurrentPlace ==
  ASSUME RoundInv, at # "sample", m > 0
  PROVE  m \in 1 .. Ranked /\ poaRanking[m] \in PoAs /\ ~Through(poaRanking[m])
<1>1. Ranks(poaRanking, PoAs) /\ m \in 1 .. Ranked
  <2>1. Ranks(poaRanking, PoAs) /\ m \in 0 .. Ranked
    BY PoAsRank DEF RoundInv, RankingInv
  <2> HIDE DEF Ranked
  <2> QED BY <2>1
<1>2. ~Through(poaRanking[m])
  <2> SUFFICES ASSUME NEW k \in m + 1 .. Ranked, poaRanking[k] = poaRanking[m] PROVE FALSE
    BY DEF Through
  <2>1. Ranked \in Nat
    BY TablesAssumption, FS_CardinalityType DEF Ranked
  <2>2. k \in 1 .. Ranked /\ k # m
    BY <1>1, <2>1
  <2> QED BY <1>1, <2>2 DEF Ranks, Ranked
<1> QED BY <1>1, <1>2 DEF Ranks, Ranked

\* The next PoA is gone on with.
LEMMA PlaceDown ==
  ASSUME RoundInv, at # "sample", m > 0, m' = m - 1, poaRanking' = poaRanking
  PROVE  \A p : Through(p)' <=> Through(p) \/ p = poaRanking[m]
<1>1. m \in 1 .. Ranked
  BY CurrentPlace
<1>2. Ranked \in Nat /\ Ranked' = Ranked
  BY TablesAssumption, FS_CardinalityType DEF Ranked
<1>3. \A k : k \in m' + 1 .. Ranked <=> k \in m + 1 .. Ranked \/ k = m
  BY <1>1, <1>2
<1>4. \A p : Through(p)' <=> \E k \in m' + 1 .. Ranked : poaRanking[k] = p
  BY <1>2 DEF Through
<1> QED BY <1>3, <1>4 DEF Through

LEMMA PlaceKept ==
  ASSUME UNCHANGED <<m, poaRanking>>
  PROVE  \A p : Through(p)' <=> Through(p)
BY DEF Through, Ranked

-----------------------------------------------------------------------------
(* The steps of a round *)

LEMMA InitOK == BalancerInit => RoundInv
<1> SUFFICES ASSUME BalancerInit PROVE RoundInv
  OBVIOUS
<1>1. TablesInv
  <2>1. network \in Networks /\ rules \in Rules /\ at \in Stages /\ m \in Nat /\ i \in Nat
    BY DEF BalancerInit, Stages
  <2>2. network \in TablesOf(1 .. 5, Nat, Nat, 0 .. 5)
    BY <2>1, NetworksAssumption
  <2>3. \A p \in PoAs : network.ap[p].available \in Int
    BY <2>2 DEF TablesOf
  <2>4. capacity \in [PoAs -> Int] /\ chosenAction \in [PoAs -> 0 .. 10]
    BY <2>3 DEF BalancerInit
  <2>5. recommended \in [Hosts -> PoAs \cup {NoPoA}]
    BY DEF BalancerInit
  <2> QED BY <2>1, <2>4, <2>5 DEF TablesInv
<1>2. at = "sample" /\ recommended = [h \in Hosts |-> NoPoA] /\ capacity = [p \in PoAs |-> Ap(p).available]
  BY DEF BalancerInit, Ap
<1>3. RankingInv /\ ReachedInv /\ ActionInv /\ EndInv
  BY <1>2 DEF BalancerInit, RankingInv, ReachedInv, ActionInv, EndInv
<1>4. MovesHelp /\ PreferredFirst /\ LeftInv
  <2>1. \A h \in Hosts : recommended[h] = NoPoA
    BY <1>2
  <2> QED BY <1>2, <2>1 DEF MovesHelp, PreferredFirst, LeftInv
<1>5. RoomInv
  <2> SUFFICES ASSUME NEW p \in PoAs
               PROVE  Coming(p) = {} /\ capacity[p] = Ap(p).available - Demand({})
    BY DEF RoomInv
  <2>1. Coming(p) = {}
    BY <1>2, TablesAssumption DEF Coming
  <2>2. Demand({}) = 0
    <3>1. UNION {{h} \X (1 .. Host(h).need) : h \in {}} = {}
      OBVIOUS
    <3> QED BY <3>1, FS_EmptySet DEF Demand
  <2>3. Ap(p).available \in Nat
    BY <1>1, TableTypes
  <2> QED BY <1>2, <2>1, <2>2, <2>3
<1> QED BY <1>1, <1>3, <1>4, <1>5 DEF RoundInv

LEMMA SampleOK ==
  ASSUME RoundInv, Sample
  PROVE  RoundInv'
<1>1. Fixed /\ UNCHANGED <<capacity, recommended, i, chosenAction>> /\ at = "sample" /\ at' = "poa"
  BY DEF Sample, Fixed
<1>2. m' = Ranked /\ Ranked \in Nat
  BY TablesAssumption, FS_CardinalityType DEF Sample, Ranked
<1>3. TablesInv'
  BY <1>1, <1>2 DEF RoundInv, TablesInv, Fixed, Stages
<1>4. RankingInv'
  <2>1. poaRanking' \in Sorted(PoAs, PoABefore)' /\ clientRanking' \in Sorted(Hosts, ComesBefore)'
    BY <1>1, SortedFixed DEF Sample
  <2>2. m' \in 0 .. Ranked' 
    BY <1>2 DEF Ranked
  <2> QED BY <1>1, <2>1, <2>2 DEF RankingInv
<1>5. \A p : ~Through(p)'
  <2>1. Ranked' = Ranked
    BY DEF Ranked
  <2>2. \A k : k \notin m' + 1 .. Ranked'
    BY <1>2, <2>1
  <2> QED BY <2>2 DEF Through
<1>6. ReachedInv' /\ ActionInv' /\ EndInv'
  <2>1. \A h \in Hosts : recommended'[h] = NoPoA
    BY <1>1 DEF RoundInv, RankingInv
  <2> QED BY <1>1, <1>5, <2>1 DEF ReachedInv, ActionInv, EndInv
<1>7. LeftInv'
  BY <1>1, <1>5 DEF LeftInv
<1> QED BY <1>1, <1>3, <1>4, <1>6, <1>7, NobodyMoves DEF RoundInv

\* A congested PoA that is not the one to be relieved is passed over.
LEMMA SkipOK ==
  ASSUME RoundInv, CongestedPoA, rules.single \notin {NoPoA, poaRanking[m]}
  PROVE  RoundInv'
<1>1. /\ Fixed /\ Ranked1 /\ at = "poa" /\ at' = "poa" /\ m > 0 /\ m' = m - 1
      /\ UNCHANGED <<capacity, recommended, i, chosenAction>>
  BY DEF CongestedPoA, Fixed, Ranked1
<1>2. m \in 1 .. Ranked /\ \A p : Through(p)' <=> Through(p) \/ p = poaRanking[m]
  BY <1>1, CurrentPlace, PlaceDown DEF Ranked1
<1>3. TablesInv'
  BY <1>1, <1>2 DEF RoundInv, TablesInv, Fixed
<1>4. RankingInv'
  <2>1. poaRanking' \in Sorted(PoAs, PoABefore)' /\ clientRanking' \in Sorted(Hosts, ComesBefore)'
    BY <1>1, SortedFixed DEF RoundInv, RankingInv, Ranked1
  <2>2. m' \in 0 .. Ranked'
    <3>1. Ranked \in Nat /\ Ranked' = Ranked
      BY TablesAssumption, FS_CardinalityType DEF Ranked
    <3> HIDE DEF Ranked
    <3> QED BY <1>1, <1>2, <3>1
  <2> QED BY <1>1, <2>1, <2>2 DEF RankingInv
<1>5. ReachedInv'
  BY <1>1, <1>2, TablesFixed DEF RoundInv, ReachedInv, Current
<1>6. LeftInv'
  BY <1>1 DEF LeftInv, Fixed
<1>7. ActionInv'
  <2> SUFFICES ASSUME rules'.useLearning, NEW p \in PoAs, Through(p)', rules'.single \in {NoPoA, p}
               PROVE  Fits(p)'
    BY DEF ActionInv
  <2>1. rules' = rules /\ Through(p)
    BY <1>1, <1>2 DEF Fixed
  <2>2. Fits(p)
    BY <1>1, <2>1 DEF RoundInv, ActionInv
  <2> QED BY <1>1, <2>2, NobodyMoves, TablesFixed DEF Fits
<1>8. EndInv'
  BY <1>1 DEF EndInv
<1> QED BY <1>1, <1>3, <1>4, <1>5, <1>6, <1>7, <1>8, NobodyMoves DEF RoundInv

\* The clients of a congested PoA are gone through.
LEMMA StartOK ==
  ASSUME RoundInv, CongestedPoA, rules.single \in {NoPoA, poaRanking[m]}
  PROVE  RoundInv'
<1>1. /\ Fixed /\ Ranked1 /\ at = "poa" /\ at' = "client" /\ m > 0 /\ m' = m /\ i' = 1
      /\ UNCHANGED <<capacity, recommended>> /\ Congested(poaRanking[m])
  BY DEF CongestedPoA, Fixed, Ranked1
<1>2. m \in 1 .. Ranked /\ poaRanking[m] \in PoAs /\ ~Through(poaRanking[m])
      /\ \A p : Through(p)' <=> Through(p)
  BY <1>1, CurrentPlace, PlaceKept DEF Ranked1
<1>3. PICK a \in Actions : chosenAction' = [chosenAction EXCEPT ![poaRanking[m]] = a]
  BY DEF CongestedPoA
<1>4. TablesInv'
  <2>1. a \in 0 .. 10
    BY DEF Actions
  <2>2. chosenAction' \in [PoAs -> 0 .. 10]
    BY <1>2, <1>3, <2>1 DEF RoundInv, TablesInv
  <2> QED BY <1>1, <2>2 DEF RoundInv, TablesInv, Fixed, Stages
<1>5. RankingInv'
  <2>1. poaRanking' \in Sorted(PoAs, PoABefore)' /\ clientRanking' \in Sorted(Hosts, ComesBefore)'
    BY <1>1, SortedFixed DEF RoundInv, RankingInv, Ranked1
  <2>2. m' \in 0 .. Ranked'
    BY <1>1, <1>2 DEF Ranked
  <2>3. Congested(poaRanking[m])'
    BY <1>1, TablesFixed DEF Ranked1
  <2>4. i' \in 1 .. Cardinality(Hosts) + 1
    BY <1>1, TablesAssumption, FS_CardinalityType
  <2> QED BY <1>1, <2>1, <2>2, <2>3, <2>4 DEF RankingInv, Fixed, Ranked1
<1>6. ReachedInv'
  <2>1. ASSUME NEW h \in Hosts, recommended'[h] # NoPoA PROVE Through(Host(h).poa)'
    BY <1>1, <1>2, <2>1, TablesFixed DEF RoundInv, ReachedInv, Current
  <2>2. ASSUME NEW k \in 1 .. Cardinality(Hosts), Current(Host(clientRanking[k]).poa)'
        PROVE  recommended'[clientRanking'[k]] = NoPoA
    <3>1. clientRanking' = clientRanking /\ poaRanking' = poaRanking
      BY <1>1 DEF Ranked1
    <3>2. clientRanking[k] \in Hosts
      BY <1>1, PoAsRank DEF RoundInv, Ranks
    <3>3. Host(clientRanking[k]).poa = poaRanking[m]
      BY <1>1, <2>2, <3>1, TablesFixed DEF Current
    <3> QED BY <1>1, <1>2, <2>1, <3>1, <3>2, <3>3, TablesFixed
  <2> QED BY <1>1, <2>1, <2>2 DEF ReachedInv
<1>7. LeftInv'
  <2>1. \A h : ~Asked(h)'
    BY <1>1 DEF Asked
  <2>2. ASSUME ~rules'.useLearning, rules'.single = NoPoA, NEW p \in PoAs, Through(p)'
        PROVE  Enough(p, recommended)' \/ \A h \in Left(p)' : NoPlace(h)'
    <3>1. rules' = rules
      BY <1>1 DEF Fixed
    <3>2. Enough(p, recommended) \/ \A h \in Left(p) : NoPlace(h)
      BY <1>1, <1>2, <2>2, <3>1 DEF RoundInv, LeftInv
    <3> QED BY <1>1, <2>2, <3>1, <3>2, NobodyMoves DEF Enough
  <2> QED BY <1>1, <2>1, <2>2 DEF LeftInv
<1>8. ActionInv'
  <2> SUFFICES ASSUME rules'.useLearning, NEW p \in PoAs, Through(p)', rules'.single \in {NoPoA, p}
               PROVE  Fits(p)'
    BY DEF ActionInv
  <2>1. rules' = rules /\ Through(p) /\ p # poaRanking[m]
    BY <1>1, <1>2 DEF Fixed
  <2>2. Fits(p)
    BY <1>1, <2>1 DEF RoundInv, ActionInv
  <2>3. chosenAction'[p] = chosenAction[p]
    BY <1>2, <1>3, <2>1 DEF RoundInv, TablesInv
  <2> QED BY <1>1, <2>2, <2>3, NobodyMoves, TablesFixed DEF Fits
<1>9. EndInv'
  BY <1>1 DEF EndInv
<1> QED BY <1>1, <1>4, <1>5, <1>6, <1>7, <1>8, <1>9, NobodyMoves DEF RoundInv

LEMMA EndRoundOK ==
  ASSUME RoundInv, EndRound
  PROVE  RoundInv'
<1>1. /\ Fixed /\ Ranked1 /\ at = "poa" /\ at' = "done" /\ m' = m
      /\ UNCHANGED <<capacity, recommended, i, chosenAction>> /\ (m > 0 => ~Congested(poaRanking[m]))
  BY DEF EndRound, Fixed, Ranked1
<1>2. \A p : Through(p)' <=> Through(p)
  BY <1>1, PlaceKept DEF Ranked1
<1>3. TablesInv'
  BY <1>1 DEF RoundInv, TablesInv, Fixed, Stages
<1>4. RankingInv'
  <2>1. poaRanking' \in Sorted(PoAs, PoABefore)' /\ clientRanking' \in Sorted(Hosts, ComesBefore)'
    BY <1>1, SortedFixed DEF RoundInv, RankingInv, Ranked1
  <2>2. m' \in 0 .. Ranked'
    BY <1>1 DEF Ranked, RoundInv, RankingInv
  <2> QED BY <1>1, <2>1, <2>2 DEF RankingInv
<1>5. ReachedInv'
  BY <1>1, <1>2, TablesFixed DEF RoundInv, ReachedInv, Current
<1>6. LeftInv'
  <2> SUFFICES ASSUME ~rules'.useLearning, rules'.single = NoPoA, NEW p \in PoAs, Through(p)'
               PROVE  Enough(p, recommended)' \/ \A h \in Left(p)' : NoPlace(h)'
    BY <1>1 DEF LeftInv
  <2>1. rules' = rules
    BY <1>1 DEF Fixed
  <2>2. Enough(p, recommended) \/ \A h \in Left(p) : NoPlace(h)
    BY <1>1, <1>2, <2>1 DEF RoundInv, LeftInv
  <2> QED BY <1>1, <2>1, <2>2, NobodyMoves DEF Enough
<1>7. ActionInv'
  <2> SUFFICES ASSUME rules'.useLearning, NEW p \in PoAs, Through(p)', rules'.single \in {NoPoA, p}
               PROVE  Fits(p)'
    BY DEF ActionInv
  <2>1. rules' = rules /\ Through(p)
    BY <1>1, <1>2 DEF Fixed
  <2>2. Fits(p)
    BY <1>1, <2>1 DEF RoundInv, ActionInv
  <2> QED BY <1>1, <2>2, NobodyMoves, TablesFixed DEF Fits
<1>8. EndInv'
  <2> SUFFICES ASSUME NEW p \in PoAs, Congested(p) PROVE Through(p)
    BY <1>1, <1>2, TablesFixed DEF EndInv
  <2>1. /\ Ranks(poaRanking, PoAs) /\ m \in 0 .. Ranked
        /\ \A k \in 1 .. Ranked : \A l \in 1 .. k - 1 : ~PoABefore(poaRanking[k], poaRanking[l])
    BY <1>1, PoAsRank DEF RoundInv, RankingInv
  <2>2. Ranked \in Nat
    BY TablesAssumption, FS_CardinalityType DEF Ranked
  <2>3. PICK k \in 1 .. Ranked : poaRanking[k] = p
    BY <2>1 DEF Ranks, Ranked
  <2>4. ~(k < m)
    <3> SUFFICES ASSUME k < m PROVE FALSE
      OBVIOUS
    <3>1. m \in 1 .. Ranked /\ k \in 1 .. m - 1
      <4> HIDE DEF Ranked
      <4> QED BY <2>1, <2>2, <2>3
    <3>2. ~Congested(poaRanking[m]) /\ poaRanking[m] \in PoAs
      BY <1>1, <2>1, <3>1 DEF Ranks, Ranked
    <3>3. ~PoABefore(poaRanking[m], p)
      BY <2>1, <2>3, <3>1
    <3> QED BY <3>2, <3>3, BetterBefore DEF RoundInv
  <2>5. k # m
    BY <1>1, <2>2, <2>3
  <2>6. k \in m + 1 .. Ranked
    <3> HIDE DEF Ranked
    <3> QED BY <2>1, <2>2, <2>3, <2>4, <2>5
  <2> QED BY <2>3, <2>6 DEF Through
<1> QED BY <1>1, <1>3, <1>4, <1>5, <1>6, <1>7, <1>8, NobodyMoves DEF RoundInv

LEMMA ParseFailsOK ==
  ASSUME RoundInv, ParseFails
  PROVE  RoundInv'
<1>1. /\ Fixed /\ Ranked1 /\ at = "client" /\ at' = "error" /\ m' = m
      /\ UNCHANGED <<capacity, recommended, i, chosenAction>>
  BY DEF ParseFails, Fixed, Ranked1
<1>2. \A p : Through(p)' <=> Through(p)
  BY <1>1, PlaceKept DEF Ranked1
<1>3. TablesInv'
  BY <1>1 DEF RoundInv, TablesInv, Fixed, Stages
<1>4. RankingInv'
  <2>1. poaRanking' \in Sorted(PoAs, PoABefore)' /\ clientRanking' \in Sorted(Hosts, ComesBefore)'
    BY <1>1, SortedFixed DEF RoundInv, RankingInv, Ranked1
  <2>2. m' \in 0 .. Ranked'
    BY <1>1 DEF Ranked, RoundInv, RankingInv
  <2> QED BY <1>1, <2>1, <2>2, TablesFixed DEF RankingInv, RoundInv, Fixed, Ranked1
<1>5. ReachedInv'
  BY <1>1, <1>2, TablesFixed DEF RoundInv, ReachedInv, Current, Ranked1
<1>6. LeftInv'
  <2> SUFFICES ASSUME ~rules'.useLearning, rules'.single = NoPoA, NEW p \in PoAs, Through(p)'
               PROVE  Enough(p, recommended)' \/ \A h \in Left(p)' : NoPlace(h)'
    BY <1>1 DEF LeftInv
  <2>1. rules' = rules
    BY <1>1 DEF Fixed
  <2>2. Enough(p, recommended) \/ \A h \in Left(p) : NoPlace(h)
    BY <1>1, <1>2, <2>1 DEF RoundInv, LeftInv
  <2> QED BY <1>1, <2>1, <2>2, NobodyMoves DEF Enough
<1>7. ActionInv'
  <2> SUFFICES ASSUME rules'.useLearning, NEW p \in PoAs, Through(p)', rules'.single \in {NoPoA, p}
               PROVE  Fits(p)'
    BY DEF ActionInv
  <2>1. rules' = rules /\ Through(p)
    BY <1>1, <1>2 DEF Fixed
  <2>2. Fits(p)
    BY <1>1, <2>1 DEF RoundInv, ActionInv
  <2> QED BY <1>1, <2>2, NobodyMoves, TablesFixed DEF Fits
<1>8. EndInv'
  BY <1>1 DEF EndInv
<1> QED BY <1>1, <1>3, <1>4, <1>5, <1>6, <1>7, <1>8, NobodyMoves DEF RoundInv

-----------------------------------------------------------------------------
(* The action that was realised *)

LEMMA RoundedUp ==
  ASSUME NEW x \in Nat, NEW y \in Nat \ {0}
  PROVE  LET q == (x + y - 1) \div y IN q \in Nat /\ x <= q * y /\ (q - 1) * y < x
<1> DEFINE z == x + y - 1
           q == z \div y
<1>1. z \in Nat /\ y \in Int /\ y > 0
  OBVIOUS
<1>2. q \in Int /\ q * y <= z /\ z < (q + 1) * y
  <2> HIDE DEF z
  <2>1. q \in Int
    BY <1>1
  <2>2. z % y \in 0 .. y - 1 /\ z = y * q + (z % y)
    BY <1>1
  <2> QED BY <1>1, <2>1, <2>2
<1>3. q \in Nat
  <2> HIDE DEF q
  <2>1. q < 0 => (q + 1) * y <= 0
    BY <1>1, <1>2
  <2> QED BY <1>1, <1>2, <2>1
<1>4. (q + 1) * y = q * y + y /\ (q - 1) * y = q * y - y /\ q * y \in Int
  <2> HIDE DEF q
  <2> QED BY <1>1, <1>3
<1>5. x <= q * y /\ (q - 1) * y < x
  <2> HIDE DEF q
  <2> QED BY <1>2, <1>4 DEF z
<1> QED BY <1>3, <1>5

LEMMA FreedType ==
  ASSUME TablesInv, NEW p \in PoAs
  PROVE  Freed(p, recommended) \in Nat
<1>1. Moved(p, recommended) \in SUBSET Hosts
  BY DEF Moved
<1> QED BY <1>1, UnitsFinite DEF Freed

LEMMA RealisedFits ==
  ASSUME TablesInv, NEW p \in PoAs
  PROVE  LET a == RealisedAction(p)
         IN  /\ a \in 0 .. 10
             /\ a = 10 \/ 20 * Freed(p, recommended) <= a * Ap(p).max
             /\ a = 0 \/ 20 * Freed(p, recommended) > (a - 1) * Ap(p).max
<1>1. PICK x \in Nat, y \in Nat \ {0}, b \in 0 .. 10 :
        x = 20 * Freed(p, recommended) /\ y = Ap(p).max /\ b = chosenAction[p]
  <2>1. 20 * Freed(p, recommended) \in Nat
    BY FreedType
  <2> QED BY <2>1, TableTypes DEF TablesInv
<1> DEFINE q == (x + y - 1) \div y
<1>2. RealisedAction(p) = IF x = b * y THEN b ELSE Min({10, q})
  BY <1>1 DEF RealisedAction
<1>3. q \in Nat /\ x <= q * y /\ (q - 1) * y < x
  BY RoundedUp
<1> HIDE DEF q
<1>4. CASE x = b * y
  <2>1. (b - 1) * y = b * y - y
    OBVIOUS
  <2> QED BY <1>1, <1>2, <1>4, <2>1
<1>5. CASE x # b * y
  <2>1. PICK a \in {10, q} : a = Min({10, q}) /\ a <= 10 /\ a <= q
    <3>1. {10, q} \subseteq Nat /\ {10, q} # {}
      BY <1>3
    <3> QED BY <3>1, LeastOf
  <2>2. RealisedAction(p) = a /\ a \in 0 .. 10
    BY <1>2, <1>3, <1>5, <2>1
  <2>3. a = 10 \/ x <= a * y
    BY <1>3, <2>1
  <2>4. a = 0 \/ x > (a - 1) * y
    <3>1. (a - 1) * y <= (q - 1) * y
      <4>1. CASE a = q
        BY <1>3, <4>1
      <4>2. CASE a # q
        <5>1. a = 10 /\ 9 <= q - 1
          BY <1>3, <2>1, <4>2
        <5>2. \A d \in Nat : 9 * y <= (9 + d) * y
          <6> SUFFICES ASSUME NEW d \in Nat PROVE 9 * y <= (9 + d) * y
            OBVIOUS
          <6>1. (9 + d) * y = 9 * y + d * y /\ d * y \in Nat
            OBVIOUS
          <6> QED BY <6>1
        <5>3. PICK d \in Nat : q - 1 = 9 + d
          <6>1. q - 10 \in Nat /\ q - 1 = 9 + (q - 10)
            BY <1>3, <5>1
          <6> QED BY <6>1
        <5> QED BY <5>1, <5>2, <5>3
      <4> QED BY <4>1, <4>2
    <3>2. (a - 1) * y \in Int /\ (q - 1) * y \in Int
      BY <1>3, <2>2
    <3> QED BY <1>3, <3>1, <3>2
  <2> QED BY <1>1, <2>2, <2>3, <2>4
<1> QED BY <1>4, <1>5

LEMMA EndPoAOK ==
  ASSUME RoundInv, EndPoA
  PROVE  RoundInv'
<1>1. /\ Fixed /\ Ranked1 /\ at = "client" /\ at' = "poa" /\ m' = m - 1
      /\ UNCHANGED <<capacity, recommended, i>> /\ i > Len(clientRanking)
  BY DEF EndPoA, Fixed, Ranked1
<1>2. m \in 1 .. Ranked /\ poaRanking[m] \in PoAs /\ ~Through(poaRanking[m])
      /\ \A p : Through(p)' <=> Through(p) \/ p = poaRanking[m]
  BY <1>1, CurrentPlace, PlaceDown DEF Ranked1, RoundInv, RankingInv
<1> DEFINE c == poaRanking[m]
<1>3. chosenAction' = IF rules.useLearning THEN [chosenAction EXCEPT ![c] = RealisedAction(c)] ELSE chosenAction
  BY DEF EndPoA
<1>4. TablesInv'
  <2>1. RealisedAction(c) \in 0 .. 10
    BY <1>2, RealisedFits DEF RoundInv
  <2>2. chosenAction' \in [PoAs -> 0 .. 10]
    BY <1>2, <1>3, <2>1 DEF RoundInv, TablesInv
  <2> QED BY <1>1, <1>2, <2>2 DEF RoundInv, TablesInv, Fixed, Stages
<1>5. RankingInv'
  <2>1. poaRanking' \in Sorted(PoAs, PoABefore)' /\ clientRanking' \in Sorted(Hosts, ComesBefore)'
    BY <1>1, SortedFixed DEF RoundInv, RankingInv, Ranked1
  <2>2. m' \in 0 .. Ranked'
    <3>1. Ranked \in Nat /\ Ranked' = Ranked
      BY TablesAssumption, FS_CardinalityType DEF Ranked
    <3> HIDE DEF Ranked
    <3> QED BY <1>1, <1>2, <3>1
  <2> QED BY <1>1, <2>1, <2>2 DEF RankingInv
<1>6. ReachedInv'
  BY <1>1, <1>2, TablesFixed DEF RoundInv, ReachedInv, Current
<1>7. LeftInv'
  <2> SUFFICES ASSUME ~rules'.useLearning, rules'.single = NoPoA, NEW p \in PoAs, Through(p)'
               PROVE  Enough(p, recommended)' \/ \A h \in Left(p)' : NoPlace(h)'
    BY <1>1 DEF LeftInv
  <2>1. rules' = rules
    BY <1>1 DEF Fixed
  <2>2. Enough(p, recommended) \/ \A h \in Left(p) : NoPlace(h)
    <3>1. CASE p = c
      <4>1. ASSUME NEW h \in Hosts PROVE Asked(h)
        <5>1. Ranks(clientRanking, Hosts)
          BY <1>1, PoAsRank DEF RoundInv
        <5>2. PICK k \in 1 .. Cardinality(Hosts) : clientRanking[k] = h
          BY <5>1 DEF Ranks
        <5>3. i > Cardinality(Hosts) /\ i \in Nat /\ Cardinality(Hosts) \in Nat
          BY <1>1, <5>1, TablesAssumption, FS_CardinalityType DEF Ranks, RoundInv, TablesInv
        <5>4. k \in 1 .. i - 1
          BY <5>3
        <5> QED BY <5>2, <5>4 DEF Asked
      <4> QED BY <1>1, <3>1, <4>1 DEF RoundInv, LeftInv, Left
    <3>2. CASE p # c
      BY <1>1, <1>2, <2>1, <3>2 DEF RoundInv, LeftInv
    <3> QED BY <3>1, <3>2
  <2> QED BY <1>1, <2>1, <2>2, NobodyMoves DEF Enough
<1>8. ActionInv'
  <2> SUFFICES ASSUME rules'.useLearning, NEW p \in PoAs, Through(p)', rules'.single \in {NoPoA, p}
               PROVE  Fits(p)'
    BY DEF ActionInv
  <2>1. rules' = rules
    BY <1>1 DEF Fixed
  <2>2. Freed(p, recommended)' = Freed(p, recommended) /\ Ap(p)' = Ap(p)
    BY <1>1, NobodyMoves, TablesFixed
  <2>3. CASE p = c
    <3>1. chosenAction'[p] = RealisedAction(p)
      BY <1>2, <1>3, <2>1, <2>3 DEF RoundInv, TablesInv
    <3> QED BY <2>2, <3>1, RealisedFits DEF Fits, RoundInv
  <2>4. CASE p # c
    <3>1. Fits(p)
      BY <1>1, <1>2, <2>1, <2>4 DEF RoundInv, ActionInv
    <3>2. chosenAction'[p] = chosenAction[p]
      BY <1>2, <1>3, <2>4 DEF RoundInv, TablesInv
    <3> QED BY <2>2, <3>1, <3>2 DEF Fits
  <2> QED BY <2>3, <2>4
<1>9. EndInv'
  BY <1>1 DEF EndInv
<1> QED BY <1>1, <1>4, <1>5, <1>6, <1>7, <1>8, <1>9, NobodyMoves DEF RoundInv

-----------------------------------------------------------------------------
(* A client is asked *)

LEMMA NextPlace ==
  ASSUME RoundInv, at = "client", i <= Len(clientRanking), NEW moves, NextClient(moves)
  PROVE  /\ Cardinality(Hosts) \in Nat /\ Len(clientRanking) = Cardinality(Hosts)
         /\ i \in 1 .. Cardinality(Hosts) /\ clientRanking[i] \in Hosts
         /\ recommended' = moves
         /\ \/ i' = Cardinality(Hosts) + 1 /\ Enough(poaRanking[m], moves)
            \/ i' = i + 1
         /\ i' \in i + 1 .. Cardinality(Hosts) + 1
<1>1. Ranks(clientRanking, Hosts) /\ i \in 1 .. Cardinality(Hosts) + 1
  BY PoAsRank DEF RoundInv, RankingInv
<1>2. Cardinality(Hosts) \in Nat /\ Len(clientRanking) = Cardinality(Hosts)
  BY <1>1, TablesAssumption, FS_CardinalityType DEF Ranks
<1>3. i \in 1 .. Cardinality(Hosts)
  BY <1>1, <1>2
<1>4. clientRanking[i] \in Hosts
  BY <1>1, <1>3 DEF Ranks
<1>5. recommended' = moves /\ (i' = IF Enough(poaRanking[m], moves) THEN Cardinality(Hosts) + 1 ELSE i + 1)
  BY <1>2 DEF NextClient
<1> QED BY <1>2, <1>3, <1>4, <1>5

LEMMA PassClientOK ==
  ASSUME RoundInv, PassClient
  PROVE  RoundInv'
<1> DEFINE n == Cardinality(Hosts)
           c == poaRanking[m]
           h == clientRanking[i]
<1>1. /\ Fixed /\ Ranked1 /\ at = "client" /\ at' = "client" /\ m' = m
      /\ UNCHANGED <<capacity, recommended, chosenAction>> /\ i <= Len(clientRanking)
      /\ NextClient(recommended) /\ (Host(h).poa = c => Suitable(h) = {})
  BY DEF PassClient, Fixed, Ranked1, NextClient
<1>2. /\ n \in Nat /\ i \in 1 .. n /\ h \in Hosts
      /\ (i' = n + 1 /\ Enough(c, recommended)) \/ i' = i + 1
      /\ i' \in i + 1 .. n + 1
  BY <1>1, NextPlace
<1>3. \A p : Through(p)' <=> Through(p)
  BY <1>1, PlaceKept DEF Ranked1
<1>4. TablesInv'
  <2>1. i' \in Nat
    BY <1>2
  <2> QED BY <1>1, <2>1 DEF RoundInv, TablesInv, Fixed, Stages
<1>5. RankingInv'
  <2>1. poaRanking' \in Sorted(PoAs, PoABefore)' /\ clientRanking' \in Sorted(Hosts, ComesBefore)'
    BY <1>1, SortedFixed DEF RoundInv, RankingInv, Ranked1
  <2>2. m' \in 0 .. Ranked'
    BY <1>1 DEF Ranked, RoundInv, RankingInv
  <2>3. i' \in 1 .. n + 1
    BY <1>2
  <2> QED BY <1>1, <2>1, <2>2, <2>3, TablesFixed DEF RankingInv, RoundInv, Fixed, Ranked1
<1>6. ReachedInv'
  <2>1. \A g \in Hosts : recommended'[g] # NoPoA => Through(Host(g).poa)' \/ Current(Host(g).poa)'
    BY <1>1, <1>3, TablesFixed DEF RoundInv, ReachedInv, Current, Ranked1
  <2>2. ASSUME NEW k \in i' .. n, Current(Host(clientRanking[k]).poa)'
        PROVE  recommended'[clientRanking'[k]] = NoPoA
    <3>1. k \in i .. n
      BY <1>2
    <3>2. Current(Host(clientRanking[k]).poa)
      BY <1>1, <2>2, TablesFixed DEF Current, Ranked1
    <3> QED BY <1>1, <3>1, <3>2 DEF RoundInv, ReachedInv, Ranked1
  <2>3. clientRanking' = clientRanking
    BY <1>1 DEF Ranked1
  <2> QED BY <1>1, <2>1, <2>2, <2>3, TablesFixed DEF ReachedInv
<1>7. LeftInv'
  <2>1. \/ i' = n + 1 /\ Enough(c, recommended)'
        \/ \A g \in Left(c)' : Asked(g)' => NoPlace(g)'
    <3>1. CASE i' = n + 1 /\ Enough(c, recommended)
      <4>1. Enough(c, recommended)'
        BY <1>1, <3>1, NobodyMoves, TablesFixed DEF Enough, Fixed, Ranked1
      <4> QED BY <3>1, <4>1
    <3>2. CASE i' = i + 1
      <4> SUFFICES ASSUME NEW g \in Left(c), Asked(g)' PROVE NoPlace(g)
        BY <1>1, NobodyMoves DEF Ranked1
      <4>1. Asked(g) \/ g = h
        <5>1. PICK k \in 1 .. i' - 1 : clientRanking[k] = g
          BY <1>1 DEF Asked, Ranked1
        <5>2. k \in 1 .. i - 1 \/ k = i
          BY <1>2, <3>2
        <5> QED BY <5>1, <5>2 DEF Asked
      <4>2. CASE Asked(g)
        BY <1>1, <1>2, <4>2 DEF RoundInv, LeftInv
      <4>3. CASE g = h
        BY <1>1, <1>2, <4>3, PlaceIsSuitable DEF Left, NoPlace, RoundInv
      <4> QED BY <4>1, <4>2, <4>3
    <3> QED BY <1>2, <3>1, <3>2
  <2>2. ASSUME ~rules'.useLearning, rules'.single = NoPoA, NEW p \in PoAs, Through(p)'
        PROVE  Enough(p, recommended)' \/ \A g \in Left(p)' : NoPlace(g)'
    <3>1. rules' = rules
      BY <1>1 DEF Fixed
    <3>2. Enough(p, recommended) \/ \A g \in Left(p) : NoPlace(g)
      BY <1>1, <1>3, <2>2, <3>1 DEF RoundInv, LeftInv
    <3> QED BY <1>1, <2>2, <3>1, <3>2, NobodyMoves DEF Enough
  <2>3. poaRanking'[m'] = c
    BY <1>1 DEF Ranked1
  <2> QED BY <1>1, <2>1, <2>2, <2>3 DEF LeftInv
<1>8. ActionInv'
  <2> SUFFICES ASSUME rules'.useLearning, NEW p \in PoAs, Through(p)', rules'.single \in {NoPoA, p}
               PROVE  Fits(p)'
    BY DEF ActionInv
  <2>1. rules' = rules /\ Through(p)
    BY <1>1, <1>3 DEF Fixed
  <2>2. Fits(p)
    BY <1>1, <2>1 DEF RoundInv, ActionInv
  <2> QED BY <1>1, <2>2, NobodyMoves, TablesFixed DEF Fits
<1>9. EndInv'
  BY <1>1 DEF EndInv
<1> QED BY <1>1, <1>4, <1>5, <1>6, <1>7, <1>8, <1>9, NobodyMoves DEF RoundInv

\* A client moves: h from c to p.
LEMMA WhoMoves ==
  ASSUME RoundInv, MoveClient
  PROVE  LET h == clientRanking[i]  c == poaRanking[m] IN
         \E p \in PoAs :
           /\ h \in Hosts /\ Host(h).poa = c /\ recommended[h] = NoPoA
           /\ p # c /\ HasRoom(h, p) /\ ~Congested(p) /\ Capacity(p) >= PoARankingLimit
           /\ Host(h).grade[p] >= ClientsPoAGradingLimit
           /\ recommended' = [recommended EXCEPT ![h] = p]
           /\ capacity' = [capacity EXCEPT ![p] = @ - Host(h).need]
           /\ NextClient(recommended')
<1> DEFINE h == clientRanking[i]
           c == poaRanking[m]
           p == poaRanking[Min(Suitable(h))]
<1>1. /\ at = "client" /\ i <= Len(clientRanking) /\ Host(h).poa = c /\ Suitable(h) # {}
      /\ NextClient(Recommending(h, p)) /\ capacity' = [capacity EXCEPT ![p] = @ - Host(h).need]
  BY DEF MoveClient
<1>2. h \in Hosts /\ i \in 1 .. Cardinality(Hosts) /\ Cardinality(Hosts) \in Nat
      /\ recommended' = Recommending(h, p)
  BY <1>1, NextPlace
<1>3. Min(Suitable(h)) \in Suitable(h)
  <2>1. Suitable(h) \subseteq Nat
    BY DEF Suitable
  <2> QED BY <1>1, <2>1, LeastOf
<1>4. /\ p \in PoAs /\ p # c /\ HasRoom(h, p) /\ ~Congested(p) /\ Capacity(p) >= PoARankingLimit
      /\ Host(h).grade[p] >= ClientsPoAGradingLimit
  BY <1>1, <1>2, <1>3, SuitableCanGo DEF RoundInv
<1>5. recommended[h] = NoPoA
  <2>1. i \in i .. Cardinality(Hosts)
    BY <1>2
  <2>2. Current(Host(h).poa)
    BY <1>1 DEF Current
  <2> QED BY <1>1, <2>1, <2>2 DEF RoundInv, ReachedInv
<1>6. recommended' = [recommended EXCEPT ![h] = p]
  BY <1>2 DEF Recommending
<1>7. NextClient(recommended')
  BY <1>1, <1>2
<1> QED BY <1>1, <1>2, <1>4, <1>5, <1>6, <1>7

\* Less room leaves fewer places.
LEMMA FewerPlaces ==
  ASSUME RoundInv, Fixed, capacity' \in [PoAs -> Int], \A p \in PoAs : capacity'[p] <= capacity[p],
         NEW h \in Hosts, NoPlace(h)
  PROVE  NoPlace(h)'
<1> SUFFICES ASSUME NEW p \in PoAs, CouldGo(h, p)' PROVE CouldGo(h, p)
  BY DEF NoPlace
<1>1. Host(h)' = Host(h) /\ Congested(p)' = Congested(p) /\ Capacity(p)' = Capacity(p)
  BY TablesFixed
<1>2. Host(h).need <= capacity'[p] - PoAMargin
  BY <1>1 DEF CouldGo, HasRoom
<1>3. capacity'[p] <= capacity[p] /\ capacity'[p] \in Int /\ capacity[p] \in Int
      /\ PoAMargin \in Int /\ Host(h).need \in Int
  BY LimitsAssumption, TableTypes DEF RoundInv, TablesInv
<1>4. HasRoom(h, p)
  BY <1>2, <1>3 DEF HasRoom
<1> QED BY <1>1, <1>4 DEF CouldGo

LEMMA MoveClientOK ==
  ASSUME RoundInv, MoveClient
  PROVE  RoundInv'
<1> DEFINE n == Cardinality(Hosts)
           c == poaRanking[m]
           h == clientRanking[i]
<1>1. /\ Fixed /\ Ranked1 /\ at = "client" /\ at' = "client" /\ m' = m
      /\ UNCHANGED chosenAction /\ i <= Len(clientRanking)
  BY DEF MoveClient, Fixed, Ranked1
<1>2. PICK p \in PoAs :
        /\ h \in Hosts /\ Host(h).poa = c /\ recommended[h] = NoPoA
        /\ p # c /\ HasRoom(h, p) /\ ~Congested(p) /\ Capacity(p) >= PoARankingLimit
        /\ Host(h).grade[p] >= ClientsPoAGradingLimit
        /\ recommended' = [recommended EXCEPT ![h] = p]
        /\ capacity' = [capacity EXCEPT ![p] = @ - Host(h).need]
        /\ NextClient(recommended')
  BY WhoMoves
<1>3. /\ n \in Nat /\ i \in 1 .. n
      /\ (i' = n + 1 /\ Enough(c, recommended')) \/ i' = i + 1
      /\ i' \in i + 1 .. n + 1
  BY <1>1, <1>2, NextPlace
<1>4. \A q : Through(q)' <=> Through(q)
  BY <1>1, PlaceKept DEF Ranked1
<1>5. /\ c \in PoAs /\ ~Through(c) /\ Congested(c)
      /\ Ranks(clientRanking, Hosts)
      /\ \A k \in 1 .. n : \A l \in 1 .. k - 1 : ~ComesBefore(clientRanking[k], clientRanking[l])
  BY <1>1, CurrentPlace, PoAsRank DEF RoundInv, RankingInv
<1>6. PICK need \in Nat : need = Host(h).need
  BY <1>2, TableTypes DEF RoundInv
<1>7. /\ capacity \in [PoAs -> Int] /\ capacity' \in [PoAs -> Int] /\ capacity'[p] = capacity[p] - need
      /\ \A q \in PoAs \ {p} : capacity'[q] = capacity[q]
  BY <1>2, <1>6 DEF RoundInv, TablesInv
<1>8. /\ recommended' \in [Hosts -> PoAs \cup {NoPoA}] /\ recommended'[h] = p
      /\ \A g \in Hosts \ {h} : recommended'[g] = recommended[g]
  BY <1>2 DEF RoundInv, TablesInv
<1>9. p # NoPoA
  BY TablesAssumption
<1>10. \A g \in Hosts : Host(g)' = Host(g) 
  BY <1>1, TablesFixed
<1>11. \A g \in Hosts : NoPlace(g) => NoPlace(g)'
  <2>1. \A q \in PoAs : capacity'[q] <= capacity[q]
    BY <1>7
  <2> QED BY <1>1, <1>7, <2>1, FewerPlaces
<1>12. TablesInv'
  <2>1. i' \in Nat
    BY <1>3
  <2> QED BY <1>1, <1>7, <1>8, <2>1 DEF RoundInv, TablesInv, Fixed, Stages
<1>13. RankingInv'
  <2>1. poaRanking' \in Sorted(PoAs, PoABefore)' /\ clientRanking' \in Sorted(Hosts, ComesBefore)'
    BY <1>1, SortedFixed DEF RoundInv, RankingInv, Ranked1
  <2>2. m' \in 0 .. Ranked'
    BY <1>1 DEF Ranked, RoundInv, RankingInv
  <2>3. i' \in 1 .. n + 1
    BY <1>3
  <2> QED BY <1>1, <2>1, <2>2, <2>3, TablesFixed DEF RankingInv, RoundInv, Fixed, Ranked1
<1>14. ReachedInv'
  <2>1. ASSUME NEW g \in Hosts, recommended'[g] # NoPoA PROVE Through(Host(g).poa)' \/ Current(Host(g).poa)'
    <3>1. CASE g = h
      BY <1>1, <1>2, <1>10, <3>1 DEF Current, Ranked1
    <3>2. CASE g # h
      BY <1>1, <1>4, <1>8, <1>10, <2>1, <3>2 DEF RoundInv, ReachedInv, Current, Ranked1
    <3> QED BY <3>1, <3>2
  <2>2. ASSUME NEW k \in i' .. n, Current(Host(clientRanking[k]).poa)'
        PROVE  recommended'[clientRanking[k]] = NoPoA
    <3>1. k \in i .. n /\ k \in 1 .. n /\ k # i
      BY <1>3
    <3>2. clientRanking[k] \in Hosts /\ clientRanking[k] # h
      BY <1>3, <1>5, <3>1 DEF Ranks
    <3>3. Current(Host(clientRanking[k]).poa)
      BY <1>1, <1>10, <2>2, <3>2 DEF Current, Ranked1
    <3> QED BY <1>1, <1>8, <3>1, <3>2, <3>3 DEF RoundInv, ReachedInv
  <2>3. clientRanking' = clientRanking
    BY <1>1 DEF Ranked1
  <2>4. \A k \in i' .. n : clientRanking[k] \in Hosts
    <3>1. \A k \in i' .. n : k \in 1 .. n
      BY <1>3
    <3> QED BY <1>5, <3>1 DEF Ranks
  <2> QED BY <1>1, <1>10, <2>1, <2>2, <2>3, <2>4 DEF ReachedInv
<1>15. RoomInv'
  <2> SUFFICES ASSUME NEW q \in PoAs
               PROVE  /\ capacity'[q] = Ap(q).available - Demand(Coming(q)')
                      /\ Coming(q)' # {} => capacity'[q] >= PoAMargin
    BY <1>1, TablesFixed DEF RoomInv
  <2>1. /\ capacity[q] = Ap(q).available - Demand(Coming(q))
        /\ Coming(q) # {} => capacity[q] >= PoAMargin
    BY DEF RoundInv, RoomInv
  <2>2. CASE q # p
    <3>1. Coming(q)' = Coming(q)
      <4>1. \A g \in Hosts : recommended'[g] = q <=> recommended[g] = q
        BY <1>2, <1>8, <2>2, TablesAssumption
      <4> QED BY <4>1 DEF Coming
    <3> QED BY <1>7, <2>1, <2>2, <3>1
  <2>3. CASE q = p
    <3>1. Coming(q)' = Coming(q) \cup {h} /\ h \in Hosts \ Coming(q) /\ Coming(q) \in SUBSET Hosts
      <4>1. \A g \in Hosts : recommended'[g] = q <=> recommended[g] = q \/ g = h
        BY <1>8, <2>3
      <4> QED BY <1>2, <1>9, <2>3, <4>1 DEF Coming
    <3>2. PICK clients \in SUBSET Hosts : clients = Coming(q)
      BY <3>1
    <3>3. Demand(clients \cup {h}) = Demand(clients) + need /\ Demand(clients) \in Nat
      BY <1>6, <3>1, <3>2, DemandAdd, UnitsFinite DEF RoundInv
    <3>4. Ap(q).available \in Nat /\ PoAMargin \in Nat
      BY TableTypes, LimitsAssumption DEF RoundInv
    <3>5. need <= capacity[q] - PoAMargin
      BY <1>2, <1>6, <2>3 DEF HasRoom
    <3>6. capacity'[q] = Ap(q).available - Demand(Coming(q)')
      <4>1. capacity'[q] = Ap(q).available - Demand(clients) - need
        BY <1>7, <2>1, <2>3, <3>2
      <4>2. Demand(Coming(q)') = Demand(clients) + need
        BY <3>1, <3>2, <3>3
      <4> QED BY <3>3, <3>4, <4>1, <4>2
    <3> QED BY <1>7, <2>3, <3>4, <3>5, <3>6
  <2> QED BY <2>2, <2>3
<1>16. MovesHelp'
  <2> SUFFICES ASSUME NEW g \in Hosts, recommended'[g] # NoPoA
               PROVE  /\ Congested(Host(g).poa) /\ ~Congested(recommended'[g])
                      /\ Host(g).grade[recommended'[g]] >= ClientsPoAGradingLimit
    BY <1>1, TablesFixed DEF MovesHelp
  <2>1. CASE g = h
    BY <1>2, <1>5, <1>8, <2>1
  <2>2. CASE g # h
    BY <1>8, <2>2 DEF RoundInv, MovesHelp
  <2> QED BY <2>1, <2>2
<1>17. LeftInv'
  <2>1. \/ i' = n + 1 /\ Enough(c, recommended)'
        \/ \A g \in Left(c)' : Asked(g)' => NoPlace(g)'
    <3>1. CASE i' = n + 1 /\ Enough(c, recommended')
      <4>1. Enough(c, recommended)'
        <5>1. Moved(c, recommended)' = Moved(c, recommended')
          BY <1>1, <1>10 DEF Moved, Ranked1
        <5>2. \A clients : Demand(clients)' = Demand(clients)
          BY <1>1, TablesFixed
        <5>3. Freed(c, recommended)' = Freed(c, recommended')
          BY <5>1, <5>2 DEF Freed
        <5> QED BY <1>1, <3>1, <5>1, <5>3, TablesFixed DEF Enough, Fixed, Ranked1
      <4> QED BY <3>1, <4>1
    <3>2. CASE i' = i + 1
      <4> SUFFICES ASSUME NEW g \in Left(c)', Asked(g)' PROVE NoPlace(g)
        <5>1. \A g \in Left(c)' : g \in Hosts
          BY DEF Left
        <5> QED BY <1>11, <5>1
      <4>1. g \in Left(c) /\ g # h /\ g \in Hosts
        BY <1>1, <1>8, <1>9, <1>10 DEF Left, Ranked1
      <4>2. Asked(g)
        <5>1. PICK k \in 1 .. i' - 1 : clientRanking[k] = g
          BY <1>1 DEF Asked, Ranked1
        <5>2. k \in 1 .. i - 1
          BY <1>3, <3>2, <4>1, <5>1
        <5> QED BY <5>1, <5>2 DEF Asked
      <4> QED BY <1>1, <1>3, <4>1, <4>2 DEF RoundInv, LeftInv
    <3> QED BY <1>3, <3>1, <3>2
  <2>2. ASSUME ~rules'.useLearning, rules'.single = NoPoA, NEW q \in PoAs, Through(q)'
        PROVE  Enough(q, recommended)' \/ \A g \in Left(q)' : NoPlace(g)'
    <3>1. rules' = rules /\ q # c
      BY <1>1, <1>4, <1>5, <2>2 DEF Fixed
    <3>2. Enough(q, recommended) \/ \A g \in Left(q) : NoPlace(g)
      BY <1>1, <1>4, <2>2, <3>1 DEF RoundInv, LeftInv
    <3>3. Left(q)' = Left(q) /\ Moved(q, recommended)' = Moved(q, recommended)
      BY <1>2, <1>8, <1>10, <3>1 DEF Left, Moved
    <3>4. \A g \in Left(q) : g \in Hosts
      BY DEF Left
    <3> QED BY <1>11, <2>2, <3>1, <3>2, <3>3, <3>4 DEF Enough
  <2>3. poaRanking'[m'] = c
    BY <1>1 DEF Ranked1
  <2> QED BY <1>1, <2>1, <2>2, <2>3 DEF LeftInv

<1>18. PreferredFirst'
  <2> SUFFICES ASSUME NEW f \in Hosts, NEW g \in Hosts,
                      Host(f).poa = Host(g).poa, IsPreferred(f, g), recommended'[g] # NoPoA,
                      Host(f).grade[recommended'[g]] >= Max({2, ClientsPoAGradingLimit}),
                      Host(f).need <= Host(g).need
               PROVE  recommended'[f] # NoPoA
    BY <1>1, TablesFixed DEF PreferredFirst
  <2>1. CASE f = h
    BY <1>8, <1>9, <2>1
  <2>2. CASE f # h /\ g # h
    BY <1>8, <2>2 DEF RoundInv, PreferredFirst
  <2>3. CASE f # h /\ g = h
    <3> SUFFICES ASSUME recommended[f] = NoPoA PROVE FALSE
      BY <1>8, <2>3
    <3>1. f \in Left(c)
      BY <1>2, <2>3 DEF Left
    <3>2. Asked(f)
      <4>1. PICK k \in 1 .. n : clientRanking[k] = f
        BY <1>5 DEF Ranks
      <4>2. ComesBefore(f, h)
        BY <2>3 DEF IsPreferred, ComesBefore, ByPotential, GoldFirst, BronzeFirst
      <4>3. ~(i \in 1 .. k - 1)
        <5>1. i \in 1 .. k - 1 => ~ComesBefore(f, h)
          BY <1>5, <4>1
        <5> QED BY <4>2, <5>1
      <4>4. k \in 1 .. i - 1
        BY <1>3, <2>3, <4>1, <4>3
      <4> QED BY <4>1, <4>4 DEF Asked
    <3>3. NoPlace(f)
      BY <1>1, <1>3, <3>1, <3>2 DEF RoundInv, LeftInv
    <3>4. CouldGo(f, p)
      <4>1. Host(f).grade[p] >= Max({2, ClientsPoAGradingLimit})
        BY <1>8, <2>3
      <4>2. Host(f).grade[p] > 1 /\ Host(f).grade[p] >= ClientsPoAGradingLimit
        <5>1. ClientsPoAGradingLimit \in Nat
          BY LimitsAssumption
        <5>2. PICK x \in {2, ClientsPoAGradingLimit} :
                x = Max({2, ClientsPoAGradingLimit}) /\ 2 <= x /\ ClientsPoAGradingLimit <= x
          BY <5>1, LargerOfTwo
        <5>3. Host(f).grade[p] \in Nat
          BY TableTypes DEF RoundInv
        <5> QED BY <4>1, <5>1, <5>2, <5>3
      <4>3. HasRoom(f, p)
        <5>1. Host(f).need \in Nat /\ Host(h).need \in Nat /\ Host(f).need <= Host(h).need
          BY <1>2, <2>3, TableTypes DEF RoundInv
        <5>2. Host(h).need <= capacity[p] - PoAMargin /\ capacity[p] - PoAMargin \in Int
          BY <1>2, <1>7, LimitsAssumption DEF HasRoom
        <5> QED BY <5>1, <5>2 DEF HasRoom
      <4>4. p # Host(f).poa
        BY <1>2, <2>3
      <4> QED BY <1>2, <4>2, <4>3, <4>4 DEF CouldGo
    <3> QED BY <3>3, <3>4 DEF NoPlace
  <2> QED BY <2>1, <2>2, <2>3
<1>19. ActionInv'
  <2> SUFFICES ASSUME rules'.useLearning, NEW q \in PoAs, Through(q)', rules'.single \in {NoPoA, q}
               PROVE  Fits(q)'
    BY DEF ActionInv
  <2>1. rules' = rules /\ Through(q) /\ q # c
    BY <1>1, <1>4, <1>5 DEF Fixed
  <2>2. Fits(q)
    BY <1>1, <2>1 DEF RoundInv, ActionInv
  <2>3. Moved(q, recommended)' = Moved(q, recommended)
    BY <1>2, <1>8, <1>10, <2>1 DEF Moved
  <2>4. Freed(q, recommended)' = Freed(q, recommended)
    BY <1>1, <2>3, TablesFixed DEF Freed
  <2> QED BY <1>1, <2>2, <2>4, TablesFixed DEF Fits
<1>20. EndInv'
  BY <1>1 DEF EndInv
<1> QED BY <1>12, <1>13, <1>14, <1>15, <1>16, <1>17, <1>18, <1>19, <1>20 DEF RoundInv

-----------------------------------------------------------------------------
(* The theorems *)

LEMMA NothingOK ==
  ASSUME RoundInv, UNCHANGED balancerVars
  PROVE  RoundInv'
<1>1. /\ Fixed /\ Ranked1
      /\ UNCHANGED <<network, rules, at, poaRanking, clientRanking, m, i, capacity, chosenAction, recommended>>
  BY DEF balancerVars, Fixed, Ranked1
<1>2. \A p : Through(p)' <=> Through(p)
  BY <1>1, PlaceKept
<1>3. \A p : Fits(p)' <=> Fits(p)
  BY <1>1, NobodyMoves, TablesFixed DEF Fits
<1>4. \A p : Current(p)' <=> Current(p)
  BY <1>1 DEF Current
<1>5. \A p : Enough(p, recommended)' <=> Enough(p, recommended)
  BY <1>1, NobodyMoves, TablesFixed DEF Enough
<1>6. \A h : Asked(h)' <=> Asked(h)
  BY <1>1 DEF Asked
<1>7. TablesInv'
  BY <1>1 DEF RoundInv, TablesInv
<1>8. RankingInv'
  <2>1. Ranked' = Ranked
    BY DEF Ranked
  <2> QED BY <1>1, <2>1, SortedFixed, TablesFixed DEF RoundInv, RankingInv
<1>9. ReachedInv'
  BY <1>1, <1>2, <1>4, TablesFixed DEF RoundInv, ReachedInv
<1>10. LeftInv'
  <2>1. Enough(poaRanking[m], recommended)' <=> Enough(poaRanking[m], recommended)
    BY <1>1, NobodyMoves, TablesFixed DEF Enough
  <2>2. Left(poaRanking[m])' = Left(poaRanking[m])
    BY <1>1, TablesFixed DEF Left
  <2> QED BY <1>1, <1>2, <1>5, <1>6, <2>1, <2>2, NobodyMoves DEF RoundInv, LeftInv
<1>11. ActionInv' /\ EndInv'
  BY <1>1, <1>2, <1>3, TablesFixed DEF RoundInv, ActionInv, EndInv
<1> QED BY <1>1, <1>7, <1>8, <1>9, <1>10, <1>11, NobodyMoves DEF RoundInv

LEMMA RoundInvariant == BalancerSpec => []RoundInv
<1>1. RoundInv /\ [BalancerNext]_balancerVars => RoundInv'
  <2> SUFFICES ASSUME RoundInv, [BalancerNext]_balancerVars PROVE RoundInv'
    OBVIOUS
  <2>1. CASE Sample BY <2>1, SampleOK
  <2>2. CASE CongestedPoA BY <2>2, SkipOK, StartOK
  <2>3. CASE EndRound BY <2>3, EndRoundOK
  <2>4. CASE MoveClient BY <2>4, MoveClientOK
  <2>5. CASE PassClient BY <2>5, PassClientOK
  <2>6. CASE ParseFails BY <2>6, ParseFailsOK
  <2>7. CASE EndPoA BY <2>7, EndPoAOK
  <2>8. CASE UNCHANGED balancerVars BY <2>8, NothingOK
  <2> QED BY <2>1, <2>2, <2>3, <2>4, <2>5, <2>6, <2>7, <2>8 DEF BalancerNext
<1> QED BY <1>1, InitOK, PTL DEF BalancerSpec

\* Whatever the tables, the limits and the rules, and also with learning: each client that is
\* moved leaves a congested PoA for one that is not congested, can take clients and is good
\* enough for it, and all clients sent to a PoA fit in what it has to offer.
THEOREM MovesRelieve == BalancerSpec => []MovesFit
<1>1. RoundInv => MovesFit
  <2> SUFFICES ASSUME RoundInv PROVE RoomIsLeft
    BY DEF RoundInv, MovesFit
  <2> SUFFICES ASSUME NEW p \in PoAs, Coming(p) # {} PROVE Demand(Coming(p)) + PoAMargin <= Ap(p).available
    BY DEF RoomIsLeft, Coming
  <2>1. capacity[p] = Ap(p).available - Demand(Coming(p)) /\ capacity[p] >= PoAMargin
    BY DEF RoundInv, RoomInv
  <2>2. Ap(p).available \in Nat /\ PoAMargin \in Nat /\ Demand(Coming(p)) \in Nat
    <3>1. Coming(p) \in SUBSET Hosts
      BY DEF Coming
    <3> QED BY <3>1, TableTypes, UnitsFinite, LimitsAssumption DEF RoundInv
  <2> QED BY <2>1, <2>2
<1> QED BY <1>1, RoundInvariant, PTL

\* However PoAs and clients are ranked among equals: although both searches stop early, a
\* client that stays at a congested PoA with moves to spare has nowhere to go.
THEOREM NobodyForgotten == BalancerSpec => []NobodyLeftBehind
<1>1. RoundInv => NobodyLeftBehind
  <2> SUFFICES ASSUME RoundInv, at = "done", ~rules.useLearning, rules.single = NoPoA, NEW h \in Hosts,
                      Congested(Host(h).poa), recommended[h] = NoPoA,
                      Cardinality(Moved(Host(h).poa, recommended)) < SimultaneousHOs
               PROVE  \A p \in PoAs : ~CouldGo(h, p)
    BY DEF NobodyLeftBehind
  <2>1. Host(h).poa \in PoAs
    BY TableTypes DEF RoundInv
  <2>2. Through(Host(h).poa)
    BY <2>1 DEF RoundInv, EndInv
  <2>3. ~Enough(Host(h).poa, recommended)
    <3>1. Moved(Host(h).poa, recommended) \in SUBSET Hosts
      BY DEF Moved
    <3>2. Cardinality(Moved(Host(h).poa, recommended)) \in Nat
      BY <3>1, TablesAssumption, FS_Subset, FS_CardinalityType
    <3> QED BY <3>2, LimitsAssumption DEF Enough
  <2>4. h \in Left(Host(h).poa)
    BY DEF Left
  <2>5. NoPlace(h)
    BY <2>1, <2>2, <2>3, <2>4 DEF RoundInv, LeftInv
  <2> QED BY <2>5 DEF NoPlace
<1> QED BY <1>1, RoundInvariant, PTL

\* For each of the three comparisons: no client is moved while one at its PoA that is to be
\* preferred, sees the new PoA and needs no more of it, stays.
THEOREM NobodyOvertaken == BalancerSpec => []PreferredFirst
<1>1. RoundInv => PreferredFirst
  BY DEF RoundInv
<1> QED BY <1>1, RoundInvariant, PTL

\* For all bandwidths: when a PoA is through, the action that will be judged is the smallest
\* that frees what the moves free, or the largest there is.
THEOREM FeedbackFits == BalancerSpec => []FeedbackFitsAction
<1>1. RoundInv => FeedbackFitsAction
  <2> SUFFICES ASSUME RoundInv, rules.useLearning, NEW k \in 1 .. Len(poaRanking), k > m, at \in {"poa", "done"},
                      rules.single \in {NoPoA, poaRanking[k]}
               PROVE  Fits(poaRanking[k])
    BY DEF FeedbackFitsAction, Fits
  <2>1. Ranks(poaRanking, PoAs) /\ m \in Nat
    BY PoAsRank DEF RoundInv, TablesInv
  <2>2. k \in 1 .. Ranked /\ poaRanking[k] \in PoAs
    BY <2>1 DEF Ranks, Ranked
  <2>3. k \in m + 1 .. Ranked
    <3>1. Ranked \in Nat
      BY TablesAssumption, FS_CardinalityType DEF Ranked
    <3> HIDE DEF Ranked
    <3> QED BY <2>1, <2>2, <3>1
  <2>4. Through(poaRanking[k])
    BY <2>3 DEF Through
  <2> QED BY <2>2, <2>4 DEF RoundInv, ActionInv
<1> QED BY <1>1, RoundInvariant, PTL
=============================================================================
