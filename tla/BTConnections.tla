---------------------------- MODULE BTConnections ----------------------------
(***************************************************************************)
(* How BitTorrent peers open, refuse and close the connections between     *)
(* them: the connection part of BTPeerWireBase and of its threads.         *)
(*                                                                         *)
(* A connection <<a, b>> is opened by a.  Each end of it is an endpoint    *)
(* with a thread.  What two peers send each other, over the one or the     *)
(* other connection, takes the same path and arrives in order.  A thread   *)
(* enters its peer's table peerState with an identity: the one the tracker *)
(* gave, or the address (here: the connection) until the handshake tells   *)
(* the identity of a peer that has called.                                 *)
(*                                                                         *)
(* Self-messages at the current time belong to the step that schedules     *)
(* them.  A tracker response comes long after a connection has ended at    *)
(* both ends.  Connections fail only when they are refused: the network    *)
(* loses nothing, and an end closes before DEL_THREAD_TIMER.               *)
(***************************************************************************)
EXTENDS Integers, FiniteSets, Sequences, SequencesExt

CONSTANTS
    Peer,
    MinNumConnections,  \* minNumConnections: listen again at or below it
    MaxNumConnections,  \* maxNumConnections: stop listening one below it
    Overlays            \* the overlays to look at, see Overlay

(* Peers are finitely many, and no identity of a peer is an address.         *)
ASSUME PeerAssumption      == IsFiniteSet(Peer) /\ \A x, y, z \in Peer : x # <<y, z>>
ASSUME MinAssumption       == MinNumConnections \in Nat
ASSUME MaxAssumption       == MaxNumConnections \in Nat /\ MinNumConnections < MaxNumConnections - 1

(* An overlay: the peers the tracker knows, how many responses of it each    *)
(* gets (a bound), and which of them may exit.                               *)
Overlay == [peers : SUBSET Peer, responses : Nat, leaving : SUBSET Peer]

ASSUME OverlaysAssumption  == Overlays \subseteq Overlay

VARIABLES
    base,               \* of each peer: its counters, its listening socket, peerState
    thread,             \* of each endpoint: its thread and the state of its socket
    wire                \* of each pair of peers: what is on its way to the first from the second

connectionVars == <<base, thread, wire>>

Connection    == {c \in Peer \X Peer : c[1] # c[2]}
Endpoint      == {e \in Connection \X Peer : e[2] \in {e[1][1], e[1][2]}}
ActiveEnd(c)  == <<c, c[1]>>
PassiveEnd(c) == <<c, c[2]>>
Other(e)      == IF e[2] = e[1][1] THEN e[1][2] ELSE e[1][1]
Opposite(e)   == <<e[1], Other(e)>>

(* The states of a thread, in the order of the code's enumeration, which the *)
(* code compares.                                                            *)
States == <<"NONE", "EARLY_ABORTING", "ACTIVE_ABORTING", "PASSIVE_ABORTING", "INITIAL",
            "CONNECTED", "ACTIVE_HANDSHAKE", "HANDSHAKE_COMPLETE">>
Rank == [state \in ToSet(States) |-> CHOOSE i \in DOMAIN States : States[i] = state]
Beyond(e, state) == Rank[thread[e].state] > Rank[state]

HandshakeMsg == "HANDSHAKE"

(* closed: this end has closed; acked: its peer knows; peerClosed: its peer  *)
(* has closed.                                                               *)
NoThread      == [state |-> "NONE", id |-> "none", closed |-> FALSE, acked |-> FALSE,
                  peerClosed |-> FALSE]
NewThread(id) == [NoThread EXCEPT !.state = "INITIAL", !.id = id]

ConnectionInit ==
    /\ \E overlay \in Overlays :
        base = [x \in Peer |->
            [current |-> 0, pending |-> 0, listening |-> TRUE, exiting |-> FALSE,
             peerState |-> [y \in Peer |-> <<>>],
             peers |-> overlay.peers, leaving |-> x \in overlay.leaving,
             responses |-> IF x \in overlay.peers THEN overlay.responses ELSE 0]]
    /\ thread = [e \in Endpoint |-> NoThread]
    /\ wire = [c \in Connection |-> <<>>]

----------------------------------------------------------------------------
(* Counters, and the table of peers.  Entries are looked up by the address   *)
(* of a peer or by an identity: the order matters within a peer only.        *)

(* checkConnections, startListening and stopListening *)
CheckConnections(b) ==
    [b EXCEPT !.listening = IF b.current + b.pending + 1 >= MaxNumConnections THEN FALSE
                            ELSE IF b.current + b.pending <= MinNumConnections /\ ~b.exiting THEN TRUE
                            ELSE @]

(* increaseCurrentNumConnections: a pending connection becomes a current one. *)
IncreaseCurrent(b) == CheckConnections([b EXCEPT !.current = @ + 1, !.pending = @ - 1])

(* addPeer and increasePendingNumConnections *)
AddPeer(b, e, id) ==
    CheckConnections([b EXCEPT !.pending = @ + 1,
                               !.peerState[Other(e)] = Append(@, [conn |-> e[1], id |-> id])])

(* Wrong variant of RemovePeer: the last entry with the identity goes. *)
RemoveLastPeer(b, y, id) ==
    [b EXCEPT !.peerState[y] = RemoveAt(@, SelectLastInSeq(@, LAMBDA entry : entry.id = id))]

(* INTERNAL_REMOVE_THREAD_MSG: removePeer takes the first entry with the id. *)
RemovePeer(b, y, id) ==
    [b EXCEPT !.peerState[y] = RemoveAt(@, SelectInSeq(@, LAMBDA entry : entry.id = id))]

(* TCP delivers a message to e, which answers over the same connection.      *)
Way(e)              == <<e[2], Other(e)>>
Arrives(e, message) == wire[Way(e)] # <<>> /\ Head(wire[Way(e)]) = <<e[1], message>>
Tagged(e, messages) == [i \in DOMAIN messages |-> <<e[1], messages[i]>>]
Reply(e, messages)  == wire' = [wire EXCEPT ![Way(e)] = Tail(@),
                                            ![Way(Opposite(e))] = @ \o Tagged(e, messages)]

(* Wrong variant of AlreadyEstablished: only a finished handshake counts. *)
AlreadyComplete(e, peerState) ==
    LET first == <<peerState[1].conn, e[2]>>
    IN  first # e /\ Beyond(first, "ACTIVE_HANDSHAKE")

(* connectionAlreadyEstablished: the first entry for the address of the      *)
(* caller has a connection.  peerState holds at least the entry of e.        *)
AlreadyEstablished(e, peerState) ==
    LET first == <<peerState[1].conn, e[2]>>
    IN  first # e /\ Beyond(first, "INITIAL")

----------------------------------------------------------------------------
(* scheduleConnections and INTERNAL_INIT_CONNECTION_MSG: the response names  *)
(* all other peers, in any order; peers without an entry are called while    *)
(* there is room.                                                            *)
Others(x)  == base[x].peers \ {x}
Unknown(x) == {y \in Others(x) : base[x].peerState[y] = <<>>}
Room(x)    == MaxNumConnections - base[x].current - base[x].pending - 2

TrackerResponse(x) ==
    /\ ~base[x].exiting /\ base[x].responses > 0
    /\ Room(x) > 0
    /\ \A y \in Others(x) : thread[<<<<x, y>>, y>>].state = "NONE"
    /\ \E called \in SUBSET Unknown(x) :
        LET Calls(e)  == e[2] = x /\ e[1][1] = x /\ e[1][2] \in called
            one       == CheckConnections([base[x] EXCEPT !.responses = @ - 1])
            Entry(y)  == [conn |-> <<x, y>>, id |-> y]
            all       == [one EXCEPT !.pending = @ + Cardinality(called),
                                     !.peerState = [y \in Peer |-> IF y \in called THEN <<Entry(y)>> ELSE @[y]]]
        IN  /\ called # {}
            /\ Cardinality(called) = IF Cardinality(Unknown(x)) < Room(x)
                                     THEN Cardinality(Unknown(x)) ELSE Room(x)
            /\ base' = [base EXCEPT ![x] = CheckConnections(all)]
            /\ thread' = [e \in Endpoint |-> IF Calls(e) THEN NewThread(Other(e)) ELSE thread[e]]
            /\ wire' = [c \in Connection |->
                    IF c[2] = x /\ c[1] \in called THEN Append(wire[c], <<<<x, c[1]>>, "SYN">>) ELSE wire[c]]

(* TCP answers a call for a socket that listens and refuses others. *)
Syn(c) ==
    /\ Arrives(PassiveEnd(c), "SYN")
    /\ Reply(PassiveEnd(c), <<IF base[c[2]].listening THEN "ESTABLISHED" ELSE "REFUSED">>)
    /\ UNCHANGED <<base, thread>>

(* established() of the thread at endpoint e, the peer's record being b.  A  *)
(* thread told to close before is closed now, and stays counted as pending.  *)
Accept(e, b, t, first) ==
    IF t.state = "EARLY_ABORTING"
    THEN /\ base' = [base EXCEPT ![e[2]] = b]
         /\ thread' = [thread EXCEPT ![e] = [t EXCEPT !.state = "ACTIVE_ABORTING", !.closed = TRUE]]
         /\ Reply(e, first \o <<"CLOSED">>)
    ELSE /\ base' = [base EXCEPT ![e[2]] = IncreaseCurrent(b)]
         /\ IF e = ActiveEnd(e[1])
            THEN /\ thread' = [thread EXCEPT ![e] = [t EXCEPT !.state = "ACTIVE_HANDSHAKE"]]
                 /\ Reply(e, first \o <<HandshakeMsg>>)
            ELSE /\ thread' = [thread EXCEPT ![e] = [t EXCEPT !.state = "CONNECTED"]]
                 /\ Reply(e, first)

(* A second connection with the same peer is closed at once; its thread does *)
(* not learn that it was established, but it is counted.                     *)
Reject(e, b, t, first) ==
    /\ base' = [base EXCEPT ![e[2]] = IncreaseCurrent(b)]
    /\ thread' = [thread EXCEPT ![e] = [t EXCEPT !.closed = TRUE]]
    /\ Reply(e, first \o <<"CLOSED">>)

(* handleMessage(TCP_I_ESTABLISHED) at the peer that called *)
ActiveEstablished(c) ==
    LET e == ActiveEnd(c)  b == base[c[1]]
    IN  /\ Arrives(e, "ESTABLISHED")
        /\ IF AlreadyEstablished(e, b.peerState[c[2]])
           THEN Reject(e, b, thread[e], <<"ACK">>)
           ELSE Accept(e, b, thread[e], <<"ACK">>)

(* handleMessage(TCP_I_ESTABLISHED) for a connection not known yet: a new    *)
(* thread and its entry.  The table is searched with the entry in it.        *)
PassiveEstablished(c) ==
    LET e == PassiveEnd(c)
        b == AddPeer(base[c[2]], e, c)
    IN  /\ Arrives(e, "ACK")
        /\ IF AlreadyEstablished(e, b.peerState[c[1]])
           THEN Reject(e, b, NewThread(c), <<>>)
           ELSE Accept(e, b, NewThread(c), <<>>)

(* initiatePeerWireProtocol: the peer that was called learns the identity of *)
(* the caller, in its entry too (INTERNAL_UPDATE_THREAD_MSG), and answers.   *)
Handshake(e) ==
    /\ Arrives(e, HandshakeMsg)
    /\ IF ~Beyond(e, "INITIAL")
       THEN Reply(e, <<>>) /\ UNCHANGED <<base, thread>>
       ELSE IF thread[e].state = "ACTIVE_HANDSHAKE"
       THEN /\ thread' = [thread EXCEPT ![e].state = "HANDSHAKE_COMPLETE"]
            /\ Reply(e, <<>>)
            /\ UNCHANGED base
       ELSE /\ thread' = [thread EXCEPT ![e].state = "HANDSHAKE_COMPLETE", ![e].id = Other(e)]
            /\ base' = [base EXCEPT ![e[2]].peerState[Other(e)] =
                    LET i == SelectInSeq(@, LAMBDA entry : entry.id = thread[e].id)
                    IN  [@ EXCEPT ![i].id = Other(e)]]
            /\ Reply(e, <<HandshakeMsg>>)

(* Wrong variant of PeerClosed: a thread that runs does not close its end.   *)
PeerClosedKeepsOpen(e) ==
    /\ Arrives(e, "CLOSED")
    /\ thread' = [thread EXCEPT ![e].state = IF Beyond(e, "ACTIVE_ABORTING") THEN "PASSIVE_ABORTING" ELSE @,
                                ![e].peerClosed = TRUE]
    /\ Reply(e, <<"ACKED">>)
    /\ UNCHANGED base

(* peerClosed: the remote peer has closed; this end closes too. *)
PeerClosed(e) ==
    /\ Arrives(e, "CLOSED")
    /\ thread' = [thread EXCEPT ![e].state = IF Beyond(e, "ACTIVE_ABORTING") THEN "PASSIVE_ABORTING" ELSE @,
                                ![e].closed = TRUE, ![e].peerClosed = TRUE]
    /\ Reply(e, <<"ACKED">> \o (IF thread[e].closed THEN <<>> ELSE <<"CLOSED">>))
    /\ UNCHANGED base

Acked(e) ==
    /\ Arrives(e, "ACKED")
    /\ thread' = [thread EXCEPT ![e].acked = TRUE]
    /\ Reply(e, <<>>)
    /\ UNCHANGED base

(* closed and removeCurrentThread, when each end knows that the other closed *)
Closed(e) ==
    LET b == [base[e[2]] EXCEPT !.current = @ - 1]
    IN  /\ thread[e].acked /\ thread[e].peerClosed
        /\ base' = [base EXCEPT ![e[2]] = CheckConnections(RemovePeer(b, Other(e), thread[e].id))]
        /\ thread' = [thread EXCEPT ![e] = NoThread]
        /\ UNCHANGED wire

(* failure and removeCurrentThread: the call was refused. *)
Failure(e) ==
    LET b == [base[e[2]] EXCEPT !.pending = @ - 1]
    IN  /\ Arrives(e, "REFUSED")
        /\ base' = [base EXCEPT ![e[2]] = CheckConnections(RemovePeer(b, Other(e), thread[e].id))]
        /\ thread' = [thread EXCEPT ![e] = NoThread]
        /\ Reply(e, <<>>)

(* closeConnection: a thread that waits to be established is only marked.    *)
CloseConnection(e) ==
    IF Beyond(e, "INITIAL")
    THEN [thread[e] EXCEPT !.state = "ACTIVE_ABORTING", !.closed = TRUE]
    ELSE IF thread[e].state = "INITIAL"
    THEN [thread[e] EXCEPT !.state = "EARLY_ABORTING"]
    ELSE thread[e]

(* INTERNAL_EXIT_MSG: no new connections, and every thread closes its own,   *)
(* in any order.                                                             *)
Closing(e) == IF Beyond(e, "INITIAL") THEN <<<<e[1], "CLOSED">>>> ELSE <<>>

Exit(x) ==
    /\ base[x].leaving /\ ~base[x].exiting
    /\ base' = [base EXCEPT ![x].exiting = TRUE, ![x].listening = FALSE]
    /\ thread' = [e \in Endpoint |-> IF e[2] = x THEN CloseConnection(e) ELSE thread[e]]
    /\ \E callsFirst \in SUBSET Peer :
          wire' = [c \in Connection |->
            IF c[2] # x THEN wire[c]
            ELSE LET call == Closing(<<<<x, c[1]>>, x>>)  called == Closing(<<c, x>>)
                 IN  wire[c] \o (IF c[1] \in callsFirst THEN call \o called ELSE called \o call)]

----------------------------------------------------------------------------
Delivery(c)   == Syn(c) \/ ActiveEstablished(c) \/ PassiveEstablished(c)
ThreadStep(e) == Handshake(e) \/ PeerClosed(e) \/ Acked(e) \/ Closed(e) \/ Failure(e)
NetworkStep   == (\E c \in Connection : Delivery(c)) \/ (\E e \in Endpoint : ThreadStep(e))

ConnectionNext == NetworkStep \/ \E x \in Peer : TrackerResponse(x) \/ Exit(x)

ConnectionSpec     == ConnectionInit /\ [][ConnectionNext]_connectionVars
ConnectionFairness == WF_connectionVars(NetworkStep)      \* the event queue goes on
----------------------------------------------------------------------------
(* Properties *)

Threads(x) == {e \in Endpoint : e[2] = x /\ thread[e].state # "NONE"}

(* The table of peers holds one entry for each thread and no other, under    *)
(* the identity of the thread: removePeer, which takes the first entry with  *)
(* an identity that two connections with the same peer share, always finds   *)
(* one, and never drops the wrong one as long as neither peer exits.         *)
EntriesMatchThreads ==
    \A x \in Peer, y \in Peer :
        LET entries == base[x].peerState[y]
            threads == {e \in Threads(x) : Other(e) = y}
        IN  /\ Len(entries) = Cardinality(threads)
            /\ ~base[x].exiting /\ ~base[y].exiting =>
                                   {<<entries[i].conn, entries[i].id>> : i \in DOMAIN entries}
                                        = {<<e[1], thread[e].id>> : e \in threads}

(* The two counters together count the threads, whatever way a connection    *)
(* was refused, rejected, aborted early or closed, and the server socket is  *)
(* open when there are few and closed when there are many (checkConnections).*)
ConnectionsCounted ==
    \A x \in Peer :
        LET n == base[x].current + base[x].pending
        IN  /\ n = Cardinality(Threads(x))
            /\ n <= MinNumConnections /\ ~base[x].exiting => base[x].listening
            /\ n + 1 >= MaxNumConnections \/ base[x].exiting => ~base[x].listening

(* What a peer keeps of its connections, its table and its counters, agrees  *)
(* with the threads there are.                                               *)
ConnectionsTracked == EntriesMatchThreads /\ ConnectionsCounted

(* Two peers that call each other at the same time never exchange data over  *)
(* both connections.                                                         *)
OneConnectionPerPair ==
    \A a, b \in Peer :
        a # b => ~ \A e \in {<<c, x>> : c \in {<<a, b>>, <<b, a>>}, x \in {a, b}} :
                        thread[e].state = "HANDSHAKE_COMPLETE"

(* What one end closes is gone at both ends some time: there comes a moment  *)
(* with no thread left that has closed or been rejected.                     *)
ClosedConnectionsEnd ==
    (\E e \in Endpoint : thread[e].closed) ~> (\A e \in Endpoint : ~thread[e].closed)

=============================================================================
