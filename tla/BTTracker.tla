----------------------------- MODULE BTTracker ------------------------------
(***************************************************************************)
(* The tracker: the table of peers, the answers to announces, the cleanup  *)
(* and the server side of its sessions (BTTrackerBase), and the TCP        *)
(* connections of the sessions.  Clients announce only "started": every    *)
(* connection has a new handler in state ST_STARTED.                       *)
(***************************************************************************)
EXTENDS Naturals, Sequences, FiniteSets, FiniteSetsExt

CONSTANTS
  Terminals,      \* the hosts that download (overlayTerminal_i)
  Seeders,        \* the hosts that have the file from the start (BTHostSeeder_i)
  SubTracker,     \* a host that tracks the peers of its domain
  Tracker,        \* the host that tracks all
  MaxLate,        \* bound on answers that come later than sessionTimeout
  Configs         \* the configurations, one of which a behaviour has

ASSUME TrackerNetAssumption ==
  /\ Terminals \cap Seeders = {}
  /\ {Tracker, SubTracker} \cap (Terminals \cup Seeders) = {}
  /\ Tracker # SubTracker
  /\ MaxLate \in Nat

ASSUME ConfigsAssumption ==
  \A k \in Configs : k.maxPeersInReply \in Nat

VARIABLES
  conns,     \* <<client, server>> -> connection
  late,      \* sessions that were found too long so far
  failing,   \* the connections of the sub-tracker that may still fail
  simError,  \* the simulation has stopped with an error
  config,    \* netinf, maxPeersInReply; the hosts there are, those that leave and
             \* those outside the sub-tracker's network; whether a connection of
             \* the sub-tracker fails; bound on the hosts in contact at a time
  table      \* server -> peers_var with the seeds among them (isSeed), those that
             \* have announced since the last cleanup, seeds_var and peersNum_var

----------------------------------------------------------------------------
(* The TCP connections on which hosts announce themselves to trackers: at  *)
(* most one at a time from a client to a server, kept as a record with the *)
(* socket and the timers of both ends and the two streams.  TCP itself is  *)
(* external: streams are reliable and in order and end with a FIN.         *)

net == <<conns, late, failing, simError>>

Peers == Terminals \cup Seeders
Clients == Peers \cup {SubTracker}
Servers == {Tracker, SubTracker}
Slots == (Clients \X {Tracker}) \cup (Terminals \X {SubTracker})

\* cli and srv are the states of the sockets, trans and state those of the
\* handlers of their callbacks, tout and stout their timers evtTout.
Unused == [cli |-> "none", trans |-> FALSE, tout |-> "none", retry |-> FALSE,
           srv |-> "none", state |-> "pending", stout |-> "none",
           out |-> <<>>, in |-> <<>>]

\* The messages between client and server; a peer is the address of a host.
Announce == [t |-> "ANNOUNCE"]
Response(peers) == [t |-> "RESP", peers |-> peers]

\* A new socket and its thread, which has set ctrans; connect() is on its way.
Connecting == [Unused EXCEPT !.cli = "connecting", !.trans = TRUE, !.out = <<[t |-> "SYN"]>>]

InUse(c) == conns[c].cli # "none"
Closable(sock) == sock \in {"connecting", "connected", "peerClosed"}
Shut(sock) == IF sock = "connected" THEN "locallyClosed" ELSE "closed"
ShutByPeer(sock) == IF sock = "connected" THEN "peerClosed" ELSE "closed"

ToServer(c, type) == conns[c].out # <<>> /\ Head(conns[c].out).t = type
ToClient(c, type) == conns[c].in # <<>> /\ Head(conns[c].in).t = type
Set(c, conn) == conns' = [conns EXCEPT ![c] = conn]

\* A step after which the simulation has stopped.
Stops == simError' = TRUE /\ UNCHANGED <<conns, late, failing>>

\* Which timers may expire: those scheduled at once, and those of a session
\* whose other end is late.
Due == IF late < MaxLate THEN {"set", "now"} ELSE {"now"}
CountLate(timer) == late' = IF timer = "set" THEN late + 1 ELSE late

\* close() of a socket: closing one that is not open is an error.
CloseClient(c, conn) ==
  IF Closable(conn.cli)
  THEN /\ Set(c, [conn EXCEPT !.cli = Shut(@), !.tout = "none", !.out = Append(@, [t |-> "FIN"])])
       /\ UNCHANGED simError
  ELSE simError' = TRUE /\ UNCHANGED conns

CloseServer(c, conn) ==
  IF Closable(conn.srv)
  THEN /\ Set(c, [conn EXCEPT !.srv = Shut(@), !.in = Append(@, [t |-> "FIN"])])
       /\ UNCHANGED simError
  ELSE simError' = TRUE /\ UNCHANGED conns

----------------------------------------------------------------------------
(* The table *)

EmptyTable == [peers |-> {}, isSeed |-> {}, recent |-> {}, seeds |-> 0, peersNum |-> 0]
\* contains: the table has an entry of the key of the host.
Known(tab, h) == h \in tab.peers
\* domainContains: the first 16 bits of two addresses are the same.
SameDomain(p, h) == p \in config.far <=> h \in config.far
Least(a, b) == IF a < b THEN a ELSE b

\* Wrong variant: seeds is counted on each announce.
RegisteredEachTime(tab, h) ==
  [peers |-> tab.peers \cup {h}, isSeed |-> tab.isSeed \cup ({h} \cap Seeders),
   recent |-> tab.recent \cup {h},
   seeds |-> IF h \in Seeders THEN tab.seeds + 1 ELSE tab.seeds,
   peersNum |-> IF h \in tab.peers THEN tab.peersNum ELSE tab.peersNum + 1]

\* Wrong variant: a known peer keeps its lastAnnounce.
RegisteredOnce(tab, h) ==
  IF h \in tab.peers THEN tab
  ELSE [peers |-> tab.peers \cup {h}, isSeed |-> tab.isSeed \cup ({h} \cap Seeders),
        recent |-> tab.recent \cup {h},
        seeds |-> IF h \in Seeders THEN tab.seeds + 1 ELSE tab.seeds,
        peersNum |-> tab.peersNum + 1]

\* processAnnounce for A_STARTED: seeds and peersNum count new entries only.
Registered(tab, h) ==
  LET new == IF Known(tab, h) THEN 0 ELSE 1
  IN  [peers |-> tab.peers \cup {h},
       isSeed |-> tab.isSeed \cup ({h} \cap Seeders),
       recent |-> tab.recent \cup {h},
       seeds |-> IF h \in Seeders THEN tab.seeds + new ELSE tab.seeds,
       peersNum |-> tab.peersNum + new]

\* How many peers the answer is to have, and those it may have.
Wanted(tab, h) ==
  IF Cardinality(tab.peers) <= 1 THEN 0
  ELSE Least(IF h \in Seeders THEN tab.peersNum - tab.seeds ELSE tab.peersNum - 1,
             config.maxPeersInReply)

Candidates(tab, h) == (tab.peers \ {h}) \ (IF h \in Seeders THEN tab.isSeed ELSE {})

\* fillPeersInResponse: peers drawn at random until there are enough; with netinf
\* those of another domain count for the number but are left out.
Replies(tab, h) ==
  LET drawn == kSubset(Wanted(tab, h), Candidates(tab, h))
  IN  IF config.netinf
      THEN {{p \in ps : SameDomain(p, h)} : ps \in drawn}
      ELSE drawn

\* Who has not announced for a cleanupInterval leaves the table.
Cleaned(tab) ==
  [peers |-> tab.peers \cap tab.recent, isSeed |-> tab.isSeed \cap tab.recent, recent |-> {},
   seeds |-> tab.seeds - Cardinality(tab.isSeed \ tab.recent),
   peersNum |-> tab.peersNum - Cardinality(tab.peers \ tab.recent)]

----------------------------------------------------------------------------
(* The server side of a session *)

\* A connection is there: the session timer starts.
ServerEstablished(c) ==
  /\ ToServer(c, "SYN")
  /\ Set(c, [conns[c] EXCEPT !.srv = "connected", !.state = "established", !.stout = "set",
                             !.out = Tail(@), !.in = Append(@, [t |-> "ACK"])])
  /\ UNCHANGED <<late, failing, simError>>

\* An announce is answered; sending on a closed socket is an error.
Answer(c, answer) ==
  IF Closable(conns[c].srv)
  THEN /\ Set(c, [conns[c] EXCEPT !.state = "teardown", !.out = Tail(@),
                                  !.in = Append(@, Response(answer))])
       /\ UNCHANGED <<late, failing, simError>>
  ELSE Stops

ServerDataArrived(c) ==
  /\ ToServer(c, "ANNOUNCE")
  /\ LET tab == Registered(table[Tracker], c[1])
     IN  /\ table' = [table EXCEPT ![Tracker] = tab]
         /\ \E ps \in Replies(tab, c[1]) : Answer(c, ps)

\* The client has closed: before the announce the timer is to close, else it is
\* stopped and the socket closed at once.
ServerPeerClosed(c) ==
  /\ ToServer(c, "FIN")
  /\ LET conn == [conns[c] EXCEPT !.srv = ShutByPeer(@), !.out = Tail(@)]
     IN  IF conn.state = "established"
         THEN Set(c, [conn EXCEPT !.stout = "now"]) /\ UNCHANGED simError
         ELSE CloseServer(c, [conn EXCEPT !.stout = "none"])
  /\ UNCHANGED <<late, failing>>

ServerTimerExpired(c) ==
  /\ conns[c].stout \in Due
  /\ CountLate(conns[c].stout)
  /\ CloseServer(c, [conns[c] EXCEPT !.stout = "none"])
  /\ UNCHANGED failing

----------------------------------------------------------------------------
(* The server of the sub-tracker (BTSubTrackerBase): as the tracker's, but *)
(* with a table that knows no seeders by name and answers that leave no    *)
(* domain out.                                                             *)

SubRegistered(tab, h) ==
  [tab EXCEPT !.peers = @ \cup {h}, !.recent = @ \cup {h},
              !.peersNum = IF h \in tab.peers THEN @ ELSE @ + 1]

SubWanted(tab) ==
  IF Cardinality(tab.peers) <= 1 THEN 0 ELSE Least(tab.peersNum - 1, config.maxPeersInReply)

SubReplies(tab, h) == kSubset(SubWanted(tab), tab.peers \ {h})

SubCleaned(tab) ==
  [tab EXCEPT !.peers = @ \cap tab.recent, !.recent = {},
              !.peersNum = @ - Cardinality(tab.peers \ tab.recent)]

SubServerEstablished(c) == c[2] = SubTracker /\ ServerEstablished(c)

SubAnswer(c, tab) == \E ps \in SubReplies(tab, c[1]) : Answer(c, ps)

SubServerDataArrived(c) ==
  /\ c[2] = SubTracker /\ ToServer(c, "ANNOUNCE")
  /\ LET tab == SubRegistered(table[SubTracker], c[1])
     IN  table' = [table EXCEPT ![SubTracker] = tab] /\ SubAnswer(c, tab)

SubServerPeerClosed(c) == c[2] = SubTracker /\ ServerPeerClosed(c)

SubServerTimerExpired(c) == c[2] = SubTracker /\ ServerTimerExpired(c)
=============================================================================
