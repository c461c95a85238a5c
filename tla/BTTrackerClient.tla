--------------------------- MODULE BTTrackerClient ---------------------------
(***************************************************************************)
(* A host's client of the trackers (BTTrackerClientBase) and the part of   *)
(* its peer wire that decides when to contact them (BTPeerWireBase).       *)
(***************************************************************************)
EXTENDS BTTracker

CONSTANTS
  ConnectGiveUp,             \* connectGiveUp
  MaxNumEmptyTrackerResponses

ASSUME ClientAssumption ==
  /\ ConnectGiveUp \in Nat \ {0}
  /\ MaxNumEmptyTrackerResponses \in Nat \ {0}

VARIABLES
  giveUp,    \* host -> connectGiveUp_var
  contact,   \* host -> the timer of its next contact: "first", "set" or "none"
  exiting,   \* peer -> its state is EXITING
  empties,   \* peer -> currentNumEmptyTrackerResponses
  round      \* host -> what of a contact took place since the last
             \* cleanup: nothing ("idle"), its start or all ("begun", "done")

wire == <<contact, exiting, empties>>

Hosts == config.hosts

\* Since the last cleanup, h has begun, or ended, a contact.
Began(h) == round' = [round EXCEPT ![h] = IF @ = "idle" THEN "begun" ELSE @]
Ended(h) == round' = [round EXCEPT ![h] = IF @ = "begun" THEN "done" ELSE @]

\* Who takes part in the announcing: a host whose next contact is scheduled or
\* that waits for an answer.
Waits(h) == \E c \in Slots : c[1] = h /\ conns[c].trans /\ Closable(conns[c].cli)
Announcing(h) == contact[h] = "set" \/ Waits(h)

\* Bound: how many hosts are in contact with trackers at a time.
MayStart(h) ==
  LET open == {c \in Slots : InUse(c) /\ conns[c].cli # "error"}
  IN  Cardinality({c[1] : c \in open} \ {h}) < config.maxContacts

----------------------------------------------------------------------------
(* The peer wire *)

\* INTERNAL_TRACKER_COM_MSG: it tells the client to connect, an answer will set
\* the timer again.
TrackerCom(h) == /\ contact[h] # "none"
                 /\ contact' = [contact EXCEPT ![h] = "none"]

\* EVT_CONN: the client connects to the tracker; with netinf the sub-tracker's first session, which
\* starts at time 0, is over by then (5 s).  By the announce interval the sockets
\* of the last contact have been removed.
Contact(h) ==
  /\ h \in Peers
  /\ TrackerCom(h)
  /\ \A c \in Slots : c[1] = h => ~InUse(c)
  /\ MayStart(h)
  /\ config.netinf /\ contact[h] = "first" =>
        SubTracker \in table[Tracker].peers \/ conns[<<SubTracker, Tracker>>].cli = "error"
  /\ Set(<<h, Tracker>>, Connecting)
  /\ Began(h)
  /\ UNCHANGED <<late, failing, simError, config, table, giveUp, exiting, empties>>

\* Wrong variant: an exiting host schedules its next contact too.
AnsweredAlways(h, ps) ==
  /\ contact' = [contact EXCEPT ![h] = "set"]
  /\ empties' = [empties EXCEPT ![h] = IF ps # {} THEN 0 ELSE 1]
  /\ UNCHANGED exiting

\* Wrong variant: an empty answer is ignored.
AnsweredIfAny(h, ps) ==
  /\ contact' = IF exiting[h] \/ ps = {} THEN contact ELSE [contact EXCEPT ![h] = "set"]
  /\ UNCHANGED <<exiting, empties>>

\* An answer.  With too many empty ones a host that has no connections exits.
Answered(h, ps) ==
  IF exiting[h] THEN UNCHANGED wire
  ELSE LET n == IF ps # {} THEN 0 ELSE Least(empties[h] + 1, MaxNumEmptyTrackerResponses)
       IN  /\ empties' = [empties EXCEPT ![h] = n]
           /\ \E connected \in BOOLEAN :
                exiting' = [exiting EXCEPT ![h] = ~connected /\ n = MaxNumEmptyTrackerResponses]
           /\ contact' = [contact EXCEPT ![h] = "set"]

\* INTERNAL_EXIT_MSG after the download, and INTERNAL_EXIT_SAFE_MSG.
Exit(h) ==
  /\ h \in config.leavers /\ empties[h] = 0 /\ contact[h] # "first" /\ ~exiting[h]
  /\ exiting' = [exiting EXCEPT ![h] = TRUE]
  /\ UNCHANGED <<net, config, table, giveUp, contact, empties, round>>

ExitSafe(h) ==
  /\ h \in Peers /\ exiting[h] /\ contact[h] = "set"
  /\ contact' = [contact EXCEPT ![h] = "none"]
  /\ UNCHANGED <<net, config, table, giveUp, exiting, empties, round>>

----------------------------------------------------------------------------
(* The client *)

\* A new connection announces the host and starts the session timer.
Established(c) ==
  /\ ToClient(c, "ACK")
  /\ Set(c, [conns[c] EXCEPT !.cli = "connected", !.tout = "set", !.in = Tail(@),
                             !.out = Append(@, Announce)])
  /\ UNCHANGED <<late, failing, simError>>

\* What the tracker's answer leads to: the peer wire gets it, or with netinf
\* connections to all entries that are not terminals.
SubTrackers(c, ps) == IF config.netinf /\ c[2] = Tracker THEN ps \ Terminals ELSE {}

Passed(c, ps) ==
  IF config.netinf /\ c[2] = Tracker
  THEN UNCHANGED <<wire, round>>
  ELSE /\ Answered(c[1], ps)
       /\ Ended(c[1])

\* An answer that is not expected is an error; else the session ends.
DataArrived(c) ==
  /\ ToClient(c, "RESP")
  /\ LET conn == conns[c]
         ps == Head(conn.in).peers
     IN  IF ~conn.trans \/ ~Closable(conn.cli)
         THEN Stops /\ UNCHANGED <<giveUp, wire, round>>
         ELSE /\ giveUp' = [giveUp EXCEPT ![c[1]] = ConnectGiveUp]
              /\ Passed(c, ps)
              /\ conns' = [d \in Slots |->
                    IF d = c
                    THEN [conn EXCEPT !.trans = FALSE, !.tout = "none", !.cli = Shut(@),
                                      !.in = Tail(@), !.out = Append(@, [t |-> "FIN"])]
                    ELSE IF d[1] = c[1] /\ d[2] \in SubTrackers(c, ps) THEN Connecting
                    ELSE conns[d]]
              /\ UNCHANGED <<late, failing, simError>>

\* The server has closed: with an answer outstanding the session timer is to
\* expire at once.
PeerClosed(c) ==
  /\ ToClient(c, "FIN")
  /\ Set(c, [conns[c] EXCEPT !.cli = ShutByPeer(@), !.in = Tail(@),
                             !.tout = IF conns[c].trans THEN "now" ELSE @])
  /\ UNCHANGED <<late, failing, simError>>

\* EVT_TOUT: what the client does when its session takes too long.
GivesUp(c) ==
  /\ giveUp' = [giveUp EXCEPT ![c[1]] = IF @ = 0 THEN 0 ELSE @ - 1]
  /\ CountLate(conns[c].tout)

TimedOut(c) ==
  [conns[c] EXCEPT !.tout = "deleted", !.trans = FALSE, !.retry = giveUp[c[1]] > 1]

\* The socket is closed unless it is pending: a failed one is closed, an error.
TimerExpired(c) ==
  /\ c[1] \in Peers
  /\ conns[c].tout \in Due
  /\ GivesUp(c)
  /\ IF Closable(conns[c].cli)
     THEN Set(c, TimedOut(c)) /\ UNCHANGED simError
     ELSE CloseClient(c, TimedOut(c))
  /\ UNCHANGED <<failing, config, table, wire, round>>

\* EVT_CONN sets ctrans again, and nothing else.
Reconnect(c) ==
  /\ conns[c].retry
  /\ Set(c, [conns[c] EXCEPT !.retry = FALSE, !.trans = TRUE])
  /\ UNCHANGED <<late, failing, simError>>

\* After twice the maximum segment lifetime the socket is aborted and removed.
Removed(c) ==
  /\ conns[c].cli \in {"locallyClosed", "closed"}
  /\ conns[c].in = <<>> /\ conns[c].out = <<>>
  /\ Set(c, Unused)
  /\ UNCHANGED <<late, failing, simError>>

----------------------------------------------------------------------------
(* The client with which a sub-tracker announces itself to the tracker     *)
(* (BTSubTrackerClientBase): on its own timer, which only an answer sets.  *)

uplink == <<SubTracker, Tracker>>

\* The announce interval is longer than the 5 s after which the peers begin.
SubContact ==
  /\ contact[SubTracker] # "none"
  /\ contact[SubTracker] = "set" => \A h \in Peers : contact[h] # "first"
  /\ ~InUse(uplink)
  /\ MayStart(SubTracker)
  /\ Set(uplink, Connecting)
  /\ contact' = [contact EXCEPT ![SubTracker] = "none"]
  /\ Began(SubTracker)
  /\ UNCHANGED <<late, failing, simError, config, table, giveUp, exiting, empties>>

\* The connection is refused or times out.
SubFailure ==
  /\ failing
  /\ ToServer(uplink, "SYN")
  /\ failing' = FALSE
  /\ Set(uplink, [conns[uplink] EXCEPT !.cli = "error", !.tout = "now", !.out = <<>>])
  /\ UNCHANGED <<late, simError, config, table, giveUp, wire, round>>

\* What the handlers of a host's client do as well: the announce over the new
\* connection, the end of the tracker, another try and the end of the thread.
SubEstablished == Established(uplink)
SubPeerClosed == PeerClosed(uplink)
SubReconnect == Reconnect(uplink)
SubRemoved == Removed(uplink)

\* close(): the session timer is cancelled.
SubClose(conn) == CloseClient(uplink, conn)

\* scheduleTrackerCommunication
Scheduled == contact' = [contact EXCEPT ![SubTracker] = "set"]

SubDataArrived ==
  /\ ToClient(uplink, "RESP")
  /\ LET conn == conns[uplink]
     IN  IF ~conn.trans \/ ~Closable(conn.cli)
         THEN Stops /\ UNCHANGED <<giveUp, contact, round>>
         ELSE /\ giveUp' = [giveUp EXCEPT ![SubTracker] = ConnectGiveUp]
              /\ Scheduled
              /\ Ended(SubTracker)
              /\ SubClose([conn EXCEPT !.trans = FALSE, !.in = Tail(@)])
              /\ UNCHANGED <<late, failing>>
  /\ UNCHANGED <<config, table, exiting, empties>>

\* Wrong variant: the test of the tracker's client.
SubClosesIf(c) == ~Closable(conns[c].cli)

\* Only a socket that is pending is closed.
SubCloses(c) == Closable(conns[c].cli)

SubTimerExpired ==
  /\ conns[uplink].tout \in Due
  /\ GivesUp(uplink)
  /\ IF SubCloses(uplink)
     THEN SubClose(TimedOut(uplink))
     ELSE Set(uplink, TimedOut(uplink)) /\ UNCHANGED simError
  /\ UNCHANGED <<failing, config, table, wire, round>>

SubSession ==
  \/ (SubEstablished \/ SubPeerClosed \/ SubReconnect \/ SubRemoved)
       /\ UNCHANGED <<config, table, giveUp, wire, round>>
  \/ SubDataArrived
  \/ SubTimerExpired
=============================================================================
