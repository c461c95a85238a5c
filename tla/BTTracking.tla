----------------------------- MODULE BTTracking -----------------------------
(***************************************************************************)
(* Hosts, sub-tracker and tracker together.                                *)
(***************************************************************************)
EXTENDS BTTrackerClient

vars == <<net, config, table, giveUp, wire, round>>

Init ==
  /\ config \in Configs
  /\ conns = [c \in Slots |-> Unused]
  /\ late = 0
  /\ failing = config.fails
  /\ simError = FALSE
  /\ table = [t \in Servers |-> EmptyTable]
  /\ giveUp = [h \in Clients |-> ConnectGiveUp]
  /\ contact = [h \in Clients |-> IF h \in config.hosts THEN "first" ELSE "none"]
  /\ exiting = [h \in Peers |-> FALSE]
  /\ empties = [h \in Peers |-> 0]
  /\ round = [h \in Clients |-> "idle"]

\* The cleanup timers, of the same interval at both servers.  It is three or four
\* times that of the announces: each host that takes part has announced itself
\* since the last cleanup.
Clean ==
  /\ \E t \in Servers : table[t].peers # {}
  /\ \A h \in Clients :
       /\ contact[h] # "first"
       /\ Announcing(h) /\ (h \in Peers => ~exiting[h]) => round[h] = "done"
  /\ table' = [t \in Servers |-> IF t = Tracker THEN Cleaned(table[t]) ELSE SubCleaned(table[t])]
  /\ round' = [h \in Clients |-> "idle"]
  /\ UNCHANGED <<net, config, giveUp, wire>>

ServerSide(c) ==
  /\ c[2] = Tracker
  /\ \/ ServerEstablished(c) /\ UNCHANGED table
     \/ ServerDataArrived(c)
     \/ ServerPeerClosed(c) /\ UNCHANGED table
     \/ ServerTimerExpired(c) /\ UNCHANGED table

SubServerSide(c) ==
  \/ SubServerEstablished(c) /\ UNCHANGED table
  \/ SubServerDataArrived(c)
  \/ SubServerPeerClosed(c) /\ UNCHANGED table
  \/ SubServerTimerExpired(c) /\ UNCHANGED table

ClientSide(c) ==
  /\ c[1] \in Peers
  /\ \/ Established(c) /\ UNCHANGED <<giveUp, wire, round>>
     \/ DataArrived(c)
     \/ PeerClosed(c) /\ UNCHANGED <<giveUp, wire, round>>
     \/ Reconnect(c) /\ UNCHANGED <<giveUp, wire, round>>
     \/ Removed(c) /\ UNCHANGED <<giveUp, wire, round>>

Session(c) ==
  \/ (ServerSide(c) \/ SubServerSide(c)) /\ UNCHANGED <<config, giveUp, wire, round>>
  \/ ClientSide(c) /\ UNCHANGED <<config, table>>
  \/ TimerExpired(c)
  \/ c = uplink /\ SubSession

Next ==
  /\ ~simError
  /\ \/ \E h \in Peers : Contact(h) \/ Exit(h) \/ ExitSafe(h)
     \/ \E c \in Slots : Session(c)
     \/ SubContact \/ SubFailure
     \/ Clean

\* Messages arrive and timers expire; a download need not end.  The timers of the
\* hosts have one period: none of them is passed over for ever.
Fairness ==
  /\ \A h \in Peers : SF_vars(~simError /\ Contact(h)) /\ WF_vars(~simError /\ ExitSafe(h))
  /\ \A c \in Slots : WF_vars(~simError /\ Session(c))
  /\ SF_vars(~simError /\ SubContact)
  /\ WF_vars(~simError /\ (SubContact \/ SubFailure))
  /\ WF_vars(~simError /\ Clean)

Spec == Init /\ [][Next]_vars
FairSpec == Spec /\ Fairness

----------------------------------------------------------------------------
(* Properties *)

\* The loops that draw peers for an answer end: there are as many candidates as
\* they look for, since seeds and peersNum count the entries of the table.
RepliesEnd ==
  \A t \in Servers : LET tab == table[t] IN
    /\ tab.peersNum = Cardinality(tab.peers)
    /\ tab.seeds = Cardinality(tab.isSeed)
    /\ \A h \in tab.peers :
         Wanted(tab, h) \in 0 .. Cardinality(Candidates(tab, h))

\* No answer comes to a handler that does not expect one, and no socket is closed
\* twice or used after its end.
SessionsClose == ~simError

\* The cleanup removes no peer that still announces itself.
LivingPeersStay ==
  [][\A t \in Servers : \A h \in table[t].peers \ table'[t].peers :
       ~Announcing(h) \/ (h \in Peers /\ exiting[h])]_vars

\* A host that does not exit announces itself again and again, unless a connection
\* of the sub-tracker has failed or its network has no sub-tracker.
AnnouncesGoOn ==
  [](failing = config.fails) =>
    \A h \in Clients : []<>(\/ h \notin Hosts \ config.far
                            \/ h \in Peers /\ exiting[h]
                            \/ Waits(h))

\* A host that exits is forgotten by the trackers in the end.
GonePeersForgotten ==
  \A h \in Peers : <>[](exiting[h] => \A t \in Servers : h \notin table[t].peers)
=============================================================================
