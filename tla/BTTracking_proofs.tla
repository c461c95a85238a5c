------------------------- MODULE BTTracking_proofs --------------------------
(***************************************************************************)
(* Proofs about BTTracking: the counters from which the trackers find how  *)
(* many peers to answer with, the sessions, and the cleanup.               *)
(***************************************************************************)
EXTENDS BTTracking, Integers, Sequences, FiniteSets, FiniteSetTheorems,
        SequenceTheorems, TLAPS

(* The tables *)

Tables == [peers : SUBSET Clients, isSeed : SUBSET Clients, recent : SUBSET Clients,
           seeds : Nat, peersNum : Nat]

\* The counters are those of the entries; only the tracker knows who is a seeder,
\* and only terminals announce themselves to the sub-tracker.
Counted(tab) ==
  /\ IsFiniteSet(tab.peers)
  /\ tab.peersNum = Cardinality(tab.peers)
  /\ tab.seeds = Cardinality(tab.isSeed)

TableInv ==
  /\ config \in Configs
  /\ table \in [Servers -> Tables]
  /\ \A t \in Servers : Counted(table[t])
  /\ table[Tracker].isSeed = table[Tracker].peers \cap Seeders
  /\ table[SubTracker].isSeed = {}
  /\ table[SubTracker].peers \subseteq Terminals

----------------------------------------------------------------------------
(* The connections *)

Sockets == {"none", "connecting", "connected", "peerClosed", "locallyClosed", "closed", "error"}
ClientMessages == [t : {"SYN", "ANNOUNCE", "FIN"}]
ServerMessages == [t : {"ACK", "FIN"}] \cup [t : {"RESP"}, peers : SUBSET Clients]

Conns == [cli : Sockets, trans : BOOLEAN, tout : {"none", "set", "now", "deleted"},
          retry : BOOLEAN, srv : Sockets, state : {"pending", "established", "teardown"},
          stout : {"none", "set", "now"}, out : Seq(ClientMessages), in : Seq(ServerMessages)]

\* What a server has sent and got so far shows in the state of its handler: it is
\* pending until the connection is there, and in teardown once it has answered.
NoneOf(q, type) == \A i \in 1 .. Len(q) : q[i].t # type
NoneAfterFirst(q, type) == \A i \in 2 .. Len(q) : q[i].t # type

InState(conn) ==
  /\ conn.cli = "none" => conn = Unused
  /\ NoneAfterFirst(conn.out, "SYN")
  /\ conn.state # "pending" => NoneOf(conn.out, "SYN")
  /\ conn.state # "teardown" => NoneOf(conn.in, "RESP")

ConnInv ==
  /\ conns \in [Slots -> Conns]
  /\ giveUp \in [Clients -> Nat]
  /\ \A c \in Slots : InState(conns[c])

----------------------------------------------------------------------------
(* The rounds of announces between two cleanups *)

\* In a contact that has begun since the last cleanup each server that has answered
\* has seen the host, and the sub-tracker is asked after the tracker.
SeenByServers(h) ==
  /\ round[h] = "begun" =>
       \A c \in Slots : c[1] = h =>
         /\ conns[c].state = "teardown" => h \in table[c[2]].recent
         /\ c[2] = SubTracker /\ InUse(c) => h \in table[Tracker].recent
  /\ round[h] = "done" =>
       \A t \in Servers : h \in table[t].peers => h \in table[t].recent

\* Without netinf nothing is known to a sub-tracker.
NoSubTracker ==
  ~config.netinf =>
    /\ \A c \in Slots : c[2] = SubTracker => ~InUse(c)
    /\ table[SubTracker].peers = {}

RoundInv ==
  /\ round \in [Clients -> {"idle", "begun", "done"}]
  /\ \A h \in Clients : SeenByServers(h)
  /\ NoSubTracker

----------------------------------------------------------------------------
(* The phases of a session that is not found too long *)

At(conn, cli, trans, tout, srv, state, stout) ==
  /\ conn.cli = cli /\ (conn.trans <=> trans) /\ conn.tout = tout /\ ~conn.retry
  /\ conn.srv = srv /\ conn.state = state /\ conn.stout = stout

Carries(conn, out, in) == conn.out = out /\ conn.in = in

Syn == [t |-> "SYN"]
Ack == [t |-> "ACK"]
Fin == [t |-> "FIN"]

Free(conn) ==
  At(conn, "none", FALSE, "none", "none", "pending", "none") /\ Carries(conn, <<>>, <<>>)
Opening(conn) ==
  At(conn, "connecting", TRUE, "none", "none", "pending", "none") /\ Carries(conn, <<Syn>>, <<>>)
Accepted(conn) ==
  At(conn, "connecting", TRUE, "none", "connected", "established", "set") /\ Carries(conn, <<>>, <<Ack>>)
Announced(conn) ==
  At(conn, "connected", TRUE, "set", "connected", "established", "set") /\ Carries(conn, <<Announce>>, <<>>)
Replied(conn) ==
  /\ At(conn, "connected", TRUE, "set", "connected", "teardown", "set")
  /\ conn.out = <<>> /\ conn.in # <<>> /\ Tail(conn.in) = <<>> /\ Head(conn.in).t = "RESP"
Closing(conn) ==
  At(conn, "locallyClosed", FALSE, "none", "connected", "teardown", "set") /\ Carries(conn, <<Fin>>, <<>>)
ServerClosed(conn) ==
  At(conn, "locallyClosed", FALSE, "none", "closed", "teardown", "none") /\ Carries(conn, <<>>, <<Fin>>)
Over(conn) ==
  At(conn, "closed", FALSE, "none", "closed", "teardown", "none") /\ Carries(conn, <<>>, <<>>)

InTime(conn) ==
  \/ Free(conn) \/ Opening(conn) \/ Accepted(conn) \/ Announced(conn) \/ Replied(conn)
  \/ Closing(conn) \/ ServerClosed(conn) \/ Over(conn)

\* A connection of the sub-tracker that has failed: nothing is sent on it.
Failed(conn) ==
  conn.cli = "error" /\ conn.srv = "none" /\ conn.stout = "none" /\ conn.in = <<>> /\ conn.out = <<>>

PhaseInv ==
  /\ ~simError
  /\ late \in Nat
  /\ \A c \in Slots : InTime(conns[c]) \/ (c = uplink /\ Failed(conns[c]))

----------------------------------------------------------------------------
(* The tables: each entry is counted once *)

LEMMA SlotParts ==
  /\ \A c \in Slots : /\ c[1] \in Clients /\ c[2] \in Servers
                      /\ c[2] = SubTracker => c[1] \in Terminals
                      /\ c[1] = SubTracker => c = uplink
  /\ uplink \in Slots
  /\ \A h \in Clients : <<h, Tracker>> \in Slots
  /\ Tracker # SubTracker /\ SubTracker \notin Peers
BY TrackerNetAssumption DEF Slots, Clients, Servers, Peers, uplink

\* An announce at the tracker, and one at the sub-tracker.
TrackerHears(c) ==
  c[2] = Tracker /\ table' = [table EXCEPT ![Tracker] = Registered(table[Tracker], c[1])]

SubTrackerHears(c) ==
  c[2] = SubTracker /\ table' = [table EXCEPT ![SubTracker] = SubRegistered(table[SubTracker], c[1])]

LEMMA TableSteps ==
  ASSUME Next
  PROVE  /\ config' = config
         /\ \/ UNCHANGED table
            \/ \E c \in Slots : TrackerHears(c) \/ SubTrackerHears(c)
            \/ Clean
<1>1. CASE \E h \in Peers : Contact(h) \/ Exit(h) \/ ExitSafe(h)
  BY <1>1 DEF Contact, Exit, ExitSafe
<1>2. ASSUME NEW c \in Slots, Session(c)
      PROVE  config' = config /\ (UNCHANGED table \/ TrackerHears(c) \/ SubTrackerHears(c))
  <2>1. CASE ServerSide(c) /\ UNCHANGED config
    BY <2>1 DEF ServerSide, ServerDataArrived, TrackerHears
  <2>2. CASE SubServerSide(c) /\ UNCHANGED config
    BY <2>2 DEF SubServerSide, SubServerDataArrived, SubTrackerHears
  <2>3. CASE TimerExpired(c)
    BY <2>3 DEF TimerExpired
  <2>4. CASE SubSession
    BY <2>4 DEF SubSession, SubDataArrived, SubTimerExpired
  <2> QED BY <1>2, <2>1, <2>2, <2>3, <2>4 DEF Session
<1>3. CASE SubContact \/ SubFailure
  BY <1>3 DEF SubContact, SubFailure
<1>4. CASE Clean
  BY <1>4 DEF Clean
<1> QED BY <1>1, <1>2, <1>3, <1>4 DEF Next

LEMMA NewEntry ==
  ASSUME NEW S, IsFiniteSet(S), NEW h
  PROVE  /\ IsFiniteSet(S \cup {h})
         /\ Cardinality(S) \in Nat
         /\ Cardinality(S \cup {h}) = IF h \in S THEN Cardinality(S) ELSE Cardinality(S) + 1
BY FS_AddElement, FS_CardinalityType

LEMMA OldEntries ==
  ASSUME NEW S, IsFiniteSet(S), NEW R
  PROVE  /\ IsFiniteSet(S \cap R)
         /\ Cardinality(S \cap R) = Cardinality(S) - Cardinality(S \ R)
         /\ Cardinality(S \cap R) \in Nat
<1>1. IsFiniteSet(S \cap R) /\ IsFiniteSet(S \ R)
  BY FS_Subset, S \cap R \subseteq S, S \ R \subseteq S
<1>2. Cardinality(S \ R) = Cardinality(S) - Cardinality(S \cap R)
  BY FS_Difference
<1> QED BY <1>1, <1>2, FS_CardinalityType

LEMMA RegisteredCounts ==
  ASSUME NEW tab \in Tables, Counted(tab), tab.isSeed = tab.peers \cap Seeders, NEW h \in Clients
  PROVE  LET new == Registered(tab, h)
         IN  new \in Tables /\ Counted(new) /\ new.isSeed = new.peers \cap Seeders
<1> DEFINE seeds == IF h \in Seeders THEN tab.seeds + (IF Known(tab, h) THEN 0 ELSE 1) ELSE tab.seeds
           num == tab.peersNum + (IF Known(tab, h) THEN 0 ELSE 1)
<1>1. /\ IsFiniteSet(tab.peers \cup {h})
      /\ num = Cardinality(tab.peers \cup {h})
      /\ num \in Nat
  BY NewEntry DEF Counted, Known, Tables
<1>2. IsFiniteSet(tab.isSeed)
  BY FS_Subset, tab.isSeed \subseteq tab.peers DEF Counted
<1>3. seeds = Cardinality(tab.isSeed \cup ({h} \cap Seeders)) /\ seeds \in Nat
  <2>1. CASE h \in Seeders
    <3>1. {h} \cap Seeders = {h} /\ (h \in tab.isSeed <=> Known(tab, h))
      BY <2>1 DEF Known
    <3> QED BY <2>1, <3>1, <1>2, NewEntry DEF Counted, Tables
  <2>2. CASE h \notin Seeders
    <3>1. tab.isSeed \cup ({h} \cap Seeders) = tab.isSeed
      BY <2>2
    <3> QED BY <2>2, <3>1 DEF Counted, Tables
  <2> QED BY <2>1, <2>2
<1>4. Registered(tab, h) =
        [peers |-> tab.peers \cup {h}, isSeed |-> tab.isSeed \cup ({h} \cap Seeders),
         recent |-> tab.recent \cup {h}, seeds |-> seeds, peersNum |-> num]
  BY DEF Registered
<1> HIDE DEF seeds, num
<1>5. /\ tab.peers \cup {h} \subseteq Clients
      /\ tab.isSeed \cup ({h} \cap Seeders) \subseteq Clients
      /\ tab.recent \cup {h} \subseteq Clients
  BY DEF Tables
<1>6. Registered(tab, h) \in Tables
  BY <1>1, <1>3, <1>4, <1>5 DEF Tables
<1>7. Counted(Registered(tab, h))
  BY <1>1, <1>3, <1>4 DEF Counted
<1>8. Registered(tab, h).isSeed = Registered(tab, h).peers \cap Seeders
  BY <1>4
<1> QED BY <1>6, <1>7, <1>8

LEMMA CleanedCounts ==
  ASSUME NEW tab \in Tables, Counted(tab), tab.isSeed \subseteq tab.peers
  PROVE  LET new == Cleaned(tab)
         IN  /\ new \in Tables /\ Counted(new)
             /\ new.peers = tab.peers \cap tab.recent
             /\ new.isSeed = tab.isSeed \cap tab.recent
             /\ new.recent = {}
<1>1. IsFiniteSet(tab.isSeed)
  BY FS_Subset DEF Counted
<1> DEFINE seeds == tab.seeds - Cardinality(tab.isSeed \ tab.recent)
           num == tab.peersNum - Cardinality(tab.peers \ tab.recent)
<1>2. /\ IsFiniteSet(tab.peers \cap tab.recent)
      /\ Cardinality(tab.peers \cap tab.recent) = Cardinality(tab.peers) - Cardinality(tab.peers \ tab.recent)
      /\ Cardinality(tab.peers \cap tab.recent) \in Nat
  BY OldEntries DEF Counted
<1>3. /\ IsFiniteSet(tab.isSeed \cap tab.recent)
      /\ Cardinality(tab.isSeed \cap tab.recent) = Cardinality(tab.isSeed) - Cardinality(tab.isSeed \ tab.recent)
      /\ Cardinality(tab.isSeed \cap tab.recent) \in Nat
  BY <1>1, OldEntries
<1>4. num = Cardinality(tab.peers \cap tab.recent) /\ num \in Nat
  BY <1>2 DEF Counted
<1>5. seeds = Cardinality(tab.isSeed \cap tab.recent) /\ seeds \in Nat
  BY <1>3 DEF Counted
<1>6. Cleaned(tab) =
        [peers |-> tab.peers \cap tab.recent, isSeed |-> tab.isSeed \cap tab.recent, recent |-> {},
         seeds |-> seeds, peersNum |-> num]
  BY DEF Cleaned
<1> HIDE DEF seeds, num
<1>7. tab.peers \cap tab.recent \subseteq Clients /\ tab.isSeed \cap tab.recent \subseteq Clients
  BY DEF Tables
<1>8. Cleaned(tab) \in Tables
  BY <1>4, <1>5, <1>6, <1>7 DEF Tables
<1>9. Counted(Cleaned(tab))
  BY <1>2, <1>4, <1>5, <1>6 DEF Counted
<1> QED BY <1>6, <1>8, <1>9

LEMMA SubRegisteredCounts ==
  ASSUME NEW tab \in Tables, Counted(tab), NEW h \in Clients
  PROVE  LET new == SubRegistered(tab, h)
         IN  /\ new \in Tables /\ Counted(new)
             /\ new.peers = tab.peers \cup {h} /\ new.recent = tab.recent \cup {h}
             /\ new.isSeed = tab.isSeed
<1> DEFINE num == IF h \in tab.peers THEN tab.peersNum ELSE tab.peersNum + 1
<1>1. IsFiniteSet(tab.peers \cup {h}) /\ num = Cardinality(tab.peers \cup {h}) /\ num \in Nat
  BY NewEntry DEF Counted, Tables
<1>2. SubRegistered(tab, h) =
        [tab EXCEPT !.peers = tab.peers \cup {h}, !.recent = tab.recent \cup {h}, !.peersNum = num]
  BY DEF SubRegistered
<1> HIDE DEF num
<1>3. tab.peers \cup {h} \subseteq Clients /\ tab.recent \cup {h} \subseteq Clients
  BY DEF Tables
<1>4. /\ SubRegistered(tab, h) \in Tables
      /\ SubRegistered(tab, h).peers = tab.peers \cup {h}
      /\ SubRegistered(tab, h).recent = tab.recent \cup {h}
      /\ SubRegistered(tab, h).isSeed = tab.isSeed
      /\ SubRegistered(tab, h).peersNum = num
      /\ SubRegistered(tab, h).seeds = tab.seeds
  BY <1>1, <1>2, <1>3 DEF Tables
<1> QED BY <1>1, <1>4 DEF Counted

LEMMA SubCleanedCounts ==
  ASSUME NEW tab \in Tables, Counted(tab)
  PROVE  LET new == SubCleaned(tab)
         IN  /\ new \in Tables /\ Counted(new)
             /\ new.peers = tab.peers \cap tab.recent /\ new.recent = {}
             /\ new.isSeed = tab.isSeed
<1> DEFINE num == tab.peersNum - Cardinality(tab.peers \ tab.recent)
<1>1. /\ IsFiniteSet(tab.peers \cap tab.recent)
      /\ Cardinality(tab.peers \cap tab.recent) = Cardinality(tab.peers) - Cardinality(tab.peers \ tab.recent)
      /\ Cardinality(tab.peers \cap tab.recent) \in Nat
  BY OldEntries DEF Counted
<1>2. IsFiniteSet(tab.peers \cap tab.recent) /\ num = Cardinality(tab.peers \cap tab.recent) /\ num \in Nat
  BY <1>1 DEF Counted
<1>3. SubCleaned(tab) =
        [tab EXCEPT !.peers = tab.peers \cap tab.recent, !.recent = {}, !.peersNum = num]
  BY DEF SubCleaned
<1> HIDE DEF num
<1>4. tab.peers \cap tab.recent \subseteq Clients
  BY DEF Tables
<1>5. /\ SubCleaned(tab) \in Tables
      /\ SubCleaned(tab).peers = tab.peers \cap tab.recent
      /\ SubCleaned(tab).recent = {}
      /\ SubCleaned(tab).isSeed = tab.isSeed
      /\ SubCleaned(tab).peersNum = num
      /\ SubCleaned(tab).seeds = tab.seeds
  BY <1>2, <1>3, <1>4 DEF Tables
<1> QED BY <1>2, <1>5 DEF Counted

\* What a cleanup leaves of a table.
LEMMA CleanTables ==
  ASSUME TableInv, Clean
  PROVE  /\ table' \in [Servers -> Tables]
         /\ \A t \in Servers : /\ Counted(table'[t])
                               /\ table'[t].peers = table[t].peers \cap table[t].recent
                               /\ table'[t].recent = {}
         /\ table'[Tracker].isSeed = table[Tracker].isSeed \cap table[Tracker].recent
         /\ table'[SubTracker].isSeed = {}
<1>1. table' = [t \in Servers |-> IF t = Tracker THEN Cleaned(table[t]) ELSE SubCleaned(table[t])]
  BY DEF Clean
<1>2. table[Tracker] \in Tables /\ table[SubTracker] \in Tables /\ Tracker # SubTracker
      /\ Counted(table[Tracker]) /\ Counted(table[SubTracker])
      /\ table[Tracker].isSeed \subseteq table[Tracker].peers
      /\ table[SubTracker].isSeed = {}
  BY TrackerNetAssumption DEF TableInv, Servers
<1>3. table'[Tracker] = Cleaned(table[Tracker]) /\ table'[SubTracker] = SubCleaned(table[SubTracker])
  BY <1>1, <1>2 DEF Servers
<1>4. /\ table'[Tracker] \in Tables /\ Counted(table'[Tracker])
      /\ table'[Tracker].peers = table[Tracker].peers \cap table[Tracker].recent
      /\ table'[Tracker].isSeed = table[Tracker].isSeed \cap table[Tracker].recent
      /\ table'[Tracker].recent = {}
  BY <1>2, <1>3, CleanedCounts
<1>5. /\ table'[SubTracker] \in Tables /\ Counted(table'[SubTracker])
      /\ table'[SubTracker].peers = table[SubTracker].peers \cap table[SubTracker].recent
      /\ table'[SubTracker].isSeed = {}
      /\ table'[SubTracker].recent = {}
  BY <1>2, <1>3, SubCleanedCounts
<1>6. table' \in [Servers -> Tables]
  BY <1>1, <1>3, <1>4, <1>5 DEF Servers
<1> QED BY <1>4, <1>5, <1>6 DEF Servers

LEMMA TableInit == Init => TableInv
<1> SUFFICES ASSUME Init PROVE TableInv
  OBVIOUS
<1>1. EmptyTable \in Tables /\ Counted(EmptyTable)
  BY FS_EmptySet DEF EmptyTable, Tables, Counted
<1>2. EmptyTable.isSeed = {} /\ EmptyTable.peers = {}
  BY DEF EmptyTable
<1> HIDE DEF EmptyTable
<1>3. table = [t \in Servers |-> EmptyTable] /\ config \in Configs
  BY DEF Init
<1> QED BY <1>1, <1>2, <1>3 DEF TableInv, Servers

LEMMA TableKept ==
  ASSUME TableInv, [Next]_vars
  PROVE  TableInv'
<1> USE DEF Servers
<1>0. table[Tracker] \in Tables /\ table[SubTracker] \in Tables /\ Tracker # SubTracker
      /\ Counted(table[Tracker]) /\ Counted(table[SubTracker])
  BY TrackerNetAssumption DEF TableInv
<1>1. CASE UNCHANGED <<config, table>>
  BY <1>1 DEF TableInv
<1>2. ASSUME NEW c \in Slots, TrackerHears(c), UNCHANGED config
      PROVE  TableInv'
  <2>1. c[1] \in Clients
    BY SlotParts
  <2>2. table'[Tracker] = Registered(table[Tracker], c[1]) /\ table'[SubTracker] = table[SubTracker]
    BY <1>0, <1>2 DEF TrackerHears, TableInv
  <2>3. /\ table'[Tracker] \in Tables /\ Counted(table'[Tracker])
        /\ table'[Tracker].isSeed = table'[Tracker].peers \cap Seeders
    BY <1>0, <2>1, <2>2, RegisteredCounts DEF TableInv
  <2>4. table' \in [Servers -> Tables]
    BY <1>0, <1>2, <2>2, <2>3 DEF TrackerHears, TableInv
  <2> QED BY <1>2, <2>2, <2>3, <2>4 DEF TableInv
<1>3. ASSUME NEW c \in Slots, SubTrackerHears(c), UNCHANGED config
      PROVE  TableInv'
  <2>1. c[1] \in Clients /\ c[1] \in Terminals
    BY SlotParts, <1>3 DEF SubTrackerHears
  <2>2. table'[SubTracker] = SubRegistered(table[SubTracker], c[1]) /\ table'[Tracker] = table[Tracker]
    BY <1>0, <1>3 DEF SubTrackerHears, TableInv
  <2>3. /\ table'[SubTracker] \in Tables /\ Counted(table'[SubTracker])
        /\ table'[SubTracker].isSeed = {}
        /\ table'[SubTracker].peers \subseteq Terminals
    BY <1>0, <2>1, <2>2, SubRegisteredCounts DEF TableInv
  <2>4. table' \in [Servers -> Tables]
    BY <1>0, <1>3, <2>2, <2>3 DEF SubTrackerHears, TableInv
  <2> QED BY <1>3, <2>2, <2>3, <2>4 DEF TableInv
<1>4. CASE Clean
  <2>1. config' = config
    BY <1>4 DEF Clean
  <2> QED BY <1>4, <2>1, CleanTables DEF TableInv
<1>5. CASE Next
  BY <1>5, <1>1, <1>2, <1>3, <1>4, TableSteps
<1> QED BY <1>1, <1>5 DEF vars

\* The number of peers that an answer is to have is that of some candidates.
LEMMA EnoughCandidates ==
  ASSUME TableInv
  PROVE  RepliesEnd
<1> SUFFICES ASSUME NEW t \in Servers, NEW h \in table[t].peers
             PROVE  Wanted(table[t], h) \in 0 .. Cardinality(Candidates(table[t], h))
  BY DEF RepliesEnd, TableInv, Counted
<1> DEFINE tab == table[t]
           P == tab.peers
           S == tab.isSeed
<1>1. /\ IsFiniteSet(P) /\ tab.peersNum = Cardinality(P) /\ tab.seeds = Cardinality(S)
      /\ S \subseteq P
      /\ h \in Seeders => h \in S
      /\ h \in P
  BY TrackerNetAssumption DEF TableInv, Counted, Servers
<1>2. config.maxPeersInReply \in Nat
  BY ConfigsAssumption DEF TableInv
<1>3. IsFiniteSet(S) /\ Cardinality(P) \in Nat /\ Cardinality(S) \in Nat
  BY <1>1, FS_Subset, FS_CardinalityType
<1>4. CASE h \in Seeders
  <2>1. Candidates(tab, h) = P \ S
    BY <1>1, <1>4 DEF Candidates
  <2>2. P \cap S = S
    BY <1>1
  <2>3. Cardinality(P \ S) = Cardinality(P) - Cardinality(S)
    <3>1. Cardinality(P \ S) = Cardinality(P) - Cardinality(P \cap S)
      BY <1>1, FS_Difference
    <3> QED BY <2>2, <3>1
  <2>4. IsFiniteSet(P \ S) /\ Cardinality(P \ S) \in Nat
    BY <1>1, FS_Subset, FS_CardinalityType, P \ S \subseteq P
  <2>5. Wanted(tab, h) \in {0, Cardinality(P \ S), config.maxPeersInReply}
        /\ Wanted(tab, h) <= Cardinality(P \ S)
    BY <1>1, <1>2, <1>3, <1>4, <2>3, <2>4 DEF Wanted, Least
  <2> QED BY <1>2, <2>1, <2>4, <2>5
<1>5. CASE h \notin Seeders
  <2>1. Candidates(tab, h) = P \ {h}
    BY <1>5 DEF Candidates
  <2>2. IsFiniteSet(P \ {h}) /\ Cardinality(P \ {h}) = Cardinality(P) - 1
    BY <1>1, FS_RemoveElement
  <2>3. Cardinality(P \ {h}) \in Nat
    BY <2>2, FS_CardinalityType
  <2>4. Wanted(tab, h) \in {0, Cardinality(P \ {h}), config.maxPeersInReply}
        /\ Wanted(tab, h) <= Cardinality(P \ {h})
    BY <1>1, <1>2, <1>3, <1>5, <2>2, <2>3 DEF Wanted, Least
  <2> QED BY <1>2, <2>1, <2>3, <2>4
<1> QED BY <1>4, <1>5

\* The loops of fillPeersInResponse end, whatever the hosts, their number and
\* maxPeersInReply: the trackers count exactly the entries of their tables, so that
\* an answer looks for no more peers than there are to draw.
THEOREM AnswersEnd == Spec => []RepliesEnd
<1>1. Init => TableInv
  BY TableInit
<1>2. TableInv /\ [Next]_vars => TableInv'
  BY TableKept
<1>3. TableInv => RepliesEnd
  BY EnoughCandidates
<1> QED BY <1>1, <1>2, <1>3, PTL DEF Spec

----------------------------------------------------------------------------
(* The connections: an answer is only under way from a server that has     *)
(* seen the announce                                                       *)

LEMMA NoneOfAppended ==
  ASSUME NEW S, NEW q \in Seq(S), NEW m \in S, NEW type
  PROVE  /\ NoneOf(q, type) /\ m.t # type => NoneOf(Append(q, m), type)
         /\ NoneAfterFirst(q, type) /\ m.t # type => NoneAfterFirst(Append(q, m), type)
BY DEF NoneOf, NoneAfterFirst

LEMMA NoneOfTail ==
  ASSUME NEW S, NEW q \in Seq(S), NEW type
  PROVE  /\ q # <<>> /\ NoneOf(q, type) => NoneOf(Tail(q), type) /\ Head(q).t # type
         /\ q # <<>> /\ NoneAfterFirst(q, type) => NoneOf(Tail(q), type)
         /\ NoneOf(q, type) => NoneAfterFirst(q, type)
         /\ NoneOf(<<>>, type)
<1>1. ASSUME q # <<>>
      PROVE  /\ Head(q) = q[1] /\ Len(q) \in Nat \ {0} /\ Len(Tail(q)) = Len(q) - 1
             /\ \A i \in 1 .. Len(Tail(q)) : Tail(q)[i] = q[i + 1]
  BY <1>1
<1>2. CASE q # <<>>
  BY <1>1, <1>2 DEF NoneOf, NoneAfterFirst
<1>3. CASE q = <<>>
  BY <1>3 DEF NoneOf, NoneAfterFirst
<1> QED BY <1>2, <1>3

\* How a step may change the streams and the state of a handler.
OutMoves(old, new) ==
  \/ new.out = old.out
  \/ new.out = <<>>
  \/ old.out # <<>> /\ new.out = Tail(old.out)
  \/ \E m \in ClientMessages : m.t # "SYN" /\ new.out = Append(old.out, m)

InMoves(old, new) ==
  \/ new.in = old.in
  \/ old.in # <<>> /\ new.in = Tail(old.in)
  \/ \E m \in ServerMessages : (m.t = "RESP" => new.state = "teardown") /\ new.in = Append(old.in, m)

StateMoves(old, new) ==
  \/ new.state = old.state
  \/ /\ old.out # <<>> /\ new.out = Tail(old.out)
     /\ new.state = "teardown" \/ (Head(old.out).t = "SYN" /\ new.state = "established")

LEMMA InStateKept ==
  ASSUME NEW old \in Conns, InState(old), NEW new \in Conns, new.cli # "none",
         OutMoves(old, new), InMoves(old, new), StateMoves(old, new)
  PROVE  InState(new)
<1>1. old.out \in Seq(ClientMessages) /\ old.in \in Seq(ServerMessages)
  BY DEF Conns
<1>2. /\ NoneAfterFirst(new.out, "SYN")
      /\ NoneOf(old.out, "SYN") => NoneOf(new.out, "SYN")
      /\ old.out # <<>> /\ new.out = Tail(old.out) => NoneOf(new.out, "SYN")
  <2>1. NoneAfterFirst(old.out, "SYN")
    BY DEF InState
  <2>2. ASSUME old.out # <<>>, new.out = Tail(old.out) PROVE NoneOf(new.out, "SYN") /\ NoneAfterFirst(new.out, "SYN")
    <3>1. NoneOf(new.out, "SYN")
      BY <1>1, <2>1, <2>2, NoneOfTail
    <3> QED BY <3>1 DEF NoneOf, NoneAfterFirst
  <2>3. ASSUME NEW m \in ClientMessages, m.t # "SYN", new.out = Append(old.out, m)
        PROVE  NoneAfterFirst(new.out, "SYN") /\ (NoneOf(old.out, "SYN") => NoneOf(new.out, "SYN"))
    BY <1>1, <2>1, <2>3, NoneOfAppended
  <2>4. ASSUME new.out = <<>> PROVE NoneOf(new.out, "SYN") /\ NoneAfterFirst(new.out, "SYN")
    BY <2>4 DEF NoneOf, NoneAfterFirst
  <2> QED BY <2>1, <2>2, <2>3, <2>4 DEF OutMoves
<1>3. ASSUME new.state # "pending" PROVE NoneOf(new.out, "SYN")
  BY <1>2, <1>3 DEF StateMoves, InState
<1>4. ASSUME new.state # "teardown" PROVE NoneOf(new.in, "RESP")
  <2>1. old.state # "teardown"
    <3>1. CASE new.state = old.state
      BY <1>4, <3>1
    <3>2. CASE old.out # <<>> /\ Head(old.out).t = "SYN"
      <4>1. ~NoneOf(old.out, "SYN")
        BY <1>1, <3>2, NoneOfTail
      <4> QED BY <4>1 DEF InState
    <3> QED BY <1>4, <3>1, <3>2 DEF StateMoves
  <2>2. NoneOf(old.in, "RESP")
    BY <2>1 DEF InState
  <2>3. ASSUME old.in # <<>>, new.in = Tail(old.in) PROVE NoneOf(new.in, "RESP")
    BY <1>1, <2>2, <2>3, NoneOfTail
  <2>4. ASSUME NEW m \in ServerMessages, m.t # "RESP", new.in = Append(old.in, m)
        PROVE  NoneOf(new.in, "RESP")
    BY <1>1, <2>2, <2>4, NoneOfAppended
  <2> QED BY <1>4, <2>2, <2>3, <2>4 DEF InMoves
<1> QED BY <1>2, <1>3, <1>4 DEF InState

\* What ConnInv says of the connections after a step.
ConnsKept == conns' \in [Slots -> Conns] /\ \A d \in Slots : InState(conns'[d])

LEMMA SetKeeps ==
  ASSUME ConnInv, NEW c \in Slots, NEW new \in Conns, InState(new), Set(c, new)
  PROVE  ConnsKept
<1>1. conns' = [conns EXCEPT ![c] = new] /\ conns \in [Slots -> Conns]
  BY DEF Set, ConnInv
<1> HIDE DEF Conns, Slots
<1>2. conns' \in [Slots -> Conns]
  BY <1>1
<1>3. \A d \in Slots : conns'[d] = IF d = c THEN new ELSE conns[d]
  BY <1>1
<1> QED BY <1>2, <1>3 DEF ConnsKept, ConnInv

LEMMA UnusedIsConn == /\ Unused \in Conns /\ InState(Unused)
                      /\ Unused.cli = "none" /\ Unused.state = "pending" /\ Unused.in = <<>>
BY DEF Unused, Conns, Sockets, InState, NoneOf, NoneAfterFirst

LEMMA ConnectingIsConn == /\ Connecting \in Conns /\ InState(Connecting)
                          /\ Connecting.cli = "connecting" /\ Connecting.state = "pending"
<1> DEFINE syn == <<[t |-> "SYN"]>>
<1>1. syn \in Seq(ClientMessages) /\ Len(syn) = 1
  BY DEF ClientMessages
<1>2. Connecting = [Unused EXCEPT !.cli = "connecting", !.trans = TRUE, !.out = syn]
  BY DEF Connecting
<1> HIDE DEF syn
<1>3. /\ Connecting \in Conns
      /\ Connecting.cli = "connecting" /\ Connecting.state = "pending"
      /\ Connecting.out = syn /\ Connecting.in = <<>>
  BY <1>1, <1>2, UnusedIsConn DEF Conns, Sockets
<1> QED BY <1>1, <1>3 DEF InState, NoneOf, NoneAfterFirst

\* A slot in which anything happens but a new connection is in use.
LEMMA BusyIsUsed ==
  ASSUME ConnInv, NEW c \in Slots,
         \/ conns[c].out # <<>> \/ conns[c].in # <<>> \/ conns[c].retry
         \/ conns[c].tout # "none" \/ conns[c].stout # "none"
  PROVE  conns[c] \in Conns /\ InState(conns[c]) /\ conns[c].cli # "none"
BY DEF ConnInv, InState, Unused

LEMMA SocketClosed ==
  \A sock \in Sockets : /\ Closable(sock) => Shut(sock) \in Sockets \ {"none"}
                        /\ ShutByPeer(sock) \in Sockets \ {"none"}
BY DEF Sockets, Closable, Shut, ShutByPeer

LEMMA CloseClientKeeps ==
  ASSUME ConnInv, NEW c \in Slots, NEW conn \in Conns, InState(conn), CloseClient(c, conn)
  PROVE  ConnsKept
<1>1. CASE Closable(conn.cli)
  <2> DEFINE o == Append(conn.out, [t |-> "FIN"])
             s == Shut(conn.cli)
             new == [conn EXCEPT !.cli = s, !.tout = "none", !.out = o]
  <2>1. Set(c, new)
    BY <1>1 DEF CloseClient
  <2>2. o \in Seq(ClientMessages) /\ s \in Sockets \ {"none"}
    BY <1>1, SocketClosed DEF Conns, ClientMessages
  <2>3. \E m \in ClientMessages : m.t # "SYN" /\ o = Append(conn.out, m)
    BY DEF ClientMessages
  <2> HIDE DEF o, s
  <2>4. new \in Conns /\ new.cli # "none" /\ new.out = o /\ new.in = conn.in /\ new.state = conn.state
    BY <2>2 DEF Conns
  <2> HIDE DEF new
  <2>5. InState(new)
    BY <2>3, <2>4, InStateKept DEF OutMoves, InMoves, StateMoves
  <2> QED BY <2>1, <2>4, <2>5, SetKeeps
<1>2. CASE ~Closable(conn.cli)
  BY <1>2 DEF CloseClient, ConnInv, ConnsKept
<1> QED BY <1>1, <1>2

LEMMA CloseServerKeeps ==
  ASSUME ConnInv, NEW c \in Slots, NEW conn \in Conns, InState(conn), CloseServer(c, conn)
  PROVE  ConnsKept
<1>1. CASE Closable(conn.srv)
  <2> DEFINE i == Append(conn.in, [t |-> "FIN"])
             s == Shut(conn.srv)
             new == [conn EXCEPT !.srv = s, !.in = i]
  <2>1. Set(c, new)
    BY <1>1 DEF CloseServer
  <2>2. i \in Seq(ServerMessages) /\ s \in Sockets \ {"none"}
    BY <1>1, SocketClosed DEF Conns, ServerMessages
  <2>3. \E m \in ServerMessages : m.t # "RESP" /\ i = Append(conn.in, m)
    BY DEF ServerMessages
  <2>4. conn.cli # "none"
    BY <1>1 DEF InState, Unused, Closable
  <2> HIDE DEF i, s
  <2>5. new \in Conns /\ new.cli # "none" /\ new.in = i /\ new.out = conn.out /\ new.state = conn.state
    BY <2>2, <2>4 DEF Conns
  <2> HIDE DEF new
  <2>6. InState(new)
    BY <2>3, <2>5, InStateKept DEF OutMoves, InMoves, StateMoves
  <2> QED BY <2>1, <2>5, <2>6, SetKeeps
<1>2. CASE ~Closable(conn.srv)
  BY <1>2 DEF CloseServer, ConnInv, ConnsKept
<1> QED BY <1>1, <1>2

LEMMA ServerSteps ==
  ASSUME ConnInv, NEW c \in Slots, NEW answer \in SUBSET Clients,
         \/ ServerEstablished(c) \/ ServerPeerClosed(c) \/ ServerTimerExpired(c)
         \/ ToServer(c, "ANNOUNCE") /\ Answer(c, answer)
  PROVE  ConnsKept
<1> DEFINE old == conns[c]
<1>1. old \in Conns /\ InState(old)
  BY DEF ConnInv
<1>2. CASE ServerEstablished(c)
  <2> DEFINE o == Tail(old.out)
             i == Append(old.in, [t |-> "ACK"])
             new == [old EXCEPT !.srv = "connected", !.state = "established", !.stout = "set",
                                !.out = o, !.in = i]
  <2>1. Set(c, new) /\ old.out # <<>> /\ Head(old.out).t = "SYN"
    BY <1>2 DEF ServerEstablished, ToServer
  <2>2. o \in Seq(ClientMessages) /\ i \in Seq(ServerMessages)
    BY <1>1, <2>1 DEF Conns, ServerMessages
  <2>3. \E m \in ServerMessages : m.t # "RESP" /\ i = Append(old.in, m)
    BY DEF ServerMessages
  <2>4. old.cli # "none"
    BY <2>1, BusyIsUsed
  <2>5. o = Tail(old.out)
    OBVIOUS
  <2> HIDE DEF o, i, old
  <2>6. new \in Conns /\ new.cli # "none" /\ new.in = i /\ new.out = o /\ new.state = "established"
    BY <1>1, <2>2, <2>4 DEF Conns, Sockets
  <2> HIDE DEF new
  <2>7. InState(new)
    BY <1>1, <2>1, <2>3, <2>5, <2>6, InStateKept DEF OutMoves, InMoves, StateMoves
  <2> QED BY <2>1, <2>6, <2>7, SetKeeps
<1>3. CASE ServerPeerClosed(c)
  <2> DEFINE o == Tail(old.out)
             s == ShutByPeer(old.srv)
             conn == [old EXCEPT !.srv = s, !.out = o]
  <2>1. old.out # <<>>
    BY <1>3 DEF ServerPeerClosed, ToServer
  <2>2. o \in Seq(ClientMessages) /\ s \in Sockets
    BY <1>1, <2>1, SocketClosed DEF Conns
  <2>3. old.cli # "none"
    BY <2>1, BusyIsUsed
  <2>4. \/ Set(c, [conn EXCEPT !.stout = "now"])
        \/ CloseServer(c, [conn EXCEPT !.stout = "none"])
    BY <1>3 DEF ServerPeerClosed
  <2>5. o = Tail(old.out)
    OBVIOUS
  <2> HIDE DEF o, s, old
  <2>6. \A x \in {"now", "none"} : LET new == [conn EXCEPT !.stout = x] IN
          new \in Conns /\ new.cli # "none" /\ new.in = old.in /\ new.out = o /\ new.state = old.state
    BY <1>1, <2>2, <2>3 DEF Conns, Sockets
  <2> HIDE DEF conn
  <2>7. \A x \in {"now", "none"} : InState([conn EXCEPT !.stout = x])
    BY <1>1, <2>1, <2>5, <2>6, InStateKept DEF OutMoves, InMoves, StateMoves
  <2> QED BY <2>4, <2>6, <2>7, SetKeeps, CloseServerKeeps
<1>4. CASE ServerTimerExpired(c)
  <2> DEFINE conn == [old EXCEPT !.stout = "none"]
  <2>1. CloseServer(c, conn) /\ old.cli # "none"
    BY <1>4, BusyIsUsed DEF ServerTimerExpired, Due
  <2> HIDE DEF old
  <2>2. conn \in Conns /\ conn.cli # "none" /\ conn.in = old.in /\ conn.out = old.out
        /\ conn.state = old.state
    BY <1>1, <2>1 DEF Conns
  <2> HIDE DEF conn
  <2>3. InState(conn)
    BY <1>1, <2>2, InStateKept DEF OutMoves, InMoves, StateMoves
  <2> QED BY <2>1, <2>2, <2>3, CloseServerKeeps
<1>5. CASE ToServer(c, "ANNOUNCE") /\ Answer(c, answer) /\ Closable(old.srv)
  <2> DEFINE o == Tail(old.out)
             i == Append(old.in, Response(answer))
             new == [old EXCEPT !.state = "teardown", !.out = o, !.in = i]
  <2>1. Set(c, new) /\ old.out # <<>>
    BY <1>5 DEF Answer, ToServer
  <2>2. o \in Seq(ClientMessages) /\ i \in Seq(ServerMessages)
    BY <1>1, <2>1 DEF Conns, ServerMessages, Response
  <2>3. \E m \in ServerMessages : i = Append(old.in, m)
    BY DEF ServerMessages, Response
  <2>4. old.cli # "none"
    BY <2>1, BusyIsUsed
  <2>5. o = Tail(old.out)
    OBVIOUS
  <2> HIDE DEF o, i, old
  <2>6. new \in Conns /\ new.cli # "none" /\ new.in = i /\ new.out = o /\ new.state = "teardown"
    BY <1>1, <2>2, <2>4 DEF Conns
  <2> HIDE DEF new
  <2>7. InState(new)
    BY <1>1, <2>1, <2>3, <2>5, <2>6, InStateKept DEF OutMoves, InMoves, StateMoves
  <2> QED BY <2>1, <2>6, <2>7, SetKeeps
<1>6. CASE Answer(c, answer) /\ ~Closable(old.srv)
  BY <1>6 DEF Answer, Stops, ConnInv, ConnsKept
<1> QED BY <1>2, <1>3, <1>4, <1>5, <1>6

LEMMA ClientSteps ==
  ASSUME ConnInv, NEW c \in Slots,
         \/ Established(c) \/ PeerClosed(c) \/ Reconnect(c) \/ Removed(c)
         \/ TimerExpired(c) \/ (c = uplink /\ SubTimerExpired)
  PROVE  ConnsKept
<1> DEFINE old == conns[c]
<1>1. old \in Conns /\ InState(old)
  BY DEF ConnInv
<1>2. CASE Established(c)
  <2> DEFINE i == Tail(old.in)
             o == Append(old.out, Announce)
             new == [old EXCEPT !.cli = "connected", !.tout = "set", !.in = i, !.out = o]
  <2>1. Set(c, new) /\ old.in # <<>>
    BY <1>2 DEF Established, ToClient
  <2>2. i \in Seq(ServerMessages) /\ o \in Seq(ClientMessages)
    BY <1>1, <2>1 DEF Conns, ClientMessages, Announce
  <2>3. i = Tail(old.in) /\ \E m \in ClientMessages : m.t # "SYN" /\ o = Append(old.out, m)
    BY DEF ClientMessages, Announce
  <2> HIDE DEF o, i, old
  <2>4. new \in Conns /\ new.cli # "none" /\ new.in = i /\ new.out = o /\ new.state = old.state
    BY <1>1, <2>2 DEF Conns, Sockets
  <2> HIDE DEF new
  <2>5. InState(new)
    BY <1>1, <2>1, <2>3, <2>4, InStateKept DEF OutMoves, InMoves, StateMoves
  <2> QED BY <2>1, <2>4, <2>5, SetKeeps
<1>3. CASE PeerClosed(c)
  <2> DEFINE i == Tail(old.in)
             s == ShutByPeer(old.cli)
             tout == IF old.trans THEN "now" ELSE old.tout
             new == [old EXCEPT !.cli = s, !.in = i, !.tout = tout]
  <2>1. Set(c, new) /\ old.in # <<>>
    BY <1>3 DEF PeerClosed, ToClient
  <2>2. i \in Seq(ServerMessages) /\ s \in Sockets \ {"none"}
        /\ tout \in {"none", "set", "now", "deleted"}
    BY <1>1, <2>1, SocketClosed DEF Conns
  <2>3. i = Tail(old.in)
    OBVIOUS
  <2> HIDE DEF i, s, tout, old
  <2>4. new \in Conns /\ new.cli # "none" /\ new.in = i /\ new.out = old.out /\ new.state = old.state
    BY <1>1, <2>2 DEF Conns
  <2> HIDE DEF new
  <2>5. InState(new)
    BY <1>1, <2>1, <2>3, <2>4, InStateKept DEF OutMoves, InMoves, StateMoves
  <2> QED BY <2>1, <2>4, <2>5, SetKeeps
<1>4. CASE Reconnect(c)
  <2> DEFINE new == [old EXCEPT !.retry = FALSE, !.trans = TRUE]
  <2>1. Set(c, new) /\ old.cli # "none"
    BY <1>4, BusyIsUsed DEF Reconnect
  <2> HIDE DEF old
  <2>2. new \in Conns /\ new.cli # "none" /\ new.in = old.in /\ new.out = old.out /\ new.state = old.state
    BY <1>1, <2>1 DEF Conns
  <2> HIDE DEF new
  <2>3. InState(new)
    BY <1>1, <2>2, InStateKept DEF OutMoves, InMoves, StateMoves
  <2> QED BY <2>1, <2>2, <2>3, SetKeeps
<1>5. CASE Removed(c)
  BY <1>5, UnusedIsConn, SetKeeps DEF Removed
<1>6. CASE TimerExpired(c) \/ (c = uplink /\ SubTimerExpired)
  <2> DEFINE r == giveUp[c[1]] > 1
             new == TimedOut(c)
  <2>1. Set(c, new) \/ CloseClient(c, new)
    BY <1>6 DEF TimerExpired, SubTimerExpired, SubClose
  <2>2. old.cli # "none"
    BY <1>6, BusyIsUsed DEF TimerExpired, SubTimerExpired, Due
  <2>3. r \in BOOLEAN
    BY SlotParts DEF ConnInv
  <2>4. new = [old EXCEPT !.tout = "deleted", !.trans = FALSE, !.retry = r]
    BY DEF TimedOut
  <2> HIDE DEF new, old, r
  <2>5. new \in Conns /\ new.cli # "none" /\ new.in = old.in /\ new.out = old.out /\ new.state = old.state
    BY <1>1, <2>2, <2>3, <2>4 DEF Conns
  <2>6. InState(new)
    BY <1>1, <2>5, InStateKept DEF OutMoves, InMoves, StateMoves
  <2> QED BY <2>1, <2>5, <2>6, SetKeeps, CloseClientKeeps
<1> QED BY <1>2, <1>3, <1>4, <1>5, <1>6

\* An answer ends the session, and with netinf begins others.
LEMMA AnswerStep ==
  ASSUME ConnInv, NEW c \in Slots, DataArrived(c) \/ (c = uplink /\ SubDataArrived)
  PROVE  ConnsKept
<1> DEFINE old == conns[c]
<1>1. old \in Conns /\ InState(old)
  BY DEF ConnInv
<1>2. old.in # <<>> /\ old.cli # "none"
  BY BusyIsUsed DEF DataArrived, SubDataArrived, ToClient
<1>3. CASE old.trans /\ Closable(old.cli) /\ DataArrived(c)
  <2> DEFINE i == Tail(old.in)
             o == Append(old.out, [t |-> "FIN"])
             s == Shut(old.cli)
             new == [old EXCEPT !.trans = FALSE, !.tout = "none", !.cli = s, !.in = i, !.out = o]
  <2>1. conns' = [d \in Slots |->
                    IF d = c THEN new
                    ELSE IF d[1] = c[1] /\ d[2] \in SubTrackers(c, Head(old.in).peers) THEN Connecting
                    ELSE conns[d]]
    BY <1>3 DEF DataArrived
  <2>2. i \in Seq(ServerMessages) /\ o \in Seq(ClientMessages) /\ s \in Sockets \ {"none"}
    BY <1>1, <1>2, <1>3, SocketClosed DEF Conns, ClientMessages
  <2>3. i = Tail(old.in) /\ \E m \in ClientMessages : m.t # "SYN" /\ o = Append(old.out, m)
    BY DEF ClientMessages
  <2> HIDE DEF i, s, o
  <2>4. new \in Conns /\ new.cli # "none" /\ new.in = i /\ new.out = o /\ new.state = old.state
    <3> HIDE DEF old
    <3> QED BY <1>1, <2>2 DEF Conns, Sockets
  <2> HIDE DEF new
  <2>5. InState(new)
    BY <1>1, <1>2, <2>3, <2>4, InStateKept DEF OutMoves, InMoves, StateMoves
  <2>6. \A d \in Slots : conns'[d] \in {new, Connecting, conns[d]}
    BY <2>1
  <2>7. DOMAIN conns' = Slots /\ conns' = [d \in Slots |-> conns'[d]]
    BY <2>1
  <2>8. \A d \in Slots : conns'[d] \in Conns /\ InState(conns'[d])
    BY <2>4, <2>5, <2>6, ConnectingIsConn DEF ConnInv
  <2> QED BY <2>7, <2>8 DEF ConnsKept
<1>4. CASE old.trans /\ Closable(old.cli) /\ SubDataArrived /\ c = uplink
  <2> DEFINE i == Tail(old.in)
             conn == [old EXCEPT !.trans = FALSE, !.in = i]
  <2>1. CloseClient(c, conn)
    BY <1>4 DEF SubDataArrived, SubClose
  <2>2. i \in Seq(ServerMessages) /\ i = Tail(old.in)
    BY <1>1, <1>2 DEF Conns
  <2> HIDE DEF i, old
  <2>3. conn \in Conns /\ conn.cli # "none" /\ conn.in = i /\ conn.out = old.out /\ conn.state = old.state
    BY <1>1, <1>2, <2>2 DEF Conns
  <2> HIDE DEF conn
  <2>4. InState(conn)
    BY <1>1, <1>2, <2>2, <2>3, InStateKept DEF OutMoves, InMoves, StateMoves
  <2> QED BY <2>1, <2>3, <2>4, CloseClientKeeps
<1>5. CASE ~old.trans \/ ~Closable(old.cli)
  <2>1. UNCHANGED conns
    BY <1>5 DEF DataArrived, SubDataArrived, Stops
  <2> QED BY <2>1 DEF ConnInv, ConnsKept
<1> QED BY <1>3, <1>4, <1>5

LEMMA FailureStep == ConnInv /\ SubFailure => ConnsKept
<1> SUFFICES ASSUME ConnInv, SubFailure PROVE ConnsKept
  OBVIOUS
<1> DEFINE old == conns[uplink]
           new == [old EXCEPT !.cli = "error", !.tout = "now", !.out = <<>>]
<1>1. Set(uplink, new) /\ uplink \in Slots
  BY SlotParts DEF SubFailure
<1>2. old \in Conns /\ InState(old)
  BY SlotParts DEF ConnInv
<1> HIDE DEF old
<1>3. <<>> \in Seq(ClientMessages)
  OBVIOUS
<1>4. new \in Conns /\ new.cli # "none" /\ new.in = old.in /\ new.out = <<>> /\ new.state = old.state
  BY <1>2, <1>3 DEF Conns, Sockets
<1> HIDE DEF new
<1>5. InState(new)
  BY <1>2, <1>4, InStateKept DEF OutMoves, InMoves, StateMoves
<1> QED BY <1>1, <1>4, <1>5, SetKeeps

LEMMA ConnInit == Init => ConnInv
<1> SUFFICES ASSUME Init PROVE ConnInv
  OBVIOUS
<1>1. conns = [c \in Slots |-> Unused] /\ giveUp = [h \in Clients |-> ConnectGiveUp]
  BY DEF Init
<1> HIDE DEF Unused, Conns, InState
<1> QED BY <1>1, UnusedIsConn, ClientAssumption DEF ConnInv

\* Only peers of the tables are in answers.
LEMMA AnswersAreClients ==
  ASSUME TableInv, NEW c \in Slots
  PROVE  /\ Replies(Registered(table[Tracker], c[1]), c[1]) \subseteq SUBSET Clients
         /\ c[2] = SubTracker =>
              SubReplies(SubRegistered(table[SubTracker], c[1]), c[1]) \subseteq SUBSET Clients
<1>1. c[1] \in Clients /\ table[Tracker] \in Tables /\ table[SubTracker] \in Tables
      /\ Counted(table[Tracker]) /\ Counted(table[SubTracker])
      /\ table[Tracker].isSeed = table[Tracker].peers \cap Seeders
  BY SlotParts DEF TableInv, Servers
<1>2. Registered(table[Tracker], c[1]).peers \subseteq Clients
  BY <1>1, RegisteredCounts DEF Tables
<1>3. SubRegistered(table[SubTracker], c[1]).peers \subseteq Clients
  BY <1>1, SubRegisteredCounts DEF Tables
<1> QED BY <1>2, <1>3 DEF Replies, SubReplies, kSubset, Candidates

LEMMA ConnKept ==
  ASSUME TableInv, ConnInv, [Next]_vars
  PROVE  ConnInv'
<1>1. giveUp' \in [Clients -> Nat]
  <2>1. ASSUME NEW c \in Slots, Session(c) PROVE giveUp' \in [Clients -> Nat]
    <3> DEFINE g == IF giveUp[c[1]] = 0 THEN 0 ELSE giveUp[c[1]] - 1
    <3>1. c[1] \in Clients /\ giveUp \in [Clients -> Nat] /\ ConnectGiveUp \in Nat /\ g \in Nat
      BY SlotParts, ClientAssumption DEF ConnInv
    <3> HIDE DEF g
    <3>2. ASSUME c = uplink PROVE c[1] = SubTracker
      BY <3>2 DEF uplink
    <3>3. UNCHANGED giveUp \/ giveUp' = [giveUp EXCEPT ![c[1]] = ConnectGiveUp]
          \/ giveUp' = [giveUp EXCEPT ![c[1]] = g]
      BY <2>1, <3>2 DEF Session, ServerSide, SubServerSide, ClientSide, DataArrived, TimerExpired,
           SubSession, SubDataArrived, SubTimerExpired, GivesUp, g
    <3> QED BY <3>1, <3>3
  <2>2. CASE UNCHANGED vars
    BY <2>2 DEF vars, ConnInv
  <2> QED BY <2>1, <2>2 DEF Next, Contact, Exit, ExitSafe, SubContact, SubFailure, Clean, ConnInv
<1>2. CASE UNCHANGED conns
  BY <1>1, <1>2 DEF ConnInv
<1>3. ASSUME NEW c \in Slots, Set(c, Connecting) PROVE ConnInv'
  BY <1>1, <1>3, ConnectingIsConn, SetKeeps DEF ConnsKept, ConnInv
<1>4. ASSUME NEW c \in Slots, Session(c) PROVE ConnsKept
  <2>1. CASE ServerDataArrived(c)
    BY <2>1, ServerSteps, AnswersAreClients DEF ServerDataArrived
  <2>2. CASE SubServerDataArrived(c)
    BY <2>2, ServerSteps, AnswersAreClients DEF SubServerDataArrived, SubAnswer
  <2>3. CASE ServerEstablished(c) \/ ServerPeerClosed(c) \/ ServerTimerExpired(c)
    <3>1. {} \in SUBSET Clients
      OBVIOUS
    <3> QED BY <2>3, <3>1, ServerSteps
  <2>4. CASE Established(c) \/ PeerClosed(c) \/ Reconnect(c) \/ Removed(c) \/ TimerExpired(c)
             \/ (c = uplink /\ SubTimerExpired)
    BY <2>4, ClientSteps
  <2>5. CASE DataArrived(c) \/ (c = uplink /\ SubDataArrived)
    BY <2>5, AnswerStep
  <2> QED BY <1>4, <2>1, <2>2, <2>3, <2>4, <2>5
          DEF Session, ServerSide, SubServerSide, ClientSide, SubServerEstablished, SubServerPeerClosed,
              SubServerTimerExpired, SubSession, SubEstablished, SubPeerClosed, SubReconnect, SubRemoved
<1>5. CASE SubFailure
  BY <1>1, <1>5, FailureStep DEF ConnsKept, ConnInv
<1>6. ASSUME NEW h \in Peers, Contact(h) PROVE ConnInv'
  <2>1. <<h, Tracker>> \in Slots
    BY SlotParts DEF Clients
  <2> QED BY <1>3, <1>6, <2>1 DEF Contact
<1>7. CASE SubContact
  BY <1>3, <1>7, SlotParts DEF SubContact
<1>8. CASE (\E h \in Peers : Exit(h) \/ ExitSafe(h)) \/ Clean
  BY <1>2, <1>8 DEF Exit, ExitSafe, Clean, net
<1>9. CASE UNCHANGED vars
  BY <1>2, <1>9 DEF vars, net
<1> QED BY <1>1, <1>4, <1>5, <1>6, <1>7, <1>8, <1>9 DEF Next, ConnsKept, ConnInv

----------------------------------------------------------------------------
(* The rounds: the cleanup finds every host that still announces itself in *)
(* the recent announces                                                    *)

TableGrows ==
  \A t \in Servers : /\ table[t].recent \subseteq table'[t].recent
                     /\ table'[t].peers \ table[t].peers \subseteq table'[t].recent

\* A step of one session, in which no connection begins.
Moves(c) ==
  /\ InUse(c)
  /\ \A d \in Slots \ {c} : conns'[d] = conns[d]
  /\ conns'[c].state = "teardown" =>
       conns[c].state = "teardown" \/ c[1] \in table'[c[2]].recent

LEMMA QuietRound ==
  ASSUME RoundInv, NEW c \in Slots, Moves(c), TableGrows, UNCHANGED <<round, config>>,
         ~config.netinf => table'[SubTracker].peers = {}
  PROVE  RoundInv'
<1>1. \A d \in Slots : /\ InUse(d)' => InUse(d)
                       /\ conns'[d].state = "teardown" =>
                            conns[d].state = "teardown" \/ d[1] \in table'[d[2]].recent
  BY DEF Moves, InUse
<1>2. ASSUME NEW h \in Clients PROVE SeenByServers(h)'
  <2>1. SeenByServers(h)
    BY DEF RoundInv
  <2>2. ASSUME round[h] = "begun", NEW d \in Slots, d[1] = h
        PROVE  /\ conns'[d].state = "teardown" => h \in table'[d[2]].recent
               /\ d[2] = SubTracker /\ InUse(d)' => h \in table'[Tracker].recent
    BY <1>1, <2>1, <2>2, SlotParts DEF SeenByServers, TableGrows, Servers
  <2>3. ASSUME round[h] = "done", NEW t \in Servers, h \in table'[t].peers
        PROVE  h \in table'[t].recent
    BY <2>1, <2>3 DEF SeenByServers, TableGrows
  <2> QED BY <2>2, <2>3 DEF SeenByServers
<1>3. NoSubTracker'
  BY <1>1 DEF RoundInv, NoSubTracker
<1> QED BY <1>2, <1>3 DEF RoundInv

LEMMA SameTableGrows == UNCHANGED table => TableGrows
BY DEF TableGrows

LEMMA CloseMoves ==
  ASSUME NEW c \in Slots, conns \in [Slots -> Conns], InUse(c),
         NEW conn \in Conns, conn.state = conns[c].state,
         CloseServer(c, conn) \/ CloseClient(c, conn) \/ Set(c, conn)
  PROVE  Moves(c)
<1>1. \A d \in Slots \ {c} : conns'[d] = conns[d]
  BY DEF CloseServer, CloseClient, Set
<1>2. conns'[c] = conns[c] \/ conns'[c].state = conn.state
  <2>1. CASE UNCHANGED conns
    BY <2>1
  <2>2. CASE CloseServer(c, conn) /\ Closable(conn.srv)
    BY <2>2 DEF CloseServer, Set, Conns
  <2>3. CASE CloseClient(c, conn) /\ Closable(conn.cli)
    BY <2>3 DEF CloseClient, Set, Conns
  <2>4. CASE Set(c, conn)
    BY <2>4 DEF Set
  <2> QED BY <2>1, <2>2, <2>3, <2>4 DEF CloseServer, CloseClient
<1> QED BY <1>1, <1>2 DEF Moves

\* The steps of a session that neither register a host nor end its contact.
LEMMA SessionMoves ==
  ASSUME ConnInv, NEW c \in Slots,
         \/ ServerEstablished(c) \/ ServerPeerClosed(c) \/ ServerTimerExpired(c)
         \/ Established(c) \/ PeerClosed(c) \/ Reconnect(c) \/ Removed(c)
         \/ TimerExpired(c) \/ (c = uplink /\ SubTimerExpired)
  PROVE  Moves(c)
<1> DEFINE old == conns[c]
<1>1. old \in Conns /\ InUse(c) /\ conns \in [Slots -> Conns]
  <2>1. CASE Removed(c)
    BY <2>1 DEF Removed, ConnInv, InUse
  <2>2. CASE ~Removed(c)
    BY <2>2, BusyIsUsed DEF ServerEstablished, ServerPeerClosed, ServerTimerExpired, Established,
       PeerClosed, Reconnect, TimerExpired, SubTimerExpired, ToServer, ToClient, Due, ConnInv, InUse
  <2> QED BY <2>1, <2>2
<1>2. CASE ServerEstablished(c) \/ Established(c) \/ PeerClosed(c) \/ Reconnect(c)
  <2>1. Set(c, conns'[c]) /\ \A d \in Slots \ {c} : conns'[d] = conns[d]
    BY <1>1, <1>2 DEF ServerEstablished, Established, PeerClosed, Reconnect, Set
  <2>2. conns'[c].state \in {old.state, "established"}
    <3>1. CASE ServerEstablished(c)
      <4>1. conns'[c] = [old EXCEPT !.srv = "connected", !.state = "established", !.stout = "set",
                                    !.out = Tail(@), !.in = Append(@, [t |-> "ACK"])]
        BY <1>1, <3>1 DEF ServerEstablished, Set
      <4> QED BY <1>1, <4>1 DEF Conns
    <3>2. CASE Established(c)
      <4>1. conns'[c] = [old EXCEPT !.cli = "connected", !.tout = "set", !.in = Tail(@),
                                    !.out = Append(@, Announce)]
        BY <1>1, <3>2 DEF Established, Set
      <4> QED BY <1>1, <4>1 DEF Conns
    <3>3. CASE PeerClosed(c)
      <4>1. conns'[c] = [old EXCEPT !.cli = ShutByPeer(@), !.in = Tail(@),
                                    !.tout = IF old.trans THEN "now" ELSE @]
        BY <1>1, <3>3 DEF PeerClosed, Set
      <4> QED BY <1>1, <4>1 DEF Conns
    <3>4. CASE Reconnect(c)
      <4>1. conns'[c] = [old EXCEPT !.retry = FALSE, !.trans = TRUE]
        BY <1>1, <3>4 DEF Reconnect, Set
      <4> QED BY <1>1, <4>1 DEF Conns
    <3> QED BY <1>2, <3>1, <3>2, <3>3, <3>4
  <2> QED BY <1>1, <2>1, <2>2 DEF Moves
<1>3. CASE ServerPeerClosed(c)
  <2> DEFINE conn == [old EXCEPT !.srv = ShutByPeer(@), !.out = Tail(@)]
  <2>1. \/ Set(c, [conn EXCEPT !.stout = "now"])
        \/ CloseServer(c, [conn EXCEPT !.stout = "none"])
    BY <1>3 DEF ServerPeerClosed
  <2>2. ShutByPeer(old.srv) \in Sockets /\ Tail(old.out) \in Seq(ClientMessages)
    BY <1>1, <1>3, SocketClosed DEF ServerPeerClosed, ToServer, Conns
  <2>3. \A x \in {"now", "none"} : /\ [conn EXCEPT !.stout = x] \in Conns
                                   /\ [conn EXCEPT !.stout = x].state = old.state
    BY <1>1, <2>2 DEF Conns
  <2> HIDE DEF conn
  <2> QED BY <1>1, <2>1, <2>3, CloseMoves
<1>4. CASE ServerTimerExpired(c)
  <2>1. CloseServer(c, [old EXCEPT !.stout = "none"])
    BY <1>4 DEF ServerTimerExpired
  <2>2. [old EXCEPT !.stout = "none"] \in Conns /\ [old EXCEPT !.stout = "none"].state = old.state
    BY <1>1 DEF Conns
  <2> QED BY <1>1, <2>1, <2>2, CloseMoves
<1>5. CASE Removed(c)
  <2>1. conns' = [conns EXCEPT ![c] = Unused]
    BY <1>5 DEF Removed, Set
  <2> QED BY <1>1, <2>1, UnusedIsConn DEF Moves
<1>6. CASE TimerExpired(c) \/ (c = uplink /\ SubTimerExpired)
  <2> DEFINE r == giveUp[c[1]] > 1
             new == TimedOut(c)
  <2>1. Set(c, new) \/ CloseClient(c, new)
    BY <1>6 DEF TimerExpired, SubTimerExpired, SubClose
  <2>2. r \in BOOLEAN
    BY SlotParts DEF ConnInv
  <2>3. new = [old EXCEPT !.tout = "deleted", !.trans = FALSE, !.retry = r]
    BY DEF TimedOut
  <2> HIDE DEF new, r, old
  <2>4. new \in Conns /\ new.state = old.state
    BY <1>1, <2>2, <2>3 DEF Conns
  <2> QED BY <1>1, <2>1, <2>4, CloseMoves DEF old
<1> QED BY <1>2, <1>3, <1>4, <1>5, <1>6

\* An announce: the host is in the table before the answer is sent.
LEMMA AnnounceMoves ==
  ASSUME TableInv, ConnInv, RoundInv, NEW c \in Slots, UNCHANGED config,
         \/ ServerDataArrived(c) /\ c[2] = Tracker
         \/ SubServerDataArrived(c)
  PROVE  Moves(c) /\ TableGrows /\ (~config.netinf => table'[SubTracker].peers = {})
<1>1. /\ c[1] \in Clients /\ table[Tracker] \in Tables /\ table[SubTracker] \in Tables
      /\ DOMAIN table = Servers /\ Tracker # SubTracker
      /\ Counted(table[Tracker]) /\ Counted(table[SubTracker])
      /\ table[Tracker].isSeed = table[Tracker].peers \cap Seeders
  BY SlotParts DEF TableInv, Servers
<1>2. conns[c].out # <<>> /\ InUse(c) /\ conns \in [Slots -> Conns]
  BY BusyIsUsed DEF ServerDataArrived, SubServerDataArrived, ToServer, InUse, ConnInv
<1>3. \/ c[2] = Tracker /\ table' = [table EXCEPT ![Tracker] = Registered(table[Tracker], c[1])]
      \/ c[2] = SubTracker /\ table' = [table EXCEPT ![SubTracker] = SubRegistered(table[SubTracker], c[1])]
  BY DEF ServerDataArrived, SubServerDataArrived
<1>4. /\ table'[c[2]].recent = table[c[2]].recent \cup {c[1]}
      /\ table'[c[2]].peers = table[c[2]].peers \cup {c[1]}
      /\ \A t \in Servers \ {c[2]} : table'[t] = table[t]
      /\ c[2] \in Servers
  <2>1. CASE c[2] = Tracker
    <3>1. table'[Tracker] = Registered(table[Tracker], c[1])
      BY <1>1, <1>3, <2>1 DEF Servers
    <3> QED BY <1>1, <1>3, <2>1, <3>1 DEF Registered, Servers
  <2>2. CASE c[2] = SubTracker
    <3>1. table'[SubTracker] = SubRegistered(table[SubTracker], c[1])
      BY <1>1, <1>3, <2>2 DEF Servers
    <3> QED BY <1>1, <1>3, <2>2, <3>1, SubRegisteredCounts DEF Servers
  <2> QED BY <1>3, <2>1, <2>2
<1>5. TableGrows
  BY <1>1, <1>4 DEF TableGrows
<1>6. Moves(c)
  <2>1. \A d \in Slots \ {c} : conns'[d] = conns[d]
    <3>1. ASSUME NEW ps, Answer(c, ps) PROVE \A d \in Slots \ {c} : conns'[d] = conns[d]
      BY <1>2, <3>1 DEF Answer, Stops, Set
    <3>2. \E ps : Answer(c, ps)
      BY DEF ServerDataArrived, SubServerDataArrived, SubAnswer
    <3> QED BY <3>1, <3>2
  <2> QED BY <1>2, <1>4, <2>1 DEF Moves
<1>7. ASSUME ~config.netinf PROVE table'[SubTracker].peers = {}
  <2>1. c[2] # SubTracker
    BY <1>2, <1>7 DEF RoundInv, NoSubTracker
  <2> QED BY <1>4, <1>7, <2>1 DEF RoundInv, NoSubTracker, Servers
<1> QED BY <1>5, <1>6, <1>7

\* A contact begins when none of the host's connections is in use.
LEMMA ContactRound ==
  ASSUME ConnInv, RoundInv, NEW h \in Clients, Set(<<h, Tracker>>, Connecting), Began(h),
         \A c \in Slots : c[1] = h => ~InUse(c), UNCHANGED <<config, table>>
  PROVE  RoundInv'
<1>1. <<h, Tracker>> \in Slots /\ Tracker # SubTracker
  BY SlotParts
<1>2. /\ round' \in [Clients -> {"idle", "begun", "done"}]
      /\ \A x \in Clients : round'[x] = round[x] \/ (x = h /\ round'[x] = "begun")
  BY DEF Began, RoundInv
<1>3. \A c \in Slots : conns'[c] = IF c = <<h, Tracker>> THEN Connecting ELSE conns[c]
  BY <1>1 DEF Set, ConnInv
<1>4. \A c \in Slots : /\ c[1] = h => conns'[c].state = "pending"
                       /\ c[1] = h /\ c[2] = SubTracker => ~InUse(c)'
  <2> SUFFICES ASSUME NEW c \in Slots, c[1] = h
               PROVE  conns'[c].state = "pending" /\ (c[2] = SubTracker => ~InUse(c)')
    OBVIOUS
  <2>1. conns[c] = Unused
    BY DEF InUse, ConnInv, InState
  <2> QED BY <1>1, <1>3, <2>1, ConnectingIsConn, UnusedIsConn DEF InUse
<1>5. ASSUME NEW x \in Clients PROVE SeenByServers(x)'
  <2>1. SeenByServers(x)
    BY DEF RoundInv
  <2>2. CASE x = h
    BY <1>2, <1>4, <2>1, <2>2 DEF SeenByServers
  <2>3. CASE x # h
    <3>1. \A c \in Slots : c[1] = x => conns'[c] = conns[c]
      BY <1>3, <2>3
    <3> QED BY <1>2, <2>1, <2>3, <3>1 DEF SeenByServers, InUse
  <2> QED BY <2>2, <2>3
<1>6. NoSubTracker'
  <2>1. \A c \in Slots : c[2] = SubTracker => conns'[c] = conns[c]
    BY <1>1, <1>3
  <2> QED BY <2>1 DEF RoundInv, NoSubTracker, InUse
<1> QED BY <1>2, <1>5, <1>6 DEF RoundInv

\* An answer that ends a contact comes when all servers have seen the host.
LEMMA EndRound ==
  ASSUME ConnInv, RoundInv, NEW c \in Slots, Moves(c), Ended(c[1]), conns[c].state = "teardown",
         ~(config.netinf /\ c[2] = Tracker) \/ c[1] = SubTracker,
         TableInv, UNCHANGED <<config, table>>
  PROVE  RoundInv'
<1> DEFINE h == c[1]
<1>1. h \in Clients /\ c[2] \in Servers /\ (h = SubTracker => c = uplink)
  BY SlotParts
<1>2. /\ round' \in [Clients -> {"idle", "begun", "done"}]
      /\ \A x \in Clients : round'[x] = round[x]
                            \/ (x = h /\ round[x] = "begun" /\ round'[x] = "done")
  BY <1>1 DEF Ended, RoundInv
<1>3. \A d \in Slots : /\ InUse(d)' => InUse(d)
                       /\ conns'[d].state = "teardown" =>
                            conns[d].state = "teardown" \/ d[1] \in table[d[2]].recent
  BY DEF Moves, InUse
<1>4. ASSUME round[h] = "begun", NEW t \in Servers, h \in table[t].peers
      PROVE  h \in table[t].recent
  <2>1. SeenByServers(h) /\ h \in table[c[2]].recent
    BY <1>1, <1>4 DEF RoundInv, SeenByServers
  <2>2. CASE c[2] = SubTracker
    <3>1. h \in table[Tracker].recent
      BY <1>4, <2>1, <2>2 DEF SeenByServers, Moves
    <3> QED BY <2>1, <2>2, <3>1 DEF Servers
  <2>3. CASE c[2] = Tracker
    <3>1. h \notin table[SubTracker].peers
      <4>1. CASE h = SubTracker
        BY <4>1, SlotParts DEF TableInv, Peers
      <4>2. CASE ~config.netinf
        BY <4>2 DEF RoundInv, NoSubTracker
      <4> QED BY <2>3, <4>1, <4>2
    <3> QED BY <1>4, <2>1, <2>3, <3>1 DEF Servers
  <2> QED BY <1>1, <2>2, <2>3 DEF Servers
<1>5. ASSUME NEW x \in Clients PROVE SeenByServers(x)'
  <2>1. SeenByServers(x)
    BY DEF RoundInv
  <2>2. ASSUME round'[x] = "done", NEW t \in Servers, h \in table[t].peers, x = h
        PROVE  h \in table[t].recent
    BY <1>2, <1>4, <2>1, <2>2 DEF SeenByServers
  <2>3. ASSUME round'[x] = "begun", NEW d \in Slots, d[1] = x
        PROVE  /\ conns'[d].state = "teardown" => x \in table'[d[2]].recent
               /\ d[2] = SubTracker /\ InUse(d)' => x \in table'[Tracker].recent
    BY <1>2, <1>3, <2>1, <2>3 DEF SeenByServers
  <2>4. ASSUME round'[x] = "done", NEW t \in Servers, x \in table[t].peers, x # h
        PROVE  x \in table[t].recent
    BY <1>2, <2>1, <2>4 DEF SeenByServers
  <2> QED BY <2>2, <2>3, <2>4 DEF SeenByServers
<1>6. NoSubTracker'
  BY <1>3 DEF RoundInv, NoSubTracker
<1> QED BY <1>2, <1>5, <1>6 DEF RoundInv

LEMMA AnswerRound ==
  ASSUME TableInv, ConnInv, RoundInv, NEW c \in Slots, UNCHANGED <<config, table>>,
         (c[1] \in Peers /\ DataArrived(c)) \/ (c = uplink /\ SubDataArrived)
  PROVE  RoundInv'
<1> DEFINE old == conns[c]
<1>1. old \in Conns /\ InState(old) /\ old.in # <<>> /\ Head(old.in).t = "RESP" /\ InUse(c)
      /\ conns \in [Slots -> Conns]
  BY BusyIsUsed DEF DataArrived, SubDataArrived, ToClient, ConnInv, InUse
<1>2. old.state = "teardown"
  <2>1. old.in \in Seq(ServerMessages)
    BY <1>1 DEF Conns
  <2>2. ~NoneOf(old.in, "RESP")
    BY <1>1, <2>1, NoneOfTail
  <2> QED BY <1>1, <2>2 DEF InState
<1>3. CASE ~old.trans \/ ~Closable(old.cli)
  <2>1. UNCHANGED <<conns, round>>
    BY <1>3 DEF DataArrived, SubDataArrived, Stops
  <2>2. Moves(c)
    BY <1>1, <2>1 DEF Moves
  <2> QED BY <2>1, <2>2, QuietRound, SameTableGrows DEF RoundInv, NoSubTracker
<1>4. CASE old.trans /\ Closable(old.cli) /\ SubDataArrived /\ c = uplink
  <2> DEFINE conn == [old EXCEPT !.trans = FALSE, !.in = Tail(@)]
  <2>1. CloseClient(c, conn) /\ Ended(c[1]) /\ c[1] = SubTracker
    BY <1>4 DEF SubDataArrived, SubClose, uplink
  <2>2. Tail(old.in) \in Seq(ServerMessages)
    BY <1>1 DEF Conns
  <2>3. conn \in Conns /\ conn.state = old.state
    BY <1>1, <2>2 DEF Conns
  <2> HIDE DEF conn
  <2>4. Moves(c)
    BY <1>1, <2>1, <2>3, CloseMoves
  <2> QED BY <1>2, <2>1, <2>4, EndRound
<1>5. CASE old.trans /\ Closable(old.cli) /\ DataArrived(c) /\ c[1] \in Peers
  <2> DEFINE new == [old EXCEPT !.trans = FALSE, !.tout = "none", !.cli = Shut(@),
                                !.in = Tail(@), !.out = Append(@, [t |-> "FIN"])]
  <2>1. \A d \in Slots : conns'[d] = IF d = c THEN new
                           ELSE IF d[1] = c[1] /\ d[2] \in SubTrackers(c, Head(old.in).peers)
                           THEN Connecting ELSE conns[d]
    BY <1>5 DEF DataArrived
  <2>2. new.state = old.state
    BY <1>1 DEF Conns
  <2> HIDE DEF new
  <2>3. CASE ~(config.netinf /\ c[2] = Tracker)
    <3>1. \A d \in Slots \ {c} : conns'[d] = conns[d]
      <4> SUFFICES ASSUME NEW d \in Slots, d # c PROVE conns'[d] = conns[d]
        OBVIOUS
      <4>1. d[2] \notin SubTrackers(c, Head(old.in).peers)
        BY <2>3 DEF SubTrackers
      <4>2. conns'[d] = IF d = c THEN new
                        ELSE IF d[1] = c[1] /\ d[2] \in SubTrackers(c, Head(old.in).peers)
                        THEN Connecting ELSE conns[d]
        BY <2>1
      <4> QED BY <4>1, <4>2, Zenon
    <3>2. Moves(c)
      BY <1>1, <1>2, <2>1, <2>2, <3>1 DEF Moves
    <3>3. Ended(c[1])
      BY <1>5, <2>3 DEF DataArrived, Passed
    <3> QED BY <1>2, <2>3, <3>2, <3>3, EndRound
  <2>4. CASE config.netinf /\ c[2] = Tracker
    <3>1. UNCHANGED round
      BY <1>5, <2>4 DEF DataArrived, Passed
    <3>2. ASSUME NEW h \in Clients PROVE SeenByServers(h)'
      <4>1. SeenByServers(h)
        BY DEF RoundInv
      <4>2. ASSUME NEW d \in Slots, d[1] = h, round[h] = "begun"
            PROVE  /\ conns'[d].state = "teardown" => h \in table[d[2]].recent
                   /\ d[2] = SubTracker /\ InUse(d)' => h \in table[Tracker].recent
        <5>1. CASE conns'[d] = conns[d]
          BY <4>1, <4>2, <5>1 DEF SeenByServers, InUse
        <5>2. CASE d = c
          <6>1. h \in table[Tracker].recent
            BY <1>2, <2>4, <4>1, <4>2, <5>2 DEF SeenByServers
          <6> QED BY <2>4, <5>2, <6>1
        <5>3. CASE d[1] = c[1] /\ conns'[d] = Connecting
          <6>1. h \in table[Tracker].recent
            BY <1>2, <2>4, <4>1, <4>2, <5>3 DEF SeenByServers
          <6> QED BY <5>3, <6>1, ConnectingIsConn
        <5> QED BY <2>1, <5>1, <5>2, <5>3
      <4> QED BY <3>1, <4>1, <4>2 DEF SeenByServers
    <3>3. NoSubTracker'
      BY <2>4 DEF NoSubTracker
    <3> QED BY <3>1, <3>2, <3>3 DEF RoundInv
  <2> QED BY <2>3, <2>4
<1> QED BY <1>3, <1>4, <1>5

\* The kinds of steps of a session: an announce is heard, an answer arrives, or
\* something of which tables and rounds take no notice.
Heard(c) == (ServerDataArrived(c) /\ c[2] = Tracker) \/ SubServerDataArrived(c)
GotAnswer(c) == (c[1] \in Peers /\ DataArrived(c)) \/ (c = uplink /\ SubDataArrived)
Quiet(c) == \/ ServerEstablished(c) \/ ServerPeerClosed(c) \/ ServerTimerExpired(c)
            \/ Established(c) \/ PeerClosed(c) \/ Reconnect(c) \/ Removed(c)
            \/ TimerExpired(c) \/ (c = uplink /\ SubTimerExpired)

LEMMA SessionKinds ==
  ASSUME NEW c \in Slots, Session(c)
  PROVE  \/ Quiet(c) /\ UNCHANGED <<config, table, round>>
         \/ Heard(c) /\ UNCHANGED <<config, round>>
         \/ GotAnswer(c) /\ UNCHANGED <<config, table>>
<1>1. CASE ServerSide(c) /\ UNCHANGED <<config, giveUp, wire, round>>
  BY <1>1 DEF ServerSide, Quiet, Heard
<1>2. CASE SubServerSide(c) /\ UNCHANGED <<config, giveUp, wire, round>>
  BY <1>2 DEF SubServerSide, SubServerEstablished, SubServerPeerClosed, SubServerTimerExpired, Quiet, Heard
<1>3. CASE ClientSide(c) /\ UNCHANGED <<config, table>>
  BY <1>3 DEF ClientSide, Quiet, GotAnswer
<1>4. CASE TimerExpired(c)
  BY <1>4 DEF TimerExpired, Quiet
<1>5. CASE c = uplink /\ SubSession
  BY <1>5 DEF SubSession, SubEstablished, SubPeerClosed, SubReconnect, SubRemoved, SubDataArrived,
     SubTimerExpired, Quiet, GotAnswer
<1> QED BY <1>1, <1>2, <1>3, <1>4, <1>5 DEF Session

LEMMA RoundInit == Init => RoundInv
<1> SUFFICES ASSUME Init PROVE RoundInv
  OBVIOUS
<1>1. /\ conns = [c \in Slots |-> Unused] /\ round = [h \in Clients |-> "idle"]
      /\ table = [t \in Servers |-> EmptyTable]
  BY DEF Init
<1>2. SubTracker \in Servers
  BY DEF Servers
<1> QED BY <1>1, <1>2 DEF RoundInv, SeenByServers, NoSubTracker, InUse, Unused, EmptyTable

LEMMA RoundKept ==
  ASSUME TableInv, ConnInv, RoundInv, [Next]_vars
  PROVE  RoundInv'
<1>1. CASE UNCHANGED <<conns, round, config, table>>
  BY <1>1 DEF RoundInv, SeenByServers, NoSubTracker, InUse
<1>2. ASSUME NEW h \in Peers, Contact(h) PROVE RoundInv'
  BY <1>2, ContactRound DEF Contact, Clients
<1>3. CASE SubContact
  <2>1. SubTracker \in Clients /\ <<SubTracker, Tracker>> = uplink
    BY DEF Clients, uplink
  <2>2. \A c \in Slots : c[1] = SubTracker => ~InUse(c)
    BY <1>3, SlotParts DEF SubContact
  <2> QED BY <1>3, <2>1, <2>2, ContactRound DEF SubContact
<1>4. ASSUME NEW c \in Slots, Session(c) PROVE RoundInv'
  <2>1. CASE Quiet(c) /\ UNCHANGED <<config, table, round>>
    <3>1. Moves(c) /\ TableGrows /\ (~config.netinf => table'[SubTracker].peers = {})
      BY <2>1, SessionMoves, SameTableGrows DEF Quiet, RoundInv, NoSubTracker
    <3> QED BY <2>1, <3>1, QuietRound
  <2>2. CASE Heard(c) /\ UNCHANGED <<config, round>>
    <3>1. Moves(c) /\ TableGrows /\ (~config.netinf => table'[SubTracker].peers = {})
      BY <2>2, AnnounceMoves DEF Heard
    <3> QED BY <2>2, <3>1, QuietRound
  <2>3. CASE GotAnswer(c) /\ UNCHANGED <<config, table>>
    BY <2>3, AnswerRound DEF GotAnswer
  <2> QED BY <1>4, <2>1, <2>2, <2>3, SessionKinds
<1>5. CASE SubFailure
  <2> DEFINE new == [conns[uplink] EXCEPT !.cli = "error", !.tout = "now", !.out = <<>>]
  <2>1. uplink \in Slots /\ conns[uplink] \in Conns /\ InUse(uplink)
    BY <1>5, BusyIsUsed, SlotParts DEF SubFailure, ToServer, InUse
  <2>2. conns' = [conns EXCEPT ![uplink] = new] /\ UNCHANGED <<round, config, table>>
    BY <1>5 DEF SubFailure, Set
  <2>3. new.state = conns[uplink].state
    BY <2>1 DEF Conns
  <2>4. Moves(uplink)
    BY <2>1, <2>2, <2>3 DEF Moves, ConnInv
  <2> QED BY <2>1, <2>2, <2>4, QuietRound, SameTableGrows DEF RoundInv, NoSubTracker
<1>6. CASE Clean
  <2>1. round' = [h \in Clients |-> "idle"] /\ UNCHANGED <<conns, config>>
    BY <1>6 DEF Clean, net
  <2>2. \A h \in Clients : SeenByServers(h)'
    BY <2>1 DEF SeenByServers
  <2>3. NoSubTracker'
    BY <1>6, <2>1, CleanTables DEF RoundInv, NoSubTracker, InUse, Servers
  <2> QED BY <2>1, <2>2, <2>3 DEF RoundInv
<1>7. CASE \E h \in Peers : Exit(h) \/ ExitSafe(h)
  BY <1>1, <1>7 DEF Exit, ExitSafe, net
<1>8. CASE UNCHANGED vars
  BY <1>1, <1>8 DEF vars, net
<1> QED BY <1>2, <1>3, <1>4, <1>5, <1>6, <1>7, <1>8 DEF Next

\* What a cleanup removes had not announced itself since the last one.
LEMMA OnlyCleanRemoves ==
  ASSUME TableInv, ConnInv, RoundInv, [Next]_vars,
         NEW t \in Servers, NEW h \in table[t].peers, h \notin table'[t].peers
  PROVE  Clean /\ h \in Clients /\ h \notin table[t].recent
<1>1. table[Tracker] \in Tables /\ table[SubTracker] \in Tables /\ DOMAIN table = Servers
      /\ Tracker # SubTracker /\ Counted(table[Tracker]) /\ Counted(table[SubTracker])
      /\ Tracker \in Servers /\ SubTracker \in Servers
  BY TrackerNetAssumption DEF TableInv, Servers
<1>2. ~UNCHANGED table
  OBVIOUS
<1>3. ASSUME NEW c \in Slots PROVE ~TrackerHears(c) /\ ~SubTrackerHears(c)
  <2>1. c[1] \in Clients
    BY SlotParts
  <2>2. ASSUME TrackerHears(c) PROVE FALSE
    <3>1. \A s \in Servers : table'[s].peers = IF s = Tracker THEN Registered(table[Tracker], c[1]).peers
                                               ELSE table[s].peers
      BY <1>1, <2>2 DEF TrackerHears
    <3> QED BY <3>1 DEF Registered
  <2>3. ASSUME SubTrackerHears(c) PROVE FALSE
    <3>1. \A s \in Servers : table'[s].peers = IF s = SubTracker THEN SubRegistered(table[SubTracker], c[1]).peers
                                               ELSE table[s].peers
      BY <1>1, <2>3 DEF SubTrackerHears
    <3> QED BY <1>1, <2>1, <3>1, SubRegisteredCounts
  <2> QED BY <2>2, <2>3
<1>4. Clean
  BY <1>2, <1>3, TableSteps DEF vars
<1>5. table'[t].peers = table[t].peers \cap table[t].recent
  BY <1>4, CleanTables
<1>6. h \in Clients
  BY DEF TableInv, Tables
<1> QED BY <1>4, <1>5, <1>6

\* No peer that still announces itself loses its place in a table, for all numbers of
\* hosts, with and without sub-trackers and however late answers are: when a contact
\* of it is over it has announced itself to each server that knows it since the last
\* cleanup.
THEOREM PeersStay == Spec => LivingPeersStay
<1> DEFINE Inv == TableInv /\ ConnInv /\ RoundInv
<1>1. Init => Inv
  BY TableInit, ConnInit, RoundInit
<1>2. Inv /\ [Next]_vars => Inv'
  BY TableKept, ConnKept, RoundKept
<1>3. Inv /\ [Next]_vars =>
        [\A t \in Servers : \A h \in table[t].peers \ table'[t].peers :
           ~Announcing(h) \/ (h \in Peers /\ exiting[h])]_vars
  <2> SUFFICES ASSUME Inv, [Next]_vars, NEW t \in Servers, NEW h \in table[t].peers \ table'[t].peers
               PROVE  ~Announcing(h) \/ (h \in Peers /\ exiting[h])
    OBVIOUS
  <2>1. Clean /\ h \in Clients /\ h \notin table[t].recent
    BY OnlyCleanRemoves
  <2>2. round[h] # "done"
    BY <2>1 DEF RoundInv, SeenByServers
  <2> QED BY <2>1, <2>2 DEF Clean
<1> QED BY <1>1, <1>2, <1>3, PTL DEF Spec, LivingPeersStay

----------------------------------------------------------------------------
(* The sessions: when none is found too long, each runs through its phases *)

LEMMA OneMessage ==
  ASSUME NEW m
  PROVE  /\ Head(<<m>>) = m /\ Tail(<<m>>) = <<>> /\ Append(<<>>, m) = <<m>>
         /\ <<m>> # <<>> /\ Len(<<m>>) = 1
OBVIOUS

InPhase(c) == InTime(conns[c]) \/ (c = uplink /\ Failed(conns[c]))

\* Each message is under way in one phase only; no timer has to expire at once and no
\* connection is tried again but the sub-tracker's that has failed.
LEMMA PhaseOfStep ==
  ASSUME NEW c \in Slots, InPhase(c)
  PROVE  /\ ToServer(c, "SYN") => Opening(conns[c])
         /\ ToServer(c, "ANNOUNCE") => Announced(conns[c])
         /\ ToServer(c, "FIN") => Closing(conns[c])
         /\ ToClient(c, "ACK") => Accepted(conns[c])
         /\ ToClient(c, "RESP") => Replied(conns[c])
         /\ ToClient(c, "FIN") => ServerClosed(conns[c])
         /\ conns[c].stout # "now"
         /\ conns[c].tout = "now" \/ conns[c].retry => c = uplink /\ Failed(conns[c])
<1> DEFINE x == conns[c]
<1>1. /\ Head(<<Syn>>).t = "SYN" /\ Head(<<Announce>>).t = "ANNOUNCE" /\ Head(<<Fin>>).t = "FIN"
      /\ Head(<<Ack>>).t = "ACK"
  BY OneMessage DEF Syn, Announce, Fin, Ack
<1>2. ASSUME InTime(x) PROVE x.stout # "now" /\ x.tout # "now" /\ ~x.retry
  BY <1>2 DEF InTime, Free, Opening, Accepted, Announced, Replied, Closing, ServerClosed, Over, At
<1>3. CASE Free(x) \/ Over(x) \/ (c = uplink /\ Failed(x))
  BY <1>2, <1>3 DEF Free, Over, Failed, At, Carries, InTime, ToServer, ToClient
<1>4. CASE Opening(x) \/ Announced(x) \/ Closing(x)
  BY <1>1, <1>2, <1>4 DEF InTime, ToServer, ToClient, Opening, Announced, Closing, Carries
<1>5. CASE Accepted(x) \/ ServerClosed(x) \/ Replied(x)
  BY <1>1, <1>2, <1>5 DEF InTime, ToServer, ToClient, Accepted, ServerClosed, Replied, Carries
<1> QED BY <1>3, <1>4, <1>5 DEF InPhase, InTime

LEMMA SetInPhase ==
  ASSUME ConnInv, PhaseInv, NEW c \in Slots, NEW new, Set(c, new),
         InTime(new) \/ (c = uplink /\ Failed(new)), UNCHANGED simError, late' \in Nat
  PROVE  PhaseInv'
<1>1. \A d \in Slots : conns'[d] = IF d = c THEN new ELSE conns[d]
  BY DEF Set, ConnInv
<1> QED BY <1>1 DEF PhaseInv

LEMMA ServerPhases ==
  ASSUME MaxLate = 0, ConnInv, PhaseInv, NEW c \in Slots, NEW answer,
         \/ ServerEstablished(c) \/ ServerPeerClosed(c) \/ ServerTimerExpired(c)
         \/ ToServer(c, "ANNOUNCE") /\ Answer(c, answer)
  PROVE  PhaseInv'
<1> DEFINE old == conns[c]
<1>1. InPhase(c) /\ late \in Nat /\ old \in Conns
  BY DEF PhaseInv, InPhase, ConnInv
<1>2. CASE ServerEstablished(c)
  <2> DEFINE o == Tail(old.out)
             i == Append(old.in, [t |-> "ACK"])
             new == [old EXCEPT !.srv = "connected", !.state = "established", !.stout = "set",
                                !.out = o, !.in = i]
  <2>1. Opening(old) /\ Set(c, new) /\ UNCHANGED <<late, simError>>
    BY <1>1, <1>2, PhaseOfStep DEF ServerEstablished
  <2>2. o = <<>> /\ i = <<Ack>>
    BY <2>1, OneMessage DEF Opening, Carries, Ack
  <2> HIDE DEF o, i, old
  <2>3. Accepted(new)
    BY <1>1, <2>1, <2>2 DEF Conns, Opening, Accepted, At, Carries
  <2> QED BY <1>1, <2>1, <2>3, SetInPhase DEF InTime
<1>3. CASE ServerPeerClosed(c)
  <2> DEFINE o == Tail(old.out)
             s == ShutByPeer(old.srv)
             conn == [[old EXCEPT !.srv = s, !.out = o] EXCEPT !.stout = "none"]
  <2>1. Closing(old) /\ UNCHANGED late
    BY <1>1, <1>3, PhaseOfStep DEF ServerPeerClosed
  <2>2. o = <<>> /\ s = "peerClosed" /\ o \in Seq(ClientMessages)
    BY <2>1, OneMessage DEF Closing, Carries, At, ShutByPeer
  <2>3. CloseServer(c, conn)
    <3>1. [old EXCEPT !.srv = s, !.out = o].state # "established"
      <4> HIDE DEF o, s, old
      <4> QED BY <1>1, <2>1 DEF Conns, Closing, At
    <3> QED BY <1>3, <3>1 DEF ServerPeerClosed
  <2> HIDE DEF o, s, old
  <2>4. /\ conn \in Conns
        /\ At(conn, "locallyClosed", FALSE, "none", "peerClosed", "teardown", "none")
        /\ Carries(conn, <<>>, <<>>)
    BY <1>1, <2>1, <2>2 DEF Conns, Closing, At, Carries, Sockets
  <2> HIDE DEF conn
  <2> DEFINE i == Append(conn.in, [t |-> "FIN"])
             new == [conn EXCEPT !.srv = Shut(conn.srv), !.in = i]
  <2>5. Closable(conn.srv) /\ Shut(conn.srv) = "closed" /\ i = <<Fin>>
    BY <2>4, OneMessage DEF At, Carries, Closable, Shut, Fin
  <2>6. Set(c, new) /\ UNCHANGED simError
    BY <2>3, <2>5 DEF CloseServer
  <2> HIDE DEF i
  <2>7. ServerClosed(new)
    BY <2>4, <2>5 DEF Conns, ServerClosed, At, Carries
  <2> QED BY <1>1, <2>1, <2>6, <2>7, SetInPhase DEF InTime
<1>4. CASE ServerTimerExpired(c)
  BY <1>1, <1>4, PhaseOfStep DEF ServerTimerExpired, Due
<1>5. CASE ToServer(c, "ANNOUNCE") /\ Answer(c, answer)
  <2> DEFINE o == Tail(old.out)
             i == Append(old.in, Response(answer))
             new == [old EXCEPT !.state = "teardown", !.out = o, !.in = i]
  <2>1. Announced(old)
    BY <1>1, <1>5, PhaseOfStep
  <2>2. Set(c, new) /\ UNCHANGED <<late, simError>>
    BY <1>5, <2>1 DEF Answer, Closable, Announced, At
  <2>3. o = <<>> /\ i = <<Response(answer)>>
    BY <2>1, OneMessage DEF Announced, Carries
  <2>4. i # <<>> /\ Tail(i) = <<>> /\ Head(i).t = "RESP"
    <3>1. Response(answer).t = "RESP"
      BY DEF Response
    <3> HIDE DEF i
    <3> QED BY <2>3, <3>1, OneMessage
  <2> HIDE DEF o, i, old
  <2>5. Replied(new)
    BY <1>1, <2>1, <2>3, <2>4 DEF Conns, Announced, Replied, At
  <2> QED BY <1>1, <2>2, <2>5, SetInPhase DEF InTime
<1> QED BY <1>2, <1>3, <1>4, <1>5

LEMMA OpeningNew == Opening(Connecting) /\ Free(Unused)
<1> DEFINE syn == <<Syn>>
<1>1. Connecting = [Unused EXCEPT !.cli = "connecting", !.trans = TRUE, !.out = syn]
  BY DEF Connecting, Syn
<1>2. Free(Unused)
  BY DEF Free, Unused, At, Carries
<1> HIDE DEF syn
<1>3. At(Connecting, "connecting", TRUE, "none", "none", "pending", "none")
      /\ Carries(Connecting, syn, <<>>)
  BY <1>1, <1>2, UnusedIsConn DEF Conns, Free, At, Carries
<1> QED BY <1>2, <1>3 DEF Opening, syn

\* The session ends: the client closes its socket.
LEMMA ClientCloses ==
  ASSUME NEW old \in Conns, Replied(old)
  PROVE  LET i == Tail(old.in)
             o == Append(old.out, [t |-> "FIN"])
         IN  /\ Closing([old EXCEPT !.trans = FALSE, !.tout = "none", !.cli = Shut(@), !.in = i, !.out = o])
             /\ Closing([[old EXCEPT !.trans = FALSE, !.in = i]
                          EXCEPT !.cli = Shut(@), !.tout = "none", !.out = o])
             /\ old.trans /\ Closable(old.cli)
             /\ [old EXCEPT !.trans = FALSE, !.in = i].cli = old.cli
             /\ [old EXCEPT !.trans = FALSE, !.in = i].out = old.out
<1> DEFINE i == Tail(old.in)
           o == Append(old.out, [t |-> "FIN"])
           s == Shut(old.cli)
           conn == [old EXCEPT !.trans = FALSE, !.in = i]
<1>1. i = <<>> /\ o = <<Fin>> /\ s = "locallyClosed" /\ old.trans /\ Closable(old.cli)
  BY OneMessage DEF Replied, At, Fin, Shut, Closable
<1> HIDE DEF i, o, s
<1>2. conn.cli = old.cli /\ conn.out = old.out
  BY DEF Conns
<1>3. Closing([old EXCEPT !.trans = FALSE, !.tout = "none", !.cli = s, !.in = i, !.out = o])
  BY <1>1 DEF Conns, Replied, Closing, At, Carries
<1>4. Closing([conn EXCEPT !.cli = s, !.tout = "none", !.out = o])
  BY <1>1 DEF Conns, Replied, Closing, At, Carries
<1> QED BY <1>1, <1>2, <1>3, <1>4 DEF i, o, s

LEMMA ClientPhases ==
  ASSUME MaxLate = 0, ConnInv, PhaseInv, NEW c \in Slots,
         \/ Established(c) \/ PeerClosed(c) \/ Reconnect(c) \/ Removed(c)
         \/ TimerExpired(c) \/ (c = uplink /\ SubTimerExpired)
  PROVE  PhaseInv'
<1> DEFINE old == conns[c]
<1>1. InPhase(c) /\ late \in Nat /\ old \in Conns
  BY DEF PhaseInv, InPhase, ConnInv
<1>2. CASE Established(c)
  <2> DEFINE i == Tail(old.in)
             o == Append(old.out, Announce)
             new == [old EXCEPT !.cli = "connected", !.tout = "set", !.in = i, !.out = o]
  <2>1. Accepted(old) /\ Set(c, new) /\ UNCHANGED <<late, simError>>
    BY <1>1, <1>2, PhaseOfStep DEF Established
  <2>2. i = <<>> /\ o = <<Announce>>
    BY <2>1, OneMessage DEF Accepted, Carries
  <2> HIDE DEF o, i, old
  <2>3. Announced(new)
    BY <1>1, <2>1, <2>2 DEF Conns, Accepted, Announced, At, Carries
  <2> QED BY <1>1, <2>1, <2>3, SetInPhase DEF InTime
<1>3. CASE PeerClosed(c)
  <2> DEFINE i == Tail(old.in)
             s == ShutByPeer(old.cli)
             tout == IF old.trans THEN "now" ELSE old.tout
             new == [old EXCEPT !.cli = s, !.in = i, !.tout = tout]
  <2>1. ServerClosed(old) /\ Set(c, new) /\ UNCHANGED <<late, simError>>
    BY <1>1, <1>3, PhaseOfStep DEF PeerClosed
  <2>2. i = <<>> /\ s = "closed" /\ tout = "none"
    BY <2>1, OneMessage DEF ServerClosed, Carries, At, ShutByPeer
  <2> HIDE DEF i, s, tout, old
  <2>3. Over(new)
    BY <1>1, <2>1, <2>2 DEF Conns, ServerClosed, Over, At, Carries
  <2> QED BY <1>1, <2>1, <2>3, SetInPhase DEF InTime
<1>4. CASE Reconnect(c)
  <2> DEFINE new == [old EXCEPT !.retry = FALSE, !.trans = TRUE]
  <2>1. c = uplink /\ Failed(old) /\ Set(c, new) /\ UNCHANGED <<late, simError>>
    BY <1>1, <1>4, PhaseOfStep DEF Reconnect
  <2> HIDE DEF old
  <2>2. Failed(new)
    BY <1>1, <2>1 DEF Conns, Failed
  <2> QED BY <1>1, <2>1, <2>2, SetInPhase
<1>5. CASE Removed(c)
  BY <1>1, <1>5, OpeningNew, SetInPhase DEF Removed, InTime
<1>6. CASE TimerExpired(c)
  <2>1. c # uplink
    BY <1>6, SlotParts DEF TimerExpired, uplink
  <2> QED BY <1>1, <1>6, <2>1, PhaseOfStep DEF TimerExpired, Due
<1>7. CASE c = uplink /\ SubTimerExpired
  <2> DEFINE r == giveUp[c[1]] > 1
             new == [old EXCEPT !.tout = "deleted", !.trans = FALSE, !.retry = r]
  <2>1. old.tout = "now" /\ Failed(old)
    BY <1>1, <1>7, PhaseOfStep DEF SubTimerExpired, Due
  <2>2. UNCHANGED late
    BY <1>7, <2>1 DEF SubTimerExpired, GivesUp, CountLate
  <2>3. Set(c, new) /\ UNCHANGED simError
    BY <1>7, <2>1 DEF SubTimerExpired, SubCloses, Failed, Closable, TimedOut
  <2> HIDE DEF old, r
  <2>4. Failed(new)
    BY <1>1, <2>1 DEF Conns, Failed
  <2> QED BY <1>1, <1>7, <2>2, <2>3, <2>4, SetInPhase
<1> QED BY <1>2, <1>3, <1>4, <1>5, <1>6, <1>7

LEMMA AnswerPhases ==
  ASSUME ConnInv, PhaseInv, NEW c \in Slots, DataArrived(c) \/ (c = uplink /\ SubDataArrived)
  PROVE  PhaseInv'
<1> DEFINE old == conns[c]
<1>1. late \in Nat /\ old \in Conns /\ InPhase(c)
  BY DEF PhaseInv, ConnInv, InPhase
<1>2. Replied(old)
  BY <1>1, PhaseOfStep DEF DataArrived, SubDataArrived
<1>3. old.trans /\ Closable(old.cli)
  BY <1>1, <1>2, ClientCloses
<1>4. CASE DataArrived(c)
  <2> DEFINE new == [old EXCEPT !.trans = FALSE, !.tout = "none", !.cli = Shut(@),
                                !.in = Tail(@), !.out = Append(@, [t |-> "FIN"])]
  <2>1. Closing(new)
    BY <1>1, <1>2, ClientCloses
  <2>2. UNCHANGED <<late, simError>>
    BY <1>3, <1>4 DEF DataArrived
  <2>3. \A d \in Slots : conns'[d] \in {new, Connecting, conns[d]}
    BY <1>3, <1>4 DEF DataArrived
  <2> HIDE DEF new
  <2>4. \A d \in Slots : InTime(conns'[d]) \/ (d = uplink /\ Failed(conns'[d]))
    BY <2>1, <2>3, OpeningNew DEF InTime, PhaseInv
  <2> QED BY <1>1, <2>2, <2>4 DEF PhaseInv
<1>5. CASE c = uplink /\ SubDataArrived
  <2> DEFINE conn == [old EXCEPT !.trans = FALSE, !.in = Tail(@)]
             new == [conn EXCEPT !.cli = Shut(@), !.tout = "none", !.out = Append(@, [t |-> "FIN"])]
  <2>1. CloseClient(c, conn) /\ UNCHANGED late
    BY <1>3, <1>5 DEF SubDataArrived, SubClose
  <2>2. conn.cli = old.cli /\ conn.out = old.out
    BY <1>1, <1>2, ClientCloses
  <2>3. Closing(new)
    BY <1>1, <1>2, <2>2, ClientCloses
  <2>4. Set(c, new) /\ UNCHANGED simError
    BY <1>3, <2>1, <2>2 DEF CloseClient
  <2> QED BY <1>1, <2>1, <2>3, <2>4, SetInPhase DEF InTime
<1> QED BY <1>4, <1>5

LEMMA PhaseInit == Init => PhaseInv
<1> SUFFICES ASSUME Init PROVE PhaseInv
  OBVIOUS
<1>1. conns = [c \in Slots |-> Unused] /\ late = 0 /\ simError = FALSE
  BY DEF Init
<1> QED BY <1>1, OpeningNew DEF PhaseInv, InTime

LEMMA PhaseKept ==
  ASSUME MaxLate = 0, ConnInv, PhaseInv, [Next]_vars
  PROVE  PhaseInv'
<1>1. CASE UNCHANGED <<conns, late, simError>>
  BY <1>1 DEF PhaseInv
<1>2. ASSUME NEW c \in Slots, Set(c, Connecting), UNCHANGED <<late, simError>> PROVE PhaseInv'
  BY <1>2, OpeningNew, SetInPhase DEF InTime, PhaseInv
<1>3. ASSUME NEW c \in Slots, Session(c) PROVE PhaseInv'
  <2>1. CASE \/ ServerEstablished(c) \/ ServerPeerClosed(c) \/ ServerTimerExpired(c)
             \/ \E answer : ToServer(c, "ANNOUNCE") /\ Answer(c, answer)
    BY <2>1, ServerPhases
  <2>2. CASE \/ Established(c) \/ PeerClosed(c) \/ Reconnect(c) \/ Removed(c)
             \/ TimerExpired(c) \/ (c = uplink /\ SubTimerExpired)
    BY <2>2, ClientPhases
  <2>3. CASE GotAnswer(c)
    BY <2>3, AnswerPhases DEF GotAnswer
  <2>4. Heard(c) => \E answer : ToServer(c, "ANNOUNCE") /\ Answer(c, answer)
    BY DEF Heard, ServerDataArrived, SubServerDataArrived, SubAnswer
  <2> QED BY <1>3, <2>1, <2>2, <2>3, <2>4, SessionKinds DEF Quiet
<1>4. CASE SubFailure
  <2> DEFINE old == conns[uplink]
             new == [old EXCEPT !.cli = "error", !.tout = "now", !.out = <<>>]
  <2>1. uplink \in Slots /\ InPhase(uplink) /\ old \in Conns
    BY SlotParts DEF PhaseInv, InPhase, ConnInv
  <2>2. Opening(old) /\ Set(uplink, new) /\ UNCHANGED <<late, simError>>
    BY <1>4, <2>1, PhaseOfStep DEF SubFailure
  <2> HIDE DEF old
  <2>3. Failed(new)
    BY <2>1, <2>2 DEF Conns, Opening, At, Carries, Failed
  <2> QED BY <2>1, <2>2, <2>3, SetInPhase DEF PhaseInv
<1>5. ASSUME NEW h \in Peers, Contact(h) PROVE PhaseInv'
  BY <1>2, <1>5, SlotParts DEF Contact, Clients
<1>6. CASE SubContact
  BY <1>2, <1>6, SlotParts DEF SubContact
<1>7. CASE (\E h \in Peers : Exit(h) \/ ExitSafe(h)) \/ Clean
  BY <1>1, <1>7 DEF Exit, ExitSafe, Clean, net
<1>8. CASE UNCHANGED vars
  BY <1>1, <1>8 DEF vars, net
<1> QED BY <1>3, <1>4, <1>5, <1>6, <1>7, <1>8 DEF Next

\* While no answer is later than sessionTimeout, no handler of a session gets a
\* message it does not expect and no socket is closed twice or used after its end:
\* for all numbers of hosts, with and without sub-trackers, and also when a
\* connection of the sub-tracker fails.
THEOREM SessionsEndWell ==
  ASSUME MaxLate = 0
  PROVE  Spec => []SessionsClose
<1> DEFINE Inv == TableInv /\ ConnInv /\ PhaseInv
<1>1. Init => Inv
  BY TableInit, ConnInit, PhaseInit
<1>2. Inv /\ [Next]_vars => Inv'
  BY TableKept, ConnKept, PhaseKept
<1>3. Inv => SessionsClose
  BY DEF PhaseInv, SessionsClose
<1> QED BY <1>1, <1>2, <1>3, PTL DEF Spec

=============================================================================
