---------------------- MODULE IPv4UnderlayConfigurator ----------------------
(***************************************************************************)
(* The configurator of the IPv4 underlay creates trackers, seeders and     *)
(* terminals and connects them to access nets.  A churn generator, which   *)
(* is external, has it create, migrate and kill terminals: a killed node   *)
(* leaves the list of alive peers at once and the net some time later,     *)
(* when it is looked up again by the address noted in killList.  The       *)
(* bootstrap oracle, external too, maps addresses to nodes.                *)
(***************************************************************************)
EXTENDS AccessNet, Naturals, Sequences, FiniteSets
LOCAL INSTANCE TLC
LOCAL INSTANCE SequencesExt

CONSTANTS
  Underlays,     \* the configurations, see Underlay
  MaxNodes,      \* bound on the nodes created
  MaxOffset      \* bound on the offset of an address given

\* A configuration: how many of the access routers are wired, the others being
\* wireless, the sub-trackers and seeders, the terminals with one and two interfaces
\* and the pairs of routers for these, and whether nodes migrate and leave.
Underlay == [accessRouterNum : 0 .. Len(AccessNode), subtrackerNum : Nat, seederNum : Nat,
             wireless : BOOLEAN, interfaces : {1, 2}, pairs : SUBSET (1 .. 64), churn : BOOLEAN]
ASSUME UnderlayAssumption ==
  /\ Underlays \subseteq Underlay
  /\ \A u \in Underlays : u.churn => u.accessRouterNum = Len(AccessNode) /\ u.interfaces = 1
  /\ {MaxNodes, MaxOffset} \subseteq Nat

VARIABLES
  underlay,      \* the configuration
  todo,          \* servers and seeders still to be created
  access,        \* access router -> its access net
  routes,        \* node -> its routing table
  oracle,        \* address -> [node, net, alive]
  killList,      \* addresses of the nodes to be killed, the next one last
  scheduledID,   \* the nodes to be killed
  overlayTerminalCount,
  numCreated,    \* nodes created, servers and seeders too
  stopped        \* the simulation has ended with an error

underlayVars == <<underlay, todo, access, routes, oracle, killList, scheduledID,
                  overlayTerminalCount, numCreated, stopped>>

\* getAccessRouters: the routers, counted from 0, of a pair of interfaces.  The first
\* sixteen pairs are repeated three times, two routers further each time.
BasePairs == <<<<0, 2>>, <<10, 12>>, <<20, 22>>, <<1, 3>>, <<11, 13>>, <<21, 23>>, <<2, 10>>, <<10, 22>>,
               <<22, 1>>, <<1, 13>>, <<13, 21>>, <<0, 12>>, <<12, 20>>, <<20, 3>>, <<3, 11>>, <<11, 23>>>>
AccessRouters(p) == LET shift == 2 * ((p - 1) \div 16)
                        base  == BasePairs[((p - 1) % 16) + 1]
                    IN  <<base[1] + shift, base[2] + shift>>

\* accessNode[i] of the code.
NodeAt(i) == AccessNode[i + 1]

\* The routers that a terminal may be connected to, one for each interface: a pair, or
\* one at random, which for wires is not the last.
Pairs(first) == {[k \in 1 .. 2 |-> NodeAt(AccessRouters(p)[k] + first)] : p \in underlay.pairs}
WirelessPlaces == IF underlay.interfaces = 2 THEN Pairs(1)
                  ELSE {<<NodeAt(i + 1)>> : i \in 0 .. Len(AccessNode) - underlay.accessRouterNum - 1}
WiredPlaces == IF underlay.interfaces = 2 THEN Pairs(0)
               ELSE {<<NodeAt(i)>> : i \in 0 .. underlay.accessRouterNum - 2}

Full(a) == FreeOffsets(a, access[a]) = {}
AddressesLeft(a) == access[a].lastIP < MaxOffset
NewAddress(a, node, interface) == NewTerminal(a, access[a], node, interface).ip
PeerInfo(node, a) == [node |-> node, net |-> a, alive |-> TRUE]

\* A node with one wire joins an access net.
JoinsNet(node, a) ==
  LET ip == NewAddress(a, node, 0)
  IN  /\ access' = [access EXCEPT ![a] = AddOverlayNode(a, @, node)]
      /\ routes' = [routes EXCEPT ![node] = TerminalRoutes(a, ip, 0)]
      /\ oracle' = (ip :> PeerInfo(node, a)) @@ oracle

\* An access net connects an interface of a terminal, over a wire or by radio.
WithTerminal(a, net, node, interface) ==
  IF underlay.wireless THEN AddWirelessOverlayNode(a, net, node, interface)
  ELSE AddOverlayTerminalNode(a, net, node, interface)

\* A terminal joins with each of its interfaces.
Joins(node, place) ==
  LET Ip(k) == NewAddress(place[k], node, k - 1)
  IN  /\ access' = [a \in Access |->
           IF \E k \in DOMAIN place : place[k] = a
           THEN WithTerminal(a, access[a], node, (CHOOSE k \in DOMAIN place : place[k] = a) - 1)
           ELSE access[a]]
      /\ routes' = [routes EXCEPT ![node] =
           FlattenSeq([k \in DOMAIN place |-> TerminalRoutes(place[k], Ip(k), k - 1)])]
      /\ oracle' = [ip \in {Ip(k) : k \in DOMAIN place} |->
                      PeerInfo(node, place[CHOOSE k \in DOMAIN place : Ip(k) = ip])] @@ oracle

UnderlayStops ==
         /\ stopped' = TRUE
         /\ UNCHANGED <<underlay, todo, access, routes, oracle, killList, scheduledID,
                        overlayTerminalCount, numCreated>>

UnderlayInit ==
        /\ underlay \in Underlays
        /\ todo = [i \in 1 .. underlay.subtrackerNum |-> i] \o <<0>>
                    \o [i \in 1 .. underlay.seederNum |-> i]
        /\ access = [a \in Access |-> EmptyNet]
        /\ routes = [n \in 1 .. MaxNodes |-> <<>>]
        /\ oracle = <<>>
        /\ killList = <<>> /\ scheduledID = {}
        /\ overlayTerminalCount = 0 /\ numCreated = 0
        /\ stopped = FALSE

\* createBTNode: a sub-tracker or seeder i is connected to router i + 1 of the
\* vector, counted from 0, the tracker to its first.
CreateBTNode ==
  /\ ~stopped /\ todo # <<>>
  /\ LET a == NodeAt(Head(todo))
     IN  IF Full(a) THEN UnderlayStops
         ELSE /\ JoinsNet(numCreated + 1, a)
              /\ todo' = Tail(todo)
              /\ numCreated' = numCreated + 1
              /\ UNCHANGED <<underlay, killList, scheduledID, overlayTerminalCount, stopped>>

\* createNode: the churn generator asks for a terminal, with wires or radios.
CreateTerminal(place) ==
  /\ ~stopped /\ todo = <<>> /\ numCreated < MaxNodes
  /\ \A k \in DOMAIN place : AddressesLeft(place[k])
  /\ IF \E k \in DOMAIN place : Full(place[k]) THEN UnderlayStops
     ELSE /\ Joins(numCreated + 1, place)
          /\ numCreated' = numCreated + 1
          /\ overlayTerminalCount' = overlayTerminalCount + 1
          /\ UNCHANGED <<underlay, todo, killList, scheduledID, stopped>>
CreateNode ==
  \E place \in IF underlay.wireless THEN WirelessPlaces ELSE WiredPlaces : CreateTerminal(place)

\* The addresses that the churn generator may give: those of terminals, also of such
\* as are about to be killed.
Servers == 1 .. underlay.subtrackerNum + 1 + underlay.seederNum
TerminalAddresses == {ip \in DOMAIN oracle : oracle[ip].node \notin Servers}

\* preKillNode: a terminal is to leave; without an address one that is alive is taken.
PreKillNode(ip) ==
  /\ ~stopped /\ todo = <<>> /\ underlay.churn
  /\ ip \in TerminalAddresses
  /\ oracle[ip].node \notin scheduledID
  /\ oracle' = [oracle EXCEPT ![ip].alive = FALSE]
  /\ killList' = <<ip>> \o killList
  /\ scheduledID' = scheduledID \cup {oracle[ip].node}
  /\ overlayTerminalCount' = overlayTerminalCount - 1
  /\ UNCHANGED <<underlay, todo, access, routes, numCreated, stopped>>

WithoutAddress(ip) == [x \in DOMAIN oracle \ {ip} |-> oracle[x]]

\* migrateNode: a terminal is connected to another access router and has a new address.
\* Wrong variant: also one that is about to be killed.
MayMigrateAlways(node) == TRUE
MayMigrate(node) == node \notin scheduledID
MigrateNode(ip, b) ==
  LET node == oracle[ip].node
      a    == oracle[ip].net
      t    == TerminalOf(access[a], node)
  IN  /\ ~stopped /\ todo = <<>> /\ underlay.churn
      /\ ip \in TerminalAddresses /\ MayMigrate(node)
      /\ AddressesLeft(b) /\ (b # a \/ Len(AccessNode) = 1)
      /\ IF ~HasNode(access[a], node) \/ Full(b) THEN UnderlayStops
         ELSE LET new == NewAddress(b, node, 0)
              IN  /\ access' = [access EXCEPT ![a] = Left(@, node), ![b] = AddOverlayNode(b, @, node)]
                  /\ routes' = [routes EXCEPT ![node] = RoutesLeft(@, a, t) \o TerminalRoutes(b, new, 0)]
                  /\ oracle' = (new :> PeerInfo(node, b)) @@ WithoutAddress(t.ip)
                  /\ UNCHANGED <<underlay, todo, killList, scheduledID, overlayTerminalCount, numCreated, stopped>>

\* handleTimerEvent, gracefulLeaveDelay after preKillNode: the node that has waited
\* longest leaves its net and is deleted.
HandleTimerEvent ==
  LET ip == killList[Len(killList)]
      a  == oracle[ip].net
      node == oracle[ip].node
  IN  /\ ~stopped /\ killList # <<>>
      /\ IF ip \notin DOMAIN oracle \/ ~HasNode(access[a], node) THEN UnderlayStops
         ELSE /\ killList' = Front(killList)
              /\ scheduledID' = scheduledID \ {node}
              /\ oracle' = WithoutAddress(ip)
              /\ access' = [access EXCEPT ![a] = Left(@, node)]
              /\ routes' = [routes EXCEPT ![node] = <<>>]
              /\ UNCHANGED <<underlay, todo, overlayTerminalCount, numCreated, stopped>>

UnderlayNext ==
  \/ CreateBTNode
  \/ CreateNode
  \/ \E ip \in DOMAIN oracle : PreKillNode(ip) \/ \E b \in Access : MigrateNode(ip, b)
  \/ HandleTimerEvent

(***************************************************************************)
(* Properties                                                              *)
(***************************************************************************)

\* The routers from which packets for ip arrive at the node, at most four links away.
DeliveredFrom(ip, node) ==
  LET next == [r \in Router |-> Forward(r, IF r \in Access THEN access[r] ELSE EmptyNet, ip)]
      Before(rs) == rs \cup {r \in Router : next[r] # {} /\ next[r] \subseteq {[router |-> s] : s \in rs}}
  IN  Before(Before(Before(Before({r \in Router : next[r] = {[terminal |-> node]}}))))

\* "Requirement 1: Each router has exactly one routing entry (netmask 255.255.0.0) to
\* each other router", and "Netmask = 255.255.0.0" of the access nets: from every
\* router the routes lead to every terminal, and all routes of a terminal to routers
\* that it is connected to, wherever it has migrated from.
Reachable ==
  \A a \in Access : \A k \in DOMAIN access[a].overlayTerminal :
    LET t == access[a].overlayTerminal[k]
    IN  /\ DeliveredFrom(t.ip, t.node) = Router
        /\ \E i \in DOMAIN routes[t.node] : routes[t.node][i].gateway = a
        /\ \A i \in DOMAIN routes[t.node] :
             routes[t.node][i].gateway # NoRouter => HasNode(access[routes[t.node][i].gateway], t.node)

\* "Trying to kill node with nonexistant TransportAddress!": the addresses in killList
\* are still those of the nodes in scheduledID when their time comes, whatever was
\* created, migrated and deleted since, and these nodes are not found alive meanwhile.
KillListMatches ==
  /\ ~stopped
  /\ \A k \in DOMAIN killList : killList[k] \in DOMAIN oracle
  /\ scheduledID = {oracle[killList[k]].node : k \in DOMAIN killList}
  /\ Cardinality(scheduledID) = Len(killList)
  /\ \A ip \in DOMAIN oracle : oracle[ip].alive <=> oracle[ip].node \notin scheduledID

\* The tables kept beside the hosts stay true to them while they come, move and leave: the routes
\* of routers and hosts lead where the hosts are, and the list of hosts that are about to leave
\* names hosts that are still there (AccessNet::addOverlayNode, removeOverlayNode,
\* IPv4UnderlayConfigurator::preKillNode, handleTimerEvent).
UnderlayConsistent == Reachable /\ KillListMatches
=============================================================================
