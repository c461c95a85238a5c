----------------------------- MODULE AccessNet -----------------------------
(***************************************************************************)
(* The routers of the IPv4 underlay, their addresses and routes, and the   *)
(* access nets, which give the terminals connected to an access router     *)
(* their addresses.  An address is a number of four digits to the base     *)
(* Byte, 256 in the code; a prefix is the number of its leading digits.    *)
(***************************************************************************)
LOCAL INSTANCE Naturals
LOCAL INSTANCE Sequences
LOCAL INSTANCE FiniteSets
LOCAL INSTANCE SequencesExt
LOCAL INSTANCE FiniteSetsExt

CONSTANTS
  Backbone,      \* the backbone router
  Gateways,      \* the gateway routers, linked to it
  AccessNode,    \* the access routers in the order of the configurator's vector
  Up,            \* the first neighbour of each gateway and access router
  Drawn,         \* the random digit of each router's address
  Byte           \* the base of the addresses

Access == Range(AccessNode)
Router == {Backbone} \cup Gateways \cup Access
NoRouter == "none"

Address == [r \in Router |->
  IF r = Backbone THEN Drawn[r] * Byte^3
  ELSE IF r \in Gateways THEN Drawn[Up[r]] * Byte^3 + Drawn[r] * Byte^2
  ELSE Drawn[Up[Up[r]]] * Byte^3 + Drawn[Up[r]] * Byte^2 + Drawn[r] * Byte]

\* The code draws the digits at random and does not look whether two routers are
\* given the same address: here they are not.
ASSUME AccessNetAssumption ==
  /\ Byte \in Nat /\ Byte > 2
  /\ Up \in [Gateways \cup Access -> Router]
  /\ \A g \in Gateways : Up[g] = Backbone
  /\ \A a \in Access : Up[a] \in Gateways
  /\ Drawn \in [Router -> 0 .. Byte - 2]
  /\ \A r, s \in Router : Address[r] = Address[s] => r = s

Digits(ip, len) == ip \div Byte^(4 - len)
Matches(route, ip) == Digits(ip, route.len) = Digits(route.host, route.len)

\* The routes between routers, which form a tree: one to each other router and one
\* more to each neighbour.
Linked(r, s) == (r # Backbone /\ Up[r] = s) \/ (s # Backbone /\ Up[s] = r)
Beneath(s, r) == r \in {s, Backbone} \/ (s # Backbone /\ Up[s] = r)
NextHop(r, dest) == IF Beneath(dest, r) THEN CHOOSE s \in Router : s # r /\ Linked(r, s) /\ Beneath(s, r) /\ Beneath(dest, s)
                    ELSE Up[r]
RouterRoutes == [r \in Router |->
  {[host |-> Address[s], len |-> 3, next |-> NextHop(r, s)] : s \in Router \ {r}} \cup
  {[host |-> Address[s], len |-> 4, next |-> s] : s \in {q \in Router : Linked(r, q)}}]

\* An access net: its terminals in the order in which they came, the offset of the
\* last address given, and its router's routes to them.
EmptyNet == [overlayTerminal |-> <<>>, lastIP |-> 0, hostRoutes |-> {}]

\* The next address: x.y.z.0, x.y.z.255 and x.y.255.z are rejected.
Valid(ip) == ip % Byte \notin {0, Byte - 1} /\ (ip \div Byte) % Byte # Byte - 1
Free(net, ip) == \A k \in DOMAIN net.overlayTerminal : net.overlayTerminal[k].ip # ip
Offsets(net) == {(net.lastIP + d) % Byte^2 : d \in 1 .. Byte^2 - 1} \ {0}
FreeOffsets(a, net) ==
  {o \in Offsets(net) : Valid(Address[a] + o) /\ Free(net, Address[a] + o)}
NextOffset(a, net) ==
  LET after == {o \in FreeOffsets(a, net) : o > net.lastIP}
  IN  Min(IF after # {} THEN after ELSE FreeOffsets(a, net))

\* The terminal's own routes: by default to the router, or, on a second interface,
\* to the net of its address, and to the router for the wider net.
TerminalRoutes(a, ip, interface) ==
  IF interface = 0 THEN <<[host |-> 0, len |-> 0, gateway |-> a, interface |-> 0]>>
  ELSE <<[host |-> ip, len |-> 3, gateway |-> NoRouter, interface |-> 1],
         [host |-> Digits(Address[a], 2) * Byte^2, len |-> 2, gateway |-> a, interface |-> 1]>>

\* Connecting an interface of a node to access router a.
NewTerminal(a, net, node, interface) ==
  [node |-> node, interface |-> interface, ip |-> Address[a] + NextOffset(a, net)]
Joined(a, net, t) ==
  [overlayTerminal |-> Append(net.overlayTerminal, t),
   lastIP |-> t.ip - Address[a],
   hostRoutes |-> net.hostRoutes \cup {[host |-> t.ip, node |-> t.node]}]

\* The three methods that do so: for a node with one wire, for a radio and for one wire
\* of several.
AddOverlayNode(a, net, node) == Joined(a, net, NewTerminal(a, net, node, 0))
AddWirelessOverlayNode(a, net, node, interface) == Joined(a, net, NewTerminal(a, net, node, interface))
AddOverlayTerminalNode(a, net, node, interface) == Joined(a, net, NewTerminal(a, net, node, interface))

\* Disconnecting the terminal of a node that the net found last, with the route of
\* the router to it and the route of its own that the terminal kept.
HasNode(net, node) == \E k \in DOMAIN net.overlayTerminal : net.overlayTerminal[k].node = node
Position(net, node) == Max({k \in DOMAIN net.overlayTerminal : net.overlayTerminal[k].node = node})
TerminalOf(net, node) == net.overlayTerminal[Position(net, node)]
Left(net, node) ==
  [net EXCEPT !.overlayTerminal = RemoveAt(@, Position(net, node)),
              !.hostRoutes = {r \in @ : r.host # TerminalOf(net, node).ip}]
\* Wrong variant: the terminal keeps its routes.
RoutesKept(routes, a, t) == routes
RoutesLeft(routes, a, t) == RemoveFirst(routes, Head(TerminalRoutes(a, t.ip, t.interface)))

\* Where a packet for ip goes from a router whose net is net, "lost" if nowhere:
\* by the longest matching route, which is a terminal's if there is one.
Forward(r, net, ip) ==
  LET hosts  == {h \in net.hostRoutes : h.host = ip}
      routes == {h \in RouterRoutes[r] : Matches(h, ip)}
      best   == {h \in routes : \A g \in routes : g.len <= h.len}
  IN  IF hosts # {} THEN {[terminal |-> h.node] : h \in hosts}
      ELSE {[router |-> h.next] : h \in best}
=============================================================================
