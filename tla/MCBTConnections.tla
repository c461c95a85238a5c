--------------------------- MODULE MCBTConnections ---------------------------
(* A network of peers, one aspect at a time: the connections between two or  *)
(* three peers p1, p2 and p3; the choking rounds of one peer over the        *)
(* threads of r1, r2 and r3, where no connection is opened otherwise; and    *)
(* the hosts, in an underlay of a backbone router bb with two gateways and   *)
(* two access routers behind each.                                           *)
EXTENDS BTConnections, BTChoking, IPv4UnderlayConfigurator, TLC

CONSTANTS p1, p2, p3, r1, r2, r3, bb, g1, g2, a1, a2, a3, a4

\* Two peers with two tracker responses each, one of which exits, and three
\* peers that stay.
NoOverlay  == [peers |-> {}, responses |-> 0, leaving |-> {}]
MCOverlays == {[peers |-> {p1, p2}, responses |-> 2, leaving |-> {p2}],
               [peers |-> {p1, p2, p3}, responses |-> 1, leaving |-> {}],
               NoOverlay}

\* Addresses with digits to the base 5.
MCAccessNode == <<a1, a2, a3, a4>>
MCUp    == g1 :> bb @@ g2 :> bb @@ a1 :> g1 @@ a2 :> g1 @@ a3 :> g2 @@ a4 :> g2
MCDrawn == bb :> 1 @@ g1 :> 1 @@ g2 :> 3 @@ a1 :> 1 @@ a2 :> 2 @@ a3 :> 1 @@ a4 :> 3

\* Terminals that come, move and leave, and such as stay, with one or two interfaces
\* and over wires or radios.
Hosts(wired, wireless, interfaces, churn) ==
  [accessRouterNum |-> wired, wireless |-> wireless, interfaces |-> interfaces, churn |-> churn,
   pairs |-> IF wireless THEN {1} ELSE {1, 4}, subtrackerNum |-> 1, seederNum |-> 1]
MCUnderlays == {Hosts(4, FALSE, 1, TRUE), Hosts(4, FALSE, 2, FALSE),
                Hosts(1, TRUE, 1, FALSE), Hosts(1, TRUE, 2, FALSE)}

VARIABLE aspect      \* what this behaviour is about

vars == <<connectionVars, chokingVars, underlayVars, aspect>>

MCInit ==
  /\ ConnectionInit /\ ChokingInit /\ UnderlayInit
  /\ aspect \in {"connections", "choking", "underlay"}
  /\ aspect = "connections" <=> \E x \in Peer : base[x].peers # {}
  /\ due = IF aspect = "choking" THEN {"CHOKE", "OPTIMISTIC"} ELSE {"STOPPED"}
  /\ aspect # "underlay" => underlay.churn
MCNext ==
  /\ UNCHANGED aspect
  /\ \/ aspect = "connections" /\ ConnectionNext /\ UNCHANGED <<chokingVars, underlayVars>>
     \/ aspect = "choking" /\ ChokingNext /\ UNCHANGED <<connectionVars, underlayVars>>
     \/ aspect = "underlay" /\ UnderlayNext /\ UNCHANGED <<connectionVars, chokingVars>>
MCSpec == MCInit /\ [][MCNext]_vars /\ ConnectionFairness /\ ChokingFairness
=============================================================================
