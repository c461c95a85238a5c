---------------------------- MODULE MCDDEClient ----------------------------
(***************************************************************************)
(* Small instances of wireless access selection, one aspect at a time: the *)
(* wireless client with its access points and the information server, and  *)
(* one round of the server's load balancer over its tables.                *)
(***************************************************************************)
EXTENDS DDEClient, DDELoadBalancer

CONSTANT Aspects    \* what the behaviours are about: "handover", "balancing"

PureObserved ==
  [ss : {"BAD_SIGNAL", "GOOD_SIGNAL"}, loss : {"LOW_LOSS", "HIGH_LOSS"}, users : {"LOW"}]

\* Every control with connections closed before a handover (the combined one
\* for files only); and a video client that only unregisters.
HandoverConfigs ==
  [app : {"ftp", "video"}, closeTcp : {TRUE},
   control : {"fuzzy", "learning", "pure", "balanced"}]
    \cup [app : {"ftp"}, closeTcp : {TRUE}, control : {"combined"}]
    \cup [app : {"video"}, closeTcp : {FALSE}, control : {"fuzzy"}]

\* A file download that only unregisters before a handover.
UnregisterConfigs == [app : {"ftp"}, closeTcp : {FALSE}, control : {"fuzzy"}]

CONSTANTS p1, p2, p3, h1, h2, h3, h4

\* Three PoAs: p1 is congested, p2 may be, p3 has room for two or three.
MCAps ==
  {p1 :> [status |-> 1, max |-> 60, available |-> 7] @@ p2 :> [status |-> s, max |-> 60, available |-> 22]
     @@ p3 :> [status |-> 4, max |-> 60, available |-> b] : s \in {1, 3}, b \in {22, 33}}

MCHost(p, class, need, potential, grades) ==
  [poa |-> p, class |-> class, need |-> need, potential |-> potential,
   grade |-> p1 :> grades[1] @@ p2 :> grades[2] @@ p3 :> grades[3]]

\* Three clients at p1, which need the same or not and prefer p2 or p3, and one at p2 that
\* may see nothing but its own PoA.
MCHosts ==
  {h1 :> MCHost(p1, c1, 6, v1, <<2, 4, 3>>) @@ h2 :> MCHost(p1, 2, n2, 2, <<1, 3, 5>>)
     @@ h3 :> MCHost(p1, c3, 6, 3, <<2, 2, 4>>) @@ h4 :> MCHost(p2, 1, 8, 3, g) :
   c1 \in 1 .. 3, c3 \in {1, 3}, v1 \in {2, 4}, n2 \in {9, 21}, g \in {<<1, 4, 4>>, <<0, 4, 0>>}}

MCNetworks == [ap : MCAps, host : MCHosts]
MCRules ==
  [useSubscription : BOOLEAN, goldPreferred : BOOLEAN, useLearning : {FALSE}, single : {NoPoA, p1}]
    \cup [useSubscription : {FALSE}, goldPreferred : {TRUE}, useLearning : {TRUE}, single : {NoPoA}]

VARIABLE aspect

mcVars == <<vars, balancerVars, aspect>>

MCInit ==
  /\ Init /\ BalancerInit
  /\ aspect \in Aspects
  /\ aspect # "handover" => config = CHOOSE c \in Configs : TRUE
  /\ aspect # "handover" => associating = CHOOSE a \in AccessPoints : TRUE
  /\ aspect # "balancing" => network = (CHOOSE n \in Networks : TRUE) /\ rules = (CHOOSE r \in Rules : TRUE)
MCNext ==
  /\ UNCHANGED aspect
  /\ \/ aspect = "handover" /\ Next /\ UNCHANGED balancerVars
     \/ aspect = "balancing" /\ BalancerNext /\ UNCHANGED vars
MCSpec == MCInit /\ [][MCNext]_mcVars /\ Fairness
=============================================================================
