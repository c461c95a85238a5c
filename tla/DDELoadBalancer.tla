--------------------------- MODULE DDELoadBalancer ---------------------------
(***************************************************************************)
(* One round of load balancing: the information server samples its tables, *)
(* clients and access points (PoAs) are ranked, and for the congested PoAs,*)
(* worst first, the clients in the order of their ranking are given a PoA  *)
(* that has room for them.                                                 *)
(* Bandwidths are in units of 100 kbit/s; classifications and the results  *)
(* of fuzzy inference are the peaks 0 .. 5 of their terms.                 *)
(***************************************************************************)
EXTENDS Integers, Sequences, FiniteSets, SequencesExt

CONSTANTS
  PoAs, Hosts,
  Networks,                 \* tables: [ap, host], see TablesOf
  Rules,                    \* [useSubscription, goldPreferred, useLearning, single]
  CongestionThreshold,
  ClientsPoAGradingLimit, PoARankingLimit,
  PoAMargin,                \* room to be left at a PoA
  SimultaneousHOs           \* moves from a congested PoA, without learning

NoPoA == "none"

ASSUME TablesAssumption == IsFiniteSet(PoAs) /\ IsFiniteSet(Hosts) /\ NoPoA \notin PoAs
ASSUME LimitsAssumption ==
  /\ PoARankingLimit \in 1 .. 5 /\ ClientsPoAGradingLimit \in 0 .. 5
  /\ SimultaneousHOs \in Nat \ {0} /\ PoAMargin \in Nat

VARIABLES
  network,                  \* the tables the round works on
  rules,
  at,                       \* "sample", "poa", "client", "done", or "error": parsing failed
  poaRanking, clientRanking,
  m, i,                     \* places in the rankings
  capacity,                 \* the bandwidth available at each PoA
  chosenAction,             \* of the learning component of each PoA
  recommended               \* target of each client that is to move

balancerVars == <<network, rules, at, poaRanking, clientRanking, m, i, capacity, chosenAction,
                  recommended>>

\* The tables: what the access points have reported, and for each client the PoA it is
\* at, its class (gold 3, silver 2, bronze 1), its bandwidth, what fuzzy inference makes of
\* its candidacy, and how good it would find each PoA.  The maximum of a PoA is divided by.
TablesOf(statuses, bandwidths, needs, grades) ==
  [ap : [PoAs -> [status : statuses, max : bandwidths \ {0}, available : bandwidths]],
   host : [Hosts -> [poa : PoAs, class : 1 .. 3, need : needs, potential : 0 .. 5,
                     grade : [PoAs -> grades]]]]

ASSUME NetworksAssumption == Networks \subseteq TablesOf(1 .. 5, Nat, Nat, 0 .. 5)
ASSUME RulesAssumption ==
  Rules \subseteq [useSubscription : BOOLEAN, goldPreferred : BOOLEAN, useLearning : BOOLEAN,
                   single : PoAs \cup {NoPoA}]

BalancerInit ==
  /\ network \in Networks /\ rules \in Rules
  /\ at = "sample"
  /\ poaRanking = <<>> /\ clientRanking = <<>> /\ m = 0 /\ i = 0
  /\ capacity = [p \in PoAs |-> network.ap[p].available]
  /\ chosenAction = [p \in PoAs |-> 0]
  /\ recommended = [h \in Hosts |-> NoPoA]

Host(h) == network.host[h]
Ap(p) == network.ap[p]

Congested(p) == Ap(p).status < CongestionThreshold

-----------------------------------------------------------------------------
(* Fuzzy inference and rankings *)

\* VERY_LOW to VERY_HIGH, at the peaks of the terms.
AvailableBandwidth(b) == Cardinality({peak \in {7, 14, 22, 33, 51} : b >= peak})

\* The consequences of the rules for an access point that is not congested: by status from
\* VERY_BAD to VERY_GOOD, and by bandwidth.
CapacityRules == << <<0, 0, 0, 0, 0, 0>>, <<0, 0, 0, 1, 1, 1>>, <<0, 0, 1, 2, 3, 4>>,
                    <<0, 1, 2, 3, 4, 5>>, <<0, 2, 3, 4, 5, 5>>, <<0, 2, 3, 4, 5, 5>> >>

\* How well a PoA can take more clients.
Capacity(p) ==
  IF Congested(p) THEN 0
  ELSE CapacityRules[Ap(p).status + 1][AvailableBandwidth(Ap(p).available) + 1]

\* The comparisons of client ranking.
ByPotential(g, h) == Host(g).potential > Host(h).potential
GoldFirst(g, h) ==
  \/ Host(g).class > Host(h).class
  \/ Host(g).class = Host(h).class /\ Host(g).potential > Host(h).potential
BronzeFirst(g, h) ==
  \/ Host(g).class < Host(h).class
  \/ Host(g).class = Host(h).class /\ Host(g).potential < Host(h).potential

\* Wrong variant: the classes count although they are not to be used.
ComesBeforeByClass(g, h) == IF rules.goldPreferred THEN GoldFirst(g, h) ELSE BronzeFirst(g, h)

ComesBefore(g, h) ==
  IF ~rules.useSubscription THEN ByPotential(g, h)
  ELSE IF rules.goldPreferred THEN GoldFirst(g, h)
  ELSE BronzeFirst(g, h)

Users(p, class) == Cardinality({h \in Hosts : Host(h).poa = p /\ Host(h).class = class})

\* Lexicographic: not congested, high capacity, few gold, silver, bronze users.
PoABefore(p, q) ==
  LET Key(a) == <<IF Congested(a) THEN 1 ELSE 0, -Capacity(a),
                  Users(a, 3), Users(a, 2), Users(a, 1)>>
  IN  \E k \in 1 .. 5 : /\ Key(p)[k] < Key(q)[k]
                        /\ \A l \in 1 .. k - 1 : Key(p)[l] = Key(q)[l]

\* What sort makes of a set: equals in any order.
Sorted(S, Before(_, _)) ==
  {s \in SetToSeqs(S) : \A k \in 1 .. Len(s) : \A l \in 1 .. k - 1 : ~Before(s[k], s[l])}

\* The PoAs a client reports to see, best first: those with a grade above 1.
PoAList(h) ==
  LET Better(p, q) == Host(h).grade[p] > Host(h).grade[q]
  IN  CHOOSE s \in Sorted({p \in PoAs : Host(h).grade[p] > 1}, Better) : TRUE

\* Wrong variant of PoAList: worst first.
PoAListAscending(h) == Reverse(PoAList(h))

-----------------------------------------------------------------------------
(* The choice of a PoA *)

ClientsGrading(h) == PoAList(h)

\* The client's list is read up to the first PoA that is graded too low; its own is skipped.
SeesWell(h, p) ==
  LET list == ClientsGrading(h)
  IN  \E k \in 1 .. Len(list) :
        /\ list[k] = p
        /\ \A l \in 1 .. k : list[l] # Host(h).poa =>
                               Host(h).grade[list[l]] >= ClientsPoAGradingLimit

HasRoom(h, p) == Host(h).need <= capacity[p] - PoAMargin

\* Place j of the PoA ranking is reached: no place before it with room has a low capacity.
Reached(h, j) ==
  \A l \in 1 .. j - 1 :
    poaRanking[l] # Host(h).poa /\ HasRoom(h, poaRanking[l])
      => Capacity(poaRanking[l]) >= PoARankingLimit

Suitable(h) ==
  {j \in 1 .. Len(poaRanking) :
     /\ poaRanking[j] # Host(h).poa
     /\ HasRoom(h, poaRanking[j])
     /\ SeesWell(h, poaRanking[j])
     /\ Capacity(poaRanking[j]) >= PoARankingLimit
     /\ Reached(h, j)}

\* The bandwidth that clients need together: the number of pairs of one of them and a unit.
Demand(clients) == Cardinality(UNION {{h} \X (1 .. Host(h).need) : h \in clients})

\* The clients that moves takes away from p, and their bandwidth.
Moved(p, moves) == {h \in Hosts : Host(h).poa = p /\ moves[h] # NoPoA}
Freed(p, moves) == Demand(Moved(p, moves))

\* Wrong variant: replaced only when less was freed than asked for.
RealisedActionIfLess(p) ==
  IF 20 * Freed(p, recommended) >= chosenAction[p] * Ap(p).max THEN chosenAction[p]
  ELSE Min({10, (20 * Freed(p, recommended) + Ap(p).max - 1) \div Ap(p).max})

\* An action a stands for a * 5 % of the bandwidth of the PoA.  It is replaced by the one
\* that was realised, also when more was freed than it asked for.
RealisedAction(p) ==
  IF 20 * Freed(p, recommended) = chosenAction[p] * Ap(p).max THEN chosenAction[p]
  ELSE Min({10, (20 * Freed(p, recommended) + Ap(p).max - 1) \div Ap(p).max})

-----------------------------------------------------------------------------
(* A round *)

Sample ==
  /\ at = "sample"
  /\ clientRanking' \in Sorted(Hosts, ComesBefore)
  /\ poaRanking' \in Sorted(PoAs, PoABefore)
  /\ m' = Cardinality(PoAs)
  /\ at' = "poa"
  /\ UNCHANGED <<network, rules, i, capacity, chosenAction, recommended>>

\* The exploration of a learning component, whose Q matrix is all zero: any action.
Actions == IF rules.useLearning THEN 0 .. 10 ELSE {0}

\* The ranking is gone through from its end.
CongestedPoA ==
  /\ at = "poa" /\ m > 0 /\ Congested(poaRanking[m])
  /\ IF rules.single \notin {NoPoA, poaRanking[m]}
     THEN m' = m - 1 /\ UNCHANGED <<at, i, chosenAction>>
     ELSE /\ \E a \in Actions :
               chosenAction' = [chosenAction EXCEPT ![poaRanking[m]] = a]
          /\ i' = 1 /\ at' = "client" /\ UNCHANGED m
  /\ UNCHANGED <<network, rules, poaRanking, clientRanking, capacity, recommended>>

\* The recommendations are sent, each to the first access point named, one to a client.
EndRound ==
  /\ at = "poa" /\ (m > 0 => ~Congested(poaRanking[m]))
  /\ at' = "done"
  /\ UNCHANGED <<network, rules, poaRanking, clientRanking, m, i, capacity, chosenAction,
                 recommended>>

Enough(p, moves) ==
  IF rules.useLearning THEN 20 * Freed(p, moves) >= chosenAction[p] * Ap(p).max
  ELSE Cardinality(Moved(p, moves)) >= SimultaneousHOs

\* A handover event is added.
Recommending(h, p) == [recommended EXCEPT ![h] = p]

\* After each client it is asked whether enough is moved.
NextClient(moves) ==
  /\ recommended' = moves
  /\ i' = IF Enough(poaRanking[m], moves) THEN Len(clientRanking) + 1 ELSE i + 1

\* Wrong variant of MoveClient: the capacity of the new PoA is left as it is.
MoveClientKeepsCapacity ==
  /\ at = "client" /\ i <= Len(clientRanking)
  /\ LET h == clientRanking[i] IN
       /\ Host(h).poa = poaRanking[m] /\ Len(ClientsGrading(h)) >= 2 /\ Suitable(h) # {}
       /\ NextClient(Recommending(h, poaRanking[Min(Suitable(h))]))
  /\ UNCHANGED <<network, rules, at, poaRanking, clientRanking, m, capacity, chosenAction>>

\* A client of the congested PoA gets the first PoA of the ranking that suits it.
MoveClient ==
  /\ at = "client" /\ i <= Len(clientRanking)
  /\ LET h == clientRanking[i] IN
       /\ Host(h).poa = poaRanking[m] /\ Len(ClientsGrading(h)) >= 2 /\ Suitable(h) # {}
       /\ LET p == poaRanking[Min(Suitable(h))] IN
            /\ NextClient(Recommending(h, p))
            /\ capacity' = [capacity EXCEPT ![p] = @ - Host(h).need]
  /\ UNCHANGED <<network, rules, at, poaRanking, clientRanking, m, chosenAction>>

\* A client of another PoA, or one that no PoA suits.
PassClient ==
  /\ at = "client" /\ i <= Len(clientRanking)
  /\ LET h == clientRanking[i] IN
       Host(h).poa = poaRanking[m] => Len(ClientsGrading(h)) >= 2 /\ Suitable(h) = {}
  /\ NextClient(recommended)
  /\ UNCHANGED <<network, rules, at, poaRanking, clientRanking, m, capacity, chosenAction>>

\* A list of fewer than two PoAs is taken for malformed, and nothing catches the exception.
ParseFails ==
  /\ at = "client" /\ i <= Len(clientRanking)
  /\ Host(clientRanking[i]).poa = poaRanking[m] /\ Len(ClientsGrading(clientRanking[i])) < 2
  /\ at' = "error"
  /\ UNCHANGED <<network, rules, poaRanking, clientRanking, m, i, capacity, chosenAction,
                 recommended>>

EndPoA ==
  /\ at = "client" /\ i > Len(clientRanking)
  /\ LET p == poaRanking[m] IN
       chosenAction' = IF rules.useLearning THEN [chosenAction EXCEPT ![p] = RealisedAction(p)]
                       ELSE chosenAction
  /\ m' = m - 1 /\ at' = "poa"
  /\ UNCHANGED <<network, rules, poaRanking, clientRanking, i, capacity, recommended>>

BalancerNext == Sample \/ CongestedPoA \/ EndRound \/ MoveClient \/ PassClient \/ ParseFails
                  \/ EndPoA

BalancerSpec == BalancerInit /\ [][BalancerNext]_balancerVars

-----------------------------------------------------------------------------
(* Properties *)

\* "skip the PoA if client requires more bandwidth than the proposed PoA can offer"
\* (eventmanagerex.cc:177): all clients sent to a PoA in a round fit in what it had to offer,
\* with the margin left over.
RoomIsLeft ==
  \A p \in PoAs :
    LET coming == {h \in Hosts : recommended[h] = p}
    IN  coming # {} => Demand(coming) + PoAMargin <= Ap(p).available

\* A move leads from a congested PoA to one that is not, that can take clients, and that the
\* client finds good enough (eventmanagerex.cc:110, 184-213).
MovesHelp ==
  \A h \in Hosts : recommended[h] # NoPoA =>
    /\ Congested(Host(h).poa) /\ ~Congested(recommended[h])
    /\ Host(h).grade[recommended[h]] >= ClientsPoAGradingLimit

\* The clients that move relieve a congested PoA without congesting another one.
MovesFit == MovesHelp /\ RoomIsLeft

\* p has room for h, can take clients, and h would find it good enough.
CouldGo(h, p) ==
  /\ p # Host(h).poa
  /\ HasRoom(h, p) /\ ~Congested(p) /\ Capacity(p) >= PoARankingLimit
  /\ Host(h).grade[p] > 1 /\ Host(h).grade[p] >= ClientsPoAGradingLimit

\* Both searches stop early, at the first PoA that is ranked or graded too low ("no more
\* potential PoAs", eventmanagerex.cc:215, 221).  Still, when fewer clients than allowed have
\* left a congested PoA, none of those that stay had a PoA to go to.
NobodyLeftBehind ==
  at = "done" /\ ~rules.useLearning /\ rules.single = NoPoA =>
    \A h \in Hosts :
      Congested(Host(h).poa) /\ recommended[h] = NoPoA
        /\ Cardinality(Moved(Host(h).poa, recommended)) < SimultaneousHOs
      => \A p \in PoAs : ~CouldGo(h, p)

\* g is to be preferred to h as the rules say: by class, gold or bronze first, and among
\* equals (bronze first excepted) by potential.
IsPreferred(g, h) ==
  LET G == Host(g)  H == Host(h)
  IN  IF ~rules.useSubscription THEN G.potential > H.potential
      ELSE IF rules.goldPreferred
           THEN G.class > H.class \/ (G.class = H.class /\ G.potential > H.potential)
           ELSE G.class < H.class

\* Nobody is overtaken: a client that moves leaves no preferred client at its PoA that sees
\* the new PoA as well and needs no more of it (expertsystem.cc:62-90).
PreferredFirst ==
  \A g, h \in Hosts :
    /\ Host(g).poa = Host(h).poa /\ IsPreferred(g, h)
    /\ recommended[h] # NoPoA
    /\ Host(g).grade[recommended[h]] >= Max({2, ClientsPoAGradingLimit})
    /\ Host(g).need <= Host(h).need
    => recommended[g] # NoPoA

\* "Otherwise the feedback goes to the wrong action" (eventmanagerex.cc:253-254, in Finnish): the
\* action that will be judged is the smallest that frees what the moves free.
FeedbackFitsAction ==
  rules.useLearning =>
    \A k \in 1 .. Len(poaRanking) :
      k > m /\ at \in {"poa", "done"} /\ rules.single \in {NoPoA, poaRanking[k]} =>
        LET p == poaRanking[k]
        IN  /\ chosenAction[p] = 10 \/ 20 * Freed(p, recommended) <= chosenAction[p] * Ap(p).max
            /\ chosenAction[p] = 0 \/ 20 * Freed(p, recommended) > (chosenAction[p] - 1) * Ap(p).max

\* "best candidates to be moved are in the beginning of the vector" (eventmanagerex.cc:62):
\* among the clients of a class the potential for a handover decreases.
BestCandidatesFirst ==
  \A k, l \in 1 .. Len(clientRanking) :
    k < l /\ Host(clientRanking[k]).class = Host(clientRanking[l]).class =>
      Host(clientRanking[k]).potential >= Host(clientRanking[l]).potential
=============================================================================
