------------------------------ MODULE BTChoking ------------------------------
(***************************************************************************)
(* Whom a BitTorrent peer serves: the choking rounds and the optimistic    *)
(* rounds of BTPeerWireBase over the threads that have shaken hands.       *)
(*                                                                         *)
(* Time goes from one choking round to the next; an optimistic round comes *)
(* with every OptInterval-th of them, before or after it.  A thread counts *)
(* as just changed if it was choked or unchoked since the last round, or   *)
(* by the other round at the same time.  Measured rates change in between. *)
(***************************************************************************)
EXTENDS Integers, FiniteSets, Sequences, SequencesExt

CONSTANTS
    Remote,             \* the remote peers
    Seeders,            \* those that have the whole file: never served
    Downloaders,        \* downloaders
    OptUnchokedPeers,   \* optUnchockedPeers
    Fickle,             \* bound: those that may leave or lose their interest
    Rated,              \* bound: those whose measured rate changes
    OptInterval,        \* choking intervals between optimistic rounds
    MaxRate             \* bound: rates are 0 .. MaxRate

ASSUME SeedersAssumption     == Seeders \subseteq Remote
ASSUME BoundsAssumption      == Fickle \subseteq Remote /\ Rated \subseteq Remote
ASSUME DownloadersAssumption == Downloaders \in Nat \ {0}
ASSUME OptAssumption         == OptUnchokedPeers \in Nat /\ OptInterval \in Nat \ {0}
ASSUME MaxRateAssumption     == MaxRate \in Nat

VARIABLES
    peerState,          \* the remote peers with a thread, in the order they came
    served,             \* of each, its choking state
    minDownloaderRate,
    due,                \* rounds due at this time, or STOPPED
    untilOpt,           \* choking intervals until the next optimistic round
    undefined           \* an optimistic round has erased from an empty set

chokingVars == <<peerState, served, minDownloaderRate, due, untilOpt, undefined>>

(* last is when the thread was choked or unchoked: OLD, BETWEEN the last and *)
(* the next rounds, or RECENT for the rounds at this time.                   *)
NewService == [amChoking |-> TRUE, peerInterested |-> FALSE, optimistic |-> FALSE,
               rate |-> 0, last |-> "OLD"]

(* Both timers start with the first tracker response, or the peer exits      *)
(* without one; the rate starts at the largest float.                        *)
ChokingInit ==
    /\ peerState = <<>>
    /\ served = [r \in Remote |-> NewService]
    /\ minDownloaderRate = MaxRate + 1
    /\ due \in {{"CHOKE", "OPTIMISTIC"}, {"STOPPED"}}
    /\ untilOpt = OptInterval
    /\ undefined = FALSE

Connected   == ToSet(peerState)
Quiet       == due = {}
Rate(r)     == served[r].rate
Eligible(r) == r \notin Seeders /\ served[r].last # "RECENT"

(* timerExpired(UNCHOKE_TIMER) and timerExpired(CHOKE_TIMER) *)
Unchoke(s, r, when) == [s EXCEPT ![r].amChoking = FALSE, ![r].last = when]
Choke(s, r, when)   == [s EXCEPT ![r].amChoking = TRUE, ![r].optimistic = FALSE, ![r].last = when]

----------------------------------------------------------------------------
(* ChokingAlgorithm *)

(* Wrong variant of ByRate: the slowest come first. *)
BySlowness(order) ==
    \A i, j \in DOMAIN order : i < j => Rate(order[i]) <= Rate(order[j])

(* The fastest come first; the sort is free to order equal rates. *)
ByRate(order) ==
    \A i, j \in DOMAIN order : i < j => Rate(order[i]) >= Rate(order[j])

(* One thread of the round.  numDownloaders counts those unchoked so far,    *)
(* but not one unchoked for its rate without interest.                       *)
ChokingStep(a, r) ==
    LET t == a.served[r]
    IN  IF ~Eligible(r) THEN a
        ELSE CASE t.amChoking /\ t.peerInterested /\ a.numDownloaders < Downloaders ->
                    [a EXCEPT !.served = Unchoke(@, r, "RECENT"),
                              !.numDownloaders = @ + 1,
                              !.minRate = IF t.rate <= @ THEN t.rate ELSE @]
               [] t.amChoking /\ ~t.peerInterested /\ t.rate > a.minRate ->
                    [a EXCEPT !.served = Unchoke(@, r, "RECENT")]
               [] ~t.amChoking /\ a.numDownloaders = Downloaders /\ ~t.optimistic ->
                    [a EXCEPT !.served = Choke(@, r, "RECENT")]
               [] ~t.amChoking /\ ~(a.numDownloaders = Downloaders /\ ~t.optimistic) ->
                    [a EXCEPT !.numDownloaders = @ + 1]
               [] OTHER -> a

ChokingRound ==
    /\ "CHOKE" \in due
    /\ \E order \in SetToSeqs(Connected) :
        /\ ByRate(order)
        /\ LET a == FoldLeft(ChokingStep,
                             [served |-> served, numDownloaders |-> 0, minRate |-> minDownloaderRate],
                             order)
           IN  served' = a.served /\ minDownloaderRate' = a.minRate
    /\ due' = due \ {"CHOKE"}
    /\ UNCHANGED <<peerState, untilOpt, undefined>>

----------------------------------------------------------------------------
(* OptimisticUnChokingAlgorithm: some candidates are unchoked, and those     *)
(* unchoked this way before are choked again, but for the longest connected  *)
(* ones where there are fewer candidates than places.                        *)

(* Wrong variant of Choice: always the peers connected last. *)
NewestFirst(candidates, n) ==
    {ToSet(SubSeq(candidates, Len(candidates) - n + 1, Len(candidates)))}

(* chooseOptUnchokePeer: the newest, or any *)
Choice(candidates, n) == {S \in SUBSET ToSet(candidates) : Cardinality(S) = n}

Kept(before, chosen) ==
    LET places == OptUnchokedPeers - chosen
    IN  SubSeq(before, 1, IF Len(before) < places THEN Len(before) ELSE places)

OptimisticRound(chosen) ==
    LET candidates == SelectSeq(peerState, LAMBDA r : Eligible(r) /\ served[r].amChoking)
        before     == SelectSeq(peerState, LAMBDA r : Eligible(r) /\ ~served[r].amChoking
                                                                    /\ served[r].optimistic)
        n          == IF Len(candidates) < OptUnchokedPeers THEN Len(candidates) ELSE OptUnchokedPeers
        dropped    == ToSet(before) \ ToSet(Kept(before, n))
    IN  /\ "OPTIMISTIC" \in due
        /\ chosen \in Choice(candidates, n)
        /\ IF candidates = <<>>
           THEN UNCHANGED <<served, undefined>>
           ELSE /\ served' = [r \in Remote |->
                        CASE r \in chosen  -> [Unchoke(served, r, "RECENT")[r] EXCEPT !.optimistic = TRUE]
                          [] r \in dropped -> Choke(served, r, "RECENT")[r]
                          [] OTHER         -> served[r]]
                /\ undefined' = (undefined \/ Len(before) < OptUnchokedPeers - n)
        /\ due' = due \ {"OPTIMISTIC"}
        /\ UNCHANGED <<peerState, minDownloaderRate, untilOpt>>

----------------------------------------------------------------------------
(* Between the rounds *)

(* The next choking interval is over. *)
NextRound ==
    /\ Quiet
    /\ untilOpt' = IF untilOpt = 1 THEN OptInterval ELSE untilOpt - 1
    /\ due' = {"CHOKE"} \cup (IF untilOpt = 1 THEN {"OPTIMISTIC"} ELSE {})
    /\ served' = [r \in Remote |->
                    [served[r] EXCEPT !.last = IF @ = "BETWEEN" THEN "RECENT" ELSE "OLD"]]
    /\ UNCHANGED <<peerState, minDownloaderRate, undefined>>

(* chokeWorstDownloader: counted from the slowest, the Downloaders-th thread *)
(* that is unchoked is choked.                                               *)
WorstChoked(s) ==
    {Choke(s, order[Downloaders], "BETWEEN") :
        order \in {o \in SetToSeqs({r \in Connected : ~s[r].amChoking}) :
                    Len(o) >= Downloaders /\ \A i, j \in DOMAIN o : i < j => Rate(o[i]) <= Rate(o[j])}}

(* dataArrived(INTERESTED_MSG): an unchoked peer that is faster than the     *)
(* slowest downloader so far takes the place of one.                         *)
Interested(r) ==
    /\ Quiet /\ r \in Connected \ Seeders /\ ~served[r].peerInterested
    /\ LET now == [served EXCEPT ![r].peerInterested = TRUE]
       IN  IF ~now[r].amChoking /\ Rate(r) > minDownloaderRate /\ WorstChoked(now) # {}
           THEN served' \in WorstChoked(now)
           ELSE served' = now
    /\ UNCHANGED <<peerState, minDownloaderRate, due, untilOpt, undefined>>

NotInterested(r) ==
    /\ Quiet /\ r \in Connected \cap Fickle /\ served[r].peerInterested
    /\ served' = [served EXCEPT ![r].peerInterested = FALSE]
    /\ UNCHANGED <<peerState, minDownloaderRate, due, untilOpt, undefined>>

(* INTERNAL_MEASURE_DOWNLOAD_RATE_TIMER, or of the upload for a seeding peer *)
Measured(r) ==
    /\ Quiet /\ r \in Connected \cap Rated
    /\ \E rate \in 0 .. MaxRate : served' = [served EXCEPT ![r].rate = rate]
    /\ UNCHANGED <<peerState, minDownloaderRate, due, untilOpt, undefined>>

ShakesHands(r) ==
    /\ Quiet /\ r \notin Connected
    /\ peerState' = Append(peerState, r)
    /\ UNCHANGED <<served, minDownloaderRate, due, untilOpt, undefined>>

Leaves(r) ==
    /\ Quiet /\ r \in Connected \cap Fickle
    /\ peerState' = RemoveFirst(peerState, r)
    /\ served' = [served EXCEPT ![r] = NewService]
    /\ UNCHANGED <<minDownloaderRate, due, untilOpt, undefined>>

(* stopChokingAlorithms, when the peer exits and all threads close *)
StopChokingAlgorithms ==
    /\ Quiet
    /\ due' = {"STOPPED"}
    /\ peerState' = <<>>
    /\ served' = [r \in Remote |-> NewService]
    /\ UNCHANGED <<minDownloaderRate, untilOpt, undefined>>

RemoteStep(r) == Interested(r) \/ NotInterested(r) \/ Measured(r) \/ ShakesHands(r) \/ Leaves(r)
AnOptimisticRound == \E chosen \in SUBSET Remote : OptimisticRound(chosen)

ChokingNext == \/ ChokingRound \/ AnOptimisticRound \/ NextRound \/ StopChokingAlgorithms
               \/ \E r \in Remote : RemoteStep(r)

ChokingSpec == ChokingInit /\ [][ChokingNext]_chokingVars

(* The timers go on, and intrand picks every candidate again and again.      *)
ChokingFairness ==
    /\ WF_chokingVars(ChokingRound) /\ WF_chokingVars(AnOptimisticRound) /\ WF_chokingVars(NextRound)
    /\ \A r \in Remote : SF_chokingVars(\E chosen \in SUBSET Remote : r \in chosen /\ OptimisticRound(chosen))

----------------------------------------------------------------------------
(* Properties *)

(* An interested peer is left choked by a choking round only if as many      *)
(* peers as there are places are served that are at least as fast.           *)
FastestAreServed ==
    [][ChokingRound =>
        \A r \in Connected : Eligible(r) /\ served[r].peerInterested /\ served'[r].amChoking =>
            Cardinality({q \in Connected : ~served'[q].amChoking /\ Rate(q) >= Rate(r)}) >= Downloaders
      ]_chokingVars

(* A peer that stays and stays interested is served some time, however slow. *)
EveryoneHasATurn ==
    \A r \in Remote \ Seeders :
        r \in Connected /\ served[r].peerInterested
            ~> r \notin Connected \/ ~served[r].peerInterested \/ ~served[r].amChoking

=============================================================================
