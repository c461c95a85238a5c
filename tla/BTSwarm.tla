------------------------------ MODULE BTSwarm ------------------------------
(***************************************************************************)
(* A downloading peer and the remote peers it is connected to.  A remote   *)
(* peer runs the same code; what matters of it here is the side that       *)
(* serves requests (dataArrived(REQUEST_MSG), PIECE_TIMER, CHOKE_TIMER,    *)
(* UNCHOKE_TIMER, CLOSE_CONNECTION_TIMER).  When its choking rounds choke  *)
(* or unchoke, when it obtains a piece and when it leaves is left open.    *)
(*                                                                         *)
(* TCP connections are queues.  A message of a remote peer is handled when *)
(* the agenda of the peer is empty: self-messages have the current time.   *)
(***************************************************************************)
EXTENDS BTPeerWire

CONSTANTS
    Swarms,             \* the swarms to look at, see Swarm
    MaxChokes,          \* bound: times a remote peer may choke
    SlowChoking         \* TRUE: a choking interval is longer than a round trip

(* A swarm: whether the peer has the end game enabled, what each remote peer *)
(* has at first, which of them download too, and which may leave.            *)
Swarm == [endGame : BOOLEAN, pieces : [Remote -> SUBSET Piece],
          gaining : SUBSET Remote, leaving : SUBSET Remote]

ASSUME SwarmsAssumption      == Swarms \subseteq Swarm
ASSUME MaxChokesAssumption   == MaxChokes \in Nat
ASSUME SlowChokingAssumption == SlowChoking \in BOOLEAN

VARIABLES
    fromRemote,         \* messages on their way to the peer
    remote              \* the remote peers

vars == <<peer, fromRemote, remote>>

SwarmInit == \E swarm \in Swarms :
    /\ peer = InitialPeer(swarm.endGame)
    /\ fromRemote = [r \in Remote |-> <<>>]
    /\ remote = [r \in Remote |->
                    [has |-> swarm.pieces[r], amChoking |-> TRUE, peerInterested |-> FALSE,
                     closed |-> FALSE, chokes |-> 0,
                     gaining |-> r \in swarm.gaining, leaving |-> r \in swarm.leaving]]

Idle         == peer.agenda = <<>>
Connected(r) == peer.thread[r].conn = "OPEN" /\ ~remote[r].closed
ToPeer(r, m) == fromRemote' = [fromRemote EXCEPT ![r] = Append(@, m)]

----------------------------------------------------------------------------
(* The peer *)

(* The handshake ends, and the remote peer sends its bit field, if it has    *)
(* a piece.                                                                  *)
Connect(r) ==
    /\ Idle
    /\ peer.thread[r].conn = "NONE"
    /\ peer' = HandshakeComplete(peer, r)
    /\ IF remote[r].has = {} THEN UNCHANGED fromRemote ELSE ToPeer(r, BitfieldMsg(remote[r].has))
    /\ UNCHANGED remote

Receive(r) ==
    /\ Idle
    /\ fromRemote[r] # <<>>
    /\ fromRemote' = [fromRemote EXCEPT ![r] = Tail(@)]
    /\ peer' = DataArrived(peer, r, Head(fromRemote[r]))
    /\ UNCHANGED remote

(* TCP reports that both sides have closed. *)
Closed(r) ==
    /\ Idle
    /\ peer.thread[r].conn = "ABORTING"
    /\ peer' = ConnectionClosed(peer, r)
    /\ UNCHANGED <<fromRemote, remote>>

SelfMessage ==
    /\ ~Idle
    /\ LET item == Head(peer.agenda)
       IN  peer' \in HandleSelf([peer EXCEPT !.agenda = Tail(@)], item.remote, item.msg)
    /\ UNCHANGED <<fromRemote, remote>>

----------------------------------------------------------------------------
(* The remote peers *)

(* A request is served if this peer is unchoked and interested and the block *)
(* is there, and dropped otherwise.  A cancel finds nothing to cancel: the   *)
(* block has been sent at the time of the request.                           *)
Serves(r, m) == /\ m.kind = "REQUEST"
                /\ ~remote[r].amChoking /\ remote[r].peerInterested
                /\ m.index \in remote[r].has

RemoteReceives(r) ==
    /\ Idle /\ ~remote[r].closed
    /\ peer.toRemote[r] # <<>>
    /\ LET m == Head(peer.toRemote[r])
       IN  /\ remote' = IF m.kind \in {"INTERESTED", "NOT_INTERESTED"}
                        THEN [remote EXCEPT ![r].peerInterested = (m.kind = "INTERESTED")]
                        ELSE remote
           /\ IF Serves(r, m)
              THEN ToPeer(r, PieceMsg(<<m.index, m.begin>>))
              ELSE UNCHANGED fromRemote
    /\ peer' = [peer EXCEPT !.toRemote[r] = Tail(@)]

(* Nothing this peer sent before it knew of the last choke is still under way. *)
Drained(r) == /\ \A i \in DOMAIN fromRemote[r] : fromRemote[r][i].kind # "CHOKE"
              /\ \A i \in DOMAIN peer.toRemote[r] : peer.toRemote[r][i].kind # "REQUEST"

RemoteUnchokes(r) ==
    /\ Idle /\ Connected(r)
    /\ remote[r].amChoking
    /\ SlowChoking => Drained(r)
    /\ remote' = [remote EXCEPT ![r].amChoking = FALSE]
    /\ ToPeer(r, StateMsg("UNCHOKE"))
    /\ UNCHANGED peer

RemoteChokes(r) ==
    /\ Idle /\ Connected(r)
    /\ ~remote[r].amChoking
    /\ remote[r].chokes < MaxChokes
    /\ remote' = [remote EXCEPT ![r].amChoking = TRUE, ![r].chokes = @ + 1]
    /\ ToPeer(r, StateMsg("CHOKE"))
    /\ UNCHANGED peer

(* Another peer has sent it the last block of a piece: informPeers. *)
RemoteGains(r) ==
    /\ Idle /\ remote[r].gaining /\ ~remote[r].closed
    /\ \E p \in Piece \ remote[r].has :
          /\ remote' = [remote EXCEPT ![r].has = @ \cup {p}]
          /\ IF Connected(r) THEN ToPeer(r, HaveMsg(p)) ELSE UNCHANGED fromRemote
    /\ UNCHANGED peer

RemoteCloses(r) ==
    /\ Idle /\ remote[r].leaving /\ Connected(r)
    /\ remote' = [remote EXCEPT ![r].closed = TRUE, ![r].amChoking = TRUE]
    /\ fromRemote' = [fromRemote EXCEPT ![r] =
            (IF remote[r].amChoking THEN @ ELSE Append(@, StateMsg("CHOKE"))) \o <<Msg("CLOSE")>>]
    /\ UNCHANGED peer

----------------------------------------------------------------------------
PeerEvent(r)   == Connect(r) \/ Receive(r) \/ Closed(r)
RemoteEvent(r) == \/ RemoteReceives(r) \/ RemoteUnchokes(r) \/ RemoteChokes(r)
                  \/ RemoteGains(r) \/ RemoteCloses(r)

Next == SelfMessage \/ \E r \in Remote : PeerEvent(r) \/ RemoteEvent(r)

(* The event queue delivers every message, and a choking round of a remote   *)
(* peer unchokes this one some time.  The first two conjuncts are weak       *)
(* fairness of SelfMessage and PeerEvent(r), with their guards in place of   *)
(* ENABLED, which TLC cannot evaluate fast for handlers of this size.        *)
PeerEventEnabled(r) == /\ Idle
                       /\ \/ peer.thread[r].conn \in {"NONE", "ABORTING"}
                          \/ fromRemote[r] # <<>>

Fairness == /\ []<>Idle \/ []<><<SelfMessage>>_vars
            /\ \A r \in Remote : /\ []<>~PeerEventEnabled(r) \/ []<><<PeerEvent(r)>>_vars
                                 /\ WF_vars(RemoteReceives(r))
                                 /\ WF_vars(RemoteUnchokes(r))

Spec     == SwarmInit /\ [][Next]_vars
FairSpec == Spec /\ Fairness

----------------------------------------------------------------------------
(* Properties *)

bf            == peer.localBitfield
RequestsOf(r) == ToSet(peer.thread[r].requests)
Pending       == UNION {RequestsOf(r) : r \in Remote}
BlocksOf(p)   == {p} \X Block

(* numRemainingBlocks counts the missing blocks exactly, and a piece counts  *)
(* as available just when its blocks are: the counters decide when the       *)
(* download is over (BitField::update).  Those of requests agree with what   *)
(* the threads have pending: by piece (isPieceRequested keeps other threads  *)
(* off it) and in all (which starts the end game).  Without an end game no   *)
(* choke and no closed connection leaves a missing block marked as requested *)
(* that nobody has asked for (updateBlockRequests).                          *)
BlocksCounted ==
    /\ bf.numRemainingBlocks = Cardinality((Piece \X Block) \ bf.blockfield)
    /\ bf.numRemainingPieces = Cardinality(Piece \ bf.bitfield)
    /\ \A p \in Piece : p \in bf.bitfield <=> BlocksOf(p) \subseteq bf.blockfield
    /\ peer.state = "NORMAL" =>
        /\ \A p \in Piece : bf.currentlyRequested[p] = Cardinality(Pending \cap BlocksOf(p))
        /\ bf.numNonRequestedNonAvailableBlocks
                = Cardinality((Piece \X Block) \ (bf.requested \cup bf.blockfield))
    /\ ~peer.enableEndGameMode => bf.requested \ bf.blockfield = Pending \ bf.blockfield

(* Outside the end game all pending requests for blocks of a piece are of    *)
(* one thread (comment of updateBlockRequests), and none is pending twice.   *)
OneThreadPerPiece ==
    peer.state = "NORMAL" =>
        /\ \A r \in Remote : /\ Cardinality(RequestsOf(r)) = Len(peer.thread[r].requests)
                             /\ Len(peer.thread[r].requests) <= RequestQueueDepth
        /\ \A q, r \in Remote : \A e \in RequestsOf(q), f \in RequestsOf(r) : e[1] = f[1] => q = r

(* The marks of the bit field agree with the requests of the threads.        *)
RequestsTracked == BlocksCounted /\ OneThreadPerPiece

(* No thread idles: an unchoked, interested thread with room in its queue    *)
(* leaves no piece unrequested that its remote peer has (updateInterests).   *)
(* In the end game all missing blocks are pending in every such thread,      *)
(* except those it was asked for first (scheduleEndGameRequests): no choke   *)
(* leaves a thread behind.                                                   *)
NoThreadIdles ==
    Idle => \A r \in Remote :
        Established(peer, r) /\ ~peer.thread[r].peerChoking /\ peer.thread[r].amInterested =>
            /\ peer.state = "NORMAL" /\ CanRequestMore(peer, r) /\ (\A q \in Remote : ~remote[q].gaining)
                    => Candidates(peer, r) = {}
            /\ peer.state = "ENDGAME"
                    => \A e \in (Piece \X Block) \ bf.blockfield :
                            e \in RequestsOf(r) \/ <<r, e>> \in ToSet(peer.endGameRequests)

(* Every peer connected hears of every piece this peer completes, the last   *)
(* one included (informPeers), and is told of interest when it has a piece   *)
(* this peer lacks: a peer that never hears INTERESTED never serves.         *)
PiecesAnnounced ==
    \A r \in Remote :
        Established(peer, r) =>
            /\ bf.bitfield \subseteq peer.thread[r].announced
            /\ Idle /\ ~Completed(peer) /\ AmInterested(peer, r) => peer.thread[r].amInterested

(* Outside the end game, a block is sent over a connection only if the peer  *)
(* waits for it there: no block crosses the network twice (clearing of       *)
(* requests on a choke).                                                     *)
NothingSentTwice ==
    peer.state = "NORMAL" =>
        \A r \in Remote :
            LET sent  == fromRemote[r]
                BlockAt(i) == <<sent[i].index, sent[i].begin>>
                sending == {i \in DOMAIN sent : sent[i].kind = "PIECE"}
            IN  /\ peer.thread[r].conn = "OPEN" => \A i \in sending : BlockAt(i) \in RequestsOf(r)
                /\ \A i, j \in sending : BlockAt(i) = BlockAt(j) => i = j

(* The file is downloaded in the end. *)
DownloadCompletes == <>(peer.enableEndGameMode \/ peer.state = "SEEDING")
=============================================================================
