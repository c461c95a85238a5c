----------------------------- MODULE BTPeerWire -----------------------------
(***************************************************************************)
(* The peer-wire protocol of a BitTorrent peer that downloads: class       *)
(* BTPeerWireBase and its connection handlers, the threads of class        *)
(* BTPeerWireClientHandlerBase.                                            *)
(*                                                                         *)
(* peer is the whole state of the peer, and a handler an operator from one *)
(* value of it to the next: handlers call each other, and one message may  *)
(* change many threads.  MakeNextPeerMove draws a random piece; it is the  *)
(* set of the values it may lead to.                                       *)
(*                                                                         *)
(* A handler schedules messages to the same peer at the current time.      *)
(* OMNeT++ delivers those in the order they were scheduled, before any     *)
(* message that arrives later: they are the sequence agenda.               *)
(*                                                                         *)
(* The handshake and the limits on connections are in BTConnections, the   *)
(* choking rounds in BTChoking.  Not here: super seeding, keep-alives      *)
(* (their timer only sends, the alive timer does nothing) and statistics.  *)
(***************************************************************************)
EXTENDS BitField, Sequences, SequencesExt

CONSTANTS
    Remote,             \* the remote peers
    RequestQueueDepth,  \* request_queue_depth: pending requests of a thread
    RarestListSize      \* rarest_list_size

ASSUME RequestQueueDepthAssumption == RequestQueueDepth \in Nat \ {0}
ASSUME RarestListSizeAssumption    == RarestListSize \in Nat \ {0}

VARIABLE peer

(* A thread.  conn is NONE before its handshake, OPEN from then on, ABORTING *)
(* when the remote peer has closed, and GONE once the thread is removed;     *)
(* announced are the pieces of ours that the remote peer was told of.        *)
InitialThread ==
    [conn |-> "NONE", remoteBitfield |-> {}, amInterested |-> FALSE, peerChoking |-> TRUE,
     allowedToRequest |-> TRUE, inEndGame |-> FALSE, announced |-> {}, requests |-> <<>>]

(* Messages of the protocol; index and begin are 0 where a kind has none,    *)
(* and pieces is the payload of a BITFIELD.                                  *)
Msg(kind)          == [kind |-> kind, index |-> 0, begin |-> 0, pieces |-> {}]
HaveMsg(p)         == [Msg("HAVE") EXCEPT !.index = p]
BitfieldMsg(S)     == [Msg("BITFIELD") EXCEPT !.pieces = S]
RequestMsg(kind, e) == [Msg(kind) EXCEPT !.index = e[1], !.begin = e[2]]      \* REQUEST or CANCEL
PieceMsg(e)        == [Msg("PIECE") EXCEPT !.index = e[1], !.begin = e[2]]
StateMsg(kind)     == Msg(kind)

(* Self-messages: the thread each is for, and the message. *)
SelfMsg(r, m) == [remote |-> r, msg |-> m]

(* The peer at first; enableEndGameMode is a parameter of the module. *)
InitialPeer(enableEndGameMode) ==
           [localBitfield |-> EmptyBitField,
            enableEndGameMode |-> enableEndGameMode,
            state |-> "NORMAL",
            pieceFreq |-> [p \in Piece |-> 0],
            peerState |-> <<>>,                 \* remote peers, in the order they connected
            endGameRequests |-> <<>>,           \* <<peer asked first, request>>
            thread |-> [r \in Remote |-> InitialThread],
            agenda |-> <<>>,
            toRemote |-> [r \in Remote |-> <<>>]]

Completed(s)    == s.state \in {"COMPLETED", "SEEDING", "EXITING"}
Established(s, r) == s.thread[r].conn = "OPEN"      \* state() >= HANDSHAKE_COMPLETE
Available(s, e) == e \in s.localBitfield.blockfield

Schedule(s, r, m) == [s EXCEPT !.agenda = Append(@, SelfMsg(r, m))]

(* sendMessage: nothing is sent once the connection is being torn down. *)
SendMessage(s, r, m) == IF Established(s, r) THEN [s EXCEPT !.toRemote[r] = Append(@, m)] ELSE s

AmInterested(s, r) == s.thread[r].remoteBitfield \ s.localBitfield.bitfield # {}

----------------------------------------------------------------------------
(* Choosing a piece *)

\* Wrong variant of Candidates: pieces that another thread is asking for are taken too.
CandidatesRequestedToo(s, r) ==
    {p \in s.thread[r].remoteBitfield \ s.localBitfield.bitfield : s.pieceFreq[p] # 0}

(* The pieces selectPiece considers: the remote peer has them, this one has  *)
(* not, and no thread has asked for blocks of them.                          *)
Candidates(s, r) ==
    {p \in s.thread[r].remoteBitfield \ s.localBitfield.bitfield :
        s.pieceFreq[p] # 0 /\ ~IsPieceRequested(s.localBitfield, p)}

Rarer(s, p, q) == \/ s.pieceFreq[p] < s.pieceFreq[q]
                  \/ s.pieceFreq[p] = s.pieceFreq[q] /\ p < q

(* Random first, then one of the rarest. *)
SelectPiece(s, r) ==
    LET C == Candidates(s, r)
    IN  IF ~HavePiece(s.localBitfield) \/ RarestListSize >= Cardinality(C)
        THEN C
        ELSE {p \in C : Cardinality({q \in C : Rarer(s, q, p)}) < RarestListSize}

----------------------------------------------------------------------------
(* Requests *)

(* A thread's pending requests: findRequest, addRequest and removeRequest.   *)
FindRequest(s, r, e)   == Contains(s.thread[r].requests, e)
AddRequest(s, r, e)    == [s EXCEPT !.thread[r].requests = Append(@, e)]
RemoveRequest(s, r, e) == [s EXCEPT !.thread[r].requests = RemoveFirst(@, e)]

CanRequestMore(s, r) == Len(s.thread[r].requests) < RequestQueueDepth

(* One round of the loop of sendBlockRequests in the end game, where the     *)
(* queue of a thread has room for every block (increaseRequestQueueSize).    *)
SendEndGameRequest(s, r, e) ==
    LET asked == [s EXCEPT !.thread[r].inEndGame = TRUE]
    IN  IF FindRequest(s, r, e)
        THEN asked
        ELSE Schedule(AddRequest(asked, r, e), r, RequestMsg("REQUEST", e))

(* scheduleEndGameRequests: gather what is pending anywhere, then ask every  *)
(* unchoked peer for it, except the one it was asked of first.               *)
Gather(s, list, r) ==
    FoldLeft(LAMBDA l, e : IF Available(s, e) THEN l ELSE Append(l, <<r, e>>),
             list, s.thread[r].requests)

AskPeer(s, r, entry) ==
    IF r # entry[1] /\ Established(s, r) /\ ~s.thread[r].peerChoking
    THEN SendEndGameRequest(s, r, entry[2])
    ELSE s

ScheduleEndGameRequests(s) ==
    LET gathered == FoldLeft(LAMBDA list, r : Gather(s, list, r), s.endGameRequests, s.peerState)
        AskAll(t, entry) == FoldLeft(LAMBDA u, r : AskPeer(u, r, entry), t, s.peerState)
    IN  FoldLeft(AskAll, [s EXCEPT !.endGameRequests = gathered], gathered)

EnterEndGameMode(s) == /\ s.enableEndGameMode
                       /\ s.state = "NORMAL"
                       /\ s.localBitfield.numNonRequestedNonAvailableBlocks = 0

(* updateBlockRequests: the end game starts when the last free block is      *)
(* requested; from then on requests are not recorded in the bit field.       *)
UpdateBlockRequests(s, e, value) ==
    LET marked == [s EXCEPT !.localBitfield = SetBlockRequested(@, e[1], e[2], value)]
    IN  IF s.state = "ENDGAME" THEN s
        ELSE IF EnterEndGameMode(marked) /\ value
             THEN ScheduleEndGameRequests([marked EXCEPT !.state = "ENDGAME"])
             ELSE marked

RequestBlock(s, r, e) ==
    Schedule(UpdateBlockRequests(AddRequest(s, r, e), e, TRUE), r, RequestMsg("REQUEST", e))

(* sendBlockRequests: ask for the free blocks of the piece, in order, while  *)
(* the queue has room, or until the end game has begun; if the piece has too *)
(* few, another one is to be chosen.                                         *)
RequestNext(s, r, p) ==
    IF CanRequestMore(s, r) /\ s.state # "ENDGAME" /\ NextBlock(s.localBitfield, p) >= 0
    THEN RequestBlock(s, r, <<p, NextBlock(s.localBitfield, p)>>)
    ELSE s

SendBlockRequests(s, r, p) ==
    LET sent == FoldLeft(LAMBDA t, i : RequestNext(t, r, p), s, [i \in 1 .. RequestQueueDepth |-> i])
    IN  IF CanRequestMore(sent, r) /\ sent.state # "ENDGAME"
        THEN Schedule(sent, r, Msg("NEXT_REQUEST"))
        ELSE sent

(* timerExpired(NOT_INTERESTED_TIMER) *)
SendNotInterested(s, r) ==
    [SendMessage(s, r, StateMsg("NOT_INTERESTED")) EXCEPT !.thread[r].amInterested = FALSE]

(* timerExpired(INTERESTED_TIMER) *)
SendInterested(s, r) ==
    LET sent == [SendMessage(s, r, StateMsg("INTERESTED")) EXCEPT !.thread[r].amInterested = TRUE]
    IN  IF s.thread[r].peerChoking THEN sent ELSE Schedule(sent, r, Msg("NEXT_REQUEST"))

MakeNextPeerMove(s, r) ==
    IF SelectPiece(s, r) # {}
    THEN IF s.thread[r].peerChoking
         THEN {s}
         ELSE {SendBlockRequests(s, r, p) : p \in SelectPiece(s, r)}
    ELSE IF AmInterested(s, r)
         THEN {[s EXCEPT !.thread[r].allowedToRequest = FALSE]}
         ELSE {SendNotInterested(s, r)}

NextMove(s, r) == IF s.state = "ENDGAME" THEN {ScheduleEndGameRequests(s)} ELSE MakeNextPeerMove(s, r)

\* Wrong variants of ClearPendingRequests: nobody is told that blocks are free again, or the
\* requests themselves are kept, or the blocks stay marked.
ClearSilently(s, r) ==
    LET given == FoldLeft(LAMBDA t, e : UpdateBlockRequests(t, e, FALSE), s, s.thread[r].requests)
    IN  [given EXCEPT !.thread[r].requests = <<>>]
ClearMarksOnly(s, r) ==
    Schedule(FoldLeft(LAMBDA t, e : UpdateBlockRequests(t, e, FALSE), s, s.thread[r].requests),
             r, Msg("UPDATE_INTERESTS"))
ClearKeepsMarks(s, r) ==
    Schedule([s EXCEPT !.thread[r].requests = <<>>], r, Msg("UPDATE_INTERESTS"))

(* clearPendingRequests: the thread gives its requests up. *)
ClearPendingRequests(s, r) ==
    LET given == FoldLeft(LAMBDA t, e : UpdateBlockRequests(t, e, FALSE), s, s.thread[r].requests)
    IN  Schedule([given EXCEPT !.thread[r].requests = <<>>], r, Msg("UPDATE_INTERESTS"))

----------------------------------------------------------------------------
(* A block arrives *)

(* informPeers, and timerExpired(HAVE_TIMER) without suppression. *)
InformPeers(s, p) ==
    [s EXCEPT !.thread = [r \in Remote |->
        IF Established(s, r) THEN [s.thread[r] EXCEPT !.announced = @ \cup {p}] ELSE s.thread[r]]]

(* timerExpired(CANCEL_TIMER) *)
CancelRequest(s, r, e) ==
    SendMessage(RemoveRequest(s, r, e), r, RequestMsg("CANCEL", e))

(* scheduleEndGameCancel: the first entry for the block is dropped, and the  *)
(* threads that were asked in the end game cancel it.                        *)
ScheduleEndGameCancel(s, e, provider) ==
    LET pos == SelectInSeq(s.endGameRequests, LAMBDA entry : entry[2] = e)
        Cancel(t, r) == IF r # provider /\ t.thread[r].inEndGame THEN CancelRequest(t, r, e) ELSE t
    IN  IF pos = 0 THEN s
        ELSE [FoldLeft(Cancel, s, s.peerState) EXCEPT !.endGameRequests = RemoveAt(@, pos)]

\* Wrong variant of UpdateBitField: the last piece is not announced.
UpdateBitFieldEndsSilently(s, e, expected, provider) ==
    LET updated == [s EXCEPT !.localBitfield = Update(@, e[1], e[2], expected)]
    IN  IF ~Completes(updated.localBitfield, e[1]) THEN updated
        ELSE IF FinishedDownloading(updated.localBitfield)
             THEN [updated EXCEPT !.state = "SEEDING"]
             ELSE InformPeers(updated, e[1])

(* updateBitField: with time left to seed, the peer that has everything      *)
(* becomes a seeder.  Peers hear of a completed piece.                       *)
UpdateBitField(s, e, expected, provider) ==
    LET ended   == IF s.state = "ENDGAME" THEN ScheduleEndGameCancel(s, e, provider) ELSE s
        updated == [ended EXCEPT !.localBitfield = Update(@, e[1], e[2], expected)]
        bf      == updated.localBitfield
    IN  IF s.state = "ENDGAME" /\ Available(s, e) THEN ended
        ELSE IF ~Completes(bf, e[1]) \/ (FinishedDownloading(bf) /\ Completed(s)) THEN updated
        ELSE IF FinishedDownloading(bf)
             THEN InformPeers([updated EXCEPT !.state = "SEEDING"], e[1])
             ELSE InformPeers(updated, e[1])

(* dataArrived(PIECE_MSG) *)
PieceArrived(s, r, e) ==
    LET expected == FindRequest(s, r, e)
        stored   == UpdateBitField(s, e, expected, r)
        served   == RemoveRequest(stored, r, e)
    IN  IF ~expected THEN stored
        ELSE IF ~CanRequestMore(served, r) \/ served.state = "ENDGAME" THEN served
        ELSE IF NextBlock(served.localBitfield, e[1]) >= 0
             THEN SendBlockRequests(served, r, e[1])
             ELSE Schedule(served, r, Msg("NEXT_REQUEST"))

----------------------------------------------------------------------------
(* Messages from a remote peer: dataArrived, peerClosed *)

DataArrived(s, r, m) ==
    CASE m.kind = "BITFIELD" ->
            Schedule([s EXCEPT !.thread[r].remoteBitfield = m.pieces], r, m)
      [] m.kind = "HAVE" ->
            Schedule([s EXCEPT !.thread[r].remoteBitfield = @ \cup {m.index}], r, m)
      [] m.kind = "CHOKE" ->
            ClearPendingRequests([s EXCEPT !.thread[r].peerChoking = TRUE], r)
      [] m.kind = "UNCHOKE" ->
            LET unchoked == [s EXCEPT !.thread[r].peerChoking = FALSE]
            IN  IF s.thread[r].amInterested THEN Schedule(unchoked, r, m) ELSE unchoked
      [] m.kind = "PIECE" -> PieceArrived(s, r, <<m.index, m.begin>>)
      [] m.kind = "CLOSE" -> [s EXCEPT !.thread[r].conn = "ABORTING"]

(* closed, removeCurrentThread *)
ConnectionClosed(s, r) == Schedule(ClearPendingRequests(s, r), r, Msg("REMOVE_THREAD"))

(* The handshake is complete: the thread tells its remote peer what this     *)
(* peer has (BITFIELD_TIMER).                                                *)
HandshakeComplete(s, r) ==
    [s EXCEPT !.peerState = Append(@, r),
              !.thread[r].conn = "OPEN",
              !.thread[r].announced = s.localBitfield.bitfield]

----------------------------------------------------------------------------
(* Self-messages: handleThreadMessage and timerExpired *)

CountPieces(freq, S) == [p \in Piece |-> IF p \in S THEN freq[p] + 1 ELSE freq[p]]

ShowInterest(s, r) ==
    IF ~Completed(s) /\ AmInterested(s, r)
    THEN IF s.thread[r].amInterested THEN s ELSE SendInterested(s, r)
    ELSE IF s.thread[r].amInterested THEN SendNotInterested(s, r) ELSE s

(* updateInterests looks at one thread after the other: the rest of its loop *)
(* is put at the head of the agenda.                                         *)
UpdateInterests(s) ==
    [s EXCEPT !.agenda = [i \in DOMAIN s.peerState |->
                            SelfMsg(s.peerState[i], Msg("INTEREST"))] \o @]

UpdateInterest(s, r) ==
    LET allowed == [s EXCEPT !.thread[r].allowedToRequest = TRUE]
        t       == s.thread[r]
    IN  IF Established(s, r) /\ ~t.allowedToRequest /\ ~t.peerChoking /\ AmInterested(s, r)
        THEN NextMove(allowed, r)
        ELSE {s}

(* The values a self-message may lead to. *)
HandleSelf(s, r, m) ==
    CASE m.kind = "BITFIELD" ->
            {ShowInterest([s EXCEPT !.pieceFreq = CountPieces(@, m.pieces)], r)}
      [] m.kind = "HAVE" ->
            LET counted == [s EXCEPT !.pieceFreq[m.index] = @ + 1]
            IN  {IF ~s.thread[r].amInterested /\ AmInterested(s, r)
                 THEN SendInterested(counted, r) ELSE counted}
      [] m.kind \in {"UNCHOKE", "NEXT_REQUEST"} -> IF Completed(s) THEN {s} ELSE NextMove(s, r)
      [] m.kind = "REQUEST" -> {IF s.thread[r].peerChoking THEN s ELSE SendMessage(s, r, m)}
      [] m.kind = "UPDATE_INTERESTS" -> {UpdateInterests(s)}
      [] m.kind = "INTEREST" -> UpdateInterest(s, r)
      [] m.kind = "REMOVE_THREAD" ->
            {[s EXCEPT !.peerState = RemoveFirst(@, r), !.thread[r].conn = "GONE"]}
=============================================================================
