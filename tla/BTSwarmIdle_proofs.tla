------------------------- MODULE BTSwarmIdle_proofs -------------------------
(***************************************************************************)
(* No thread of a downloading peer idles: with an empty agenda, a thread   *)
(* that may request has nothing to ask for.  Proof, from what              *)
(* BTSwarm_proofs shows of the books.                                      *)
(***************************************************************************)
EXTENDS BTSwarm_proofs

-----------------------------------------------------------------------------
(* What is due for a thread *)

\* A message of one of the kinds is on the agenda of thread r.
Due(s, r, kinds) == \E i \in DOMAIN s.agenda : s.agenda[i].remote = r /\ s.agenda[i].msg.kind \in kinds

\* Thread r is about to make its next move, to be looked at by updateInterests, to count the pieces
\* of its remote peer.
Moving(s, r)   == Due(s, r, {"UNCHOKE", "NEXT_REQUEST"})
Looking(s, r)  == Due(s, r, {"INTEREST"}) \/ \E q \in Remote : Due(s, q, {"UPDATE_INTERESTS"})
Counting(s, r) == Due(s, r, {"BITFIELD"})

MayAsk(s, r) == Established(s, r) /\ ~s.thread[r].peerChoking
Ready(s, r)  == MayAsk(s, r) /\ s.thread[r].amInterested

\* A thread with room in its queue moves on, or has found no piece to ask for and is looked at again
\* when there is one.
Busy(s, r) ==
  s.state = "NORMAL" /\ Ready(s, r) /\ CanRequestMore(s, r) =>
    \/ Moving(s, r)
    \/ ~s.thread[r].allowedToRequest /\ (Candidates(s, r) = {} \/ Looking(s, r))

\* In the end game each missing block is listed with the thread asked for it first, and each thread
\* asks for all others, or will.
Missing(s)   == Entry \ s.localBitfield.blockfield
Entries(s)   == ToSet(s.endGameRequests)
Listed(s)    == \A e \in Missing(s) : \E q \in Remote : <<q, e>> \in Entries(s)
AsksAll(s, r) == \A e \in Missing(s) : e \in Req(s, r) \/ <<r, e>> \in Entries(s)
EndGameBusy(s) ==
  s.state = "ENDGAME" => Listed(s) /\ \A r \in Remote : Ready(s, r) => Moving(s, r) \/ AsksAll(s, r)

\* updateInterests and the end game look at all threads with a connection.
Known(s) == \A r \in Remote : Established(s, r) => r \in ToSet(s.peerState)

\* Where no remote peer obtains pieces, what it has is known from one message at the start, and the
\* pieces of a peer of interest have been counted.
Settled(s, f) ==
  /\ \A i \in DOMAIN s.agenda :
       /\ s.agenda[i].msg.kind # "HAVE"
       /\ s.agenda[i].msg.kind = "BITFIELD" =>
            i = 1 /\ s.agenda[i].msg.pieces = s.thread[s.agenda[i].remote].remoteBitfield
  /\ \A r \in Remote :
       /\ At(f[r], "HAVE") = {} /\ At(f[r], "BITFIELD") \subseteq {1}
       /\ s.thread[r].amInterested => /\ s.thread[r].conn # "NONE" /\ ~Counting(s, r)
                                      /\ At(f[r], "BITFIELD") = {}
       /\ Counting(s, r) => At(f[r], "BITFIELD") = {} /\ s.thread[r].conn # "NONE"
       /\ ~Counting(s, r) => \A p \in s.thread[r].remoteBitfield : s.pieceFreq[p] # 0

Steady(g) == \A q \in Remote : ~g[q].gaining
Calm(s, f) == Settled(s, f) /\ \A r \in Remote : Busy(s, r)
IdleInv(s, f, g) == Known(s) /\ EndGameBusy(s) /\ (Steady(g) => Calm(s, f))

\* From s to u, the agenda has got more behind, but no news of pieces.
Later(s, u) ==
  /\ \A i \in DOMAIN s.agenda : i \in DOMAIN u.agenda /\ u.agenda[i] = s.agenda[i]
  /\ \A i \in DOMAIN u.agenda : i \in DOMAIN s.agenda \/ u.agenda[i].msg.kind \notin {"BITFIELD", "HAVE"}

\* From s to u, the threads stay what they are, but may lose interest; those in R may stop requesting
\* or be allowed to request again.
Frame(s, u, R) ==
  /\ u.pieceFreq = s.pieceFreq /\ u.peerState = s.peerState
  /\ Later(s, u)
  /\ \A r \in Remote :
       /\ u.thread[r].conn = s.thread[r].conn
       /\ u.thread[r].remoteBitfield = s.thread[r].remoteBitfield
       /\ u.thread[r].peerChoking = s.thread[r].peerChoking
       /\ u.thread[r].amInterested => s.thread[r].amInterested
       /\ r \notin R => u.thread[r].allowedToRequest = s.thread[r].allowedToRequest

LEMMA LaterDue ==
  ASSUME NEW s, NEW u, Later(s, u)
  PROVE  /\ \A r, kinds : Due(s, r, kinds) => Due(u, r, kinds)
         /\ \A r : Moving(s, r) => Moving(u, r)
         /\ \A r : Looking(s, r) => Looking(u, r)
         /\ \A r : Counting(u, r) <=> Counting(s, r)
<1>1. \A r, kinds : Due(s, r, kinds) => Due(u, r, kinds)
  BY DEF Later, Due
<1>2. \A r : Counting(u, r) => Counting(s, r)
  BY DEF Later, Due, Counting
<1> QED BY <1>1, <1>2 DEF Moving, Looking, Counting

LEMMA LaterComposed ==
  ASSUME NEW s, NEW u, NEW v, Later(s, u), Later(u, v)
  PROVE  Later(s, v)
BY DEF Later

LEMMA FrameComposed ==
  ASSUME NEW s, NEW u, NEW v, NEW R, Frame(s, u, R), Frame(u, v, R)
  PROVE  Frame(s, v, R)
<1>1. Later(s, v)
  BY LaterComposed DEF Frame
<1> QED BY <1>1 DEF Frame

LEMMA FrameWider ==
  ASSUME NEW s, NEW u, NEW R, Frame(s, u, {})
  PROVE  Frame(s, u, R)
BY DEF Frame

\* The agenda stays, and the threads are much the same.
LEMMA FrameQuiet ==
  ASSUME NEW s, NEW u, NEW R, u.pieceFreq = s.pieceFreq, u.peerState = s.peerState, u.agenda = s.agenda,
         \A r \in Remote : /\ u.thread[r].conn = s.thread[r].conn
                           /\ u.thread[r].remoteBitfield = s.thread[r].remoteBitfield
                           /\ u.thread[r].peerChoking = s.thread[r].peerChoking
                           /\ u.thread[r].amInterested => s.thread[r].amInterested
                           /\ r \notin R => u.thread[r].allowedToRequest = s.thread[r].allowedToRequest
  PROVE  Frame(s, u, R)
<1>1. Later(s, u)
  BY DEF Later
<1> QED BY <1>1 DEF Frame

LEMMA FrameSame ==
  ASSUME NEW s, NEW R
  PROVE  Frame(s, s, R)
BY FrameQuiet

LEMMA FrameScheduled ==
  ASSUME NEW s \in PeerType, NEW r \in Remote, NEW m \in Messages(SelfKinds), NEW R
  PROVE  LET u == Schedule(s, r, m)
         IN  /\ u \in PeerType /\ Due(u, r, {m.kind})
             /\ u.thread = s.thread /\ u.localBitfield = s.localBitfield /\ u.state = s.state
             /\ u.endGameRequests = s.endGameRequests /\ u.pieceFreq = s.pieceFreq
             /\ u.peerState = s.peerState
             /\ u.agenda = Append(s.agenda, SelfMsg(r, m))
             /\ m.kind \notin {"BITFIELD", "HAVE"} => Frame(s, u, R)
<1> DEFINE u == Schedule(s, r, m)
<1>1. u \in PeerType /\ u = [s EXCEPT !.agenda = Append(s.agenda, SelfMsg(r, m))]
      /\ u.agenda = Append(s.agenda, SelfMsg(r, m))
  BY Scheduled
<1>2. /\ u.thread = s.thread /\ u.localBitfield = s.localBitfield /\ u.state = s.state
      /\ u.endGameRequests = s.endGameRequests /\ u.pieceFreq = s.pieceFreq /\ u.peerState = s.peerState
  BY <1>1 DEF PeerType
<1>3. s.agenda \in Seq(SelfMsgs)
  BY DEF PeerType
<1> HIDE DEF u
<1> DEFINE n == Len(s.agenda) + 1
           q == s.agenda
<1>4. /\ u.agenda[n] = SelfMsg(r, m) /\ n \in DOMAIN u.agenda
      /\ \A i \in DOMAIN q : i \in DOMAIN u.agenda /\ i # n /\ u.agenda[i] = q[i]
      /\ \A i \in DOMAIN u.agenda : i \in DOMAIN q \/ i = n
  BY <1>1, <1>3, AppendedAt
<1> HIDE DEF n, q
<1>5. SelfMsg(r, m).remote = r /\ SelfMsg(r, m).msg = m
  BY DEF SelfMsg
<1>6. Due(u, r, {m.kind})
  BY <1>4, <1>5 DEF Due
<1>7. ASSUME m.kind \notin {"BITFIELD", "HAVE"} PROVE Frame(s, u, R)
  <2>1. Later(s, u)
    BY <1>4, <1>5, <1>7 DEF Later, q
  <2> QED BY <2>1, <1>2 DEF Frame
<1> QED BY <1>1, <1>2, <1>6, <1>7 DEF u

\* Only the wires change.
LEMMA FrameSent ==
  ASSUME NEW s \in PeerType, NEW r \in Remote, NEW m \in Messages(ToKinds), NEW R
  PROVE  LET u == SendMessage(s, r, m)
         IN  /\ u \in PeerType /\ Frame(s, u, R)
             /\ u.thread = s.thread /\ u.localBitfield = s.localBitfield /\ u.state = s.state
             /\ u.endGameRequests = s.endGameRequests /\ u.agenda = s.agenda
             /\ u.pieceFreq = s.pieceFreq /\ u.peerState = s.peerState
<1> DEFINE u == SendMessage(s, r, m)
<1>1. /\ u \in PeerType /\ u.thread = s.thread /\ u.localBitfield = s.localBitfield
      /\ u.agenda = s.agenda /\ u.state = s.state
  BY Sent
<1>2. /\ u.endGameRequests = s.endGameRequests /\ u.pieceFreq = s.pieceFreq /\ u.peerState = s.peerState
  BY DEF SendMessage, PeerType
<1> HIDE DEF u
<1>3. Frame(s, u, R)
  BY <1>1, <1>2, FrameQuiet
<1> QED BY <1>1, <1>2, <1>3 DEF u

LEMMA FrameThread ==
  ASSUME NEW s \in PeerType, NEW r \in Remote, NEW t \in ThreadType, NEW u, SetThread(s, u, r, t), NEW R,
         t.conn = s.thread[r].conn, t.peerChoking = s.thread[r].peerChoking,
         t.remoteBitfield = s.thread[r].remoteBitfield,
         t.amInterested => s.thread[r].amInterested,
         r \in R \/ t.allowedToRequest = s.thread[r].allowedToRequest
  PROVE  Frame(s, u, R) /\ u.pieceFreq = s.pieceFreq
<1>1. /\ u.thread[r] = t /\ \A q \in Remote \ {r} : u.thread[q] = s.thread[q]
      /\ u.agenda = s.agenda /\ u.peerState = s.peerState
  BY ThreadSet
<1>2. u.pieceFreq = s.pieceFreq
  BY DEF SetThread, PeerType
<1> QED BY <1>1, <1>2, FrameQuiet

\* What the properties say of a state they say of the next one too.
LEMMA KnownFrame ==
  ASSUME NEW s, NEW u, NEW R, Frame(s, u, R), Known(s)
  PROVE  Known(u)
BY DEF Frame, Known, Established

LEMMA SettledFrame ==
  ASSUME NEW s, NEW u, NEW R, Frame(s, u, R), NEW f, Settled(s, f), s.agenda \in Seq(SelfMsgs),
         u.agenda \in Seq(SelfMsgs)
  PROVE  Settled(u, f)
<1>1. \A r : Counting(u, r) <=> Counting(s, r)
  BY LaterDue DEF Frame
<1>2. ASSUME NEW i \in DOMAIN u.agenda
      PROVE  /\ u.agenda[i].msg.kind # "HAVE"
             /\ u.agenda[i].msg.kind = "BITFIELD" =>
                  i = 1 /\ u.agenda[i].msg.pieces = u.thread[u.agenda[i].remote].remoteBitfield
  <2>1. CASE i \in DOMAIN s.agenda
    <3>1. u.agenda[i] = s.agenda[i]
      BY <2>1 DEF Frame, Later
    <3>2. s.agenda[i] \in SelfMsgs
      BY <2>1
    <3>3. s.agenda[i].remote \in Remote
      BY <3>2 DEF SelfMsgs
    <3> QED BY <2>1, <3>1, <3>3 DEF Settled, Frame
  <2>2. CASE i \notin DOMAIN s.agenda
    BY <2>2 DEF Frame, Later
  <2> QED BY <2>1, <2>2
<1>3. ASSUME NEW r \in Remote
      PROVE  /\ At(f[r], "HAVE") = {} /\ At(f[r], "BITFIELD") \subseteq {1}
             /\ u.thread[r].amInterested => /\ u.thread[r].conn # "NONE" /\ ~Counting(u, r)
                                            /\ At(f[r], "BITFIELD") = {}
             /\ Counting(u, r) => At(f[r], "BITFIELD") = {} /\ u.thread[r].conn # "NONE"
             /\ ~Counting(u, r) => \A p \in u.thread[r].remoteBitfield : u.pieceFreq[p] # 0
  BY <1>1 DEF Settled, Frame
<1> QED BY <1>2, <1>3 DEF Settled

LEMMA CandidatesFrame ==
  ASSUME NEW s \in PeerType, NEW u \in PeerType, NEW R, Frame(s, u, R),
         s.localBitfield.bitfield \subseteq u.localBitfield.bitfield,
         \A p \in Piece : IsPieceRequested(s.localBitfield, p) =>
                            IsPieceRequested(u.localBitfield, p) \/ p \in u.localBitfield.bitfield
  PROVE  \A q \in Remote : Candidates(u, q) \subseteq Candidates(s, q)
<1>1. \A q \in Remote : u.thread[q].remoteBitfield = s.thread[q].remoteBitfield
                        /\ s.thread[q].remoteBitfield \subseteq Piece
  BY DEF Frame, PeerType, ThreadType
<1>2. u.pieceFreq = s.pieceFreq
  BY DEF Frame
<1> QED BY <1>1, <1>2 DEF Candidates

LEMMA BusyFrame ==
  ASSUME NEW s, NEW u, NEW R, Frame(s, u, R), NEW q \in Remote, q \notin R,
         u.state = "NORMAL" => /\ s.state = "NORMAL" /\ u.thread[q].requests = s.thread[q].requests
                               /\ Candidates(u, q) \subseteq Candidates(s, q),
         Busy(s, q)
  PROVE  Busy(u, q)
<1>1. (Moving(s, q) => Moving(u, q)) /\ (Looking(s, q) => Looking(u, q))
  BY LaterDue DEF Frame
<1> QED BY <1>1 DEF Frame, Busy, Ready, MayAsk, Established, CanRequestMore

LEMMA EndGameFrame ==
  ASSUME NEW s, NEW u, NEW R, Frame(s, u, R), EndGameBusy(s),
         u.state = "ENDGAME" =>
           /\ s.state = "ENDGAME" /\ Missing(u) \subseteq Missing(s)
           /\ \A q \in Remote : \A e \in Missing(u) : /\ <<q, e>> \in Entries(s) => <<q, e>> \in Entries(u)
                                                      /\ e \in Req(s, q) => e \in Req(u, q)
  PROVE  EndGameBusy(u)
<1> SUFFICES ASSUME u.state = "ENDGAME"
             PROVE  Listed(u) /\ \A r \in Remote : Ready(u, r) => Moving(u, r) \/ AsksAll(u, r)
  BY DEF EndGameBusy
<1>1. Listed(s) /\ \A r \in Remote : Ready(s, r) => Moving(s, r) \/ AsksAll(s, r)
  BY DEF EndGameBusy
<1>2. Listed(u)
  BY <1>1 DEF Listed
<1>3. ASSUME NEW r \in Remote, Ready(u, r) PROVE Moving(u, r) \/ AsksAll(u, r)
  <2>1. Ready(s, r)
    BY <1>3 DEF Frame, Ready, MayAsk, Established
  <2>2. Moving(s, r) => Moving(u, r)
    BY LaterDue DEF Frame
  <2>3. AsksAll(s, r) => AsksAll(u, r)
    BY DEF AsksAll
  <2> QED BY <1>1, <2>1, <2>2, <2>3
<1> QED BY <1>2, <1>3

-----------------------------------------------------------------------------
(* The end game asks every thread for everything *)

\* What is gathered stays, and all that thread r has pending is added.
LEMMA Gathered ==
  ASSUME NEW s \in PeerType, NEW list \in Seq(Remote \X Entry), NEW r \in Remote
  PROVE  /\ Gather(s, list, r) \in Seq(Remote \X Entry)
         /\ ToSet(list) \subseteq ToSet(Gather(s, list, r))
         /\ \A e \in Req(s, r) : Available(s, e) \/ <<r, e>> \in ToSet(Gather(s, list, r))
<1> DEFINE D == Seq(Remote \X Entry)
           seq == s.thread[r].requests
           n == Len(seq)
           Step(l, x) == IF Available(s, x) THEN l ELSE Append(l, <<r, x>>)
           F == [y \in D \X (1 .. n) |-> Step(y[1], seq[y[2]])]
           it == CHOOSE jt : jt = [S \in SUBSET (1 .. n) |->
                                     IF S = {} THEN list ELSE Step(jt[S \ {Max(S)}], seq[Max(S)])]
<1>1. seq \in Seq(Entry)
  BY DEF PeerType, ThreadType
<1>2. n \in Nat /\ DOMAIN seq = 1 .. n
  BY <1>1
<1>3. Gather(s, list, r) = it[1 .. n]
  BY <1>2 DEF Gather, FoldLeft, MapThenFoldSet
<1>4. ASSUME NEW l \in D, NEW i \in 1 .. n PROVE Step(l, seq[i]) \in D
  <2>1. seq[i] \in Entry
    BY <1>1, <1>2
  <2>2. <<r, seq[i]>> \in Remote \X Entry
    BY <2>1
  <2> QED BY <2>2
<1>5. F \in [D \X (1 .. n) -> D] /\ \A d \in D : \A i \in 1 .. n : F[<<d, i>>] = Step(d, seq[i])
  <2> HIDE DEF D, Step
  <2> QED BY <1>4
<1>6. ASSUME NEW jt \in [SUBSET (1 .. n) -> D], Folds(jt, SUBSET (1 .. n), F, list)
      PROVE  Unfolds(it, n, D, F, list)
  <2> HIDE DEF D, seq, n, Step
  <2>1. jt = [S \in SUBSET (1 .. n) |-> IF S = {} THEN list ELSE F[<<jt[S \ {Max(S)}], Max(S)>>]]
    BY <1>6 DEF Folds
  <2>2. \A S \in SUBSET (1 .. n) : S # {} => Max(S) \in 1 .. n
    BY <1>2, GreatestOf DEF n
  <2> HIDE DEF F
  <2>3. \A S \in SUBSET (1 .. n) : S # {} =>
           F[<<jt[S \ {Max(S)}], Max(S)>>] = Step(jt[S \ {Max(S)}], seq[Max(S)])
    BY <2>2, <1>5
  <2>4. jt = [S \in SUBSET (1 .. n) |-> IF S = {} THEN list ELSE Step(jt[S \ {Max(S)}], seq[Max(S)])]
    BY <2>1, <2>3
  <2>5. it = [S \in SUBSET (1 .. n) |-> IF S = {} THEN list ELSE Step(it[S \ {Max(S)}], seq[Max(S)])]
    BY <2>4
  <2> HIDE DEF it
  <2>6. it[{}] = list
    BY <2>5
  <2>7. \A S \in SUBSET (1 .. n) : S # {} => it[S] = Step(it[S \ {Max(S)}], seq[Max(S)])
    BY <2>5
  <2> QED BY <2>2, <1>5, <2>6, <2>7 DEF Unfolds
<1> HIDE DEF D, seq, n, Step, F, it
<1>7. list \in D
  BY DEF D
<1>8. it[1 .. n] \in D /\ RunsTo(it[1 .. n], n, D, F, list)
  BY <1>2, <1>5, <1>6, <1>7, Folded
<1>9. PICK h : /\ h \in [0 .. n -> D] /\ h[0] = list /\ h[n] = it[1 .. n]
              /\ \A k \in 1 .. n : h[k] = F[<<h[k - 1], k>>]
  BY <1>8 DEF RunsTo, Runs
<1>10. \A k \in 1 .. n : h[k - 1] \in D /\ h[k] \in D /\ h[k] = Step(h[k - 1], seq[k])
  <2> TAKE k \in 1 .. n
  <2>1. k - 1 \in 0 .. n /\ k \in 0 .. n
    BY <1>2
  <2> QED BY <2>1, <1>9, <1>5
<1> DEFINE P(k) == ToSet(list) \subseteq ToSet(h[k])
                   /\ \A i \in 1 .. k : Available(s, seq[i]) \/ <<r, seq[i]>> \in ToSet(h[k])
           T == {k \in Nat : k <= n => P(k)}
<1>11. 0 \in T
  BY <1>9
<1>12. ASSUME NEW k \in Nat, k \in T PROVE k + 1 \in T
  <2> SUFFICES ASSUME k + 1 <= n PROVE P(k + 1)
    OBVIOUS
  <2>1. k + 1 \in 1 .. n /\ k \in 0 .. n /\ (k + 1) - 1 = k /\ k <= n
    BY <1>2
  <2>2. P(k)
    BY <1>12, <2>1
  <2>3. h[k] \in D /\ h[k + 1] \in D /\ h[k + 1] = Step(h[k], seq[k + 1])
    BY <1>10, <2>1
  <2>4. \A i \in 1 .. k + 1 : i \in 1 .. k \/ i = k + 1
    OBVIOUS
  <2>5. h[k] \in Seq(Remote \X Entry)
    BY <2>3 DEF D
  <2>6. ToSet(h[k]) \subseteq ToSet(h[k + 1])
        /\ (Available(s, seq[k + 1]) \/ <<r, seq[k + 1]>> \in ToSet(h[k + 1]))
    BY <2>3, <2>5, AppendSet DEF Step
  <2> QED BY <2>2, <2>4, <2>6
<1>13. P(n)
  <2>1. n \in T
    <3> HIDE DEF T
    <3> QED BY <1>2, <1>11, <1>12, AllNumbers
  <2> QED BY <2>1, <1>2
<1>14. \A e \in Req(s, r) : \E i \in 1 .. n : e = seq[i]
  BY <1>2 DEF Req, ToSet, seq
<1> QED BY <1>3, <1>8, <1>9, <1>13, <1>14 DEF D


LEMMA AllGathered ==
  ASSUME NEW s \in PeerType
  PROVE  LET list == FoldLeft(LAMBDA l, r : Gather(s, l, r), s.endGameRequests, s.peerState)
         IN  /\ list \in Seq(Remote \X Entry)
             /\ Entries(s) \subseteq ToSet(list)
             /\ \A r \in ToSet(s.peerState) : \A e \in Req(s, r) : Available(s, e) \/ <<r, e>> \in ToSet(list)
<1> DEFINE D == Seq(Remote \X Entry)
           seq == s.peerState
           n == Len(seq)
           Step(l, x) == Gather(s, l, x)
           F == [y \in D \X (1 .. n) |-> Step(y[1], seq[y[2]])]
           it == CHOOSE jt : jt = [S \in SUBSET (1 .. n) |->
                                     IF S = {} THEN s.endGameRequests ELSE Step(jt[S \ {Max(S)}], seq[Max(S)])]
<1>1. seq \in Seq(Remote)
  BY DEF PeerType
<1>2. n \in Nat /\ DOMAIN seq = 1 .. n
  BY <1>1
<1>3. FoldLeft(LAMBDA l, r : Gather(s, l, r), s.endGameRequests, s.peerState) = it[1 .. n]
  BY <1>2 DEF FoldLeft, MapThenFoldSet
<1>4. ASSUME NEW l \in D, NEW i \in 1 .. n PROVE Step(l, seq[i]) \in D
  <2>1. seq[i] \in Remote
    BY <1>1, <1>2
  <2> QED BY <2>1, Gathered
<1>5. F \in [D \X (1 .. n) -> D] /\ \A d \in D : \A i \in 1 .. n : F[<<d, i>>] = Step(d, seq[i])
  <2> HIDE DEF D, Step
  <2> QED BY <1>4
<1>6. ASSUME NEW jt \in [SUBSET (1 .. n) -> D], Folds(jt, SUBSET (1 .. n), F, s.endGameRequests)
      PROVE  Unfolds(it, n, D, F, s.endGameRequests)
  <2> HIDE DEF D, seq, n, Step
  <2>1. jt = [S \in SUBSET (1 .. n) |-> IF S = {} THEN s.endGameRequests ELSE F[<<jt[S \ {Max(S)}], Max(S)>>]]
    BY <1>6 DEF Folds
  <2>2. \A S \in SUBSET (1 .. n) : S # {} => Max(S) \in 1 .. n
    BY <1>2, GreatestOf DEF n
  <2> HIDE DEF F
  <2>3. \A S \in SUBSET (1 .. n) : S # {} =>
           F[<<jt[S \ {Max(S)}], Max(S)>>] = Step(jt[S \ {Max(S)}], seq[Max(S)])
    BY <2>2, <1>5
  <2>4. jt = [S \in SUBSET (1 .. n) |-> IF S = {} THEN s.endGameRequests ELSE Step(jt[S \ {Max(S)}], seq[Max(S)])]
    BY <2>1, <2>3
  <2>5. it = [S \in SUBSET (1 .. n) |-> IF S = {} THEN s.endGameRequests ELSE Step(it[S \ {Max(S)}], seq[Max(S)])]
    BY <2>4
  <2> HIDE DEF it
  <2>6. it[{}] = s.endGameRequests
    BY <2>5
  <2>7. \A S \in SUBSET (1 .. n) : S # {} => it[S] = Step(it[S \ {Max(S)}], seq[Max(S)])
    BY <2>5
  <2> QED BY <2>2, <1>5, <2>6, <2>7 DEF Unfolds
<1> HIDE DEF D, seq, n, Step, F, it
<1>7. s.endGameRequests \in D
  BY DEF D, PeerType
<1>8. it[1 .. n] \in D /\ RunsTo(it[1 .. n], n, D, F, s.endGameRequests)
  BY <1>2, <1>5, <1>6, <1>7, Folded
<1>9. PICK h : /\ h \in [0 .. n -> D] /\ h[0] = s.endGameRequests /\ h[n] = it[1 .. n]
              /\ \A k \in 1 .. n : h[k] = F[<<h[k - 1], k>>]
  BY <1>8 DEF RunsTo, Runs
<1>10. \A k \in 1 .. n : h[k - 1] \in D /\ h[k] \in D /\ h[k] = Step(h[k - 1], seq[k])
  <2> TAKE k \in 1 .. n
  <2>1. k - 1 \in 0 .. n /\ k \in 0 .. n
    BY <1>2
  <2> QED BY <2>1, <1>9, <1>5
<1> DEFINE P(k) == Entries(s) \subseteq ToSet(h[k])
                   /\ \A i \in 1 .. k : \A e \in Req(s, seq[i]) : Available(s, e) \/ <<seq[i], e>> \in ToSet(h[k])
           T == {k \in Nat : k <= n => P(k)}
<1>11. 0 \in T
  BY <1>9 DEF Entries
<1>12. ASSUME NEW k \in Nat, k \in T PROVE k + 1 \in T
  <2> SUFFICES ASSUME k + 1 <= n PROVE P(k + 1)
    OBVIOUS
  <2>1. k + 1 \in 1 .. n /\ k \in 0 .. n /\ (k + 1) - 1 = k /\ k <= n
    BY <1>2
  <2>2. P(k)
    BY <1>12, <2>1
  <2>3. h[k] \in D /\ h[k + 1] \in D /\ h[k + 1] = Step(h[k], seq[k + 1])
    BY <1>10, <2>1
  <2>4. \A i \in 1 .. k + 1 : i \in 1 .. k \/ i = k + 1
    OBVIOUS
  <2>5. h[k] \in Seq(Remote \X Entry) /\ seq[k + 1] \in Remote
    BY <2>1, <2>3, <1>1, <1>2 DEF D
  <2>6. /\ ToSet(h[k]) \subseteq ToSet(h[k + 1])
        /\ \A e \in Req(s, seq[k + 1]) : Available(s, e) \/ <<seq[k + 1], e>> \in ToSet(h[k + 1])
    BY <2>3, <2>5, Gathered DEF Step
  <2> QED BY <2>2, <2>4, <2>6
<1>13. P(n)
  <2>1. n \in T
    <3> HIDE DEF T
    <3> QED BY <1>2, <1>11, <1>12, AllNumbers
  <2> QED BY <2>1, <1>2
<1>14. \A r \in ToSet(s.peerState) : \E i \in 1 .. n : r = seq[i]
  BY <1>2 DEF ToSet, seq
<1> QED BY <1>3, <1>8, <1>9, <1>13, <1>14 DEF D


\* From s to u, threads have asked for more.
Asks(s, u) == EndGame(s, u) /\ Frame(s, u, {}) /\ u.endGameRequests = s.endGameRequests

Asking(s) == {u \in PeerType : Asks(s, u)}

LEMMA AsksSame == ASSUME NEW s PROVE Asks(s, s)
BY EndGameSame, FrameSame DEF Asks

LEMMA AsksComposed ==
  ASSUME NEW s, NEW u, NEW v, Asks(s, u), Asks(u, v)
  PROVE  Asks(s, v)
BY EndGameComposed, FrameComposed DEF Asks

LEMMA PeerAsked ==
  ASSUME NEW s \in PeerType, NEW r \in Remote, NEW entry \in Remote \X Entry
  PROVE  /\ AskPeer(s, r, entry) \in Asking(s)
         /\ r # entry[1] /\ MayAsk(s, r) => entry[2] \in Req(AskPeer(s, r, entry), r)
<1> DEFINE e == entry[2]
           u == AskPeer(s, r, entry)
           t == [s.thread[r] EXCEPT !.inEndGame = TRUE]
           asked == [s EXCEPT !.thread[r].inEndGame = TRUE]
           a == AddRequest(asked, r, e)
           m == RequestMsg("REQUEST", e)
<1>1. e \in Entry /\ u \in PeerType /\ EndGame(s, u)
  BY AskedPeer
<1>2. s.thread \in [Remote -> ThreadType] /\ s.thread[r] \in ThreadType
  BY DEF PeerType
<1>3. t \in ThreadType /\ SetThread(s, asked, r, t)
  BY <1>2 DEF ThreadType, SetThread
<1>4. /\ t.conn = s.thread[r].conn /\ t.peerChoking = s.thread[r].peerChoking
      /\ t.remoteBitfield = s.thread[r].remoteBitfield /\ t.amInterested = s.thread[r].amInterested
      /\ t.allowedToRequest = s.thread[r].allowedToRequest /\ t.requests = s.thread[r].requests
  BY <1>2 DEF ThreadType
<1> HIDE DEF t, asked, e
<1>5. asked \in PeerType /\ asked.thread[r] = t /\ asked.endGameRequests = s.endGameRequests
  BY <1>3, ThreadSet
<1>6. Frame(s, asked, {})
  BY <1>3, <1>4, FrameThread
<1>7. /\ a \in PeerType
      /\ SetThread(asked, a, r, [asked.thread[r] EXCEPT !.requests = Append(asked.thread[r].requests, e)])
      /\ [asked.thread[r] EXCEPT !.requests = Append(asked.thread[r].requests, e)] \in ThreadType
      /\ Req(a, r) = Req(asked, r) \cup {e}
  BY <1>1, <1>5, RequestAdded
<1> DEFINE v == [asked.thread[r] EXCEPT !.requests = Append(asked.thread[r].requests, e)]
<1>8. /\ v.conn = asked.thread[r].conn /\ v.peerChoking = asked.thread[r].peerChoking
      /\ v.remoteBitfield = asked.thread[r].remoteBitfield /\ v.amInterested = asked.thread[r].amInterested
      /\ v.allowedToRequest = asked.thread[r].allowedToRequest
  BY <1>5 DEF PeerType, ThreadType
<1> HIDE DEF a
<1>9. Frame(asked, a, {}) /\ a.endGameRequests = asked.endGameRequests
  <2>1. v \in ThreadType /\ SetThread(asked, a, r, v)
    BY <1>7
  <2> HIDE DEF v
  <2> QED BY <1>5, <1>8, <2>1, FrameThread, ThreadSet
<1>10. m \in Messages(SelfKinds) /\ m.kind = "REQUEST"
  BY <1>1, MsgTypes DEF SelfKinds
<1> HIDE DEF m
<1> DEFINE w == Schedule(a, r, m)
<1>11. Frame(a, w, {}) /\ w.thread = a.thread /\ w.endGameRequests = a.endGameRequests
  BY <1>7, <1>10, FrameScheduled
<1> HIDE DEF w
<1>12. Frame(s, w, {}) /\ w.endGameRequests = s.endGameRequests /\ e \in Req(w, r)
  BY <1>5, <1>6, <1>7, <1>9, <1>11, FrameComposed DEF Req
<1>13. u = IF r # entry[1] /\ MayAsk(s, r)
           THEN IF FindRequest(s, r, e) THEN asked ELSE w
           ELSE s
  BY DEF AskPeer, SendEndGameRequest, MayAsk, asked, a, m, w, e
<1>14. FindRequest(s, r, e) => e \in Req(asked, r)
  BY <1>2, <1>4, <1>5, FoundIs DEF Req, ThreadType
<1> HIDE DEF u
<1>15. Frame(s, u, {}) /\ u.endGameRequests = s.endGameRequests
       /\ (r # entry[1] /\ MayAsk(s, r) => e \in Req(u, r))
  BY <1>5, <1>6, <1>12, <1>13, <1>14, FrameSame
<1> QED BY <1>1, <1>15 DEF Asking, Asks, u, e

\* All peers are asked for one block, and for all blocks.
LEMMA AllAskedOne ==
  ASSUME NEW s \in PeerType, NEW peers \in Seq(Remote), NEW entry \in Remote \X Entry
  PROVE  LET u == FoldLeft(LAMBDA v, r : AskPeer(v, r, entry), s, peers)
         IN  /\ u \in Asking(s)
             /\ \A r \in ToSet(peers) : r # entry[1] /\ MayAsk(s, r) => entry[2] \in Req(u, r)
<1> DEFINE D == Asking(s)
           seq == peers
           n == Len(seq)
           Step(t, x) == AskPeer(t, x, entry)
           F == [y \in D \X (1 .. n) |-> Step(y[1], seq[y[2]])]
           it == CHOOSE jt : jt = [S \in SUBSET (1 .. n) |->
                                     IF S = {} THEN s ELSE Step(jt[S \ {Max(S)}], seq[Max(S)])]
<1>1. seq \in Seq(Remote)
  OBVIOUS
<1>2. n \in Nat /\ DOMAIN seq = 1 .. n
  BY <1>1
<1>3. FoldLeft(LAMBDA v, r : AskPeer(v, r, entry), s, peers) = it[1 .. n]
  BY <1>2 DEF FoldLeft, MapThenFoldSet
<1>4. ASSUME NEW t \in D, NEW i \in 1 .. n PROVE Step(t, seq[i]) \in D
  <2>1. seq[i] \in Remote
    BY <1>1, <1>2
  <2>2. t \in PeerType /\ Asks(s, t)
    BY DEF Asking
  <2> DEFINE v == Step(t, seq[i])
  <2>3. v \in PeerType /\ Asks(t, v)
    BY <2>1, <2>2, PeerAsked DEF Asking
  <2> HIDE DEF v
  <2>4. Asks(s, v)
    BY <2>2, <2>3, AsksComposed
  <2> QED BY <2>3, <2>4 DEF Asking, v
<1>5. F \in [D \X (1 .. n) -> D] /\ \A d \in D : \A i \in 1 .. n : F[<<d, i>>] = Step(d, seq[i])
  <2> HIDE DEF D, Step
  <2> QED BY <1>4
<1>6. ASSUME NEW jt \in [SUBSET (1 .. n) -> D], Folds(jt, SUBSET (1 .. n), F, s)
      PROVE  Unfolds(it, n, D, F, s)
  <2> HIDE DEF D, seq, n, Step
  <2>1. jt = [S \in SUBSET (1 .. n) |-> IF S = {} THEN s ELSE F[<<jt[S \ {Max(S)}], Max(S)>>]]
    BY <1>6 DEF Folds
  <2>2. \A S \in SUBSET (1 .. n) : S # {} => Max(S) \in 1 .. n
    BY <1>2, GreatestOf DEF n
  <2> HIDE DEF F
  <2>3. \A S \in SUBSET (1 .. n) : S # {} =>
           F[<<jt[S \ {Max(S)}], Max(S)>>] = Step(jt[S \ {Max(S)}], seq[Max(S)])
    BY <2>2, <1>5
  <2>4. jt = [S \in SUBSET (1 .. n) |-> IF S = {} THEN s ELSE Step(jt[S \ {Max(S)}], seq[Max(S)])]
    BY <2>1, <2>3
  <2>5. it = [S \in SUBSET (1 .. n) |-> IF S = {} THEN s ELSE Step(it[S \ {Max(S)}], seq[Max(S)])]
    BY <2>4
  <2> HIDE DEF it
  <2>6. it[{}] = s
    BY <2>5
  <2>7. \A S \in SUBSET (1 .. n) : S # {} => it[S] = Step(it[S \ {Max(S)}], seq[Max(S)])
    BY <2>5
  <2> QED BY <2>2, <1>5, <2>6, <2>7 DEF Unfolds
<1> HIDE DEF D, seq, n, Step, F, it
<1>7. s \in D
  BY AsksSame DEF D, Asking
<1>8. it[1 .. n] \in D /\ RunsTo(it[1 .. n], n, D, F, s)
  BY <1>2, <1>5, <1>6, <1>7, Folded
<1>9. PICK h : /\ h \in [0 .. n -> D] /\ h[0] = s /\ h[n] = it[1 .. n]
              /\ \A k \in 1 .. n : h[k] = F[<<h[k - 1], k>>]
  BY <1>8 DEF RunsTo, Runs
<1>10. \A k \in 1 .. n : h[k - 1] \in D /\ h[k] \in D /\ h[k] = Step(h[k - 1], seq[k])
  <2> TAKE k \in 1 .. n
  <2>1. k - 1 \in 0 .. n /\ k \in 0 .. n
    BY <1>2
  <2> QED BY <2>1, <1>9, <1>5
<1> DEFINE P(k) == \A i \in 1 .. k : seq[i] # entry[1] /\ MayAsk(s, seq[i]) => entry[2] \in Req(h[k], seq[i])
           T == {k \in Nat : k <= n => P(k)}
<1>11. 0 \in T
  OBVIOUS
<1>12. ASSUME NEW k \in Nat, k \in T PROVE k + 1 \in T
  <2> SUFFICES ASSUME k + 1 <= n PROVE P(k + 1)
    OBVIOUS
  <2>1. k + 1 \in 1 .. n /\ k \in 0 .. n /\ (k + 1) - 1 = k /\ k <= n
    BY <1>2
  <2>2. P(k)
    BY <1>12, <2>1
  <2>3. h[k] \in D /\ h[k + 1] \in D /\ h[k + 1] = Step(h[k], seq[k + 1])
    BY <1>10, <2>1
  <2>4. \A i \in 1 .. k + 1 : i \in 1 .. k \/ i = k + 1
    OBVIOUS
  <2>5. h[k] \in PeerType /\ Asks(s, h[k]) /\ seq[k + 1] \in Remote
    BY <2>1, <2>3, <1>1, <1>2 DEF D, Asking
  <2>6. /\ Asks(h[k], h[k + 1])
        /\ seq[k + 1] # entry[1] /\ MayAsk(h[k], seq[k + 1]) => entry[2] \in Req(h[k + 1], seq[k + 1])
    BY <2>3, <2>5, PeerAsked DEF Step, Asking
  <2>7. \A r \in Remote : MayAsk(s, r) => MayAsk(h[k], r)
    BY <2>5 DEF Asks, EndGame, MayAsk, Established
  <2>8. \A r \in Remote : Req(h[k], r) \subseteq Req(h[k + 1], r)
    BY <2>6 DEF Asks, EndGame
  <2>9. \A i \in 1 .. k : seq[i] \in Remote
    BY <2>1, <1>1, <1>2
  <2> QED BY <2>2, <2>4, <2>5, <2>6, <2>7, <2>8, <2>9
<1>13. P(n)
  <2>1. n \in T
    <3> HIDE DEF T
    <3> QED BY <1>2, <1>11, <1>12, AllNumbers
  <2> QED BY <2>1, <1>2
<1>14. \A r \in ToSet(peers) : \E i \in 1 .. n : r = seq[i]
  BY <1>2 DEF ToSet, seq
<1> QED BY <1>3, <1>8, <1>9, <1>13, <1>14 DEF D


LEMMA AllAskedAll ==
  ASSUME NEW s \in PeerType, NEW peers \in Seq(Remote), NEW list \in Seq(Remote \X Entry)
  PROVE  LET u == FoldLeft(LAMBDA w, entry : FoldLeft(LAMBDA v, r : AskPeer(v, r, entry), w, peers), s, list)
         IN  /\ u \in Asking(s)
             /\ \A entry \in ToSet(list) : \A r \in ToSet(peers) :
                    r # entry[1] /\ MayAsk(s, r) => entry[2] \in Req(u, r)
<1> DEFINE D == Asking(s)
           seq == list
           n == Len(seq)
           Step(t, x) == FoldLeft(LAMBDA v, r : AskPeer(v, r, x), t, peers)
           F == [y \in D \X (1 .. n) |-> Step(y[1], seq[y[2]])]
           it == CHOOSE jt : jt = [S \in SUBSET (1 .. n) |->
                                     IF S = {} THEN s ELSE Step(jt[S \ {Max(S)}], seq[Max(S)])]
<1>1. seq \in Seq(Remote \X Entry)
  OBVIOUS
<1>2. n \in Nat /\ DOMAIN seq = 1 .. n
  BY <1>1
<1>3. FoldLeft(LAMBDA w, entry : FoldLeft(LAMBDA v, r : AskPeer(v, r, entry), w, peers), s, list) = it[1 .. n]
  BY <1>2 DEF FoldLeft, MapThenFoldSet
<1>4. ASSUME NEW t \in D, NEW i \in 1 .. n PROVE Step(t, seq[i]) \in D
  <2>1. seq[i] \in Remote \X Entry
    BY <1>1, <1>2
  <2>2. t \in PeerType /\ Asks(s, t)
    BY DEF Asking
  <2> DEFINE v == Step(t, seq[i])
  <2>3. v \in PeerType /\ Asks(t, v)
    BY <2>1, <2>2, AllAskedOne DEF Asking
  <2> HIDE DEF v
  <2>4. Asks(s, v)
    BY <2>2, <2>3, AsksComposed
  <2> QED BY <2>3, <2>4 DEF Asking, v
<1>5. F \in [D \X (1 .. n) -> D] /\ \A d \in D : \A i \in 1 .. n : F[<<d, i>>] = Step(d, seq[i])
  <2> HIDE DEF D, Step
  <2> QED BY <1>4
<1>6. ASSUME NEW jt \in [SUBSET (1 .. n) -> D], Folds(jt, SUBSET (1 .. n), F, s)
      PROVE  Unfolds(it, n, D, F, s)
  <2> HIDE DEF D, seq, n, Step
  <2>1. jt = [S \in SUBSET (1 .. n) |-> IF S = {} THEN s ELSE F[<<jt[S \ {Max(S)}], Max(S)>>]]
    BY <1>6 DEF Folds
  <2>2. \A S \in SUBSET (1 .. n) : S # {} => Max(S) \in 1 .. n
    BY <1>2, GreatestOf DEF n
  <2> HIDE DEF F
  <2>3. \A S \in SUBSET (1 .. n) : S # {} =>
           F[<<jt[S \ {Max(S)}], Max(S)>>] = Step(jt[S \ {Max(S)}], seq[Max(S)])
    BY <2>2, <1>5
  <2>4. jt = [S \in SUBSET (1 .. n) |-> IF S = {} THEN s ELSE Step(jt[S \ {Max(S)}], seq[Max(S)])]
    BY <2>1, <2>3
  <2>5. it = [S \in SUBSET (1 .. n) |-> IF S = {} THEN s ELSE Step(it[S \ {Max(S)}], seq[Max(S)])]
    BY <2>4
  <2> HIDE DEF it
  <2>6. it[{}] = s
    BY <2>5
  <2>7. \A S \in SUBSET (1 .. n) : S # {} => it[S] = Step(it[S \ {Max(S)}], seq[Max(S)])
    BY <2>5
  <2> QED BY <2>2, <1>5, <2>6, <2>7 DEF Unfolds
<1> HIDE DEF D, seq, n, Step, F, it
<1>7. s \in D
  BY AsksSame DEF D, Asking
<1>8. it[1 .. n] \in D /\ RunsTo(it[1 .. n], n, D, F, s)
  BY <1>2, <1>5, <1>6, <1>7, Folded
<1>9. PICK h : /\ h \in [0 .. n -> D] /\ h[0] = s /\ h[n] = it[1 .. n]
              /\ \A k \in 1 .. n : h[k] = F[<<h[k - 1], k>>]
  BY <1>8 DEF RunsTo, Runs
<1>10. \A k \in 1 .. n : h[k - 1] \in D /\ h[k] \in D /\ h[k] = Step(h[k - 1], seq[k])
  <2> TAKE k \in 1 .. n
  <2>1. k - 1 \in 0 .. n /\ k \in 0 .. n
    BY <1>2
  <2> QED BY <2>1, <1>9, <1>5
<1> DEFINE P(k) == \A i \in 1 .. k : \A r \in ToSet(peers) :
                      r # seq[i][1] /\ MayAsk(s, r) => seq[i][2] \in Req(h[k], r)
           T == {k \in Nat : k <= n => P(k)}
<1>11. 0 \in T
  OBVIOUS
<1>12. ASSUME NEW k \in Nat, k \in T PROVE k + 1 \in T
  <2> SUFFICES ASSUME k + 1 <= n PROVE P(k + 1)
    OBVIOUS
  <2>1. k + 1 \in 1 .. n /\ k \in 0 .. n /\ (k + 1) - 1 = k /\ k <= n
    BY <1>2
  <2>2. P(k)
    BY <1>12, <2>1
  <2>3. h[k] \in D /\ h[k + 1] \in D /\ h[k + 1] = Step(h[k], seq[k + 1])
    BY <1>10, <2>1
  <2>4. \A i \in 1 .. k + 1 : i \in 1 .. k \/ i = k + 1
    OBVIOUS
  <2>5. h[k] \in PeerType /\ Asks(s, h[k]) /\ seq[k + 1] \in Remote \X Entry
    BY <2>1, <2>3, <1>1, <1>2 DEF D, Asking
  <2>6. /\ Asks(h[k], h[k + 1])
        /\ \A r \in ToSet(peers) :
             r # seq[k + 1][1] /\ MayAsk(h[k], r) => seq[k + 1][2] \in Req(h[k + 1], r)
    BY <2>3, <2>5, AllAskedOne DEF Step, Asking
  <2>7. \A r \in Remote : MayAsk(s, r) => MayAsk(h[k], r)
    BY <2>5 DEF Asks, EndGame, MayAsk, Established
  <2>8. \A r \in Remote : Req(h[k], r) \subseteq Req(h[k + 1], r)
    BY <2>6 DEF Asks, EndGame
  <2>9. \A r \in ToSet(peers) : r \in Remote
    BY DEF ToSet
  <2> QED BY <2>2, <2>4, <2>5, <2>6, <2>7, <2>8, <2>9
<1>13. P(n)
  <2>1. n \in T
    <3> HIDE DEF T
    <3> QED BY <1>2, <1>11, <1>12, AllNumbers
  <2> QED BY <2>1, <1>2
<1>14. \A entry \in ToSet(list) : \E i \in 1 .. n : entry = seq[i]
  BY <1>2 DEF ToSet, seq
<1> QED BY <1>3, <1>8, <1>9, <1>13, <1>14 DEF D


\* In the end game, every missing block is listed, and asked of every thread that may ask.
AllFilled(s) == Listed(s) /\ \A r \in Remote : MayAsk(s, r) => AsksAll(s, r)

LEMMA EndGameFilled ==
  ASSUME NEW s \in PeerType, Known(s),
         \A e \in Missing(s) : \E q \in Remote : /\ <<q, e>> \in Entries(s) \/ (e \in Req(s, q) /\ Established(s, q))
  PROVE  LET u == ScheduleEndGameRequests(s)
         IN  u \in PeerType /\ EndGame(s, u) /\ Frame(s, u, {}) /\ AllFilled(u)
<1> DEFINE list == FoldLeft(LAMBDA l, r : Gather(s, l, r), s.endGameRequests, s.peerState)
           t == [s EXCEPT !.endGameRequests = list]
           peers == s.peerState
           u == FoldLeft(LAMBDA w, entry : FoldLeft(LAMBDA v, r : AskPeer(v, r, entry), w, peers), t, list)
<1>1. /\ list \in Seq(Remote \X Entry)
      /\ Entries(s) \subseteq ToSet(list)
      /\ \A r \in ToSet(peers) : \A e \in Req(s, r) : Available(s, e) \/ <<r, e>> \in ToSet(list)
  BY AllGathered
<1>2. ScheduleEndGameRequests(s) = u
  BY DEF ScheduleEndGameRequests
<1> HIDE DEF list
<1>3. t \in PeerType /\ peers \in Seq(Remote)
  BY <1>1 DEF PeerType
<1>4. /\ t.localBitfield = s.localBitfield /\ t.state = s.state /\ t.thread = s.thread
      /\ t.agenda = s.agenda /\ t.endGameRequests = list /\ t.peerState = s.peerState
      /\ t.pieceFreq = s.pieceFreq
  BY DEF PeerType
<1> HIDE DEF t, peers
<1>5. /\ u \in Asking(t)
      /\ \A entry \in ToSet(list) : \A r \in ToSet(peers) :
             r # entry[1] /\ MayAsk(t, r) => entry[2] \in Req(u, r)
  BY <1>1, <1>3, AllAskedAll
<1> HIDE DEF u
<1>6. u \in PeerType /\ EndGame(t, u) /\ Frame(t, u, {}) /\ u.endGameRequests = list
  BY <1>4, <1>5 DEF Asking, Asks
<1>7. u.localBitfield = s.localBitfield /\ \A r \in Remote : (MayAsk(u, r) <=> MayAsk(t, r)) /\ (MayAsk(t, r) <=> MayAsk(s, r))
  BY <1>4, <1>6 DEF EndGame, MayAsk, Established
<1>8. Missing(u) = Missing(s)
  BY <1>7 DEF Missing
<1>9. \A e \in Missing(u) : \E q \in Remote : <<q, e>> \in ToSet(list)
  <2> TAKE e \in Missing(u)
  <2>1. PICK q \in Remote : <<q, e>> \in Entries(s) \/ (e \in Req(s, q) /\ Established(s, q))
    BY <1>8
  <2>2. ~Available(s, e)
    BY <1>8 DEF Missing, Available
  <2>3. Established(s, q) => q \in ToSet(peers)
    BY DEF Known, peers
  <2> QED BY <1>1, <2>1, <2>2, <2>3
<1>10. Listed(u)
  BY <1>6, <1>9 DEF Listed, Entries
<1>11. ASSUME NEW r \in Remote, MayAsk(u, r), NEW e \in Missing(u)
       PROVE  e \in Req(u, r) \/ <<r, e>> \in Entries(u)
  <2>1. PICK q \in Remote : <<q, e>> \in ToSet(list)
    BY <1>9
  <2>2. r \in ToSet(peers)
    BY <1>7, <1>11 DEF Known, MayAsk, peers
  <2>3. CASE q = r
    BY <2>1, <2>3, <1>6 DEF Entries
  <2>4. CASE q # r
    <3>1. r # <<q, e>>[1] /\ MayAsk(t, r) /\ <<q, e>>[2] = e
      BY <2>4, <1>7, <1>11
    <3> QED BY <2>1, <2>2, <3>1, <1>5
  <2> QED BY <2>3, <2>4
<1>12. AllFilled(u)
  BY <1>10, <1>11 DEF AllFilled, AsksAll
<1>13. Frame(s, t, {})
  BY <1>4, FrameQuiet
<1>14. Frame(s, u, {}) /\ EndGame(s, u)
  BY <1>2, <1>6, <1>13, FrameComposed, EndGameScheduled
<1> QED BY <1>2, <1>6, <1>12, <1>14

-----------------------------------------------------------------------------
(* A thread asks for blocks *)

\* From s to u, outside the end game, thread r may have asked for more, and no other has.
More(s, u, r) ==
  /\ s.localBitfield.bitfield \subseteq u.localBitfield.bitfield
  /\ u.state = "NORMAL" =>
       /\ s.state = "NORMAL"
       /\ \A q \in Remote \ {r} : u.thread[q].requests = s.thread[q].requests
       /\ \A p \in Piece : IsPieceRequested(s.localBitfield, p) => IsPieceRequested(u.localBitfield, p)

LEMMA MoreSame == ASSUME NEW s, NEW r PROVE More(s, s, r)
BY DEF More

LEMMA MoreComposed ==
  ASSUME NEW s, NEW u, NEW v, NEW r, More(s, u, r), More(u, v, r)
  PROVE  More(s, v, r)
BY DEF More

LEMMA FilledSame ==
  ASSUME NEW s, NEW u, AllFilled(s), u.thread = s.thread, u.localBitfield = s.localBitfield,
         u.endGameRequests = s.endGameRequests
  PROVE  AllFilled(u)
BY DEF AllFilled, Listed, AsksAll, MayAsk, Established, Missing, Entries, Req

\* Only a thread with a connection has requests.
LEMMA OpenRequests ==
  ASSUME NEW s \in PeerType, Threads(s), NEW q \in Remote, NEW e \in Req(s, q)
  PROVE  Established(s, q) /\ ~s.thread[q].peerChoking
<1>1. s.thread[q].requests # <<>>
  BY DEF Req, ToSet
<1> QED BY <1>1 DEF Threads, Established

LEMMA BlockAskedFor ==
  ASSUME NEW s \in PeerType, NEW f, NEW g, PeerOK(s, f, g), NEW r \in Remote, NEW e \in Entry,
         e[2] \in FreeBlocks(s.localBitfield, e[1]), s.state = "NORMAL", Known(s),
         ~s.thread[r].peerChoking, CanRequestMore(s, r), Owner(s, r, e[1])
  PROVE  LET u == RequestBlock(s, r, e)
         IN  /\ Frame(s, u, {}) /\ More(s, u, r)
             /\ u.state = "NORMAL" => IsPieceRequested(u.localBitfield, e[1])
             /\ u.state = "ENDGAME" => AllFilled(u)
<1> DEFINE lb == s.localBitfield
           lb2 == SetBlockRequested(lb, e[1], e[2], TRUE)
           w == AskingPeer(s, r, e, "NORMAL")
           z == AskingPeer(s, r, e, "ENDGAME")
           ends == s.enableEndGameMode /\ lb2.numNonRequestedNonAvailableBlocks = 0
           v == IF ends THEN ScheduleEndGameRequests(z) ELSE w
           m == RequestMsg("REQUEST", e)
           u == Schedule(v, r, m)
<1>1. RequestBlock(s, r, e) = u
  <2> DEFINE a == AddRequest(s, r, e)
             marked == [a EXCEPT !.localBitfield = SetBlockRequested(@, e[1], e[2], TRUE)]
  <2>0. s.thread \in [Remote -> ThreadType] /\ s.thread[r] \in ThreadType
    BY DEF PeerType
  <2>1. a = [s EXCEPT !.thread = [s.thread EXCEPT ![r] = AskingThread(s, r, e)]]
    BY <2>0 DEF AddRequest, AskingThread
  <2>2. marked = w
    <3>1. a.localBitfield = lb /\ a.state = "NORMAL"
      BY <2>1 DEF PeerType
    <3> QED BY <2>1, <3>1 DEF AskingPeer, PeerType
  <2>3. [w EXCEPT !.state = "ENDGAME"] = z
    BY DEF AskingPeer, PeerType
  <2>4. /\ w.enableEndGameMode = s.enableEndGameMode /\ w.state = "NORMAL" /\ w.localBitfield = lb2
        /\ a.state = "NORMAL"
    BY <2>1 DEF AskingPeer, PeerType
  <2>5. EnterEndGameMode(w) <=> ends
    BY <2>4 DEF EnterEndGameMode
  <2>6. UpdateBlockRequests(a, e, TRUE) = IF EnterEndGameMode(marked) THEN ScheduleEndGameRequests([marked EXCEPT !.state = "ENDGAME"]) ELSE marked
    <3> HIDE DEF a
    <3> QED BY <2>4 DEF UpdateBlockRequests
  <2> HIDE DEF a, marked, w, z, ends
  <2>7. UpdateBlockRequests(a, e, TRUE) = v
    BY <2>2, <2>3, <2>5, <2>6
  <2> QED BY <2>7 DEF RequestBlock, a
<1>2. ASSUME NEW st \in {"NORMAL", "ENDGAME"}
      PROVE  LET x == AskingPeer(s, r, e, st)
             IN  /\ Frame(s, x, {}) /\ x.localBitfield = lb2 /\ x.state = st
                 /\ \A q \in Remote \ {r} : x.thread[q] = s.thread[q]
                 /\ x.thread[r] = AskingThread(s, r, e)
  <2> DEFINE x == AskingPeer(s, r, e, st)
             t == AskingThread(s, r, e)
  <2>1. s.thread \in [Remote -> ThreadType] /\ s.thread[r] \in ThreadType
    BY DEF PeerType
  <2>2. /\ t.conn = s.thread[r].conn /\ t.peerChoking = s.thread[r].peerChoking
        /\ t.remoteBitfield = s.thread[r].remoteBitfield /\ t.amInterested = s.thread[r].amInterested
        /\ t.allowedToRequest = s.thread[r].allowedToRequest
    BY <2>1 DEF AskingThread, ThreadType
  <2> HIDE DEF t, lb2
  <2>3. /\ x.thread = [s.thread EXCEPT ![r] = t] /\ x.pieceFreq = s.pieceFreq /\ x.peerState = s.peerState
        /\ x.agenda = s.agenda /\ x.localBitfield = lb2 /\ x.state = st
    BY DEF AskingPeer, PeerType, lb2, t
  <2> HIDE DEF x
  <2>4. x.thread[r] = t /\ \A q \in Remote \ {r} : x.thread[q] = s.thread[q]
    BY <2>1, <2>3
  <2>5. Frame(s, x, {})
    BY <2>2, <2>3, <2>4, FrameQuiet
  <2> QED BY <2>3, <2>4, <2>5 DEF x, t
<1> HIDE DEF w, z, m
<1>3. /\ PeerOK(w, f, g) /\ w.state = "NORMAL"
  BY BlockMarked DEF w
<1>4. lb \in BitFieldType /\ e[1] \in Piece
  BY DEF PeerType, Entry
<1>5. /\ lb2.bitfield = lb.bitfield
      /\ lb2.currentlyRequested = [lb.currentlyRequested EXCEPT ![e[1]] = lb.currentlyRequested[e[1]] + 1]
  <2>1. lb2 = [lb EXCEPT !.requested = @ \cup {<<e[1], e[2]>>},
                         !.currentlyRequested[e[1]] = @ + 1,
                         !.numNonRequestedNonAvailableBlocks = Decrement(@)]
    BY DEF SetBlockRequested
  <2> HIDE DEF lb, lb2
  <2> QED BY <1>4, <2>1 DEF BitFieldType
<1>6. /\ IsPieceRequested(lb2, e[1])
      /\ \A p \in Piece : IsPieceRequested(lb, p) => IsPieceRequested(lb2, p)
  <2>1. lb.currentlyRequested \in [Piece -> Nat]
    BY <1>4 DEF BitFieldType
  <2> HIDE DEF lb, lb2
  <2>2. lb2.currentlyRequested[e[1]] = lb.currentlyRequested[e[1]] + 1
    BY <1>4, <1>5, <2>1
  <2>3. \A p \in Piece : p # e[1] => lb2.currentlyRequested[p] = lb.currentlyRequested[p]
    BY <1>5, <2>1
  <2>4. lb.currentlyRequested[e[1]] \in Nat
    BY <1>4, <2>1
  <2> QED BY <2>2, <2>3, <2>4 DEF IsPieceRequested
<1>7. m \in Messages(SelfKinds) /\ m.kind = "REQUEST"
  BY MsgTypes DEF SelfKinds, m
<1>8. CASE ~ends
  <2>1. v = w /\ v \in PeerType
    BY <1>3, <1>8 DEF PeerOK
  <2>2. /\ Frame(s, w, {}) /\ w.localBitfield = lb2
        /\ \A q \in Remote \ {r} : w.thread[q] = s.thread[q]
    BY <1>2 DEF w
  <2> HIDE DEF v, ends, lb, lb2
  <2>3. /\ Frame(v, u, {}) /\ u.thread = v.thread /\ u.localBitfield = v.localBitfield /\ u.state = v.state
    BY <2>1, <1>7, FrameScheduled
  <2> HIDE DEF u
  <2>4. Frame(s, u, {}) /\ u.state = "NORMAL"
    BY <2>1, <2>2, <2>3, <1>3, FrameComposed
  <2>5. More(s, u, r) /\ IsPieceRequested(u.localBitfield, e[1])
    BY <2>1, <2>2, <2>3, <1>5, <1>6 DEF More, lb
  <2> QED BY <1>1, <2>4, <2>5
<1>9. CASE ends
  <2>1. PeerOK(z, f, g) /\ z.state = "ENDGAME"
    BY <1>9, BlockMarked DEF z
  <2>2. /\ Frame(s, z, {}) /\ z.localBitfield = lb2 /\ w.localBitfield = lb2
        /\ \A q \in Remote : z.thread[q] = w.thread[q]
    <3>1. /\ Frame(s, z, {}) /\ z.localBitfield = lb2
          /\ \A q \in Remote \ {r} : z.thread[q] = s.thread[q]
          /\ z.thread[r] = AskingThread(s, r, e)
      BY <1>2 DEF z
    <3>2. /\ w.localBitfield = lb2
          /\ \A q \in Remote \ {r} : w.thread[q] = s.thread[q]
          /\ w.thread[r] = AskingThread(s, r, e)
      BY <1>2 DEF w
    <3> QED BY <3>1, <3>2
  <2> HIDE DEF lb, lb2
  <2>3. \A x \in Missing(z) : \E q \in Remote : x \in Req(z, q) /\ Established(z, q)
    <3> TAKE x \in Missing(z)
    <3>1. Entry \subseteq lb2.requested \cup lb2.blockfield
      BY <2>1, <2>2 DEF PeerOK, Books, AllAsked
    <3>2. lb2.requested \ lb2.blockfield = PendingOf(w)
      BY <1>3, <2>2 DEF PeerOK, Books, Marks
    <3>3. x \in PendingOf(w)
      BY <2>2, <3>1, <3>2 DEF Missing
    <3>4. PICK q \in Remote : x \in Req(w, q)
      BY <3>3 DEF PendingOf
    <3>5. x \in Req(z, q)
      BY <2>2, <3>4 DEF Req
    <3>6. z \in PeerType /\ Threads(z)
      BY <2>1 DEF PeerOK
    <3> QED BY <3>5, <3>6, OpenRequests
  <2>4. Known(z) /\ z \in PeerType
    BY <2>1, <2>2, KnownFrame DEF PeerOK
  <2>5. /\ v \in PeerType /\ EndGame(z, v) /\ Frame(z, v, {}) /\ AllFilled(v)
    BY <1>9, <2>3, <2>4, EndGameFilled
  <2> HIDE DEF v, ends
  <2>6. /\ Frame(v, u, {}) /\ u.thread = v.thread /\ u.localBitfield = v.localBitfield /\ u.state = v.state
        /\ u.endGameRequests = v.endGameRequests
    BY <2>5, <1>7, FrameScheduled
  <2> HIDE DEF u
  <2>7. AllFilled(u)
    BY <2>5, <2>6, FilledSame
  <2>8. Frame(s, u, {})
    BY <2>2, <2>5, <2>6, FrameComposed
  <2>9. u.state = "ENDGAME" /\ u.localBitfield = lb2
    BY <2>1, <2>2, <2>5, <2>6 DEF EndGame
  <2>10. More(s, u, r)
    BY <2>9, <1>5 DEF More, lb
  <2> QED BY <1>1, <2>7, <2>8, <2>9, <2>10
<1> QED BY <1>8, <1>9

\* The states that the requests of thread r for blocks of p may lead to from s.
Sends(s, f, g, r, p) ==
  {t \in Requests(s, f, g, r, p) : /\ t.state \in {"NORMAL", "ENDGAME"} /\ Frame(s, t, {}) /\ More(s, t, r)
                                   /\ t.state = "ENDGAME" => AllFilled(t)}

LEMMA NextAskedFor ==
  ASSUME NEW s, Known(s), NEW f, NEW g, NEW r \in Remote, NEW p \in Piece, NEW t \in Sends(s, f, g, r, p)
  PROVE  LET u == RequestNext(t, r, p)
         IN  /\ u \in Sends(s, f, g, r, p) /\ More(t, u, r)
             /\ u.state = "NORMAL" /\ CanRequestMore(t, r) /\ FreeBlocks(t.localBitfield, p) # {}
                   => IsPieceRequested(u.localBitfield, p)
<1>1. /\ t \in PeerType /\ PeerOK(t, f, g) /\ ~t.thread[r].peerChoking
      /\ t.state = "NORMAL" => Owner(t, r, p)
      /\ t.state \in {"NORMAL", "ENDGAME"}
      /\ Frame(s, t, {}) /\ More(s, t, r) /\ t \in Requests(s, f, g, r, p)
  BY DEF Sends, Requests
<1> DEFINE b == NextBlock(t.localBitfield, p)
           e == <<p, b>>
           u == RequestNext(t, r, p)
<1>2. u \in Requests(s, f, g, r, p) /\ u.state # "SEEDING"
  BY <1>1, NextRequested
<1>3. u \in PeerType /\ u.state \in {"NORMAL", "ENDGAME"}
  BY <1>2 DEF Requests, PeerType
<1>4. CASE CanRequestMore(t, r) /\ t.state # "ENDGAME" /\ b >= 0
  <2>1. u = RequestBlock(t, r, e)
    BY <1>4 DEF RequestNext
  <2>2. b \in FreeBlocks(t.localBitfield, p)
    BY <1>4, NextBlockIs
  <2> HIDE DEF b
  <2>3. e \in Entry /\ e[1] = p /\ e[2] = b
    BY <2>2 DEF Entry, FreeBlocks
  <2>4. Known(t)
    BY <1>1, KnownFrame
  <2> HIDE DEF e, u
  <2>5. /\ Frame(t, u, {}) /\ More(t, u, r)
        /\ u.state = "NORMAL" => IsPieceRequested(u.localBitfield, e[1])
        /\ u.state = "ENDGAME" => AllFilled(u)
    <3>1. e[2] \in FreeBlocks(t.localBitfield, e[1]) /\ t.state = "NORMAL" /\ Owner(t, r, e[1])
      BY <1>1, <1>4, <2>2, <2>3
    <3>2. e \in Entry /\ CanRequestMore(t, r)
      BY <1>4, <2>3
    <3>3. t \in PeerType /\ PeerOK(t, f, g) /\ ~t.thread[r].peerChoking
      BY <1>1
    <3> QED BY <2>1, <2>4, <3>1, <3>2, <3>3, BlockAskedFor
  <2>6. Frame(s, u, {}) /\ More(s, u, r)
    BY <1>1, <2>5, FrameComposed, MoreComposed
  <2> QED BY <1>2, <1>3, <2>3, <2>5, <2>6 DEF Sends, u
<1>5. CASE ~(CanRequestMore(t, r) /\ t.state # "ENDGAME" /\ b >= 0)
  <2>1. u = t
    BY <1>5 DEF RequestNext
  <2>2. t.state = "NORMAL" /\ CanRequestMore(t, r) /\ FreeBlocks(t.localBitfield, p) # {} => b >= 0
    BY NextBlockIs
  <2> HIDE DEF u, b
  <2> QED BY <1>5, <2>1, <2>2, MoreSame DEF u
<1> QED BY <1>4, <1>5

LEMMA PieceAskedFor ==
  ASSUME NEW s \in PeerType, NEW f, NEW g, PeerOK(s, f, g), NEW r \in Remote, NEW p \in Piece, Known(s),
         s.state = "NORMAL", ~s.thread[r].peerChoking, Owner(s, r, p)
  PROVE  LET u == SendBlockRequests(s, r, p)
         IN  /\ Frame(s, u, {}) /\ More(s, u, r)
             /\ u.state \in {"NORMAL", "ENDGAME"}
             /\ u.state = "ENDGAME" => AllFilled(u)
             /\ u.state = "NORMAL" /\ CanRequestMore(u, r) => Moving(u, r)
             /\ u.state = "NORMAL" /\ CanRequestMore(s, r) /\ FreeBlocks(s.localBitfield, p) # {}
                   => IsPieceRequested(u.localBitfield, p)
<1> DEFINE D == Sends(s, f, g, r, p)
           seq == [i \in 1 .. RequestQueueDepth |-> i]
           n == Len(seq)
           Step(t, x) == RequestNext(t, r, p)
           F == [y \in D \X (1 .. n) |-> Step(y[1], seq[y[2]])]
           it == CHOOSE jt : jt = [S \in SUBSET (1 .. n) |->
                                     IF S = {} THEN s ELSE Step(jt[S \ {Max(S)}], seq[Max(S)])]
<1>1. seq \in Seq(Nat)
  BY RequestQueueDepthAssumption
<1>2. n \in Nat /\ DOMAIN seq = 1 .. n
  <2> HIDE DEF seq
  <2> QED BY <1>1
<1>3. FoldLeft(LAMBDA t, i : RequestNext(t, r, p), s, [i \in 1 .. RequestQueueDepth |-> i]) = it[1 .. n]
  BY <1>2 DEF FoldLeft, MapThenFoldSet
<1>4. ASSUME NEW t \in D, NEW i \in 1 .. n PROVE Step(t, seq[i]) \in D
  <2> HIDE DEF seq
  <2>1. seq[i] \in Nat
    BY <1>1, <1>2
  <2> QED BY NextAskedFor
<1>5. F \in [D \X (1 .. n) -> D] /\ \A d \in D : \A i \in 1 .. n : F[<<d, i>>] = Step(d, seq[i])
  <2> HIDE DEF D, Step
  <2> QED BY <1>4
<1>6. ASSUME NEW jt \in [SUBSET (1 .. n) -> D], Folds(jt, SUBSET (1 .. n), F, s)
      PROVE  Unfolds(it, n, D, F, s)
  <2> HIDE DEF D, seq, n, Step
  <2>1. jt = [S \in SUBSET (1 .. n) |-> IF S = {} THEN s ELSE F[<<jt[S \ {Max(S)}], Max(S)>>]]
    BY <1>6 DEF Folds
  <2>2. \A S \in SUBSET (1 .. n) : S # {} => Max(S) \in 1 .. n
    BY <1>2, GreatestOf DEF n
  <2> HIDE DEF F
  <2>3. \A S \in SUBSET (1 .. n) : S # {} =>
           F[<<jt[S \ {Max(S)}], Max(S)>>] = Step(jt[S \ {Max(S)}], seq[Max(S)])
    BY <2>2, <1>5
  <2>4. jt = [S \in SUBSET (1 .. n) |-> IF S = {} THEN s ELSE Step(jt[S \ {Max(S)}], seq[Max(S)])]
    BY <2>1, <2>3
  <2>5. it = [S \in SUBSET (1 .. n) |-> IF S = {} THEN s ELSE Step(it[S \ {Max(S)}], seq[Max(S)])]
    BY <2>4
  <2> HIDE DEF it
  <2>6. it[{}] = s
    BY <2>5
  <2>7. \A S \in SUBSET (1 .. n) : S # {} => it[S] = Step(it[S \ {Max(S)}], seq[Max(S)])
    BY <2>5
  <2> QED BY <2>2, <1>5, <2>6, <2>7 DEF Unfolds
<1> HIDE DEF D, seq, n, Step, F, it
<1>7. s \in D
  BY KeptSame, FrameSame, MoreSame DEF D, Sends, Requests
<1>8. it[1 .. n] \in D /\ RunsTo(it[1 .. n], n, D, F, s)
  BY <1>2, <1>5, <1>6, <1>7, Folded
<1>9. PICK h : /\ h \in [0 .. n -> D] /\ h[0] = s /\ h[n] = it[1 .. n]
              /\ \A k \in 1 .. n : h[k] = F[<<h[k - 1], k>>]
  BY <1>8 DEF RunsTo, Runs
<1>10. \A k \in 1 .. n : h[k - 1] \in D /\ h[k] \in D /\ h[k] = Step(h[k - 1], seq[k])
  <2> TAKE k \in 1 .. n
  <2>1. k - 1 \in 0 .. n /\ k \in 0 .. n
    BY <1>2
  <2> QED BY <2>1, <1>9, <1>5
<1> DEFINE P(k) == k >= 1 /\ h[k].state = "NORMAL" /\ CanRequestMore(s, r) /\ FreeBlocks(s.localBitfield, p) # {}
                     => IsPieceRequested(h[k].localBitfield, p)
           T == {k \in Nat : k <= n => P(k)}
<1>11. 0 \in T
  OBVIOUS
<1>12. ASSUME NEW k \in Nat, k \in T PROVE k + 1 \in T
  <2> SUFFICES ASSUME k + 1 <= n PROVE P(k + 1)
    OBVIOUS
  <2>1. k + 1 \in 1 .. n /\ k \in 0 .. n /\ (k + 1) - 1 = k /\ k <= n
    BY <1>2
  <2>2. P(k)
    BY <1>12, <2>1
  <2>3. h[k] \in D /\ h[k + 1] \in D /\ h[k + 1] = Step(h[k], seq[k + 1])
    BY <1>10, <2>1
  <2>4. \A i \in 1 .. k + 1 : i \in 1 .. k \/ i = k + 1
    OBVIOUS
  <2>5. /\ h[k + 1] \in Sends(s, f, g, r, p) /\ More(h[k], h[k + 1], r)
        /\ h[k + 1].state = "NORMAL" /\ CanRequestMore(h[k], r) /\ FreeBlocks(h[k].localBitfield, p) # {}
                   => IsPieceRequested(h[k + 1].localBitfield, p)
    BY <2>3, NextAskedFor DEF Step, D
  <2>6. CASE k = 0
    BY <2>5, <2>6, <1>9
  <2>7. CASE k >= 1
    BY <2>2, <2>5, <2>7 DEF More
  <2> QED BY <2>6, <2>7
<1>13. P(n)
  <2>1. n \in T
    <3> HIDE DEF T
    <3> QED BY <1>2, <1>11, <1>12, AllNumbers
  <2> QED BY <2>1, <1>2
<1>14. n >= 1
  <2>1. n = RequestQueueDepth
    BY RequestQueueDepthAssumption DEF n, seq
  <2> QED BY <2>1, RequestQueueDepthAssumption
<1> DEFINE sent == FoldLeft(LAMBDA t, i : RequestNext(t, r, p), s, [i \in 1 .. RequestQueueDepth |-> i])
           m == Msg("NEXT_REQUEST")
           u == Schedule(sent, r, m)
<1>15. /\ sent \in Sends(s, f, g, r, p)
       /\ sent.state = "NORMAL" /\ CanRequestMore(s, r) /\ FreeBlocks(s.localBitfield, p) # {}
             => IsPieceRequested(sent.localBitfield, p)
  BY <1>3, <1>8, <1>9, <1>13, <1>14 DEF D
<1>16. SendBlockRequests(s, r, p) = IF CanRequestMore(sent, r) /\ sent.state # "ENDGAME" THEN u ELSE sent
  BY DEF SendBlockRequests
<1> HIDE DEF sent
<1>17. /\ sent \in PeerType /\ Frame(s, sent, {}) /\ More(s, sent, r) /\ sent.state \in {"NORMAL", "ENDGAME"}
       /\ sent.state = "ENDGAME" => AllFilled(sent)
  BY <1>15 DEF Sends, Requests
<1>18. m \in Messages(SelfKinds) /\ m.kind = "NEXT_REQUEST"
  BY MsgTypes DEF SelfKinds
<1> HIDE DEF m
<1>19. /\ Frame(sent, u, {}) /\ u.thread = sent.thread /\ u.localBitfield = sent.localBitfield
       /\ u.state = sent.state /\ u.endGameRequests = sent.endGameRequests /\ Due(u, r, {"NEXT_REQUEST"})
  BY <1>17, <1>18, FrameScheduled
<1> HIDE DEF u
<1>20. Frame(s, u, {}) /\ More(sent, u, r)
  BY <1>17, <1>19, FrameComposed DEF More
<1>21. Moving(u, r)
  BY <1>19 DEF Moving, Due
<1>22. More(s, u, r) /\ (u.state = "ENDGAME" => AllFilled(u))
  BY <1>17, <1>19, <1>20, MoreComposed, FilledSame
<1>23. CASE CanRequestMore(sent, r) /\ sent.state # "ENDGAME"
  BY <1>15, <1>16, <1>17, <1>19, <1>20, <1>21, <1>22, <1>23
<1>24. CASE ~(CanRequestMore(sent, r) /\ sent.state # "ENDGAME")
  BY <1>15, <1>16, <1>17, <1>24
<1> QED BY <1>23, <1>24

-----------------------------------------------------------------------------
(* A thread makes its next move *)

\* If there is a candidate, one is among the rarest.
LEMMA PieceSelected ==
  ASSUME NEW s \in PeerType, NEW r \in Remote, SelectPiece(s, r) = {}
  PROVE  Candidates(s, r) = {}
<1> SUFFICES ASSUME Candidates(s, r) # {} PROVE FALSE
  OBVIOUS
<1> DEFINE C == Candidates(s, r)
<1>1. C \subseteq Piece
  BY DEF Candidates, PeerType, ThreadType
<1>2. s.pieceFreq \in [Piece -> Nat] /\ Piece \subseteq Nat
  BY Sizes DEF PeerType
<1>3. C # {}
  OBVIOUS
<1>4. {p \in C : Cardinality({q \in C : Rarer(s, q, p)}) < RarestListSize} = {}
  BY <1>3 DEF SelectPiece
<1> HIDE DEF C
<1> DEFINE K == {s.pieceFreq[p] : p \in C}
<1>5. PICK k \in K : \A m \in K : k <= m
  <2>1. K \in SUBSET Nat /\ K # {}
    BY <1>1, <1>2, <1>3
  <2> HIDE DEF K
  <2> QED BY <2>1, LeastNumber
<1> DEFINE L == {p \in C : s.pieceFreq[p] = k}
<1>6. PICK p \in L : \A q \in L : p <= q
  <2>1. L \in SUBSET Nat /\ L # {}
    BY <1>1, <1>2, <1>5
  <2> HIDE DEF L
  <2> QED BY <2>1, LeastNumber
<1>7. \A q \in C : ~Rarer(s, q, p)
  <2> TAKE q \in C
  <2>1. s.pieceFreq[q] \in Nat /\ s.pieceFreq[p] = k /\ k \in Nat /\ k <= s.pieceFreq[q] /\ q \in Nat /\ p \in Nat
    BY <1>1, <1>2, <1>5, <1>6
  <2>2. s.pieceFreq[q] = k => p <= q
    BY <1>6
  <2> QED BY <2>1, <2>2 DEF Rarer
<1>8. Cardinality({q \in C : Rarer(s, q, p)}) = 0
  <2>1. {q \in C : Rarer(s, q, p)} = {}
    BY <1>7
  <2> QED BY <2>1, FS_EmptySet
<1>9. p \in C
  BY <1>6
<1> QED BY <1>4, <1>8, <1>9, RarestListSizeAssumption

\* What is free to be asked for does not change when nothing is asked for.
LEMMA CandidatesSame ==
  ASSUME NEW s, NEW u, NEW q, u.thread[q].remoteBitfield = s.thread[q].remoteBitfield,
         u.localBitfield = s.localBitfield, u.pieceFreq = s.pieceFreq
  PROVE  Candidates(u, q) = Candidates(s, q) /\ (AmInterested(u, q) <=> AmInterested(s, q))
BY DEF Candidates, AmInterested

\* Who has nothing of interest has no candidates.
LEMMA InterestingOnes ==
  ASSUME NEW s, NEW r, ~AmInterested(s, r)
  PROVE  Candidates(s, r) = {}
BY DEF Candidates, AmInterested

\* What a step from s to u that is made for thread r alone must do: r goes on, the others may as before.
Goes(s, u, r) ==
  /\ Frame(s, u, {r})
  /\ u.state = "NORMAL" => /\ s.state = "NORMAL" /\ Busy(u, r)
                           /\ \A q \in Remote \ {r} : /\ u.thread[q].requests = s.thread[q].requests
                                                      /\ Candidates(u, q) \subseteq Candidates(s, q)
  /\ u.state = "ENDGAME" => AllFilled(u)

LEMMA NotInterestedSent ==
  ASSUME NEW s \in PeerType, NEW r \in Remote
  PROVE  LET u == SendNotInterested(s, r)
         IN  /\ u \in PeerType /\ Frame(s, u, {}) /\ ~u.thread[r].amInterested
             /\ u.localBitfield = s.localBitfield /\ u.state = s.state
             /\ u.endGameRequests = s.endGameRequests /\ u.pieceFreq = s.pieceFreq
             /\ \A q \in Remote : u.thread[q].requests = s.thread[q].requests
             /\ u.agenda = s.agenda
<1> DEFINE m == StateMsg("NOT_INTERESTED")
           a == SendMessage(s, r, m)
           t == [a.thread[r] EXCEPT !.amInterested = FALSE]
           b == [a EXCEPT !.thread[r].amInterested = FALSE]
<1>1. SendNotInterested(s, r) = b
  BY DEF SendNotInterested
<1>2. m \in Messages(ToKinds)
  BY MsgTypes DEF ToKinds, StateMsg
<1> HIDE DEF m
<1>3. /\ a \in PeerType /\ Frame(s, a, {}) /\ a.thread = s.thread /\ a.localBitfield = s.localBitfield
      /\ a.state = s.state /\ a.endGameRequests = s.endGameRequests /\ a.agenda = s.agenda
      /\ a.pieceFreq = s.pieceFreq
  BY <1>2, FrameSent
<1> HIDE DEF a
<1>4. /\ t \in ThreadType /\ t.conn = a.thread[r].conn /\ t.peerChoking = a.thread[r].peerChoking
      /\ t.remoteBitfield = a.thread[r].remoteBitfield /\ ~t.amInterested
      /\ t.allowedToRequest = a.thread[r].allowedToRequest /\ t.requests = a.thread[r].requests
  <2>1. a.thread[r] \in ThreadType
    BY <1>3 DEF PeerType
  <2> QED BY <2>1 DEF ThreadType
<1>5. SetThread(a, b, r, t)
  BY <1>3 DEF SetThread, PeerType
<1> HIDE DEF b, t
<1>6. Frame(a, b, {}) /\ b.pieceFreq = a.pieceFreq
  BY <1>3, <1>4, <1>5, FrameThread
<1>7. /\ b \in PeerType /\ b.thread[r] = t /\ \A q \in Remote \ {r} : b.thread[q] = a.thread[q]
      /\ b.localBitfield = a.localBitfield /\ b.state = a.state
      /\ b.endGameRequests = a.endGameRequests /\ b.agenda = a.agenda
  BY <1>3, <1>4, <1>5, ThreadSet
<1>8. Frame(s, b, {})
  BY <1>3, <1>6, FrameComposed
<1>9. \A q \in Remote : b.thread[q].requests = s.thread[q].requests
  BY <1>3, <1>4, <1>7
<1> QED BY <1>1, <1>3, <1>4, <1>6, <1>7, <1>8, <1>9

LEMMA Moves ==
  ASSUME NEW s \in PeerType, NEW f, NEW g, PeerOK(s, f, g), NEW r \in Remote, s.state # "SEEDING", Known(s),
         s.state = "ENDGAME" => Listed(s), NEW u \in NextMove(s, r)
  PROVE  u \in PeerType /\ Goes(s, u, r)
<1>1. s.state \in {"NORMAL", "ENDGAME"} /\ Books(s)
  BY DEF PeerType, PeerOK
<1>2. CASE s.state = "ENDGAME"
  <2>1. u = ScheduleEndGameRequests(s)
    BY <1>2 DEF NextMove
  <2>2. /\ u \in PeerType /\ EndGame(s, u) /\ Frame(s, u, {}) /\ AllFilled(u)
    BY <1>2, <2>1, EndGameFilled DEF Listed
  <2> QED BY <2>2, <1>2, FrameWider DEF Goes, EndGame
<1>3. CASE s.state = "NORMAL"
  <2> DEFINE t == [s.thread[r] EXCEPT !.allowedToRequest = FALSE]
             a == [s EXCEPT !.thread[r].allowedToRequest = FALSE]
  <2>1. u \in MakeNextPeerMove(s, r)
    BY <1>3 DEF NextMove
  <2>2. \/ u = s /\ s.thread[r].peerChoking
        \/ ~s.thread[r].peerChoking /\ \E p \in SelectPiece(s, r) : u = SendBlockRequests(s, r, p)
        \/ SelectPiece(s, r) = {} /\ u = a
        \/ u = SendNotInterested(s, r)
    BY <2>1 DEF MakeNextPeerMove
  <2>3. CASE u = s /\ s.thread[r].peerChoking
    <3>1. Busy(s, r)
      BY <2>3 DEF Busy, Ready, MayAsk
    <3> QED BY <3>1, <2>3, <1>3, FrameSame DEF Goes
  <2>4. CASE ~s.thread[r].peerChoking /\ \E p \in SelectPiece(s, r) : u = SendBlockRequests(s, r, p)
    <3>1. PICK p \in SelectPiece(s, r) : u = SendBlockRequests(s, r, p)
      BY <2>4
    <3>2. p \in Candidates(s, r)
      BY DEF SelectPiece
    <3>3. p \in Piece /\ Owner(s, r, p)
      BY <3>2, <1>1, <1>3, CandidateFree
    <3>4. /\ Frame(s, u, {}) /\ More(s, u, r)
          /\ u.state = "ENDGAME" => AllFilled(u)
          /\ u.state = "NORMAL" /\ CanRequestMore(u, r) => Moving(u, r)
      BY <3>1, <3>3, <2>4, <1>1, <1>3, PieceAskedFor
    <3>5. SendBlockRequests(s, r, p) \in Requests(s, f, g, r, p)
      BY <3>3, <2>4, <1>1, <1>3, BlocksRequested
    <3>6. u \in PeerType
      BY <3>1, <3>5 DEF Requests
    <3>7. u.state = "NORMAL" => Busy(u, r)
      BY <3>4 DEF Busy
    <3>8. ASSUME u.state = "NORMAL", NEW q \in Remote PROVE Candidates(u, q) \subseteq Candidates(s, q)
      <4>1. /\ s.localBitfield.bitfield \subseteq u.localBitfield.bitfield
            /\ \A x \in Piece : IsPieceRequested(s.localBitfield, x) => IsPieceRequested(u.localBitfield, x)
        BY <3>4, <3>8 DEF More
      <4> QED BY <4>1, <3>4, <3>6, CandidatesFrame
    <3> QED BY <3>4, <3>6, <3>7, <3>8, <1>3, FrameWider DEF Goes, More
  <2>5. CASE SelectPiece(s, r) = {} /\ u = a
    <3>1. /\ t \in ThreadType /\ t.conn = s.thread[r].conn /\ t.peerChoking = s.thread[r].peerChoking
          /\ t.remoteBitfield = s.thread[r].remoteBitfield /\ t.amInterested = s.thread[r].amInterested
          /\ ~t.allowedToRequest /\ t.requests = s.thread[r].requests
      <4>1. s.thread[r] \in ThreadType
        BY DEF PeerType
      <4> QED BY <4>1 DEF ThreadType
    <3>2. SetThread(s, a, r, t)
      BY DEF SetThread, PeerType
    <3> HIDE DEF a, t
    <3>3. Frame(s, u, {r}) /\ u.pieceFreq = s.pieceFreq
      BY <3>1, <3>2, <2>5, FrameThread
    <3>4. /\ u \in PeerType /\ u.thread[r] = t /\ \A q \in Remote \ {r} : u.thread[q] = s.thread[q]
          /\ u.localBitfield = s.localBitfield /\ u.state = s.state
      BY <3>1, <3>2, <2>5, ThreadSet
    <3>5. \A q \in Remote : Candidates(u, q) = Candidates(s, q)
      BY <3>3, <3>4, CandidatesSame DEF Frame
    <3>6. Candidates(s, r) = {}
      BY <2>5, PieceSelected
    <3>7. Busy(u, r)
      BY <3>1, <3>4, <3>5, <3>6 DEF Busy
    <3> QED BY <3>3, <3>4, <3>5, <3>7, <1>3 DEF Goes
  <2>6. CASE u = SendNotInterested(s, r)
    <3>1. /\ u \in PeerType /\ Frame(s, u, {}) /\ ~u.thread[r].amInterested
          /\ u.localBitfield = s.localBitfield /\ u.state = s.state /\ u.pieceFreq = s.pieceFreq
          /\ \A q \in Remote : u.thread[q].requests = s.thread[q].requests
      BY <2>6, NotInterestedSent
    <3>2. \A q \in Remote : Candidates(u, q) = Candidates(s, q)
      BY <3>1, CandidatesSame DEF Frame
    <3>3. Busy(u, r)
      BY <3>1 DEF Busy, Ready
    <3> QED BY <3>1, <3>2, <3>3, <1>3, FrameWider DEF Goes
  <2> QED BY <2>2, <2>3, <2>4, <2>5, <2>6
<1> QED BY <1>1, <1>2, <1>3

\* What such a step keeps.
LEMMA GoesKeeps ==
  ASSUME NEW s \in PeerType, NEW u \in PeerType, NEW r \in Remote, Goes(s, u, r), NEW f
  PROVE  /\ Known(s) => Known(u)
         /\ EndGameBusy(u)
         /\ Settled(s, f) => Settled(u, f)
         /\ Busy(u, r)
         /\ \A q \in Remote \ {r} : Busy(s, q) => Busy(u, q)
<1>1. Frame(s, u, {r})
  BY DEF Goes
<1>2. Known(s) => Known(u)
  BY <1>1, KnownFrame
<1>3. EndGameBusy(u)
  BY DEF Goes, EndGameBusy, AllFilled, Ready
<1>4. Settled(s, f) => Settled(u, f)
  BY <1>1, SettledFrame DEF PeerType
<1>5. Busy(u, r)
  BY DEF Goes, Busy
<1>6. ASSUME NEW q \in Remote \ {r}, Busy(s, q) PROVE Busy(u, q)
  <2>1. u.state = "NORMAL" => /\ s.state = "NORMAL" /\ u.thread[q].requests = s.thread[q].requests
                              /\ Candidates(u, q) \subseteq Candidates(s, q)
    BY DEF Goes
  <2> QED BY <2>1, <1>1, <1>6, BusyFrame
<1> QED BY <1>2, <1>3, <1>4, <1>5, <1>6

-----------------------------------------------------------------------------
(* Self-messages *)

LEMMA TakenOff ==
  ASSUME NEW s \in PeerType, s.agenda # <<>>
  PROVE  LET t == Resumed(s)
             h == Head(s.agenda)
         IN  /\ t \in PeerType /\ h \in SelfMsgs /\ 1 \in DOMAIN s.agenda /\ s.agenda[1] = h
             /\ t.thread = s.thread /\ t.localBitfield = s.localBitfield /\ t.state = s.state
             /\ t.endGameRequests = s.endGameRequests /\ t.pieceFreq = s.pieceFreq
             /\ t.peerState = s.peerState
             /\ \A q, kinds : Due(t, q, kinds) => Due(s, q, kinds)
             /\ \A q, kinds : Due(s, q, kinds) /\ (q # h.remote \/ h.msg.kind \notin kinds) => Due(t, q, kinds)
             /\ \A i \in DOMAIN t.agenda : \E j \in DOMAIN s.agenda : j # 1 /\ t.agenda[i] = s.agenda[j]
<1> DEFINE t == Resumed(s)
           h == Head(s.agenda)
<1>1. s.agenda \in Seq(SelfMsgs)
  BY DEF PeerType
<1>2. /\ 1 \in DOMAIN s.agenda /\ h = s.agenda[1] /\ h \in SelfMsgs /\ Tail(s.agenda) \in Seq(SelfMsgs)
      /\ \A i \in DOMAIN Tail(s.agenda) : \E j \in DOMAIN s.agenda : j # 1 /\ Tail(s.agenda)[i] = s.agenda[j]
      /\ \A j \in DOMAIN s.agenda : j = 1 \/ \E i \in DOMAIN Tail(s.agenda) : Tail(s.agenda)[i] = s.agenda[j]
  BY <1>1, TailAt
<1>3. /\ t \in PeerType /\ t.agenda = Tail(s.agenda)
      /\ t.thread = s.thread /\ t.localBitfield = s.localBitfield /\ t.state = s.state
      /\ t.endGameRequests = s.endGameRequests /\ t.pieceFreq = s.pieceFreq /\ t.peerState = s.peerState
  BY <1>2 DEF Resumed, PeerType
<1> HIDE DEF t, h
<1>4. \A q, kinds : Due(t, q, kinds) => Due(s, q, kinds)
  BY <1>2, <1>3 DEF Due
<1>5. ASSUME NEW q, NEW kinds, Due(s, q, kinds), q # h.remote \/ h.msg.kind \notin kinds
      PROVE  Due(t, q, kinds)
  <2>1. PICK j \in DOMAIN s.agenda : s.agenda[j].remote = q /\ s.agenda[j].msg.kind \in kinds
    BY <1>5 DEF Due
  <2>2. j # 1
    BY <2>1, <1>2, <1>5
  <2>3. PICK i \in DOMAIN Tail(s.agenda) : Tail(s.agenda)[i] = s.agenda[j]
    BY <2>2, <1>2
  <2> QED BY <2>1, <2>3, <1>3 DEF Due
<1> QED BY <1>2, <1>3, <1>4, <1>5 DEF t, h

\* What is left when the first message is off the agenda.
LEMMA OffKeeps ==
  ASSUME NEW s \in PeerType, s.agenda # <<>>, NEW f
  PROVE  LET t == Resumed(s)
             h == Head(s.agenda)
         IN  /\ Known(s) => Known(t)
             /\ s.state = "ENDGAME" /\ EndGameBusy(s) => Listed(t)
             /\ h.msg.kind \notin {"UNCHOKE", "NEXT_REQUEST"} /\ EndGameBusy(s) => EndGameBusy(t)
             /\ \A q \in Remote :
                  Busy(s, q) /\ h.msg.kind # "UPDATE_INTERESTS"
                             /\ (q # h.remote \/ h.msg.kind \notin {"UNCHOKE", "NEXT_REQUEST", "INTEREST"})
                    => Busy(t, q)
             /\ Settled(s, f) /\ h.msg.kind # "BITFIELD" => Settled(t, f)
             /\ Settled(s, f) => /\ \A i \in DOMAIN t.agenda : t.agenda[i].msg.kind \notin {"BITFIELD", "HAVE"}
                                 /\ \A q : ~Counting(t, q)
                                 /\ \A q : Counting(s, q) => q = h.remote /\ h.msg.kind = "BITFIELD"
<1> DEFINE t == Resumed(s)
           h == Head(s.agenda)
<1>1. /\ t \in PeerType /\ h \in SelfMsgs /\ 1 \in DOMAIN s.agenda /\ s.agenda[1] = h
      /\ t.thread = s.thread /\ t.localBitfield = s.localBitfield /\ t.state = s.state
      /\ t.endGameRequests = s.endGameRequests /\ t.pieceFreq = s.pieceFreq
      /\ t.peerState = s.peerState
      /\ \A q, kinds : Due(t, q, kinds) => Due(s, q, kinds)
      /\ \A q, kinds : Due(s, q, kinds) /\ (q # h.remote \/ h.msg.kind \notin kinds) => Due(t, q, kinds)
      /\ \A i \in DOMAIN t.agenda : \E j \in DOMAIN s.agenda : j # 1 /\ t.agenda[i] = s.agenda[j]
  BY TakenOff
<1> HIDE DEF t, h
<1>2. Known(s) => Known(t)
  BY <1>1 DEF Known, Established
<1>3. /\ Listed(t) <=> Listed(s)
      /\ \A q \in Remote : /\ Ready(t, q) <=> Ready(s, q)
                           /\ AsksAll(t, q) <=> AsksAll(s, q)
                           /\ CanRequestMore(t, q) <=> CanRequestMore(s, q)
                           /\ Candidates(t, q) = Candidates(s, q)
  BY <1>1 DEF Listed, Ready, MayAsk, Established, AsksAll, Missing, Entries, Req, CanRequestMore, Candidates
<1>4. \A q : q # h.remote \/ h.msg.kind \notin {"UNCHOKE", "NEXT_REQUEST"} => (Moving(s, q) => Moving(t, q))
  BY <1>1 DEF Moving
<1>5. \A q : (q # h.remote \/ h.msg.kind # "INTEREST") /\ h.msg.kind # "UPDATE_INTERESTS"
              => (Looking(s, q) => Looking(t, q))
  BY <1>1 DEF Looking
<1>6. h.msg.kind \notin {"UNCHOKE", "NEXT_REQUEST"} /\ EndGameBusy(s) => EndGameBusy(t)
  BY <1>1, <1>3, <1>4 DEF EndGameBusy
<1>7. ASSUME NEW q \in Remote, Busy(s, q), h.msg.kind # "UPDATE_INTERESTS",
             q # h.remote \/ h.msg.kind \notin {"UNCHOKE", "NEXT_REQUEST", "INTEREST"}
      PROVE  Busy(t, q)
  <2>1. (Moving(s, q) => Moving(t, q)) /\ (Looking(s, q) => Looking(t, q))
    BY <1>4, <1>5, <1>7
  <2> QED BY <2>1, <1>1, <1>3, <1>7 DEF Busy
<1>8. ASSUME Settled(s, f)
      PROVE  /\ \A i \in DOMAIN t.agenda : t.agenda[i].msg.kind \notin {"BITFIELD", "HAVE"}
             /\ \A q : ~Counting(t, q)
             /\ \A q : Counting(s, q) => q = h.remote /\ h.msg.kind = "BITFIELD"
  <2>1. \A i \in DOMAIN s.agenda : s.agenda[i].msg.kind # "HAVE" /\ (s.agenda[i].msg.kind = "BITFIELD" => i = 1)
    BY <1>8 DEF Settled
  <2>2. \A i \in DOMAIN t.agenda : t.agenda[i].msg.kind \notin {"BITFIELD", "HAVE"}
    BY <2>1, <1>1
  <2> QED BY <2>1, <2>2, <1>1 DEF Counting, Due
<1>9. ASSUME Settled(s, f), h.msg.kind # "BITFIELD" PROVE Settled(t, f)
  <2>1. \A q : ~Counting(s, q) /\ ~Counting(t, q)
    BY <1>8, <1>9
  <2>2. \A i \in DOMAIN t.agenda : t.agenda[i].msg.kind \notin {"BITFIELD", "HAVE"}
    BY <1>8, <1>9
  <2>3. \A r \in Remote :
       /\ At(f[r], "HAVE") = {} /\ At(f[r], "BITFIELD") \subseteq {1}
       /\ s.thread[r].amInterested => /\ s.thread[r].conn # "NONE" /\ At(f[r], "BITFIELD") = {}
       /\ \A p \in s.thread[r].remoteBitfield : s.pieceFreq[p] # 0
    BY <2>1, <1>9 DEF Settled
  <2> QED BY <2>1, <2>2, <2>3, <1>1 DEF Settled
<1>10. s.state = "ENDGAME" /\ EndGameBusy(s) => Listed(t)
  BY <1>3 DEF EndGameBusy
<1>11. \A q \in Remote :
         Busy(s, q) /\ h.msg.kind # "UPDATE_INTERESTS"
                    /\ (q # h.remote \/ h.msg.kind \notin {"UNCHOKE", "NEXT_REQUEST", "INTEREST"})
           => Busy(t, q)
  BY <1>7
<1> QED BY <1>2, <1>6, <1>8, <1>9, <1>10, <1>11 DEF t, h

\* Interest is shown.
LEMMA InterestedSent ==
  ASSUME NEW s \in PeerType, NEW r \in Remote
  PROVE  LET u == SendInterested(s, r)
         IN  /\ u \in PeerType /\ Later(s, u)
             /\ u.localBitfield = s.localBitfield /\ u.state = s.state
             /\ u.endGameRequests = s.endGameRequests /\ u.pieceFreq = s.pieceFreq
             /\ u.peerState = s.peerState
             /\ \A q \in Remote \ {r} : u.thread[q] = s.thread[q]
             /\ u.thread[r] = [s.thread[r] EXCEPT !.amInterested = TRUE]
             /\ ~s.thread[r].peerChoking => Moving(u, r)
<1> DEFINE m == StateMsg("INTERESTED")
           n == Msg("NEXT_REQUEST")
           a == SendMessage(s, r, m)
           t == [s.thread[r] EXCEPT !.amInterested = TRUE]
           b == [a EXCEPT !.thread[r].amInterested = TRUE]
           u == Schedule(b, r, n)
<1>1. SendInterested(s, r) = IF s.thread[r].peerChoking THEN b ELSE u
  BY DEF SendInterested
<1>2. m \in Messages(ToKinds) /\ n \in Messages(SelfKinds) /\ n.kind = "NEXT_REQUEST"
  BY MsgTypes DEF ToKinds, SelfKinds, StateMsg
<1> HIDE DEF m, n
<1>3. /\ a \in PeerType /\ a.thread = s.thread /\ a.localBitfield = s.localBitfield
      /\ a.state = s.state /\ a.endGameRequests = s.endGameRequests /\ a.agenda = s.agenda
      /\ a.pieceFreq = s.pieceFreq /\ a.peerState = s.peerState
  BY <1>2, FrameSent
<1> HIDE DEF a
<1>4. t \in ThreadType
  <2>1. s.thread[r] \in ThreadType
    BY DEF PeerType
  <2> QED BY <2>1 DEF ThreadType
<1>5. SetThread(a, b, r, t)
  BY <1>3 DEF SetThread, PeerType
<1> HIDE DEF t, b
<1>6. /\ b \in PeerType /\ b.thread[r] = t /\ \A q \in Remote \ {r} : b.thread[q] = s.thread[q]
      /\ b.localBitfield = s.localBitfield /\ b.state = s.state
      /\ b.endGameRequests = s.endGameRequests /\ b.agenda = s.agenda /\ b.peerState = s.peerState
  <2>1. /\ b \in PeerType /\ b.thread[r] = t /\ \A q \in Remote \ {r} : b.thread[q] = a.thread[q]
        /\ b.localBitfield = a.localBitfield /\ b.state = a.state
        /\ b.endGameRequests = a.endGameRequests /\ b.agenda = a.agenda /\ b.peerState = a.peerState
    BY <1>3, <1>4, <1>5, ThreadSet
  <2> QED BY <2>1, <1>3
<1>7. b.pieceFreq = s.pieceFreq
  BY <1>3, <1>5 DEF SetThread, PeerType
<1>8. Later(s, b)
  BY <1>6 DEF Later
<1>9. /\ u \in PeerType /\ Due(u, r, {"NEXT_REQUEST"}) /\ Frame(b, u, {})
      /\ u.thread = b.thread /\ u.localBitfield = b.localBitfield /\ u.state = b.state
      /\ u.endGameRequests = b.endGameRequests /\ u.pieceFreq = b.pieceFreq /\ u.peerState = b.peerState
  BY <1>2, <1>6, FrameScheduled
<1> HIDE DEF u
<1>10. Later(s, u)
  BY <1>8, <1>9, LaterComposed DEF Frame
<1>11. Moving(u, r)
  BY <1>9 DEF Moving, Due
<1>12. CASE s.thread[r].peerChoking
  BY <1>1, <1>6, <1>7, <1>8, <1>12 DEF t
<1>13. CASE ~s.thread[r].peerChoking
  BY <1>1, <1>6, <1>7, <1>9, <1>10, <1>11, <1>13 DEF t
<1> QED BY <1>12, <1>13

LEMMA InterestedKeeps ==
  ASSUME NEW s \in PeerType, NEW r \in Remote, NEW f
  PROVE  LET u == SendInterested(s, r)
         IN  /\ Known(s) => Known(u)
             /\ EndGameBusy(s) => EndGameBusy(u)
             /\ Busy(u, r)
             /\ \A q \in Remote \ {r} : Busy(s, q) => Busy(u, q)
             /\ Settled(s, f) /\ s.thread[r].conn # "NONE" /\ ~Counting(s, r) /\ At(f[r], "BITFIELD") = {}
                  => Settled(u, f)
<1> DEFINE u == SendInterested(s, r)
<1>1. /\ u \in PeerType /\ Later(s, u)
      /\ u.localBitfield = s.localBitfield /\ u.state = s.state
      /\ u.endGameRequests = s.endGameRequests /\ u.pieceFreq = s.pieceFreq
      /\ u.peerState = s.peerState
      /\ \A q \in Remote \ {r} : u.thread[q] = s.thread[q]
      /\ u.thread[r] = [s.thread[r] EXCEPT !.amInterested = TRUE]
      /\ ~s.thread[r].peerChoking => Moving(u, r)
  BY InterestedSent
<1> HIDE DEF u
<1>2. /\ u.thread[r].conn = s.thread[r].conn /\ u.thread[r].peerChoking = s.thread[r].peerChoking
      /\ u.thread[r].remoteBitfield = s.thread[r].remoteBitfield
      /\ u.thread[r].requests = s.thread[r].requests
  <2>1. s.thread[r] \in ThreadType
    BY DEF PeerType
  <2> QED BY <2>1, <1>1 DEF ThreadType
<1>3. MayAsk(u, r) => Moving(u, r)
  BY <1>1, <1>2 DEF MayAsk
<1>4. /\ \A q : Moving(s, q) => Moving(u, q)
      /\ \A q : Looking(s, q) => Looking(u, q)
      /\ \A q : Counting(u, q) <=> Counting(s, q)
  BY <1>1, LaterDue
<1>5. Known(s) => Known(u)
  BY <1>1, <1>2 DEF Known, Established
<1>6. EndGameBusy(s) => EndGameBusy(u)
  <2> SUFFICES ASSUME EndGameBusy(s), u.state = "ENDGAME"
               PROVE  Listed(u) /\ \A q \in Remote : Ready(u, q) => Moving(u, q) \/ AsksAll(u, q)
    BY DEF EndGameBusy
  <2>1. Listed(u)
    BY <1>1 DEF EndGameBusy, Listed, Missing, Entries
  <2>2. ASSUME NEW q \in Remote \ {r}, Ready(u, q) PROVE Moving(u, q) \/ AsksAll(u, q)
    <3>1. Ready(s, q) /\ (AsksAll(s, q) => AsksAll(u, q))
      BY <2>2, <1>1 DEF Ready, MayAsk, Established, AsksAll, Missing, Entries, Req
    <3> QED BY <3>1, <1>1, <1>4 DEF EndGameBusy
  <2> QED BY <2>1, <2>2, <1>3 DEF Ready
<1>7. Busy(u, r)
  BY <1>3 DEF Busy, Ready
<1>8. ASSUME NEW q \in Remote \ {r}, Busy(s, q) PROVE Busy(u, q)
  <2>1. Candidates(u, q) = Candidates(s, q)
    BY <1>1, CandidatesSame
  <2>2. /\ Ready(u, q) <=> Ready(s, q)
        /\ CanRequestMore(u, q) <=> CanRequestMore(s, q)
        /\ u.thread[q].allowedToRequest = s.thread[q].allowedToRequest
    BY <1>1 DEF Ready, MayAsk, Established, CanRequestMore
  <2> QED BY <2>1, <2>2, <1>1, <1>4, <1>8 DEF Busy
<1>9. ASSUME Settled(s, f), s.thread[r].conn # "NONE", ~Counting(s, r), At(f[r], "BITFIELD") = {}
      PROVE  Settled(u, f)
  <2>1. \A q \in Remote : u.thread[q].remoteBitfield = s.thread[q].remoteBitfield
    BY <1>1, <1>2
  <2>2. s.agenda \in Seq(SelfMsgs) /\ u.agenda \in Seq(SelfMsgs)
    BY <1>1 DEF PeerType
  <2>3. ASSUME NEW i \in DOMAIN u.agenda
        PROVE  /\ u.agenda[i].msg.kind # "HAVE"
               /\ u.agenda[i].msg.kind = "BITFIELD" =>
                    i = 1 /\ u.agenda[i].msg.pieces = u.thread[u.agenda[i].remote].remoteBitfield
    <3>1. CASE i \in DOMAIN s.agenda
      <4>1. u.agenda[i] = s.agenda[i]
        BY <3>1, <1>1 DEF Later
      <4>2. s.agenda[i] \in SelfMsgs
        BY <3>1, <2>2
      <4>3. s.agenda[i].remote \in Remote
        BY <4>2 DEF SelfMsgs
      <4> QED BY <3>1, <4>1, <4>3, <2>1, <1>9 DEF Settled
    <3>2. CASE i \notin DOMAIN s.agenda
      BY <3>2, <1>1 DEF Later
    <3> QED BY <3>1, <3>2
  <2>4. ASSUME NEW q \in Remote
        PROVE  /\ At(f[q], "HAVE") = {} /\ At(f[q], "BITFIELD") \subseteq {1}
               /\ u.thread[q].amInterested => /\ u.thread[q].conn # "NONE" /\ ~Counting(u, q)
                                              /\ At(f[q], "BITFIELD") = {}
               /\ Counting(u, q) => At(f[q], "BITFIELD") = {} /\ u.thread[q].conn # "NONE"
               /\ ~Counting(u, q) => \A p \in u.thread[q].remoteBitfield : u.pieceFreq[p] # 0
    <3>1. CASE q = r
      BY <3>1, <1>1, <1>2, <1>4, <1>9 DEF Settled
    <3>2. CASE q # r
      BY <3>2, <1>1, <1>4, <1>9 DEF Settled
    <3> QED BY <3>1, <3>2
  <2> QED BY <2>3, <2>4 DEF Settled
<1> QED BY <1>5, <1>6, <1>7, <1>8, <1>9 DEF u

\* Nothing changes but the wires, the agenda and what threads know of themselves.
LEMMA FrameKeeps ==
  ASSUME NEW s \in PeerType, NEW u \in PeerType, Frame(s, u, {}), u.localBitfield = s.localBitfield,
         u.state = s.state, u.endGameRequests = s.endGameRequests,
         \A q \in Remote : u.thread[q].requests = s.thread[q].requests, NEW f
  PROVE  /\ Known(s) => Known(u)
         /\ EndGameBusy(s) => EndGameBusy(u)
         /\ \A q \in Remote : Busy(s, q) => Busy(u, q)
         /\ Settled(s, f) => Settled(u, f)
<1>1. Known(s) => Known(u)
  BY KnownFrame
<1>2. EndGameBusy(s) => EndGameBusy(u)
  <2>1. u.state = "ENDGAME" =>
           /\ s.state = "ENDGAME" /\ Missing(u) \subseteq Missing(s)
           /\ \A q \in Remote : \A e \in Missing(u) : /\ <<q, e>> \in Entries(s) => <<q, e>> \in Entries(u)
                                                      /\ e \in Req(s, q) => e \in Req(u, q)
    BY DEF Missing, Entries, Req
  <2> QED BY <2>1, EndGameFrame
<1>3. \A q \in Remote : Candidates(u, q) = Candidates(s, q)
  BY CandidatesSame DEF Frame
<1>4. ASSUME NEW q \in Remote, Busy(s, q) PROVE Busy(u, q)
  BY <1>3, <1>4, BusyFrame
<1>5. Settled(s, f) => Settled(u, f)
  BY SettledFrame DEF PeerType
<1> QED BY <1>1, <1>2, <1>4, <1>5

\* Interest is shown, or not, or no longer.
LEMMA ShownKeeps ==
  ASSUME NEW s \in PeerType, NEW r \in Remote, NEW f,
         NEW u \in {s, SendInterested(s, r), SendNotInterested(s, r)}
  PROVE  /\ Known(s) => Known(u)
         /\ EndGameBusy(s) => EndGameBusy(u)
         /\ (\A q \in Remote : Busy(s, q)) => \A q \in Remote : Busy(u, q)
         /\ Settled(s, f) /\ s.thread[r].conn # "NONE" /\ ~Counting(s, r) /\ At(f[r], "BITFIELD") = {}
              => Settled(u, f)
<1>1. CASE u = s
  BY <1>1
<1>2. CASE u = SendInterested(s, r)
  <2>1. /\ Known(s) => Known(u)
        /\ EndGameBusy(s) => EndGameBusy(u)
        /\ Busy(u, r)
        /\ \A q \in Remote \ {r} : Busy(s, q) => Busy(u, q)
        /\ Settled(s, f) /\ s.thread[r].conn # "NONE" /\ ~Counting(s, r) /\ At(f[r], "BITFIELD") = {}
             => Settled(u, f)
    BY <1>2, InterestedKeeps
  <2>2. ASSUME \A q \in Remote : Busy(s, q), NEW q \in Remote PROVE Busy(u, q)
    BY <2>1, <2>2
  <2> QED BY <2>1, <2>2
<1>3. CASE u = SendNotInterested(s, r)
  <2>1. /\ u \in PeerType /\ Frame(s, u, {}) /\ u.localBitfield = s.localBitfield /\ u.state = s.state
        /\ u.endGameRequests = s.endGameRequests
        /\ \A q \in Remote : u.thread[q].requests = s.thread[q].requests
    BY <1>3, NotInterestedSent
  <2> QED BY <2>1, FrameKeeps
<1> QED BY <1>1, <1>2, <1>3

LEMMA FreqIdle ==
  ASSUME NEW s \in PeerType, NEW c \in [Piece -> Nat]
  PROVE  LET u == [s EXCEPT !.pieceFreq = c]
         IN  /\ u \in PeerType /\ u.thread = s.thread /\ u.agenda = s.agenda /\ u.pieceFreq = c
             /\ u.localBitfield = s.localBitfield /\ u.state = s.state
             /\ Known(s) => Known(u)
             /\ EndGameBusy(s) => EndGameBusy(u)
             /\ \A q : Counting(u, q) <=> Counting(s, q)
<1> DEFINE u == [s EXCEPT !.pieceFreq = c]
<1>1. /\ u \in PeerType /\ u.thread = s.thread /\ u.agenda = s.agenda /\ u.pieceFreq = c
      /\ u.localBitfield = s.localBitfield /\ u.state = s.state
      /\ u.endGameRequests = s.endGameRequests /\ u.peerState = s.peerState
  BY DEF PeerType
<1> HIDE DEF u
<1>2. Known(s) => Known(u)
  BY <1>1 DEF Known, Established
<1>3. /\ Listed(s) => Listed(u)
      /\ \A q \in Remote : /\ Ready(u, q) => Ready(s, q)
                           /\ AsksAll(s, q) => AsksAll(u, q)
                           /\ Moving(s, q) => Moving(u, q)
  BY <1>1 DEF Listed, Ready, MayAsk, Established, AsksAll, Missing, Entries, Req, Moving, Due
<1>4. EndGameBusy(s) => EndGameBusy(u)
  BY <1>1, <1>3 DEF EndGameBusy
<1>5. \A q : Counting(u, q) <=> Counting(s, q)
  BY <1>1 DEF Counting, Due
<1> QED BY <1>1, <1>2, <1>4, <1>5 DEF u

\* The pieces of a new peer are counted.
LEMMA BitfieldCounted ==
  ASSUME NEW s \in PeerType, NEW f, NEW g, IdleInv(s, f, g), s.agenda # <<>>, Head(s.agenda).msg.kind = "BITFIELD",
         NEW u \in HandleSelf(Resumed(s), Head(s.agenda).remote, Head(s.agenda).msg)
  PROVE  IdleInv(u, f, g)
<1> DEFINE t == Resumed(s)
           h == Head(s.agenda)
           r == h.remote
           m == h.msg
           c == CountPieces(t.pieceFreq, m.pieces)
           a == [t EXCEPT !.pieceFreq = c]
<1>1. /\ t \in PeerType /\ h \in SelfMsgs /\ 1 \in DOMAIN s.agenda /\ s.agenda[1] = h
      /\ t.thread = s.thread /\ t.localBitfield = s.localBitfield /\ t.state = s.state
      /\ t.pieceFreq = s.pieceFreq
  BY TakenOff
<1>2. /\ Known(s) => Known(t)
      /\ h.msg.kind \notin {"UNCHOKE", "NEXT_REQUEST"} /\ EndGameBusy(s) => EndGameBusy(t)
      /\ \A q \in Remote :
           Busy(s, q) /\ h.msg.kind # "UPDATE_INTERESTS"
                      /\ (q # h.remote \/ h.msg.kind \notin {"UNCHOKE", "NEXT_REQUEST", "INTEREST"})
             => Busy(t, q)
      /\ Settled(s, f) => /\ \A i \in DOMAIN t.agenda : t.agenda[i].msg.kind \notin {"BITFIELD", "HAVE"}
                          /\ \A q : ~Counting(t, q)
                          /\ \A q : Counting(s, q) => q = h.remote /\ h.msg.kind = "BITFIELD"
  BY OffKeeps
<1>3. h.msg.kind = "BITFIELD" /\ m.kind = "BITFIELD" /\ u \in HandleSelf(t, r, m)
  OBVIOUS
<1>4. r \in Remote /\ m.pieces \in SUBSET Piece
  BY <1>1 DEF SelfMsgs, Messages
<1>5. Known(t) /\ EndGameBusy(t)
  BY <1>2, <1>3 DEF IdleInv
<1> HIDE DEF t, h
<1>6. u = ShowInterest(a, r)
  <2> HIDE DEF r, m
  <2> QED BY <1>3 DEF HandleSelf
<1>7. Counting(s, r)
  BY <1>1, <1>3 DEF Counting, Due
<1> HIDE DEF r
<1>8. t.pieceFreq \in [Piece -> Nat]
  BY <1>1 DEF PeerType
<1>9. /\ c \in [Piece -> Nat]
      /\ \A p \in Piece : /\ c[p] = 0 => t.pieceFreq[p] = 0 /\ p \notin m.pieces
                          /\ t.pieceFreq[p] \in Nat
  BY <1>8 DEF CountPieces
<1> HIDE DEF c
<1>10. /\ a \in PeerType /\ a.thread = t.thread /\ a.agenda = t.agenda /\ a.pieceFreq = c
       /\ a.localBitfield = t.localBitfield /\ a.state = t.state
       /\ Known(a) /\ EndGameBusy(a)
       /\ \A q : Counting(a, q) <=> Counting(t, q)
  BY <1>1, <1>5, <1>9, FreqIdle
<1> HIDE DEF a
<1>11. u \in {a, SendInterested(a, r), SendNotInterested(a, r)}
  BY <1>6 DEF ShowInterest
<1>12. /\ Known(u) /\ EndGameBusy(u)
       /\ (\A q \in Remote : Busy(a, q)) => \A q \in Remote : Busy(u, q)
       /\ Settled(a, f) /\ a.thread[r].conn # "NONE" /\ ~Counting(a, r) /\ At(f[r], "BITFIELD") = {}
              => Settled(u, f)
  BY <1>4, <1>10, <1>11, ShownKeeps
<1>13. ASSUME Steady(g) PROVE Calm(u, f)
  <2>1. Settled(s, f) /\ \A q \in Remote : Busy(s, q)
    BY <1>13 DEF IdleInv, Calm
  <2>2. /\ \A i \in DOMAIN t.agenda : t.agenda[i].msg.kind \notin {"BITFIELD", "HAVE"}
        /\ \A q : ~Counting(t, q)
        /\ \A q \in Remote \ {r} : ~Counting(s, q)
    BY <2>1, <1>2 DEF r
  <2>3. m.pieces = s.thread[r].remoteBitfield
    BY <2>1, <1>1, <1>3 DEF Settled, r
  <2>4. /\ s.thread[r].conn # "NONE" /\ At(f[r], "BITFIELD") = {} /\ ~s.thread[r].amInterested
    BY <2>1, <1>4, <1>7 DEF Settled
  <2>5. \A q \in Remote : s.thread[q].remoteBitfield \subseteq Piece
    BY DEF PeerType, ThreadType
  <2>6. \A q \in Remote : \A p \in s.thread[q].remoteBitfield : c[p] # 0
    <3> TAKE q \in Remote
    <3> TAKE p \in s.thread[q].remoteBitfield
    <3>1. p \in Piece
      BY <2>5
    <3>2. CASE q = r
      BY <3>1, <3>2, <2>3, <1>9
    <3>3. CASE q # r
      <4>1. s.pieceFreq[p] # 0
        BY <3>3, <2>1, <2>2 DEF Settled
      <4> QED BY <4>1, <3>1, <1>1, <1>9
    <3> QED BY <3>2, <3>3
  <2>7. Settled(a, f)
    <3>1. \A q \in Remote :
            /\ At(f[q], "HAVE") = {} /\ At(f[q], "BITFIELD") \subseteq {1}
            /\ s.thread[q].amInterested => s.thread[q].conn # "NONE" /\ At(f[q], "BITFIELD") = {}
      BY <2>1 DEF Settled
    <3> QED BY <3>1, <2>2, <2>6, <1>1, <1>10 DEF Settled
  <2>8. \A q \in Remote : Busy(a, q)
    <3> TAKE q \in Remote
    <3>1. CASE q = r
      BY <3>1, <2>4, <1>1, <1>10 DEF Busy, Ready
    <3>2. CASE q # r
      <4>1. Busy(t, q)
        BY <3>2, <2>1, <1>2, <1>3
      <4>2. Candidates(a, q) \subseteq Candidates(t, q)
        <5>1. ~Counting(s, q)
          BY <3>2, <2>2
        <5>2. \A p \in s.thread[q].remoteBitfield : s.pieceFreq[p] # 0
          BY <5>1, <2>1 DEF Settled
        <5> QED BY <5>2, <1>1, <1>10 DEF Candidates
      <4>3. (Moving(t, q) => Moving(a, q)) /\ (Looking(t, q) => Looking(a, q))
        BY <1>10 DEF Moving, Looking, Due
      <4>4. (Ready(a, q) => Ready(t, q)) /\ (CanRequestMore(a, q) => CanRequestMore(t, q))
        BY <1>10 DEF Ready, MayAsk, Established, CanRequestMore
      <4> QED BY <4>1, <4>2, <4>3, <4>4, <1>10 DEF Busy
    <3> QED BY <3>1, <3>2
  <2>9. Settled(u, f)
    BY <2>2, <2>4, <2>7, <1>1, <1>10, <1>12
  <2> QED BY <2>8, <2>9, <1>12 DEF Calm
<1> QED BY <1>12, <1>13 DEF IdleInv

\* A piece that a peer has got is counted.
LEMMA HaveCounted ==
  ASSUME NEW s \in PeerType, NEW f, NEW g, IdleInv(s, f, g), s.agenda # <<>>, Head(s.agenda).msg.kind = "HAVE",
         NEW u \in HandleSelf(Resumed(s), Head(s.agenda).remote, Head(s.agenda).msg)
  PROVE  IdleInv(u, f, g)
<1> DEFINE t == Resumed(s)
           h == Head(s.agenda)
           r == h.remote
           m == h.msg
           c == [t.pieceFreq EXCEPT ![m.index] = @ + 1]
           a == [t EXCEPT !.pieceFreq = c]
<1>1. /\ t \in PeerType /\ h \in SelfMsgs /\ 1 \in DOMAIN s.agenda /\ s.agenda[1] = h
  BY TakenOff
<1>2. /\ Known(s) => Known(t)
      /\ h.msg.kind \notin {"UNCHOKE", "NEXT_REQUEST"} /\ EndGameBusy(s) => EndGameBusy(t)
  BY OffKeeps
<1>3. h.msg.kind = "HAVE" /\ m.kind = "HAVE" /\ u \in HandleSelf(t, r, m)
  OBVIOUS
<1>4. r \in Remote /\ m.index \in Piece
  BY <1>1 DEF SelfMsgs, Messages
<1>5. Known(t) /\ EndGameBusy(t)
  BY <1>2, <1>3 DEF IdleInv
<1>6. ~Steady(g)
  BY <1>1, <1>3 DEF IdleInv, Calm, Settled
<1> HIDE DEF t, h, r, m
<1>7. u \in {a, SendInterested(a, r)}
  <2>1. [t EXCEPT !.pieceFreq[m.index] = @ + 1] = a
    BY <1>1 DEF PeerType
  <2>2. u \in {IF ~t.thread[r].amInterested /\ AmInterested(t, r)
               THEN SendInterested([t EXCEPT !.pieceFreq[m.index] = @ + 1], r)
               ELSE [t EXCEPT !.pieceFreq[m.index] = @ + 1]}
    BY <1>3 DEF HandleSelf
  <2> HIDE DEF a
  <2> QED BY <2>1, <2>2
<1>8. c \in [Piece -> Nat]
  <2>1. t.pieceFreq \in [Piece -> Nat]
    BY <1>1 DEF PeerType
  <2> QED BY <2>1, <1>4
<1> HIDE DEF c
<1>9. a \in PeerType /\ Known(a) /\ EndGameBusy(a)
  BY <1>1, <1>5, <1>8, FreqIdle
<1> HIDE DEF a
<1>10. Known(u) /\ EndGameBusy(u)
  BY <1>4, <1>7, <1>9, ShownKeeps
<1> QED BY <1>6, <1>10 DEF IdleInv

\* Nothing changes that the properties tell apart.
LEMMA QuietKeeps ==
  ASSUME NEW s, NEW u, u.agenda = s.agenda, u.pieceFreq = s.pieceFreq, u.localBitfield = s.localBitfield,
         u.state = s.state, u.endGameRequests = s.endGameRequests,
         \A q \in Remote : /\ Established(u, q) <=> Established(s, q)
                           /\ u.thread[q].conn = "NONE" <=> s.thread[q].conn = "NONE"
                           /\ u.thread[q].remoteBitfield = s.thread[q].remoteBitfield
                           /\ u.thread[q].peerChoking = s.thread[q].peerChoking
                           /\ u.thread[q].amInterested = s.thread[q].amInterested
                           /\ u.thread[q].allowedToRequest = s.thread[q].allowedToRequest
                           /\ u.thread[q].requests = s.thread[q].requests,
         s.agenda \in Seq(SelfMsgs), NEW f
  PROVE  /\ EndGameBusy(s) => EndGameBusy(u)
         /\ \A q \in Remote : Busy(s, q) => Busy(u, q)
         /\ Settled(s, f) => Settled(u, f)
<1>1. \A q : /\ Moving(u, q) <=> Moving(s, q)
             /\ Looking(u, q) <=> Looking(s, q)
             /\ Counting(u, q) <=> Counting(s, q)
  BY DEF Moving, Looking, Counting, Due
<1>2. \A q \in Remote : /\ Ready(u, q) <=> Ready(s, q)
                        /\ CanRequestMore(u, q) <=> CanRequestMore(s, q)
                        /\ AsksAll(u, q) <=> AsksAll(s, q)
                        /\ Candidates(u, q) = Candidates(s, q)
  BY DEF Ready, MayAsk, CanRequestMore, AsksAll, Missing, Entries, Req, Candidates
<1>3. Listed(s) <=> Listed(u)
  BY DEF Listed, Missing, Entries
<1>4. EndGameBusy(s) => EndGameBusy(u)
  BY <1>1, <1>2, <1>3 DEF EndGameBusy
<1>5. \A q \in Remote : Busy(s, q) => Busy(u, q)
  BY <1>1, <1>2 DEF Busy
<1>6. ASSUME Settled(s, f) PROVE Settled(u, f)
  <2>1. \A i \in DOMAIN s.agenda : s.agenda[i].remote \in Remote
    <3>1. \A i \in DOMAIN s.agenda : s.agenda[i] \in SelfMsgs
      OBVIOUS
    <3> QED BY <3>1 DEF SelfMsgs
  <2>2. \A i \in DOMAIN u.agenda :
          /\ u.agenda[i].msg.kind # "HAVE"
          /\ u.agenda[i].msg.kind = "BITFIELD" =>
               i = 1 /\ u.agenda[i].msg.pieces = u.thread[u.agenda[i].remote].remoteBitfield
    BY <2>1, <1>6 DEF Settled
  <2> QED BY <2>2, <1>1, <1>6 DEF Settled
<1> QED BY <1>4, <1>5, <1>6

\* A thread moves.
LEMMA MoveIdle ==
  ASSUME NEW s \in PeerType, NEW f, NEW g, Fine(s, f, g), IdleInv(s, f, g), s.agenda # <<>>,
         Head(s.agenda).msg.kind \in {"UNCHOKE", "NEXT_REQUEST"},
         NEW u \in HandleSelf(Resumed(s), Head(s.agenda).remote, Head(s.agenda).msg)
  PROVE  IdleInv(u, f, g)
<1> DEFINE t == Resumed(s)
           h == Head(s.agenda)
           r == h.remote
           m == h.msg
<1>1. /\ t \in PeerType /\ PeerOK(t, f, g) /\ h \in SelfMsgs /\ t.state = s.state
  BY ResumedIs
<1>2. /\ Known(s) => Known(t)
      /\ s.state = "ENDGAME" /\ EndGameBusy(s) => Listed(t)
      /\ \A q \in Remote :
           Busy(s, q) /\ h.msg.kind # "UPDATE_INTERESTS"
                      /\ (q # h.remote \/ h.msg.kind \notin {"UNCHOKE", "NEXT_REQUEST", "INTEREST"})
             => Busy(t, q)
      /\ Settled(s, f) /\ h.msg.kind # "BITFIELD" => Settled(t, f)
  BY OffKeeps
<1>3. h.msg.kind \in {"UNCHOKE", "NEXT_REQUEST"} /\ u \in HandleSelf(t, r, m)
  OBVIOUS
<1>4. r \in Remote
  BY <1>1 DEF SelfMsgs
<1>5. Known(t) /\ (t.state = "ENDGAME" => Listed(t))
  BY <1>1, <1>2 DEF IdleInv
<1>6. ASSUME Steady(g)
      PROVE  Settled(t, f) /\ \A q \in Remote \ {r} : Busy(t, q)
  BY <1>2, <1>3, <1>6 DEF IdleInv, Calm, r
<1>7. u = t \/ (~Completed(t) /\ u \in NextMove(t, r))
  <2> HIDE DEF t, r
  <2> QED BY <1>3 DEF HandleSelf, m
<1>8. Completed(t) <=> t.state = "SEEDING"
  BY <1>1 DEF Completed, PeerType
<1>9. Completed(t) => u = t
  <2> HIDE DEF t, r
  <2> QED BY <1>3 DEF HandleSelf, m
<1>10. ~Completed(t) => u \in NextMove(t, r)
  <2> HIDE DEF t, r
  <2> QED BY <1>3 DEF HandleSelf, m
<1> HIDE DEF t, h, r, m
<1>11. CASE Completed(t)
  <2>1. EndGameBusy(t) /\ \A q \in Remote : Busy(t, q)
    BY <1>8, <1>11 DEF EndGameBusy, Busy
  <2> QED BY <2>1, <1>5, <1>6, <1>9, <1>11 DEF IdleInv, Calm
<1>12. CASE ~Completed(t)
  <2>1. u \in PeerType /\ Goes(t, u, r)
    BY <1>1, <1>4, <1>5, <1>8, <1>10, <1>12, Moves
  <2>2. /\ Known(t) => Known(u)
        /\ EndGameBusy(u)
        /\ Settled(t, f) => Settled(u, f)
        /\ Busy(u, r)
        /\ \A q \in Remote \ {r} : Busy(t, q) => Busy(u, q)
    BY <2>1, <1>1, <1>4, GoesKeeps
  <2>3. Steady(g) => Calm(u, f)
    BY <2>2, <1>6 DEF Calm
  <2> QED BY <2>2, <2>3, <1>5 DEF IdleInv
<1> QED BY <1>11, <1>12

\* A request is sent.
LEMMA RequestIdle ==
  ASSUME NEW s \in PeerType, NEW f, NEW g, Fine(s, f, g), IdleInv(s, f, g), s.agenda # <<>>,
         Head(s.agenda).msg.kind = "REQUEST",
         NEW u \in HandleSelf(Resumed(s), Head(s.agenda).remote, Head(s.agenda).msg)
  PROVE  IdleInv(u, f, g)
<1> DEFINE t == Resumed(s)
           h == Head(s.agenda)
           r == h.remote
           m == h.msg
<1>1. t \in PeerType /\ h \in SelfMsgs
  BY TakenOff
<1>2. /\ Known(s) => Known(t)
      /\ h.msg.kind \notin {"UNCHOKE", "NEXT_REQUEST"} /\ EndGameBusy(s) => EndGameBusy(t)
      /\ \A q \in Remote :
           Busy(s, q) /\ h.msg.kind # "UPDATE_INTERESTS"
                      /\ (q # h.remote \/ h.msg.kind \notin {"UNCHOKE", "NEXT_REQUEST", "INTEREST"})
             => Busy(t, q)
      /\ Settled(s, f) /\ h.msg.kind # "BITFIELD" => Settled(t, f)
  BY OffKeeps
<1>3. h.msg.kind = "REQUEST" /\ u \in HandleSelf(t, r, m)
  OBVIOUS
<1>4. r \in Remote /\ m \in Messages(ToKinds)
  BY <1>1, <1>3 DEF SelfMsgs, Messages, ToKinds
<1>5. Known(t) /\ EndGameBusy(t) /\ (Steady(g) => Calm(t, f))
  BY <1>2, <1>3 DEF IdleInv, Calm
<1>6. u = t \/ u = SendMessage(t, r, m)
  <2> HIDE DEF t, r
  <2> QED BY <1>3 DEF HandleSelf, m
<1> HIDE DEF t, h, r, m
<1>7. CASE u = t
  BY <1>5, <1>7 DEF IdleInv
<1>8. CASE u = SendMessage(t, r, m)
  <2>1. /\ u \in PeerType /\ Frame(t, u, {})
        /\ u.thread = t.thread /\ u.localBitfield = t.localBitfield /\ u.state = t.state
        /\ u.endGameRequests = t.endGameRequests
    BY <1>1, <1>4, <1>8, FrameSent
  <2>2. /\ Known(t) => Known(u)
        /\ EndGameBusy(t) => EndGameBusy(u)
        /\ \A q \in Remote : Busy(t, q) => Busy(u, q)
        /\ Settled(t, f) => Settled(u, f)
    BY <2>1, <1>1, FrameKeeps
  <2> QED BY <2>2, <1>5 DEF IdleInv, Calm
<1> QED BY <1>6, <1>7, <1>8

\* A new round of updateInterests: all threads with a connection are to be looked at.
LEMMA RoundBegun ==
  ASSUME NEW s \in PeerType
  PROVE  LET u == UpdateInterests(s)
         IN  /\ u.thread = s.thread /\ u.localBitfield = s.localBitfield /\ u.state = s.state
             /\ u.endGameRequests = s.endGameRequests /\ u.pieceFreq = s.pieceFreq
             /\ u.peerState = s.peerState
             /\ \A q, kinds : Due(s, q, kinds) => Due(u, q, kinds)
             /\ \A q \in ToSet(s.peerState) : Due(u, q, {"INTEREST"})
             /\ \A i \in DOMAIN u.agenda : u.agenda[i].msg.kind = "INTEREST"
                                           \/ \E j \in DOMAIN s.agenda : u.agenda[i] = s.agenda[j]
<1> DEFINE c == [i \in DOMAIN s.peerState |-> SelfMsg(s.peerState[i], Msg("INTEREST"))]
           a == s.agenda
           u == [s EXCEPT !.agenda = c \o s.agenda]
           n == Len(c)
<1>1. UpdateInterests(s) = u
  BY DEF UpdateInterests
<1>2. s.peerState \in Seq(Remote) /\ a \in Seq(SelfMsgs)
  BY DEF PeerType
<1>3. \A q \in Remote : /\ SelfMsg(q, Msg("INTEREST")) \in SelfMsgs
                        /\ SelfMsg(q, Msg("INTEREST")).remote = q
                        /\ SelfMsg(q, Msg("INTEREST")).msg.kind = "INTEREST"
  BY MsgTypes DEF SelfMsg, SelfMsgs, SelfKinds
<1>4. /\ c \in Seq(SelfMsgs) /\ DOMAIN c = DOMAIN s.peerState
      /\ \A i \in DOMAIN c : c[i].remote = s.peerState[i] /\ c[i].msg.kind = "INTEREST"
  <2>1. DOMAIN s.peerState = 1 .. Len(s.peerState) /\ Len(s.peerState) \in Nat
        /\ \A i \in DOMAIN s.peerState : s.peerState[i] \in Remote
    BY <1>2
  <2> QED BY <2>1, <1>3
<1> HIDE DEF c
<1>5. n \in Nat /\ DOMAIN c = 1 .. n /\ Len(a) \in Nat /\ DOMAIN a = 1 .. Len(a)
  BY <1>2, <1>4
<1>6. DOMAIN (c \o a) = 1 .. n + Len(a) /\ \A i \in 1 .. n + Len(a) : (c \o a)[i] = IF i <= n THEN c[i] ELSE a[i - n]
  BY <1>2, <1>4, <1>5
<1>7. /\ u.thread = s.thread /\ u.localBitfield = s.localBitfield /\ u.state = s.state
      /\ u.endGameRequests = s.endGameRequests /\ u.pieceFreq = s.pieceFreq
      /\ u.peerState = s.peerState /\ u.agenda = c \o a
  BY DEF PeerType
<1> HIDE DEF u
<1>8. \A i \in DOMAIN a : n + i \in DOMAIN u.agenda /\ u.agenda[n + i] = a[i]
  <2> TAKE i \in DOMAIN a
  <2>1. i \in Nat /\ n + i \in 1 .. n + Len(a) /\ ~(n + i <= n) /\ (n + i) - n = i
    BY <1>5
  <2> QED BY <2>1, <1>6, <1>7
<1>9. \A i \in DOMAIN c : i \in DOMAIN u.agenda /\ u.agenda[i] = c[i]
  <2> TAKE i \in DOMAIN c
  <2>1. i \in 1 .. n + Len(a) /\ i <= n
    BY <1>5
  <2> QED BY <2>1, <1>6, <1>7
<1>10. ASSUME NEW i \in DOMAIN u.agenda
       PROVE  u.agenda[i].msg.kind = "INTEREST" \/ \E j \in DOMAIN s.agenda : u.agenda[i] = s.agenda[j]
  <2>1. i \in 1 .. n + Len(a)
    BY <1>6, <1>7
  <2>2. CASE i <= n
    <3>1. i \in DOMAIN c
      BY <2>1, <2>2, <1>5
    <3> QED BY <3>1, <1>4, <1>9
  <2>3. CASE ~(i <= n)
    <3>1. i - n \in DOMAIN a
      BY <2>1, <2>3, <1>5
    <3> QED BY <3>1, <2>1, <2>3, <1>6, <1>7
  <2> QED BY <2>2, <2>3
<1> HIDE DEF n
<1>11. \A q, kinds : Due(s, q, kinds) => Due(u, q, kinds)
  BY <1>8 DEF Due, a
<1>12. \A q \in ToSet(s.peerState) : Due(u, q, {"INTEREST"})
  <2> TAKE q \in ToSet(s.peerState)
  <2>1. PICK i \in DOMAIN s.peerState : s.peerState[i] = q
    BY DEF ToSet
  <2>2. i \in DOMAIN u.agenda /\ u.agenda[i].remote = q /\ u.agenda[i].msg.kind = "INTEREST"
    BY <2>1, <1>4, <1>9
  <2> QED BY <2>2 DEF Due
<1> QED BY <1>1, <1>7, <1>10, <1>11, <1>12

LEMMA RoundIdle ==
  ASSUME NEW s \in PeerType, NEW f, NEW g, Fine(s, f, g), IdleInv(s, f, g), s.agenda # <<>>,
         Head(s.agenda).msg.kind = "UPDATE_INTERESTS",
         NEW u \in HandleSelf(Resumed(s), Head(s.agenda).remote, Head(s.agenda).msg)
  PROVE  IdleInv(u, f, g)
<1> DEFINE t == Resumed(s)
           h == Head(s.agenda)
           r == h.remote
           m == h.msg
<1>1. /\ t \in PeerType /\ h \in SelfMsgs
      /\ t.thread = s.thread /\ t.localBitfield = s.localBitfield /\ t.state = s.state
      /\ t.pieceFreq = s.pieceFreq
      /\ \A q, kinds : Due(s, q, kinds) /\ (q # h.remote \/ h.msg.kind \notin kinds) => Due(t, q, kinds)
  BY TakenOff
<1>2. /\ Known(s) => Known(t)
      /\ h.msg.kind \notin {"UNCHOKE", "NEXT_REQUEST"} /\ EndGameBusy(s) => EndGameBusy(t)
      /\ Settled(s, f) => /\ \A i \in DOMAIN t.agenda : t.agenda[i].msg.kind \notin {"BITFIELD", "HAVE"}
                          /\ \A q : ~Counting(t, q)
                          /\ \A q : Counting(s, q) => q = h.remote /\ h.msg.kind = "BITFIELD"
  BY OffKeeps
<1>3. h.msg.kind = "UPDATE_INTERESTS" /\ u \in HandleSelf(t, r, m)
  OBVIOUS
<1>4. Known(t) /\ EndGameBusy(t)
  BY <1>2, <1>3 DEF IdleInv
<1>5. u = UpdateInterests(t)
  <2> HIDE DEF t, r
  <2> QED BY <1>3 DEF HandleSelf, m
<1> HIDE DEF t, h, r, m
<1>6. /\ u.thread = t.thread /\ u.localBitfield = t.localBitfield /\ u.state = t.state
      /\ u.endGameRequests = t.endGameRequests /\ u.pieceFreq = t.pieceFreq
      /\ u.peerState = t.peerState
      /\ \A q, kinds : Due(t, q, kinds) => Due(u, q, kinds)
      /\ \A q \in ToSet(t.peerState) : Due(u, q, {"INTEREST"})
      /\ \A i \in DOMAIN u.agenda : u.agenda[i].msg.kind = "INTEREST"
                                    \/ \E j \in DOMAIN t.agenda : u.agenda[i] = t.agenda[j]
  BY <1>1, <1>5, RoundBegun
<1>7. Known(u)
  BY <1>4, <1>6 DEF Known, Established
<1>8. EndGameBusy(u)
  <2>1. /\ Listed(t) <=> Listed(u)
        /\ \A q \in Remote : /\ Ready(t, q) <=> Ready(u, q)
                             /\ AsksAll(t, q) <=> AsksAll(u, q)
                             /\ Moving(t, q) => Moving(u, q)
    BY <1>6 DEF Listed, Ready, MayAsk, Established, AsksAll, Missing, Entries, Req, Moving
  <2> QED BY <2>1, <1>4, <1>6 DEF EndGameBusy
<1>9. ASSUME Steady(g) PROVE Calm(u, f)
  <2>1. Settled(s, f) /\ \A q \in Remote : Busy(s, q)
    BY <1>9 DEF IdleInv, Calm
  <2>2. \A q : ~Counting(s, q)
    BY <2>1, <1>2, <1>3
  <2>3. \A i \in DOMAIN u.agenda : u.agenda[i].msg.kind \notin {"BITFIELD", "HAVE"}
    BY <2>1, <1>2, <1>6
  <2>4. \A q : ~Counting(u, q)
    BY <2>3 DEF Counting, Due
  <2>5. \A q \in Remote :
          /\ At(f[q], "HAVE") = {} /\ At(f[q], "BITFIELD") \subseteq {1}
          /\ s.thread[q].amInterested => s.thread[q].conn # "NONE" /\ At(f[q], "BITFIELD") = {}
          /\ \A p \in s.thread[q].remoteBitfield : s.pieceFreq[p] # 0
    BY <2>1, <2>2 DEF Settled
  <2>6. Settled(u, f)
    BY <2>3, <2>4, <2>5, <1>1, <1>6 DEF Settled
  <2>7. ASSUME NEW q \in Remote PROVE Busy(u, q)
    <3>1. Moving(s, q) => Moving(u, q)
      BY <1>1, <1>3, <1>6 DEF Moving
    <3>2. Ready(u, q) => Looking(u, q)
      BY <1>4, <1>6 DEF Ready, MayAsk, Established, Known, Looking
    <3>3. (Ready(u, q) => Ready(s, q)) /\ (CanRequestMore(u, q) => CanRequestMore(s, q))
          /\ u.thread[q].allowedToRequest = s.thread[q].allowedToRequest /\ u.state = s.state
      BY <1>1, <1>6 DEF Ready, MayAsk, Established, CanRequestMore
    <3> QED BY <3>1, <3>2, <3>3, <2>1 DEF Busy
  <2> QED BY <2>6, <2>7 DEF Calm
<1> QED BY <1>7, <1>8, <1>9 DEF IdleInv

\* A thread is looked at.
LEMMA InterestIdle ==
  ASSUME NEW s \in PeerType, NEW f, NEW g, Fine(s, f, g), IdleInv(s, f, g), s.agenda # <<>>,
         Head(s.agenda).msg.kind = "INTEREST",
         NEW u \in HandleSelf(Resumed(s), Head(s.agenda).remote, Head(s.agenda).msg)
  PROVE  IdleInv(u, f, g)
<1> DEFINE t == Resumed(s)
           h == Head(s.agenda)
           r == h.remote
           m == h.msg
           d == [t.thread[r] EXCEPT !.allowedToRequest = TRUE]
           a == [t EXCEPT !.thread[r].allowedToRequest = TRUE]
<1>1. /\ t \in PeerType /\ PeerOK(t, f, g) /\ h \in SelfMsgs /\ t.state = s.state
      /\ t.thread = s.thread /\ t.localBitfield = s.localBitfield
  BY ResumedIs
<1>2. /\ Known(s) => Known(t)
      /\ s.state = "ENDGAME" /\ EndGameBusy(s) => Listed(t)
      /\ h.msg.kind \notin {"UNCHOKE", "NEXT_REQUEST"} /\ EndGameBusy(s) => EndGameBusy(t)
      /\ \A q \in Remote :
           Busy(s, q) /\ h.msg.kind # "UPDATE_INTERESTS"
                      /\ (q # h.remote \/ h.msg.kind \notin {"UNCHOKE", "NEXT_REQUEST", "INTEREST"})
             => Busy(t, q)
      /\ Settled(s, f) /\ h.msg.kind # "BITFIELD" => Settled(t, f)
  BY OffKeeps
<1>3. h.msg.kind = "INTEREST" /\ u \in HandleSelf(t, r, m)
  OBVIOUS
<1>4. r \in Remote
  BY <1>1 DEF SelfMsgs
<1>5. Known(t) /\ EndGameBusy(t) /\ (t.state = "ENDGAME" => Listed(t))
  BY <1>1, <1>2, <1>3 DEF IdleInv
<1>6. ASSUME Steady(g)
      PROVE  Settled(t, f) /\ \A q \in Remote \ {r} : Busy(t, q)
  BY <1>2, <1>3, <1>6 DEF IdleInv, Calm, r
<1>7. Moving(s, r) => Moving(t, r)
  <2>1. \A q, kinds : Due(s, q, kinds) /\ (q # h.remote \/ h.msg.kind \notin kinds) => Due(t, q, kinds)
    BY TakenOff
  <2> QED BY <2>1, <1>3 DEF Moving
<1>8. u \in UpdateInterest(t, r)
  <2> HIDE DEF t, r
  <2> QED BY <1>3 DEF HandleSelf, m
<1> HIDE DEF t, h, r, m
<1> DEFINE look == Established(t, r) /\ ~t.thread[r].allowedToRequest /\ ~t.thread[r].peerChoking /\ AmInterested(t, r)
<1>9. CASE ~look
  <2>1. u = t
    BY <1>8, <1>9 DEF UpdateInterest
  <2>2. ASSUME Steady(g) PROVE Busy(t, r)
    <3>1. Busy(s, r)
      BY <2>2, <1>4 DEF IdleInv, Calm
    <3>2. (Ready(t, r) => Ready(s, r)) /\ (CanRequestMore(t, r) => CanRequestMore(s, r))
      BY <1>1 DEF Ready, MayAsk, Established, CanRequestMore
    <3>3. Ready(t, r) /\ ~t.thread[r].allowedToRequest => Candidates(t, r) = {}
      BY <1>9, InterestingOnes DEF Ready, MayAsk
    <3> QED BY <3>1, <3>2, <3>3, <1>1, <1>7 DEF Busy
  <2>3. Steady(g) => Calm(t, f)
    BY <2>2, <1>6 DEF Calm
  <2> QED BY <2>1, <2>3, <1>5 DEF IdleInv
<1>10. CASE look
  <2>1. u \in NextMove(a, r)
    BY <1>8, <1>10 DEF UpdateInterest
  <2>2. /\ d \in ThreadType /\ d.conn = t.thread[r].conn /\ d.peerChoking = t.thread[r].peerChoking
        /\ d.requests = t.thread[r].requests /\ d.announced = t.thread[r].announced
        /\ d.amInterested = t.thread[r].amInterested /\ d.remoteBitfield = t.thread[r].remoteBitfield
    <3>1. t.thread[r] \in ThreadType
      BY <1>1, <1>4 DEF PeerType
    <3> QED BY <3>1 DEF ThreadType
  <2>3. SetThread(t, a, r, d)
    BY <1>1 DEF SetThread, PeerType
  <2> HIDE DEF a, d
  <2>4. a \in PeerType /\ Alike(t, a)
    BY <2>2, <2>3, <1>1, <1>4, ThreadSetAlike
  <2>5. Frame(t, a, {r}) /\ a.pieceFreq = t.pieceFreq
    BY <2>2, <2>3, <1>1, <1>4, FrameThread
  <2>6. /\ a.thread[r] = d /\ \A q \in Remote \ {r} : a.thread[q] = t.thread[q]
        /\ a.localBitfield = t.localBitfield /\ a.state = t.state /\ a.endGameRequests = t.endGameRequests
    BY <2>2, <2>3, <1>1, <1>4, ThreadSet
  <2>7. PeerOK(a, f, g)
    BY <2>4, <1>1, AlikeOK
  <2>8. a.state # "SEEDING"
    BY <2>6, <1>1, <1>4, <1>10, SeederContent DEF PeerOK
  <2>9. Known(a) /\ (a.state = "ENDGAME" => Listed(a))
    BY <2>5, <2>6, <1>5, KnownFrame DEF Listed, Missing, Entries
  <2>10. u \in PeerType /\ Goes(a, u, r)
    BY <2>1, <2>4, <2>7, <2>8, <2>9, <1>4, Moves
  <2>11. /\ Known(a) => Known(u)
         /\ EndGameBusy(u)
         /\ Settled(a, f) => Settled(u, f)
         /\ Busy(u, r)
         /\ \A q \in Remote \ {r} : Busy(a, q) => Busy(u, q)
    BY <2>4, <2>10, <1>4, GoesKeeps
  <2>12. ASSUME Steady(g) PROVE Calm(u, f)
    <3>1. Settled(a, f)
      BY <2>4, <2>5, <2>12, <1>1, <1>6, SettledFrame DEF PeerType
    <3>2. ASSUME NEW q \in Remote \ {r} PROVE Busy(a, q)
      <4>1. Candidates(a, q) = Candidates(t, q)
        BY <2>5, <2>6, <3>2, CandidatesSame DEF Frame
      <4>2. Busy(t, q) /\ a.thread[q].requests = t.thread[q].requests
        BY <2>6, <2>12, <3>2, <1>6
      <4> QED BY <4>1, <4>2, <2>5, <2>6, <3>2, BusyFrame
    <3> QED BY <3>1, <3>2, <2>11 DEF Calm
  <2> QED BY <2>9, <2>11, <2>12 DEF IdleInv
<1> QED BY <1>9, <1>10

\* A thread is removed.
LEMMA RemovalIdle ==
  ASSUME NEW s \in PeerType, NEW f, NEW g, Fine(s, f, g), IdleInv(s, f, g), s.agenda # <<>>,
         Head(s.agenda).msg.kind = "REMOVE_THREAD",
         NEW u \in HandleSelf(Resumed(s), Head(s.agenda).remote, Head(s.agenda).msg)
  PROVE  IdleInv(u, f, g)
<1> DEFINE t == Resumed(s)
           h == Head(s.agenda)
           r == h.remote
           m == h.msg
           d == [t.thread[r] EXCEPT !.conn = "GONE"]
           a == [t EXCEPT !.thread = [t.thread EXCEPT ![r] = d]]
           v == [t EXCEPT !.peerState = RemoveFirst(@, r), !.thread[r].conn = "GONE"]
<1>1. /\ t \in PeerType /\ PeerOK(t, f, g) /\ h \in SelfMsgs /\ t.thread = s.thread
      /\ h.msg.kind = "REMOVE_THREAD" => h.remote \in Removals(s)
  BY ResumedIs
<1>2. /\ Known(s) => Known(t)
      /\ h.msg.kind \notin {"UNCHOKE", "NEXT_REQUEST"} /\ EndGameBusy(s) => EndGameBusy(t)
      /\ \A q \in Remote :
           Busy(s, q) /\ h.msg.kind # "UPDATE_INTERESTS"
                      /\ (q # h.remote \/ h.msg.kind \notin {"UNCHOKE", "NEXT_REQUEST", "INTEREST"})
             => Busy(t, q)
      /\ Settled(s, f) /\ h.msg.kind # "BITFIELD" => Settled(t, f)
  BY OffKeeps
<1>3. h.msg.kind = "REMOVE_THREAD" /\ u \in HandleSelf(t, r, m)
  OBVIOUS
<1>4. r \in Remote
  BY <1>1 DEF SelfMsgs
<1>5. Known(t) /\ EndGameBusy(t) /\ (Steady(g) => Calm(t, f))
  BY <1>2, <1>3 DEF IdleInv, Calm
<1>6. t.thread[r].conn \in {"ABORTING", "GONE"}
  BY <1>1, <1>3, <1>4 DEF Fine, PeerOK, Threads
<1>7. u = v
  <2> HIDE DEF t, r
  <2> QED BY <1>3 DEF HandleSelf, m
<1> HIDE DEF t, h, r, m
<1>8. /\ d \in ThreadType /\ d.conn = "GONE" /\ d.peerChoking = t.thread[r].peerChoking
      /\ d.requests = t.thread[r].requests /\ d.allowedToRequest = t.thread[r].allowedToRequest
      /\ d.amInterested = t.thread[r].amInterested /\ d.remoteBitfield = t.thread[r].remoteBitfield
  <2>1. t.thread[r] \in ThreadType
    BY <1>1, <1>4 DEF PeerType
  <2> QED BY <2>1 DEF ThreadType
<1>9. SetThread(t, a, r, d)
  BY DEF SetThread
<1>10. v = [a EXCEPT !.peerState = RemoveFirst(t.peerState, r)]
  BY <1>1 DEF PeerType
<1>11. a.pieceFreq = t.pieceFreq
  BY <1>1 DEF PeerType
<1> HIDE DEF a, d, v
<1>12. /\ a \in PeerType /\ a.thread[r] = d
       /\ \A q \in Remote \ {r} : a.thread[q] = t.thread[q]
       /\ a.localBitfield = t.localBitfield /\ a.state = t.state
       /\ a.agenda = t.agenda /\ a.endGameRequests = t.endGameRequests
  BY <1>1, <1>4, <1>8, <1>9, ThreadSet
<1>13. ToSet(t.peerState) \ {r} \subseteq ToSet(RemoveFirst(t.peerState, r))
  <2>1. t.peerState \in Seq(Remote)
    BY <1>1 DEF PeerType
  <2> QED BY <2>1, FirstRemoved
<1>14. /\ u.thread = a.thread /\ u.localBitfield = a.localBitfield /\ u.state = a.state
       /\ u.agenda = a.agenda /\ u.endGameRequests = a.endGameRequests /\ u.pieceFreq = a.pieceFreq
       /\ u.peerState = RemoveFirst(t.peerState, r)
  BY <1>7, <1>10, <1>12 DEF PeerType
<1>15. Known(u)
  BY <1>5, <1>8, <1>12, <1>13, <1>14 DEF Known, Established
<1>16. \A q \in Remote : /\ Established(u, q) <=> Established(t, q)
                         /\ u.thread[q].conn = "NONE" <=> t.thread[q].conn = "NONE"
                         /\ u.thread[q].remoteBitfield = t.thread[q].remoteBitfield
                         /\ u.thread[q].peerChoking = t.thread[q].peerChoking
                         /\ u.thread[q].amInterested = t.thread[q].amInterested
                         /\ u.thread[q].allowedToRequest = t.thread[q].allowedToRequest
                         /\ u.thread[q].requests = t.thread[q].requests
  <2> TAKE q \in Remote
  <2>1. CASE q = r
    BY <2>1, <1>6, <1>8, <1>12, <1>14 DEF Established
  <2>2. CASE q # r
    BY <2>2, <1>12, <1>14 DEF Established
  <2> QED BY <2>1, <2>2
<1>17. t.agenda \in Seq(SelfMsgs)
  BY <1>1 DEF PeerType
<1>18. /\ EndGameBusy(t) => EndGameBusy(u)
       /\ \A q \in Remote : Busy(t, q) => Busy(u, q)
       /\ Settled(t, f) => Settled(u, f)
  BY <1>11, <1>12, <1>14, <1>16, <1>17, QuietKeeps
<1> QED BY <1>5, <1>15, <1>18 DEF IdleInv, Calm

LEMMA SelfMessageIdle ==
  ASSUME NEW s \in PeerType, NEW f, NEW g, Fine(s, f, g), IdleInv(s, f, g), s.agenda # <<>>,
         NEW u \in HandleSelf(Resumed(s), Head(s.agenda).remote, Head(s.agenda).msg)
  PROVE  IdleInv(u, f, g)
<1>1. Head(s.agenda).msg.kind \in SelfKinds
  <2>1. Head(s.agenda) \in SelfMsgs
    BY TakenOff
  <2> QED BY <2>1 DEF SelfMsgs, Messages
<1>2. CASE Head(s.agenda).msg.kind = "BITFIELD"
  BY <1>2, BitfieldCounted
<1>3. CASE Head(s.agenda).msg.kind = "HAVE"
  BY <1>3, HaveCounted
<1>4. CASE Head(s.agenda).msg.kind \in {"UNCHOKE", "NEXT_REQUEST"}
  BY <1>4, MoveIdle
<1>5. CASE Head(s.agenda).msg.kind = "REQUEST"
  BY <1>5, RequestIdle
<1>6. CASE Head(s.agenda).msg.kind = "UPDATE_INTERESTS"
  BY <1>6, RoundIdle
<1>7. CASE Head(s.agenda).msg.kind = "INTEREST"
  BY <1>7, InterestIdle
<1>8. CASE Head(s.agenda).msg.kind = "REMOVE_THREAD"
  BY <1>8, RemovalIdle
<1> QED BY <1>1, <1>2, <1>3, <1>4, <1>5, <1>6, <1>7, <1>8 DEF SelfKinds

-----------------------------------------------------------------------------
(* Messages of a remote peer *)

LEMMA NothingDue ==
  ASSUME NEW s, s.agenda = <<>>
  PROVE  /\ \A q, kinds : ~Due(s, q, kinds)
         /\ \A q : ~Moving(s, q) /\ ~Looking(s, q) /\ ~Counting(s, q)
<1>1. \A q, kinds : ~Due(s, q, kinds)
  BY DEF Due
<1> QED BY <1>1 DEF Moving, Looking, Counting

\* The wire of a remote peer gets shorter.
LEMMA PoppedSettled ==
  ASSUME NEW s, NEW f \in [Remote -> Seq(Messages(FromKinds))], NEW r \in Remote, f[r] # <<>>, Settled(s, f)
  PROVE  /\ Settled(s, Popped(f, r)) /\ Head(f[r]).kind # "HAVE"
         /\ At(Popped(f, r)[r], "BITFIELD") = {}
         /\ Head(f[r]).kind = "BITFIELD" => 1 \in At(f[r], "BITFIELD")
<1> DEFINE h == Popped(f, r)
           w == f[r]
<1>1. h[r] = Tail(w) /\ \A q \in Remote \ {r} : h[q] = f[q]
  BY PoppedIs
<1>2. /\ w \in Seq(Messages(FromKinds)) /\ w # <<>>
      /\ At(w, "HAVE") = {} /\ At(w, "BITFIELD") \subseteq {1}
  BY DEF Settled
<1> HIDE DEF h, w
<1>3. /\ 1 \in DOMAIN w /\ Head(w) = w[1]
      /\ \A i \in DOMAIN Tail(w) : i + 1 \in DOMAIN w /\ i + 1 # 1 /\ Tail(w)[i] = w[i + 1]
  BY <1>2, TailAt
<1>4. At(Tail(w), "HAVE") = {}
  BY <1>2, <1>3 DEF At
<1>5. At(Tail(w), "BITFIELD") = {}
  <2> SUFFICES ASSUME NEW i \in DOMAIN Tail(w), Tail(w)[i].kind = "BITFIELD" PROVE FALSE
    BY DEF At
  <2>1. i + 1 \in At(w, "BITFIELD") /\ i + 1 # 1
    BY <1>3 DEF At
  <2> QED BY <2>1, <1>2
<1>6. Head(w).kind # "HAVE" /\ (Head(w).kind = "BITFIELD" => 1 \in At(w, "BITFIELD"))
  BY <1>2, <1>3 DEF At
<1>7. Settled(s, h)
  <2>1. ASSUME NEW q \in Remote
        PROVE  /\ At(h[q], "HAVE") = {} /\ At(h[q], "BITFIELD") \subseteq {1}
               /\ s.thread[q].amInterested => /\ s.thread[q].conn # "NONE" /\ ~Counting(s, q)
                                              /\ At(h[q], "BITFIELD") = {}
               /\ Counting(s, q) => At(h[q], "BITFIELD") = {} /\ s.thread[q].conn # "NONE"
               /\ ~Counting(s, q) => \A p \in s.thread[q].remoteBitfield : s.pieceFreq[p] # 0
    <3>1. CASE q = r
      BY <3>1, <1>1, <1>4, <1>5 DEF Settled
    <3>2. CASE q # r
      BY <3>2, <1>1 DEF Settled
    <3> QED BY <3>1, <3>2
  <2> QED BY <2>1 DEF Settled
<1> QED BY <1>1, <1>5, <1>6, <1>7 DEF h, w

\* In the end game, the threads other than r ask for all they can.
OthersAsk(s, r) ==
  s.state = "ENDGAME" => Listed(s) /\ \A q \in Remote \ {r} : Ready(s, q) => Moving(s, q) \/ AsksAll(s, q)

\* One thread changes.
LEMMA OneThread ==
  ASSUME NEW s \in PeerType, NEW r \in Remote, NEW t \in ThreadType, NEW u, SetThread(s, u, r, t),
         t.remoteBitfield = s.thread[r].remoteBitfield, t.amInterested => s.thread[r].amInterested,
         t.conn = "NONE" => s.thread[r].conn = "NONE"
  PROVE  /\ u.pieceFreq = s.pieceFreq
         /\ (Established(u, r) => Established(s, r)) /\ Known(s) => Known(u)
         /\ EndGameBusy(s) => OthersAsk(u, r)
         /\ \A f : Settled(s, f) => Settled(u, f)
         /\ \A q \in Remote \ {r} : Busy(s, q) => Busy(u, q)
         /\ ~Ready(u, r) => Busy(u, r) /\ (OthersAsk(u, r) => EndGameBusy(u))
<1>1. /\ u.thread[r] = t /\ \A q \in Remote \ {r} : u.thread[q] = s.thread[q]
      /\ u.localBitfield = s.localBitfield /\ u.state = s.state
      /\ u.agenda = s.agenda /\ u.peerState = s.peerState
      /\ u.endGameRequests = s.endGameRequests
  BY ThreadSet
<1>2. u.pieceFreq = s.pieceFreq
  BY DEF SetThread, PeerType
<1>3. \A q : /\ Moving(u, q) <=> Moving(s, q)
             /\ Looking(u, q) <=> Looking(s, q)
             /\ Counting(u, q) <=> Counting(s, q)
  BY <1>1 DEF Moving, Looking, Counting, Due
<1>4. \A q \in Remote \ {r} : /\ Ready(u, q) <=> Ready(s, q)
                              /\ CanRequestMore(u, q) <=> CanRequestMore(s, q)
                              /\ AsksAll(u, q) <=> AsksAll(s, q)
                              /\ Candidates(u, q) = Candidates(s, q)
  BY <1>1, <1>2 DEF Ready, MayAsk, Established, CanRequestMore, AsksAll, Missing, Entries, Req, Candidates
<1>5. Listed(s) <=> Listed(u)
  BY <1>1 DEF Listed, Missing, Entries
<1>6. (Established(u, r) => Established(s, r)) /\ Known(s) => Known(u)
  BY <1>1 DEF Known, Established
<1>7. EndGameBusy(s) => OthersAsk(u, r)
  BY <1>1, <1>3, <1>4, <1>5 DEF EndGameBusy, OthersAsk
<1>8. \A q \in Remote \ {r} : Busy(s, q) => Busy(u, q)
  BY <1>1, <1>3, <1>4 DEF Busy
<1>9. ~Ready(u, r) => Busy(u, r) /\ (OthersAsk(u, r) => EndGameBusy(u))
  BY DEF Busy, OthersAsk, EndGameBusy
<1>10. ASSUME NEW f, Settled(s, f) PROVE Settled(u, f)
  <2>1. \A q \in Remote : u.thread[q].remoteBitfield = s.thread[q].remoteBitfield
    BY <1>1
  <2>2. \A i \in DOMAIN s.agenda : s.agenda[i].remote \in Remote
    <3>1. s.agenda \in Seq(SelfMsgs)
      BY DEF PeerType
    <3>2. \A i \in DOMAIN s.agenda : s.agenda[i] \in SelfMsgs
      BY <3>1
    <3> QED BY <3>2 DEF SelfMsgs
  <2>3. \A i \in DOMAIN u.agenda :
          /\ u.agenda[i].msg.kind # "HAVE"
          /\ u.agenda[i].msg.kind = "BITFIELD" =>
               i = 1 /\ u.agenda[i].msg.pieces = u.thread[u.agenda[i].remote].remoteBitfield
    BY <2>1, <2>2, <1>1, <1>10 DEF Settled
  <2>4. ASSUME NEW q \in Remote
        PROVE  /\ At(f[q], "HAVE") = {} /\ At(f[q], "BITFIELD") \subseteq {1}
               /\ u.thread[q].amInterested => /\ u.thread[q].conn # "NONE" /\ ~Counting(u, q)
                                              /\ At(f[q], "BITFIELD") = {}
               /\ Counting(u, q) => At(f[q], "BITFIELD") = {} /\ u.thread[q].conn # "NONE"
               /\ ~Counting(u, q) => \A p \in u.thread[q].remoteBitfield : u.pieceFreq[p] # 0
    <3>1. CASE q = r
      BY <3>1, <1>1, <1>2, <1>3, <1>10 DEF Settled
    <3>2. CASE q # r
      BY <3>2, <1>1, <1>2, <1>3, <1>10 DEF Settled
    <3> QED BY <3>1, <3>2
  <2> QED BY <2>3, <2>4 DEF Settled
<1> QED BY <1>2, <1>6, <1>7, <1>8, <1>9, <1>10

\* News of pieces.
LEMMA NewsIdle ==
  ASSUME NEW s \in PeerType, NEW f \in [Remote -> Seq(Messages(FromKinds))], NEW g, PeerOK(s, f, g),
         IdleInv(s, f, g), s.agenda = <<>>,
         NEW r \in Remote, f[r] # <<>>, Head(f[r]).kind \in {"BITFIELD", "HAVE"}
  PROVE  IdleInv(DataArrived(s, r, Head(f[r])), Popped(f, r), g)
<1> DEFINE h == Popped(f, r)
           m == Head(f[r])
           S == IF m.kind = "BITFIELD" THEN m.pieces ELSE s.thread[r].remoteBitfield \cup {m.index}
           t == [s.thread[r] EXCEPT !.remoteBitfield = S]
           a == [s EXCEPT !.thread = [s.thread EXCEPT ![r] = t]]
           u == Schedule(a, r, m)
<1>1. m \in Messages(FromKinds)
  BY PoppedIs
<1>17. ASSUME Settled(s, f)
       PROVE  /\ Settled(s, h) /\ m.kind # "HAVE" /\ At(h[r], "BITFIELD") = {}
              /\ m.kind = "BITFIELD" => 1 \in At(f[r], "BITFIELD")
  BY <1>17, PoppedSettled
<1>2. m.kind \in {"BITFIELD", "HAVE"}
  OBVIOUS
<1>3. DataArrived(s, r, m) = u
  <2>1. s.thread \in [Remote -> ThreadType] /\ s.thread[r] \in ThreadType
    BY DEF PeerType
  <2> HIDE DEF m
  <2>2. CASE m.kind = "BITFIELD"
    <3>1. DataArrived(s, r, m) = Schedule([s EXCEPT !.thread[r].remoteBitfield = m.pieces], r, m)
      BY <2>2 DEF DataArrived
    <3>2. [s EXCEPT !.thread[r].remoteBitfield = m.pieces] = a
      BY <2>1, <2>2 DEF PeerType
    <3> QED BY <3>1, <3>2
  <2>3. CASE m.kind = "HAVE"
    <3>1. DataArrived(s, r, m) = Schedule([s EXCEPT !.thread[r].remoteBitfield = @ \cup {m.index}], r, m)
      BY <2>3 DEF DataArrived
    <3>2. [s EXCEPT !.thread[r].remoteBitfield = @ \cup {m.index}] = a
      BY <2>1, <2>3 DEF PeerType
    <3> QED BY <3>1, <3>2
  <2> QED BY <2>2, <2>3, <1>2
<1>4. s.thread[r].conn # "NONE"
  <2>1. Wire(s, f[r], g[r], r) /\ f[r] \in Seq(Messages(FromKinds))
    BY DEF PeerOK
  <2> QED BY <2>1, PoppedWire
<1>5. m \in Messages(SelfKinds) /\ m.index \in Piece /\ m.pieces \in SUBSET Piece
  BY <1>1, <1>2 DEF Messages, SelfKinds
<1>6. /\ t \in ThreadType /\ t.conn = s.thread[r].conn /\ t.peerChoking = s.thread[r].peerChoking
      /\ t.requests = s.thread[r].requests /\ t.allowedToRequest = s.thread[r].allowedToRequest
      /\ t.amInterested = s.thread[r].amInterested
      /\ m.kind = "BITFIELD" => t.remoteBitfield = m.pieces
  <2>1. s.thread[r] \in ThreadType
    BY DEF PeerType
  <2>2. S \in SUBSET Piece
    BY <2>1, <1>5 DEF ThreadType
  <2>3. m.kind = "BITFIELD" => S = m.pieces
    OBVIOUS
  <2> HIDE DEF S
  <2> QED BY <2>1, <2>2, <2>3 DEF ThreadType
<1>7. SetThread(s, a, r, t)
  BY DEF SetThread
<1>8. a.pieceFreq = s.pieceFreq
  BY DEF PeerType
<1> HIDE DEF m, t, a, h
<1>9. /\ a \in PeerType /\ a.thread[r] = t /\ \A q \in Remote \ {r} : a.thread[q] = s.thread[q]
      /\ a.localBitfield = s.localBitfield /\ a.state = s.state /\ a.agenda = <<>>
      /\ a.peerState = s.peerState /\ a.endGameRequests = s.endGameRequests
  BY <1>6, <1>7, ThreadSet
<1>10. /\ u.thread = a.thread /\ u.localBitfield = a.localBitfield /\ u.state = a.state
       /\ u.endGameRequests = a.endGameRequests /\ u.pieceFreq = a.pieceFreq
       /\ u.peerState = a.peerState
       /\ u.agenda = Append(a.agenda, SelfMsg(r, m)) /\ Due(u, r, {m.kind})
  BY <1>5, <1>9, FrameScheduled
<1> HIDE DEF u
<1>11. /\ DOMAIN u.agenda = {1} /\ u.agenda[1].remote = r /\ u.agenda[1].msg = m
  BY <1>9, <1>10 DEF SelfMsg
<1>12. \A q : Counting(u, q) <=> q = r /\ m.kind = "BITFIELD"
  BY <1>11 DEF Counting, Due
<1>13. \A q \in Remote : /\ u.thread[q].conn = s.thread[q].conn
                         /\ u.thread[q].peerChoking = s.thread[q].peerChoking
                         /\ u.thread[q].requests = s.thread[q].requests
                         /\ u.thread[q].amInterested = s.thread[q].amInterested
                         /\ u.thread[q].allowedToRequest = s.thread[q].allowedToRequest
  BY <1>6, <1>9, <1>10
<1>14. Known(u)
  BY <1>9, <1>10, <1>13 DEF IdleInv, Known, Established
<1>15. EndGameBusy(u)
  <2>1. /\ Listed(s) <=> Listed(u)
        /\ \A q \in Remote : /\ Ready(s, q) <=> Ready(u, q)
                             /\ AsksAll(s, q) <=> AsksAll(u, q)
    BY <1>9, <1>10, <1>13 DEF Listed, Ready, MayAsk, Established, AsksAll, Missing, Entries, Req
  <2>2. \A q : ~Moving(s, q)
    BY NothingDue
  <2> QED BY <2>1, <2>2, <1>9, <1>10 DEF IdleInv, EndGameBusy
<1>16. ASSUME Steady(g) PROVE Calm(u, h)
  <2>1. Settled(s, f) /\ \A q \in Remote : Busy(s, q)
    BY <1>16 DEF IdleInv, Calm
  <2>2. /\ Settled(s, h) /\ m.kind = "BITFIELD" /\ At(h[r], "BITFIELD") = {}
        /\ 1 \in At(f[r], "BITFIELD")
    BY <2>1, <1>17, <1>2 DEF m
  <2>3. ~s.thread[r].amInterested
    BY <2>1, <2>2 DEF Settled
  <2>4. \A q \in Remote : ~Moving(s, q) /\ ~Looking(s, q) /\ ~Counting(s, q)
    BY NothingDue
  <2>5. ASSUME NEW i \in DOMAIN u.agenda
        PROVE  /\ u.agenda[i].msg.kind # "HAVE"
               /\ i = 1 /\ u.agenda[i].msg.pieces = u.thread[u.agenda[i].remote].remoteBitfield
    BY <2>2, <2>5, <1>6, <1>9, <1>10, <1>11
  <2>6. ASSUME NEW q \in Remote
        PROVE  /\ At(h[q], "HAVE") = {} /\ At(h[q], "BITFIELD") \subseteq {1}
               /\ u.thread[q].amInterested => /\ u.thread[q].conn # "NONE" /\ ~Counting(u, q)
                                              /\ At(h[q], "BITFIELD") = {}
               /\ Counting(u, q) => At(h[q], "BITFIELD") = {} /\ u.thread[q].conn # "NONE"
               /\ ~Counting(u, q) => \A p \in u.thread[q].remoteBitfield : u.pieceFreq[p] # 0
    <3>1. CASE q = r
      <4>1. At(h[r], "HAVE") = {}
        BY <2>2 DEF Settled
      <4>2. Counting(u, r) /\ u.thread[r].conn # "NONE" /\ ~u.thread[r].amInterested
        BY <2>2, <2>3, <1>4, <1>12, <1>13
      <4> QED BY <3>1, <4>1, <4>2, <2>2
    <3>2. CASE q # r
      <4>1. /\ ~Counting(u, q) /\ ~Counting(s, q)
            /\ u.thread[q] = s.thread[q] /\ u.pieceFreq = s.pieceFreq
        BY <3>2, <2>4, <1>8, <1>9, <1>10, <1>12
      <4>2. Settled(s, h)
        BY <2>2
      <4> QED BY <4>1, <4>2 DEF Settled
    <3> QED BY <3>1, <3>2
  <2>7. Settled(u, h)
    BY <2>5, <2>6 DEF Settled
  <2>8. ASSUME NEW q \in Remote PROVE Busy(u, q)
    <3>1. CASE q = r
      BY <3>1, <2>3, <1>13 DEF Busy, Ready
    <3>2. CASE q # r
      <4>1. Candidates(u, q) = Candidates(s, q)
        BY <3>2, <1>8, <1>9, <1>10, CandidatesSame
      <4>2. (Ready(u, q) => Ready(s, q)) /\ (CanRequestMore(u, q) => CanRequestMore(s, q))
        BY <1>13 DEF Ready, MayAsk, Established, CanRequestMore
      <4> QED BY <4>1, <4>2, <2>1, <2>4, <1>9, <1>10, <1>13 DEF Busy
    <3> QED BY <3>1, <3>2
  <2> QED BY <2>7, <2>8 DEF Calm
<1> QED BY <1>3, <1>14, <1>15, <1>16 DEF IdleInv, h, m

\* A thread that may not ask gives its requests up.
LEMMA ClearedIs ==
  ASSUME NEW s \in PeerType, NEW r \in Remote, Books(s)
  PROVE  LET u == ClearPendingRequests(s, r)
         IN  /\ u \in PeerType /\ Frame(s, u, {}) /\ Due(u, r, {"UPDATE_INTERESTS"})
             /\ u.endGameRequests = s.endGameRequests
             /\ s.state = "ENDGAME" => u.localBitfield = s.localBitfield
             /\ Cleared(s, u, r)
<1> DEFINE v == FoldLeft(LAMBDA t, e : UpdateBlockRequests(t, e, FALSE), s, s.thread[r].requests)
           t == [v.thread[r] EXCEPT !.requests = <<>>]
           w == [v EXCEPT !.thread[r].requests = <<>>]
           m == Msg("UPDATE_INTERESTS")
           u == Schedule(w, r, m)
<1>1. ClearPendingRequests(s, r) = u
  BY DEF ClearPendingRequests
<1>2. v \in Givings(s)
  BY AllGiven
<1> HIDE DEF v
<1>3. v \in PeerType /\ Giving(s, v)
  BY <1>2 DEF Givings
<1>4. /\ v.thread = s.thread /\ v.agenda = s.agenda /\ v.state = s.state /\ v.pieceFreq = s.pieceFreq
      /\ v.peerState = s.peerState /\ v.endGameRequests = s.endGameRequests
      /\ s.state = "ENDGAME" => v.localBitfield = s.localBitfield
  BY <1>3 DEF Giving, PeerType
<1>5. /\ t \in ThreadType /\ SetThread(v, w, r, t)
      /\ t.conn = v.thread[r].conn /\ t.peerChoking = v.thread[r].peerChoking
      /\ t.remoteBitfield = v.thread[r].remoteBitfield
      /\ t.amInterested = v.thread[r].amInterested /\ t.allowedToRequest = v.thread[r].allowedToRequest
  <2>1. v.thread \in [Remote -> ThreadType] /\ v.thread[r] \in ThreadType
    BY <1>3 DEF PeerType
  <2>2. <<>> \in Seq(Entry)
    OBVIOUS
  <2>3. SetThread(v, w, r, t)
    BY <2>1, <1>3 DEF SetThread, PeerType
  <2> HIDE DEF w
  <2> QED BY <2>1, <2>2, <2>3 DEF ThreadType
<1> HIDE DEF w, t
<1>6. Frame(v, w, {}) /\ w.pieceFreq = v.pieceFreq
  BY <1>3, <1>5, FrameThread
<1>7. /\ w \in PeerType /\ w.localBitfield = v.localBitfield /\ w.endGameRequests = v.endGameRequests
  BY <1>3, <1>5, ThreadSet
<1>8. m \in Messages(SelfKinds) /\ m.kind = "UPDATE_INTERESTS"
  BY MsgTypes DEF SelfKinds
<1> HIDE DEF m
<1>9. /\ u \in PeerType /\ Due(u, r, {"UPDATE_INTERESTS"}) /\ Frame(w, u, {})
      /\ u.localBitfield = w.localBitfield /\ u.endGameRequests = w.endGameRequests
  BY <1>7, <1>8, FrameScheduled
<1> HIDE DEF u
<1>10. Frame(s, v, {})
  BY <1>4, FrameQuiet
<1>11. Frame(s, u, {})
  BY <1>6, <1>9, <1>10, FrameComposed
<1>12. Cleared(s, u, r)
  BY <1>1, ClearedBooks
<1> QED BY <1>1, <1>4, <1>7, <1>9, <1>11, <1>12

LEMMA ClearedKeeps ==
  ASSUME NEW s \in PeerType, NEW r \in Remote, Books(s), s.thread[r].peerChoking, NEW f
  PROVE  LET u == ClearPendingRequests(s, r)
         IN  /\ u \in PeerType
             /\ Known(s) => Known(u)
             /\ EndGameBusy(s) => EndGameBusy(u)
             /\ Settled(s, f) => Settled(u, f)
             /\ (\A q \in Remote : Busy(s, q)) => \A q \in Remote : Busy(u, q)
<1> DEFINE u == ClearPendingRequests(s, r)
<1>1. /\ u \in PeerType /\ Frame(s, u, {}) /\ Due(u, r, {"UPDATE_INTERESTS"})
      /\ u.endGameRequests = s.endGameRequests
      /\ s.state = "ENDGAME" => u.localBitfield = s.localBitfield
      /\ Cleared(s, u, r)
  BY ClearedIs
<1> HIDE DEF u
<1>2. Known(s) => Known(u)
  BY <1>1, KnownFrame
<1>3. Settled(s, f) => Settled(u, f)
  BY <1>1, SettledFrame DEF PeerType
<1>4. ~Ready(u, r)
  BY <1>1 DEF Frame, Ready, MayAsk
<1>5. /\ \A q : Moving(s, q) => Moving(u, q)
      /\ \A q : Looking(u, q)
  BY <1>1, LaterDue DEF Frame, Looking
<1>6. /\ u.state = s.state /\ u.localBitfield.blockfield = s.localBitfield.blockfield
      /\ \A q \in Remote \ {r} : u.thread[q] = s.thread[q]
  BY <1>1 DEF Cleared
<1>7. EndGameBusy(s) => EndGameBusy(u)
  <2>1. Listed(s) => Listed(u)
    BY <1>1, <1>6 DEF Listed, Missing, Entries
  <2>2. \A q \in Remote \ {r} : (Ready(u, q) => Ready(s, q)) /\ (AsksAll(s, q) => AsksAll(u, q))
    BY <1>1, <1>6 DEF Ready, MayAsk, Established, AsksAll, Missing, Entries, Req
  <2>3. ASSUME EndGameBusy(s), u.state = "ENDGAME", NEW q \in Remote, Ready(u, q)
        PROVE  Moving(u, q) \/ AsksAll(u, q)
    BY <2>2, <2>3, <1>4, <1>5, <1>6 DEF EndGameBusy
  <2> QED BY <2>1, <2>3, <1>6 DEF EndGameBusy
<1>8. ASSUME NEW q \in Remote, Busy(s, q) PROVE Busy(u, q)
  <2>1. CASE q = r
    BY <2>1, <1>4 DEF Busy
  <2>2. CASE q # r
    <3>1. /\ Ready(u, q) => Ready(s, q)
          /\ CanRequestMore(u, q) => CanRequestMore(s, q)
          /\ u.thread[q].allowedToRequest = s.thread[q].allowedToRequest
      BY <2>2, <1>6 DEF Ready, MayAsk, Established, CanRequestMore
    <3> QED BY <3>1, <1>5, <1>6, <1>8 DEF Busy
  <2> QED BY <2>1, <2>2
<1>9. (\A q \in Remote : Busy(s, q)) => \A q \in Remote : Busy(u, q)
  BY <1>8
<1> QED BY <1>1, <1>2, <1>3, <1>7, <1>9 DEF u

\* The remote peer chokes.
LEMMA ChokeIdle ==
  ASSUME NEW s \in PeerType, NEW f \in [Remote -> Seq(Messages(FromKinds))], NEW g, PeerOK(s, f, g),
         IdleInv(s, f, g), NEW r \in Remote, f[r] # <<>>, Head(f[r]).kind = "CHOKE"
  PROVE  IdleInv(DataArrived(s, r, Head(f[r])), Popped(f, r), g)
<1> DEFINE h == Popped(f, r)
           m == Head(f[r])
           t == [s.thread[r] EXCEPT !.peerChoking = TRUE]
           a == [s EXCEPT !.thread = [s.thread EXCEPT ![r] = t]]
           u == ClearPendingRequests(a, r)
<1>1. DataArrived(s, r, m) = u
  <2>1. s.thread \in [Remote -> ThreadType] /\ s.thread[r] \in ThreadType
    BY DEF PeerType
  <2>2. DataArrived(s, r, m) = ClearPendingRequests([s EXCEPT !.thread[r].peerChoking = TRUE], r)
    BY DEF DataArrived
  <2>3. [s EXCEPT !.thread[r].peerChoking = TRUE] = a
    BY <2>1 DEF PeerType
  <2> QED BY <2>2, <2>3
<1>2. /\ t \in ThreadType /\ t.conn = s.thread[r].conn /\ t.peerChoking = TRUE
      /\ t.requests = s.thread[r].requests
      /\ t.amInterested = s.thread[r].amInterested /\ t.remoteBitfield = s.thread[r].remoteBitfield
      /\ t.conn = "NONE" => s.thread[r].conn = "NONE"
  <2>1. s.thread[r] \in ThreadType
    BY DEF PeerType
  <2> QED BY <2>1 DEF ThreadType
<1>3. SetThread(s, a, r, t)
  BY DEF SetThread
<1>4. Settled(s, f) => Settled(s, h)
  BY PoppedSettled
<1> HIDE DEF a, t, h, m
<1>5. /\ a \in PeerType
      /\ a.thread[r] = t
      /\ \A q \in Remote \ {r} : a.thread[q] = s.thread[q]
      /\ a.localBitfield = s.localBitfield /\ a.state = s.state
      /\ a.enableEndGameMode = s.enableEndGameMode
  BY <1>2, <1>3, ThreadSet
<1>6. /\ (Established(a, r) => Established(s, r)) /\ Known(s) => Known(a)
      /\ EndGameBusy(s) => OthersAsk(a, r)
      /\ Settled(s, h) => Settled(a, h)
      /\ \A q \in Remote \ {r} : Busy(s, q) => Busy(a, q)
      /\ ~Ready(a, r) => Busy(a, r) /\ (OthersAsk(a, r) => EndGameBusy(a))
  BY <1>2, <1>3, OneThread
<1>7. (Established(a, r) => Established(s, r)) /\ ~Ready(a, r)
  BY <1>2, <1>5 DEF Established, Ready, MayAsk
<1>8. Books(a)
  <2>1. \A q \in Remote : a.thread[q].requests = s.thread[q].requests
    BY <1>2, <1>5
  <2> QED BY <2>1, <1>5, BooksSame DEF PeerOK
<1>9. /\ Known(a) => Known(u)
      /\ EndGameBusy(a) => EndGameBusy(u)
      /\ Settled(a, h) => Settled(u, h)
      /\ (\A q \in Remote : Busy(a, q)) => \A q \in Remote : Busy(u, q)
  BY <1>2, <1>5, <1>8, ClearedKeeps
<1> HIDE DEF u
<1>10. Known(u) /\ EndGameBusy(u)
  BY <1>6, <1>7, <1>9 DEF IdleInv
<1>11. ASSUME Steady(g) PROVE Calm(u, h)
  <2>1. Settled(a, h) /\ \A q \in Remote \ {r} : Busy(a, q)
    BY <1>4, <1>6, <1>11 DEF IdleInv, Calm
  <2>2. \A q \in Remote : Busy(a, q)
    BY <2>1, <1>6, <1>7
  <2> QED BY <2>1, <2>2, <1>9 DEF Calm
<1> QED BY <1>1, <1>10, <1>11 DEF IdleInv, h, m

\* The remote peer unchokes.
LEMMA UnchokeIdle ==
  ASSUME NEW s \in PeerType, NEW f \in [Remote -> Seq(Messages(FromKinds))], NEW g,
         IdleInv(s, f, g), NEW r \in Remote, f[r] # <<>>, Head(f[r]).kind = "UNCHOKE"
  PROVE  IdleInv(DataArrived(s, r, Head(f[r])), Popped(f, r), g)
<1> DEFINE h == Popped(f, r)
           m == Head(f[r])
           t == [s.thread[r] EXCEPT !.peerChoking = FALSE]
           a == [s EXCEPT !.thread = [s.thread EXCEPT ![r] = t]]
           u == Schedule(a, r, m)
<1>1. DataArrived(s, r, m) = IF s.thread[r].amInterested THEN u ELSE a
  <2>1. s.thread \in [Remote -> ThreadType] /\ s.thread[r] \in ThreadType
    BY DEF PeerType
  <2>2. DataArrived(s, r, m) =
            LET b == [s EXCEPT !.thread[r].peerChoking = FALSE]
            IN  IF s.thread[r].amInterested THEN Schedule(b, r, m) ELSE b
    BY DEF DataArrived
  <2>3. [s EXCEPT !.thread[r].peerChoking = FALSE] = a
    BY <2>1 DEF PeerType
  <2> QED BY <2>2, <2>3
<1>2. /\ t \in ThreadType /\ t.conn = s.thread[r].conn
      /\ t.amInterested = s.thread[r].amInterested /\ t.remoteBitfield = s.thread[r].remoteBitfield
      /\ t.conn = "NONE" => s.thread[r].conn = "NONE"
  <2>1. s.thread[r] \in ThreadType
    BY DEF PeerType
  <2> QED BY <2>1 DEF ThreadType
<1>3. SetThread(s, a, r, t)
  BY DEF SetThread
<1>4. Settled(s, f) => Settled(s, h)
  BY PoppedSettled
<1>5. m.kind = "UNCHOKE" /\ m \in Messages(SelfKinds)
  <2>1. m \in Messages(FromKinds)
    BY PoppedIs
  <2> QED BY <2>1 DEF Messages, SelfKinds
<1> HIDE DEF a, t, h, m
<1>6. a \in PeerType /\ a.thread[r] = t
  BY <1>2, <1>3, ThreadSet
<1>7. /\ (Established(a, r) => Established(s, r)) /\ Known(s) => Known(a)
      /\ EndGameBusy(s) => OthersAsk(a, r)
      /\ Settled(s, h) => Settled(a, h)
      /\ \A q \in Remote \ {r} : Busy(s, q) => Busy(a, q)
      /\ ~Ready(a, r) => Busy(a, r) /\ (OthersAsk(a, r) => EndGameBusy(a))
  BY <1>2, <1>3, OneThread
<1>8. Established(a, r) => Established(s, r)
  BY <1>2, <1>6 DEF Established
<1>9. Known(a) /\ OthersAsk(a, r)
  BY <1>7, <1>8 DEF IdleInv
<1>10. ASSUME Steady(g) PROVE Settled(a, h) /\ \A q \in Remote \ {r} : Busy(a, q)
  BY <1>4, <1>7, <1>10 DEF IdleInv, Calm
<1>11. CASE ~s.thread[r].amInterested
  <2>1. ~Ready(a, r)
    BY <1>2, <1>6, <1>11 DEF Ready
  <2>2. Busy(a, r) /\ EndGameBusy(a)
    BY <2>1, <1>7, <1>9
  <2>3. Steady(g) => Calm(a, h)
    BY <2>2, <1>10 DEF Calm
  <2> QED BY <2>2, <2>3, <1>1, <1>9, <1>11 DEF IdleInv, h, m
<1>12. CASE s.thread[r].amInterested
  <2>1. /\ u \in PeerType /\ Due(u, r, {m.kind}) /\ Frame(a, u, {})
        /\ u.thread = a.thread /\ u.localBitfield = a.localBitfield /\ u.state = a.state
        /\ u.endGameRequests = a.endGameRequests /\ u.pieceFreq = a.pieceFreq
    BY <1>5, <1>6, FrameScheduled
  <2> HIDE DEF u
  <2>2. Known(u)
    BY <2>1, <1>9, KnownFrame
  <2>3. Moving(u, r) /\ \A q : Moving(a, q) => Moving(u, q)
    <3>1. Moving(u, r)
      BY <2>1, <1>5 DEF Moving, Due
    <3>2. \A q : Moving(a, q) => Moving(u, q)
      BY <2>1, LaterDue DEF Frame
    <3> QED BY <3>1, <3>2
  <2>4. EndGameBusy(u)
    <3>1. /\ Listed(a) => Listed(u)
          /\ \A q \in Remote : (Ready(u, q) => Ready(a, q)) /\ (AsksAll(a, q) => AsksAll(u, q))
      BY <2>1 DEF Listed, Ready, MayAsk, Established, AsksAll, Missing, Entries, Req
    <3> QED BY <3>1, <2>1, <2>3, <1>9 DEF EndGameBusy, OthersAsk
  <2>5. ASSUME Steady(g) PROVE Calm(u, h)
    <3>1. Settled(u, h)
      BY <2>1, <2>5, <1>6, <1>10, SettledFrame DEF PeerType
    <3>2. ASSUME NEW q \in Remote PROVE Busy(u, q)
      <4>1. CASE q = r
        BY <4>1, <2>3 DEF Busy
      <4>2. CASE q # r
        <5>1. Candidates(u, q) = Candidates(a, q)
          BY <2>1, CandidatesSame
        <5> QED BY <5>1, <4>2, <2>1, <2>5, <1>10, BusyFrame
      <4> QED BY <4>1, <4>2
    <3> QED BY <3>1, <3>2 DEF Calm
  <2> QED BY <2>2, <2>4, <2>5, <1>1, <1>12 DEF IdleInv, h, m
<1> QED BY <1>11, <1>12

\* The remote peer closes the connection.
LEMMA CloseIdle ==
  ASSUME NEW s \in PeerType, NEW f \in [Remote -> Seq(Messages(FromKinds))], NEW g,
         IdleInv(s, f, g), NEW r \in Remote, f[r] # <<>>, Head(f[r]).kind = "CLOSE"
  PROVE  IdleInv(DataArrived(s, r, Head(f[r])), Popped(f, r), g)
<1> DEFINE h == Popped(f, r)
           m == Head(f[r])
           t == [s.thread[r] EXCEPT !.conn = "ABORTING"]
           a == [s EXCEPT !.thread = [s.thread EXCEPT ![r] = t]]
<1>1. DataArrived(s, r, m) = a
  <2>1. s.thread \in [Remote -> ThreadType] /\ s.thread[r] \in ThreadType
    BY DEF PeerType
  <2>2. DataArrived(s, r, m) = [s EXCEPT !.thread[r].conn = "ABORTING"]
    BY DEF DataArrived
  <2>3. [s EXCEPT !.thread[r].conn = "ABORTING"] = a
    BY <2>1 DEF PeerType
  <2> QED BY <2>2, <2>3
<1>2. /\ t \in ThreadType /\ t.conn = "ABORTING"
      /\ t.amInterested = s.thread[r].amInterested /\ t.remoteBitfield = s.thread[r].remoteBitfield
      /\ t.conn = "NONE" => s.thread[r].conn = "NONE"
  <2>1. s.thread[r] \in ThreadType
    BY DEF PeerType
  <2> QED BY <2>1 DEF ThreadType
<1>3. SetThread(s, a, r, t)
  BY DEF SetThread
<1>4. Settled(s, f) => Settled(s, h)
  BY PoppedSettled
<1> HIDE DEF a, t, h, m
<1>5. a.thread[r] = t
  BY <1>2, <1>3, ThreadSet
<1>6. /\ (Established(a, r) => Established(s, r)) /\ Known(s) => Known(a)
      /\ EndGameBusy(s) => OthersAsk(a, r)
      /\ Settled(s, h) => Settled(a, h)
      /\ \A q \in Remote \ {r} : Busy(s, q) => Busy(a, q)
      /\ ~Ready(a, r) => Busy(a, r) /\ (OthersAsk(a, r) => EndGameBusy(a))
  BY <1>2, <1>3, OneThread
<1>7. ~Established(a, r) /\ ~Ready(a, r)
  BY <1>2, <1>5 DEF Established, Ready, MayAsk
<1>8. Known(a) /\ EndGameBusy(a)
  BY <1>6, <1>7 DEF IdleInv
<1>9. Steady(g) => Calm(a, h)
  BY <1>4, <1>6, <1>7 DEF IdleInv, Calm
<1> QED BY <1>1, <1>8, <1>9 DEF IdleInv, h, m

\* The connection is closed.
LEMMA ClosedIdle ==
  ASSUME NEW s \in PeerType, NEW f, NEW g, PeerOK(s, f, g), IdleInv(s, f, g),
         NEW r \in Remote, s.thread[r].conn = "ABORTING"
  PROVE  IdleInv(ConnectionClosed(s, r), f, g)
<1> DEFINE a == ClearPendingRequests(s, r)
           m == Msg("REMOVE_THREAD")
           u == Schedule(a, r, m)
<1>1. ConnectionClosed(s, r) = u
  BY DEF ConnectionClosed
<1>2. s.thread[r].peerChoking /\ Books(s)
  BY DEF PeerOK, Threads
<1>3. /\ a \in PeerType
      /\ Known(s) => Known(a)
      /\ EndGameBusy(s) => EndGameBusy(a)
      /\ Settled(s, f) => Settled(a, f)
      /\ (\A q \in Remote : Busy(s, q)) => \A q \in Remote : Busy(a, q)
  BY <1>2, ClearedKeeps
<1> HIDE DEF a
<1>4. m \in Messages(SelfKinds) /\ m.kind = "REMOVE_THREAD"
  BY MsgTypes DEF SelfKinds
<1> HIDE DEF m
<1>5. /\ u \in PeerType /\ Frame(a, u, {})
      /\ u.thread = a.thread /\ u.localBitfield = a.localBitfield /\ u.state = a.state
      /\ u.endGameRequests = a.endGameRequests
  BY <1>3, <1>4, FrameScheduled
<1> HIDE DEF u
<1>6. /\ Known(a) => Known(u)
      /\ EndGameBusy(a) => EndGameBusy(u)
      /\ \A q \in Remote : Busy(a, q) => Busy(u, q)
      /\ Settled(a, f) => Settled(u, f)
  BY <1>3, <1>5, FrameKeeps
<1>7. Steady(g) => Calm(u, f)
  BY <1>3, <1>6 DEF IdleInv, Calm
<1> QED BY <1>1, <1>3, <1>6, <1>7 DEF IdleInv

-----------------------------------------------------------------------------
(* A block comes *)

\* From s to u, the block e is not asked for any more.
Dropped(s, u, e) ==
  /\ Frame(s, u, {})
  /\ \A q \in Remote : \A d \in Entry \ {e} : <<q, d>> \in Entries(s) => <<q, d>> \in Entries(u)

LEMMA DroppedSame ==
  ASSUME NEW s, NEW u, NEW e, Frame(s, u, {}), u.endGameRequests = s.endGameRequests
  PROVE  Dropped(s, u, e)
BY DEF Dropped, Entries

LEMMA DroppedComposed ==
  ASSUME NEW s, NEW u, NEW v, NEW e, Dropped(s, u, e), Dropped(u, v, e)
  PROVE  Dropped(s, v, e)
BY FrameComposed DEF Dropped

LEMMA RequestDroppedFrame ==
  ASSUME NEW s \in PeerType, NEW r \in Remote, NEW e
  PROVE  LET u == RemoveRequest(s, r, e)
         IN  u \in PeerType /\ Frame(s, u, {}) /\ u.endGameRequests = s.endGameRequests
<1> DEFINE u == RemoveRequest(s, r, e)
           t == [s.thread[r] EXCEPT !.requests = RemoveFirst(s.thread[r].requests, e)]
<1>1. u \in PeerType /\ SetThread(s, u, r, t) /\ t \in ThreadType
  BY RequestDropped
<1>2. /\ t.conn = s.thread[r].conn /\ t.peerChoking = s.thread[r].peerChoking
      /\ t.remoteBitfield = s.thread[r].remoteBitfield /\ t.amInterested = s.thread[r].amInterested
      /\ t.allowedToRequest = s.thread[r].allowedToRequest
  <2>1. s.thread[r] \in ThreadType
    BY DEF PeerType
  <2> QED BY <2>1 DEF ThreadType
<1> HIDE DEF u, t
<1>3. Frame(s, u, {})
  BY <1>1, <1>2, FrameThread
<1>4. u.endGameRequests = s.endGameRequests
  BY <1>1, ThreadSet
<1> QED BY <1>1, <1>3, <1>4 DEF u

LEMMA CancelFrame ==
  ASSUME NEW s \in PeerType, NEW r \in Remote, NEW e \in Entry
  PROVE  LET u == CancelRequest(s, r, e)
         IN  u \in PeerType /\ Frame(s, u, {}) /\ u.endGameRequests = s.endGameRequests
<1> DEFINE a == RemoveRequest(s, r, e)
           m == RequestMsg("CANCEL", e)
           u == SendMessage(a, r, m)
<1>1. CancelRequest(s, r, e) = u
  BY DEF CancelRequest
<1>2. a \in PeerType /\ Frame(s, a, {}) /\ a.endGameRequests = s.endGameRequests
  BY RequestDroppedFrame
<1> HIDE DEF a
<1>3. m \in Messages(ToKinds)
  BY MsgTypes DEF ToKinds
<1> HIDE DEF m
<1>4. u \in PeerType /\ Frame(a, u, {}) /\ u.endGameRequests = a.endGameRequests
  BY <1>2, <1>3, FrameSent
<1> HIDE DEF u
<1>5. Frame(s, u, {})
  BY <1>2, <1>4, FrameComposed
<1> QED BY <1>1, <1>2, <1>4, <1>5

\* The states that cancels may lead to from s, with the list of the end game as it was.
Called(s) == {t \in PeerType : Frame(s, t, {}) /\ t.endGameRequests = s.endGameRequests}

LEMMA AllCalled ==
  ASSUME NEW s \in PeerType, NEW e \in Entry, NEW w \in Remote, NEW peers \in Seq(Remote)
  PROVE  FoldLeft(LAMBDA t, r : IF r # w /\ t.thread[r].inEndGame THEN CancelRequest(t, r, e) ELSE t,
                  s, peers) \in Called(s)
<1> DEFINE D == Called(s)
           seq == peers
           n == Len(seq)
           Step(t, x) == IF x # w /\ t.thread[x].inEndGame THEN CancelRequest(t, x, e) ELSE t
           F == [y \in D \X (1 .. n) |-> Step(y[1], seq[y[2]])]
           it == CHOOSE jt : jt = [S \in SUBSET (1 .. n) |->
                                     IF S = {} THEN s ELSE Step(jt[S \ {Max(S)}], seq[Max(S)])]
<1>1. seq \in Seq(Remote)
  OBVIOUS
<1>2. n \in Nat /\ DOMAIN seq = 1 .. n
  BY <1>1
<1>3. FoldLeft(LAMBDA t, r : IF r # w /\ t.thread[r].inEndGame THEN CancelRequest(t, r, e) ELSE t,
               s, peers) = it[1 .. n]
  BY <1>2 DEF FoldLeft, MapThenFoldSet
<1>4. ASSUME NEW t \in D, NEW i \in 1 .. n PROVE Step(t, seq[i]) \in D
  <2>1. seq[i] \in Remote
    BY <1>1, <1>2
  <2> DEFINE q == seq[i]
             v == CancelRequest(t, q, e)
  <2> HIDE DEF q
  <2>2. q \in Remote
    BY <2>1 DEF q
  <2>3. t \in PeerType /\ Frame(s, t, {}) /\ t.endGameRequests = s.endGameRequests
    BY DEF Called
  <2>4. v \in PeerType /\ Frame(t, v, {}) /\ v.endGameRequests = t.endGameRequests
    BY <2>2, <2>3, CancelFrame
  <2> HIDE DEF v
  <2>5. Frame(s, v, {})
    BY <2>3, <2>4, FrameComposed
  <2>6. v \in D
    BY <2>3, <2>4, <2>5 DEF Called
  <2> HIDE DEF D
  <2> QED BY <2>6 DEF q, v
<1>5. F \in [D \X (1 .. n) -> D] /\ \A d \in D : \A i \in 1 .. n : F[<<d, i>>] = Step(d, seq[i])
  <2> HIDE DEF D, Step
  <2> QED BY <1>4
<1>6. ASSUME NEW jt \in [SUBSET (1 .. n) -> D], Folds(jt, SUBSET (1 .. n), F, s)
      PROVE  Unfolds(it, n, D, F, s)
  <2> HIDE DEF D, seq, n, Step
  <2>1. jt = [S \in SUBSET (1 .. n) |-> IF S = {} THEN s ELSE F[<<jt[S \ {Max(S)}], Max(S)>>]]
    BY <1>6 DEF Folds
  <2>2. \A S \in SUBSET (1 .. n) : S # {} => Max(S) \in 1 .. n
    BY <1>2, GreatestOf DEF n
  <2> HIDE DEF F
  <2>3. \A S \in SUBSET (1 .. n) : S # {} =>
           F[<<jt[S \ {Max(S)}], Max(S)>>] = Step(jt[S \ {Max(S)}], seq[Max(S)])
    BY <2>2, <1>5
  <2>4. jt = [S \in SUBSET (1 .. n) |-> IF S = {} THEN s ELSE Step(jt[S \ {Max(S)}], seq[Max(S)])]
    BY <2>1, <2>3
  <2>5. it = [S \in SUBSET (1 .. n) |-> IF S = {} THEN s ELSE Step(it[S \ {Max(S)}], seq[Max(S)])]
    BY <2>4
  <2> HIDE DEF it
  <2>6. it[{}] = s
    BY <2>5
  <2>7. \A S \in SUBSET (1 .. n) : S # {} => it[S] = Step(it[S \ {Max(S)}], seq[Max(S)])
    BY <2>5
  <2> QED BY <2>2, <1>5, <2>6, <2>7 DEF Unfolds
<1> HIDE DEF D, seq, n, Step, F, it
<1>7. s \in D
  BY FrameSame DEF D, Called
<1>8. it[1 .. n] \in D /\ RunsTo(it[1 .. n], n, D, F, s)
  BY <1>2, <1>5, <1>6, <1>7, Folded
<1>9. PICK h : /\ h \in [0 .. n -> D] /\ h[0] = s /\ h[n] = it[1 .. n]
              /\ \A k \in 1 .. n : h[k] = F[<<h[k - 1], k>>]
  BY <1>8 DEF RunsTo, Runs
<1>10. \A k \in 1 .. n : h[k - 1] \in D /\ h[k] \in D /\ h[k] = Step(h[k - 1], seq[k])
  <2> TAKE k \in 1 .. n
  <2>1. k - 1 \in 0 .. n /\ k \in 0 .. n
    BY <1>2
  <2> QED BY <2>1, <1>9, <1>5
<1> QED BY <1>3, <1>8 DEF D

LEMMA OthersRemain ==
  ASSUME NEW S, NEW q \in Seq(S), NEW k \in 1 .. Len(q), NEW x \in ToSet(q), x # q[k]
  PROVE  x \in ToSet(RemoveAt(q, k))
<1> DEFINE a == SubSeq(q, 1, k - 1)
           b == SubSeq(q, k + 1, Len(q))
           n == Len(q)
<1>1. n \in Nat /\ k \in Nat /\ DOMAIN q = 1 .. n
  OBVIOUS
<1>2. PICK i \in 1 .. n : q[i] = x
  BY <1>1 DEF ToSet
<1>3. /\ a \in Seq(S) /\ Len(a) = k - 1 /\ \A j \in 1 .. k - 1 : a[j] = q[j]
      /\ b \in Seq(S) /\ Len(b) = n - k /\ \A j \in 1 .. n - k : b[j] = q[k + j]
  OBVIOUS
<1>4. RemoveAt(q, k) = a \o b
  BY DEF RemoveAt
<1> HIDE DEF a, b
<1>5. /\ DOMAIN (a \o b) = 1 .. n - 1
      /\ \A j \in 1 .. k - 1 : (a \o b)[j] = a[j]
      /\ \A j \in 1 .. n - k : (a \o b)[k - 1 + j] = b[j]
  <2>1. /\ a \o b \in Seq(S) /\ Len(a \o b) = Len(a) + Len(b)
        /\ \A j \in 1 .. Len(a) + Len(b) : (a \o b)[j] = IF j <= Len(a) THEN a[j] ELSE b[j - Len(a)]
    BY <1>3, ConcatProperties
  <2>2. Len(a) + Len(b) = n - 1
    BY <1>1, <1>3
  <2>3. DOMAIN (a \o b) = 1 .. n - 1
    BY <2>1, <2>2
  <2>4. \A j \in 1 .. k - 1 : (a \o b)[j] = a[j]
    BY <2>1, <2>2, <1>1, <1>3
  <2>5. ASSUME NEW j \in 1 .. n - k PROVE (a \o b)[k - 1 + j] = b[j]
    <3>1. k - 1 + j \in 1 .. Len(a) + Len(b) /\ ~(k - 1 + j <= Len(a)) /\ k - 1 + j - Len(a) = j
      BY <2>2, <1>1, <1>3
    <3> QED BY <3>1, <2>1
  <2> QED BY <2>3, <2>4, <2>5
<1>6. CASE i < k
  <2>1. i \in 1 .. k - 1 /\ i \in 1 .. n - 1
    BY <1>1, <1>6
  <2>2. (a \o b)[i] = x /\ i \in DOMAIN (a \o b)
    BY <2>1, <1>2, <1>3, <1>5
  <2> QED BY <2>2, <1>4 DEF ToSet
<1>7. CASE i > k
  <2>1. i - k \in 1 .. n - k /\ k - 1 + (i - k) = i - 1 /\ k + (i - k) = i /\ i - 1 \in 1 .. n - 1
    BY <1>1, <1>7
  <2>2. (a \o b)[i - 1] = x /\ i - 1 \in DOMAIN (a \o b)
    BY <2>1, <1>2, <1>3, <1>5
  <2> QED BY <2>2, <1>4 DEF ToSet
<1>8. i # k
  BY <1>2
<1> QED BY <1>1, <1>6, <1>7, <1>8

LEMMA CancelDrops ==
  ASSUME NEW s \in PeerType, NEW e \in Entry, NEW w \in Remote
  PROVE  LET u == ScheduleEndGameCancel(s, e, w)
         IN  u \in PeerType /\ Dropped(s, u, e)
<1> DEFINE list == s.endGameRequests
           I == {i \in 1 .. Len(list) : list[i][2] = e}
           pos == SelectInSeq(list, LAMBDA entry : entry[2] = e)
           v == FoldLeft(LAMBDA t, r : IF r # w /\ t.thread[r].inEndGame THEN CancelRequest(t, r, e) ELSE t,
                         s, s.peerState)
           cut == RemoveAt(list, pos)
           u == [v EXCEPT !.endGameRequests = cut]
           U == ScheduleEndGameCancel(s, e, w)
<1>2. pos = IF I # {} THEN Min(I) ELSE 0
  BY DEF SelectInSeq
<1>3. list \in Seq(Remote \X Entry) /\ s.peerState \in Seq(Remote)
  BY DEF PeerType
<1>4. Len(list) \in Nat /\ I \in SUBSET Nat
  BY <1>3
<1>5. I # {} => Min(I) \in I
  <2> HIDE DEF I
  <2> SUFFICES ASSUME I # {} PROVE Min(I) \in I
    OBVIOUS
  <2>1. \E x \in I : \A y \in I : x <= y
    BY <1>4, LeastNumber
  <2>2. Min(I) = CHOOSE x \in I : \A y \in I : x =< y
    BY DEF Min
  <2> QED BY <2>1, <2>2
<1>6. pos # 0 => pos \in 1 .. Len(list) /\ list[pos][2] = e
  BY <1>2, <1>5
<1>7. v \in Called(s)
  BY <1>3, AllCalled
<1>8. v \in PeerType /\ Frame(s, v, {}) /\ v.endGameRequests = list
  BY <1>7 DEF Called
<1>1. U = IF pos = 0 THEN s ELSE u
  <2>1. U = IF pos = 0 THEN s ELSE [v EXCEPT !.endGameRequests = RemoveAt(@, pos)]
    BY DEF ScheduleEndGameCancel
  <2>2. [v EXCEPT !.endGameRequests = RemoveAt(@, pos)] = u
    <3> HIDE DEF v, pos, list
    <3> QED BY <1>8
  <2> QED BY <2>1, <2>2
<1>9. U \in PeerType
  BY CancelScheduled
<1> HIDE DEF v, pos, I, U
<1>10. CASE pos = 0
  <2>1. Frame(s, s, {})
    BY FrameSame
  <2>2. Dropped(s, s, e)
    BY <2>1, DroppedSame
  <2> QED BY <2>2, <1>1, <1>9, <1>10 DEF U
<1>11. CASE pos # 0
  <2>1. u.endGameRequests = cut /\ u.thread = v.thread /\ u.agenda = v.agenda
        /\ u.pieceFreq = v.pieceFreq /\ u.peerState = v.peerState
    <3> HIDE DEF cut
    <3> QED BY <1>8 DEF PeerType
  <2>2. ASSUME NEW q \in Remote, NEW d \in Entry \ {e}, <<q, d>> \in ToSet(list) PROVE <<q, d>> \in ToSet(cut)
    <3>1. <<q, d>> # list[pos]
      BY <1>6, <1>11
    <3> HIDE DEF list
    <3> QED BY <3>1, <2>2, <1>3, <1>6, <1>11, OthersRemain
  <2> HIDE DEF u, cut
  <2>3. Frame(v, u, {})
    BY <2>1, FrameQuiet
  <2>4. Frame(s, u, {})
    BY <2>3, <1>8, FrameComposed
  <2>5. Dropped(s, u, e)
    BY <2>1, <2>2, <2>4 DEF Dropped, Entries
  <2> QED BY <2>5, <1>1, <1>9, <1>11 DEF U
<1> QED BY <1>10, <1>11

LEMMA InformedFrame ==
  ASSUME NEW s \in PeerType, NEW p \in Piece
  PROVE  LET u == InformPeers(s, p)
         IN  u \in PeerType /\ Frame(s, u, {}) /\ u.endGameRequests = s.endGameRequests
<1> DEFINE u == InformPeers(s, p)
<1>1. /\ u \in PeerType /\ u.agenda = s.agenda
      /\ \A q \in Remote : /\ u.thread[q].conn = s.thread[q].conn
                           /\ u.thread[q].peerChoking = s.thread[q].peerChoking
                           /\ u.thread[q].remoteBitfield = s.thread[q].remoteBitfield
                           /\ u.thread[q].amInterested = s.thread[q].amInterested
  BY PeersInformed
<1>2. /\ u.pieceFreq = s.pieceFreq /\ u.peerState = s.peerState /\ u.endGameRequests = s.endGameRequests
      /\ u.thread = [r \in Remote |-> IF Established(s, r)
                                      THEN [s.thread[r] EXCEPT !.announced = @ \cup {p}] ELSE s.thread[r]]
  BY DEF InformPeers, PeerType
<1>3. \A q \in Remote : u.thread[q].allowedToRequest = s.thread[q].allowedToRequest
  <2> TAKE q \in Remote
  <2>1. s.thread[q] \in ThreadType
    BY DEF PeerType
  <2>2. [s.thread[q] EXCEPT !.announced = @ \cup {p}].allowedToRequest = s.thread[q].allowedToRequest
    BY <2>1 DEF ThreadType
  <2> HIDE DEF u
  <2> QED BY <2>2, <1>2
<1> HIDE DEF u
<1>4. Frame(s, u, {})
  BY <1>1, <1>2, <1>3, FrameQuiet
<1> QED BY <1>1, <1>2, <1>4 DEF u

LEMMA StoredDrops ==
  ASSUME NEW s \in PeerType, NEW r \in Remote, NEW e \in Entry, NEW expected \in BOOLEAN
  PROVE  Dropped(s, UpdateBitField(s, e, expected, r), e)
<1> DEFINE ended == IF s.state = "ENDGAME" THEN ScheduleEndGameCancel(s, e, r) ELSE s
           lb2 == Update(ended.localBitfield, e[1], e[2], expected)
           p == e[1]
           upd == [ended EXCEPT !.localBitfield = lb2]
           seed == [upd EXCEPT !.state = "SEEDING"]
<1>1. p \in Piece
  BY DEF Entry
<1>2. ended \in PeerType /\ Dropped(s, ended, e)
  <2>1. ScheduleEndGameCancel(s, e, r) \in PeerType /\ Dropped(s, ScheduleEndGameCancel(s, e, r), e)
    BY CancelDrops
  <2>2. Dropped(s, s, e)
    BY FrameSame, DroppedSame
  <2> QED BY <2>1, <2>2
<1> HIDE DEF ended
<1>3. lb2 \in BitFieldType
  <2>1. ended.localBitfield \in BitFieldType
    BY <1>2 DEF PeerType
  <2> QED BY <2>1, UpdateFields
<1>4. UpdateBitField(s, e, expected, r) \in {ended, upd, InformPeers(seed, p), InformPeers(upd, p)}
  <2>1. upd.localBitfield = lb2
    <3> HIDE DEF lb2
    <3> QED BY <1>2 DEF PeerType
  <2>2. upd = [ended EXCEPT !.localBitfield = Update(@, e[1], e[2], expected)]
    OBVIOUS
  <2> HIDE DEF lb2, upd
  <2> QED BY <2>1, <2>2 DEF UpdateBitField, ended
<1> HIDE DEF lb2
<1>5. /\ upd \in PeerType /\ upd.thread = ended.thread /\ upd.agenda = ended.agenda
      /\ upd.pieceFreq = ended.pieceFreq /\ upd.peerState = ended.peerState
      /\ upd.endGameRequests = ended.endGameRequests
  BY <1>2, <1>3 DEF PeerType
<1> HIDE DEF upd
<1>6. /\ seed \in PeerType /\ seed.thread = upd.thread /\ seed.agenda = upd.agenda
      /\ seed.pieceFreq = upd.pieceFreq /\ seed.peerState = upd.peerState
      /\ seed.endGameRequests = upd.endGameRequests
  BY <1>5 DEF PeerType
<1> HIDE DEF seed, p
<1>7. Dropped(s, upd, e)
  <2>1. Frame(ended, upd, {})
    BY <1>5, FrameQuiet
  <2>2. Dropped(ended, upd, e)
    BY <2>1, <1>5, DroppedSame
  <2> QED BY <2>2, <1>2, DroppedComposed
<1>8. Dropped(s, seed, e)
  <2>1. Frame(upd, seed, {})
    BY <1>6, FrameQuiet
  <2>2. Dropped(upd, seed, e)
    BY <2>1, <1>6, DroppedSame
  <2> QED BY <2>2, <1>7, DroppedComposed
<1>9. ASSUME NEW v \in PeerType, Dropped(s, v, e) PROVE Dropped(s, InformPeers(v, p), e)
  <2>1. Frame(v, InformPeers(v, p), {}) /\ InformPeers(v, p).endGameRequests = v.endGameRequests
    BY <1>1, InformedFrame
  <2>2. Dropped(v, InformPeers(v, p), e)
    BY <2>1, DroppedSame
  <2> QED BY <2>2, <1>9, DroppedComposed
<1> QED BY <1>2, <1>4, <1>5, <1>6, <1>7, <1>8, <1>9

LEMMA RequestedIs ==
  ASSUME NEW lb, NEW X \in SUBSET Entry, Marks(lb, X), NEW p \in Piece
  PROVE  IsPieceRequested(lb, p) <=> X \cap BlocksOf(p) # {}
<1> DEFINE Z == X \cap BlocksOf(p)
<1>1. lb.currentlyRequested[p] = Cardinality(Z)
  BY DEF Marks
<1>2. IsFiniteSet(Z)
  BY Sizes, FS_Subset
<1> HIDE DEF Z
<1>3. Cardinality(Z) \in Nat /\ (Cardinality(Z) = 0 <=> Z = {})
  BY <1>2, FS_CardinalityType, FS_EmptySet
<1>4. Cardinality(Z) > 0 <=> Z # {}
  BY <1>3
<1> QED BY <1>1, <1>4 DEF IsPieceRequested, Z

\* The piece of a block that has come is asked for still, complete, or has a free block.
LEMMA StillRequested ==
  ASSUME NEW lb, NEW u, NEW X \in SUBSET Entry, NEW e \in Entry, Marks(lb, X), Marks(u, X \ {e}), Counted(u),
         NEW p \in Piece, IsPieceRequested(lb, p)
  PROVE  \/ IsPieceRequested(u, p)
         \/ p = e[1] /\ (p \in u.bitfield \/ FreeBlocks(u, p) # {})
<1> SUFFICES ASSUME ~IsPieceRequested(u, p) PROVE p = e[1] /\ (p \in u.bitfield \/ FreeBlocks(u, p) # {})
  OBVIOUS
<1>1. X \cap BlocksOf(p) # {} /\ (X \ {e}) \cap BlocksOf(p) = {}
  BY RequestedIs
<1>2. e \in BlocksOf(p)
  BY <1>1
<1>3. p = e[1]
  BY <1>2 DEF BlocksOf
<1>4. u.requested \ u.blockfield = X \ {e}
  BY DEF Marks
<1>5. ASSUME FreeBlocks(u, p) = {} PROVE p \in u.bitfield
  <2>1. BlocksOf(p) \subseteq u.requested \cup u.blockfield
    BY <1>5 DEF FreeBlocks, BlocksOf
  <2>2. BlocksOf(p) \subseteq u.blockfield
    BY <2>1, <1>1, <1>4
  <2> QED BY <2>2 DEF Counted
<1> QED BY <1>3, <1>5

\* A thread that has got a block has room for another request.
LEMMA RoomLeft ==
  ASSUME NEW s \in PeerType, Books(s), NEW r \in Remote, NEW e \in Req(s, r), s.state = "NORMAL",
         NEW u \in PeerType, Served(s, u, e, r)
  PROVE  CanRequestMore(u, r)
<1> DEFINE a == s.thread[r].requests
           b == u.thread[r].requests
<1>1. a \in Seq(Entry) /\ b \in Seq(Entry)
  BY DEF PeerType, ThreadType
<1>2. Distinct(a) /\ Len(a) <= RequestQueueDepth /\ Distinct(b) /\ ToSet(b) \subseteq ToSet(a) \ {e} /\ e \in ToSet(a)
  BY DEF Books, Orders, Served, Req
<1> HIDE DEF a, b
<1>3. Cardinality(ToSet(a)) = Len(a) /\ Cardinality(ToSet(b)) = Len(b) /\ Len(a) \in Nat /\ Len(b) \in Nat
  BY <1>1, <1>2, CountDistinct
<1>4. ToSet(a) \subseteq Entry
  BY <1>1 DEF ToSet
<1>5. IsFiniteSet(ToSet(a)) /\ IsFiniteSet(ToSet(a) \ {e})
  BY <1>4, Sizes, FS_Subset
<1>6. Cardinality(ToSet(a) \ {e}) = Len(a) - 1
  BY <1>2, <1>3, <1>5, FS_RemoveElement
<1>7. Len(b) <= Len(a) - 1
  BY <1>2, <1>3, <1>5, <1>6, FS_Subset
<1>8. Len(b) < RequestQueueDepth
  BY <1>2, <1>3, <1>7, RequestQueueDepthAssumption
<1> QED BY <1>8 DEF CanRequestMore, b

\* From s to x, thread r has got the block e, and goes on.
Moved(s, x, e, r) ==
  /\ Frame(s, x, {})
  /\ x.state = "NORMAL" =>
       /\ s.state = "NORMAL"
       /\ CanRequestMore(x, r) => Moving(x, r)
       /\ \A q \in Remote \ {r} : /\ x.thread[q].requests = s.thread[q].requests
                                  /\ Candidates(x, q) \subseteq Candidates(s, q)
  /\ x.state = "ENDGAME" =>
       \/ AllFilled(x)
       \/ s.state = "ENDGAME" /\ Dropped(s, x, e) /\ x.localBitfield.blockfield = s.localBitfield.blockfield \cup {e}
                              /\ \A q \in Remote : Req(s, q) \ {e} \subseteq Req(x, q)

LEMMA MovedIdle ==
  ASSUME NEW s \in PeerType, NEW x \in PeerType, NEW e \in Entry, NEW r \in Remote, Moved(s, x, e, r),
         NEW f, NEW g, IdleInv(s, f, g)
  PROVE  IdleInv(x, f, g)
<1>1. Frame(s, x, {})
  BY DEF Moved
<1>2. Known(x)
  BY <1>1, KnownFrame DEF IdleInv
<1>3. EndGameBusy(x)
  <2>1. CASE x.state # "ENDGAME"
    BY <2>1 DEF EndGameBusy
  <2>2. CASE AllFilled(x)
    BY <2>2 DEF EndGameBusy, AllFilled, Ready
  <2>3. CASE x.state = "ENDGAME" /\ ~AllFilled(x)
    <3>1. /\ s.state = "ENDGAME" /\ Dropped(s, x, e)
          /\ x.localBitfield.blockfield = s.localBitfield.blockfield \cup {e}
          /\ \A q \in Remote : Req(s, q) \ {e} \subseteq Req(x, q)
      BY <2>3 DEF Moved
    <3>2. Missing(x) = Missing(s) \ {e} /\ Missing(x) \subseteq Entry \ {e}
      BY <3>1 DEF Missing
    <3>3. ASSUME NEW q \in Remote, NEW d \in Missing(x)
          PROVE  (<<q, d>> \in Entries(s) => <<q, d>> \in Entries(x)) /\ (d \in Req(s, q) => d \in Req(x, q))
      BY <3>1, <3>2 DEF Dropped
    <3>4. EndGameBusy(s)
      BY DEF IdleInv
    <3> QED BY <3>1, <3>2, <3>3, <3>4, <1>1, EndGameFrame
  <2> QED BY <2>1, <2>2, <2>3
<1>4. ASSUME Steady(g) PROVE Calm(x, f)
  <2>1. Settled(s, f) /\ \A q \in Remote : Busy(s, q)
    BY <1>4 DEF IdleInv, Calm
  <2>2. Settled(x, f)
    BY <2>1, <1>1, SettledFrame DEF PeerType
  <2>3. Busy(x, r)
    BY DEF Moved, Busy
  <2>4. ASSUME NEW q \in Remote \ {r} PROVE Busy(x, q)
    <3>1. Busy(s, q)
      BY <2>1
    <3>2. x.state = "NORMAL" => /\ s.state = "NORMAL" /\ x.thread[q].requests = s.thread[q].requests
                                /\ Candidates(x, q) \subseteq Candidates(s, q)
      BY DEF Moved
    <3> QED BY <3>1, <3>2, <1>1, BusyFrame
  <2> QED BY <2>2, <2>3, <2>4 DEF Calm
<1> QED BY <1>2, <1>3, <1>4 DEF IdleInv

LEMMA BlockMoves ==
  ASSUME NEW s \in PeerType, NEW f, NEW g, PeerOK(s, f, g), NEW r \in Remote, NEW e \in Entry, Known(s),
         ~s.thread[r].peerChoking,
         s.state = "NORMAL" => /\ e \in Req(s, r) /\ e \notin BlocksAsked(s, r)
                               /\ e \notin BlocksIn(s.toRemote[r], "REQUEST")
                               /\ e \notin BlocksIn(f[r], "PIECE"),
         s.state = "ENDGAME" => e \in Req(s, r) \cup s.localBitfield.blockfield
  PROVE  Moved(s, PieceArrived(s, r, e), e, r)
<1> DEFINE expected == FindRequest(s, r, e)
           t == UpdateBitField(s, e, expected, r)
           u == RemoveRequest(t, r, e)
           v == SendBlockRequests(u, r, e[1])
           w == Schedule(u, r, Msg("NEXT_REQUEST"))
<1>1. PieceArrived(s, r, e) =
        IF ~expected THEN t
        ELSE IF ~CanRequestMore(u, r) \/ u.state = "ENDGAME" THEN u
        ELSE IF NextBlock(u.localBitfield, e[1]) >= 0 THEN v ELSE w
  BY DEF PieceArrived
<1>2. expected \in BOOLEAN /\ (expected <=> e \in Req(s, r))
  <2>1. s.thread[r].requests \in Seq(Entry)
    BY DEF PeerType, ThreadType
  <2>2. expected <=> e \in Req(s, r)
    BY <2>1, FoundIs
  <2>3. expected \in BOOLEAN
    BY DEF FindRequest, Contains
  <2> QED BY <2>2, <2>3
<1> HIDE DEF expected
<1>3. Books(s) /\ Threads(s) /\ e[1] \in Piece
  BY DEF PeerOK, Entry
<1>4. t \in PeerType /\ Stored(s, t, e, r) /\ Dropped(s, t, e)
  BY <1>2, <1>3, BlockStored, StoredDrops
<1> HIDE DEF t
<1>5. u \in PeerType /\ Served(s, u, e, r) /\ (s.state # "NORMAL" => Served(s, t, e, r))
  BY <1>3, <1>4, StoredServed
<1>6. Dropped(s, u, e)
  <2>1. Frame(t, u, {}) /\ u.endGameRequests = t.endGameRequests
    BY <1>4, RequestDroppedFrame
  <2>2. Dropped(t, u, e)
    BY <2>1, DroppedSame
  <2> QED BY <2>2, <1>4, DroppedComposed
<1> HIDE DEF u
<1>7. s.state \in {"NORMAL", "ENDGAME", "SEEDING"} /\ u.state \in {s.state, "SEEDING"} /\ t.state \in {s.state, "SEEDING"}
  BY <1>4, <1>5 DEF PeerType, Served, Stored
<1>8. ASSUME NEW x, Dropped(s, x, e), x.state # "NORMAL", x.state = "ENDGAME" => s.state = "ENDGAME",
             x.state = "ENDGAME" => Served(s, x, e, r)
      PROVE  Moved(s, x, e, r)
  BY <1>8 DEF Moved, Dropped, Served
<1>9. CASE ~expected
  <2>1. s.state # "NORMAL" /\ PieceArrived(s, r, e) = t
    BY <1>1, <1>2, <1>9
  <2>2. Moved(s, t, e, r)
    BY <2>1, <1>4, <1>5, <1>7, <1>8
  <2> QED BY <2>1, <2>2
<1>10. CASE expected /\ u.state = "ENDGAME"
  <2>1. PieceArrived(s, r, e) = u
    BY <1>1, <1>10
  <2>2. Moved(s, u, e, r)
    BY <1>5, <1>6, <1>7, <1>8, <1>10
  <2> QED BY <2>1, <2>2
<1>11. CASE expected /\ u.state = "SEEDING"
  <2>1. NextBlock(u.localBitfield, e[1]) >= 0 => FALSE
    <3>1. FreeBlocks(u.localBitfield, e[1]) = {}
      BY <1>3, <1>5, <1>11 DEF FreeBlocks, Entry, Served
    <3> QED BY <3>1 DEF NextBlock
  <2>2. PieceArrived(s, r, e) \in {u, w}
    BY <2>1, <1>1, <1>11
  <2>3. Moved(s, u, e, r)
    BY <1>5, <1>6, <1>8, <1>11
  <2>4. Moved(s, w, e, r)
    <3> DEFINE m == Msg("NEXT_REQUEST")
    <3>1. m \in Messages(SelfKinds) /\ m.kind = "NEXT_REQUEST"
      BY MsgTypes DEF SelfKinds
    <3>2. Schedule(u, r, m).endGameRequests = u.endGameRequests /\ Frame(u, Schedule(u, r, m), {})
          /\ Schedule(u, r, m).state = u.state
      <4> HIDE DEF m
      <4> QED BY <3>1, <1>5, FrameScheduled
    <3> HIDE DEF w, m
    <3>3. w.endGameRequests = u.endGameRequests /\ Frame(u, w, {}) /\ w.state = "SEEDING"
      BY <3>2, <1>11 DEF w, m
    <3>4. Dropped(s, w, e)
      BY <3>3, <1>6, DroppedSame, DroppedComposed
    <3> QED BY <3>3, <3>4, <1>8
  <2> QED BY <2>2, <2>3, <2>4
<1>12. CASE expected /\ u.state = "NORMAL"
  <2>1. s.state = "NORMAL" /\ e \in Req(s, r) /\ CanRequestMore(u, r)
    BY <1>2, <1>3, <1>5, <1>7, <1>12, RoomLeft
  <2> DEFINE X == PendingOf(s)
  <2>2. Marks(s.localBitfield, X) /\ Marks(u.localBitfield, X \ {e}) /\ Counted(u.localBitfield) /\ X \in SUBSET Entry
    <3>1. Marks(s.localBitfield, X) /\ Marks(u.localBitfield, X \ {e}) /\ Counted(u.localBitfield)
      BY <2>1, <1>3, <1>5, <1>12 DEF Books, Served
    <3>2. X = s.localBitfield.requested \ s.localBitfield.blockfield
      BY <3>1 DEF Marks
    <3>3. s.localBitfield.requested \in SUBSET Entry
      BY DEF PeerType, BitFieldType
    <3> HIDE DEF X
    <3> QED BY <3>1, <3>2, <3>3
  <2> HIDE DEF X
  <2>3. \A p \in Piece : IsPieceRequested(s.localBitfield, p) =>
           \/ IsPieceRequested(u.localBitfield, p)
           \/ p = e[1] /\ (p \in u.localBitfield.bitfield \/ FreeBlocks(u.localBitfield, p) # {})
    BY <2>2, StillRequested
  <2>4. /\ PeerOK(u, f, g) /\ Owner(u, r, e[1]) /\ Frame(s, u, {}) /\ Known(u)
        /\ s.localBitfield.bitfield \subseteq u.localBitfield.bitfield
        /\ ~u.thread[r].peerChoking
        /\ \A q \in Remote \ {r} : u.thread[q].requests = s.thread[q].requests
    <3>1. PeerOK(u, f, g) /\ Owner(u, r, e[1])
      BY <1>5, <1>12, ServedOK
    <3>2. Frame(s, u, {})
      BY <1>6 DEF Dropped
    <3>3. Known(u)
      BY <3>2, KnownFrame
    <3> QED BY <3>1, <3>2, <3>3, <2>1, <1>5 DEF Served
  <2>5. CASE FreeBlocks(u.localBitfield, e[1]) # {}
    <3>1. PieceArrived(s, r, e) = v
      <4>1. NextBlock(u.localBitfield, e[1]) >= 0
        <5>1. NextBlock(u.localBitfield, e[1]) \in FreeBlocks(u.localBitfield, e[1])
          BY <2>5, NextBlockIs
        <5>2. FreeBlocks(u.localBitfield, e[1]) \subseteq Nat
          BY Sizes DEF FreeBlocks
        <5> QED BY <5>1, <5>2
      <4> QED BY <4>1, <2>1, <1>1, <1>12
    <3> DEFINE p == e[1]
    <3>2. LET x == SendBlockRequests(u, r, p)
          IN  /\ Frame(u, x, {}) /\ More(u, x, r)
              /\ x.state \in {"NORMAL", "ENDGAME"}
              /\ x.state = "ENDGAME" => AllFilled(x)
              /\ x.state = "NORMAL" /\ CanRequestMore(x, r) => Moving(x, r)
              /\ x.state = "NORMAL" /\ CanRequestMore(u, r) /\ FreeBlocks(u.localBitfield, p) # {}
                    => IsPieceRequested(x.localBitfield, p)
      <4>1. p \in Piece /\ Owner(u, r, p)
        BY <2>4, <1>3
      <4> HIDE DEF p
      <4> QED BY <4>1, <2>4, <1>5, <1>12, PieceAskedFor
    <3>3. v \in PeerType
      <4>1. SendBlockRequests(u, r, p) \in Requests(u, f, g, r, p)
        <5>1. p \in Piece /\ Owner(u, r, p) /\ u.state # "SEEDING"
          BY <2>4, <1>3, <1>12
        <5> HIDE DEF p
        <5> QED BY <5>1, <2>4, <1>5, BlocksRequested
      <4> QED BY <4>1 DEF Requests
    <3> HIDE DEF v
    <3>4. /\ Frame(u, v, {}) /\ More(u, v, r)
          /\ v.state = "ENDGAME" => AllFilled(v)
          /\ v.state = "NORMAL" /\ CanRequestMore(v, r) => Moving(v, r)
          /\ v.state = "NORMAL" => IsPieceRequested(v.localBitfield, e[1])
      BY <3>2, <2>1, <2>5 DEF v
    <3>5. Frame(s, v, {})
      BY <3>4, <2>4, FrameComposed
    <3>6. ASSUME v.state = "NORMAL"
          PROVE  \A q \in Remote \ {r} : /\ v.thread[q].requests = s.thread[q].requests
                                         /\ Candidates(v, q) \subseteq Candidates(s, q)
      <4>1. /\ u.localBitfield.bitfield \subseteq v.localBitfield.bitfield
            /\ \A q \in Remote \ {r} : v.thread[q].requests = u.thread[q].requests
            /\ \A k \in Piece : IsPieceRequested(u.localBitfield, k) => IsPieceRequested(v.localBitfield, k)
        BY <3>4, <3>6 DEF More
      <4>2. \A k \in Piece : IsPieceRequested(s.localBitfield, k) =>
                               IsPieceRequested(v.localBitfield, k) \/ k \in v.localBitfield.bitfield
        BY <4>1, <2>3, <3>4, <3>6
      <4>3. s.localBitfield.bitfield \subseteq v.localBitfield.bitfield
        BY <4>1, <2>4
      <4>4. \A q \in Remote : Candidates(v, q) \subseteq Candidates(s, q)
        BY <4>2, <4>3, <3>3, <3>5, CandidatesFrame
      <4> QED BY <4>1, <4>4, <2>4
    <3>7. Moved(s, v, e, r)
      BY <3>4, <3>5, <3>6, <2>1 DEF Moved
    <3> QED BY <3>1, <3>7
  <2>6. CASE FreeBlocks(u.localBitfield, e[1]) = {}
    <3>1. PieceArrived(s, r, e) = w
      <4>1. NextBlock(u.localBitfield, e[1]) = -1
        BY <2>6 DEF NextBlock
      <4>2. ~(NextBlock(u.localBitfield, e[1]) >= 0)
        BY <4>1
      <4> QED BY <4>2, <2>1, <1>1, <1>12
    <3> DEFINE m == Msg("NEXT_REQUEST")
    <3>2. m \in Messages(SelfKinds) /\ m.kind = "NEXT_REQUEST"
      BY MsgTypes DEF SelfKinds
    <3>3. LET x == Schedule(u, r, m)
          IN  /\ x \in PeerType /\ Due(x, r, {m.kind}) /\ Frame(u, x, {})
              /\ x.thread = u.thread /\ x.localBitfield = u.localBitfield /\ x.state = u.state
      <4> HIDE DEF m
      <4> QED BY <3>2, <1>5, FrameScheduled
    <3> HIDE DEF w
    <3>4. /\ w \in PeerType /\ Frame(u, w, {}) /\ Due(w, r, {"NEXT_REQUEST"})
          /\ w.thread = u.thread /\ w.localBitfield = u.localBitfield /\ w.state = u.state
      BY <3>2, <3>3 DEF w
    <3> HIDE DEF m
    <3>5. Frame(s, w, {})
      BY <3>4, <2>4, FrameComposed
    <3>6. \A q \in Remote : Candidates(w, q) \subseteq Candidates(s, q)
      <4>1. \A p \in Piece : IsPieceRequested(s.localBitfield, p) =>
                               IsPieceRequested(w.localBitfield, p) \/ p \in w.localBitfield.bitfield
        BY <2>3, <2>6, <3>4
      <4>2. s.localBitfield.bitfield \subseteq w.localBitfield.bitfield
        BY <2>4, <3>4
      <4> QED BY <4>1, <4>2, <3>4, <3>5, CandidatesFrame
    <3>7. Moving(w, r)
      BY <3>4 DEF Moving, Due
    <3>8. Moved(s, w, e, r)
      BY <3>4, <3>5, <3>6, <3>7, <2>1, <2>4, <1>12 DEF Moved
    <3> QED BY <3>1, <3>8
  <2> QED BY <2>5, <2>6
<1> QED BY <1>7, <1>9, <1>10, <1>11, <1>12

LEMMA BlockIdle ==
  ASSUME NEW s \in PeerType, NEW f \in [Remote -> Seq(Messages(FromKinds))], NEW g, PeerOK(s, f, g),
         IdleInv(s, f, g), NEW r \in Remote, f[r] # <<>>, Head(f[r]).kind = "PIECE"
  PROVE  IdleInv(DataArrived(s, r, Head(f[r])), Popped(f, r), g)
<1> DEFINE h == Popped(f, r)
           m == Head(f[r])
           e == BlockOf(m)
           u == PieceArrived(s, r, e)
<1>1. /\ h \in [Remote -> Seq(Messages(FromKinds))] /\ h[r] = Tail(f[r])
      /\ \A q \in Remote \ {r} : h[q] = f[q]
      /\ m \in Messages(FromKinds)
  BY PoppedIs
<1>2. m.kind = "PIECE"
  OBVIOUS
<1>3. IdleInv(s, h, g)
  <2>1. Settled(s, f) => Settled(s, h)
    BY PoppedSettled
  <2> QED BY <2>1 DEF IdleInv, Calm
<1> HIDE DEF m
<1>4. DataArrived(s, r, m) = u
  BY <1>2 DEF DataArrived, BlockOf
<1>5. e \in Entry
  BY <1>1 DEF Messages, BlockOf, Entry
<1>6. Wire(s, f[r], g[r], r) /\ f[r] \in Seq(Messages(FromKinds))
  BY DEF PeerOK
<1>7. PeerOK(s, h, g)
  <2>1. Wire(s, Tail(f[r]), g[r], r)
    BY <1>6, <1>2, WirePopped DEF m
  <2>2. \A q \in Remote : Wire(s, h[q], g[q], q)
    BY <2>1, <1>1 DEF PeerOK
  <2> QED BY <2>2 DEF PeerOK
<1>8. /\ At(f[r], "PIECE") # {}
      /\ e \in BlocksIn(f[r], "PIECE")
      /\ OnceIn(f[r], "PIECE") => e \notin BlocksIn(h[r], "PIECE")
  <2>1. /\ Head(f[r]).kind = "PIECE" => BlockOf(Head(f[r])) \in BlocksIn(f[r], "PIECE")
        /\ At(f[r], "PIECE") # {} <=> At(Tail(f[r]), "PIECE") # {} \/ Head(f[r]).kind = "PIECE"
        /\ OnceIn(f[r], "PIECE") =>
              /\ OnceIn(Tail(f[r]), "PIECE")
              /\ Head(f[r]).kind = "PIECE" => BlockOf(Head(f[r])) \notin BlocksIn(Tail(f[r]), "PIECE")
    BY <1>6, WireTail
  <2> QED BY <2>1, <1>1, <1>2 DEF m
<1> HIDE DEF h, e
<1>9. ~s.thread[r].peerChoking
  BY <1>6, <1>8 DEF Wire, Phase
<1>10. Underway(s, f[r], r)
  BY <1>6 DEF Wire
<1>11. s.state = "NORMAL" => /\ e \in Req(s, r) /\ e \notin BlocksAsked(s, r)
                             /\ e \notin BlocksIn(s.toRemote[r], "REQUEST")
                             /\ e \notin BlocksIn(h[r], "PIECE")
  BY <1>8, <1>9, <1>10 DEF Underway
<1>12. s.state = "ENDGAME" => e \in Req(s, r) \cup s.localBitfield.blockfield
  BY <1>8, <1>9, <1>10 DEF Underway
<1>13. Known(s)
  BY DEF IdleInv
<1>14. Moved(s, u, e, r)
  BY <1>5, <1>7, <1>9, <1>11, <1>12, <1>13, BlockMoves
<1>15. u \in PeerType
  <2>1. PeerOK(u, h, g)
    BY <1>5, <1>7, <1>9, <1>11, <1>12, BlockArrived
  <2> QED BY <2>1 DEF PeerOK
<1> HIDE DEF u
<1>16. IdleInv(u, h, g)
  BY <1>3, <1>5, <1>14, <1>15, MovedIdle
<1> QED BY <1>4, <1>16 DEF h, m

-----------------------------------------------------------------------------
(* No thread idles at any step *)

\* On two wires, the news is the same.
SameNews(v, w) == At(v, "HAVE") = At(w, "HAVE") /\ At(v, "BITFIELD") = At(w, "BITFIELD")

LEMMA AppendedNews ==
  ASSUME NEW S, NEW q \in Seq(S), NEW m, m.kind \notin {"BITFIELD", "HAVE"}
  PROVE  SameNews(q, Append(q, m))
<1>1. /\ Append(q, m)[Len(q) + 1] = m
      /\ \A i \in DOMAIN q : i \in DOMAIN Append(q, m) /\ i # Len(q) + 1 /\ Append(q, m)[i] = q[i]
      /\ \A i \in DOMAIN Append(q, m) : i \in DOMAIN q \/ i = Len(q) + 1
  BY AppendedAt
<1> QED BY <1>1 DEF SameNews, At

LEMMA WiresIdle ==
  ASSUME NEW s, NEW f, NEW g, IdleInv(s, f, g), NEW h, \A q \in Remote : SameNews(f[q], h[q]),
         NEW k, \A q \in Remote : k[q].gaining = g[q].gaining
  PROVE  IdleInv(s, h, k)
<1>1. Steady(k) <=> Steady(g)
  BY DEF Steady
<1>2. Settled(s, f) => Settled(s, h)
  BY DEF Settled, SameNews
<1> QED BY <1>1, <1>2 DEF IdleInv, Calm

LEMMA SaidIdle ==
  ASSUME NEW s, NEW f \in [Remote -> Seq(Messages(FromKinds))], NEW g \in [Remote -> RemoteType], IdleInv(s, f, g),
         NEW r \in Remote, NEW m \in Messages(FromKinds), m.kind \notin {"BITFIELD", "HAVE"},
         NEW n \in RemoteType, n.gaining = g[r].gaining
  PROVE  IdleInv(s, Said(f, r, m), [g EXCEPT ![r] = n])
<1> DEFINE h == Said(f, r, m)
           k == [g EXCEPT ![r] = n]
<1>1. /\ h[r] = Append(f[r], m)
      /\ \A q \in Remote \ {r} : h[q] = f[q]
      /\ f[r] \in Seq(Messages(FromKinds))
  BY SaidIs
<1>2. k[r] = n /\ \A q \in Remote \ {r} : k[q] = g[q]
  BY RemoteSet
<1> HIDE DEF h, k
<1>3. \A q \in Remote : SameNews(f[q], h[q])
  <2>1. SameNews(f[r], h[r])
    BY <1>1, AppendedNews
  <2>2. \A q \in Remote \ {r} : SameNews(f[q], h[q])
    BY <1>1 DEF SameNews
  <2> QED BY <2>1, <2>2
<1>4. \A q \in Remote : k[q].gaining = g[q].gaining
  BY <1>2
<1>5. IdleInv(s, h, k)
  BY <1>3, <1>4, WiresIdle
<1> QED BY <1>5 DEF h, k

\* A connection is made.
LEMMA ConnectionIdle ==
  ASSUME NEW s \in PeerType, NEW f \in [Remote -> Seq(Messages(FromKinds))], NEW g, PeerOK(s, f, g),
         IdleInv(s, f, g), NEW r \in Remote, s.agenda = <<>>, s.thread[r].conn = "NONE",
         NEW m \in Messages(FromKinds), m.kind = "BITFIELD", NEW h \in {f, Said(f, r, m)}
  PROVE  IdleInv(HandshakeComplete(s, r), h, g)
<1> DEFINE t == [s.thread[r] EXCEPT !.conn = "OPEN", !.announced = s.localBitfield.bitfield]
           a == [s EXCEPT !.thread = [s.thread EXCEPT ![r] = t]]
           u == [a EXCEPT !.peerState = Append(s.peerState, r)]
<1>1. HandshakeComplete(s, r) = u
  <2>1. s.thread \in [Remote -> ThreadType] /\ s.thread[r] \in ThreadType
    BY DEF PeerType
  <2> QED BY <2>1 DEF HandshakeComplete, PeerType
<1>2. s.thread[r].peerChoking /\ f[r] = <<>>
  <2>1. Wire(s, f[r], g[r], r)
    BY DEF PeerOK
  <2> QED BY <2>1 DEF PeerOK, Threads, Wire, Phase
<1>3. /\ t \in ThreadType /\ t.conn = "OPEN" /\ t.peerChoking /\ t.remoteBitfield = s.thread[r].remoteBitfield
      /\ t.amInterested = s.thread[r].amInterested
  <2>1. s.thread[r] \in ThreadType /\ s.localBitfield.bitfield \in SUBSET Piece
    BY DEF PeerType, BitFieldType
  <2> QED BY <2>1, <1>2 DEF ThreadType
<1>4. SetThread(s, a, r, t)
  BY DEF SetThread
<1> HIDE DEF a, t
<1>5. /\ a \in PeerType /\ a.thread[r] = t /\ \A q \in Remote \ {r} : a.thread[q] = s.thread[q]
      /\ a.agenda = <<>> /\ a.peerState = s.peerState
  BY <1>3, <1>4, ThreadSet
<1>6. /\ a.pieceFreq = s.pieceFreq
      /\ EndGameBusy(s) => OthersAsk(a, r)
      /\ Settled(s, f) => Settled(a, f)
      /\ \A q \in Remote \ {r} : Busy(s, q) => Busy(a, q)
      /\ ~Ready(a, r) => Busy(a, r) /\ (OthersAsk(a, r) => EndGameBusy(a))
  BY <1>3, <1>4, OneThread
<1>7. ~Ready(a, r)
  BY <1>3, <1>5 DEF Ready, MayAsk
<1>8. /\ u.thread = a.thread /\ u.agenda = a.agenda /\ u.pieceFreq = a.pieceFreq
      /\ u.localBitfield = a.localBitfield /\ u.state = a.state /\ u.endGameRequests = a.endGameRequests
      /\ u.peerState = Append(s.peerState, r)
  BY <1>5 DEF PeerType
<1> HIDE DEF u
<1>9. /\ EndGameBusy(a) => EndGameBusy(u)
      /\ \A q \in Remote : Busy(a, q) => Busy(u, q)
      /\ Settled(a, f) => Settled(u, f)
  <2>1. \A q \in Remote : Established(u, q) <=> Established(a, q)
    BY <1>8 DEF Established
  <2>2. a.agenda \in Seq(SelfMsgs)
    BY <1>5 DEF PeerType
  <2> QED BY <2>1, <2>2, <1>8, QuietKeeps
<1>10. Known(u)
  <2>1. s.peerState \in Seq(Remote)
    BY DEF PeerType
  <2>2. ToSet(u.peerState) = ToSet(s.peerState) \cup {r}
    BY <2>1, <1>8, AppendSet
  <2>3. \A q \in Remote \ {r} : Established(u, q) => Established(s, q)
    BY <1>5, <1>8 DEF Established
  <2> QED BY <2>2, <2>3 DEF IdleInv, Known
<1>11. EndGameBusy(u)
  BY <1>6, <1>7, <1>9 DEF IdleInv
<1>12. ASSUME Steady(g) PROVE Calm(u, h)
  <2>1. Settled(s, f) /\ \A q \in Remote : Busy(s, q)
    BY <1>12 DEF IdleInv, Calm
  <2>2. Settled(u, f) /\ \A q \in Remote : Busy(u, q)
    BY <2>1, <1>6, <1>7, <1>9
  <2>3. CASE h = f
    BY <2>2, <2>3 DEF Calm
  <2>4. CASE h = Said(f, r, m)
    <3>1. /\ h[r] = Append(f[r], m) /\ \A q \in Remote \ {r} : h[q] = f[q]
      BY <2>4, SaidIs
    <3>2. At(h[r], "HAVE") = {} /\ At(h[r], "BITFIELD") \subseteq {1}
      <4>1. h[r] = <<m>>
        BY <3>1, <1>2
      <4> QED BY <4>1 DEF At
    <3>3. ~u.thread[r].amInterested /\ ~Counting(u, r)
      <4>1. ~s.thread[r].amInterested
        BY <2>1 DEF Settled
      <4>2. u.agenda = <<>>
        BY <1>5, <1>8
      <4> QED BY <4>1, <4>2, <1>3, <1>5, <1>8, NothingDue
    <3>4. ASSUME NEW q \in Remote
          PROVE  /\ At(h[q], "HAVE") = {} /\ At(h[q], "BITFIELD") \subseteq {1}
                 /\ u.thread[q].amInterested => /\ u.thread[q].conn # "NONE" /\ ~Counting(u, q)
                                                /\ At(h[q], "BITFIELD") = {}
                 /\ Counting(u, q) => At(h[q], "BITFIELD") = {} /\ u.thread[q].conn # "NONE"
                 /\ ~Counting(u, q) => \A p \in u.thread[q].remoteBitfield : u.pieceFreq[p] # 0
      <4>1. CASE q = r
        BY <4>1, <3>2, <3>3, <2>2 DEF Settled
      <4>2. CASE q # r
        BY <4>2, <3>1, <2>2 DEF Settled
      <4> QED BY <4>1, <4>2
    <3>5. Settled(u, h)
      BY <3>4, <2>2 DEF Settled
    <3> QED BY <3>5, <2>2 DEF Calm
  <2> QED BY <2>3, <2>4
<1> QED BY <1>1, <1>10, <1>11, <1>12 DEF IdleInv

\* The invariant of the books, and no thread idles.
Busily(s, f, g) == Inv(s, f, g) /\ IdleInv(s, f, g)

LEMMA SelfMessageBusy == ASSUME Busily(peer, fromRemote, remote), SelfMessage
                         PROVE  IdleInv(peer', fromRemote', remote')
<1>1. peer \in PeerType /\ Fine(peer, fromRemote, remote) /\ IdleInv(peer, fromRemote, remote)
  BY DEF Busily, Inv, Fine
<1>2. /\ peer.agenda # <<>>
      /\ peer' \in HandleSelf(Resumed(peer), Head(peer.agenda).remote, Head(peer.agenda).msg)
      /\ UNCHANGED <<fromRemote, remote>>
  BY DEF SelfMessage, Idle, Resumed
<1>3. IdleInv(peer', fromRemote, remote)
  BY <1>1, <1>2, SelfMessageIdle
<1> QED BY <1>2, <1>3

LEMMA ReceiveBusy == ASSUME Busily(peer, fromRemote, remote), NEW r \in Remote, Receive(r)
                     PROVE  IdleInv(peer', fromRemote', remote')
<1>1. /\ peer \in PeerType /\ PeerOK(peer, fromRemote, remote) /\ IdleInv(peer, fromRemote, remote)
      /\ fromRemote \in [Remote -> Seq(Messages(FromKinds))]
  BY DEF Busily, Inv, Fine
<1>2. /\ peer.agenda = <<>> /\ fromRemote[r] # <<>>
      /\ fromRemote' = Popped(fromRemote, r) /\ remote' = remote
      /\ peer' = DataArrived(peer, r, Head(fromRemote[r]))
  BY DEF Receive, Idle, Popped
<1>3. Head(fromRemote[r]).kind \in FromKinds
  BY <1>1, <1>2, PoppedIs DEF Messages
<1> DEFINE u == DataArrived(peer, r, Head(fromRemote[r]))
<1>4. IdleInv(u, Popped(fromRemote, r), remote)
  <2>1. CASE Head(fromRemote[r]).kind \in {"BITFIELD", "HAVE"}
    BY <2>1, <1>1, <1>2, NewsIdle
  <2>2. CASE Head(fromRemote[r]).kind = "CHOKE"
    BY <2>2, <1>1, <1>2, ChokeIdle
  <2>3. CASE Head(fromRemote[r]).kind = "UNCHOKE"
    BY <2>3, <1>1, <1>2, UnchokeIdle
  <2>4. CASE Head(fromRemote[r]).kind = "PIECE"
    BY <2>4, <1>1, <1>2, BlockIdle
  <2>5. CASE Head(fromRemote[r]).kind = "CLOSE"
    BY <2>5, <1>1, <1>2, CloseIdle
  <2> HIDE DEF u
  <2> QED BY <2>1, <2>2, <2>3, <2>4, <2>5, <1>3 DEF FromKinds
<1> HIDE DEF u
<1> QED BY <1>2, <1>4 DEF u

LEMMA ClosedBusy == ASSUME Busily(peer, fromRemote, remote), NEW r \in Remote, Closed(r)
                    PROVE  IdleInv(peer', fromRemote', remote')
<1>1. /\ peer \in PeerType /\ PeerOK(peer, fromRemote, remote) /\ IdleInv(peer, fromRemote, remote)
  BY DEF Busily, Inv, Fine
<1>2. /\ peer.thread[r].conn = "ABORTING" /\ peer' = ConnectionClosed(peer, r)
      /\ UNCHANGED <<fromRemote, remote>>
  BY DEF Closed
<1>3. IdleInv(ConnectionClosed(peer, r), fromRemote, remote)
  BY <1>1, <1>2, ClosedIdle
<1> QED BY <1>2, <1>3

LEMMA ConnectBusy == ASSUME Busily(peer, fromRemote, remote), NEW r \in Remote, Connect(r)
                     PROVE  IdleInv(peer', fromRemote', remote')
<1>1. /\ peer \in PeerType /\ PeerOK(peer, fromRemote, remote) /\ IdleInv(peer, fromRemote, remote)
      /\ fromRemote \in [Remote -> Seq(Messages(FromKinds))] /\ remote \in [Remote -> RemoteType]
  BY DEF Busily, Inv, Fine
<1> DEFINE m == BitfieldMsg(remote[r].has)
           u == HandshakeComplete(peer, r)
           h == Said(fromRemote, r, m)
<1>2. /\ peer.agenda = <<>> /\ peer.thread[r].conn = "NONE" /\ peer' = u
      /\ fromRemote' = fromRemote \/ fromRemote' = h
      /\ remote' = remote
  BY DEF Connect, Idle, ToPeer, Said
<1>3. m \in Messages(FromKinds) /\ m.kind = "BITFIELD"
  <2>1. remote[r].has \in SUBSET Piece
    BY <1>1 DEF RemoteType
  <2> QED BY <2>1, MsgTypes
<1> HIDE DEF m, u
<1>4. IdleInv(u, fromRemote, remote) /\ IdleInv(u, h, remote)
  BY <1>1, <1>2, <1>3, ConnectionIdle DEF u
<1> HIDE DEF h
<1> QED BY <1>2, <1>4

LEMMA ReceivesBusy == ASSUME Busily(peer, fromRemote, remote), NEW r \in Remote, RemoteReceives(r)
                      PROVE  IdleInv(peer', fromRemote', remote')
<1>1. /\ peer \in PeerType /\ IdleInv(peer, fromRemote, remote)
      /\ fromRemote \in [Remote -> Seq(Messages(FromKinds))] /\ remote \in [Remote -> RemoteType]
  BY DEF Busily, Inv, Fine
<1> DEFINE m == Head(peer.toRemote[r])
           e == <<m.index, m.begin>>
           p == PieceMsg(e)
           u == Taken(peer, r)
           n == [remote[r] EXCEPT !.peerInterested = (m.kind = "INTERESTED")]
           k == [remote EXCEPT ![r] = n]
           h == Said(fromRemote, r, p)
<1>2. /\ peer.toRemote[r] # <<>> /\ peer' = u
      /\ remote' = k \/ remote' = remote
      /\ fromRemote' = h \/ fromRemote' = fromRemote
  BY DEF RemoteReceives, ToPeer, Said, Taken
<1>3. u \in PeerType /\ m \in Messages(ToKinds) /\ u.thread = peer.thread
      /\ u.agenda = peer.agenda /\ u.state = peer.state /\ u.localBitfield = peer.localBitfield
  BY <1>1, <1>2, TakenIs
<1>4. u.pieceFreq = peer.pieceFreq /\ u.endGameRequests = peer.endGameRequests /\ u.peerState = peer.peerState
  BY <1>1 DEF Taken, PeerType
<1>5. p \in Messages(FromKinds) /\ p.kind = "PIECE"
  <2>1. e \in Entry
    BY <1>3 DEF Messages, Entry
  <2> HIDE DEF e
  <2> QED BY <2>1, MsgTypes
<1>6. n \in RemoteType /\ n.gaining = remote[r].gaining /\ remote[r] \in RemoteType
  <2>1. remote[r] \in RemoteType
    BY <1>1
  <2> QED BY <2>1 DEF RemoteType
<1> HIDE DEF u, p, n, m
<1>7. IdleInv(u, fromRemote, remote)
  <2>1. \A q \in Remote : Established(u, q) <=> Established(peer, q)
    BY <1>3 DEF Established
  <2>2. peer.agenda \in Seq(SelfMsgs)
    BY <1>1 DEF PeerType
  <2>3. /\ EndGameBusy(peer) => EndGameBusy(u)
        /\ \A q \in Remote : Busy(peer, q) => Busy(u, q)
        /\ Settled(peer, fromRemote) => Settled(u, fromRemote)
    BY <2>1, <2>2, <1>3, <1>4, QuietKeeps
  <2>4. Known(peer) => Known(u)
    BY <2>1, <1>4 DEF Known
  <2> QED BY <2>3, <2>4, <1>1 DEF IdleInv, Calm
<1>8. k \in [Remote -> RemoteType] /\ \A q \in Remote : k[q].gaining = remote[q].gaining
  <2>1. k \in [Remote -> RemoteType] /\ k[r] = n /\ \A q \in Remote \ {r} : k[q] = remote[q]
    BY <1>1, <1>6, RemoteSet
  <2> HIDE DEF k
  <2> QED BY <2>1, <1>6
<1>9. \A q \in Remote : SameNews(fromRemote[q], fromRemote[q]) /\ SameNews(fromRemote[q], h[q])
  <2>1. /\ h[r] = Append(fromRemote[r], p)
        /\ \A q \in Remote \ {r} : h[q] = fromRemote[q]
        /\ fromRemote[r] \in Seq(Messages(FromKinds))
    BY <1>1, <1>5, SaidIs
  <2> HIDE DEF h
  <2>2. SameNews(fromRemote[r], h[r])
    BY <2>1, <1>5, AppendedNews
  <2>3. \A q \in Remote : SameNews(fromRemote[q], fromRemote[q])
    BY DEF SameNews
  <2> QED BY <2>1, <2>2, <2>3
<1> HIDE DEF k, h
<1>10. /\ IdleInv(u, fromRemote, k) /\ IdleInv(u, h, remote) /\ IdleInv(u, h, k)
  BY <1>7, <1>8, <1>9, WiresIdle
<1> QED BY <1>2, <1>7, <1>10

LEMMA UnchokesBusy == ASSUME Busily(peer, fromRemote, remote), NEW r \in Remote, RemoteUnchokes(r)
                      PROVE  IdleInv(peer', fromRemote', remote')
<1> DEFINE m == StateMsg("UNCHOKE")
           n == [remote[r] EXCEPT !.amChoking = FALSE]
<1>1. /\ IdleInv(peer, fromRemote, remote) /\ remote[r] \in RemoteType
      /\ fromRemote \in [Remote -> Seq(Messages(FromKinds))] /\ remote \in [Remote -> RemoteType]
  BY DEF Busily, Inv
<1>2. /\ peer' = peer /\ fromRemote' = Said(fromRemote, r, m)
      /\ remote' = [remote EXCEPT ![r] = n]
  BY DEF RemoteUnchokes, ToPeer, Said
<1>3. m \in Messages(FromKinds) /\ m.kind = "UNCHOKE"
  BY StateMsgIs DEF FromKinds
<1>4. n \in RemoteType /\ n.gaining = remote[r].gaining
  BY <1>1 DEF RemoteType
<1> HIDE DEF m, n
<1> QED BY <1>1, <1>2, <1>3, <1>4, SaidIdle

LEMMA ChokesBusy == ASSUME Busily(peer, fromRemote, remote), NEW r \in Remote, RemoteChokes(r)
                    PROVE  IdleInv(peer', fromRemote', remote')
<1> DEFINE m == StateMsg("CHOKE")
           n == [remote[r] EXCEPT !.amChoking = TRUE, !.chokes = @ + 1]
<1>1. /\ IdleInv(peer, fromRemote, remote) /\ remote[r] \in RemoteType
      /\ fromRemote \in [Remote -> Seq(Messages(FromKinds))] /\ remote \in [Remote -> RemoteType]
  BY DEF Busily, Inv
<1>2. /\ peer' = peer /\ fromRemote' = Said(fromRemote, r, m)
      /\ remote' = [remote EXCEPT ![r].amChoking = TRUE, ![r].chokes = @ + 1]
  BY DEF RemoteChokes, ToPeer, Said
<1>3. remote' = [remote EXCEPT ![r] = n]
  BY <1>1, <1>2 DEF RemoteType
<1>4. m \in Messages(FromKinds) /\ m.kind = "CHOKE"
  BY StateMsgIs DEF FromKinds
<1>5. n \in RemoteType /\ n.gaining = remote[r].gaining
  <2>1. remote[r].chokes \in Nat
    BY <1>1 DEF RemoteType
  <2> DEFINE c == remote[r].chokes + 1
  <2>3. c \in Nat
    BY <2>1
  <2> HIDE DEF c
  <2>4. n = [remote[r] EXCEPT !.amChoking = TRUE, !.chokes = c]
    BY DEF c
  <2>5. [remote[r] EXCEPT !.amChoking = TRUE, !.chokes = c] \in RemoteType
    BY <1>1, <2>3 DEF RemoteType
  <2>6. [remote[r] EXCEPT !.amChoking = TRUE, !.chokes = c].gaining = remote[r].gaining
    BY <1>1 DEF RemoteType
  <2> QED BY <2>4, <2>5, <2>6
<1> HIDE DEF m, n
<1>6. IdleInv(peer, Said(fromRemote, r, m), [remote EXCEPT ![r] = n])
  BY <1>1, <1>4, <1>5, SaidIdle
<1>7. peer' = peer /\ fromRemote' = Said(fromRemote, r, m)
  BY <1>2
<1> QED BY <1>3, <1>6, <1>7

\* While remote peers obtain pieces, little is said.
LEMMA GainsBusy == ASSUME Busily(peer, fromRemote, remote), NEW r \in Remote, RemoteGains(r)
                   PROVE  IdleInv(peer', fromRemote', remote')
<1>1. PICK p \in Piece \ remote[r].has : remote' = [remote EXCEPT ![r].has = @ \cup {p}]
  BY DEF RemoteGains
<1>2. peer' = peer /\ remote[r].gaining /\ remote \in [Remote -> RemoteType]
  BY DEF RemoteGains, Busily, Inv
<1>3. remote'[r].gaining
  BY <1>1, <1>2 DEF RemoteType
<1>4. ~Steady(remote')
  BY <1>3 DEF Steady
<1> QED BY <1>2, <1>4 DEF IdleInv, Busily

LEMMA ClosesBusy == ASSUME Busily(peer, fromRemote, remote), NEW r \in Remote, RemoteCloses(r)
                    PROVE  IdleInv(peer', fromRemote', remote')
<1> DEFINE c == StateMsg("CHOKE")
           m == Msg("CLOSE")
           n == [remote[r] EXCEPT !.closed = TRUE, !.amChoking = TRUE]
           w == IF remote[r].amChoking THEN fromRemote[r] ELSE Append(fromRemote[r], c)
           h == [fromRemote EXCEPT ![r] = Append(w, m)]
           k == [remote EXCEPT ![r] = n]
<1>1. /\ IdleInv(peer, fromRemote, remote) /\ remote[r] \in RemoteType
      /\ fromRemote[r] \in Seq(Messages(FromKinds)) /\ remote \in [Remote -> RemoteType]
      /\ fromRemote \in [Remote -> Seq(Messages(FromKinds))]
  BY DEF Busily, Inv
<1>2. /\ c \in Messages(FromKinds) /\ c.kind = "CHOKE"
      /\ m \in Messages(FromKinds) /\ m.kind = "CLOSE"
  <2>1. c \in Messages(FromKinds) /\ c.kind = "CHOKE"
    BY StateMsgIs DEF FromKinds
  <2>2. m \in Messages(FromKinds) /\ m.kind = "CLOSE"
    BY MsgTypes DEF FromKinds
  <2> QED BY <2>1, <2>2
<1>3. w \in Seq(Messages(FromKinds))
  <2> HIDE DEF c
  <2> QED BY <1>1, <1>2
<1>4. peer' = peer /\ fromRemote' = h /\ remote' = k
  <2>1. /\ peer' = peer
        /\ remote' = [remote EXCEPT ![r].closed = TRUE, ![r].amChoking = TRUE]
        /\ fromRemote' = [fromRemote EXCEPT ![r] = w \o <<m>>]
    BY DEF RemoteCloses
  <2>2. remote' = k
    BY <2>1, <1>1 DEF RemoteType
  <2>3. w \o <<m>> = Append(w, m)
    <3> HIDE DEF w, m
    <3> QED BY <1>2, <1>3, AppendIsConcat
  <2>4. fromRemote' = h
    BY <2>1, <2>3
  <2> QED BY <2>1, <2>2, <2>4
<1>5. n \in RemoteType /\ n.gaining = remote[r].gaining
  BY <1>1 DEF RemoteType
<1>6. SameNews(fromRemote[r], w)
  <2> HIDE DEF c
  <2>1. SameNews(fromRemote[r], Append(fromRemote[r], c))
    BY <1>1, <1>2, AppendedNews
  <2> QED BY <2>1 DEF SameNews
<1> HIDE DEF w, m, n
<1>7. SameNews(w, Append(w, m))
  BY <1>2, <1>3, AppendedNews
<1>8. h[r] = Append(w, m) /\ \A q \in Remote \ {r} : h[q] = fromRemote[q]
  BY <1>1
<1>9. k[r] = n /\ \A q \in Remote \ {r} : k[q] = remote[q]
  BY <1>1, <1>5, RemoteSet
<1> HIDE DEF h, k
<1>10. \A q \in Remote : SameNews(fromRemote[q], h[q]) /\ k[q].gaining = remote[q].gaining
  BY <1>5, <1>6, <1>7, <1>8, <1>9 DEF SameNews
<1>11. IdleInv(peer, h, k)
  BY <1>1, <1>10, WiresIdle
<1> QED BY <1>4, <1>11

SwarmBusy == IdleInv(peer, fromRemote, remote)

LEMMA BusyNext == SwarmBusy' <=> IdleInv(peer', fromRemote', remote')
BY DEF SwarmBusy, IdleInv, Known, EndGameBusy, Steady, Calm, Settled, Busy, Established, Listed, Missing, Entries,
       Ready, MayAsk, Moving, Looking, Counting, Due, AsksAll, Req, CanRequestMore, Candidates, IsPieceRequested, At

LEMMA InitBusy == SwarmInit => SwarmBusy
<1> SUFFICES ASSUME SwarmInit PROVE IdleInv(peer, fromRemote, remote)
  BY DEF SwarmBusy
<1>1. PICK swarm \in Swarms : peer = InitialPeer(swarm.endGame) /\ fromRemote = [r \in Remote |-> <<>>]
  BY DEF SwarmInit
<1>2. swarm.endGame \in BOOLEAN
  BY SwarmsAssumption DEF Swarm
<1>3. /\ peer \in PeerType /\ peer.state = "NORMAL" /\ peer.agenda = <<>>
      /\ \A r \in Remote : peer.thread[r] = InitialThread
  BY <1>1, <1>2, FirstPeer
<1>4. \A r \in Remote : /\ peer.thread[r].conn = "NONE" /\ ~peer.thread[r].amInterested
                        /\ peer.thread[r].remoteBitfield = {}
  BY <1>3 DEF InitialThread
<1>5. Known(peer)
  BY <1>4 DEF Known, Established
<1>6. EndGameBusy(peer)
  BY <1>3 DEF EndGameBusy
<1>7. \A r \in Remote : Busy(peer, r)
  BY <1>4 DEF Busy, Ready
<1>8. Settled(peer, fromRemote)
  <2>1. \A r : ~Counting(peer, r)
    BY <1>3, NothingDue
  <2>2. \A r \in Remote : At(fromRemote[r], "HAVE") = {} /\ At(fromRemote[r], "BITFIELD") = {}
    BY <1>1 DEF At
  <2>3. DOMAIN peer.agenda = {}
    BY <1>3
  <2> QED BY <2>1, <2>2, <2>3, <1>4 DEF Settled
<1> QED BY <1>5, <1>6, <1>7, <1>8 DEF IdleInv, Calm

LEMMA NextBusy == SwarmInv /\ SwarmBusy /\ [Next]_vars => SwarmBusy'
<1> SUFFICES ASSUME SwarmInv, SwarmBusy, [Next]_vars PROVE SwarmBusy'
  OBVIOUS
<1>1. Busily(peer, fromRemote, remote)
  BY InvNow DEF Busily, SwarmBusy
<1>2. IdleInv(peer', fromRemote', remote')
  <2>1. CASE UNCHANGED vars
    <3>1. peer' = peer /\ fromRemote' = fromRemote /\ remote' = remote
      BY <2>1 DEF vars
    <3> QED BY <3>1, <1>1 DEF Busily
  <2>2. CASE SelfMessage
    BY <2>2, <1>1, SelfMessageBusy
  <2>3. ASSUME NEW r \in Remote, PeerEvent(r)
        PROVE  IdleInv(peer', fromRemote', remote')
    <3>1. CASE Connect(r)
      BY <3>1, <1>1, ConnectBusy
    <3>2. CASE Receive(r)
      BY <3>2, <1>1, ReceiveBusy
    <3>3. CASE Closed(r)
      BY <3>3, <1>1, ClosedBusy
    <3> QED BY <2>3, <3>1, <3>2, <3>3 DEF PeerEvent
  <2>4. ASSUME NEW r \in Remote, RemoteEvent(r)
        PROVE  IdleInv(peer', fromRemote', remote')
    <3>1. CASE RemoteReceives(r)
      BY <3>1, <1>1, ReceivesBusy
    <3>2. CASE RemoteUnchokes(r)
      BY <3>2, <1>1, UnchokesBusy
    <3>3. CASE RemoteChokes(r)
      BY <3>3, <1>1, ChokesBusy
    <3>4. CASE RemoteGains(r)
      BY <3>4, <1>1, GainsBusy
    <3>5. CASE RemoteCloses(r)
      BY <3>5, <1>1, ClosesBusy
    <3> QED BY <2>4, <3>1, <3>2, <3>3, <3>4, <3>5 DEF RemoteEvent
  <2> QED BY <2>1, <2>2, <2>3, <2>4 DEF Next
<1> QED BY <1>2, BusyNext

\* When nothing is left on the agenda, a thread that has room in its queue has nothing to ask for.
LEMMA BusyThreads == SwarmBusy => NoThreadIdles
<1> SUFFICES ASSUME SwarmBusy, Idle, NEW r \in Remote,
                    Established(peer, r), ~peer.thread[r].peerChoking, peer.thread[r].amInterested
             PROVE  /\ peer.state = "NORMAL" /\ CanRequestMore(peer, r) /\ (\A q \in Remote : ~remote[q].gaining)
                         => Candidates(peer, r) = {}
                    /\ peer.state = "ENDGAME"
                         => \A e \in (Piece \X Block) \ bf.blockfield :
                              e \in RequestsOf(r) \/ <<r, e>> \in ToSet(peer.endGameRequests)
  BY DEF NoThreadIdles
<1>1. IdleInv(peer, fromRemote, remote) /\ Ready(peer, r)
  BY DEF SwarmBusy, Ready, MayAsk
<1>2. ~Moving(peer, r) /\ ~Looking(peer, r)
  BY NothingDue DEF Idle
<1>3. ASSUME peer.state = "NORMAL", CanRequestMore(peer, r), \A q \in Remote : ~remote[q].gaining
      PROVE  Candidates(peer, r) = {}
  <2>1. Busy(peer, r)
    BY <1>1, <1>3 DEF IdleInv, Steady, Calm
  <2> QED BY <2>1, <1>1, <1>2, <1>3 DEF Busy
<1>4. ASSUME peer.state = "ENDGAME", NEW e \in (Piece \X Block) \ bf.blockfield
      PROVE  e \in RequestsOf(r) \/ <<r, e>> \in ToSet(peer.endGameRequests)
  <2>1. AsksAll(peer, r)
    BY <1>1, <1>2, <1>4 DEF IdleInv, EndGameBusy
  <2>2. e \in Missing(peer)
    BY <1>4 DEF Missing, Entry, bf
  <2> QED BY <2>1, <2>2 DEF AsksAll, Entries, RequestsOf, Req
<1> QED BY <1>3, <1>4

\* Every thread that may request is kept busy: with an empty agenda, one with room in its queue finds
\* no piece that its remote peer has and no thread asks for, and in the end game each thread has
\* asked for every missing block it was not asked first for (BTPeerWireBase.cc: makeNextPeerMove,
\* scheduleEndGameRequests, updateInterests).
THEOREM ThreadsKeepBusy == ASSUME SlowChoking = TRUE PROVE Spec => []NoThreadIdles
<1>1. SwarmInit => SwarmInv /\ SwarmBusy
  BY InitInv, InitBusy
<1>2. SwarmInv /\ SwarmBusy /\ [Next]_vars => SwarmInv' /\ SwarmBusy'
  BY NextInv, NextBusy
<1>3. SwarmInv /\ SwarmBusy => NoThreadIdles
  BY BusyThreads
<1> QED BY <1>1, <1>2, <1>3, PTL DEF Spec
=============================================================================
