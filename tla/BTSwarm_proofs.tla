--------------------------- MODULE BTSwarm_proofs ---------------------------
(***************************************************************************)
(* The books of a downloading peer: what its bit field counts and marks    *)
(* agrees with the requests of its threads and with the messages on the    *)
(* wires, and remote peers hear of pieces and of interest.  Proofs.        *)
(***************************************************************************)
EXTENDS BTSwarm, FiniteSetTheorems, SequenceTheorems, WellFoundedInduction, TLAPS

-----------------------------------------------------------------------------
(* Types *)

Entry == Piece \X Block

Messages(kinds) == [kind : kinds, index : Piece, begin : Block, pieces : SUBSET Piece]

ToKinds   == {"REQUEST", "CANCEL", "INTERESTED", "NOT_INTERESTED"}
FromKinds == {"BITFIELD", "HAVE", "CHOKE", "UNCHOKE", "PIECE", "CLOSE"}
SelfKinds == {"BITFIELD", "HAVE", "UNCHOKE", "NEXT_REQUEST", "REQUEST", "UPDATE_INTERESTS",
              "INTEREST", "REMOVE_THREAD"}
SelfMsgs  == [remote : Remote, msg : Messages(SelfKinds)]

BitFieldType ==
  [bitfield : SUBSET Piece, blockfield : SUBSET Entry, requested : SUBSET Entry,
   currentlyRequested : [Piece -> Nat], numRemainingPieces : Nat, numRemainingBlocks : Nat,
   numNonRequestedNonAvailableBlocks : Nat]

ThreadType ==
  [conn : {"NONE", "OPEN", "ABORTING", "GONE"}, remoteBitfield : SUBSET Piece,
   amInterested : BOOLEAN, peerChoking : BOOLEAN, allowedToRequest : BOOLEAN,
   inEndGame : BOOLEAN, announced : SUBSET Piece, requests : Seq(Entry)]

PeerType ==
  [localBitfield : BitFieldType, enableEndGameMode : BOOLEAN,
   state : {"NORMAL", "ENDGAME", "SEEDING"}, pieceFreq : [Piece -> Nat], peerState : Seq(Remote),
   endGameRequests : Seq(Remote \X Entry), thread : [Remote -> ThreadType], agenda : Seq(SelfMsgs),
   toRemote : [Remote -> Seq(Messages(ToKinds))]]

RemoteType ==
  [has : SUBSET Piece, amChoking : BOOLEAN, peerInterested : BOOLEAN, closed : BOOLEAN,
   chokes : Nat, gaining : BOOLEAN, leaving : BOOLEAN]

WireTypes == /\ fromRemote \in [Remote -> Seq(Messages(FromKinds))]
             /\ remote \in [Remote -> RemoteType]

-----------------------------------------------------------------------------
(* The books *)

Req(s, r)    == ToSet(s.thread[r].requests)
PendingOf(s) == UNION {Req(s, r) : r \in Remote}

\* What is counted as missing is missing.
Counted(lb) ==
  /\ lb.numRemainingBlocks = Cardinality(Entry \ lb.blockfield)
  /\ lb.numRemainingPieces = Cardinality(Piece \ lb.bitfield)
  /\ \A p \in Piece : p \in lb.bitfield <=> BlocksOf(p) \subseteq lb.blockfield

\* The blocks in X, all missing, are those marked as requested, and are counted as such.
Marks(lb, X) ==
  /\ lb.requested \ lb.blockfield = X
  /\ \A p \in Piece : lb.currentlyRequested[p] = Cardinality(X \cap BlocksOf(p))
  /\ lb.numNonRequestedNonAvailableBlocks = Cardinality(Entry \ (lb.requested \cup lb.blockfield))

\* In the end game each missing block is marked, and counted until it comes.
AllAsked(lb) ==
  /\ Entry \subseteq lb.requested \cup lb.blockfield
  /\ \A p \in Piece : lb.currentlyRequested[p] = Cardinality(BlocksOf(p) \ lb.blockfield)

Distinct(seq) == \A i, j \in DOMAIN seq : seq[i] = seq[j] => i = j

OwnPieces(s) == \A q, r \in Remote : \A e \in Req(s, q), f \in Req(s, r) : e[1] = f[1] => q = r

Orders(s) ==
  /\ \A r \in Remote : Distinct(s.thread[r].requests) /\ Len(s.thread[r].requests) <= RequestQueueDepth
  /\ OwnPieces(s)

Books(s) ==
  /\ Counted(s.localBitfield)
  /\ s.state = "NORMAL"  => Marks(s.localBitfield, PendingOf(s)) /\ Orders(s)
  /\ s.state = "ENDGAME" => s.enableEndGameMode /\ AllAsked(s.localBitfield)
  /\ s.state = "SEEDING" => s.localBitfield.blockfield = Entry

\* The threads that are about to be removed.
Removals(s) == {r \in Remote : \E i \in DOMAIN s.agenda : /\ s.agenda[i].remote = r
                                                       /\ s.agenda[i].msg.kind = "REMOVE_THREAD"}

\* A thread that may not request has no request, and one without a connection may not.
Threads(s) ==
  \A r \in Remote :
    /\ r \in Removals(s) => s.thread[r].conn \in {"ABORTING", "GONE"}
    /\ s.thread[r].peerChoking => s.thread[r].requests = <<>>
    /\ s.thread[r].conn # "OPEN" => s.thread[r].peerChoking
    /\ s.thread[r].conn = "OPEN" => s.localBitfield.bitfield \subseteq s.thread[r].announced

-----------------------------------------------------------------------------
(* The wires *)

BlockOf(m)      == <<m.index, m.begin>>
At(q, k)        == {i \in DOMAIN q : q[i].kind = k}
BlocksIn(q, k)  == {BlockOf(q[i]) : i \in At(q, k)}
OnceIn(q, k)    == \A i, j \in At(q, k) : BlockOf(q[i]) = BlockOf(q[j]) => i = j

\* The requests that a thread is about to send.
Asked(s, r)       == {i \in DOMAIN s.agenda : s.agenda[i].remote = r /\ s.agenda[i].msg.kind = "REQUEST"}
BlocksAsked(s, r) == {BlockOf(s.agenda[i].msg) : i \in Asked(s, r)}
OnceAsked(s, r)   == \A i, j \in Asked(s, r) : BlockOf(s.agenda[i].msg) = BlockOf(s.agenda[j].msg) => i = j
Requesting(s, r)  == At(s.toRemote[r], "REQUEST") # {}

\* The order on the wire of a remote peer: nothing but news follows a choke, an unchoke follows
\* neither a block nor another change, and nothing follows the end.
Orderly(q) ==
  \A i, j \in DOMAIN q : i < j =>
    /\ q[i].kind # "CLOSE"
    /\ q[i].kind = "CHOKE"   => q[j].kind \notin {"PIECE", "CHOKE", "UNCHOKE"}
    /\ q[j].kind = "UNCHOKE" => q[i].kind \notin {"PIECE", "CHOKE", "UNCHOKE"}

\* What a thread t, its remote peer m and the wire q between them may be like.
Phase(t, asking, q, m) ==
  /\ t.conn = "NONE" => q = <<>> /\ m.amChoking /\ ~m.closed /\ ~asking
  /\ t.conn \in {"ABORTING", "GONE"} => q = <<>> /\ m.closed
  /\ At(q, "CLOSE") # {} => m.closed
  /\ m.closed => m.amChoking /\ (t.conn # "OPEN" \/ At(q, "CLOSE") # {})
  /\ At(q, "CHOKE") # {} => m.amChoking
  /\ At(q, "UNCHOKE") # {} => t.peerChoking /\ ~asking
  /\ m.amChoking /\ At(q, "CHOKE") = {} => t.peerChoking /\ At(q, "UNCHOKE") = {}
  /\ t.peerChoking /\ ~m.amChoking => ~asking
  /\ t.peerChoking => At(q, "PIECE") = {}

\* Each request of a thread that is not served yet is on its way, once, there or back.
Underway(s, q, r) ==
  LET A == BlocksAsked(s, r)
      R == BlocksIn(s.toRemote[r], "REQUEST")
      P == BlocksIn(q, "PIECE")
  IN  /\ s.thread[r].peerChoking => A = {}
      /\ ~s.thread[r].peerChoking /\ s.state = "NORMAL" =>
           /\ A \cup R \cup P \subseteq Req(s, r)
           /\ A \cap R = {} /\ A \cap P = {} /\ R \cap P = {}
           /\ OnceAsked(s, r) /\ OnceIn(s.toRemote[r], "REQUEST") /\ OnceIn(q, "PIECE")
      /\ ~s.thread[r].peerChoking /\ s.state = "ENDGAME" =>
           A \cup R \cup P \subseteq Req(s, r) \cup s.localBitfield.blockfield

Wire(s, q, m, r) ==
  Orderly(q) /\ Phase(s.thread[r], Requesting(s, r), q, m) /\ Underway(s, q, r)

\* The state of the peer, with what is on its wires f and what the remote peers g are like.
PeerOK(s, f, g) ==
  s \in PeerType /\ Books(s) /\ Threads(s) /\ \A r \in Remote : Wire(s, f[r], g[r], r)

\* A remote peer of interest has been told, or the news is on the agenda.
News(s, r) == \E i \in DOMAIN s.agenda : s.agenda[i].remote = r /\ s.agenda[i].msg.kind \in {"BITFIELD", "HAVE"}
Told(s, r) == AmInterested(s, r) /\ ~Completed(s) => s.thread[r].amInterested \/ News(s, r)

SwarmInv == WireTypes /\ PeerOK(peer, fromRemote, remote) /\ \A r \in Remote : Told(peer, r)

-----------------------------------------------------------------------------
(* Induction, and folds over sequences *)

LEMMA LeastNumber ==
  ASSUME NEW T \in SUBSET Nat, T # {}
  PROVE  \E n \in T : \A m \in T : n <= m
<1>1. PICK n \in T : \A m \in T : ~ (<<m, n>> \in OpToRel(<, Nat))
  BY NatLessThanWellFounded, WFMin
<1>2. \A m \in T : ~(m < n)
  BY <1>1 DEF OpToRel
<1> QED BY <1>2

LEMMA AllNumbers ==
  ASSUME NEW T, 0 \in T, \A k \in Nat : k \in T => k + 1 \in T
  PROVE  \A k \in Nat : k \in T
<1> DEFINE Lacking == {k \in Nat : k \notin T}
<1>1. SUFFICES ASSUME Lacking # {} PROVE FALSE
  OBVIOUS
<1>2. PICK n \in Lacking : \A m \in Lacking : n <= m
  BY <1>1, LeastNumber
<1>3. n \in Nat /\ n # 0 /\ n \notin T
  BY <1>2
<1>4. n - 1 \in Nat /\ n - 1 \notin Lacking
  BY <1>2, <1>3
<1>5. (n - 1) + 1 \in T
  BY <1>4
<1> QED BY <1>3, <1>5

\* A set of numbers up to n has a greatest, and with it goes the rest of a fold.
LEMMA GreatestOf ==
  ASSUME NEW n \in Nat, NEW S \in SUBSET (1 .. n), S # {}
  PROVE  Max(S) \in S /\ \A k \in S : k <= Max(S)
<1> DEFINE T == {n - k : k \in S}
<1>1. T \in SUBSET Nat /\ T # {}
  <2>1. \A k \in S : n - k \in Nat
    OBVIOUS
  <2> QED BY <2>1
<1>2. PICK l \in T : \A m \in T : l <= m
  BY <1>1, LeastNumber
<1>3. PICK k \in S : l = n - k
  BY <1>2
<1>4. \A m \in S : n - k <= n - m
  BY <1>2, <1>3
<1>5. \A m \in S : k >= m
  BY <1>4
<1>6. \E x \in S : \A y \in S : x >= y
  BY <1>5
<1>7. Max(S) \in S /\ \A y \in S : Max(S) >= y
  BY <1>6 DEF Max
<1> QED BY <1>7

LEMMA GreatestUpTo ==
  ASSUME NEW n \in Nat, NEW k \in 1 .. n
  PROVE  Max(1 .. k) = k /\ (1 .. k) \ {k} = 1 .. k - 1
<1>1. 1 .. k \in SUBSET (1 .. n) /\ 1 .. k # {} /\ k \in 1 .. k
  OBVIOUS
<1>2. Max(1 .. k) \in 1 .. k /\ k <= Max(1 .. k)
  BY <1>1, GreatestOf
<1> QED BY <1>2

UpTo(n, k) == {S \in SUBSET (1 .. n) : \A i \in S : i <= k}

\* g is the fold of the steps F from s, for the sets of positions in P.
Folds(g, P, F, s) == g = [S \in P |-> IF S = {} THEN s ELSE F[<<g[S \ {Max(S)}], Max(S)>>]]

LEMMA FoldExists ==
  ASSUME NEW D, NEW n \in Nat, NEW F \in [D \X (1 .. n) -> D], NEW s \in D
  PROVE  \E g \in [SUBSET (1 .. n) -> D] : Folds(g, SUBSET (1 .. n), F, s)
<1> DEFINE T == {k \in Nat : \E g \in [UpTo(n, k) -> D] : Folds(g, UpTo(n, k), F, s)}
<1>1. 0 \in T
  <2> DEFINE g == [S \in UpTo(n, 0) |-> s]
  <2>1. \A S \in UpTo(n, 0) : S = {}
    BY DEF UpTo
  <2>2. g \in [UpTo(n, 0) -> D] /\ Folds(g, UpTo(n, 0), F, s)
    BY <2>1 DEF Folds
  <2> QED BY <2>2
<1>2. ASSUME NEW k \in Nat, k \in T PROVE k + 1 \in T
  <2>1. PICK g \in [UpTo(n, k) -> D] : Folds(g, UpTo(n, k), F, s)
    BY <1>2
  <2> DEFINE P == UpTo(n, k)
             Q == UpTo(n, k + 1)
             h == [S \in Q |-> IF S = {} THEN s ELSE F[<<g[S \ {Max(S)}], Max(S)>>]]
  <2>2. g = [S \in P |-> IF S = {} THEN s ELSE F[<<g[S \ {Max(S)}], Max(S)>>]]
    BY <2>1 DEF Folds
  <2>3. P \subseteq Q
    BY DEF UpTo
  <2>4. \A S \in Q : S # {} => S \ {Max(S)} \in P /\ Max(S) \in 1 .. n
    <3> SUFFICES ASSUME NEW S \in Q, S # {} PROVE S \ {Max(S)} \in P /\ Max(S) \in 1 .. n
      OBVIOUS
    <3>1. S \in SUBSET (1 .. n) /\ \A i \in S : i <= k + 1
      BY DEF UpTo
    <3>2. Max(S) \in S /\ \A i \in S : i <= Max(S)
      BY <3>1, GreatestOf
    <3> DEFINE x == Max(S)
    <3>5. x \in S
      BY <3>2
    <3> HIDE DEF x
    <3>3. x \in Nat /\ x <= k + 1
      BY <3>1, <3>5
    <3>4. \A i \in S \ {x} : i <= k
      <4> TAKE i \in S \ {x}
      <4>1. i \in Nat /\ x \in Nat /\ i <= x /\ i # x /\ x <= k + 1
        BY <3>1, <3>2, <3>3 DEF x
      <4> QED BY <4>1
    <3> QED BY <3>1, <3>2, <3>4 DEF UpTo, x
  <2> HIDE DEF P, Q
  <2>5. \A S \in P : h[S] = g[S]
    <3>1. \A S \in P : h[S] = IF S = {} THEN s ELSE F[<<g[S \ {Max(S)}], Max(S)>>]
      BY <2>3
    <3>2. \A S \in P : g[S] = IF S = {} THEN s ELSE F[<<g[S \ {Max(S)}], Max(S)>>]
      BY <2>2
    <3> QED BY <3>1, <3>2
  <2>6. h \in [Q -> D]
    <3>1. \A S \in Q : S # {} => g[S \ {Max(S)}] \in D
      BY <2>1, <2>4 DEF P
    <3>2. \A S \in Q : S # {} => F[<<g[S \ {Max(S)}], Max(S)>>] \in D
      BY <2>4, <3>1
    <3> QED BY <3>2
  <2>7. \A S \in Q : h[S] = IF S = {} THEN s ELSE F[<<h[S \ {Max(S)}], Max(S)>>]
    <3>1. \A S \in Q : h[S] = IF S = {} THEN s ELSE F[<<g[S \ {Max(S)}], Max(S)>>]
      OBVIOUS
    <3> HIDE DEF h
    <3> QED BY <3>1, <2>4, <2>5
  <2>8. h = [S \in Q |-> h[S]]
    OBVIOUS
  <2> HIDE DEF h
  <2>9. h = [S \in Q |-> IF S = {} THEN s ELSE F[<<h[S \ {Max(S)}], Max(S)>>]]
    BY <2>7, <2>8
  <2>10. Folds(h, UpTo(n, k + 1), F, s) /\ h \in [UpTo(n, k + 1) -> D]
    BY <2>6, <2>9 DEF Folds, Q
  <2> QED BY <2>10
<1>3. n \in T
  <2> HIDE DEF T
  <2> QED BY <1>1, <1>2, AllNumbers
<1>4. UpTo(n, n) = SUBSET (1 .. n)
  BY DEF UpTo
<1> QED BY <1>3, <1>4

\* f is a fold of F from s wherever F is defined.
Unfolds(f, n, D, F, s) ==
  /\ f[{}] = s
  /\ \A S \in SUBSET (1 .. n) : S # {} /\ f[S \ {Max(S)}] \in D
        => f[S] = F[<<f[S \ {Max(S)}], Max(S)>>]

\* h are the values a fold goes through.
Runs(h, n, D, F, s) ==
  h \in [0 .. n -> D] /\ h[0] = s /\ \A k \in 1 .. n : h[k] = F[<<h[k - 1], k>>]

\* The last of them is x.
RunsTo(x, n, D, F, s) == \E h : Runs(h, n, D, F, s) /\ h[n] = x

\* Whatever is a fold wherever F is defined goes through the values of F, one after the other.
LEMMA FoldIsRun ==
  ASSUME NEW D, NEW n \in Nat, NEW F \in [D \X (1 .. n) -> D], NEW s \in D, NEW f,
         Unfolds(f, n, D, F, s)
  PROVE  RunsTo(f[1 .. n], n, D, F, s)
<1>0. /\ f[{}] = s
      /\ \A S \in SUBSET (1 .. n) : S # {} /\ f[S \ {Max(S)}] \in D
            => f[S] = F[<<f[S \ {Max(S)}], Max(S)>>]
  BY DEF Unfolds
<1>1. \A k \in 1 .. n : f[1 .. k - 1] \in D => f[1 .. k] = F[<<f[1 .. k - 1], k>>]
  <2> TAKE k \in 1 .. n
  <2>1. 1 .. k \in SUBSET (1 .. n) /\ 1 .. k # {}
    OBVIOUS
  <2>2. Max(1 .. k) = k /\ (1 .. k) \ {k} = 1 .. k - 1
    BY GreatestUpTo
  <2> QED BY <2>1, <2>2, <1>0
<1> DEFINE T == {k \in Nat : k <= n => f[1 .. k] \in D}
<1>2. 0 \in T
  <2>1. 1 .. 0 = {}
    OBVIOUS
  <2> QED BY <2>1, <1>0
<1>3. ASSUME NEW k \in Nat, k \in T PROVE k + 1 \in T
  <2> SUFFICES ASSUME k + 1 <= n PROVE f[1 .. k + 1] \in D
    OBVIOUS
  <2>1. k + 1 \in 1 .. n /\ (k + 1) - 1 = k /\ f[1 .. k] \in D
    BY <1>3
  <2>2. f[1 .. k + 1] = F[<<f[1 .. k], k + 1>>]
    BY <2>1, <1>1
  <2> QED BY <2>1, <2>2
<1>4. \A k \in Nat : k \in T
  <2> HIDE DEF T
  <2> QED BY <1>2, <1>3, AllNumbers
<1> DEFINE h == [k \in 0 .. n |-> f[1 .. k]]
<1>5. h \in [0 .. n -> D]
  BY <1>4
<1>6. h[0] = s
  <2>1. 1 .. 0 = {} /\ 0 \in 0 .. n
    OBVIOUS
  <2> QED BY <2>1, <1>0
<1>7. \A k \in 1 .. n : h[k] = F[<<h[k - 1], k>>]
  <2> TAKE k \in 1 .. n
  <2>1. k \in 0 .. n /\ k - 1 \in 0 .. n
    OBVIOUS
  <2>2. f[1 .. k - 1] \in D
    BY <2>1, <1>4
  <2> QED BY <2>1, <2>2, <1>1
<1>8. h[n] = f[1 .. n]
  OBVIOUS
<1> HIDE DEF h
<1> QED BY <1>5, <1>6, <1>7, <1>8 DEF Runs, RunsTo

-----------------------------------------------------------------------------
(* Messages on a wire and on the agenda *)

LEMMA AppendedAt ==
  ASSUME NEW S, NEW q \in Seq(S), NEW m
  PROVE  /\ Append(q, m)[Len(q) + 1] = m
         /\ \A i \in DOMAIN q : i \in DOMAIN Append(q, m) /\ i # Len(q) + 1 /\ Append(q, m)[i] = q[i]
         /\ \A i \in DOMAIN Append(q, m) : i \in DOMAIN q \/ i = Len(q) + 1
         /\ Len(q) + 1 \in DOMAIN Append(q, m)
<1>1. DOMAIN q = 1 .. Len(q) /\ Len(q) \in Nat /\ DOMAIN Append(q, m) = 1 .. Len(q) + 1
  OBVIOUS
<1> QED BY <1>1

LEMMA WireAppend ==
  ASSUME NEW S, NEW q \in Seq(S), NEW m, NEW k
  PROVE  /\ BlocksIn(Append(q, m), k) = BlocksIn(q, k) \cup {BlockOf(x) : x \in {y \in {m} : y.kind = k}}
         /\ At(Append(q, m), k) # {} <=> At(q, k) # {} \/ m.kind = k
         /\ OnceIn(q, k) /\ (m.kind = k => BlockOf(m) \notin BlocksIn(q, k)) => OnceIn(Append(q, m), k)
<1> DEFINE u == Append(q, m)
           n == Len(q) + 1
<1>1. /\ u[n] = m /\ n \in DOMAIN u
      /\ \A i \in DOMAIN q : i \in DOMAIN u /\ i # n /\ u[i] = q[i]
      /\ \A i \in DOMAIN u : i \in DOMAIN q \/ i = n
  BY AppendedAt
<1> HIDE DEF u, n
<1>2. At(u, k) = At(q, k) \cup {i \in {n} : m.kind = k}
  BY <1>1 DEF At
<1>3. \A i \in At(q, k) : u[i] = q[i]
  BY <1>1 DEF At
<1>4. BlocksIn(u, k) = BlocksIn(q, k) \cup {BlockOf(x) : x \in {y \in {m} : y.kind = k}}
  <2>1. ASSUME NEW b \in BlocksIn(u, k)
        PROVE  b \in BlocksIn(q, k) \cup {BlockOf(x) : x \in {y \in {m} : y.kind = k}}
    <3>1. PICK i \in At(u, k) : b = BlockOf(u[i])
      BY DEF BlocksIn
    <3> QED BY <3>1, <1>1, <1>2, <1>3 DEF BlocksIn
  <2>2. ASSUME NEW b \in BlocksIn(q, k)
        PROVE  b \in BlocksIn(u, k)
    <3>1. PICK i \in At(q, k) : b = BlockOf(q[i])
      BY DEF BlocksIn
    <3> QED BY <3>1, <1>2, <1>3 DEF BlocksIn
  <2>3. m.kind = k => BlockOf(m) \in BlocksIn(u, k)
    BY <1>1, <1>2 DEF BlocksIn
  <2> QED BY <2>1, <2>2, <2>3
<1>5. At(u, k) # {} <=> At(q, k) # {} \/ m.kind = k
  BY <1>2
<1>6. ASSUME OnceIn(q, k), m.kind = k => BlockOf(m) \notin BlocksIn(q, k)
      PROVE  OnceIn(u, k)
  <2> SUFFICES ASSUME NEW i \in At(u, k), NEW j \in At(u, k), BlockOf(u[i]) = BlockOf(u[j])
               PROVE  i = j
    BY DEF OnceIn
  <2>1. CASE i \in At(q, k) /\ j \in At(q, k)
    BY <2>1, <1>3, <1>6 DEF OnceIn
  <2>2. CASE i \in At(q, k) /\ j = n /\ m.kind = k
    BY <2>2, <1>1, <1>3, <1>6 DEF BlocksIn
  <2>3. CASE j \in At(q, k) /\ i = n /\ m.kind = k
    BY <2>3, <1>1, <1>3, <1>6 DEF BlocksIn
  <2> QED BY <1>2, <2>1, <2>2, <2>3
<1> QED BY <1>4, <1>5, <1>6 DEF u

LEMMA TailAt ==
  ASSUME NEW S, NEW q \in Seq(S), q # <<>>
  PROVE  /\ 1 \in DOMAIN q /\ Head(q) = q[1] /\ Head(q) \in S
         /\ Tail(q) \in Seq(S)
         /\ \A i \in DOMAIN Tail(q) : /\ i \in Nat /\ i + 1 \in DOMAIN q /\ i + 1 # 1
                                      /\ Tail(q)[i] = q[i + 1]
         /\ \A i \in DOMAIN q : i = 1 \/ (i \in Nat /\ i - 1 \in DOMAIN Tail(q) /\ Tail(q)[i - 1] = q[i])
<1>1. Len(q) \in Nat /\ Len(q) # 0 /\ DOMAIN q = 1 .. Len(q)
  OBVIOUS
<1>2. Tail(q) \in Seq(S) /\ Len(Tail(q)) = Len(q) - 1
  BY <1>1
<1>3. DOMAIN Tail(q) = 1 .. Len(q) - 1
  BY <1>2
<1>4. \A i \in 1 .. Len(q) - 1 : Tail(q)[i] = q[i + 1]
  BY <1>1
<1> QED BY <1>1, <1>2, <1>3, <1>4

LEMMA WireTail ==
  ASSUME NEW S, NEW q \in Seq(S), q # <<>>, NEW k
  PROVE  /\ BlocksIn(Tail(q), k) \subseteq BlocksIn(q, k)
         /\ Head(q).kind = k => BlockOf(Head(q)) \in BlocksIn(q, k)
         /\ At(q, k) # {} <=> At(Tail(q), k) # {} \/ Head(q).kind = k
         /\ OnceIn(q, k) => /\ OnceIn(Tail(q), k)
                            /\ Head(q).kind = k => BlockOf(Head(q)) \notin BlocksIn(Tail(q), k)
<1> DEFINE t == Tail(q)
<1>1. /\ 1 \in DOMAIN q /\ Head(q) = q[1]
      /\ \A i \in DOMAIN t : i \in Nat /\ i + 1 \in DOMAIN q /\ i + 1 # 1 /\ t[i] = q[i + 1]
      /\ \A i \in DOMAIN q : i = 1 \/ (i \in Nat /\ i - 1 \in DOMAIN t /\ t[i - 1] = q[i])
  BY TailAt
<1> HIDE DEF t
<1>2. \A i \in At(t, k) : i \in Nat /\ i + 1 \in At(q, k) /\ i + 1 # 1 /\ t[i] = q[i + 1]
  BY <1>1 DEF At
<1>3. Head(q).kind = k => 1 \in At(q, k)
  BY <1>1 DEF At
<1>4. BlocksIn(t, k) \subseteq BlocksIn(q, k) /\ (Head(q).kind = k => BlockOf(Head(q)) \in BlocksIn(q, k))
  BY <1>1, <1>2, <1>3 DEF BlocksIn
<1>5. At(q, k) # {} <=> At(t, k) # {} \/ Head(q).kind = k
  <2>1. ASSUME NEW i \in At(q, k) PROVE (i = 1 /\ Head(q).kind = k) \/ i - 1 \in At(t, k)
    <3>1. i \in DOMAIN q /\ q[i].kind = k
      BY DEF At
    <3>2. CASE i = 1
      BY <3>1, <3>2, <1>1
    <3>3. CASE i - 1 \in DOMAIN t /\ t[i - 1] = q[i]
      BY <3>1, <3>3 DEF At
    <3> QED BY <3>1, <3>2, <3>3, <1>1
  <2> QED BY <2>1, <1>2, <1>3
<1>6. ASSUME OnceIn(q, k) PROVE OnceIn(t, k)
  <2> SUFFICES ASSUME NEW i \in At(t, k), NEW j \in At(t, k), BlockOf(t[i]) = BlockOf(t[j])
               PROVE  i = j
    BY DEF OnceIn
  <2>1. i + 1 = j + 1 /\ i \in Nat /\ j \in Nat
    BY <1>2, <1>6 DEF OnceIn
  <2> QED BY <2>1
<1>7. ASSUME OnceIn(q, k), Head(q).kind = k PROVE BlockOf(Head(q)) \notin BlocksIn(t, k)
  <2> SUFFICES ASSUME NEW i \in At(t, k), BlockOf(t[i]) = BlockOf(Head(q)) PROVE FALSE
    BY DEF BlocksIn
  <2> QED BY <1>1, <1>2, <1>3, <1>7 DEF OnceIn
<1> QED BY <1>4, <1>5, <1>6, <1>7 DEF t

\* What is known of an agenda.
AgendaKept(s, u, q) ==
  /\ BlocksAsked(u, q) \subseteq BlocksAsked(s, q)
  /\ OnceAsked(s, q) => OnceAsked(u, q)

LEMMA AgendaAppend ==
  ASSUME NEW s, s.agenda \in Seq(SelfMsgs), NEW r, NEW m, NEW u, u.agenda = Append(s.agenda, SelfMsg(r, m))
  PROVE  /\ m.kind # "REMOVE_THREAD" => Removals(u) \subseteq Removals(s)
         /\ Removals(u) \subseteq Removals(s) \cup {r}
         /\ \A q : News(s, q) => News(u, q)
         /\ m.kind \in {"BITFIELD", "HAVE"} => News(u, r)
         /\ \A q : q # r \/ m.kind # "REQUEST" => AgendaKept(s, u, q)
         /\ BlocksAsked(u, r) \subseteq BlocksAsked(s, r) \cup {BlockOf(m)}
         /\ OnceAsked(s, r) /\ BlockOf(m) \notin BlocksAsked(s, r) => OnceAsked(u, r)
<1> DEFINE a == s.agenda
           b == u.agenda
           n == Len(a) + 1
<1>1. /\ b[n] = SelfMsg(r, m) /\ n \in DOMAIN b
      /\ \A i \in DOMAIN a : i \in DOMAIN b /\ i # n /\ b[i] = a[i]
      /\ \A i \in DOMAIN b : i \in DOMAIN a \/ i = n
  BY AppendedAt
<1>2. b[n].remote = r /\ b[n].msg = m
  BY <1>1 DEF SelfMsg
<1> HIDE DEF n
<1>3. /\ \A q : \A i \in Asked(u, q) : (i \in Asked(s, q) /\ b[i] = a[i])
                                       \/ (i = n /\ q = r /\ m.kind = "REQUEST")
      /\ \A q : \A i \in Asked(s, q) : b[i] = a[i] /\ i # n
  BY <1>1, <1>2 DEF Asked
<1>4. m.kind # "REMOVE_THREAD" => Removals(u) \subseteq Removals(s)
  BY <1>1, <1>2 DEF Removals
<1>5. Removals(u) \subseteq Removals(s) \cup {r}
  BY <1>1, <1>2 DEF Removals
<1>6. \A q : News(s, q) => News(u, q)
  BY <1>1 DEF News
<1>7. m.kind \in {"BITFIELD", "HAVE"} => News(u, r)
  BY <1>1, <1>2 DEF News
<1>8. ASSUME NEW q, q # r \/ m.kind # "REQUEST" PROVE AgendaKept(s, u, q)
  <2>1. \A i \in Asked(u, q) : i \in Asked(s, q) /\ b[i] = a[i]
    BY <1>3, <1>8
  <2>2. BlocksAsked(u, q) \subseteq BlocksAsked(s, q)
    BY <2>1 DEF BlocksAsked
  <2>3. OnceAsked(s, q) => OnceAsked(u, q)
    BY <2>1 DEF OnceAsked
  <2> QED BY <2>2, <2>3 DEF AgendaKept
<1>9. BlocksAsked(u, r) \subseteq BlocksAsked(s, r) \cup {BlockOf(m)}
  <2> SUFFICES ASSUME NEW i \in Asked(u, r)
               PROVE  BlockOf(b[i].msg) \in BlocksAsked(s, r) \cup {BlockOf(m)}
    BY DEF BlocksAsked
  <2>1. CASE i \in Asked(s, r) /\ b[i] = a[i]
    BY <2>1 DEF BlocksAsked
  <2>2. CASE i = n
    BY <2>2, <1>2
  <2> QED BY <1>3, <2>1, <2>2
<1>10. ASSUME OnceAsked(s, r), BlockOf(m) \notin BlocksAsked(s, r) PROVE OnceAsked(u, r)
  <2> SUFFICES ASSUME NEW i \in Asked(u, r), NEW j \in Asked(u, r), BlockOf(b[i].msg) = BlockOf(b[j].msg)
               PROVE  i = j
    BY DEF OnceAsked
  <2>1. \A k \in Asked(s, r) : BlockOf(a[k].msg) # BlockOf(m)
    BY <1>10 DEF BlocksAsked
  <2>2. CASE i \in Asked(s, r) /\ j \in Asked(s, r)
    BY <2>2, <1>3, <1>10 DEF OnceAsked
  <2>3. CASE i \in Asked(s, r) /\ j = n
    BY <2>3, <1>2, <1>3, <2>1
  <2>4. CASE j \in Asked(s, r) /\ i = n
    BY <2>4, <1>2, <1>3, <2>1
  <2> QED BY <1>3, <2>2, <2>3, <2>4
<1> QED BY <1>4, <1>5, <1>6, <1>7, <1>8, <1>9, <1>10

LEMMA AgendaTail ==
  ASSUME NEW s, s.agenda \in Seq(SelfMsgs), s.agenda # <<>>, NEW u, u.agenda = Tail(s.agenda)
  PROVE  /\ Removals(u) \subseteq Removals(s)
         /\ Head(s.agenda) \in SelfMsgs
         /\ Head(s.agenda).msg.kind = "REMOVE_THREAD" => Head(s.agenda).remote \in Removals(s)
         /\ \A q : News(s, q) /\ (q # Head(s.agenda).remote \/ Head(s.agenda).msg.kind \notin {"BITFIELD", "HAVE"})
                   => News(u, q)
         /\ \A q : AgendaKept(s, u, q)
         /\ Head(s.agenda).msg.kind = "REQUEST" =>
              /\ BlockOf(Head(s.agenda).msg) \in BlocksAsked(s, Head(s.agenda).remote)
              /\ OnceAsked(s, Head(s.agenda).remote)
                    => BlockOf(Head(s.agenda).msg) \notin BlocksAsked(u, Head(s.agenda).remote)
<1> DEFINE a == s.agenda
           b == u.agenda
           h == Head(a)
<1>1. /\ 1 \in DOMAIN a /\ h = a[1] /\ h \in SelfMsgs
      /\ \A i \in DOMAIN b : i \in Nat /\ i + 1 \in DOMAIN a /\ i + 1 # 1 /\ b[i] = a[i + 1]
      /\ \A i \in DOMAIN a : i = 1 \/ (i \in Nat /\ i - 1 \in DOMAIN b /\ b[i - 1] = a[i])
  BY TailAt
<1>2. h.remote \in Remote
  BY <1>1 DEF SelfMsgs
<1> HIDE DEF h
<1>3. \A q : \A i \in Asked(u, q) : i \in Nat /\ i + 1 \in Asked(s, q) /\ b[i] = a[i + 1] /\ i + 1 # 1
  BY <1>1 DEF Asked
<1>4. Removals(u) \subseteq Removals(s)
  <2> SUFFICES ASSUME NEW r \in Removals(u) PROVE r \in Removals(s)
    OBVIOUS
  <2>1. PICK i \in DOMAIN b : b[i].remote = r /\ b[i].msg.kind = "REMOVE_THREAD" /\ r \in Remote
    BY DEF Removals
  <2>2. i + 1 \in DOMAIN a /\ a[i + 1] = b[i]
    BY <1>1
  <2> QED BY <2>1, <2>2 DEF Removals
<1>5. h.msg.kind = "REMOVE_THREAD" => h.remote \in Removals(s)
  BY <1>1, <1>2 DEF Removals
<1>6. ASSUME NEW q, News(s, q), q # h.remote \/ h.msg.kind \notin {"BITFIELD", "HAVE"}
      PROVE  News(u, q)
  <2>1. PICK i \in DOMAIN a : a[i].remote = q /\ a[i].msg.kind \in {"BITFIELD", "HAVE"}
    BY <1>6 DEF News
  <2>2. i # 1
    BY <2>1, <1>1, <1>6
  <2>3. i - 1 \in DOMAIN b /\ b[i - 1] = a[i]
    BY <2>2, <1>1
  <2> QED BY <2>1, <2>3 DEF News
<1>7. \A q : AgendaKept(s, u, q)
  <2> TAKE q
  <2>1. BlocksAsked(u, q) \subseteq BlocksAsked(s, q)
    BY <1>3 DEF BlocksAsked
  <2>2. ASSUME OnceAsked(s, q), NEW i \in Asked(u, q), NEW j \in Asked(u, q),
               BlockOf(b[i].msg) = BlockOf(b[j].msg)
        PROVE  i = j
    <3>2. /\ i \in Nat /\ i + 1 \in Asked(s, q) /\ b[i] = a[i + 1]
          /\ j \in Nat /\ j + 1 \in Asked(s, q) /\ b[j] = a[j + 1]
      BY <2>2, <1>3
    <3>1. i + 1 = j + 1 /\ i \in Nat /\ j \in Nat
      BY <2>2, <3>2 DEF OnceAsked
    <3> QED BY <3>1
  <2> QED BY <2>1, <2>2 DEF AgendaKept, OnceAsked
<1>8. ASSUME h.msg.kind = "REQUEST"
      PROVE  /\ BlockOf(h.msg) \in BlocksAsked(s, h.remote)
             /\ OnceAsked(s, h.remote) => BlockOf(h.msg) \notin BlocksAsked(u, h.remote)
  <2>1. 1 \in Asked(s, h.remote)
    BY <1>1, <1>8 DEF Asked
  <2>2. BlockOf(h.msg) \in BlocksAsked(s, h.remote)
    BY <2>1, <1>1 DEF BlocksAsked
  <2>3. ASSUME OnceAsked(s, h.remote), NEW i \in Asked(u, h.remote), BlockOf(b[i].msg) = BlockOf(h.msg)
        PROVE  FALSE
    <3>1. i + 1 \in Asked(s, h.remote) /\ b[i] = a[i + 1] /\ i + 1 # 1
      BY <1>3
    <3>2. BlockOf(a[i + 1].msg) = BlockOf(a[1].msg)
      BY <3>1, <2>3, <1>1
    <3> QED BY <3>1, <3>2, <2>1, <2>3 DEF OnceAsked
  <2> QED BY <2>2, <2>3 DEF BlocksAsked
<1> QED BY <1>1, <1>4, <1>5, <1>6, <1>7, <1>8 DEF h

\* The loop of updateInterests put at the head.
LEMMA AgendaAhead ==
  ASSUME NEW s, s.agenda \in Seq(SelfMsgs), NEW c \in Seq(SelfMsgs),
         \A i \in DOMAIN c : c[i].msg.kind = "INTEREST", NEW u, u.agenda = c \o s.agenda
  PROVE  /\ Removals(u) \subseteq Removals(s)
         /\ \A q : News(s, q) => News(u, q)
         /\ \A q : AgendaKept(s, u, q)
<1> DEFINE a == s.agenda
           b == u.agenda
           n == Len(c)
<1>1. n \in Nat /\ DOMAIN c = 1 .. n /\ Len(a) \in Nat /\ DOMAIN a = 1 .. Len(a)
  OBVIOUS
<1>2. DOMAIN b = 1 .. n + Len(a)
  BY <1>1
<1>3. \A i \in 1 .. n + Len(a) : b[i] = IF i <= n THEN c[i] ELSE a[i - n]
  BY <1>1
<1>4. \A i \in DOMAIN b : \/ b[i].msg.kind = "INTEREST"
                          \/ i \in Int /\ i - n \in DOMAIN a /\ b[i] = a[i - n]
  <2> TAKE i \in DOMAIN b
  <2>1. CASE i <= n
    BY <2>1, <1>1, <1>2, <1>3
  <2>2. CASE ~(i <= n)
    BY <2>2, <1>1, <1>2, <1>3
  <2> QED BY <2>1, <2>2
<1>5. \A i \in DOMAIN a : n + i \in DOMAIN b /\ b[n + i] = a[i]
  <2> TAKE i \in DOMAIN a
  <2>1. i \in Nat /\ n + i \in 1 .. n + Len(a) /\ ~(n + i <= n) /\ (n + i) - n = i
    BY <1>1
  <2> QED BY <2>1, <1>2, <1>3
<1> HIDE DEF n
<1>6. \A q : \A i \in Asked(u, q) : i \in Int /\ i - n \in Asked(s, q) /\ b[i] = a[i - n]
  BY <1>4 DEF Asked
<1>7. Removals(u) \subseteq Removals(s)
  BY <1>4 DEF Removals
<1>8. \A q : News(s, q) => News(u, q)
  BY <1>5 DEF News
<1>9. \A q : AgendaKept(s, u, q)
  <2> TAKE q
  <2>1. BlocksAsked(u, q) \subseteq BlocksAsked(s, q)
    BY <1>6 DEF BlocksAsked
  <2>2. ASSUME OnceAsked(s, q), NEW i \in Asked(u, q), NEW j \in Asked(u, q),
               BlockOf(b[i].msg) = BlockOf(b[j].msg)
        PROVE  i = j
    <3>3. /\ i \in Int /\ i - n \in Asked(s, q) /\ b[i] = a[i - n]
          /\ j \in Int /\ j - n \in Asked(s, q) /\ b[j] = a[j - n]
      BY <2>2, <1>6
    <3>1. i - n = j - n /\ i \in Int /\ j \in Int
      BY <2>2, <3>3 DEF OnceAsked
    <3>2. n \in Int
      BY <1>1 DEF n
    <3> QED BY <3>1, <3>2
  <2> QED BY <2>1, <2>2 DEF AgendaKept, OnceAsked
<1> QED BY <1>7, <1>8, <1>9

-----------------------------------------------------------------------------
(* What carries over from one state of the peer to another *)

\* For the wire of thread r: nothing is under way that was not, and a request is only dropped when
\* its block is there.
WireLike(s, u, r) ==
  /\ u.thread[r].conn = s.thread[r].conn
  /\ u.thread[r].peerChoking = s.thread[r].peerChoking
  /\ AgendaKept(s, u, r)
  /\ BlocksIn(u.toRemote[r], "REQUEST") \subseteq BlocksIn(s.toRemote[r], "REQUEST")
  /\ u.state = "NORMAL" /\ OnceIn(s.toRemote[r], "REQUEST") => OnceIn(u.toRemote[r], "REQUEST")
  /\ u.state = "NORMAL"  => s.state = "NORMAL" /\ Req(s, r) \subseteq Req(u, r)
  /\ u.state = "ENDGAME" => /\ s.state \in {"NORMAL", "ENDGAME"}
                            /\ Req(s, r) \subseteq Req(u, r) \cup u.localBitfield.blockfield
                            /\ s.localBitfield.blockfield \subseteq u.localBitfield.blockfield

LEMMA RequestingBlocks ==
  ASSUME NEW s, NEW r
  PROVE  Requesting(s, r) <=> BlocksIn(s.toRemote[r], "REQUEST") # {}
BY DEF Requesting, BlocksIn

LEMMA PhaseMonotone ==
  ASSUME NEW t, NEW v, NEW a \in BOOLEAN, NEW b \in BOOLEAN, NEW q, NEW m, Phase(t, a, q, m),
         v.conn = t.conn, v.peerChoking = t.peerChoking, b => a
  PROVE  Phase(v, b, q, m)
BY DEF Phase

LEMMA WireStays ==
  ASSUME NEW s, NEW u, NEW r, NEW q, NEW m, Wire(s, q, m, r), WireLike(s, u, r)
  PROVE  Wire(u, q, m, r)
<1>1. Orderly(q)
  BY DEF Wire
<1>2. Phase(u.thread[r], Requesting(u, r), q, m)
  <2>1. Requesting(u, r) => Requesting(s, r)
    BY RequestingBlocks DEF WireLike
  <2>2. Requesting(u, r) \in BOOLEAN /\ Requesting(s, r) \in BOOLEAN
    BY DEF Requesting
  <2> QED BY <2>1, <2>2, PhaseMonotone DEF Wire, WireLike
<1>3. Underway(u, q, r)
  <2> DEFINE A == BlocksAsked(s, r)
             R == BlocksIn(s.toRemote[r], "REQUEST")
             P == BlocksIn(q, "PIECE")
             A2 == BlocksAsked(u, r)
             R2 == BlocksIn(u.toRemote[r], "REQUEST")
  <2>1. Underway(s, q, r)
    BY DEF Wire
  <2>2. A2 \subseteq A /\ R2 \subseteq R /\ u.thread[r].peerChoking = s.thread[r].peerChoking
    BY DEF WireLike, AgendaKept
  <2>3. s.thread[r].peerChoking => A = {}
    BY <2>1 DEF Underway
  <2>4. ASSUME ~u.thread[r].peerChoking, u.state = "NORMAL"
        PROVE  /\ A2 \cup R2 \cup P \subseteq Req(u, r)
               /\ A2 \cap R2 = {} /\ A2 \cap P = {} /\ R2 \cap P = {}
               /\ OnceAsked(u, r) /\ OnceIn(u.toRemote[r], "REQUEST") /\ OnceIn(q, "PIECE")
    <3>1. s.state = "NORMAL" /\ Req(s, r) \subseteq Req(u, r) /\ ~s.thread[r].peerChoking
      BY <2>4, <2>2 DEF WireLike
    <3>2. /\ A \cup R \cup P \subseteq Req(s, r)
          /\ A \cap R = {} /\ A \cap P = {} /\ R \cap P = {}
          /\ OnceAsked(s, r) /\ OnceIn(s.toRemote[r], "REQUEST") /\ OnceIn(q, "PIECE")
      BY <2>1, <3>1 DEF Underway
    <3>3. OnceAsked(u, r) /\ OnceIn(u.toRemote[r], "REQUEST")
      BY <3>2, <2>4 DEF WireLike, AgendaKept
    <3> HIDE DEF A, R, P, A2, R2
    <3> QED BY <3>1, <3>2, <3>3, <2>2
  <2>5. ASSUME ~u.thread[r].peerChoking, u.state = "ENDGAME"
        PROVE  A2 \cup R2 \cup P \subseteq Req(u, r) \cup u.localBitfield.blockfield
    <3>1. /\ s.state \in {"NORMAL", "ENDGAME"} /\ ~s.thread[r].peerChoking
          /\ Req(s, r) \subseteq Req(u, r) \cup u.localBitfield.blockfield
          /\ s.localBitfield.blockfield \subseteq u.localBitfield.blockfield
      BY <2>5, <2>2 DEF WireLike
    <3>2. A \cup R \cup P \subseteq Req(s, r) \cup s.localBitfield.blockfield
      BY <2>1, <3>1 DEF Underway
    <3> HIDE DEF A, R, P, A2, R2
    <3> QED BY <3>1, <3>2, <2>2
  <2> QED BY <2>2, <2>3, <2>4, <2>5 DEF Underway
<1> QED BY <1>1, <1>2, <1>3 DEF Wire

\* A state of the peer with the same books and nothing more under way.
Alike(s, u) ==
  /\ u.localBitfield = s.localBitfield
  /\ u.state = s.state
  /\ u.enableEndGameMode = s.enableEndGameMode
  /\ Removals(u) \subseteq Removals(s)
  /\ \A r \in Remote :
       /\ u.thread[r].conn = s.thread[r].conn
       /\ u.thread[r].peerChoking = s.thread[r].peerChoking
       /\ u.thread[r].requests = s.thread[r].requests
       /\ u.thread[r].announced = s.thread[r].announced
       /\ AgendaKept(s, u, r)
       /\ BlocksIn(u.toRemote[r], "REQUEST") \subseteq BlocksIn(s.toRemote[r], "REQUEST")
       /\ OnceIn(s.toRemote[r], "REQUEST") => OnceIn(u.toRemote[r], "REQUEST")

LEMMA AlikeBooks ==
  ASSUME NEW s, NEW u, Alike(s, u)
  PROVE  /\ Books(s) => Books(u)
         /\ Threads(s) => Threads(u)
         /\ \A r \in Remote : Req(u, r) = Req(s, r)
<1>1. \A r \in Remote : Req(u, r) = Req(s, r)
  BY DEF Alike, Req
<1>2. PendingOf(u) = PendingOf(s)
  BY <1>1 DEF PendingOf
<1>3. Orders(s) => Orders(u)
  <2>1. OwnPieces(s) => OwnPieces(u)
    BY <1>1 DEF OwnPieces
  <2> QED BY <2>1 DEF Orders, Alike
<1>4. Books(s) => Books(u)
  BY <1>2, <1>3 DEF Books, Alike
<1>5. Threads(s) => Threads(u)
  BY DEF Threads, Alike
<1> QED BY <1>1, <1>4, <1>5

LEMMA AlikeOK ==
  ASSUME NEW s, NEW u \in PeerType, NEW f, NEW g, PeerOK(s, f, g), Alike(s, u)
  PROVE  PeerOK(u, f, g)
<1>1. \A r \in Remote : WireLike(s, u, r)
  <2> TAKE r \in Remote
  <2>1. Req(u, r) = Req(s, r)
    BY AlikeBooks
  <2>2. s.state \in {"NORMAL", "ENDGAME", "SEEDING"}
    BY DEF PeerOK, PeerType
  <2> QED BY <2>1, <2>2 DEF Alike, WireLike
<1>2. \A r \in Remote : Wire(u, f[r], g[r], r)
  BY <1>1, WireStays DEF PeerOK
<1> QED BY <1>2, AlikeBooks DEF PeerOK

LEMMA AlikeComposed ==
  ASSUME NEW s, NEW u, NEW v, Alike(s, u), Alike(u, v)
  PROVE  Alike(s, v)
<1>1. \A r \in Remote : AgendaKept(s, v, r)
  BY DEF Alike, AgendaKept
<1> QED BY <1>1 DEF Alike

\* Interest is kept, and so is the news of it.
Kept(s, u) ==
  /\ s.localBitfield.bitfield \subseteq u.localBitfield.bitfield
  /\ Completed(s) => Completed(u)
  /\ \A r \in Remote :
       /\ u.thread[r].remoteBitfield = s.thread[r].remoteBitfield
       /\ s.thread[r].amInterested => u.thread[r].amInterested
       /\ News(s, r) => News(u, r)

LEMMA KeptTold ==
  ASSUME NEW s, NEW u, Kept(s, u), NEW r \in Remote, Told(s, r)
  PROVE  Told(u, r)
<1>1. AmInterested(u, r) => AmInterested(s, r)
  BY DEF AmInterested, Kept
<1> QED BY <1>1 DEF Told, Kept

LEMMA KeptComposed ==
  ASSUME NEW s, NEW u, NEW v, Kept(s, u), Kept(u, v)
  PROVE  Kept(s, v)
BY DEF Kept

-----------------------------------------------------------------------------
(* Types, and the plain steps *)

LEMMA Sizes == /\ Piece \in SUBSET Nat /\ Block \in SUBSET Nat
               /\ IsFiniteSet(Piece) /\ IsFiniteSet(Block)
               /\ Cardinality(Piece) = NumPieces /\ Cardinality(Block) = NumBlocks
               /\ 0 \in Piece /\ 0 \in Block /\ IsFiniteSet(Entry)
<1>1. NumPieces \in Nat /\ NumPieces # 0 /\ NumBlocks \in Nat /\ NumBlocks # 0
  BY NumPiecesAssumption, NumBlocksAssumption
<1>2. IsFiniteSet(0 .. NumPieces - 1) /\ IsFiniteSet(0 .. NumBlocks - 1)
  BY <1>1, FS_Interval
<1>3. Cardinality(0 .. NumPieces - 1) = NumPieces
  <2>1. 0 \in Int /\ NumPieces - 1 \in Int
    BY <1>1
  <2>2. Cardinality(0 .. NumPieces - 1) = IF 0 > NumPieces - 1 THEN 0 ELSE (NumPieces - 1) - 0 + 1
    BY <2>1, FS_Interval, Zenon
  <2> QED BY <1>1, <2>2
<1>4. Cardinality(0 .. NumBlocks - 1) = NumBlocks
  <2>1. 0 \in Int /\ NumBlocks - 1 \in Int
    BY <1>1
  <2>2. Cardinality(0 .. NumBlocks - 1) = IF 0 > NumBlocks - 1 THEN 0 ELSE (NumBlocks - 1) - 0 + 1
    BY <2>1, FS_Interval, Zenon
  <2> QED BY <1>1, <2>2
<1>5. IsFiniteSet(Entry)
  BY <1>2, FS_Product DEF Entry, Piece, Block
<1> QED BY <1>1, <1>2, <1>3, <1>4, <1>5 DEF Piece, Block

LEMMA MsgTypes ==
  /\ \A kinds : \A k \in kinds : Msg(k) \in Messages(kinds) /\ Msg(k).kind = k
  /\ \A kinds : \A k \in kinds : \A e \in Entry :
        /\ RequestMsg(k, e) \in Messages(kinds)
        /\ RequestMsg(k, e).kind = k /\ BlockOf(RequestMsg(k, e)) = e
  /\ \A p \in Piece : HaveMsg(p) \in Messages(FromKinds) /\ HaveMsg(p).kind = "HAVE"
  /\ \A S \in SUBSET Piece : BitfieldMsg(S) \in Messages(FromKinds) /\ BitfieldMsg(S).kind = "BITFIELD"
  /\ \A e \in Entry : /\ PieceMsg(e) \in Messages(FromKinds) /\ PieceMsg(e).kind = "PIECE"
                      /\ BlockOf(PieceMsg(e)) = e
<1>1. 0 \in Piece /\ 0 \in Block
  BY Sizes
<1>2. \A kinds : \A k \in kinds : Msg(k) \in Messages(kinds) /\ Msg(k).kind = k
  BY <1>1 DEF Msg, Messages
<1>3. \A e \in Entry : e[1] \in Piece /\ e[2] \in Block /\ <<e[1], e[2]>> = e
  BY DEF Entry
<1>4. ASSUME NEW kinds, NEW k \in kinds, NEW e \in Entry
      PROVE  /\ RequestMsg(k, e) \in Messages(kinds)
             /\ RequestMsg(k, e).kind = k /\ BlockOf(RequestMsg(k, e)) = e
  BY <1>1, <1>3 DEF Msg, Messages, RequestMsg, BlockOf
<1>5. \A p \in Piece : HaveMsg(p) \in Messages(FromKinds) /\ HaveMsg(p).kind = "HAVE"
  BY <1>1 DEF Msg, Messages, HaveMsg, FromKinds
<1>6. \A S \in SUBSET Piece : BitfieldMsg(S) \in Messages(FromKinds) /\ BitfieldMsg(S).kind = "BITFIELD"
  BY <1>1 DEF Msg, Messages, BitfieldMsg, FromKinds
<1>7. \A e \in Entry : /\ PieceMsg(e) \in Messages(FromKinds) /\ PieceMsg(e).kind = "PIECE"
                       /\ BlockOf(PieceMsg(e)) = e
  BY <1>1, <1>3 DEF Msg, Messages, PieceMsg, BlockOf, FromKinds
<1> QED BY <1>2, <1>4, <1>5, <1>6, <1>7

LEMMA Scheduled ==
  ASSUME NEW s \in PeerType, NEW r \in Remote, NEW m \in Messages(SelfKinds)
  PROVE  /\ Schedule(s, r, m) \in PeerType
         /\ Schedule(s, r, m) = [s EXCEPT !.agenda = Append(s.agenda, SelfMsg(r, m))]
         /\ Schedule(s, r, m).agenda = Append(s.agenda, SelfMsg(r, m))
<1>1. SelfMsg(r, m) \in SelfMsgs
  BY DEF SelfMsg, SelfMsgs
<1>2. s.agenda \in Seq(SelfMsgs)
  BY DEF PeerType
<1>3. Append(s.agenda, SelfMsg(r, m)) \in Seq(SelfMsgs)
  BY <1>1, <1>2
<1> QED BY <1>3 DEF PeerType, Schedule

LEMMA ScheduledAlike ==
  ASSUME NEW s \in PeerType, NEW r \in Remote, NEW m \in Messages(SelfKinds),
         m.kind \notin {"REQUEST", "REMOVE_THREAD"}
  PROVE  /\ Schedule(s, r, m) \in PeerType
         /\ Alike(s, Schedule(s, r, m)) /\ Kept(s, Schedule(s, r, m))
         /\ m.kind \in {"BITFIELD", "HAVE"} => News(Schedule(s, r, m), r)
<1> DEFINE u == Schedule(s, r, m)
<1>1. u \in PeerType /\ u.agenda = Append(s.agenda, SelfMsg(r, m))
  BY Scheduled
<1>2. s.agenda \in Seq(SelfMsgs)
  BY DEF PeerType
<1>3. /\ u.localBitfield = s.localBitfield /\ u.state = s.state
      /\ u.enableEndGameMode = s.enableEndGameMode /\ u.thread = s.thread /\ u.toRemote = s.toRemote
  BY DEF Schedule, PeerType
<1> HIDE DEF u
<1>7. /\ m.kind # "REMOVE_THREAD" => Removals(u) \subseteq Removals(s)
      /\ \A q : News(s, q) => News(u, q)
      /\ m.kind \in {"BITFIELD", "HAVE"} => News(u, r)
      /\ \A q : q # r \/ m.kind # "REQUEST" => AgendaKept(s, u, q)
  BY <1>1, <1>2, AgendaAppend
<1>4. /\ Removals(u) \subseteq Removals(s)
      /\ \A q : News(s, q) => News(u, q)
      /\ m.kind \in {"BITFIELD", "HAVE"} => News(u, r)
      /\ \A q : AgendaKept(s, u, q)
  BY <1>7
<1>5. Alike(s, u)
  BY <1>3, <1>4 DEF Alike
<1>6. Kept(s, u)
  BY <1>3, <1>4 DEF Kept, Completed
<1> QED BY <1>1, <1>4, <1>5, <1>6 DEF u

LEMMA Sent ==
  ASSUME NEW s \in PeerType, NEW r \in Remote, NEW m \in Messages(ToKinds)
  PROVE  /\ SendMessage(s, r, m) \in PeerType
         /\ Kept(s, SendMessage(s, r, m))
         /\ m.kind # "REQUEST" => Alike(s, SendMessage(s, r, m))
         /\ SendMessage(s, r, m).thread = s.thread
         /\ SendMessage(s, r, m).localBitfield = s.localBitfield
         /\ SendMessage(s, r, m).agenda = s.agenda
         /\ SendMessage(s, r, m).state = s.state
<1> DEFINE u == SendMessage(s, r, m)
<1>1. CASE ~Established(s, r)
  <2>1. u = s
    BY <1>1 DEF SendMessage
  <2>2. Alike(s, s) /\ Kept(s, s)
    BY DEF Alike, Kept, AgendaKept
  <2> QED BY <2>1, <2>2
<1>2. CASE Established(s, r)
  <2>1. u = [s EXCEPT !.toRemote[r] = Append(@, m)]
    BY <1>2 DEF SendMessage
  <2>2. s.toRemote \in [Remote -> Seq(Messages(ToKinds))] /\ s.toRemote[r] \in Seq(Messages(ToKinds))
    BY DEF PeerType
  <2>3. Append(s.toRemote[r], m) \in Seq(Messages(ToKinds))
    BY <2>2
  <2>4. u \in PeerType
    <3>1. [s.toRemote EXCEPT ![r] = Append(@, m)] \in [Remote -> Seq(Messages(ToKinds))]
      BY <2>2, <2>3
    <3>2. u = [s EXCEPT !.toRemote = [s.toRemote EXCEPT ![r] = Append(@, m)]]
      BY <2>1
    <3> HIDE DEF u
    <3> QED BY <3>1, <3>2 DEF PeerType
  <2>5. /\ u.localBitfield = s.localBitfield /\ u.state = s.state
        /\ u.enableEndGameMode = s.enableEndGameMode /\ u.thread = s.thread /\ u.agenda = s.agenda
        /\ u.toRemote[r] = Append(s.toRemote[r], m)
        /\ \A q \in Remote \ {r} : u.toRemote[q] = s.toRemote[q]
    BY <2>1, <2>2 DEF PeerType
  <2> HIDE DEF u
  <2>6. Kept(s, u)
    BY <2>5 DEF Kept, Completed, News
  <2>7. ASSUME m.kind # "REQUEST"
        PROVE  Alike(s, u)
    <3>1. /\ BlocksIn(Append(s.toRemote[r], m), "REQUEST") = BlocksIn(s.toRemote[r], "REQUEST") \cup
                {BlockOf(x) : x \in {y \in {m} : y.kind = "REQUEST"}}
          /\ OnceIn(s.toRemote[r], "REQUEST") => OnceIn(Append(s.toRemote[r], m), "REQUEST")
      BY <2>2, <2>7, WireAppend
    <3>2. {y \in {m} : y.kind = "REQUEST"} = {}
      BY <2>7
    <3>3. BlocksIn(u.toRemote[r], "REQUEST") \subseteq BlocksIn(s.toRemote[r], "REQUEST")
      BY <2>5, <3>1, <3>2
    <3>4. \A q : AgendaKept(s, u, q)
      BY <2>5 DEF AgendaKept, BlocksAsked, OnceAsked, Asked
    <3>5. Removals(u) \subseteq Removals(s)
      BY <2>5 DEF Removals
    <3> QED BY <2>5, <3>1, <3>3, <3>4, <3>5 DEF Alike
  <2> QED BY <2>4, <2>5, <2>6, <2>7 DEF u
<1> QED BY <1>1, <1>2

\* A thread gets a new state.
SetThread(s, u, r, t) == u = [s EXCEPT !.thread = [s.thread EXCEPT ![r] = t]]

LEMMA ThreadSet ==
  ASSUME NEW s \in PeerType, NEW r \in Remote, NEW t \in ThreadType, NEW u,
         SetThread(s, u, r, t)
  PROVE  /\ u \in PeerType
         /\ u.thread[r] = t
         /\ \A q \in Remote \ {r} : u.thread[q] = s.thread[q]
         /\ u.localBitfield = s.localBitfield /\ u.state = s.state
         /\ u.enableEndGameMode = s.enableEndGameMode /\ u.agenda = s.agenda
         /\ u.toRemote = s.toRemote /\ u.peerState = s.peerState
         /\ u.endGameRequests = s.endGameRequests
         /\ \A q : AgendaKept(s, u, q) /\ (News(s, q) => News(u, q))
         /\ Removals(u) \subseteq Removals(s)
<1>1. s.thread \in [Remote -> ThreadType]
  BY DEF PeerType
<1>2. [s.thread EXCEPT ![r] = t] \in [Remote -> ThreadType]
  BY <1>1
<1>3. u \in PeerType
  BY <1>2 DEF PeerType, SetThread
<1>4. /\ u.thread = [s.thread EXCEPT ![r] = t]
      /\ u.localBitfield = s.localBitfield /\ u.state = s.state
      /\ u.enableEndGameMode = s.enableEndGameMode /\ u.agenda = s.agenda
      /\ u.toRemote = s.toRemote /\ u.peerState = s.peerState
      /\ u.endGameRequests = s.endGameRequests
  BY DEF PeerType, SetThread
<1>5. u.thread[r] = t /\ \A q \in Remote \ {r} : u.thread[q] = s.thread[q]
  BY <1>1, <1>4
<1>6. \A q : AgendaKept(s, u, q) /\ (News(s, q) => News(u, q))
  BY <1>4 DEF AgendaKept, News, BlocksAsked, OnceAsked, Asked
<1>7. Removals(u) \subseteq Removals(s)
  BY <1>4 DEF Removals
<1> QED BY <1>3, <1>4, <1>5, <1>6, <1>7

LEMMA ThreadSetAlike ==
  ASSUME NEW s \in PeerType, NEW r \in Remote, NEW t \in ThreadType, NEW u,
         SetThread(s, u, r, t),
         t.conn = s.thread[r].conn, t.peerChoking = s.thread[r].peerChoking,
         t.requests = s.thread[r].requests, t.announced = s.thread[r].announced
  PROVE  /\ u \in PeerType /\ Alike(s, u)
         /\ t.remoteBitfield = s.thread[r].remoteBitfield /\ (s.thread[r].amInterested => t.amInterested)
               => Kept(s, u)
<1>1. /\ u \in PeerType
      /\ u.thread[r] = t
      /\ \A q \in Remote \ {r} : u.thread[q] = s.thread[q]
      /\ u.localBitfield = s.localBitfield /\ u.state = s.state
      /\ u.enableEndGameMode = s.enableEndGameMode /\ u.agenda = s.agenda
      /\ u.toRemote = s.toRemote /\ u.peerState = s.peerState
      /\ u.endGameRequests = s.endGameRequests
      /\ \A q : AgendaKept(s, u, q) /\ (News(s, q) => News(u, q))
      /\ Removals(u) \subseteq Removals(s)
  BY ThreadSet
<1>2. Alike(s, u)
  BY <1>1 DEF Alike
<1> QED BY <1>1, <1>2 DEF Kept, Completed

LEMMA Folded ==
  ASSUME NEW D, NEW n \in Nat, NEW F \in [D \X (1 .. n) -> D], NEW s \in D, NEW f,
         \A g \in [SUBSET (1 .. n) -> D] : Folds(g, SUBSET (1 .. n), F, s) => Unfolds(f, n, D, F, s)
  PROVE  f[1 .. n] \in D /\ RunsTo(f[1 .. n], n, D, F, s)
<1>1. PICK g \in [SUBSET (1 .. n) -> D] : Folds(g, SUBSET (1 .. n), F, s)
  BY FoldExists
<1>2. Unfolds(f, n, D, F, s)
  BY <1>1
<1>3. RunsTo(f[1 .. n], n, D, F, s)
  BY <1>2, FoldIsRun
<1>4. f[1 .. n] \in D
  BY <1>3 DEF Runs, RunsTo
<1> QED BY <1>3, <1>4

-----------------------------------------------------------------------------
(* The end game *)

LEMMA GatherType ==
  ASSUME NEW s \in PeerType, NEW list \in Seq(Remote \X Entry), NEW r \in Remote
  PROVE  Gather(s, list, r) \in Seq(Remote \X Entry)
<1> DEFINE D == Seq(Remote \X Entry)
           seq == s.thread[r].requests
           n == Len(seq)
           Step(l, e) == IF Available(s, e) THEN l ELSE Append(l, <<r, e>>)
           F == [x \in D \X (1 .. n) |-> Step(x[1], seq[x[2]])]
           f == CHOOSE g : g = [S \in SUBSET (1 .. n) |->
                                  IF S = {} THEN list ELSE Step(g[S \ {Max(S)}], seq[Max(S)])]
<1>1. seq \in Seq(Entry)
  BY DEF PeerType, ThreadType
<1>2. n \in Nat /\ DOMAIN seq = 1 .. n
  BY <1>1
<1>3. Gather(s, list, r) = f[1 .. n]
  BY <1>2 DEF Gather, FoldLeft, MapThenFoldSet
<1>4. F \in [D \X (1 .. n) -> D]
  <2>1. ASSUME NEW l \in D, NEW i \in 1 .. n PROVE Step(l, seq[i]) \in D
    <3>1. <<r, seq[i]>> \in Remote \X Entry
      BY <1>1, <1>2
    <3> QED BY <3>1
  <2> HIDE DEF D, Step
  <2> QED BY <2>1
<1>5. ASSUME NEW g \in [SUBSET (1 .. n) -> D], Folds(g, SUBSET (1 .. n), F, list)
      PROVE  Unfolds(f, n, D, F, list)
  <2> HIDE DEF D, seq, n, Step
  <2>1. g = [S \in SUBSET (1 .. n) |-> IF S = {} THEN list ELSE F[<<g[S \ {Max(S)}], Max(S)>>]]
    BY <1>5 DEF Folds
  <2>2. \A S \in SUBSET (1 .. n) : S # {} => Max(S) \in 1 .. n
    BY <1>2, GreatestOf DEF n
  <2>3. \A d \in D : \A i \in 1 .. n : F[<<d, i>>] = Step(d, seq[i])
    OBVIOUS
  <2> HIDE DEF F
  <2>4. \A S \in SUBSET (1 .. n) : S # {} =>
           F[<<g[S \ {Max(S)}], Max(S)>>] = Step(g[S \ {Max(S)}], seq[Max(S)])
    BY <2>2, <2>3
  <2>5. g = [S \in SUBSET (1 .. n) |-> IF S = {} THEN list ELSE Step(g[S \ {Max(S)}], seq[Max(S)])]
    BY <2>1, <2>4
  <2>6. f = [S \in SUBSET (1 .. n) |-> IF S = {} THEN list ELSE Step(f[S \ {Max(S)}], seq[Max(S)])]
    BY <2>5
  <2> HIDE DEF f
  <2>7. f[{}] = list
    BY <2>6
  <2>8. \A S \in SUBSET (1 .. n) : S # {} => f[S] = Step(f[S \ {Max(S)}], seq[Max(S)])
    BY <2>6
  <2> QED BY <2>2, <2>3, <2>7, <2>8 DEF Unfolds
<1> HIDE DEF D, seq, n, Step, F, f
<1>6. list \in D
  BY DEF D
<1>7. f[1 .. n] \in D
  BY <1>2, <1>4, <1>5, <1>6, Folded
<1> QED BY <1>3, <1>7 DEF D

LEMMA AppendSet ==
  ASSUME NEW S, NEW q \in Seq(S), NEW e
  PROVE  ToSet(Append(q, e)) = ToSet(q) \cup {e}
<1>1. /\ Append(q, e)[Len(q) + 1] = e /\ Len(q) + 1 \in DOMAIN Append(q, e)
      /\ \A i \in DOMAIN q : i \in DOMAIN Append(q, e) /\ Append(q, e)[i] = q[i]
      /\ \A i \in DOMAIN Append(q, e) : i \in DOMAIN q \/ i = Len(q) + 1
  BY AppendedAt
<1> QED BY <1>1 DEF ToSet

\* From s to u, requests have been added and may be about to be sent.
EndGame(s, u) ==
  /\ u.localBitfield = s.localBitfield /\ u.state = s.state
  /\ u.enableEndGameMode = s.enableEndGameMode
  /\ u.toRemote = s.toRemote
  /\ Removals(u) \subseteq Removals(s)
  /\ \A r \in Remote :
       /\ u.thread[r].conn = s.thread[r].conn
       /\ u.thread[r].peerChoking = s.thread[r].peerChoking
       /\ u.thread[r].announced = s.thread[r].announced
       /\ u.thread[r].remoteBitfield = s.thread[r].remoteBitfield
       /\ u.thread[r].amInterested = s.thread[r].amInterested
       /\ Req(s, r) \subseteq Req(u, r)
       /\ s.thread[r].peerChoking => /\ u.thread[r].requests = s.thread[r].requests
                                     /\ BlocksAsked(u, r) \subseteq BlocksAsked(s, r)
       /\ BlocksAsked(u, r) \subseteq BlocksAsked(s, r) \cup Req(u, r)
       /\ News(s, r) => News(u, r)

LEMMA EndGameComposed ==
  ASSUME NEW s, NEW u, NEW v, EndGame(s, u), EndGame(u, v)
  PROVE  EndGame(s, v)
<1>1. Removals(v) \subseteq Removals(s)
  BY DEF EndGame
<1>2. ASSUME NEW r \in Remote
      PROVE  /\ Req(s, r) \subseteq Req(v, r)
             /\ s.thread[r].peerChoking => /\ v.thread[r].requests = s.thread[r].requests
                                           /\ BlocksAsked(v, r) \subseteq BlocksAsked(s, r)
             /\ BlocksAsked(v, r) \subseteq BlocksAsked(s, r) \cup Req(v, r)
             /\ News(s, r) => News(v, r)
  BY DEF EndGame
<1> QED BY <1>1, <1>2 DEF EndGame

LEMMA EndGameOK ==
  ASSUME NEW s, NEW u \in PeerType, NEW f, NEW g, PeerOK(s, f, g), s.state = "ENDGAME", EndGame(s, u)
  PROVE  PeerOK(u, f, g) /\ Kept(s, u)
<1>1. Books(u)
  BY DEF PeerOK, Books, EndGame
<1>2. Threads(u)
  BY DEF PeerOK, Threads, EndGame
<1>3. ASSUME NEW r \in Remote PROVE Wire(u, f[r], g[r], r)
  <2>1. Wire(s, f[r], g[r], r)
    BY DEF PeerOK
  <2>2. Requesting(u, r) = Requesting(s, r)
    BY DEF Requesting, EndGame
  <2>3. Requesting(u, r) \in BOOLEAN /\ Requesting(s, r) \in BOOLEAN
    BY DEF Requesting
  <2>4. Phase(u.thread[r], Requesting(u, r), f[r], g[r])
    BY <2>1, <2>2, <2>3, PhaseMonotone DEF Wire, EndGame
  <2>5. Underway(u, f[r], r)
    <3> DEFINE R == BlocksIn(s.toRemote[r], "REQUEST")
               P == BlocksIn(f[r], "PIECE")
    <3>1. u.state = "ENDGAME" /\ u.toRemote[r] = s.toRemote[r]
          /\ u.localBitfield.blockfield = s.localBitfield.blockfield
      BY DEF EndGame
    <3>2. /\ u.thread[r].peerChoking = s.thread[r].peerChoking
          /\ s.thread[r].peerChoking => BlocksAsked(u, r) \subseteq BlocksAsked(s, r)
          /\ Req(s, r) \subseteq Req(u, r)
          /\ BlocksAsked(u, r) \subseteq BlocksAsked(s, r) \cup Req(u, r)
      BY DEF EndGame
    <3>3. /\ s.thread[r].peerChoking => BlocksAsked(s, r) = {}
          /\ ~s.thread[r].peerChoking =>
                BlocksAsked(s, r) \cup R \cup P \subseteq Req(s, r) \cup s.localBitfield.blockfield
      BY <2>1 DEF Wire, Underway
    <3>4. u.thread[r].peerChoking => BlocksAsked(u, r) = {}
      BY <3>2, <3>3
    <3>5. ~u.thread[r].peerChoking =>
             BlocksAsked(u, r) \cup R \cup P \subseteq Req(u, r) \cup u.localBitfield.blockfield
      <4> HIDE DEF R, P
      <4> QED BY <3>1, <3>2, <3>3
    <3> QED BY <3>1, <3>4, <3>5 DEF Underway
  <2> QED BY <2>1, <2>4, <2>5 DEF Wire
<1>4. Kept(s, u)
  BY DEF Kept, EndGame, Completed
<1> QED BY <1>1, <1>2, <1>3, <1>4 DEF PeerOK

LEMMA EndGameSame ==
  ASSUME NEW s
  PROVE  EndGame(s, s)
BY DEF EndGame

LEMMA RequestAdded ==
  ASSUME NEW s \in PeerType, NEW r \in Remote, NEW e \in Entry
  PROVE  /\ AddRequest(s, r, e) \in PeerType
         /\ SetThread(s, AddRequest(s, r, e), r,
                      [s.thread[r] EXCEPT !.requests = Append(s.thread[r].requests, e)])
         /\ [s.thread[r] EXCEPT !.requests = Append(s.thread[r].requests, e)] \in ThreadType
         /\ Req(AddRequest(s, r, e), r) = Req(s, r) \cup {e}
<1> DEFINE u == AddRequest(s, r, e)
           t == [s.thread[r] EXCEPT !.requests = Append(s.thread[r].requests, e)]
<1>1. s.thread \in [Remote -> ThreadType] /\ s.thread[r] \in ThreadType
      /\ s.thread[r].requests \in Seq(Entry)
  BY DEF PeerType, ThreadType
<1>2. Append(s.thread[r].requests, e) \in Seq(Entry)
  BY <1>1
<1>3. t \in ThreadType
  BY <1>1, <1>2 DEF ThreadType
<1>4. SetThread(s, u, r, t)
  BY <1>1 DEF AddRequest, SetThread, PeerType
<1>5. u \in PeerType /\ u.thread[r] = t
  <2> HIDE DEF u, t
  <2> QED BY <1>3, <1>4, ThreadSet
<1>6. u.thread[r].requests = Append(s.thread[r].requests, e)
  <2>1. t.requests = Append(s.thread[r].requests, e)
    BY <1>1 DEF ThreadType
  <2> HIDE DEF u, t
  <2> QED BY <2>1, <1>5
<1>7. Req(u, r) = Req(s, r) \cup {e}
  BY <1>1, <1>6, AppendSet DEF Req
<1> QED BY <1>3, <1>4, <1>5, <1>7

LEMMA EndGameRequestSent ==
  ASSUME NEW s \in PeerType, NEW r \in Remote, NEW e \in Entry, ~s.thread[r].peerChoking
  PROVE  SendEndGameRequest(s, r, e) \in PeerType /\ EndGame(s, SendEndGameRequest(s, r, e))
<1> DEFINE a == [s EXCEPT !.thread[r].inEndGame = TRUE]
           ta == [s.thread[r] EXCEPT !.inEndGame = TRUE]
           b == AddRequest(a, r, e)
           tb == [a.thread[r] EXCEPT !.requests = Append(a.thread[r].requests, e)]
           m == RequestMsg("REQUEST", e)
           c == Schedule(b, r, m)
<1>1. s.thread \in [Remote -> ThreadType] /\ s.thread[r] \in ThreadType
  BY DEF PeerType
<1>2. ta \in ThreadType
  BY <1>1 DEF ThreadType
<1>3. SetThread(s, a, r, ta)
  BY <1>1 DEF SetThread, PeerType
<1>4. /\ ta.conn = s.thread[r].conn /\ ta.peerChoking = s.thread[r].peerChoking
      /\ ta.announced = s.thread[r].announced /\ ta.remoteBitfield = s.thread[r].remoteBitfield
      /\ ta.amInterested = s.thread[r].amInterested /\ ta.requests = s.thread[r].requests
  BY <1>1 DEF ThreadType
<1>5. a \in PeerType /\ EndGame(s, a) /\ ~a.thread[r].peerChoking
  <2> HIDE DEF a, ta
  <2>1. /\ a \in PeerType /\ a.thread[r] = ta
        /\ \A q \in Remote \ {r} : a.thread[q] = s.thread[q]
        /\ a.localBitfield = s.localBitfield /\ a.state = s.state
        /\ a.enableEndGameMode = s.enableEndGameMode /\ a.toRemote = s.toRemote
        /\ \A q : AgendaKept(s, a, q) /\ (News(s, q) => News(a, q))
        /\ Removals(a) \subseteq Removals(s)
    BY <1>2, <1>3, ThreadSet
  <2>2. \A q \in Remote : Req(a, q) = Req(s, q)
    BY <2>1, <1>4 DEF Req
  <2> QED BY <2>1, <2>2, <1>4 DEF EndGame, AgendaKept
<1>6. /\ b \in PeerType /\ SetThread(a, b, r, tb) /\ tb \in ThreadType
      /\ Req(b, r) = Req(a, r) \cup {e}
  <2> HIDE DEF a
  <2> QED BY <1>5, RequestAdded
<1>7. /\ tb.conn = a.thread[r].conn /\ tb.peerChoking = a.thread[r].peerChoking
      /\ tb.announced = a.thread[r].announced /\ tb.remoteBitfield = a.thread[r].remoteBitfield
      /\ tb.amInterested = a.thread[r].amInterested
  <2>1. a.thread[r] \in ThreadType
    BY <1>5 DEF PeerType
  <2> HIDE DEF a
  <2> QED BY <2>1 DEF ThreadType
<1>8. EndGame(a, b)
  <2> HIDE DEF a, b, tb
  <2>1. /\ b.thread[r] = tb
        /\ \A q \in Remote \ {r} : b.thread[q] = a.thread[q]
        /\ b.localBitfield = a.localBitfield /\ b.state = a.state
        /\ b.enableEndGameMode = a.enableEndGameMode /\ b.toRemote = a.toRemote
        /\ \A q : AgendaKept(a, b, q) /\ (News(a, q) => News(b, q))
        /\ Removals(b) \subseteq Removals(a)
    BY <1>5, <1>6, ThreadSet
  <2>2. \A q \in Remote : Req(a, q) \subseteq Req(b, q)
    BY <2>1, <1>6 DEF Req
  <2> QED BY <2>1, <2>2, <1>5, <1>7 DEF EndGame, AgendaKept
<1>9. m \in Messages(SelfKinds) /\ m.kind = "REQUEST" /\ BlockOf(m) = e
  BY MsgTypes DEF SelfKinds
<1>10. c \in PeerType /\ EndGame(b, c)
  <2> HIDE DEF a, b, m
  <2>1. c \in PeerType /\ c.agenda = Append(b.agenda, SelfMsg(r, m))
    BY <1>6, <1>9, Scheduled
  <2>2. /\ c.localBitfield = b.localBitfield /\ c.state = b.state
        /\ c.enableEndGameMode = b.enableEndGameMode /\ c.toRemote = b.toRemote
        /\ c.thread = b.thread
    BY <1>6 DEF Schedule, PeerType
  <2>3. b.agenda \in Seq(SelfMsgs)
    BY <1>6 DEF PeerType
  <2> HIDE DEF c
  <2>4. /\ m.kind # "REMOVE_THREAD" => Removals(c) \subseteq Removals(b)
        /\ \A q : News(b, q) => News(c, q)
        /\ \A q : q # r \/ m.kind # "REQUEST" => AgendaKept(b, c, q)
        /\ BlocksAsked(c, r) \subseteq BlocksAsked(b, r) \cup {BlockOf(m)}
    BY <2>1, <2>3, AgendaAppend
  <2>5. \A q \in Remote : Req(c, q) = Req(b, q)
    BY <2>2 DEF Req
  <2>6. e \in Req(c, r) /\ ~b.thread[r].peerChoking
    BY <2>5, <1>5, <1>6, <1>8 DEF EndGame
  <2>7. Removals(c) \subseteq Removals(b)
    BY <2>4, <1>9
  <2>8. \A q \in Remote : /\ BlocksAsked(c, q) \subseteq BlocksAsked(b, q) \cup Req(c, q)
                          /\ q # r => BlocksAsked(c, q) \subseteq BlocksAsked(b, q)
    BY <2>4, <2>6, <1>9 DEF AgendaKept
  <2>9. \A q \in Remote : /\ Req(b, q) \subseteq Req(c, q)
                          /\ b.thread[q].peerChoking => q # r
    BY <2>5, <2>6
  <2> QED BY <2>1, <2>2, <2>4, <2>7, <2>8, <2>9 DEF EndGame
<1>11. EndGame(s, b) /\ EndGame(s, c)
  <2> HIDE DEF a, b, c
  <2>1. EndGame(s, b)
    BY <1>5, <1>8, EndGameComposed
  <2> QED BY <2>1, <1>10, EndGameComposed
<1>12. SendEndGameRequest(s, r, e) = IF FindRequest(s, r, e) THEN a ELSE c
  BY DEF SendEndGameRequest
<1> HIDE DEF a, c
<1> QED BY <1>5, <1>10, <1>11, <1>12

LEMMA GatherAllType ==
  ASSUME NEW s \in PeerType
  PROVE  FoldLeft(LAMBDA list, r : Gather(s, list, r), s.endGameRequests, s.peerState) \in Seq(Remote \X Entry)
<1> DEFINE D == Seq(Remote \X Entry)
           seq == s.peerState
           n == Len(seq)
           Step(l, r) == Gather(s, l, r)
           F == [x \in D \X (1 .. n) |-> Step(x[1], seq[x[2]])]
           f == CHOOSE g : g = [S \in SUBSET (1 .. n) |->
                                  IF S = {} THEN s.endGameRequests ELSE Step(g[S \ {Max(S)}], seq[Max(S)])]
<1>1. seq \in Seq(Remote)
  BY DEF PeerType
<1>2. n \in Nat /\ DOMAIN seq = 1 .. n
  BY <1>1
<1>3. FoldLeft(LAMBDA list, r : Gather(s, list, r), s.endGameRequests, s.peerState) = f[1 .. n]
  BY <1>2 DEF FoldLeft, MapThenFoldSet
<1>4. F \in [D \X (1 .. n) -> D]
  <2>1. ASSUME NEW l \in D, NEW i \in 1 .. n PROVE Step(l, seq[i]) \in D
    <3>1. seq[i] \in Remote
      BY <1>1, <1>2
    <3> QED BY <3>1, GatherType
  <2> HIDE DEF D, Step
  <2> QED BY <2>1
<1>5. ASSUME NEW g \in [SUBSET (1 .. n) -> D], Folds(g, SUBSET (1 .. n), F, s.endGameRequests)
      PROVE  Unfolds(f, n, D, F, s.endGameRequests)
  <2> HIDE DEF D, seq, n, Step
  <2>1. g = [S \in SUBSET (1 .. n) |-> IF S = {} THEN s.endGameRequests ELSE F[<<g[S \ {Max(S)}], Max(S)>>]]
    BY <1>5 DEF Folds
  <2>2. \A S \in SUBSET (1 .. n) : S # {} => Max(S) \in 1 .. n
    BY <1>2, GreatestOf DEF n
  <2>3. \A d \in D : \A i \in 1 .. n : F[<<d, i>>] = Step(d, seq[i])
    OBVIOUS
  <2> HIDE DEF F
  <2>4. \A S \in SUBSET (1 .. n) : S # {} =>
           F[<<g[S \ {Max(S)}], Max(S)>>] = Step(g[S \ {Max(S)}], seq[Max(S)])
    BY <2>2, <2>3
  <2>5. g = [S \in SUBSET (1 .. n) |-> IF S = {} THEN s.endGameRequests ELSE Step(g[S \ {Max(S)}], seq[Max(S)])]
    BY <2>1, <2>4
  <2>6. f = [S \in SUBSET (1 .. n) |-> IF S = {} THEN s.endGameRequests ELSE Step(f[S \ {Max(S)}], seq[Max(S)])]
    BY <2>5
  <2> HIDE DEF f
  <2>7. f[{}] = s.endGameRequests
    BY <2>6
  <2>8. \A S \in SUBSET (1 .. n) : S # {} => f[S] = Step(f[S \ {Max(S)}], seq[Max(S)])
    BY <2>6
  <2> QED BY <2>2, <2>3, <2>7, <2>8 DEF Unfolds
<1> HIDE DEF D, seq, n, Step, F, f
<1>6. s.endGameRequests \in D
  BY DEF D, PeerType
<1>7. f[1 .. n] \in D
  BY <1>2, <1>4, <1>5, <1>6, Folded
<1> QED BY <1>3, <1>7 DEF D

LEMMA AskedPeer ==
  ASSUME NEW s \in PeerType, NEW r \in Remote, NEW entry \in Remote \X Entry
  PROVE  AskPeer(s, r, entry) \in PeerType /\ EndGame(s, AskPeer(s, r, entry))
<1>1. entry[2] \in Entry
  OBVIOUS
<1>2. ~s.thread[r].peerChoking => /\ SendEndGameRequest(s, r, entry[2]) \in PeerType
                                  /\ EndGame(s, SendEndGameRequest(s, r, entry[2]))
  BY <1>1, EndGameRequestSent
<1> QED BY <1>2, EndGameSame DEF AskPeer

\* The states that the end game may lead to from s.
EndGames(s) == {u \in PeerType : EndGame(s, u)}

LEMMA AskedAll ==
  ASSUME NEW s \in PeerType, NEW t \in EndGames(s), NEW seq0 \in Seq(Remote), NEW entry \in Remote \X Entry
  PROVE  FoldLeft(LAMBDA u, r : AskPeer(u, r, entry), t, seq0) \in EndGames(s)
<1> DEFINE D == EndGames(s)
           seq == seq0
           n == Len(seq)
           Step(l, r) == AskPeer(l, r, entry)
           F == [x \in D \X (1 .. n) |-> Step(x[1], seq[x[2]])]
           f == CHOOSE g : g = [S \in SUBSET (1 .. n) |->
                                  IF S = {} THEN t ELSE Step(g[S \ {Max(S)}], seq[Max(S)])]
<1>1. seq \in Seq(Remote)
  OBVIOUS
<1>2. n \in Nat /\ DOMAIN seq = 1 .. n
  BY <1>1
<1>3. FoldLeft(LAMBDA u, r : AskPeer(u, r, entry), t, seq0) = f[1 .. n]
  BY <1>2 DEF FoldLeft, MapThenFoldSet
<1>4. F \in [D \X (1 .. n) -> D]
  <2>1. ASSUME NEW l \in D, NEW i \in 1 .. n PROVE Step(l, seq[i]) \in D
    <3>1. seq[i] \in Remote
      BY <1>1, <1>2
    <3>2. l \in PeerType /\ EndGame(s, l)
      BY DEF EndGames
    <3> DEFINE v == AskPeer(l, seq[i], entry)
    <3>3. v \in PeerType /\ EndGame(l, v)
      BY <3>1, <3>2, AskedPeer
    <3> HIDE DEF v
    <3>4. EndGame(s, v)
      BY <3>2, <3>3, EndGameComposed
    <3> QED BY <3>3, <3>4 DEF EndGames, v
  <2> HIDE DEF D, Step
  <2> QED BY <2>1
<1>5. ASSUME NEW g \in [SUBSET (1 .. n) -> D], Folds(g, SUBSET (1 .. n), F, t)
      PROVE  Unfolds(f, n, D, F, t)
  <2> HIDE DEF D, seq, n, Step
  <2>1. g = [S \in SUBSET (1 .. n) |-> IF S = {} THEN t ELSE F[<<g[S \ {Max(S)}], Max(S)>>]]
    BY <1>5 DEF Folds
  <2>2. \A S \in SUBSET (1 .. n) : S # {} => Max(S) \in 1 .. n
    BY <1>2, GreatestOf DEF n
  <2>3. \A d \in D : \A i \in 1 .. n : F[<<d, i>>] = Step(d, seq[i])
    OBVIOUS
  <2> HIDE DEF F
  <2>4. \A S \in SUBSET (1 .. n) : S # {} =>
           F[<<g[S \ {Max(S)}], Max(S)>>] = Step(g[S \ {Max(S)}], seq[Max(S)])
    BY <2>2, <2>3
  <2>5. g = [S \in SUBSET (1 .. n) |-> IF S = {} THEN t ELSE Step(g[S \ {Max(S)}], seq[Max(S)])]
    BY <2>1, <2>4
  <2>6. f = [S \in SUBSET (1 .. n) |-> IF S = {} THEN t ELSE Step(f[S \ {Max(S)}], seq[Max(S)])]
    BY <2>5
  <2> HIDE DEF f
  <2>7. f[{}] = t
    BY <2>6
  <2>8. \A S \in SUBSET (1 .. n) : S # {} => f[S] = Step(f[S \ {Max(S)}], seq[Max(S)])
    BY <2>6
  <2> QED BY <2>2, <2>3, <2>7, <2>8 DEF Unfolds
<1> HIDE DEF D, seq, n, Step, F, f
<1>6. t \in D
  BY DEF D
<1>7. f[1 .. n] \in D
  BY <1>2, <1>4, <1>5, <1>6, Folded
<1> QED BY <1>3, <1>7 DEF D

LEMMA AskedForAll ==
  ASSUME NEW s \in PeerType, NEW t \in EndGames(s), NEW p \in Seq(Remote), NEW list \in Seq(Remote \X Entry)
  PROVE  FoldLeft(LAMBDA u, entry : FoldLeft(LAMBDA v, r : AskPeer(v, r, entry), u, p), t, list) \in EndGames(s)
<1> DEFINE D == EndGames(s)
           seq == list
           n == Len(seq)
           Step(l, e) == FoldLeft(LAMBDA v, r : AskPeer(v, r, e), l, p)
           F == [x \in D \X (1 .. n) |-> Step(x[1], seq[x[2]])]
           f == CHOOSE g : g = [S \in SUBSET (1 .. n) |->
                                  IF S = {} THEN t ELSE Step(g[S \ {Max(S)}], seq[Max(S)])]
<1>1. seq \in Seq(Remote \X Entry)
  OBVIOUS
<1>2. n \in Nat /\ DOMAIN seq = 1 .. n
  BY <1>1
<1>3. FoldLeft(LAMBDA u, entry : FoldLeft(LAMBDA v, r : AskPeer(v, r, entry), u, p), t, list) = f[1 .. n]
  BY <1>2 DEF FoldLeft, MapThenFoldSet
<1>4. F \in [D \X (1 .. n) -> D]
  <2>1. ASSUME NEW l \in D, NEW i \in 1 .. n PROVE Step(l, seq[i]) \in D
    <3>1. seq[i] \in Remote \X Entry
      BY <1>1, <1>2
    <3> QED BY <3>1, AskedAll
  <2> HIDE DEF D, Step
  <2> QED BY <2>1
<1>5. ASSUME NEW g \in [SUBSET (1 .. n) -> D], Folds(g, SUBSET (1 .. n), F, t)
      PROVE  Unfolds(f, n, D, F, t)
  <2> HIDE DEF D, seq, n, Step
  <2>1. g = [S \in SUBSET (1 .. n) |-> IF S = {} THEN t ELSE F[<<g[S \ {Max(S)}], Max(S)>>]]
    BY <1>5 DEF Folds
  <2>2. \A S \in SUBSET (1 .. n) : S # {} => Max(S) \in 1 .. n
    BY <1>2, GreatestOf DEF n
  <2>3. \A d \in D : \A i \in 1 .. n : F[<<d, i>>] = Step(d, seq[i])
    OBVIOUS
  <2> HIDE DEF F
  <2>4. \A S \in SUBSET (1 .. n) : S # {} =>
           F[<<g[S \ {Max(S)}], Max(S)>>] = Step(g[S \ {Max(S)}], seq[Max(S)])
    BY <2>2, <2>3
  <2>5. g = [S \in SUBSET (1 .. n) |-> IF S = {} THEN t ELSE Step(g[S \ {Max(S)}], seq[Max(S)])]
    BY <2>1, <2>4
  <2>6. f = [S \in SUBSET (1 .. n) |-> IF S = {} THEN t ELSE Step(f[S \ {Max(S)}], seq[Max(S)])]
    BY <2>5
  <2> HIDE DEF f
  <2>7. f[{}] = t
    BY <2>6
  <2>8. \A S \in SUBSET (1 .. n) : S # {} => f[S] = Step(f[S \ {Max(S)}], seq[Max(S)])
    BY <2>6
  <2> QED BY <2>2, <2>3, <2>7, <2>8 DEF Unfolds
<1> HIDE DEF D, seq, n, Step, F, f
<1>6. t \in D
  BY DEF D
<1>7. f[1 .. n] \in D
  BY <1>2, <1>4, <1>5, <1>6, Folded
<1> QED BY <1>3, <1>7 DEF D

LEMMA EndGameScheduled ==
  ASSUME NEW s \in PeerType
  PROVE  ScheduleEndGameRequests(s) \in PeerType /\ EndGame(s, ScheduleEndGameRequests(s))
<1> DEFINE list == FoldLeft(LAMBDA l, r : Gather(s, l, r), s.endGameRequests, s.peerState)
           t == [s EXCEPT !.endGameRequests = list]
<1>1. list \in Seq(Remote \X Entry)
  BY GatherAllType
<1>2. s.peerState \in Seq(Remote)
  BY DEF PeerType
<1>3. ScheduleEndGameRequests(s)
        = FoldLeft(LAMBDA u, entry : FoldLeft(LAMBDA v, r : AskPeer(v, r, entry), u, s.peerState), t, list)
  BY DEF ScheduleEndGameRequests
<1>4. t \in EndGames(s)
  <2> HIDE DEF list
  <2>1. t \in PeerType
    BY <1>1 DEF PeerType
  <2>2. /\ t.localBitfield = s.localBitfield /\ t.state = s.state
        /\ t.enableEndGameMode = s.enableEndGameMode /\ t.toRemote = s.toRemote
        /\ t.thread = s.thread /\ t.agenda = s.agenda
    BY DEF PeerType
  <2> HIDE DEF t
  <2>3. \A r \in Remote : /\ Req(t, r) = Req(s, r) /\ BlocksAsked(t, r) = BlocksAsked(s, r)
                          /\ News(s, r) => News(t, r)
    BY <2>2 DEF Req, BlocksAsked, Asked, News
  <2>4. Removals(t) \subseteq Removals(s)
    BY <2>2 DEF Removals
  <2> QED BY <2>1, <2>2, <2>3, <2>4 DEF EndGames, EndGame
<1> HIDE DEF list, t
<1>5. FoldLeft(LAMBDA u, entry : FoldLeft(LAMBDA v, r : AskPeer(v, r, entry), u, s.peerState), t, list) \in EndGames(s)
  BY <1>1, <1>2, <1>4, AskedForAll
<1> QED BY <1>3, <1>5 DEF EndGames

-----------------------------------------------------------------------------
(* The bit field *)

LEMMA DecrementIs ==
  ASSUME NEW n \in Nat
  PROVE  /\ Decrement(n) \in Nat
         /\ n # 0 => Decrement(n) = n - 1
         /\ n = 0 => Decrement(n) = 0
<1>1. CASE n = 0
  <2>1. n - 1 = -1
    BY <1>1
  <2>2. \E x \in {-1, 0} : \A y \in {-1, 0} : x >= y
    OBVIOUS
  <2>3. Decrement(n) = CHOOSE x \in {-1, 0} : \A y \in {-1, 0} : x >= y
    BY <2>1 DEF Decrement, Max
  <2>4. Decrement(n) = 0
    BY <2>2, <2>3
  <2> QED BY <2>4, <1>1
<1>2. CASE n # 0
  <2>1. n - 1 \in Nat
    BY <1>2
  <2>2. \E x \in {n - 1, 0} : \A y \in {n - 1, 0} : x >= y
    BY <2>1
  <2>3. Decrement(n) = CHOOSE x \in {n - 1, 0} : \A y \in {n - 1, 0} : x >= y
    BY DEF Decrement, Max
  <2>4. Decrement(n) \in {n - 1, 0} /\ \A y \in {n - 1, 0} : Decrement(n) >= y
    BY <2>2, <2>3
  <2>5. Decrement(n) = n - 1
    BY <2>1, <2>4
  <2> QED BY <2>1, <2>5, <1>2
<1> QED BY <1>1, <1>2

LEMMA NextBlockIs ==
  ASSUME NEW lb, NEW p
  PROVE  /\ FreeBlocks(lb, p) = {} => NextBlock(lb, p) = -1
         /\ FreeBlocks(lb, p) # {} => NextBlock(lb, p) \in FreeBlocks(lb, p)
         /\ NextBlock(lb, p) = -1 <=> FreeBlocks(lb, p) = {}
         /\ NextBlock(lb, p) >= 0 <=> FreeBlocks(lb, p) # {}
<1> DEFINE S == FreeBlocks(lb, p)
<1>1. S \in SUBSET Nat
  BY Sizes DEF FreeBlocks
<1>2. S = {} => NextBlock(lb, p) = -1
  BY DEF NextBlock
<1>3. ASSUME S # {} PROVE NextBlock(lb, p) \in S
  <2>1. \E x \in S : \A y \in S : x <= y
    <3> HIDE DEF S
    <3> QED BY <1>1, <1>3, LeastNumber
  <2>2. NextBlock(lb, p) = CHOOSE x \in S : \A y \in S : x =< y
    BY <1>3 DEF NextBlock, Min
  <2> HIDE DEF S
  <2> QED BY <2>1, <2>2
<1> HIDE DEF S
<1>4. S # {} => NextBlock(lb, p) \in Nat
  BY <1>1, <1>3
<1> QED BY <1>2, <1>3, <1>4 DEF S

LEMMA MarkOn ==
  ASSUME NEW lb \in BitFieldType, NEW X, Counted(lb), Marks(lb, X), NEW e \in Entry,
         e[2] \in FreeBlocks(lb, e[1])
  PROVE  /\ SetBlockRequested(lb, e[1], e[2], TRUE) \in BitFieldType
         /\ Counted(SetBlockRequested(lb, e[1], e[2], TRUE))
         /\ Marks(SetBlockRequested(lb, e[1], e[2], TRUE), X \cup {e})
         /\ SetBlockRequested(lb, e[1], e[2], TRUE).bitfield = lb.bitfield
         /\ SetBlockRequested(lb, e[1], e[2], TRUE).blockfield = lb.blockfield
         /\ e \notin X
<1> DEFINE p == e[1]
           u == SetBlockRequested(lb, e[1], e[2], TRUE)
<1>1. e \notin lb.requested \cup lb.blockfield /\ p \in Piece /\ <<e[1], e[2]>> = e /\ e[2] \in Block
  BY DEF FreeBlocks, Entry
<1>2. /\ lb.requested \in SUBSET Entry /\ lb.blockfield \in SUBSET Entry
      /\ lb.currentlyRequested \in [Piece -> Nat] /\ lb.numNonRequestedNonAvailableBlocks \in Nat
  BY DEF BitFieldType
<1>3. X = lb.requested \ lb.blockfield
  BY DEF Marks
<1>4. e \notin X /\ IsFiniteSet(X) /\ X \subseteq Entry
  <2>1. X \subseteq Entry /\ e \notin X
    BY <1>1, <1>2, <1>3
  <2>2. IsFiniteSet(X)
    BY <2>1, Sizes, FS_Subset
  <2> QED BY <2>1, <2>2
<1>5. /\ u.requested = lb.requested \cup {e}
      /\ u.currentlyRequested = [lb.currentlyRequested EXCEPT ![p] = @ + 1]
      /\ u.numNonRequestedNonAvailableBlocks = Decrement(lb.numNonRequestedNonAvailableBlocks)
      /\ u.bitfield = lb.bitfield /\ u.blockfield = lb.blockfield
      /\ u.numRemainingBlocks = lb.numRemainingBlocks /\ u.numRemainingPieces = lb.numRemainingPieces
  BY <1>1 DEF SetBlockRequested, BitFieldType
<1>6. u \in BitFieldType
  <2>1. Decrement(lb.numNonRequestedNonAvailableBlocks) \in Nat
    BY <1>2, DecrementIs
  <2>2. lb.requested \cup {e} \in SUBSET Entry
    BY <1>2
  <2>3. [lb.currentlyRequested EXCEPT ![p] = @ + 1] \in [Piece -> Nat]
    BY <1>1, <1>2
  <2>4. u = [lb EXCEPT !.requested = lb.requested \cup {e},
                       !.currentlyRequested = [lb.currentlyRequested EXCEPT ![p] = @ + 1],
                       !.numNonRequestedNonAvailableBlocks = Decrement(lb.numNonRequestedNonAvailableBlocks)]
    BY <1>1 DEF SetBlockRequested
  <2> HIDE DEF u, p
  <2> QED BY <2>1, <2>2, <2>3, <2>4 DEF BitFieldType
<1> HIDE DEF u
<1>7. Counted(u)
  BY <1>5 DEF Counted
<1>8. u.requested \ u.blockfield = X \cup {e}
  BY <1>1, <1>3, <1>5
<1>9. \A q \in Piece : u.currentlyRequested[q] = Cardinality((X \cup {e}) \cap BlocksOf(q))
  <2> TAKE q \in Piece
  <2>1. lb.currentlyRequested[q] = Cardinality(X \cap BlocksOf(q)) /\ lb.currentlyRequested[q] \in Nat
    BY <1>2 DEF Marks
  <2>2. CASE q = p
    <3>1. (X \cup {e}) \cap BlocksOf(q) = (X \cap BlocksOf(q)) \cup {e}
      BY <2>2, <1>1 DEF BlocksOf
    <3>2. IsFiniteSet(X \cap BlocksOf(q)) /\ e \notin X \cap BlocksOf(q)
      BY <1>4, FS_Intersection
    <3> DEFINE Y == X \cap BlocksOf(q)
    <3> HIDE DEF Y
    <3>3. Cardinality(Y \cup {e}) = Cardinality(Y) + 1
      BY <3>2, FS_AddElement DEF Y
    <3>4. u.currentlyRequested[q] = lb.currentlyRequested[q] + 1
      BY <2>2, <1>2, <1>5
    <3> QED BY <3>1, <3>3, <3>4, <2>1 DEF Y
  <2>3. CASE q # p
    <3>1. (X \cup {e}) \cap BlocksOf(q) = X \cap BlocksOf(q)
      BY <2>3, <1>1 DEF BlocksOf
    <3>2. u.currentlyRequested[q] = lb.currentlyRequested[q]
      BY <2>3, <1>2, <1>5
    <3> QED BY <3>1, <3>2, <2>1
  <2> QED BY <2>2, <2>3
<1>10. u.numNonRequestedNonAvailableBlocks = Cardinality(Entry \ (u.requested \cup u.blockfield))
  <2> DEFINE N == Entry \ (lb.requested \cup lb.blockfield)
  <2>1. Entry \ (u.requested \cup u.blockfield) = N \ {e}
    BY <1>5
  <2>2. IsFiniteSet(N) /\ e \in N
    <3>1. IsFiniteSet(N)
      BY Sizes, FS_Subset
    <3> QED BY <3>1, <1>1
  <2>3. lb.numNonRequestedNonAvailableBlocks = Cardinality(N)
    BY DEF Marks
  <2> HIDE DEF N
  <2>4. Cardinality(N \ {e}) = Cardinality(N) - 1 /\ Cardinality(N) \in Nat
    BY <2>2, FS_RemoveElement, FS_CardinalityType
  <2>5. Cardinality(N) # 0
    BY <2>2, FS_EmptySet
  <2>6. Decrement(Cardinality(N)) = Cardinality(N) - 1
    BY <2>4, <2>5, DecrementIs
  <2> QED BY <2>1, <2>3, <2>4, <2>6, <1>5
<1>11. Marks(u, X \cup {e})
  BY <1>8, <1>9, <1>10 DEF Marks
<1> QED BY <1>1, <1>4, <1>5, <1>6, <1>7, <1>11 DEF u

LEMMA MarkOff ==
  ASSUME NEW lb \in BitFieldType, NEW X, Counted(lb), Marks(lb, X), NEW e \in X
  PROVE  /\ SetBlockRequested(lb, e[1], e[2], FALSE) \in BitFieldType
         /\ Counted(SetBlockRequested(lb, e[1], e[2], FALSE))
         /\ Marks(SetBlockRequested(lb, e[1], e[2], FALSE), X \ {e})
         /\ SetBlockRequested(lb, e[1], e[2], FALSE).bitfield = lb.bitfield
         /\ SetBlockRequested(lb, e[1], e[2], FALSE).blockfield = lb.blockfield
<1> DEFINE p == e[1]
           u == SetBlockRequested(lb, e[1], e[2], FALSE)
<1>2. /\ lb.requested \in SUBSET Entry /\ lb.blockfield \in SUBSET Entry
      /\ lb.currentlyRequested \in [Piece -> Nat] /\ lb.numNonRequestedNonAvailableBlocks \in Nat
  BY DEF BitFieldType
<1>3. X = lb.requested \ lb.blockfield
  BY DEF Marks
<1>4. IsFiniteSet(X) /\ X \subseteq Entry
  <2>1. X \subseteq Entry
    BY <1>2, <1>3
  <2>2. IsFiniteSet(X)
    BY <2>1, Sizes, FS_Subset
  <2> QED BY <2>1, <2>2
<1>1. e \in Entry /\ e \in lb.requested /\ e \notin lb.blockfield /\ p \in Piece /\ <<e[1], e[2]>> = e
      /\ e[2] \in Block
  <2>1. e \in Entry /\ e \in lb.requested /\ e \notin lb.blockfield
    BY <1>2, <1>3
  <2> QED BY <2>1 DEF Entry
<1>5. /\ u.requested = lb.requested \ {e}
      /\ u.currentlyRequested = [lb.currentlyRequested EXCEPT ![p] = Decrement(@)]
      /\ u.numNonRequestedNonAvailableBlocks = lb.numNonRequestedNonAvailableBlocks + 1
      /\ u.bitfield = lb.bitfield /\ u.blockfield = lb.blockfield
      /\ u.numRemainingBlocks = lb.numRemainingBlocks /\ u.numRemainingPieces = lb.numRemainingPieces
  BY <1>1 DEF SetBlockRequested, BitFieldType
<1>6. u \in BitFieldType
  <2>1. lb.numNonRequestedNonAvailableBlocks + 1 \in Nat
    BY <1>2
  <2>2. lb.requested \ {e} \in SUBSET Entry
    BY <1>2
  <2>3. [lb.currentlyRequested EXCEPT ![p] = Decrement(@)] \in [Piece -> Nat]
    BY <1>1, <1>2, DecrementIs
  <2>4. u = [lb EXCEPT !.requested = lb.requested \ {e},
                       !.currentlyRequested = [lb.currentlyRequested EXCEPT ![p] = Decrement(@)],
                       !.numNonRequestedNonAvailableBlocks = lb.numNonRequestedNonAvailableBlocks + 1]
    BY <1>1 DEF SetBlockRequested
  <2> HIDE DEF u, p
  <2> QED BY <2>1, <2>2, <2>3, <2>4 DEF BitFieldType
<1> HIDE DEF u
<1>7. Counted(u)
  BY <1>5 DEF Counted
<1>8. u.requested \ u.blockfield = X \ {e}
  BY <1>3, <1>5
<1>9. \A q \in Piece : u.currentlyRequested[q] = Cardinality((X \ {e}) \cap BlocksOf(q))
  <2> TAKE q \in Piece
  <2>1. lb.currentlyRequested[q] = Cardinality(X \cap BlocksOf(q)) /\ lb.currentlyRequested[q] \in Nat
    BY <1>2 DEF Marks
  <2> DEFINE Y == X \cap BlocksOf(q)
  <2>2. CASE q = p
    <3>1. (X \ {e}) \cap BlocksOf(q) = Y \ {e}
      OBVIOUS
    <3>2. e \in Y
      <4>1. <<e[1], e[2]>> \in BlocksOf(q)
        BY <2>2, <1>1 DEF BlocksOf
      <4> QED BY <4>1, <1>1
    <3>3. IsFiniteSet(Y)
      BY <1>4, FS_Intersection
    <3> HIDE DEF Y
    <3>4. Cardinality(Y \ {e}) = Cardinality(Y) - 1 /\ Cardinality(Y) \in Nat
      BY <3>2, <3>3, FS_RemoveElement, FS_CardinalityType
    <3>5. Cardinality(Y) # 0
      BY <3>2, <3>3, FS_EmptySet
    <3>6. Decrement(Cardinality(Y)) = Cardinality(Y) - 1
      BY <3>4, <3>5, DecrementIs
    <3>7. u.currentlyRequested[q] = Decrement(lb.currentlyRequested[q])
      BY <2>2, <1>2, <1>5
    <3> QED BY <3>1, <3>4, <3>6, <3>7, <2>1 DEF Y
  <2>3. CASE q # p
    <3>1. e \notin BlocksOf(q)
      BY <2>3, <1>1 DEF BlocksOf
    <3>2. (X \ {e}) \cap BlocksOf(q) = X \cap BlocksOf(q)
      BY <3>1
    <3>3. u.currentlyRequested[q] = lb.currentlyRequested[q]
      BY <2>3, <1>2, <1>5
    <3> QED BY <3>2, <3>3, <2>1
  <2> QED BY <2>2, <2>3
<1>10. u.numNonRequestedNonAvailableBlocks = Cardinality(Entry \ (u.requested \cup u.blockfield))
  <2> DEFINE N == Entry \ (lb.requested \cup lb.blockfield)
  <2>1. Entry \ (u.requested \cup u.blockfield) = N \cup {e}
    BY <1>1, <1>5
  <2>2. IsFiniteSet(N) /\ e \notin N
    <3>1. IsFiniteSet(N)
      BY Sizes, FS_Subset
    <3> QED BY <3>1, <1>1
  <2>3. lb.numNonRequestedNonAvailableBlocks = Cardinality(N)
    BY DEF Marks
  <2> HIDE DEF N
  <2>4. Cardinality(N \cup {e}) = Cardinality(N) + 1
    BY <2>2, FS_AddElement
  <2> QED BY <2>1, <2>3, <2>4, <1>5
<1>11. Marks(u, X \ {e})
  BY <1>8, <1>9, <1>10 DEF Marks
<1> QED BY <1>5, <1>6, <1>7, <1>11 DEF u

-----------------------------------------------------------------------------
(* Requests *)

\* The request for a block that is pending goes on the agenda.
LEMMA RequestScheduled ==
  ASSUME NEW s \in PeerType, NEW f, NEW g, PeerOK(s, f, g), NEW r \in Remote, NEW e \in Entry,
         ~s.thread[r].peerChoking, e \in Req(s, r),
         s.state = "NORMAL" => /\ e \notin BlocksAsked(s, r)
                               /\ e \notin BlocksIn(s.toRemote[r], "REQUEST")
                               /\ e \notin BlocksIn(f[r], "PIECE")
  PROVE  /\ PeerOK(Schedule(s, r, RequestMsg("REQUEST", e)), f, g)
         /\ Kept(s, Schedule(s, r, RequestMsg("REQUEST", e)))
         /\ Schedule(s, r, RequestMsg("REQUEST", e)).thread = s.thread
         /\ Schedule(s, r, RequestMsg("REQUEST", e)).state = s.state
<1> DEFINE m == RequestMsg("REQUEST", e)
           u == Schedule(s, r, m)
<1>1. m \in Messages(SelfKinds) /\ m.kind = "REQUEST" /\ BlockOf(m) = e
  BY MsgTypes DEF SelfKinds
<1> HIDE DEF m
<1>2. u \in PeerType /\ u.agenda = Append(s.agenda, SelfMsg(r, m))
  BY <1>1, Scheduled
<1>3. /\ u.localBitfield = s.localBitfield /\ u.state = s.state
      /\ u.enableEndGameMode = s.enableEndGameMode /\ u.toRemote = s.toRemote
      /\ u.thread = s.thread
  BY DEF Schedule, PeerType
<1>4. s.agenda \in Seq(SelfMsgs)
  BY DEF PeerType
<1> HIDE DEF u
<1>5. /\ m.kind # "REMOVE_THREAD" => Removals(u) \subseteq Removals(s)
      /\ \A q : News(s, q) => News(u, q)
      /\ \A q : q # r \/ m.kind # "REQUEST" => AgendaKept(s, u, q)
      /\ BlocksAsked(u, r) \subseteq BlocksAsked(s, r) \cup {BlockOf(m)}
      /\ OnceAsked(s, r) /\ BlockOf(m) \notin BlocksAsked(s, r) => OnceAsked(u, r)
  BY <1>2, <1>4, AgendaAppend
<1>6. /\ Removals(u) \subseteq Removals(s)
      /\ \A q \in Remote \ {r} : AgendaKept(s, u, q)
      /\ BlocksAsked(u, r) \subseteq BlocksAsked(s, r) \cup {e}
      /\ OnceAsked(s, r) /\ e \notin BlocksAsked(s, r) => OnceAsked(u, r)
  BY <1>1, <1>5
<1>7. \A q \in Remote : Req(u, q) = Req(s, q)
  BY <1>3 DEF Req
<1>8. Books(u)
  <2>1. PendingOf(u) = PendingOf(s)
    BY <1>7 DEF PendingOf
  <2>2. Orders(s) => Orders(u)
    BY <1>3, <1>7 DEF Orders, OwnPieces
  <2> QED BY <2>1, <2>2, <1>3 DEF PeerOK, Books
<1>9. Threads(u)
  BY <1>3, <1>6 DEF PeerOK, Threads
<1>10. ASSUME NEW q \in Remote, q # r PROVE Wire(u, f[q], g[q], q)
  <2>1. s.state \in {"NORMAL", "ENDGAME", "SEEDING"}
    BY DEF PeerType
  <2>2. WireLike(s, u, q)
    BY <2>1, <1>3, <1>6, <1>7, <1>10 DEF WireLike
  <2> QED BY <2>2, WireStays DEF PeerOK
<1>11. Wire(u, f[r], g[r], r)
  <2> DEFINE A == BlocksAsked(s, r)
             A2 == BlocksAsked(u, r)
             R == BlocksIn(s.toRemote[r], "REQUEST")
             P == BlocksIn(f[r], "PIECE")
  <2>1. Wire(s, f[r], g[r], r)
    BY DEF PeerOK
  <2>2. Requesting(u, r) = Requesting(s, r)
    BY <1>3 DEF Requesting
  <2>3. Phase(u.thread[r], Requesting(u, r), f[r], g[r])
    BY <2>1, <2>2, <1>3 DEF Wire
  <2>4. ASSUME s.state = "NORMAL"
        PROVE  /\ A2 \cup R \cup P \subseteq Req(u, r)
               /\ A2 \cap R = {} /\ A2 \cap P = {} /\ R \cap P = {}
               /\ OnceAsked(u, r) /\ OnceIn(u.toRemote[r], "REQUEST") /\ OnceIn(f[r], "PIECE")
    <3>1. /\ A \cup R \cup P \subseteq Req(s, r)
          /\ A \cap R = {} /\ A \cap P = {} /\ R \cap P = {}
          /\ OnceAsked(s, r) /\ OnceIn(s.toRemote[r], "REQUEST") /\ OnceIn(f[r], "PIECE")
      BY <2>1, <2>4 DEF Wire, Underway
    <3>2. OnceAsked(u, r) /\ OnceIn(u.toRemote[r], "REQUEST")
      BY <3>1, <2>4, <1>3, <1>6
    <3>3. A2 \subseteq A \cup {e} /\ e \notin A /\ e \notin R /\ e \notin P /\ Req(u, r) = Req(s, r)
      BY <2>4, <1>6, <1>7
    <3> HIDE DEF A, A2, R, P
    <3> QED BY <3>1, <3>2, <3>3
  <2>5. ASSUME s.state = "ENDGAME"
        PROVE  A2 \cup R \cup P \subseteq Req(u, r) \cup u.localBitfield.blockfield
    <3>1. A \cup R \cup P \subseteq Req(s, r) \cup s.localBitfield.blockfield
      BY <2>1, <2>5 DEF Wire, Underway
    <3>2. A2 \subseteq A \cup {e} /\ Req(u, r) = Req(s, r)
      BY <1>6, <1>7
    <3> HIDE DEF A, A2, R, P
    <3> QED BY <3>1, <3>2, <1>3
  <2>6. ~u.thread[r].peerChoking /\ u.toRemote[r] = s.toRemote[r]
    BY <1>3
  <2>7. Underway(u, f[r], r)
    BY <2>4, <2>5, <2>6, <1>3 DEF Underway
  <2> QED BY <2>1, <2>3, <2>7 DEF Wire
<1>12. PeerOK(u, f, g)
  BY <1>2, <1>8, <1>9, <1>10, <1>11 DEF PeerOK
<1>13. Kept(s, u)
  BY <1>3, <1>5 DEF Kept, Completed
<1> QED BY <1>3, <1>12, <1>13 DEF u, m

\* No thread but r has a request for a block of p.
Owner(s, r, p) == \A q \in Remote \ {r} : \A e \in Req(s, q) : e[1] # p

LEMMA DistinctAppend ==
  ASSUME NEW S, NEW q \in Seq(S), NEW e, Distinct(q), e \notin ToSet(q)
  PROVE  Distinct(Append(q, e))
<1>1. /\ Append(q, e)[Len(q) + 1] = e
      /\ \A i \in DOMAIN q : Append(q, e)[i] = q[i]
      /\ \A i \in DOMAIN Append(q, e) : i \in DOMAIN q \/ i = Len(q) + 1
  BY AppendedAt
<1>2. \A i \in DOMAIN q : q[i] # e
  BY DEF ToSet
<1> QED BY <1>1, <1>2 DEF Distinct

\* The thread and the peer when the block e has been asked for.
AskingThread(s, r, e) == [s.thread[r] EXCEPT !.requests = Append(s.thread[r].requests, e)]

AskingPeer(s, r, e, st) ==
  [s EXCEPT !.thread = [s.thread EXCEPT ![r] = AskingThread(s, r, e)], !.state = st,
            !.localBitfield = SetBlockRequested(s.localBitfield, e[1], e[2], TRUE)]

\* A free block is marked as requested, with the request among those of the thread.
LEMMA BlockMarked ==
  ASSUME NEW s \in PeerType, NEW f, NEW g, PeerOK(s, f, g), NEW r \in Remote, NEW e \in Entry,
         e[2] \in FreeBlocks(s.localBitfield, e[1]), s.state = "NORMAL",
         ~s.thread[r].peerChoking, CanRequestMore(s, r), Owner(s, r, e[1]),
         NEW st \in {"NORMAL", "ENDGAME"},
         st = "ENDGAME" =>
            /\ s.enableEndGameMode
            /\ SetBlockRequested(s.localBitfield, e[1], e[2], TRUE).numNonRequestedNonAvailableBlocks = 0
  PROVE  LET w == AskingPeer(s, r, e, st)
         IN  /\ PeerOK(w, f, g) /\ Kept(s, w) /\ Owner(w, r, e[1]) /\ ~w.thread[r].peerChoking
             /\ e \in Req(w, r)
             /\ e \notin BlocksAsked(w, r)
             /\ e \notin BlocksIn(w.toRemote[r], "REQUEST")
             /\ e \notin BlocksIn(f[r], "PIECE")
             /\ w.state = st
<1> DEFINE w == AskingPeer(s, r, e, st)
           t == AskingThread(s, r, e)
           X == PendingOf(s)
           lb == s.localBitfield
           lb2 == SetBlockRequested(lb, e[1], e[2], TRUE)
<1>1. lb \in BitFieldType /\ s.thread \in [Remote -> ThreadType]
  BY DEF PeerType
<1>2. /\ Counted(lb) /\ Marks(lb, X) /\ Orders(s) /\ Threads(s)
  BY DEF PeerOK, Books
<1>3. /\ lb2 \in BitFieldType /\ Counted(lb2) /\ Marks(lb2, X \cup {e})
      /\ lb2.bitfield = lb.bitfield /\ lb2.blockfield = lb.blockfield
      /\ e \notin X
  <2>1. e[2] \in FreeBlocks(lb, e[1])
    OBVIOUS
  <2> HIDE DEF X, lb
  <2> QED BY <2>1, <1>1, <1>2, MarkOn
<1>18. t \in ThreadType
  <2>1. s.thread[r] \in ThreadType /\ s.thread[r].requests \in Seq(Entry)
    BY <1>1 DEF ThreadType
  <2>2. Append(s.thread[r].requests, e) \in Seq(Entry)
    BY <2>1, <1>3
  <2> QED BY <2>1, <2>2 DEF ThreadType, AskingThread
<1>19. w \in PeerType
  <2>1. [s.thread EXCEPT ![r] = t] \in [Remote -> ThreadType]
    BY <1>1, <1>18
  <2>2. w = [s EXCEPT !.thread = [s.thread EXCEPT ![r] = t], !.state = st, !.localBitfield = lb2]
    BY DEF AskingPeer
  <2> HIDE DEF w, t, lb2
  <2> QED BY <2>1, <2>2, <1>3 DEF PeerType
<1>4. /\ w.localBitfield = lb2 /\ w.state = st /\ w.enableEndGameMode = s.enableEndGameMode
      /\ w.agenda = s.agenda /\ w.toRemote = s.toRemote
      /\ w.thread[r] = t /\ \A q \in Remote \ {r} : w.thread[q] = s.thread[q]
  BY <1>1 DEF PeerType, AskingPeer
<1>5. /\ t.conn = s.thread[r].conn /\ t.peerChoking = s.thread[r].peerChoking
      /\ t.announced = s.thread[r].announced /\ t.remoteBitfield = s.thread[r].remoteBitfield
      /\ t.amInterested = s.thread[r].amInterested
      /\ t.requests = Append(s.thread[r].requests, e)
  BY <1>1 DEF ThreadType, AskingThread
<1> HIDE DEF w, t, lb2
<1>6. s.thread[r].requests \in Seq(Entry)
  BY <1>1 DEF ThreadType
<1>7. Req(w, r) = Req(s, r) \cup {e} /\ \A q \in Remote \ {r} : Req(w, q) = Req(s, q)
  BY <1>4, <1>5, <1>6, AppendSet DEF Req
<1>8. PendingOf(w) = X \cup {e}
  BY <1>7 DEF PendingOf
<1>9. Orders(w)
  <2>1. \A q \in Remote : Distinct(w.thread[q].requests) /\ Len(w.thread[q].requests) <= RequestQueueDepth
    <3> TAKE q \in Remote
    <3>1. CASE q # r
      BY <3>1, <1>2, <1>4 DEF Orders
    <3>2. CASE q = r
      <4>1. e \notin ToSet(s.thread[r].requests)
        BY <1>3 DEF PendingOf, Req
      <4>2. Distinct(Append(s.thread[r].requests, e))
        BY <4>1, <1>2, <1>6, DistinctAppend DEF Orders
      <4>3. Len(Append(s.thread[r].requests, e)) = Len(s.thread[r].requests) + 1
            /\ Len(s.thread[r].requests) \in Nat
        BY <1>6
      <4>4. Len(s.thread[r].requests) < RequestQueueDepth
        BY DEF CanRequestMore
      <4> QED BY <3>2, <4>2, <4>3, <4>4, <1>4, <1>5, RequestQueueDepthAssumption
    <3> QED BY <3>1, <3>2
  <2>2. OwnPieces(w)
    <3> SUFFICES ASSUME NEW q1 \in Remote, NEW q2 \in Remote, NEW x \in Req(w, q1), NEW y \in Req(w, q2),
                        x[1] = y[1]
                 PROVE  q1 = q2
      BY DEF OwnPieces
    <3>2. CASE x \in Req(s, q1) /\ y \in Req(s, q2)
      BY <3>2, <1>2 DEF Orders, OwnPieces
    <3>3. CASE x = e /\ q1 = r /\ y \in Req(s, q2)
      BY <3>3 DEF Owner
    <3>4. CASE y = e /\ q2 = r /\ x \in Req(s, q1)
      BY <3>4 DEF Owner
    <3> QED BY <3>2, <3>3, <3>4, <1>7
  <2> QED BY <2>1, <2>2 DEF Orders
<1>10. Books(w)
  <2>1. st = "ENDGAME" => w.enableEndGameMode /\ AllAsked(lb2)
    <3> SUFFICES ASSUME st = "ENDGAME" PROVE w.enableEndGameMode /\ AllAsked(lb2)
      OBVIOUS
    <3> DEFINE N == Entry \ (lb2.requested \cup lb2.blockfield)
    <3>8. lb2.numNonRequestedNonAvailableBlocks = 0 /\ s.enableEndGameMode
      BY DEF lb2
    <3>1. Cardinality(N) = 0 /\ s.enableEndGameMode
      BY <3>8, <1>3 DEF Marks
    <3>2. IsFiniteSet(N)
      BY Sizes, FS_Subset
    <3> HIDE DEF N
    <3>3. N = {}
      BY <3>1, <3>2, FS_EmptySet
    <3>4. Entry \subseteq lb2.requested \cup lb2.blockfield
      BY <3>3 DEF N
    <3>5. lb2.requested \subseteq Entry
      BY <1>3 DEF BitFieldType
    <3>6. X \cup {e} = Entry \ lb2.blockfield
      BY <3>4, <3>5, <1>3 DEF Marks
    <3>7. ASSUME NEW q \in Piece PROVE lb2.currentlyRequested[q] = Cardinality(BlocksOf(q) \ lb2.blockfield)
      <4>1. BlocksOf(q) \subseteq Entry
        BY DEF BlocksOf, Entry
      <4>2. (X \cup {e}) \cap BlocksOf(q) = BlocksOf(q) \ lb2.blockfield
        BY <4>1, <3>6
      <4> QED BY <4>2, <1>3 DEF Marks
    <3> QED BY <3>1, <3>4, <3>7, <1>4 DEF AllAsked
  <2>2. w.state # "SEEDING"
    BY <1>4
  <2> QED BY <2>1, <2>2, <1>3, <1>4, <1>8, <1>9 DEF Books
<1>11. Removals(w) = Removals(s) /\ \A q : AgendaKept(s, w, q) /\ (News(s, q) => News(w, q))
       /\ BlocksAsked(w, q) = BlocksAsked(s, q)
  BY <1>4 DEF Removals, AgendaKept, News, BlocksAsked, OnceAsked, Asked
<1>12. Threads(w)
  <2> SUFFICES ASSUME NEW q \in Remote
               PROVE  /\ q \in Removals(w) => w.thread[q].conn \in {"ABORTING", "GONE"}
                      /\ w.thread[q].peerChoking => w.thread[q].requests = <<>>
                      /\ w.thread[q].conn # "OPEN" => w.thread[q].peerChoking
                      /\ w.thread[q].conn = "OPEN" => w.localBitfield.bitfield \subseteq w.thread[q].announced
    BY DEF Threads
  <2>1. /\ q \in Removals(s) => s.thread[q].conn \in {"ABORTING", "GONE"}
        /\ s.thread[q].peerChoking => s.thread[q].requests = <<>>
        /\ s.thread[q].conn # "OPEN" => s.thread[q].peerChoking
        /\ s.thread[q].conn = "OPEN" => lb.bitfield \subseteq s.thread[q].announced
    BY <1>2 DEF Threads
  <2>2. CASE q = r
    BY <2>1, <2>2, <1>3, <1>4, <1>5, <1>11
  <2>3. CASE q # r
    BY <2>1, <2>3, <1>3, <1>4, <1>11
  <2> QED BY <2>2, <2>3
<1>13. \A q \in Remote : Wire(w, f[q], g[q], q)
  <2> TAKE q \in Remote
  <2>1. Req(s, q) \subseteq Req(w, q)
    BY <1>7
  <2>2. w.thread[q].conn = s.thread[q].conn /\ w.thread[q].peerChoking = s.thread[q].peerChoking
    BY <1>4, <1>5
  <2>3. WireLike(s, w, q)
    BY <2>1, <2>2, <1>3, <1>4, <1>11 DEF WireLike
  <2> QED BY <2>3, WireStays DEF PeerOK
<1>14. PeerOK(w, f, g)
  BY <1>10, <1>12, <1>13, <1>19 DEF PeerOK
<1>15. Kept(s, w)
  BY <1>3, <1>4, <1>5, <1>11 DEF Kept, Completed
<1>16. Owner(w, r, e[1])
  BY <1>7 DEF Owner
<1>17. e \notin BlocksAsked(w, r) /\ e \notin BlocksIn(w.toRemote[r], "REQUEST") /\ e \notin BlocksIn(f[r], "PIECE")
  <2>1. Wire(s, f[r], g[r], r)
    BY DEF PeerOK
  <2>2. BlocksAsked(s, r) \cup BlocksIn(s.toRemote[r], "REQUEST") \cup BlocksIn(f[r], "PIECE") \subseteq Req(s, r)
    BY <2>1 DEF Wire, Underway
  <2>3. e \notin Req(s, r)
    BY <1>3 DEF PendingOf
  <2> QED BY <2>2, <2>3, <1>4, <1>11
<1> QED BY <1>4, <1>5, <1>7, <1>14, <1>15, <1>16, <1>17 DEF w

LEMMA BlockRequested ==
  ASSUME NEW s \in PeerType, NEW f, NEW g, PeerOK(s, f, g), NEW r \in Remote, NEW e \in Entry,
         e[2] \in FreeBlocks(s.localBitfield, e[1]), s.state = "NORMAL",
         ~s.thread[r].peerChoking, CanRequestMore(s, r), Owner(s, r, e[1])
  PROVE  /\ RequestBlock(s, r, e) \in PeerType
         /\ PeerOK(RequestBlock(s, r, e), f, g)
         /\ Kept(s, RequestBlock(s, r, e))
         /\ ~RequestBlock(s, r, e).thread[r].peerChoking
         /\ RequestBlock(s, r, e).state \in {"NORMAL", "ENDGAME"}
         /\ RequestBlock(s, r, e).state = "NORMAL" => Owner(RequestBlock(s, r, e), r, e[1])
<1> DEFINE lb == s.localBitfield
           lb2 == SetBlockRequested(lb, e[1], e[2], TRUE)
           w == AskingPeer(s, r, e, "NORMAL")
           z == AskingPeer(s, r, e, "ENDGAME")
           ends == s.enableEndGameMode /\ lb2.numNonRequestedNonAvailableBlocks = 0
           v == IF ends THEN ScheduleEndGameRequests(z) ELSE w
           u == Schedule(v, r, RequestMsg("REQUEST", e))
<1>1. RequestBlock(s, r, e) = u
  <2> DEFINE a == AddRequest(s, r, e)
             marked == [a EXCEPT !.localBitfield = SetBlockRequested(@, e[1], e[2], TRUE)]
  <2>0. s.thread \in [Remote -> ThreadType] /\ s.thread[r] \in ThreadType
    BY DEF PeerType
  <2>1. a = [s EXCEPT !.thread = [s.thread EXCEPT ![r] = AskingThread(s, r, e)]]
    BY <2>0 DEF AddRequest, AskingThread
  <2>2. marked = w
    <3>1. a.localBitfield = lb /\ a.state = "NORMAL"
      BY <2>1 DEF PeerType
    <3> QED BY <2>1, <3>1 DEF AskingPeer, PeerType
  <2>3. [w EXCEPT !.state = "ENDGAME"] = z
    BY DEF AskingPeer, PeerType
  <2>4. /\ w.enableEndGameMode = s.enableEndGameMode /\ w.state = "NORMAL" /\ w.localBitfield = lb2
        /\ a.state = "NORMAL"
    BY <2>1 DEF AskingPeer, PeerType
  <2>5. EnterEndGameMode(w) <=> ends
    BY <2>4 DEF EnterEndGameMode
  <2>6. UpdateBlockRequests(a, e, TRUE) = IF EnterEndGameMode(marked) THEN ScheduleEndGameRequests([marked EXCEPT !.state = "ENDGAME"]) ELSE marked
    <3> HIDE DEF a
    <3> QED BY <2>4 DEF UpdateBlockRequests
  <2> HIDE DEF a, marked, w, z, ends
  <2>7. UpdateBlockRequests(a, e, TRUE) = v
    BY <2>2, <2>3, <2>5, <2>6
  <2> QED BY <2>7 DEF RequestBlock, a
<1> HIDE DEF w, z
<1>2. /\ PeerOK(w, f, g) /\ Kept(s, w) /\ Owner(w, r, e[1]) /\ ~w.thread[r].peerChoking
      /\ e \in Req(w, r)
      /\ e \notin BlocksAsked(w, r)
      /\ e \notin BlocksIn(w.toRemote[r], "REQUEST")
      /\ e \notin BlocksIn(f[r], "PIECE")
      /\ w.state = "NORMAL"
  BY BlockMarked DEF w
<1>3. CASE ~ends
  <2>1. v = w /\ v \in PeerType
    BY <1>2, <1>3 DEF PeerOK
  <2> HIDE DEF v, ends
  <2>2. /\ PeerOK(u, f, g) /\ Kept(v, u) /\ u.thread = v.thread /\ u.state = v.state
    BY <2>1, <1>2, RequestScheduled
  <2> HIDE DEF u
  <2>3. Kept(s, u)
    BY <2>1, <2>2, <1>2, KeptComposed
  <2>4. Owner(u, r, e[1])
    BY <2>1, <2>2, <1>2 DEF Owner, Req
  <2> QED BY <1>1, <1>2, <2>1, <2>2, <2>3, <2>4 DEF PeerOK
<1>4. CASE ends
  <2>1. /\ PeerOK(z, f, g) /\ Kept(s, z) /\ ~z.thread[r].peerChoking
        /\ e \in Req(z, r) /\ z.state = "ENDGAME"
    BY <1>4, BlockMarked DEF z
  <2>2. v \in PeerType /\ EndGame(z, v) /\ z \in PeerType
    BY <1>4, <2>1, EndGameScheduled DEF PeerOK
  <2> HIDE DEF v, ends
  <2>3. PeerOK(v, f, g) /\ Kept(z, v)
    BY <2>1, <2>2, EndGameOK
  <2>4. ~v.thread[r].peerChoking /\ e \in Req(v, r) /\ v.state = "ENDGAME"
    BY <2>1, <2>2 DEF EndGame
  <2>5. PeerOK(u, f, g) /\ Kept(v, u) /\ u.thread = v.thread /\ u.state = v.state
    BY <2>2, <2>3, <2>4, RequestScheduled
  <2> HIDE DEF u
  <2>6. Kept(s, v)
    BY <2>1, <2>3, KeptComposed
  <2>7. Kept(s, u)
    BY <2>5, <2>6, KeptComposed
  <2> QED BY <1>1, <2>4, <2>5, <2>7 DEF PeerOK
<1> QED BY <1>3, <1>4

\* The states that the requests of thread r for blocks of p may lead to from s.
Requests(s, f, g, r, p) ==
  {u \in PeerType : /\ PeerOK(u, f, g) /\ Kept(s, u) /\ ~u.thread[r].peerChoking
                    /\ u.state = "NORMAL" => Owner(u, r, p)}

LEMMA NextRequested ==
  ASSUME NEW s, NEW f, NEW g, NEW r \in Remote, NEW p \in Piece, NEW t \in Requests(s, f, g, r, p),
         t.state # "SEEDING"
  PROVE  RequestNext(t, r, p) \in Requests(s, f, g, r, p) /\ RequestNext(t, r, p).state # "SEEDING"
<1>1. /\ t \in PeerType /\ PeerOK(t, f, g) /\ Kept(s, t) /\ ~t.thread[r].peerChoking
      /\ t.state = "NORMAL" => Owner(t, r, p)
      /\ t.state \in {"NORMAL", "ENDGAME"}
  BY DEF Requests, PeerType
<1> DEFINE b == NextBlock(t.localBitfield, p)
           e == <<p, b>>
           u == RequestBlock(t, r, e)
<1>2. CASE CanRequestMore(t, r) /\ t.state # "ENDGAME" /\ b >= 0
  <2>1. RequestNext(t, r, p) = u
    BY <1>2 DEF RequestNext
  <2>2. b \in FreeBlocks(t.localBitfield, p)
    BY <1>2, NextBlockIs
  <2> HIDE DEF b
  <2>3. e \in Entry /\ e[1] = p /\ e[2] = b
    BY <2>2 DEF Entry, FreeBlocks
  <2> HIDE DEF e
  <2>4. /\ u \in PeerType /\ PeerOK(u, f, g) /\ Kept(t, u) /\ ~u.thread[r].peerChoking
        /\ u.state \in {"NORMAL", "ENDGAME"}
        /\ u.state = "NORMAL" => Owner(u, r, e[1])
    <3>1. e[2] \in FreeBlocks(t.localBitfield, e[1]) /\ t.state = "NORMAL" /\ Owner(t, r, e[1])
      BY <1>1, <1>2, <2>2, <2>3
    <3>2. e \in Entry /\ CanRequestMore(t, r)
      BY <1>2, <2>3
    <3>3. t \in PeerType /\ PeerOK(t, f, g) /\ ~t.thread[r].peerChoking
      BY <1>1
    <3> QED BY <3>1, <3>2, <3>3, BlockRequested
  <2> HIDE DEF u
  <2>5. Kept(s, u)
    BY <1>1, <2>4, KeptComposed
  <2> QED BY <2>1, <2>3, <2>4, <2>5 DEF Requests
<1>3. CASE ~(CanRequestMore(t, r) /\ t.state # "ENDGAME" /\ b >= 0)
  <2>1. RequestNext(t, r, p) = t
    BY <1>3 DEF RequestNext
  <2> QED BY <2>1
<1> QED BY <1>2, <1>3

LEMMA KeptSame == ASSUME NEW s PROVE Kept(s, s)
BY DEF Kept

\* The states that are not of a seeder.
Unfinished(S) == {u \in S : u.state # "SEEDING"}

LEMMA BlocksRequested ==
  ASSUME NEW s \in PeerType, NEW f, NEW g, PeerOK(s, f, g), NEW r \in Remote, NEW p \in Piece,
         s.state # "SEEDING", ~s.thread[r].peerChoking, s.state = "NORMAL" => Owner(s, r, p)
  PROVE  SendBlockRequests(s, r, p) \in Requests(s, f, g, r, p)
<1> DEFINE D == Unfinished(Requests(s, f, g, r, p))
           seq == [i \in 1 .. RequestQueueDepth |-> i]
           n == Len(seq)
           Step(t, i) == RequestNext(t, r, p)
           F == [x \in D \X (1 .. n) |-> Step(x[1], seq[x[2]])]
           it == CHOOSE jt : jt = [S \in SUBSET (1 .. n) |->
                                  IF S = {} THEN s ELSE Step(jt[S \ {Max(S)}], seq[Max(S)])]
<1>1. seq \in Seq(Nat)
  BY RequestQueueDepthAssumption
<1>2. n \in Nat /\ DOMAIN seq = 1 .. n
  <2> HIDE DEF seq
  <2> QED BY <1>1
<1>3. FoldLeft(LAMBDA t, i : RequestNext(t, r, p), s, [i \in 1 .. RequestQueueDepth |-> i]) = it[1 .. n]
  BY <1>2 DEF FoldLeft, MapThenFoldSet
<1>4. F \in [D \X (1 .. n) -> D]
  <2>1. ASSUME NEW t \in D, NEW i \in 1 .. n PROVE Step(t, seq[i]) \in D
    BY NextRequested DEF Unfinished
  <2> HIDE DEF D, Step
  <2> QED BY <2>1
<1>5. ASSUME NEW jt \in [SUBSET (1 .. n) -> D], Folds(jt, SUBSET (1 .. n), F, s)
      PROVE  Unfolds(it, n, D, F, s)
  <2> HIDE DEF D, seq, n, Step
  <2>1. jt = [S \in SUBSET (1 .. n) |-> IF S = {} THEN s ELSE F[<<jt[S \ {Max(S)}], Max(S)>>]]
    BY <1>5 DEF Folds
  <2>2. \A S \in SUBSET (1 .. n) : S # {} => Max(S) \in 1 .. n
    BY <1>2, GreatestOf DEF n
  <2>3. \A d \in D : \A i \in 1 .. n : F[<<d, i>>] = Step(d, seq[i])
    OBVIOUS
  <2> HIDE DEF F
  <2>4. \A S \in SUBSET (1 .. n) : S # {} =>
           F[<<jt[S \ {Max(S)}], Max(S)>>] = Step(jt[S \ {Max(S)}], seq[Max(S)])
    BY <2>2, <2>3
  <2>5. jt = [S \in SUBSET (1 .. n) |-> IF S = {} THEN s ELSE Step(jt[S \ {Max(S)}], seq[Max(S)])]
    BY <2>1, <2>4
  <2>6. it = [S \in SUBSET (1 .. n) |-> IF S = {} THEN s ELSE Step(it[S \ {Max(S)}], seq[Max(S)])]
    BY <2>5
  <2> HIDE DEF it
  <2>7. it[{}] = s
    BY <2>6
  <2>8. \A S \in SUBSET (1 .. n) : S # {} => it[S] = Step(it[S \ {Max(S)}], seq[Max(S)])
    BY <2>6
  <2> QED BY <2>2, <2>3, <2>7, <2>8 DEF Unfolds
<1> HIDE DEF D, seq, n, Step, F, it
<1>6. s \in D
  BY KeptSame DEF D, Unfinished, Requests
<1>7. it[1 .. n] \in D
  BY <1>2, <1>4, <1>5, <1>6, Folded
<1> DEFINE sent == FoldLeft(LAMBDA t, i : RequestNext(t, r, p), s, [i \in 1 .. RequestQueueDepth |-> i])
<1>8. sent \in Unfinished(Requests(s, f, g, r, p))
  BY <1>3, <1>7 DEF D
<1>9. SendBlockRequests(s, r, p) = IF CanRequestMore(sent, r) /\ sent.state # "ENDGAME"
                                    THEN Schedule(sent, r, Msg("NEXT_REQUEST")) ELSE sent
  BY DEF SendBlockRequests
<1> HIDE DEF sent
<1>10. /\ sent \in PeerType /\ PeerOK(sent, f, g) /\ Kept(s, sent) /\ ~sent.thread[r].peerChoking
       /\ sent.state = "NORMAL" => Owner(sent, r, p)
  BY <1>8 DEF Unfinished, Requests
<1> DEFINE m == Msg("NEXT_REQUEST")
           u == Schedule(sent, r, m)
<1>11. m \in Messages(SelfKinds) /\ m.kind = "NEXT_REQUEST"
  BY MsgTypes DEF SelfKinds
<1> HIDE DEF m
<1>12. u \in PeerType /\ Alike(sent, u) /\ Kept(sent, u)
  BY <1>10, <1>11, ScheduledAlike
<1> HIDE DEF u
<1>13. PeerOK(u, f, g)
  BY <1>10, <1>12, AlikeOK
<1>14. Kept(s, u)
  BY <1>10, <1>12, KeptComposed
<1>15. \A q \in Remote : Req(u, q) = Req(sent, q)
  BY <1>12, AlikeBooks
<1>16. u.state = "NORMAL" => Owner(u, r, p)
  BY <1>10, <1>12, <1>15 DEF Owner, Alike
<1>17. u \in Requests(s, f, g, r, p)
  BY <1>10, <1>12, <1>13, <1>14, <1>16 DEF Requests, Alike
<1> QED BY <1>8, <1>9, <1>17 DEF Unfinished, u, m

\* From s to t, marks of the bit field have been taken back.
Giving(s, t) ==
  /\ t = [s EXCEPT !.localBitfield = t.localBitfield]
  /\ t.localBitfield.bitfield = s.localBitfield.bitfield
  /\ t.localBitfield.blockfield = s.localBitfield.blockfield
  /\ t.localBitfield.numRemainingBlocks = s.localBitfield.numRemainingBlocks
  /\ t.localBitfield.numRemainingPieces = s.localBitfield.numRemainingPieces
  /\ s.state = "ENDGAME" => t = s

Givings(s) == {t \in PeerType : Giving(s, t)}

LEMMA SameGiving ==
  ASSUME NEW s \in PeerType
  PROVE  s \in Givings(s)
BY DEF Givings, Giving, PeerType

LEMMA OneGiven ==
  ASSUME NEW s \in PeerType, NEW t \in Givings(s), NEW e \in Entry
  PROVE  /\ UpdateBlockRequests(t, e, FALSE) \in Givings(s)
         /\ s.state = "NORMAL" => UpdateBlockRequests(t, e, FALSE).localBitfield
                                    = SetBlockRequested(t.localBitfield, e[1], e[2], FALSE)
<1> DEFINE lb == t.localBitfield
           lb2 == SetBlockRequested(lb, e[1], e[2], FALSE)
           u == [t EXCEPT !.localBitfield = lb2]
<1>1. t \in PeerType /\ Giving(s, t)
  BY DEF Givings
<1>2. t.state = s.state
  BY <1>1 DEF Giving, PeerType
<1>3. UpdateBlockRequests(t, e, FALSE) = IF s.state = "ENDGAME" THEN t ELSE u
  BY <1>2 DEF UpdateBlockRequests
<1>4. lb \in BitFieldType
  BY <1>1 DEF PeerType
<1>5. /\ lb2 \in BitFieldType /\ lb2.bitfield = lb.bitfield /\ lb2.blockfield = lb.blockfield
      /\ lb2.numRemainingBlocks = lb.numRemainingBlocks /\ lb2.numRemainingPieces = lb.numRemainingPieces
  <2>1. e[1] \in Piece /\ <<e[1], e[2]>> = e
    BY DEF Entry
  <2>2. /\ lb.numNonRequestedNonAvailableBlocks + 1 \in Nat
        /\ lb.requested \ {e} \in SUBSET Entry
        /\ lb.currentlyRequested \in [Piece -> Nat]
    BY <1>4 DEF BitFieldType
  <2>3. [lb.currentlyRequested EXCEPT ![e[1]] = Decrement(@)] \in [Piece -> Nat]
    BY <2>1, <2>2, DecrementIs
  <2>4. lb2 = [lb EXCEPT !.requested = lb.requested \ {e},
                         !.currentlyRequested = [lb.currentlyRequested EXCEPT ![e[1]] = Decrement(@)],
                         !.numNonRequestedNonAvailableBlocks = lb.numNonRequestedNonAvailableBlocks + 1]
    BY <2>1 DEF SetBlockRequested
  <2> HIDE DEF lb, lb2
  <2> QED BY <1>4, <2>2, <2>3, <2>4 DEF BitFieldType
<1> HIDE DEF lb2
<1>6. u \in PeerType /\ u.localBitfield = lb2
  BY <1>1, <1>5 DEF PeerType
<1>7. u = [s EXCEPT !.localBitfield = u.localBitfield]
  BY <1>1, <1>6 DEF Giving, PeerType
<1>8. s.state # "ENDGAME" => Giving(s, u)
  <2> HIDE DEF u
  <2> QED BY <1>1, <1>5, <1>6, <1>7 DEF Giving
<1>9. s.state = "NORMAL" => UpdateBlockRequests(t, e, FALSE).localBitfield = lb2
  BY <1>3, <1>6
<1> HIDE DEF u
<1> QED BY <1>1, <1>3, <1>6, <1>8, <1>9 DEF Givings, lb2

LEMMA AllGiven ==
  ASSUME NEW s \in PeerType, NEW r \in Remote, Books(s)
  PROVE  LET v == FoldLeft(LAMBDA t, e : UpdateBlockRequests(t, e, FALSE), s, s.thread[r].requests)
         IN  /\ v \in Givings(s)
             /\ s.state = "NORMAL" => Marks(v.localBitfield, PendingOf(s) \ Req(s, r))
<1> DEFINE D == Givings(s)
           seq == s.thread[r].requests
           n == Len(seq)
           Step(t, e) == UpdateBlockRequests(t, e, FALSE)
           F == [x \in D \X (1 .. n) |-> Step(x[1], seq[x[2]])]
           f == CHOOSE g : g = [S \in SUBSET (1 .. n) |->
                                  IF S = {} THEN s ELSE Step(g[S \ {Max(S)}], seq[Max(S)])]
<1>1. seq \in Seq(Entry)
  BY DEF PeerType, ThreadType
<1>2. n \in Nat /\ DOMAIN seq = 1 .. n
  BY <1>1
<1>3. FoldLeft(LAMBDA t, e : UpdateBlockRequests(t, e, FALSE), s, s.thread[r].requests) = f[1 .. n]
  BY <1>2 DEF FoldLeft, MapThenFoldSet
<1>4. F \in [D \X (1 .. n) -> D]
  <2>1. ASSUME NEW t \in D, NEW i \in 1 .. n PROVE Step(t, seq[i]) \in D
    <3>1. seq[i] \in Entry
      BY <1>1, <1>2
    <3> QED BY <3>1, OneGiven
  <2> HIDE DEF D, Step
  <2> QED BY <2>1
<1>5. ASSUME NEW g \in [SUBSET (1 .. n) -> D], Folds(g, SUBSET (1 .. n), F, s)
      PROVE  Unfolds(f, n, D, F, s)
  <2> HIDE DEF D, seq, n, Step
  <2>1. g = [S \in SUBSET (1 .. n) |-> IF S = {} THEN s ELSE F[<<g[S \ {Max(S)}], Max(S)>>]]
    BY <1>5 DEF Folds
  <2>2. \A S \in SUBSET (1 .. n) : S # {} => Max(S) \in 1 .. n
    BY <1>2, GreatestOf DEF n
  <2>3. \A d \in D : \A i \in 1 .. n : F[<<d, i>>] = Step(d, seq[i])
    OBVIOUS
  <2> HIDE DEF F
  <2>4. \A S \in SUBSET (1 .. n) : S # {} =>
           F[<<g[S \ {Max(S)}], Max(S)>>] = Step(g[S \ {Max(S)}], seq[Max(S)])
    BY <2>2, <2>3
  <2>5. g = [S \in SUBSET (1 .. n) |-> IF S = {} THEN s ELSE Step(g[S \ {Max(S)}], seq[Max(S)])]
    BY <2>1, <2>4
  <2>6. f = [S \in SUBSET (1 .. n) |-> IF S = {} THEN s ELSE Step(f[S \ {Max(S)}], seq[Max(S)])]
    BY <2>5
  <2> HIDE DEF f
  <2>7. f[{}] = s
    BY <2>6
  <2>8. \A S \in SUBSET (1 .. n) : S # {} => f[S] = Step(f[S \ {Max(S)}], seq[Max(S)])
    BY <2>6
  <2> QED BY <2>2, <2>3, <2>7, <2>8 DEF Unfolds
<1> HIDE DEF D, seq, n, Step, F, f
<1>6. s \in D
  BY SameGiving DEF D
<1>7. f[1 .. n] \in D
  BY <1>2, <1>4, <1>5, <1>6, Folded
<1>8. RunsTo(f[1 .. n], n, D, F, s)
  BY <1>2, <1>4, <1>5, <1>6, Folded
<1>9. PICK h : Runs(h, n, D, F, s) /\ h[n] = f[1 .. n]
  BY <1>8 DEF RunsTo
<1>10. h \in [0 .. n -> D] /\ h[0] = s /\ \A k \in 1 .. n : h[k] = F[<<h[k - 1], k>>]
  BY <1>9 DEF Runs
<1>11. ASSUME s.state = "NORMAL"
       PROVE  Marks(f[1 .. n].localBitfield, PendingOf(s) \ Req(s, r))
  <2> DEFINE X == PendingOf(s)
             Y(k) == X \ {seq[i] : i \in 1 .. k}
             T == {k \in Nat : k <= n => Counted(h[k].localBitfield) /\ Marks(h[k].localBitfield, Y(k))}
  <2>1. Counted(s.localBitfield) /\ Marks(s.localBitfield, X) /\ Distinct(seq) /\ \A i \in 1 .. n : seq[i] \in X
    <3>1. \A i \in 1 .. n : seq[i] \in Req(s, r)
      BY <1>2 DEF Req, seq, ToSet
    <3> QED BY <3>1, <1>11 DEF Books, Orders, PendingOf, seq
  <2>2. 0 \in T
    <3>1. Y(0) = X
      OBVIOUS
    <3> HIDE DEF X, Y
    <3> QED BY <3>1, <2>1, <1>10
  <2>3. ASSUME NEW k \in Nat, k \in T PROVE k + 1 \in T
    <3> SUFFICES ASSUME k + 1 <= n
                 PROVE  Counted(h[k + 1].localBitfield) /\ Marks(h[k + 1].localBitfield, Y(k + 1))
      OBVIOUS
    <3> DEFINE lb == h[k].localBitfield
               e == seq[k + 1]
    <3>1. k \in 0 .. n /\ k + 1 \in 1 .. n /\ (k + 1) - 1 = k /\ Counted(lb) /\ Marks(lb, Y(k))
      <4>1. k <= n /\ k \in 0 .. n /\ k + 1 \in 1 .. n /\ (k + 1) - 1 = k
        BY <1>2
      <4> QED BY <4>1, <2>3
    <3>2. h[k] \in D /\ h[k + 1] = F[<<h[k], k + 1>>]
      BY <3>1, <1>10
    <3>3. h[k + 1] = UpdateBlockRequests(h[k], e, FALSE) /\ e \in Entry
      <4>1. \A d \in D : \A i \in 1 .. n : F[<<d, i>>] = Step(d, seq[i])
        BY DEF F
      <4>2. F[<<h[k], k + 1>>] = Step(h[k], seq[k + 1])
        BY <4>1, <3>1, <3>2
      <4>3. seq[k + 1] \in Entry
        BY <3>1, <1>1, <1>2
      <4> QED BY <4>2, <4>3, <3>2 DEF Step
    <3>4. h[k + 1].localBitfield = SetBlockRequested(lb, e[1], e[2], FALSE)
      <4>1. h[k] \in Givings(s)
        BY <3>2 DEF D
      <4> HIDE DEF e
      <4> QED BY <4>1, <3>3, <1>11, OneGiven
    <3>5. lb \in BitFieldType
      BY <3>2 DEF D, Givings, PeerType
    <3>6. e \in Y(k)
      <4>1. \A i \in 1 .. k : i \in 1 .. n /\ i # k + 1
        BY <3>1, <1>2
      <4>2. \A i \in 1 .. k : seq[i] # seq[k + 1]
        BY <4>1, <3>1, <2>1, <1>2 DEF Distinct
      <4>3. seq[k + 1] \in X
        BY <3>1, <2>1
      <4> QED BY <4>2, <4>3
    <3>7. Y(k + 1) = Y(k) \ {e}
      <4>1. 1 .. k + 1 = (1 .. k) \cup {k + 1}
        OBVIOUS
      <4> QED BY <4>1
    <3> DEFINE Z == Y(k)
    <3> HIDE DEF lb, e, Y
    <3>9. Counted(lb) /\ Marks(lb, Z) /\ e \in Z
      BY <3>1, <3>6
    <3> HIDE DEF Z
    <3>8. /\ Counted(SetBlockRequested(lb, e[1], e[2], FALSE))
          /\ Marks(SetBlockRequested(lb, e[1], e[2], FALSE), Z \ {e})
      BY <3>5, <3>9, MarkOff
    <3> QED BY <3>4, <3>7, <3>8 DEF Z
  <2>4. n \in T
    <3> HIDE DEF T
    <3> QED BY <1>2, <2>2, <2>3, AllNumbers
  <2>5. {seq[i] : i \in 1 .. n} = Req(s, r)
    BY <1>2 DEF Req, ToSet, seq
  <2>6. Y(n) = X \ Req(s, r)
    BY <2>5
  <2>7. Marks(h[n].localBitfield, Y(n))
    BY <2>4, <1>2
  <2> HIDE DEF X, Y
  <2> QED BY <2>6, <2>7, <1>9 DEF X
<1> QED BY <1>3, <1>7, <1>11 DEF D

\* From s to u, thread r has given its requests up.
Cleared(s, u, r) ==
  /\ u.localBitfield.bitfield = s.localBitfield.bitfield
  /\ u.localBitfield.blockfield = s.localBitfield.blockfield
  /\ u.state = s.state /\ u.enableEndGameMode = s.enableEndGameMode /\ u.toRemote = s.toRemote
  /\ u.thread[r] = [s.thread[r] EXCEPT !.requests = <<>>]
  /\ \A q \in Remote \ {r} : u.thread[q] = s.thread[q]
  /\ Removals(u) \subseteq Removals(s)
  /\ \A q \in Remote : AgendaKept(s, u, q) /\ (News(s, q) => News(u, q))

LEMMA ClearedBooks ==
  ASSUME NEW s \in PeerType, NEW r \in Remote, Books(s)
  PROVE  /\ ClearPendingRequests(s, r) \in PeerType
         /\ Books(ClearPendingRequests(s, r))
         /\ Cleared(s, ClearPendingRequests(s, r), r)
<1> DEFINE v == FoldLeft(LAMBDA t, e : UpdateBlockRequests(t, e, FALSE), s, s.thread[r].requests)
           t == [v.thread[r] EXCEPT !.requests = <<>>]
           w == [v EXCEPT !.thread[r].requests = <<>>]
           m == Msg("UPDATE_INTERESTS")
           u == Schedule(w, r, m)
<1>1. ClearPendingRequests(s, r) = u
  BY DEF ClearPendingRequests
<1>2. /\ v \in Givings(s)
      /\ s.state = "NORMAL" => Marks(v.localBitfield, PendingOf(s) \ Req(s, r))
  BY AllGiven
<1> HIDE DEF v
<1>3. v \in PeerType /\ Giving(s, v)
  BY <1>2 DEF Givings
<1>4. /\ v.thread = s.thread /\ v.agenda = s.agenda /\ v.state = s.state /\ v.toRemote = s.toRemote
      /\ v.enableEndGameMode = s.enableEndGameMode
  BY <1>3 DEF Giving, PeerType
<1>5. t \in ThreadType /\ SetThread(v, w, r, t)
  <2>1. v.thread \in [Remote -> ThreadType] /\ v.thread[r] \in ThreadType
    BY <1>3 DEF PeerType
  <2>2. <<>> \in Seq(Entry)
    OBVIOUS
  <2>3. t \in ThreadType
    BY <2>1, <2>2 DEF ThreadType
  <2>4. SetThread(v, w, r, t)
    BY <2>1, <1>3 DEF SetThread, PeerType
  <2> QED BY <2>3, <2>4
<1> HIDE DEF w
<1>6. /\ w \in PeerType /\ w.thread[r] = t
      /\ \A q \in Remote \ {r} : w.thread[q] = v.thread[q]
      /\ w.localBitfield = v.localBitfield /\ w.state = v.state
      /\ w.enableEndGameMode = v.enableEndGameMode /\ w.agenda = v.agenda
      /\ w.toRemote = v.toRemote
  <2> HIDE DEF t
  <2> QED BY <1>3, <1>5, ThreadSet
<1>7. m \in Messages(SelfKinds) /\ m.kind = "UPDATE_INTERESTS"
  BY MsgTypes DEF SelfKinds
<1> HIDE DEF m
<1>8. u \in PeerType /\ Alike(w, u) /\ Kept(w, u)
  BY <1>6, <1>7, ScheduledAlike
<1>9. u.thread = w.thread /\ u.toRemote = w.toRemote /\ u.localBitfield = w.localBitfield
  BY <1>6 DEF Schedule, PeerType
<1> HIDE DEF u
<1>10. t = [s.thread[r] EXCEPT !.requests = <<>>]
  BY <1>4
<1>11. t.requests = <<>>
  BY <1>4 DEF PeerType, ThreadType
<1> HIDE DEF t
<1>12. /\ \A q : AgendaKept(s, w, q) /\ (News(s, q) => News(w, q))
       /\ Removals(w) = Removals(s)
  BY <1>4, <1>6 DEF AgendaKept, BlocksAsked, OnceAsked, Asked, News, Removals
<1>13. Cleared(s, u, r)
  <2>1. \A q \in Remote : AgendaKept(s, u, q) /\ (News(s, q) => News(u, q))
    BY <1>8, <1>12 DEF Alike, Kept, AgendaKept
  <2>2. Removals(u) \subseteq Removals(s)
    BY <1>8, <1>12 DEF Alike
  <2>3. u.state = s.state /\ u.enableEndGameMode = s.enableEndGameMode
    BY <1>4, <1>6, <1>8 DEF Alike
  <2>4. /\ u.localBitfield.bitfield = s.localBitfield.bitfield
        /\ u.localBitfield.blockfield = s.localBitfield.blockfield
    BY <1>3, <1>6, <1>9 DEF Giving
  <2>5. /\ u.thread[r] = [s.thread[r] EXCEPT !.requests = <<>>]
        /\ \A q \in Remote \ {r} : u.thread[q] = s.thread[q]
        /\ u.toRemote = s.toRemote
    BY <1>4, <1>6, <1>9, <1>10
  <2> QED BY <2>1, <2>2, <2>3, <2>4, <2>5 DEF Cleared
<1>14. Books(u)
  <2>1. Counted(u.localBitfield)
    BY <1>3, <1>6, <1>9 DEF Giving, Books, Counted
  <2>2. s.state = "NORMAL" => Marks(u.localBitfield, PendingOf(u)) /\ Orders(u)
    <3> SUFFICES ASSUME s.state = "NORMAL" PROVE Marks(u.localBitfield, PendingOf(u)) /\ Orders(u)
      OBVIOUS
    <3>1. Orders(s)
      BY DEF Books
    <3>2. Req(u, r) = {} /\ \A q \in Remote \ {r} : Req(u, q) = Req(s, q)
      BY <1>4, <1>6, <1>9, <1>11 DEF Req, ToSet
    <3>3. \A q \in Remote \ {r} : Req(s, q) \cap Req(s, r) = {}
      BY <3>1 DEF Orders, OwnPieces
    <3>4. PendingOf(u) = PendingOf(s) \ Req(s, r)
      BY <3>2, <3>3 DEF PendingOf
    <3>5. \A q \in Remote : Distinct(u.thread[q].requests) /\ Len(u.thread[q].requests) <= RequestQueueDepth
      <4> TAKE q \in Remote
      <4>1. CASE q # r
        BY <4>1, <3>1, <1>4, <1>6, <1>9 DEF Orders
      <4>2. CASE q = r
        BY <4>2, <1>6, <1>9, <1>11, RequestQueueDepthAssumption DEF Distinct
      <4> QED BY <4>1, <4>2
    <3>6. OwnPieces(u)
      BY <3>1, <3>2 DEF Orders, OwnPieces
    <3> QED BY <3>4, <3>5, <3>6, <1>2, <1>6, <1>9 DEF Orders
  <2>3. s.state = "ENDGAME" => u.enableEndGameMode /\ AllAsked(u.localBitfield)
    BY <1>3, <1>6, <1>9, <1>13 DEF Giving, Books, Cleared
  <2>4. s.state = "SEEDING" => u.localBitfield.blockfield = Entry
    BY <1>13 DEF Cleared, Books
  <2>5. u.state = s.state
    BY <1>13 DEF Cleared
  <2> QED BY <2>1, <2>2, <2>3, <2>4, <2>5 DEF Books
<1> QED BY <1>1, <1>8, <1>13, <1>14

-----------------------------------------------------------------------------
(* A block arrives *)

LEMMA FirstRemoved ==
  ASSUME NEW S, NEW q \in Seq(S), NEW e
  PROVE  /\ RemoveFirst(q, e) \in Seq(S)
         /\ ToSet(q) \ {e} \subseteq ToSet(RemoveFirst(q, e))
         /\ ToSet(RemoveFirst(q, e)) \subseteq ToSet(q)
         /\ q = <<>> => RemoveFirst(q, e) = <<>>
         /\ Len(RemoveFirst(q, e)) <= Len(q)
         /\ Distinct(q) => Distinct(RemoveFirst(q, e)) /\ e \notin ToSet(RemoveFirst(q, e))
<1> DEFINE u == RemoveFirst(q, e)
           I == {i \in 1 .. Len(q) : q[i] = e}
<1>1. Len(q) \in Nat /\ DOMAIN q = 1 .. Len(q)
  OBVIOUS
<1>2. CASE I = {}
  <2>1. u = q
    BY <1>2 DEF RemoveFirst
  <2>2. e \notin ToSet(q)
    BY <1>1, <1>2 DEF ToSet
  <2> QED BY <1>1, <2>1, <2>2
<1>3. CASE I # {}
  <2> DEFINE k == Min(I)
  <2>1. \E i \in 1 .. Len(q) : q[i] = e
    BY <1>3
  <2>2. u = RemoveAt(q, k)
    BY <1>3, <2>1 DEF RemoveFirst, SelectInSeq
  <2>3. k \in I
    <3>1. I \in SUBSET Nat
      BY <1>1
    <3>2. \E x \in I : \A y \in I : x <= y
      <4> HIDE DEF I
      <4> QED BY <1>3, <3>1, LeastNumber
    <3>3. k = CHOOSE x \in I : \A y \in I : x =< y
      BY DEF Min
    <3> HIDE DEF I, k
    <3> QED BY <3>2, <3>3
  <2>4. k \in 1 .. Len(q) /\ q[k] = e
    BY <2>3
  <2> HIDE DEF k
  <2> DEFINE a == SubSeq(q, 1, k - 1)
             b == SubSeq(q, k + 1, Len(q))
  <2>5. /\ a \in Seq(S) /\ b \in Seq(S) /\ Len(a) = k - 1 /\ Len(b) = Len(q) - k
        /\ \A i \in 1 .. k - 1 : a[i] = q[i]
        /\ \A i \in 1 .. Len(q) - k : b[i] = q[k + i]
    <3>1. a \in Seq(S) /\ Len(a) = k - 1 /\ \A i \in 1 .. k - 1 : a[i] = q[i]
      BY <1>1, <2>4
    <3>2. b \in Seq(S) /\ Len(b) = Len(q) - k /\ \A i \in 1 .. Len(q) - k : b[i] = q[k + i]
      <4>1. k + 1 \in 1 .. Len(q) + 1 /\ Len(q) \in k .. Len(q)
        BY <1>1, <2>4
      <4>2. /\ b \in Seq(S) /\ Len(b) = IF k + 1 <= Len(q) THEN Len(q) - (k + 1) + 1 ELSE 0
            /\ \A i \in 1 .. Len(q) - (k + 1) + 1 : b[i] = q[k + 1 + i - 1]
        BY <4>1, <1>1, <2>4, SubSeqProperties
      <4>3. Len(b) = Len(q) - k /\ Len(q) - (k + 1) + 1 = Len(q) - k
        <5>1. k \in Int /\ Len(q) \in Int /\ k <= Len(q)
          BY <1>1, <2>4
        <5>2. Len(q) - (k + 1) + 1 = Len(q) - k
          BY <5>1
        <5>3. CASE k + 1 <= Len(q)
          BY <5>2, <5>3, <4>2
        <5>4. CASE ~(k + 1 <= Len(q))
          <6>1. k = Len(q) /\ Len(q) - k = 0
            BY <5>1, <5>4
          <6> HIDE DEF b
          <6> QED BY <6>1, <5>2, <5>4, <4>2
        <5> QED BY <5>2, <5>3, <5>4
      <4>4. \A i \in 1 .. Len(q) - k : k + 1 + i - 1 = k + i
        BY <1>1, <2>4
      <4> QED BY <4>2, <4>3, <4>4
    <3> QED BY <3>1, <3>2
  <2>6. u = a \o b
    BY <2>2 DEF RemoveAt
  <2> HIDE DEF a, b, u
  <2>7. u \in Seq(S) /\ Len(u) = Len(q) - 1
    <3>1. u \in Seq(S) /\ Len(u) = Len(a) + Len(b)
      BY <2>5, <2>6
    <3>2. k - 1 + (Len(q) - k) = Len(q) - 1
      BY <1>1, <2>4
    <3> QED BY <3>1, <3>2, <2>5
  <2>8. DOMAIN u = 1 .. Len(q) - 1
    BY <2>7
  <2>9. \A i \in 1 .. k - 1 : i \in DOMAIN u /\ u[i] = q[i]
    <3> TAKE i \in 1 .. k - 1
    <3>1. i \in 1 .. Len(a)
      BY <1>1, <2>4, <2>5
    <3>2. u[i] = a[i]
      BY <3>1, <2>5, <2>6
    <3>3. i \in DOMAIN u
      BY <1>1, <2>4, <2>8
    <3> QED BY <3>2, <3>3, <2>5
  <2>10. \A i \in k .. Len(q) - 1 : i \in DOMAIN u /\ u[i] = q[i + 1]
    <3> TAKE i \in k .. Len(q) - 1
    <3>1. i \in (Len(a) + 1) .. Len(a) + Len(b)
      BY <1>1, <2>4, <2>5
    <3>2. u[i] = b[i - Len(a)]
      BY <3>1, <2>5, <2>6
    <3>3. i - Len(a) = i - k + 1 /\ i - k + 1 \in 1 .. Len(q) - k /\ k + (i - k + 1) = i + 1
      BY <1>1, <2>4, <2>5
    <3>4. i \in DOMAIN u
      BY <1>1, <2>4, <2>8
    <3> QED BY <3>2, <3>3, <3>4, <2>5
  <2>11. \A i \in DOMAIN u : \/ i \in 1 .. k - 1
                             \/ i \in k .. Len(q) - 1
    BY <1>1, <2>4, <2>8
  <2>12. ToSet(u) \subseteq ToSet(q)
    <3> SUFFICES ASSUME NEW i \in DOMAIN u PROVE u[i] \in ToSet(q)
      BY DEF ToSet
    <3>1. CASE i \in 1 .. k - 1
      <4>1. i \in DOMAIN q
        BY <3>1, <1>1, <2>4
      <4> QED BY <4>1, <3>1, <2>9 DEF ToSet
    <3>2. CASE i \in k .. Len(q) - 1
      <4>1. i + 1 \in DOMAIN q
        BY <3>2, <1>1, <2>4
      <4> QED BY <4>1, <3>2, <2>10 DEF ToSet
    <3> QED BY <3>1, <3>2, <2>11
  <2>13. ToSet(q) \ {e} \subseteq ToSet(u)
    <3> SUFFICES ASSUME NEW i \in DOMAIN q, q[i] # e PROVE q[i] \in ToSet(u)
      BY DEF ToSet
    <3>1. i # k /\ i \in 1 .. Len(q)
      BY <1>1, <2>4
    <3>2. CASE i < k
      <4>1. i \in 1 .. k - 1
        BY <3>1, <3>2, <1>1, <2>4
      <4> QED BY <4>1, <2>9 DEF ToSet
    <3>3. CASE ~(i < k)
      <4>1. i - 1 \in k .. Len(q) - 1 /\ (i - 1) + 1 = i
        BY <3>1, <3>3, <1>1, <2>4
      <4>2. u[i - 1] = q[i] /\ i - 1 \in DOMAIN u
        BY <4>1, <2>10
      <4> QED BY <4>2 DEF ToSet
    <3> QED BY <3>2, <3>3
  <2>14. ASSUME Distinct(q) PROVE Distinct(u) /\ e \notin ToSet(u)
    <3>1. \A i \in DOMAIN u : u[i] # e
      <4> TAKE i \in DOMAIN u
      <4>1. CASE i \in 1 .. k - 1
        <5>1. i \in DOMAIN q /\ k \in DOMAIN q /\ i # k
          BY <4>1, <1>1, <2>4
        <5> QED BY <5>1, <4>1, <2>4, <2>9, <2>14 DEF Distinct
      <4>2. CASE i \in k .. Len(q) - 1
        <5>1. i + 1 \in DOMAIN q /\ k \in DOMAIN q /\ i + 1 # k
          BY <4>2, <1>1, <2>4
        <5> QED BY <5>1, <4>2, <2>4, <2>10, <2>14 DEF Distinct
      <4> QED BY <4>1, <4>2, <2>11
    <3>2. ASSUME NEW i \in DOMAIN u, NEW j \in DOMAIN u, u[i] = u[j] PROVE i = j
      <4>1. CASE i \in 1 .. k - 1 /\ j \in 1 .. k - 1
        <5>1. i \in DOMAIN q /\ j \in DOMAIN q
          BY <4>1, <1>1, <2>4
        <5> QED BY <5>1, <4>1, <2>9, <2>14, <3>2 DEF Distinct
      <4>2. CASE i \in 1 .. k - 1 /\ j \in k .. Len(q) - 1
        <5>1. i \in DOMAIN q /\ j + 1 \in DOMAIN q /\ i # j + 1
          BY <4>2, <1>1, <2>4
        <5> QED BY <5>1, <4>2, <2>9, <2>10, <2>14, <3>2 DEF Distinct
      <4>3. CASE i \in k .. Len(q) - 1 /\ j \in 1 .. k - 1
        <5>1. j \in DOMAIN q /\ i + 1 \in DOMAIN q /\ j # i + 1
          BY <4>3, <1>1, <2>4
        <5> QED BY <5>1, <4>3, <2>9, <2>10, <2>14, <3>2 DEF Distinct
      <4>4. CASE i \in k .. Len(q) - 1 /\ j \in k .. Len(q) - 1
        <5>1. i + 1 \in DOMAIN q /\ j + 1 \in DOMAIN q /\ i \in Int /\ j \in Int
          BY <4>4, <1>1, <2>4
        <5>2. i + 1 = j + 1
          BY <5>1, <4>4, <2>10, <2>14, <3>2 DEF Distinct
        <5> QED BY <5>1, <5>2
      <4> QED BY <4>1, <4>2, <4>3, <4>4, <2>11
    <3> QED BY <3>1, <3>2 DEF Distinct, ToSet
  <2>15. q # <<>> /\ Len(u) <= Len(q)
    BY <1>1, <2>4, <2>7
  <2> QED BY <2>7, <2>12, <2>13, <2>14, <2>15 DEF u
<1> QED BY <1>2, <1>3

LEMMA OrderlyTail ==
  ASSUME NEW S, NEW q \in Seq(S), q # <<>>, Orderly(q)
  PROVE  /\ Orderly(Tail(q))
         /\ Head(q).kind = "CLOSE" => Tail(q) = <<>>
         /\ Head(q).kind = "CHOKE" => /\ At(Tail(q), "PIECE") = {} /\ At(Tail(q), "CHOKE") = {}
                                      /\ At(Tail(q), "UNCHOKE") = {}
         /\ Head(q).kind \in {"PIECE", "CHOKE", "UNCHOKE"} => At(Tail(q), "UNCHOKE") = {}
<1> DEFINE t == Tail(q)
<1>1. /\ 1 \in DOMAIN q /\ Head(q) = q[1] /\ t \in Seq(S)
      /\ \A i \in DOMAIN t : i \in Nat /\ i + 1 \in DOMAIN q /\ i + 1 # 1 /\ t[i] = q[i + 1]
  BY TailAt
<1>2. \A i \in DOMAIN t : 1 < i + 1
  BY <1>1
<1> HIDE DEF t
<1>3. Orderly(t)
  <2> SUFFICES ASSUME NEW i \in DOMAIN t, NEW j \in DOMAIN t, i < j
               PROVE  /\ t[i].kind # "CLOSE"
                      /\ t[i].kind = "CHOKE"   => t[j].kind \notin {"PIECE", "CHOKE", "UNCHOKE"}
                      /\ t[j].kind = "UNCHOKE" => t[i].kind \notin {"PIECE", "CHOKE", "UNCHOKE"}
    BY DEF Orderly
  <2>1. i \in Nat /\ j \in Nat /\ i + 1 \in DOMAIN q /\ j + 1 \in DOMAIN q /\ t[i] = q[i + 1] /\ t[j] = q[j + 1]
    BY <1>1
  <2>2. i + 1 < j + 1
    BY <2>1
  <2> QED BY <2>1, <2>2 DEF Orderly
<1>4. \A i \in DOMAIN t : /\ q[1].kind # "CLOSE"
                          /\ q[1].kind = "CHOKE" => t[i].kind \notin {"PIECE", "CHOKE", "UNCHOKE"}
                          /\ t[i].kind = "UNCHOKE" => q[1].kind \notin {"PIECE", "CHOKE", "UNCHOKE"}
  BY <1>1, <1>2 DEF Orderly
<1>5. Head(q).kind = "CLOSE" => t = <<>>
  <2> SUFFICES ASSUME t # <<>> PROVE Head(q).kind # "CLOSE"
    OBVIOUS
  <2>1. 1 \in DOMAIN t
    BY <1>1
  <2> QED BY <2>1, <1>1, <1>4
<1>6. Head(q).kind = "CHOKE" => At(t, "PIECE") = {} /\ At(t, "CHOKE") = {} /\ At(t, "UNCHOKE") = {}
  BY <1>1, <1>4 DEF At
<1>7. Head(q).kind \in {"PIECE", "CHOKE", "UNCHOKE"} => At(t, "UNCHOKE") = {}
  BY <1>1, <1>4 DEF At
<1> QED BY <1>3, <1>5, <1>6, <1>7 DEF t

\* A block or news of pieces is taken off the wire.
LEMMA WirePopped ==
  ASSUME NEW s, NEW r, NEW m, NEW S, NEW q \in Seq(S), q # <<>>, Wire(s, q, m, r),
         Head(q).kind \in {"PIECE", "BITFIELD", "HAVE"}
  PROVE  Wire(s, Tail(q), m, r)
<1> DEFINE t == Tail(q)
<1>1. Orderly(t)
  BY OrderlyTail DEF Wire
<1>2. \A k \in {"CLOSE", "CHOKE", "UNCHOKE"} : At(t, k) # {} <=> At(q, k) # {}
  BY WireTail
<1>3. At(t, "PIECE") # {} => At(q, "PIECE") # {}
  BY WireTail
<1>4. BlocksIn(t, "PIECE") \subseteq BlocksIn(q, "PIECE") /\ (OnceIn(q, "PIECE") => OnceIn(t, "PIECE"))
  BY WireTail
<1> HIDE DEF t
<1>5. Phase(s.thread[r], Requesting(s, r), t, m)
  BY <1>2, <1>3 DEF Wire, Phase
<1>6. Underway(s, t, r)
  BY <1>4 DEF Wire, Underway
<1> QED BY <1>1, <1>5, <1>6 DEF Wire, t

\* From lb to u, the block e has arrived.
Arrived(lb, u, e) ==
  /\ u.blockfield = lb.blockfield \cup {e} /\ u.requested = lb.requested
  /\ u.numRemainingBlocks = Decrement(lb.numRemainingBlocks)
  /\ u.numNonRequestedNonAvailableBlocks = lb.numNonRequestedNonAvailableBlocks
  /\ Completes(u, e[1]) => /\ u.bitfield = lb.bitfield \cup {e[1]}
                           /\ u.numRemainingPieces = Decrement(lb.numRemainingPieces)
  /\ ~Completes(u, e[1]) => u.bitfield = lb.bitfield /\ u.numRemainingPieces = lb.numRemainingPieces

LEMMA UpdateFields ==
  ASSUME NEW lb \in BitFieldType, NEW e \in Entry, NEW expected \in BOOLEAN
  PROVE  /\ Update(lb, e[1], e[2], expected) \in BitFieldType
         /\ Arrived(lb, Update(lb, e[1], e[2], expected), e)
         /\ expected => Update(lb, e[1], e[2], expected).currentlyRequested
                          = [lb.currentlyRequested EXCEPT ![e[1]] = Decrement(@)]
<1> DEFINE p == e[1]
           cr == IF expected THEN Decrement(lb.currentlyRequested[p]) ELSE lb.currentlyRequested[p]
           got == [lb EXCEPT !.blockfield = lb.blockfield \cup {e},
                             !.currentlyRequested = [lb.currentlyRequested EXCEPT ![p] = cr],
                             !.numRemainingBlocks = Decrement(lb.numRemainingBlocks)]
           all == [got EXCEPT !.bitfield = got.bitfield \cup {p},
                              !.numRemainingPieces = Decrement(got.numRemainingPieces)]
<1>1. p \in Piece /\ <<e[1], e[2]>> = e
  BY DEF Entry
<1>2. /\ lb.bitfield \in SUBSET Piece /\ lb.blockfield \in SUBSET Entry
      /\ lb.currentlyRequested \in [Piece -> Nat]
      /\ lb.numRemainingPieces \in Nat /\ lb.numRemainingBlocks \in Nat
  BY DEF BitFieldType
<1>3. Update(lb, e[1], e[2], expected) = IF Completes(got, p) THEN all ELSE got
  BY <1>1 DEF Update
<1>4. cr \in Nat
  BY <1>1, <1>2, DecrementIs
<1>5. got \in BitFieldType
  <2>1. lb.blockfield \cup {e} \in SUBSET Entry
    BY <1>2
  <2>2. [lb.currentlyRequested EXCEPT ![p] = cr] \in [Piece -> Nat]
    BY <1>2, <1>4
  <2>3. Decrement(lb.numRemainingBlocks) \in Nat
    BY <1>2, DecrementIs
  <2> HIDE DEF p, cr
  <2> QED BY <2>1, <2>2, <2>3 DEF BitFieldType
<1>6. /\ got.blockfield = lb.blockfield \cup {e} /\ got.requested = lb.requested
      /\ got.numRemainingBlocks = Decrement(lb.numRemainingBlocks)
      /\ got.numNonRequestedNonAvailableBlocks = lb.numNonRequestedNonAvailableBlocks
      /\ got.bitfield = lb.bitfield /\ got.numRemainingPieces = lb.numRemainingPieces
      /\ got.currentlyRequested = [lb.currentlyRequested EXCEPT ![p] = cr]
  BY DEF BitFieldType
<1>7. expected => got.currentlyRequested = [lb.currentlyRequested EXCEPT ![e[1]] = Decrement(@)]
  BY <1>6
<1> HIDE DEF got, cr
<1>8. all \in BitFieldType
  <2>1. got.bitfield \cup {p} \in SUBSET Piece
    BY <1>1, <1>2, <1>6
  <2>2. Decrement(got.numRemainingPieces) \in Nat
    BY <1>2, <1>6, DecrementIs
  <2> HIDE DEF p
  <2> QED BY <1>5, <2>1, <2>2 DEF BitFieldType
<1>9. /\ all.blockfield = got.blockfield /\ all.requested = got.requested
      /\ all.numRemainingBlocks = got.numRemainingBlocks
      /\ all.numNonRequestedNonAvailableBlocks = got.numNonRequestedNonAvailableBlocks
      /\ all.bitfield = got.bitfield \cup {p} /\ all.numRemainingPieces = Decrement(got.numRemainingPieces)
      /\ all.currentlyRequested = got.currentlyRequested
  BY <1>5 DEF BitFieldType
<1> HIDE DEF all
<1>10. Completes(all, p) <=> Completes(got, p)
  <2>1. FreeBlocks(all, p) = FreeBlocks(got, p)
    BY <1>9 DEF FreeBlocks
  <2>2. NextBlock(all, p) = -1 <=> NextBlock(got, p) = -1
    BY <2>1, NextBlockIs
  <2> QED BY <2>2, <1>9 DEF Completes
<1>11. CASE Completes(got, p)
  <2>1. Update(lb, e[1], e[2], expected) = all
    BY <1>3, <1>11
  <2>2. Arrived(lb, all, e)
    BY <1>6, <1>9, <1>10, <1>11 DEF Arrived
  <2> QED BY <2>1, <2>2, <1>7, <1>8, <1>9
<1>12. CASE ~Completes(got, p)
  <2>1. Update(lb, e[1], e[2], expected) = got
    BY <1>3, <1>12
  <2>2. Arrived(lb, got, e)
    BY <1>6, <1>12 DEF Arrived
  <2> QED BY <2>1, <2>2, <1>5, <1>7
<1> QED BY <1>11, <1>12

\* What is counted stays right when a missing block comes, if its piece completes just when
\* no block of it is missing.
LEMMA ArrivalCounted ==
  ASSUME NEW lb \in BitFieldType, NEW u, NEW e \in Entry, e \notin lb.blockfield,
         Counted(lb), Arrived(lb, u, e), Completes(u, e[1]) <=> BlocksOf(e[1]) \subseteq u.blockfield
  PROVE  Counted(u)
<1> DEFINE p == e[1]
           M == Entry \ lb.blockfield
           N == Piece \ lb.bitfield
<1>1. p \in Piece /\ e \in BlocksOf(p)
  BY DEF Entry, BlocksOf
<1>2. p \notin lb.bitfield
  BY <1>1 DEF Counted
<1>3. u.numRemainingBlocks = Cardinality(Entry \ u.blockfield)
  <2>1. Entry \ u.blockfield = M \ {e}
    BY DEF Arrived
  <2>2. IsFiniteSet(M) /\ e \in M
    BY Sizes, FS_Subset
  <2>3. lb.numRemainingBlocks = Cardinality(M) /\ u.numRemainingBlocks = Decrement(lb.numRemainingBlocks)
    BY DEF Counted, Arrived
  <2> HIDE DEF M
  <2>4. Cardinality(M \ {e}) = Cardinality(M) - 1 /\ Cardinality(M) \in Nat /\ Cardinality(M) # 0
    BY <2>2, FS_RemoveElement, FS_CardinalityType, FS_EmptySet
  <2>5. Decrement(Cardinality(M)) = Cardinality(M) - 1
    BY <2>4, DecrementIs
  <2> QED BY <2>1, <2>3, <2>4, <2>5
<1>4. \A q \in Piece \ {p} : q \in u.bitfield <=> BlocksOf(q) \subseteq u.blockfield
  <2> TAKE q \in Piece \ {p}
  <2>1. e \notin BlocksOf(q)
    BY DEF BlocksOf
  <2>2. q \in u.bitfield <=> q \in lb.bitfield
    BY DEF Arrived
  <2>3. BlocksOf(q) \subseteq u.blockfield <=> BlocksOf(q) \subseteq lb.blockfield
    BY <2>1 DEF Arrived
  <2> QED BY <2>2, <2>3 DEF Counted
<1>5. p \in u.bitfield <=> BlocksOf(p) \subseteq u.blockfield
  BY <1>2 DEF Arrived
<1>6. u.numRemainingPieces = Cardinality(Piece \ u.bitfield)
  <2>1. lb.numRemainingPieces = Cardinality(N)
    BY DEF Counted
  <2>2. CASE Completes(u, p)
    <3>1. Piece \ u.bitfield = N \ {p} /\ u.numRemainingPieces = Decrement(lb.numRemainingPieces)
      BY <2>2 DEF Arrived
    <3>2. IsFiniteSet(N) /\ p \in N
      BY <1>1, <1>2, Sizes, FS_Subset
    <3> HIDE DEF N, p
    <3>3. Cardinality(N \ {p}) = Cardinality(N) - 1 /\ Cardinality(N) \in Nat /\ Cardinality(N) # 0
      BY <3>2, FS_RemoveElement, FS_CardinalityType, FS_EmptySet
    <3>4. Decrement(Cardinality(N)) = Cardinality(N) - 1
      BY <3>3, DecrementIs
    <3> QED BY <2>1, <3>1, <3>3, <3>4
  <2>3. CASE ~Completes(u, p)
    BY <2>1, <2>3 DEF Arrived
  <2> QED BY <2>2, <2>3
<1> QED BY <1>3, <1>4, <1>5, <1>6 DEF Counted

\* No block is free and none of X is pending: the blocks of a piece are all there.
LEMMA FreeNone ==
  ASSUME NEW lb, NEW p \in Piece
  PROVE  NextBlock(lb, p) = -1 <=> BlocksOf(p) \subseteq lb.requested \cup lb.blockfield
<1>1. FreeBlocks(lb, p) = {} <=> BlocksOf(p) \subseteq lb.requested \cup lb.blockfield
  BY DEF FreeBlocks, BlocksOf
<1> QED BY <1>1, NextBlockIs

LEMMA NormalArrival ==
  ASSUME NEW lb \in BitFieldType, NEW u \in BitFieldType, NEW X, NEW e \in X, Counted(lb), Marks(lb, X),
         Arrived(lb, u, e), u.currentlyRequested = [lb.currentlyRequested EXCEPT ![e[1]] = Decrement(@)]
  PROVE  /\ Counted(u) /\ Marks(u, X \ {e})
         /\ Completes(u, e[1]) <=> BlocksOf(e[1]) \subseteq u.blockfield
<1> DEFINE p == e[1]
           Y == X \ {e}
<1>1. X = lb.requested \ lb.blockfield /\ lb.requested \in SUBSET Entry
  BY DEF Marks, BitFieldType
<1>2. e \in Entry /\ e \notin lb.blockfield /\ e \in lb.requested /\ X \subseteq Entry
  BY <1>1
<1>3. p \in Piece /\ e \in BlocksOf(p)
  BY <1>2 DEF Entry, BlocksOf
<1>4. IsFiniteSet(X)
  BY <1>2, Sizes, FS_Subset
<1>5. u.requested \ u.blockfield = Y
  BY <1>1 DEF Arrived
<1>6. \A q \in Piece : u.currentlyRequested[q] = Cardinality(Y \cap BlocksOf(q))
  <2> TAKE q \in Piece
  <2>1. lb.currentlyRequested[q] = Cardinality(X \cap BlocksOf(q)) /\ lb.currentlyRequested \in [Piece -> Nat]
    BY DEF Marks, BitFieldType
  <2>2. CASE q = p
    <3> DEFINE Z == X \cap BlocksOf(q)
    <3>1. Y \cap BlocksOf(q) = Z \ {e} /\ e \in Z
      BY <2>2, <1>3
    <3>2. IsFiniteSet(Z)
      BY <1>4, FS_Intersection
    <3> HIDE DEF Z
    <3>3. Cardinality(Z \ {e}) = Cardinality(Z) - 1 /\ Cardinality(Z) \in Nat /\ Cardinality(Z) # 0
      BY <3>1, <3>2, FS_RemoveElement, FS_CardinalityType, FS_EmptySet
    <3>4. Decrement(Cardinality(Z)) = Cardinality(Z) - 1
      BY <3>3, DecrementIs
    <3>5. u.currentlyRequested[q] = Decrement(lb.currentlyRequested[q])
      BY <2>1, <2>2
    <3> QED BY <2>1, <3>1, <3>3, <3>4, <3>5 DEF Z
  <2>3. CASE q # p
    <3>1. e \notin BlocksOf(q)
      BY <2>3, <1>2 DEF Entry, BlocksOf
    <3>2. Y \cap BlocksOf(q) = X \cap BlocksOf(q)
      BY <3>1
    <3> QED BY <3>2, <2>1, <2>3
  <2> QED BY <2>2, <2>3
<1>7. Marks(u, Y)
  <2>1. Entry \ (u.requested \cup u.blockfield) = Entry \ (lb.requested \cup lb.blockfield)
    BY <1>2 DEF Arrived
  <2> QED BY <2>1, <1>5, <1>6 DEF Marks, Arrived
<1>8. Completes(u, p) <=> BlocksOf(p) \subseteq u.blockfield
  <2>1. u.currentlyRequested[p] = Cardinality(Y \cap BlocksOf(p))
    BY <1>3, <1>6
  <2>2. IsFiniteSet(Y \cap BlocksOf(p))
    BY <1>4, FS_Subset
  <2>3. u.currentlyRequested[p] = 0 <=> Y \cap BlocksOf(p) = {}
    BY <2>1, <2>2, FS_EmptySet
  <2>4. NextBlock(u, p) = -1 <=> BlocksOf(p) \subseteq u.requested \cup u.blockfield
    BY <1>3, FreeNone
  <2> HIDE DEF Y, p
  <2> QED BY <2>3, <2>4, <1>5 DEF Completes
<1>9. Counted(u)
  BY <1>2, <1>8, ArrivalCounted
<1> QED BY <1>7, <1>8, <1>9

LEMMA EndGameArrival ==
  ASSUME NEW lb \in BitFieldType, NEW u \in BitFieldType, NEW e \in Entry, Counted(lb), AllAsked(lb),
         e \notin lb.blockfield,
         Arrived(lb, u, e), u.currentlyRequested = [lb.currentlyRequested EXCEPT ![e[1]] = Decrement(@)]
  PROVE  Counted(u) /\ AllAsked(u)
<1> DEFINE p == e[1]
<1>1. p \in Piece /\ e \in BlocksOf(p)
  BY DEF Entry, BlocksOf
<1>2. \A q \in Piece : u.currentlyRequested[q] = Cardinality(BlocksOf(q) \ u.blockfield)
  <2> TAKE q \in Piece
  <2>1. lb.currentlyRequested[q] = Cardinality(BlocksOf(q) \ lb.blockfield) /\ lb.currentlyRequested \in [Piece -> Nat]
    BY DEF AllAsked, BitFieldType
  <2>2. CASE q = p
    <3> DEFINE Z == BlocksOf(q) \ lb.blockfield
    <3>1. BlocksOf(q) \ u.blockfield = Z \ {e} /\ e \in Z
      BY <2>2, <1>1 DEF Arrived
    <3>2. IsFiniteSet(Z)
      <4>1. Z \subseteq Entry
        BY DEF BlocksOf, Entry
      <4> QED BY <4>1, Sizes, FS_Subset
    <3> HIDE DEF Z
    <3>3. Cardinality(Z \ {e}) = Cardinality(Z) - 1 /\ Cardinality(Z) \in Nat /\ Cardinality(Z) # 0
      BY <3>1, <3>2, FS_RemoveElement, FS_CardinalityType, FS_EmptySet
    <3>4. Decrement(Cardinality(Z)) = Cardinality(Z) - 1
      BY <3>3, DecrementIs
    <3>5. u.currentlyRequested[q] = Decrement(lb.currentlyRequested[q])
      BY <2>1, <2>2
    <3> QED BY <2>1, <3>1, <3>3, <3>4, <3>5 DEF Z
  <2>3. CASE q # p
    <3>1. e \notin BlocksOf(q)
      BY <2>3 DEF Entry, BlocksOf
    <3>2. BlocksOf(q) \ u.blockfield = BlocksOf(q) \ lb.blockfield
      BY <3>1 DEF Arrived
    <3> QED BY <3>2, <2>1, <2>3
  <2> QED BY <2>2, <2>3
<1>3. AllAsked(u)
  BY <1>2 DEF AllAsked, Arrived
<1>4. Completes(u, p) <=> BlocksOf(p) \subseteq u.blockfield
  <2>1. u.currentlyRequested[p] = Cardinality(BlocksOf(p) \ u.blockfield)
    BY <1>1, <1>2
  <2>2. IsFiniteSet(BlocksOf(p) \ u.blockfield)
    <3>1. BlocksOf(p) \ u.blockfield \subseteq Entry
      BY <1>1 DEF BlocksOf, Entry
    <3> QED BY <3>1, Sizes, FS_Subset
  <2>3. u.currentlyRequested[p] = 0 <=> BlocksOf(p) \subseteq u.blockfield
    <3>1. u.currentlyRequested[p] = 0 <=> BlocksOf(p) \ u.blockfield = {}
      BY <2>1, <2>2, FS_EmptySet
    <3> QED BY <3>1
  <2>4. NextBlock(u, p) = -1 <=> BlocksOf(p) \subseteq u.requested \cup u.blockfield
    BY <1>1, FreeNone
  <2> HIDE DEF p
  <2> QED BY <2>3, <2>4 DEF Completes
<1>5. Counted(u)
  BY <1>4, ArrivalCounted
<1> QED BY <1>3, <1>5

LEMMA SeederArrival ==
  ASSUME NEW lb \in BitFieldType, NEW u \in BitFieldType, NEW e \in Entry, Counted(lb),
         lb.blockfield = Entry, Arrived(lb, u, e)
  PROVE  Counted(u) /\ u.blockfield = Entry /\ u.bitfield = lb.bitfield
<1>1. u.blockfield = Entry
  BY DEF Arrived
<1>2. lb.bitfield = Piece
  <2>1. \A p \in Piece : BlocksOf(p) \subseteq Entry
    BY DEF BlocksOf, Entry
  <2>2. \A p \in Piece : p \in lb.bitfield
    BY <2>1 DEF Counted
  <2> QED BY <2>2 DEF BitFieldType
<1>3. e[1] \in Piece
  BY DEF Entry
<1>4. u.bitfield = lb.bitfield
  BY <1>2, <1>3 DEF Arrived
<1>5. lb.numRemainingBlocks = 0 /\ lb.numRemainingPieces = 0
  <2>1. Entry \ lb.blockfield = {} /\ Piece \ lb.bitfield = {}
    BY <1>2
  <2>2. Cardinality({}) = 0
    BY FS_EmptySet
  <2> QED BY <2>1, <2>2 DEF Counted
<1>6. u.numRemainingBlocks = 0 /\ u.numRemainingPieces = 0
  <2>1. Decrement(0) = 0
    BY DecrementIs
  <2> QED BY <2>1, <1>5 DEF Arrived
<1> QED BY <1>1, <1>4, <1>5, <1>6 DEF Counted

LEMMA FinishedIs ==
  ASSUME NEW lb \in BitFieldType, Counted(lb)
  PROVE  FinishedDownloading(lb) <=> lb.blockfield = Entry
<1>1. lb.blockfield \in SUBSET Entry /\ IsFiniteSet(Entry \ lb.blockfield)
  BY Sizes, FS_Subset DEF BitFieldType
<1>2. Cardinality(Entry \ lb.blockfield) = 0 <=> Entry \ lb.blockfield = {}
  BY <1>1, FS_EmptySet
<1> QED BY <1>1, <1>2 DEF Counted, FinishedDownloading

LEMMA RequestDropped ==
  ASSUME NEW s \in PeerType, NEW r \in Remote, NEW e
  PROVE  /\ RemoveRequest(s, r, e) \in PeerType
         /\ SetThread(s, RemoveRequest(s, r, e), r,
                      [s.thread[r] EXCEPT !.requests = RemoveFirst(s.thread[r].requests, e)])
         /\ [s.thread[r] EXCEPT !.requests = RemoveFirst(s.thread[r].requests, e)] \in ThreadType
         /\ Req(s, r) \ {e} \subseteq Req(RemoveRequest(s, r, e), r)
         /\ Req(RemoveRequest(s, r, e), r) \subseteq Req(s, r)
         /\ s.thread[r].requests = <<>> => RemoveRequest(s, r, e).thread[r].requests = <<>>
         /\ Len(RemoveRequest(s, r, e).thread[r].requests) <= Len(s.thread[r].requests)
         /\ Distinct(s.thread[r].requests) => /\ Distinct(RemoveRequest(s, r, e).thread[r].requests)
                                              /\ e \notin Req(RemoveRequest(s, r, e), r)
<1> DEFINE u == RemoveRequest(s, r, e)
           q == s.thread[r].requests
           t == [s.thread[r] EXCEPT !.requests = RemoveFirst(q, e)]
<1>1. s.thread \in [Remote -> ThreadType] /\ s.thread[r] \in ThreadType /\ q \in Seq(Entry)
  BY DEF PeerType, ThreadType
<1>2. SetThread(s, u, r, t)
  BY <1>1 DEF RemoveRequest, SetThread, PeerType
<1> HIDE DEF q
<1>3. /\ RemoveFirst(q, e) \in Seq(Entry)
      /\ ToSet(q) \ {e} \subseteq ToSet(RemoveFirst(q, e))
      /\ ToSet(RemoveFirst(q, e)) \subseteq ToSet(q)
      /\ q = <<>> => RemoveFirst(q, e) = <<>>
      /\ Len(RemoveFirst(q, e)) <= Len(q)
      /\ Distinct(q) => Distinct(RemoveFirst(q, e)) /\ e \notin ToSet(RemoveFirst(q, e))
  BY <1>1, FirstRemoved
<1>4. t \in ThreadType
  BY <1>1, <1>3 DEF ThreadType
<1>5. u \in PeerType /\ u.thread[r] = t
  <2> HIDE DEF u, t
  <2> QED BY <1>2, <1>4, ThreadSet
<1>6. u.thread[r].requests = RemoveFirst(q, e)
  <2>1. t.requests = RemoveFirst(q, e)
    BY <1>1 DEF ThreadType
  <2> HIDE DEF u, t
  <2> QED BY <2>1, <1>5
<1>7. Req(s, r) = ToSet(q) /\ Req(u, r) = ToSet(RemoveFirst(q, e))
  BY <1>6 DEF Req, q
<1> QED BY <1>2, <1>3, <1>4, <1>5, <1>6, <1>7 DEF q

\* From s to u, requests for the block e have been cancelled, but not those of thread w.
Cancelled(s, u, e, w) ==
  /\ u.localBitfield = s.localBitfield /\ u.state = s.state
  /\ u.enableEndGameMode = s.enableEndGameMode
  /\ u.agenda = s.agenda /\ u.endGameRequests = s.endGameRequests
  /\ u.thread[w] = s.thread[w]
  /\ \A r \in Remote :
       /\ u.thread[r].conn = s.thread[r].conn
       /\ u.thread[r].peerChoking = s.thread[r].peerChoking
       /\ u.thread[r].announced = s.thread[r].announced
       /\ u.thread[r].remoteBitfield = s.thread[r].remoteBitfield
       /\ u.thread[r].amInterested = s.thread[r].amInterested
       /\ Req(s, r) \ {e} \subseteq Req(u, r)
       /\ s.thread[r].requests = <<>> => u.thread[r].requests = <<>>
       /\ BlocksIn(u.toRemote[r], "REQUEST") \subseteq BlocksIn(s.toRemote[r], "REQUEST")

LEMMA CancelledComposed ==
  ASSUME NEW s, NEW t, NEW u, NEW e, NEW w, Cancelled(s, t, e, w), Cancelled(t, u, e, w)
  PROVE  Cancelled(s, u, e, w)
<1>1. \A r \in Remote : Req(s, r) \ {e} \subseteq Req(u, r)
  <2> TAKE r \in Remote
  <2>1. Req(s, r) \ {e} \subseteq Req(t, r) /\ Req(t, r) \ {e} \subseteq Req(u, r)
    BY DEF Cancelled
  <2> QED BY <2>1
<1> QED BY <1>1 DEF Cancelled

LEMMA CancelSent ==
  ASSUME NEW s \in PeerType, NEW r \in Remote, NEW e \in Entry, NEW w \in Remote, r # w
  PROVE  CancelRequest(s, r, e) \in PeerType /\ Cancelled(s, CancelRequest(s, r, e), e, w)
<1> DEFINE a == RemoveRequest(s, r, e)
           t == [s.thread[r] EXCEPT !.requests = RemoveFirst(s.thread[r].requests, e)]
           m == RequestMsg("CANCEL", e)
           u == SendMessage(a, r, m)
<1>1. CancelRequest(s, r, e) = u
  BY DEF CancelRequest
<1>2. /\ t.conn = s.thread[r].conn /\ t.peerChoking = s.thread[r].peerChoking
      /\ t.announced = s.thread[r].announced /\ t.remoteBitfield = s.thread[r].remoteBitfield
      /\ t.amInterested = s.thread[r].amInterested
  <2>1. s.thread[r] \in ThreadType
    BY DEF PeerType
  <2> QED BY <2>1 DEF ThreadType
<1>3. /\ a \in PeerType /\ SetThread(s, a, r, t) /\ t \in ThreadType
      /\ Req(s, r) \ {e} \subseteq Req(a, r)
      /\ s.thread[r].requests = <<>> => a.thread[r].requests = <<>>
  BY RequestDropped
<1> HIDE DEF a, t
<1>4. /\ a.thread[r] = t
      /\ \A q \in Remote \ {r} : a.thread[q] = s.thread[q]
      /\ a.localBitfield = s.localBitfield /\ a.state = s.state
      /\ a.enableEndGameMode = s.enableEndGameMode /\ a.agenda = s.agenda
      /\ a.toRemote = s.toRemote /\ a.endGameRequests = s.endGameRequests
  BY <1>3, ThreadSet
<1>5. m \in Messages(ToKinds) /\ m.kind = "CANCEL"
  BY MsgTypes DEF ToKinds
<1> HIDE DEF m
<1>6. /\ u \in PeerType /\ (m.kind # "REQUEST" => Alike(a, u))
      /\ u.thread = a.thread /\ u.localBitfield = a.localBitfield /\ u.agenda = a.agenda
      /\ u.state = a.state
  BY <1>3, <1>5, Sent
<1>7. u.endGameRequests = a.endGameRequests
  BY <1>3 DEF SendMessage, PeerType
<1> HIDE DEF u
<1>8. Alike(a, u)
  BY <1>5, <1>6
<1>9. /\ u.enableEndGameMode = s.enableEndGameMode
      /\ \A q \in Remote : BlocksIn(u.toRemote[q], "REQUEST") \subseteq BlocksIn(s.toRemote[q], "REQUEST")
  BY <1>4, <1>8 DEF Alike
<1>10. \A q \in Remote : /\ Req(s, q) \ {e} \subseteq Req(u, q)
                         /\ s.thread[q].requests = <<>> => u.thread[q].requests = <<>>
  <2> TAKE q \in Remote
  <2>1. CASE q = r
    BY <2>1, <1>3, <1>6 DEF Req
  <2>2. CASE q # r
    BY <2>2, <1>4, <1>6 DEF Req
  <2> QED BY <2>1, <2>2
<1>11. Cancelled(s, u, e, w)
  BY <1>2, <1>4, <1>6, <1>7, <1>9, <1>10 DEF Cancelled
<1> QED BY <1>1, <1>6, <1>11

\* The states that cancels may lead to from s.
Cancels(s, e, w) == {u \in PeerType : Cancelled(s, u, e, w)}

LEMMA SameCancels ==
  ASSUME NEW s \in PeerType, NEW e, NEW w
  PROVE  s \in Cancels(s, e, w)
BY DEF Cancels, Cancelled

LEMMA AllCancelled ==
  ASSUME NEW s \in PeerType, NEW e \in Entry, NEW w \in Remote, NEW peers \in Seq(Remote)
  PROVE  FoldLeft(LAMBDA t, r : IF r # w /\ t.thread[r].inEndGame THEN CancelRequest(t, r, e) ELSE t,
                  s, peers) \in Cancels(s, e, w)
<1> DEFINE D == Cancels(s, e, w)
           seq == peers
           n == Len(seq)
           Step(t, r) == IF r # w /\ t.thread[r].inEndGame THEN CancelRequest(t, r, e) ELSE t
           F == [x \in D \X (1 .. n) |-> Step(x[1], seq[x[2]])]
           f == CHOOSE g : g = [S \in SUBSET (1 .. n) |->
                                  IF S = {} THEN s ELSE Step(g[S \ {Max(S)}], seq[Max(S)])]
<1>1. seq \in Seq(Remote)
  OBVIOUS
<1>2. n \in Nat /\ DOMAIN seq = 1 .. n
  BY <1>1
<1>3. FoldLeft(LAMBDA t, r : IF r # w /\ t.thread[r].inEndGame THEN CancelRequest(t, r, e) ELSE t, s, peers) = f[1 .. n]
  BY <1>2 DEF FoldLeft, MapThenFoldSet
<1>4. F \in [D \X (1 .. n) -> D]
  <2>1. ASSUME NEW t \in D, NEW i \in 1 .. n PROVE Step(t, seq[i]) \in D
    <3> DEFINE q == seq[i]
    <3>1. q \in Remote
      BY <1>1, <1>2
    <3>2. t \in PeerType /\ Cancelled(s, t, e, w)
      BY DEF Cancels
    <3> HIDE DEF q
    <3> DEFINE v == CancelRequest(t, q, e)
    <3>3. CASE q # w
      <4>1. v \in PeerType /\ Cancelled(t, v, e, w)
        BY <3>1, <3>2, <3>3, CancelSent
      <4> HIDE DEF v
      <4>2. Cancelled(s, v, e, w)
        BY <3>2, <4>1, CancelledComposed
      <4> QED BY <4>1, <4>2 DEF Cancels, v, q
    <3>4. CASE q = w
      BY <3>4 DEF q
    <3> QED BY <3>3, <3>4
  <2> HIDE DEF D, Step
  <2> QED BY <2>1
<1>5. ASSUME NEW g \in [SUBSET (1 .. n) -> D], Folds(g, SUBSET (1 .. n), F, s)
      PROVE  Unfolds(f, n, D, F, s)
  <2> HIDE DEF D, seq, n, Step
  <2>1. g = [S \in SUBSET (1 .. n) |-> IF S = {} THEN s ELSE F[<<g[S \ {Max(S)}], Max(S)>>]]
    BY <1>5 DEF Folds
  <2>2. \A S \in SUBSET (1 .. n) : S # {} => Max(S) \in 1 .. n
    BY <1>2, GreatestOf DEF n
  <2>3. \A d \in D : \A i \in 1 .. n : F[<<d, i>>] = Step(d, seq[i])
    OBVIOUS
  <2> HIDE DEF F
  <2>4. \A S \in SUBSET (1 .. n) : S # {} =>
           F[<<g[S \ {Max(S)}], Max(S)>>] = Step(g[S \ {Max(S)}], seq[Max(S)])
    BY <2>2, <2>3
  <2>5. g = [S \in SUBSET (1 .. n) |-> IF S = {} THEN s ELSE Step(g[S \ {Max(S)}], seq[Max(S)])]
    BY <2>1, <2>4
  <2>6. f = [S \in SUBSET (1 .. n) |-> IF S = {} THEN s ELSE Step(f[S \ {Max(S)}], seq[Max(S)])]
    BY <2>5
  <2> HIDE DEF f
  <2>7. f[{}] = s
    BY <2>6
  <2>8. \A S \in SUBSET (1 .. n) : S # {} => f[S] = Step(f[S \ {Max(S)}], seq[Max(S)])
    BY <2>6
  <2> QED BY <2>2, <2>3, <2>7, <2>8 DEF Unfolds
<1> HIDE DEF D, seq, n, Step, F, f
<1>6. s \in D
  BY SameCancels DEF D
<1>7. f[1 .. n] \in D
  BY <1>2, <1>4, <1>5, <1>6, Folded
<1> QED BY <1>3, <1>7 DEF D

LEMMA OneRemoved ==
  ASSUME NEW S, NEW q \in Seq(S), NEW k \in 1 .. Len(q)
  PROVE  RemoveAt(q, k) \in Seq(S)
<1>1. SubSeq(q, 1, k - 1) \in Seq(S) /\ SubSeq(q, k + 1, Len(q)) \in Seq(S)
  OBVIOUS
<1> QED BY <1>1 DEF RemoveAt

\* With cancels, and a new list of the requests of the end game, s leads to u.
CancelsTo(s, u, e, w) ==
  \E v \in Cancels(s, e, w) : u = v \/ \E list : u = [v EXCEPT !.endGameRequests = list]

LEMMA CancelScheduled ==
  ASSUME NEW s \in PeerType, NEW e \in Entry, NEW w \in Remote
  PROVE  /\ ScheduleEndGameCancel(s, e, w) \in PeerType
         /\ ScheduleEndGameCancel(s, e, w).thread[w] = s.thread[w]
         /\ CancelsTo(s, ScheduleEndGameCancel(s, e, w), e, w)
<1> DEFINE I == {i \in 1 .. Len(s.endGameRequests) : s.endGameRequests[i][2] = e}
           pos == SelectInSeq(s.endGameRequests, LAMBDA entry : entry[2] = e)
           v == FoldLeft(LAMBDA t, r : IF r # w /\ t.thread[r].inEndGame THEN CancelRequest(t, r, e) ELSE t,
                         s, s.peerState)
           u == [v EXCEPT !.endGameRequests = RemoveAt(v.endGameRequests, pos)]
<1>1. ScheduleEndGameCancel(s, e, w) = IF pos = 0 THEN s ELSE u
  BY DEF ScheduleEndGameCancel
<1>2. pos = IF I # {} THEN Min(I) ELSE 0
  BY DEF SelectInSeq
<1>3. s.endGameRequests \in Seq(Remote \X Entry) /\ s.peerState \in Seq(Remote)
  BY DEF PeerType
<1>4. Len(s.endGameRequests) \in Nat /\ I \in SUBSET Nat
  BY <1>3
<1>5. I # {} => Min(I) \in I
  <2> HIDE DEF I
  <2> SUFFICES ASSUME I # {} PROVE Min(I) \in I
    OBVIOUS
  <2>1. \E x \in I : \A y \in I : x <= y
    BY <1>4, LeastNumber
  <2>2. Min(I) = CHOOSE x \in I : \A y \in I : x =< y
    BY DEF Min
  <2> QED BY <2>1, <2>2
<1>6. pos # 0 => pos \in 1 .. Len(s.endGameRequests)
  BY <1>2, <1>5
<1>7. v \in Cancels(s, e, w)
  BY <1>3, AllCancelled
<1> HIDE DEF v, pos, I
<1>8. v \in PeerType /\ Cancelled(s, v, e, w)
  BY <1>7 DEF Cancels
<1>9. v.endGameRequests = s.endGameRequests /\ v.thread[w] = s.thread[w]
  BY <1>8 DEF Cancelled
<1>10. pos # 0 => RemoveAt(v.endGameRequests, pos) \in Seq(Remote \X Entry)
  BY <1>3, <1>6, <1>9, OneRemoved
<1>11. pos # 0 => u \in PeerType /\ u.thread = v.thread
  BY <1>8, <1>10 DEF PeerType
<1>12. s \in Cancels(s, e, w)
  BY SameCancels
<1>13. CASE pos = 0
  BY <1>13, <1>1, <1>12 DEF CancelsTo
<1>14. CASE pos # 0
  <2>1. ScheduleEndGameCancel(s, e, w) = u
    BY <1>1, <1>14
  <2>2. \E list : u = [v EXCEPT !.endGameRequests = list]
    OBVIOUS
  <2> HIDE DEF u
  <2>3. CancelsTo(s, u, e, w)
    BY <2>2, <1>7 DEF CancelsTo
  <2> QED BY <2>1, <2>3, <1>9, <1>11, <1>14
<1> QED BY <1>13, <1>14

\* From s to u, the end game has been told of the block e that thread w got.
Ended(s, u, e, w) ==
  /\ u.localBitfield = s.localBitfield /\ u.state = s.state
  /\ u.enableEndGameMode = s.enableEndGameMode
  /\ u.agenda = s.agenda
  /\ u.thread[w] = s.thread[w]
  /\ \A r \in Remote :
       /\ u.thread[r].conn = s.thread[r].conn
       /\ u.thread[r].peerChoking = s.thread[r].peerChoking
       /\ u.thread[r].announced = s.thread[r].announced
       /\ u.thread[r].remoteBitfield = s.thread[r].remoteBitfield
       /\ u.thread[r].amInterested = s.thread[r].amInterested
       /\ Req(s, r) \ {e} \subseteq Req(u, r)
       /\ s.thread[r].requests = <<>> => u.thread[r].requests = <<>>
       /\ BlocksIn(u.toRemote[r], "REQUEST") \subseteq BlocksIn(s.toRemote[r], "REQUEST")

LEMMA CancelsEnd ==
  ASSUME NEW s \in PeerType, NEW e \in Entry, NEW w \in Remote
  PROVE  ScheduleEndGameCancel(s, e, w) \in PeerType /\ Ended(s, ScheduleEndGameCancel(s, e, w), e, w)
<1> DEFINE u == ScheduleEndGameCancel(s, e, w)
<1>1. PICK v \in Cancels(s, e, w) : u = v \/ \E list : u = [v EXCEPT !.endGameRequests = list]
  <2> HIDE DEF u
  <2>1. CancelsTo(s, u, e, w)
    BY CancelScheduled DEF u
  <2> QED BY <2>1 DEF CancelsTo
<1>2. v \in PeerType /\ Cancelled(s, v, e, w) /\ u \in PeerType
  BY CancelScheduled DEF Cancels
<1> HIDE DEF u
<1>3. /\ u.localBitfield = v.localBitfield /\ u.state = v.state
      /\ u.enableEndGameMode = v.enableEndGameMode /\ u.agenda = v.agenda
      /\ u.thread = v.thread /\ u.toRemote = v.toRemote
  <2>1. CASE u = v
    BY <2>1
  <2>2. CASE \E list : u = [v EXCEPT !.endGameRequests = list]
    <3>1. PICK list : u = [v EXCEPT !.endGameRequests = list]
      BY <2>2
    <3> QED BY <3>1, <1>2 DEF PeerType
  <2> QED BY <2>1, <2>2, <1>1
<1>4. \A r \in Remote : Req(u, r) = Req(v, r)
  BY <1>3 DEF Req
<1>5. Ended(s, u, e, w)
  BY <1>2, <1>3, <1>4 DEF Ended, Cancelled
<1> QED BY <1>2, <1>5 DEF u

LEMMA PeersInformed ==
  ASSUME NEW s \in PeerType, NEW p \in Piece
  PROVE  LET u == InformPeers(s, p)
         IN  /\ u \in PeerType
             /\ u.localBitfield = s.localBitfield /\ u.state = s.state
             /\ u.enableEndGameMode = s.enableEndGameMode /\ u.agenda = s.agenda
             /\ u.toRemote = s.toRemote
             /\ \A q \in Remote :
                  /\ u.thread[q].conn = s.thread[q].conn
                  /\ u.thread[q].peerChoking = s.thread[q].peerChoking
                  /\ u.thread[q].requests = s.thread[q].requests
                  /\ u.thread[q].remoteBitfield = s.thread[q].remoteBitfield
                  /\ u.thread[q].amInterested = s.thread[q].amInterested
                  /\ s.thread[q].conn = "OPEN" => u.thread[q].announced = s.thread[q].announced \cup {p}
<1> DEFINE u == InformPeers(s, p)
           t(q) == [s.thread[q] EXCEPT !.announced = s.thread[q].announced \cup {p}]
           f == [q \in Remote |-> IF s.thread[q].conn = "OPEN" THEN t(q) ELSE s.thread[q]]
<1>1. u = [s EXCEPT !.thread = f]
  <2>1. u = [s EXCEPT !.thread = [r \in Remote |->
               IF s.thread[r].conn = "OPEN" THEN [s.thread[r] EXCEPT !.announced = @ \cup {p}] ELSE s.thread[r]]]
    BY DEF InformPeers, Established
  <2>2. f = [r \in Remote |->
               IF s.thread[r].conn = "OPEN" THEN [s.thread[r] EXCEPT !.announced = @ \cup {p}] ELSE s.thread[r]]
    OBVIOUS
  <2> HIDE DEF f, u
  <2> QED BY <2>1, <2>2
<1>2. \A q \in Remote : s.thread[q] \in ThreadType
  BY DEF PeerType
<1>3. \A q \in Remote : /\ t(q) \in ThreadType
                        /\ t(q).conn = s.thread[q].conn /\ t(q).peerChoking = s.thread[q].peerChoking
                        /\ t(q).requests = s.thread[q].requests
                        /\ t(q).remoteBitfield = s.thread[q].remoteBitfield
                        /\ t(q).amInterested = s.thread[q].amInterested
                        /\ t(q).announced = s.thread[q].announced \cup {p}
  <2> TAKE q \in Remote
  <2>1. s.thread[q] \in ThreadType
    BY <1>2
  <2>2. s.thread[q].announced \cup {p} \in SUBSET Piece
    BY <2>1 DEF ThreadType
  <2> QED BY <2>1, <2>2 DEF ThreadType
<1> HIDE DEF t, u
<1>4. f \in [Remote -> ThreadType]
  BY <1>2, <1>3
<1>5. \A q \in Remote : f[q] = IF s.thread[q].conn = "OPEN" THEN t(q) ELSE s.thread[q]
  OBVIOUS
<1> HIDE DEF f
<1>6. /\ u \in PeerType /\ u.thread = f
      /\ u.localBitfield = s.localBitfield /\ u.state = s.state
      /\ u.enableEndGameMode = s.enableEndGameMode /\ u.agenda = s.agenda
      /\ u.toRemote = s.toRemote
  BY <1>1, <1>4 DEF PeerType
<1> QED BY <1>3, <1>5, <1>6 DEF u

\* From s to u, the block e that thread r got has been stored.
Stored(s, u, e, r) ==
  /\ u.enableEndGameMode = s.enableEndGameMode /\ u.agenda = s.agenda
  /\ u.state \in {s.state, "SEEDING"}
  /\ u.localBitfield.blockfield = s.localBitfield.blockfield \cup {e}
  /\ s.localBitfield.bitfield \subseteq u.localBitfield.bitfield
  /\ u.thread[r].requests = s.thread[r].requests
  /\ \A q \in Remote :
       /\ u.thread[q].conn = s.thread[q].conn
       /\ u.thread[q].peerChoking = s.thread[q].peerChoking
       /\ u.thread[q].remoteBitfield = s.thread[q].remoteBitfield
       /\ u.thread[q].amInterested = s.thread[q].amInterested
       /\ Req(s, q) \ {e} \subseteq Req(u, q)
       /\ s.thread[q].requests = <<>> => u.thread[q].requests = <<>>
       /\ s.state # "ENDGAME" => u.thread[q].requests = s.thread[q].requests /\ u.toRemote = s.toRemote
       /\ BlocksIn(u.toRemote[q], "REQUEST") \subseteq BlocksIn(s.toRemote[q], "REQUEST")
       /\ u.thread[q].conn = "OPEN" => u.localBitfield.bitfield \subseteq u.thread[q].announced
  /\ Counted(u.localBitfield)
  /\ u.state = "NORMAL"  => Marks(u.localBitfield, PendingOf(s) \ {e})
  /\ u.state = "ENDGAME" => AllAsked(u.localBitfield)
  /\ u.state = "SEEDING" => u.localBitfield.blockfield = Entry

LEMMA FoundIs ==
  ASSUME NEW s, NEW r, NEW e, s.thread[r].requests \in Seq(Entry)
  PROVE  FindRequest(s, r, e) <=> e \in Req(s, r)
<1>1. DOMAIN s.thread[r].requests = 1 .. Len(s.thread[r].requests)
  OBVIOUS
<1> QED BY <1>1 DEF FindRequest, Contains, Req, ToSet

LEMMA BlockStored ==
  ASSUME NEW s \in PeerType, NEW r \in Remote, NEW e \in Entry, Books(s), Threads(s),
         s.state = "NORMAL" => e \in Req(s, r),
         s.state = "ENDGAME" => e \in Req(s, r) \cup s.localBitfield.blockfield,
         NEW expected \in BOOLEAN, e \in Req(s, r) => expected
  PROVE  /\ UpdateBitField(s, e, expected, r) \in PeerType
         /\ Stored(s, UpdateBitField(s, e, expected, r), e, r)
<1> DEFINE lb == s.localBitfield
           p == e[1]
           ended == IF s.state = "ENDGAME" THEN ScheduleEndGameCancel(s, e, r) ELSE s
           lb2 == Update(lb, e[1], e[2], expected)
           upd == [ended EXCEPT !.localBitfield = lb2]
           seed == [upd EXCEPT !.state = "SEEDING"]
<1>1. p \in Piece /\ lb \in BitFieldType /\ s.state \in {"NORMAL", "ENDGAME", "SEEDING"}
  BY DEF Entry, PeerType
<1>2. ended \in PeerType /\ Ended(s, ended, e, r) /\ (s.state # "ENDGAME" => ended = s)
  <2>1. ScheduleEndGameCancel(s, e, r) \in PeerType /\ Ended(s, ScheduleEndGameCancel(s, e, r), e, r)
    BY CancelsEnd
  <2>2. Ended(s, s, e, r)
    BY DEF Ended
  <2> QED BY <2>1, <2>2
<1> HIDE DEF ended
<1>3. UpdateBitField(s, e, expected, r) =
         IF s.state = "ENDGAME" /\ e \in lb.blockfield THEN ended
         ELSE IF ~Completes(lb2, p) \/ (FinishedDownloading(lb2) /\ Completed(s)) THEN upd
         ELSE IF FinishedDownloading(lb2) THEN InformPeers(seed, p)
         ELSE InformPeers(upd, p)
  <2>1. ended.localBitfield = lb /\ upd.localBitfield = lb2
    BY <1>2 DEF Ended, PeerType
  <2>2. upd = [ended EXCEPT !.localBitfield = Update(@, e[1], e[2], expected)]
    BY <2>1
  <2> HIDE DEF lb2, upd
  <2> QED BY <2>1, <2>2 DEF UpdateBitField, Available, ended
<1>4. /\ lb2 \in BitFieldType /\ Arrived(lb, lb2, e)
      /\ expected => lb2.currentlyRequested = [lb.currentlyRequested EXCEPT ![e[1]] = Decrement(@)]
  BY <1>1, UpdateFields
<1> HIDE DEF lb2
<1>5. Counted(lb)
  BY DEF Books
<1>6. CASE s.state = "ENDGAME" /\ e \in lb.blockfield
  <2>1. Stored(s, ended, e, r)
    <3>1. lb.blockfield = lb.blockfield \cup {e} /\ AllAsked(lb)
      BY <1>6 DEF Books
    <3>2. \A q \in Remote : ended.thread[q].conn = "OPEN" => ended.localBitfield.bitfield \subseteq ended.thread[q].announced
      BY <1>2 DEF Threads, Ended
    <3> QED BY <3>1, <3>2, <1>2, <1>5, <1>6 DEF Stored, Ended
  <2> QED BY <2>1, <1>2, <1>3, <1>6
<1>7. CASE ~(s.state = "ENDGAME" /\ e \in lb.blockfield)
  <2>1. /\ Counted(lb2) /\ lb2.blockfield = lb.blockfield \cup {e}
        /\ s.state = "NORMAL"  => Marks(lb2, PendingOf(s) \ {e})
        /\ s.state = "ENDGAME" => AllAsked(lb2)
        /\ s.state = "SEEDING" => lb2.blockfield = Entry /\ lb2.bitfield = lb.bitfield
    <3>1. CASE s.state = "NORMAL"
      <4>1. Marks(lb, PendingOf(s)) /\ e \in PendingOf(s) /\ expected
        BY <3>1 DEF Books, PendingOf
      <4> DEFINE X == PendingOf(s)
      <4> HIDE DEF X, lb
      <4>2. Counted(lb2) /\ Marks(lb2, X \ {e})
        BY <4>1, <1>1, <1>4, <1>5, NormalArrival DEF X
      <4> QED BY <4>2, <3>1, <1>4 DEF Arrived, X
    <3>2. CASE s.state = "ENDGAME"
      <4>1. AllAsked(lb) /\ e \notin lb.blockfield /\ expected
        BY <3>2, <1>7 DEF Books
      <4> HIDE DEF lb
      <4>2. Counted(lb2) /\ AllAsked(lb2)
        BY <4>1, <1>1, <1>4, <1>5, EndGameArrival
      <4> QED BY <4>2, <3>2, <1>4 DEF Arrived
    <3>3. CASE s.state = "SEEDING"
      <4>1. lb.blockfield = Entry
        BY <3>3 DEF Books
      <4> HIDE DEF lb
      <4>2. Counted(lb2) /\ lb2.blockfield = Entry /\ lb2.bitfield = lb.bitfield
        BY <4>1, <1>1, <1>4, <1>5, SeederArrival
      <4> QED BY <4>2, <3>3, <1>4 DEF Arrived
    <3> QED BY <3>1, <3>2, <3>3, <1>1
  <2>2. FinishedDownloading(lb2) <=> lb2.blockfield = Entry
    BY <2>1, <1>4, FinishedIs
  <2>3. /\ upd \in PeerType /\ upd.localBitfield = lb2 /\ upd.state = s.state
        /\ upd.enableEndGameMode = ended.enableEndGameMode /\ upd.agenda = ended.agenda
        /\ upd.thread = ended.thread /\ upd.toRemote = ended.toRemote
    BY <1>2, <1>4 DEF PeerType, Ended
  <2>4. /\ seed \in PeerType /\ seed.localBitfield = lb2 /\ seed.state = "SEEDING"
        /\ seed.enableEndGameMode = ended.enableEndGameMode /\ seed.agenda = ended.agenda
        /\ seed.thread = ended.thread /\ seed.toRemote = ended.toRemote
    <3> HIDE DEF upd
    <3> QED BY <2>3 DEF PeerType
  <2> HIDE DEF upd, seed
  <2>5. lb.bitfield \subseteq lb2.bitfield /\ lb2.bitfield \subseteq lb.bitfield \cup {p}
        /\ (~Completes(lb2, p) => lb2.bitfield = lb.bitfield)
    BY <1>4 DEF Arrived
  <2>6. \A q \in Remote : ended.thread[q].conn = "OPEN" => lb.bitfield \subseteq ended.thread[q].announced
    BY <1>2 DEF Threads, Ended
  <2>7. CASE ~Completes(lb2, p) \/ (FinishedDownloading(lb2) /\ Completed(s))
    <3>1. lb2.bitfield = lb.bitfield
      <4>1. Completed(s) => s.state = "SEEDING"
        BY <1>1 DEF Completed
      <4> QED BY <4>1, <2>1, <2>5, <2>7
    <3>2. \A q \in Remote : Req(upd, q) = Req(ended, q)
      BY <2>3 DEF Req
    <3>3. Stored(s, upd, e, r)
      <4>1. \A q \in Remote :
               /\ upd.thread[q].conn = s.thread[q].conn
               /\ upd.thread[q].peerChoking = s.thread[q].peerChoking
               /\ upd.thread[q].remoteBitfield = s.thread[q].remoteBitfield
               /\ upd.thread[q].amInterested = s.thread[q].amInterested
               /\ Req(s, q) \ {e} \subseteq Req(upd, q)
               /\ s.thread[q].requests = <<>> => upd.thread[q].requests = <<>>
               /\ BlocksIn(upd.toRemote[q], "REQUEST") \subseteq BlocksIn(s.toRemote[q], "REQUEST")
        BY <3>2, <2>3, <1>2 DEF Ended
      <4>2. \A q \in Remote : s.state # "ENDGAME" => /\ upd.thread[q].requests = s.thread[q].requests
                                                    /\ upd.toRemote = s.toRemote
        BY <2>3, <1>2
      <4>3. \A q \in Remote : upd.thread[q].conn = "OPEN" => upd.localBitfield.bitfield \subseteq upd.thread[q].announced
        BY <3>1, <2>3, <2>6
      <4>4. /\ upd.enableEndGameMode = s.enableEndGameMode /\ upd.agenda = s.agenda
            /\ upd.state = s.state /\ upd.thread[r].requests = s.thread[r].requests
        BY <2>3, <1>2 DEF Ended
      <4>5. lb.bitfield \subseteq upd.localBitfield.bitfield
        BY <2>3, <2>5
      <4> QED BY <4>1, <4>2, <4>3, <4>4, <4>5, <2>1, <2>3 DEF Stored
    <3> QED BY <3>3, <2>3, <2>7, <1>3, <1>7
  <2>8. CASE Completes(lb2, p) /\ FinishedDownloading(lb2) /\ ~Completed(s)
    <3> DEFINE u == InformPeers(seed, p)
    <3>1. /\ u \in PeerType
          /\ u.localBitfield = seed.localBitfield /\ u.state = seed.state
          /\ u.enableEndGameMode = seed.enableEndGameMode /\ u.agenda = seed.agenda
          /\ u.toRemote = seed.toRemote
          /\ \A q \in Remote :
                  /\ u.thread[q].conn = seed.thread[q].conn
                  /\ u.thread[q].peerChoking = seed.thread[q].peerChoking
                  /\ u.thread[q].requests = seed.thread[q].requests
                  /\ u.thread[q].remoteBitfield = seed.thread[q].remoteBitfield
                  /\ u.thread[q].amInterested = seed.thread[q].amInterested
                  /\ seed.thread[q].conn = "OPEN" => u.thread[q].announced = seed.thread[q].announced \cup {p}
      <4> HIDE DEF p
      <4> QED BY <1>1, <2>4, PeersInformed
    <3> HIDE DEF u
    <3>2. \A q \in Remote : Req(u, q) = Req(ended, q)
      BY <3>1, <2>4 DEF Req
    <3>3. \A q \in Remote : u.thread[q].conn = "OPEN" => lb2.bitfield \subseteq u.thread[q].announced
      <4> TAKE q \in Remote
      <4>1. ended.thread[q].conn = "OPEN" => lb.bitfield \subseteq ended.thread[q].announced
        BY <2>6
      <4> QED BY <4>1, <3>1, <2>4, <2>5
    <3>4. Stored(s, u, e, r)
      <4>1. u.state = "SEEDING" /\ lb2.blockfield = Entry
        BY <3>1, <2>2, <2>4, <2>8
      <4> HIDE DEF p
      <4> QED BY <4>1, <3>1, <3>2, <3>3, <2>1, <2>4, <2>5, <1>2 DEF Stored, Ended
    <3> QED BY <3>1, <3>4, <2>8, <1>3, <1>7 DEF u
  <2>9. CASE Completes(lb2, p) /\ ~FinishedDownloading(lb2)
    <3> DEFINE u == InformPeers(upd, p)
    <3>1. /\ u \in PeerType
          /\ u.localBitfield = upd.localBitfield /\ u.state = upd.state
          /\ u.enableEndGameMode = upd.enableEndGameMode /\ u.agenda = upd.agenda
          /\ u.toRemote = upd.toRemote
          /\ \A q \in Remote :
                  /\ u.thread[q].conn = upd.thread[q].conn
                  /\ u.thread[q].peerChoking = upd.thread[q].peerChoking
                  /\ u.thread[q].requests = upd.thread[q].requests
                  /\ u.thread[q].remoteBitfield = upd.thread[q].remoteBitfield
                  /\ u.thread[q].amInterested = upd.thread[q].amInterested
                  /\ upd.thread[q].conn = "OPEN" => u.thread[q].announced = upd.thread[q].announced \cup {p}
      <4> HIDE DEF p
      <4> QED BY <1>1, <2>3, PeersInformed
    <3> HIDE DEF u
    <3>2. \A q \in Remote : Req(u, q) = Req(ended, q)
      BY <3>1, <2>3 DEF Req
    <3>3. \A q \in Remote : u.thread[q].conn = "OPEN" => lb2.bitfield \subseteq u.thread[q].announced
      <4> TAKE q \in Remote
      <4>1. ended.thread[q].conn = "OPEN" => lb.bitfield \subseteq ended.thread[q].announced
        BY <2>6
      <4> QED BY <4>1, <3>1, <2>3, <2>5
    <3>4. Stored(s, u, e, r)
      <4> HIDE DEF p
      <4>1. \A q \in Remote :
               /\ u.thread[q].conn = s.thread[q].conn
               /\ u.thread[q].peerChoking = s.thread[q].peerChoking
               /\ u.thread[q].remoteBitfield = s.thread[q].remoteBitfield
               /\ u.thread[q].amInterested = s.thread[q].amInterested
               /\ Req(s, q) \ {e} \subseteq Req(u, q)
               /\ s.thread[q].requests = <<>> => u.thread[q].requests = <<>>
               /\ BlocksIn(u.toRemote[q], "REQUEST") \subseteq BlocksIn(s.toRemote[q], "REQUEST")
        BY <3>1, <3>2, <2>3, <1>2 DEF Ended
      <4>2. \A q \in Remote : s.state # "ENDGAME" => /\ u.thread[q].requests = s.thread[q].requests
                                                    /\ u.toRemote = s.toRemote
        BY <3>1, <2>3, <1>2
      <4>3. \A q \in Remote : u.thread[q].conn = "OPEN" => u.localBitfield.bitfield \subseteq u.thread[q].announced
        BY <3>1, <3>3, <2>3
      <4>4. /\ u.enableEndGameMode = s.enableEndGameMode /\ u.agenda = s.agenda
            /\ u.state = s.state /\ u.thread[r].requests = s.thread[r].requests
        BY <3>1, <2>3, <1>2 DEF Ended
      <4>5. u.localBitfield = lb2
        BY <3>1, <2>3
      <4>6. lb.bitfield \subseteq u.localBitfield.bitfield
        BY <4>5, <2>5
      <4> QED BY <4>1, <4>2, <4>3, <4>4, <4>5, <4>6, <2>1 DEF Stored
    <3> QED BY <3>1, <3>4, <2>9, <1>3, <1>7 DEF u
  <2> QED BY <2>7, <2>8, <2>9
<1> QED BY <1>6, <1>7

\* From s to u, thread r has got the block e, and does not wait for it any more.
Served(s, u, e, r) ==
  /\ u.enableEndGameMode = s.enableEndGameMode /\ u.agenda = s.agenda
  /\ u.state \in {s.state, "SEEDING"}
  /\ u.localBitfield.blockfield = s.localBitfield.blockfield \cup {e}
  /\ s.localBitfield.bitfield \subseteq u.localBitfield.bitfield
  /\ \A q \in Remote :
       /\ u.thread[q].conn = s.thread[q].conn
       /\ u.thread[q].peerChoking = s.thread[q].peerChoking
       /\ u.thread[q].remoteBitfield = s.thread[q].remoteBitfield
       /\ u.thread[q].amInterested = s.thread[q].amInterested
       /\ Req(s, q) \ {e} \subseteq Req(u, q)
       /\ s.thread[q].requests = <<>> => u.thread[q].requests = <<>>
       /\ BlocksIn(u.toRemote[q], "REQUEST") \subseteq BlocksIn(s.toRemote[q], "REQUEST")
       /\ u.thread[q].conn = "OPEN" => u.localBitfield.bitfield \subseteq u.thread[q].announced
  /\ s.state = "NORMAL" =>
       /\ u.toRemote = s.toRemote
       /\ \A q \in Remote \ {r} : u.thread[q].requests = s.thread[q].requests
       /\ Req(u, r) \subseteq Req(s, r) \ {e}
       /\ Distinct(u.thread[r].requests) /\ Len(u.thread[r].requests) <= RequestQueueDepth
  /\ Counted(u.localBitfield)
  /\ u.state = "NORMAL"  => Marks(u.localBitfield, PendingOf(s) \ {e})
  /\ u.state = "ENDGAME" => AllAsked(u.localBitfield)
  /\ u.state = "SEEDING" => u.localBitfield.blockfield = Entry

LEMMA ServedOK ==
  ASSUME NEW s \in PeerType, NEW f, NEW g, PeerOK(s, f, g), NEW r \in Remote, NEW e \in Entry,
         s.state = "NORMAL" => /\ e \in Req(s, r) /\ e \notin BlocksAsked(s, r)
                               /\ e \notin BlocksIn(s.toRemote[r], "REQUEST")
                               /\ e \notin BlocksIn(f[r], "PIECE"),
         NEW u \in PeerType, Served(s, u, e, r)
  PROVE  PeerOK(u, f, g) /\ Kept(s, u) /\ (u.state = "NORMAL" => Owner(u, r, e[1]))
<1>1. Books(s) /\ Threads(s) /\ \A q \in Remote : Wire(s, f[q], g[q], q)
  BY DEF PeerOK
<1>2. s.state \in {"NORMAL", "ENDGAME", "SEEDING"} /\ u.state \in {s.state, "SEEDING"}
  BY DEF PeerType, Served
<1>3. \A q \in Remote : AgendaKept(s, u, q) /\ (News(s, q) => News(u, q)) /\ Removals(u) = Removals(s)
  BY DEF Served, AgendaKept, BlocksAsked, OnceAsked, Asked, News, Removals
<1>4. Kept(s, u)
  <2>1. Completed(s) => Completed(u)
    BY <1>2 DEF Completed
  <2> QED BY <2>1, <1>3 DEF Kept, Served
<1>5. ASSUME u.state = "NORMAL"
      PROVE  /\ s.state = "NORMAL" /\ Marks(u.localBitfield, PendingOf(u)) /\ Orders(u) /\ Owner(u, r, e[1])
             /\ Req(u, r) = Req(s, r) \ {e} /\ \A q \in Remote \ {r} : Req(u, q) = Req(s, q)
  <2>1. s.state = "NORMAL" /\ Orders(s) /\ e \in Req(s, r)
    BY <1>1, <1>2, <1>5 DEF Books
  <2>2. Req(u, r) = Req(s, r) \ {e} /\ \A q \in Remote \ {r} : Req(u, q) = Req(s, q)
    BY <2>1 DEF Served, Req
  <2>3. \A q \in Remote \ {r} : \A d \in Req(s, q) : d[1] # e[1]
    BY <2>1 DEF Orders, OwnPieces
  <2>4. \A q \in Remote \ {r} : e \notin Req(s, q)
    BY <2>3
  <2>5. PendingOf(u) = PendingOf(s) \ {e}
    BY <2>2, <2>4 DEF PendingOf
  <2>6. Owner(u, r, e[1])
    BY <2>2, <2>3 DEF Owner
  <2>7. OwnPieces(u)
    <3>1. \A q \in Remote : Req(u, q) \subseteq Req(s, q)
      BY <2>2
    <3> QED BY <3>1, <2>1 DEF Orders, OwnPieces
  <2>8. \A q \in Remote : Distinct(u.thread[q].requests) /\ Len(u.thread[q].requests) <= RequestQueueDepth
    <3> TAKE q \in Remote
    <3>1. CASE q = r
      BY <3>1, <2>1 DEF Served
    <3>2. CASE q # r
      BY <3>2, <2>1 DEF Served, Orders
    <3> QED BY <3>1, <3>2
  <2> QED BY <2>1, <2>2, <2>5, <2>6, <2>7, <2>8, <1>5 DEF Served, Orders
<1>6. Books(u)
  <2>1. u.state = "ENDGAME" => u.enableEndGameMode
    BY <1>1, <1>2 DEF Books, Served
  <2> QED BY <2>1, <1>5 DEF Books, Served
<1>7. Threads(u)
  BY <1>1, <1>3 DEF Threads, Served
<1>8. ASSUME NEW q \in Remote, q # r \/ u.state # "NORMAL" PROVE Wire(u, f[q], g[q], q)
  <2>1. u.state = "NORMAL" => /\ s.state = "NORMAL" /\ Req(s, q) \subseteq Req(u, q)
                              /\ u.toRemote = s.toRemote
    BY <1>5, <1>8 DEF Served
  <2>2. u.state = "ENDGAME" => /\ s.state \in {"NORMAL", "ENDGAME"}
                               /\ Req(s, q) \subseteq Req(u, q) \cup u.localBitfield.blockfield
                               /\ s.localBitfield.blockfield \subseteq u.localBitfield.blockfield
    <3>1. u.state = "ENDGAME" => s.state = "ENDGAME"
      BY <1>2
    <3>2. Req(s, q) \ {e} \subseteq Req(u, q) /\ u.localBitfield.blockfield = s.localBitfield.blockfield \cup {e}
      BY DEF Served
    <3> QED BY <3>1, <3>2
  <2>3. WireLike(s, u, q)
    BY <2>1, <2>2, <1>3 DEF WireLike, Served
  <2> QED BY <2>3, <1>1, WireStays
<1>9. ASSUME u.state = "NORMAL" PROVE Wire(u, f[r], g[r], r)
  <2> DEFINE A == BlocksAsked(s, r)
             R == BlocksIn(s.toRemote[r], "REQUEST")
             P == BlocksIn(f[r], "PIECE")
  <2>1. /\ s.state = "NORMAL" /\ Req(u, r) = Req(s, r) \ {e} /\ Wire(s, f[r], g[r], r)
        /\ u.thread[r].conn = s.thread[r].conn /\ u.thread[r].peerChoking = s.thread[r].peerChoking
        /\ u.toRemote = s.toRemote /\ u.agenda = s.agenda
    BY <1>1, <1>5, <1>9 DEF Served
  <2>2. BlocksAsked(u, r) = A /\ (OnceAsked(s, r) => OnceAsked(u, r)) /\ Requesting(u, r) = Requesting(s, r)
    BY <2>1 DEF BlocksAsked, OnceAsked, Asked, Requesting
  <2>3. Phase(u.thread[r], Requesting(u, r), f[r], g[r])
    <3>1. Requesting(u, r) \in BOOLEAN /\ Requesting(s, r) \in BOOLEAN
      BY DEF Requesting
    <3> QED BY <3>1, <2>1, <2>2, PhaseMonotone DEF Wire
  <2>4. e \notin A \cup R \cup P
    BY <2>1
  <2>5. Underway(s, f[r], r)
    BY <2>1 DEF Wire
  <2>6. s.thread[r].peerChoking => A = {}
    BY <2>5 DEF Underway
  <2>7. ~s.thread[r].peerChoking =>
           /\ A \cup R \cup P \subseteq Req(s, r)
           /\ A \cap R = {} /\ A \cap P = {} /\ R \cap P = {}
           /\ OnceAsked(s, r) /\ OnceIn(s.toRemote[r], "REQUEST") /\ OnceIn(f[r], "PIECE")
    BY <2>1, <2>5 DEF Underway
  <2>8. u.toRemote[r] = s.toRemote[r]
    BY <2>1
  <2>9. ~s.thread[r].peerChoking => A \cup R \cup P \subseteq Req(u, r)
    <3> HIDE DEF A, R, P
    <3> QED BY <2>1, <2>4, <2>7
  <2>10. Underway(u, f[r], r)
    <3>1. u.thread[r].peerChoking => BlocksAsked(u, r) = {}
      BY <2>1, <2>2, <2>6
    <3>2. u.state # "ENDGAME"
      BY <1>9
    <3>3. ~u.thread[r].peerChoking =>
             /\ BlocksAsked(u, r) \cup BlocksIn(u.toRemote[r], "REQUEST") \cup P \subseteq Req(u, r)
             /\ BlocksAsked(u, r) \cap BlocksIn(u.toRemote[r], "REQUEST") = {}
             /\ BlocksAsked(u, r) \cap P = {} /\ BlocksIn(u.toRemote[r], "REQUEST") \cap P = {}
             /\ OnceAsked(u, r) /\ OnceIn(u.toRemote[r], "REQUEST") /\ OnceIn(f[r], "PIECE")
      BY <2>1, <2>2, <2>7, <2>8, <2>9
    <3> QED BY <3>1, <3>2, <3>3 DEF Underway
  <2> QED BY <2>1, <2>3, <2>10 DEF Wire
<1>10. \A q \in Remote : Wire(u, f[q], g[q], q)
  BY <1>8, <1>9
<1> QED BY <1>4, <1>5, <1>6, <1>7, <1>10 DEF PeerOK

\* A block that is stored, and the request for it dropped.
LEMMA StoredServed ==
  ASSUME NEW s \in PeerType, Books(s), NEW r \in Remote, NEW e \in Entry,
         NEW t \in PeerType, Stored(s, t, e, r)
  PROVE  /\ RemoveRequest(t, r, e) \in PeerType /\ Served(s, RemoveRequest(t, r, e), e, r)
         /\ s.state # "NORMAL" => Served(s, t, e, r)
<1> DEFINE u == RemoveRequest(t, r, e)
           v == [t.thread[r] EXCEPT !.requests = RemoveFirst(t.thread[r].requests, e)]
<1>1. /\ v.conn = t.thread[r].conn /\ v.peerChoking = t.thread[r].peerChoking
      /\ v.announced = t.thread[r].announced /\ v.remoteBitfield = t.thread[r].remoteBitfield
      /\ v.amInterested = t.thread[r].amInterested
  <2>1. t.thread[r] \in ThreadType
    BY DEF PeerType
  <2> QED BY <2>1 DEF ThreadType
<1>2. /\ u \in PeerType /\ SetThread(t, u, r, v) /\ v \in ThreadType
      /\ Req(t, r) \ {e} \subseteq Req(u, r) /\ Req(u, r) \subseteq Req(t, r)
      /\ t.thread[r].requests = <<>> => u.thread[r].requests = <<>>
      /\ Len(u.thread[r].requests) <= Len(t.thread[r].requests)
      /\ Distinct(t.thread[r].requests) => Distinct(u.thread[r].requests) /\ e \notin Req(u, r)
  BY RequestDropped
<1> HIDE DEF u, v
<1>3. /\ u.thread[r] = v
      /\ \A q \in Remote \ {r} : u.thread[q] = t.thread[q]
      /\ u.localBitfield = t.localBitfield /\ u.state = t.state
      /\ u.enableEndGameMode = t.enableEndGameMode /\ u.agenda = t.agenda
      /\ u.toRemote = t.toRemote
  BY <1>2, ThreadSet
<1>4. t.thread[r].requests = s.thread[r].requests /\ Req(t, r) = Req(s, r)
  BY DEF Stored, Req
<1>5. \A q \in Remote :
       /\ u.thread[q].conn = s.thread[q].conn
       /\ u.thread[q].peerChoking = s.thread[q].peerChoking
       /\ u.thread[q].remoteBitfield = s.thread[q].remoteBitfield
       /\ u.thread[q].amInterested = s.thread[q].amInterested
       /\ u.thread[q].announced = t.thread[q].announced
  BY <1>1, <1>3 DEF Stored
<1>6. \A q \in Remote : /\ Req(s, q) \ {e} \subseteq Req(u, q)
                        /\ s.thread[q].requests = <<>> => u.thread[q].requests = <<>>
  <2> TAKE q \in Remote
  <2>1. CASE q = r
    BY <2>1, <1>2, <1>4
  <2>2. CASE q # r
    BY <2>2, <1>3 DEF Stored, Req
  <2> QED BY <2>1, <2>2
<1>7. ASSUME s.state = "NORMAL"
      PROVE  /\ u.toRemote = s.toRemote
             /\ \A q \in Remote \ {r} : u.thread[q].requests = s.thread[q].requests
             /\ Req(u, r) \subseteq Req(s, r) \ {e}
             /\ Distinct(u.thread[r].requests) /\ Len(u.thread[r].requests) <= RequestQueueDepth
  <2>1. Distinct(s.thread[r].requests) /\ Len(s.thread[r].requests) <= RequestQueueDepth
    BY <1>7 DEF Books, Orders
  <2>2. Len(u.thread[r].requests) <= RequestQueueDepth
    <3>1. Len(u.thread[r].requests) \in Nat /\ Len(s.thread[r].requests) \in Nat
      BY <1>2 DEF PeerType, ThreadType
    <3> QED BY <3>1, <2>1, <1>2, <1>4, RequestQueueDepthAssumption
  <2>3. \A q \in Remote \ {r} : u.thread[q].requests = s.thread[q].requests
    BY <1>3, <1>7 DEF Stored
  <2>4. u.toRemote = s.toRemote
    BY <1>3, <1>7 DEF Stored
  <2> QED BY <2>1, <2>2, <2>3, <2>4, <1>2, <1>4
<1>8. \A q \in Remote : /\ BlocksIn(u.toRemote[q], "REQUEST") \subseteq BlocksIn(s.toRemote[q], "REQUEST")
                        /\ u.thread[q].conn = "OPEN" => u.localBitfield.bitfield \subseteq u.thread[q].announced
  <2> TAKE q \in Remote
  <2>1. u.thread[q].conn = t.thread[q].conn /\ u.thread[q].announced = t.thread[q].announced
    BY <1>5 DEF Stored
  <2> QED BY <2>1, <1>3 DEF Stored
<1>9. Served(s, u, e, r)
  BY <1>3, <1>5, <1>6, <1>7, <1>8 DEF Served, Stored
<1>10. s.state # "NORMAL" => Served(s, t, e, r)
  BY DEF Served, Stored
<1> QED BY <1>2, <1>9, <1>10 DEF u

LEMMA BlockArrived ==
  ASSUME NEW s \in PeerType, NEW f, NEW g, PeerOK(s, f, g), NEW r \in Remote, NEW e \in Entry,
         ~s.thread[r].peerChoking,
         s.state = "NORMAL" => /\ e \in Req(s, r) /\ e \notin BlocksAsked(s, r)
                               /\ e \notin BlocksIn(s.toRemote[r], "REQUEST")
                               /\ e \notin BlocksIn(f[r], "PIECE"),
         s.state = "ENDGAME" => e \in Req(s, r) \cup s.localBitfield.blockfield
  PROVE  PeerOK(PieceArrived(s, r, e), f, g) /\ Kept(s, PieceArrived(s, r, e))
<1> DEFINE expected == FindRequest(s, r, e)
           t == UpdateBitField(s, e, expected, r)
           u == RemoveRequest(t, r, e)
           v == SendBlockRequests(u, r, e[1])
           w == Schedule(u, r, Msg("NEXT_REQUEST"))
<1>1. PieceArrived(s, r, e) =
        IF ~expected THEN t
        ELSE IF ~CanRequestMore(u, r) \/ u.state = "ENDGAME" THEN u
        ELSE IF NextBlock(u.localBitfield, e[1]) >= 0 THEN v ELSE w
  BY DEF PieceArrived
<1>2. expected \in BOOLEAN /\ (expected <=> e \in Req(s, r))
  <2>1. s.thread[r].requests \in Seq(Entry)
    BY DEF PeerType, ThreadType
  <2>2. expected <=> e \in Req(s, r)
    BY <2>1, FoundIs
  <2>3. expected \in BOOLEAN
    BY DEF FindRequest, Contains
  <2> QED BY <2>2, <2>3
<1> HIDE DEF expected
<1>3. Books(s) /\ Threads(s)
  BY DEF PeerOK
<1>4. t \in PeerType /\ Stored(s, t, e, r)
  BY <1>2, <1>3, BlockStored
<1> HIDE DEF t
<1>5. u \in PeerType /\ Served(s, u, e, r) /\ (s.state # "NORMAL" => Served(s, t, e, r))
  BY <1>3, <1>4, StoredServed
<1> HIDE DEF u
<1>6. PeerOK(u, f, g) /\ Kept(s, u) /\ (u.state = "NORMAL" => Owner(u, r, e[1]))
  BY <1>5, ServedOK
<1>7. ~expected => PeerOK(t, f, g) /\ Kept(s, t)
  <2>1. ~expected => s.state # "NORMAL"
    BY <1>2
  <2> QED BY <2>1, <1>4, <1>5, ServedOK
<1>8. ~u.thread[r].peerChoking /\ e[1] \in Piece
  BY <1>5 DEF Served, Entry
<1>9. NextBlock(u.localBitfield, e[1]) >= 0 => PeerOK(v, f, g) /\ Kept(s, v)
  <2> SUFFICES ASSUME NextBlock(u.localBitfield, e[1]) >= 0 PROVE PeerOK(v, f, g) /\ Kept(s, v)
    OBVIOUS
  <2>1. u.state # "SEEDING"
    <3>1. FreeBlocks(u.localBitfield, e[1]) # {}
      BY NextBlockIs
    <3>2. u.localBitfield.blockfield # Entry
      BY <3>1, <1>8 DEF FreeBlocks, Entry
    <3> QED BY <3>2, <1>5 DEF Served
  <2> DEFINE p == e[1]
  <2> HIDE DEF v
  <2>2. p \in Piece /\ (u.state = "NORMAL" => Owner(u, r, p))
    BY <1>6, <1>8
  <2> HIDE DEF p
  <2>3. SendBlockRequests(u, r, p) \in Requests(u, f, g, r, p)
    BY <2>1, <2>2, <1>5, <1>6, <1>8, BlocksRequested
  <2>4. v \in Requests(u, f, g, r, p)
    BY <2>3 DEF v, p
  <2>5. PeerOK(v, f, g) /\ Kept(u, v)
    BY <2>4 DEF Requests
  <2>6. Kept(s, v)
    BY <2>5, <1>6, KeptComposed
  <2> QED BY <2>5, <2>6
<1>10. PeerOK(w, f, g) /\ Kept(s, w)
  <2> DEFINE m == Msg("NEXT_REQUEST")
  <2>1. m \in Messages(SelfKinds) /\ m.kind = "NEXT_REQUEST"
    BY MsgTypes DEF SelfKinds
  <2> HIDE DEF m
  <2>2. w \in PeerType /\ Alike(u, w) /\ Kept(u, w)
    <3>1. /\ Schedule(u, r, m) \in PeerType
          /\ Alike(u, Schedule(u, r, m)) /\ Kept(u, Schedule(u, r, m))
      BY <2>1, <1>5, ScheduledAlike
    <3> QED BY <3>1 DEF m
  <2> HIDE DEF w
  <2>3. PeerOK(w, f, g)
    BY <2>2, <1>6, AlikeOK
  <2>4. Kept(s, w)
    BY <2>2, <1>6, KeptComposed
  <2> QED BY <2>3, <2>4
<1> HIDE DEF v, w
<1> QED BY <1>1, <1>6, <1>7, <1>9, <1>10

-----------------------------------------------------------------------------
(* Messages from a remote peer *)

LEMMA BooksSame ==
  ASSUME NEW s, NEW u, Books(s), u.localBitfield = s.localBitfield, u.state = s.state,
         u.enableEndGameMode = s.enableEndGameMode,
         \A q \in Remote : u.thread[q].requests = s.thread[q].requests
  PROVE  Books(u)
<1>1. \A r \in Remote : Req(u, r) = Req(s, r)
  BY DEF Req
<1>2. PendingOf(u) = PendingOf(s)
  BY <1>1 DEF PendingOf
<1>3. Orders(s) => Orders(u)
  <2>1. OwnPieces(s) => OwnPieces(u)
    BY <1>1 DEF OwnPieces
  <2> QED BY <2>1 DEF Orders
<1> QED BY <1>2, <1>3 DEF Books

\* What a step leaves alone about the wire of thread q.
Untouched(s, u, q) ==
  /\ u.state = s.state /\ u.localBitfield.blockfield = s.localBitfield.blockfield
  /\ u.thread[q].conn = s.thread[q].conn /\ u.thread[q].peerChoking = s.thread[q].peerChoking
  /\ u.thread[q].requests = s.thread[q].requests
  /\ AgendaKept(s, u, q)
  /\ u.toRemote[q] = s.toRemote[q]

LEMMA UntouchedWire ==
  ASSUME NEW s \in PeerType, NEW u, NEW q, Untouched(s, u, q), NEW w, NEW m, Wire(s, w, m, q)
  PROVE  Wire(u, w, m, q)
<1>1. Req(u, q) = Req(s, q)
  BY DEF Untouched, Req
<1>2. s.state \in {"NORMAL", "ENDGAME", "SEEDING"}
  BY DEF PeerType
<1>3. WireLike(s, u, q)
  BY <1>1, <1>2 DEF Untouched, WireLike
<1> QED BY <1>3, WireStays

\* The wire of r without its first message.
Popped(f, r) == [f EXCEPT ![r] = Tail(@)]

LEMMA PoppedIs ==
  ASSUME NEW f \in [Remote -> Seq(Messages(FromKinds))], NEW r \in Remote, f[r] # <<>>
  PROVE  /\ Popped(f, r) \in [Remote -> Seq(Messages(FromKinds))]
         /\ Popped(f, r)[r] = Tail(f[r])
         /\ \A q \in Remote \ {r} : Popped(f, r)[q] = f[q]
         /\ Head(f[r]) \in Messages(FromKinds)
<1>1. f[r] \in Seq(Messages(FromKinds))
  OBVIOUS
<1>2. Tail(f[r]) \in Seq(Messages(FromKinds)) /\ Head(f[r]) \in Messages(FromKinds)
  BY <1>1
<1> QED BY <1>2 DEF Popped

LEMMA NewsReceived ==
  ASSUME NEW s \in PeerType, NEW f \in [Remote -> Seq(Messages(FromKinds))], NEW g, PeerOK(s, f, g),
         \A q \in Remote : Told(s, q),
         NEW r \in Remote, f[r] # <<>>, Head(f[r]).kind \in {"BITFIELD", "HAVE"}
  PROVE  LET u == DataArrived(s, r, Head(f[r]))
         IN  PeerOK(u, Popped(f, r), g) /\ \A q \in Remote : Told(u, q)
<1> DEFINE h == Popped(f, r)
           m == Head(f[r])
           S == IF m.kind = "BITFIELD" THEN m.pieces ELSE s.thread[r].remoteBitfield \cup {m.index}
           t == [s.thread[r] EXCEPT !.remoteBitfield = S]
           a == [s EXCEPT !.thread = [s.thread EXCEPT ![r] = t]]
           u == Schedule(a, r, m)
<1>1. /\ h \in [Remote -> Seq(Messages(FromKinds))] /\ h[r] = Tail(f[r])
      /\ \A q \in Remote \ {r} : h[q] = f[q]
      /\ m \in Messages(FromKinds)
  BY PoppedIs
<1>2. m.kind \in {"BITFIELD", "HAVE"}
  OBVIOUS
<1>3. DataArrived(s, r, m) = u
  <2>1. s.thread \in [Remote -> ThreadType] /\ s.thread[r] \in ThreadType
    BY DEF PeerType
  <2> HIDE DEF m
  <2>2. CASE m.kind = "BITFIELD"
    <3>1. DataArrived(s, r, m) = Schedule([s EXCEPT !.thread[r].remoteBitfield = m.pieces], r, m)
      BY <2>2 DEF DataArrived
    <3>2. [s EXCEPT !.thread[r].remoteBitfield = m.pieces] = a
      BY <2>1, <2>2 DEF PeerType
    <3> QED BY <3>1, <3>2
  <2>3. CASE m.kind = "HAVE"
    <3>1. DataArrived(s, r, m) = Schedule([s EXCEPT !.thread[r].remoteBitfield = @ \cup {m.index}], r, m)
      BY <2>3 DEF DataArrived
    <3>2. [s EXCEPT !.thread[r].remoteBitfield = @ \cup {m.index}] = a
      BY <2>1, <2>3 DEF PeerType
    <3> QED BY <3>1, <3>2
  <2> QED BY <2>2, <2>3, <1>2
<1>4. PeerOK(s, h, g)
  <2>1. Wire(s, f[r], g[r], r) /\ f[r] \in Seq(Messages(FromKinds))
    BY DEF PeerOK
  <2>2. Wire(s, Tail(f[r]), g[r], r)
    BY <2>1, <1>2, WirePopped
  <2>3. \A q \in Remote : Wire(s, h[q], g[q], q)
    BY <2>2, <1>1 DEF PeerOK
  <2> QED BY <2>3 DEF PeerOK
<1> HIDE DEF h
<1>5. m \in Messages(SelfKinds) /\ m.index \in Piece /\ m.pieces \in SUBSET Piece
  BY <1>1, <1>2 DEF Messages, SelfKinds
<1>6. /\ t \in ThreadType /\ t.conn = s.thread[r].conn /\ t.peerChoking = s.thread[r].peerChoking
      /\ t.requests = s.thread[r].requests /\ t.announced = s.thread[r].announced
      /\ t.amInterested = s.thread[r].amInterested
  <2>1. s.thread[r] \in ThreadType
    BY DEF PeerType
  <2>2. S \in SUBSET Piece
    BY <2>1, <1>5 DEF ThreadType
  <2> HIDE DEF S
  <2> QED BY <2>1, <2>2 DEF ThreadType
<1>7. SetThread(s, a, r, t)
  BY DEF SetThread
<1> HIDE DEF m, t, a
<1>8. a \in PeerType /\ Alike(s, a)
  BY <1>6, <1>7, ThreadSetAlike
<1>9. /\ a.thread[r] = t /\ \A q \in Remote \ {r} : a.thread[q] = s.thread[q]
      /\ a.localBitfield = s.localBitfield /\ a.state = s.state
      /\ \A q : News(s, q) => News(a, q)
  BY <1>6, <1>7, ThreadSet
<1>10. u \in PeerType /\ Alike(a, u) /\ Kept(a, u) /\ News(u, r)
  <2>1. m.kind \notin {"REQUEST", "REMOVE_THREAD"} /\ m.kind \in {"BITFIELD", "HAVE"}
    BY <1>2 DEF m
  <2> QED BY <2>1, <1>5, <1>8, ScheduledAlike
<1> HIDE DEF u
<1>11. PeerOK(u, h, g)
  <2>1. Alike(s, u)
    BY <1>8, <1>10, AlikeComposed
  <2> QED BY <2>1, <1>4, <1>10, AlikeOK
<1>12. ASSUME NEW q \in Remote PROVE Told(u, q)
  <2>1. CASE q = r
    BY <2>1, <1>10 DEF Told
  <2>2. CASE q # r
    <3>1. Told(a, q)
      <4>1. Told(s, q)
        OBVIOUS
      <4> QED BY <4>1, <2>2, <1>9 DEF Told, AmInterested, Completed
    <3> QED BY <3>1, <1>10, KeptTold
  <2> QED BY <2>1, <2>2
<1> QED BY <1>3, <1>11, <1>12 DEF h, m

LEMMA BlockReceived ==
  ASSUME NEW s \in PeerType, NEW f \in [Remote -> Seq(Messages(FromKinds))], NEW g, PeerOK(s, f, g),
         \A q \in Remote : Told(s, q),
         NEW r \in Remote, f[r] # <<>>, Head(f[r]).kind = "PIECE"
  PROVE  LET u == DataArrived(s, r, Head(f[r]))
         IN  PeerOK(u, Popped(f, r), g) /\ \A q \in Remote : Told(u, q)
<1> DEFINE h == Popped(f, r)
           m == Head(f[r])
           e == BlockOf(m)
           u == PieceArrived(s, r, e)
<1>1. /\ h \in [Remote -> Seq(Messages(FromKinds))] /\ h[r] = Tail(f[r])
      /\ \A q \in Remote \ {r} : h[q] = f[q]
      /\ m \in Messages(FromKinds)
  BY PoppedIs
<1>2. m.kind = "PIECE"
  OBVIOUS
<1> HIDE DEF m
<1>3. DataArrived(s, r, m) = u
  BY <1>2 DEF DataArrived, BlockOf
<1>4. e \in Entry
  BY <1>1 DEF Messages, BlockOf, Entry
<1>5. Wire(s, f[r], g[r], r) /\ f[r] \in Seq(Messages(FromKinds))
  BY DEF PeerOK
<1>6. PeerOK(s, h, g)
  <2>2. Wire(s, Tail(f[r]), g[r], r)
    BY <1>5, <1>2, WirePopped DEF m
  <2>3. \A q \in Remote : Wire(s, h[q], g[q], q)
    BY <2>2, <1>1 DEF PeerOK
  <2> QED BY <2>3 DEF PeerOK
<1>7. /\ At(f[r], "PIECE") # {}
      /\ e \in BlocksIn(f[r], "PIECE")
      /\ OnceIn(f[r], "PIECE") => e \notin BlocksIn(h[r], "PIECE")
  <2>1. /\ Head(f[r]).kind = "PIECE" => BlockOf(Head(f[r])) \in BlocksIn(f[r], "PIECE")
        /\ At(f[r], "PIECE") # {} <=> At(Tail(f[r]), "PIECE") # {} \/ Head(f[r]).kind = "PIECE"
        /\ OnceIn(f[r], "PIECE") =>
              /\ OnceIn(Tail(f[r]), "PIECE")
              /\ Head(f[r]).kind = "PIECE" => BlockOf(Head(f[r])) \notin BlocksIn(Tail(f[r]), "PIECE")
    BY <1>5, WireTail
  <2> QED BY <2>1, <1>1, <1>2 DEF m
<1> HIDE DEF h, e
<1>8. ~s.thread[r].peerChoking
  BY <1>5, <1>7 DEF Wire, Phase
<1>9. Underway(s, f[r], r)
  BY <1>5 DEF Wire
<1>10. s.state = "NORMAL" => /\ e \in Req(s, r) /\ e \notin BlocksAsked(s, r)
                             /\ e \notin BlocksIn(s.toRemote[r], "REQUEST")
                             /\ e \notin BlocksIn(h[r], "PIECE")
  BY <1>7, <1>8, <1>9 DEF Underway
<1>11. s.state = "ENDGAME" => e \in Req(s, r) \cup s.localBitfield.blockfield
  BY <1>7, <1>8, <1>9 DEF Underway
<1>12. PeerOK(u, h, g) /\ Kept(s, u)
  BY <1>4, <1>6, <1>8, <1>10, <1>11, BlockArrived
<1> HIDE DEF u
<1>13. \A q \in Remote : Told(u, q)
  BY <1>12, KeptTold
<1> QED BY <1>3, <1>12, <1>13 DEF h, m

\* What taking the first message off the wire w of thread r tells.
LEMMA PoppedWire ==
  ASSUME NEW s, NEW r, NEW m, NEW S, NEW w \in Seq(S), w # <<>>, Wire(s, w, m, r)
  PROVE  /\ Orderly(Tail(w)) /\ Phase(s.thread[r], Requesting(s, r), w, m) /\ Underway(s, w, r)
         /\ s.thread[r].conn = "NONE" => FALSE
         /\ s.thread[r].conn \in {"ABORTING", "GONE"} => FALSE
         /\ \A k \in {"CLOSE", "CHOKE", "UNCHOKE", "PIECE"} :
               At(w, k) # {} <=> At(Tail(w), k) # {} \/ Head(w).kind = k
         /\ Head(w).kind = "CLOSE" => Tail(w) = <<>>
         /\ Head(w).kind = "CHOKE" => /\ At(Tail(w), "PIECE") = {} /\ At(Tail(w), "CHOKE") = {}
                                      /\ At(Tail(w), "UNCHOKE") = {}
         /\ Head(w).kind \in {"PIECE", "CHOKE", "UNCHOKE"} => At(Tail(w), "UNCHOKE") = {}
<1>1. Orderly(w) /\ Phase(s.thread[r], Requesting(s, r), w, m) /\ Underway(s, w, r)
  BY DEF Wire
<1>2. /\ Orderly(Tail(w))
      /\ Head(w).kind = "CLOSE" => Tail(w) = <<>>
      /\ Head(w).kind = "CHOKE" => /\ At(Tail(w), "PIECE") = {} /\ At(Tail(w), "CHOKE") = {}
                                   /\ At(Tail(w), "UNCHOKE") = {}
      /\ Head(w).kind \in {"PIECE", "CHOKE", "UNCHOKE"} => At(Tail(w), "UNCHOKE") = {}
  BY <1>1, OrderlyTail
<1>3. \A k : At(w, k) # {} <=> At(Tail(w), k) # {} \/ Head(w).kind = k
  BY WireTail
<1>4. s.thread[r].conn \in {"NONE", "ABORTING", "GONE"} => FALSE
  BY <1>1 DEF Phase
<1> QED BY <1>1, <1>2, <1>3, <1>4

\* An empty queue of blocks or requests.
LEMMA NoneAt == ASSUME NEW w, NEW k, At(w, k) = {}
                PROVE  BlocksIn(w, k) = {} /\ OnceIn(w, k)
BY DEF BlocksIn, OnceIn

LEMMA NoAgenda == ASSUME NEW s, NEW r, s.agenda = <<>>
                  PROVE  BlocksAsked(s, r) = {} /\ OnceAsked(s, r) /\ ~News(s, r)
<1>1. Asked(s, r) = {} /\ ~News(s, r)
  BY DEF Asked, News
<1> QED BY <1>1 DEF BlocksAsked, OnceAsked

LEMMA ChokeReceived ==
  ASSUME NEW s \in PeerType, NEW f \in [Remote -> Seq(Messages(FromKinds))], NEW g, PeerOK(s, f, g),
         \A q \in Remote : Told(s, q), s.agenda = <<>>,
         NEW r \in Remote, f[r] # <<>>, Head(f[r]).kind = "CHOKE"
  PROVE  LET u == DataArrived(s, r, Head(f[r]))
         IN  PeerOK(u, Popped(f, r), g) /\ \A q \in Remote : Told(u, q)
<1> DEFINE h == Popped(f, r)
           w == f[r]
           t == [s.thread[r] EXCEPT !.peerChoking = TRUE]
           a == [s EXCEPT !.thread = [s.thread EXCEPT ![r] = t]]
           u == ClearPendingRequests(a, r)
           m == g[r]
<1>1. h[r] = Tail(w) /\ \A q \in Remote \ {r} : h[q] = f[q]
  BY PoppedIs
<1>2. DataArrived(s, r, Head(w)) = u
  <2>1. s.thread \in [Remote -> ThreadType] /\ s.thread[r] \in ThreadType
    BY DEF PeerType
  <2>2. DataArrived(s, r, Head(w)) = ClearPendingRequests([s EXCEPT !.thread[r].peerChoking = TRUE], r)
    BY DEF DataArrived
  <2>3. [s EXCEPT !.thread[r].peerChoking = TRUE] = a
    BY <2>1 DEF PeerType
  <2> QED BY <2>2, <2>3
<1>3. Wire(s, w, m, r) /\ w \in Seq(Messages(FromKinds)) /\ w # <<>>
  BY DEF PeerOK
<1> HIDE DEF h, w, m
<1>4. Head(w).kind = "CHOKE"
  BY DEF w
<1>5. /\ Orderly(Tail(w)) /\ Phase(s.thread[r], Requesting(s, r), w, m) /\ Underway(s, w, r)
      /\ s.thread[r].conn \notin {"NONE", "ABORTING", "GONE"}
      /\ At(w, "CLOSE") # {} <=> At(Tail(w), "CLOSE") # {}
      /\ At(Tail(w), "PIECE") = {} /\ At(Tail(w), "CHOKE") = {} /\ At(Tail(w), "UNCHOKE") = {}
      /\ At(w, "CHOKE") # {}
  BY <1>3, <1>4, PoppedWire
<1>6. /\ t \in ThreadType /\ t.conn = s.thread[r].conn /\ t.peerChoking = TRUE
      /\ t.requests = s.thread[r].requests /\ t.announced = s.thread[r].announced
      /\ t.amInterested = s.thread[r].amInterested /\ t.remoteBitfield = s.thread[r].remoteBitfield
  <2>1. s.thread[r] \in ThreadType
    BY DEF PeerType
  <2> QED BY <2>1 DEF ThreadType
<1>7. SetThread(s, a, r, t)
  BY DEF SetThread
<1> HIDE DEF a, t
<1>8. /\ a \in PeerType
      /\ a.thread[r] = t
      /\ \A q \in Remote \ {r} : a.thread[q] = s.thread[q]
      /\ a.localBitfield = s.localBitfield /\ a.state = s.state
      /\ a.enableEndGameMode = s.enableEndGameMode /\ a.agenda = s.agenda
      /\ a.toRemote = s.toRemote
      /\ \A q : AgendaKept(s, a, q) /\ (News(s, q) => News(a, q))
      /\ Removals(a) \subseteq Removals(s)
  BY <1>6, <1>7, ThreadSet
<1>9. Books(s) /\ Threads(s) /\ \A q \in Remote : Wire(s, f[q], g[q], q)
  BY DEF PeerOK
<1>10. Books(a)
  <2>1. \A q \in Remote : a.thread[q].requests = s.thread[q].requests
    BY <1>6, <1>8
  <2> QED BY <2>1, <1>8, <1>9, BooksSame
<1>11. u \in PeerType /\ Books(u) /\ Cleared(a, u, r)
  BY <1>8, <1>10, ClearedBooks
<1> HIDE DEF u
<1>12. /\ u.thread[r].conn = t.conn /\ u.thread[r].peerChoking = TRUE /\ u.thread[r].requests = <<>>
       /\ u.thread[r].announced = t.announced /\ u.thread[r].amInterested = t.amInterested
       /\ u.thread[r].remoteBitfield = t.remoteBitfield
       /\ \A q \in Remote \ {r} : u.thread[q] = s.thread[q]
       /\ u.localBitfield.bitfield = s.localBitfield.bitfield
       /\ u.localBitfield.blockfield = s.localBitfield.blockfield
       /\ u.state = s.state /\ u.toRemote = s.toRemote
       /\ Removals(u) \subseteq Removals(s)
       /\ \A q \in Remote : AgendaKept(s, u, q) /\ (News(s, q) => News(u, q))
  <2>1. u.thread[r] = [t EXCEPT !.requests = <<>>]
    BY <1>8, <1>11 DEF Cleared
  <2>2. \A q \in Remote : AgendaKept(s, u, q) /\ (News(s, q) => News(u, q))
    BY <1>8, <1>11 DEF Cleared, AgendaKept
  <2>3. Removals(u) \subseteq Removals(s)
    BY <1>8, <1>11 DEF Cleared
  <2> QED BY <2>1, <2>2, <2>3, <1>6, <1>8, <1>11 DEF Cleared, ThreadType
<1>13. Threads(u)
  <2> SUFFICES ASSUME NEW q \in Remote
               PROVE  /\ q \in Removals(u) => u.thread[q].conn \in {"ABORTING", "GONE"}
                      /\ u.thread[q].peerChoking => u.thread[q].requests = <<>>
                      /\ u.thread[q].conn # "OPEN" => u.thread[q].peerChoking
                      /\ u.thread[q].conn = "OPEN" => u.localBitfield.bitfield \subseteq u.thread[q].announced
    BY DEF Threads
  <2>1. /\ q \in Removals(s) => s.thread[q].conn \in {"ABORTING", "GONE"}
        /\ s.thread[q].peerChoking => s.thread[q].requests = <<>>
        /\ s.thread[q].conn # "OPEN" => s.thread[q].peerChoking
        /\ s.thread[q].conn = "OPEN" => s.localBitfield.bitfield \subseteq s.thread[q].announced
    BY <1>9 DEF Threads
  <2>2. CASE q = r
    BY <2>1, <2>2, <1>6, <1>12
  <2>3. CASE q # r
    BY <2>1, <2>3, <1>12
  <2> QED BY <2>2, <2>3
<1>14. Wire(u, Tail(w), m, r)
  <2>1. Requesting(u, r) = Requesting(s, r)
    BY <1>12 DEF Requesting
  <2>2. Phase(u.thread[r], Requesting(u, r), Tail(w), m)
    BY <2>1, <1>5, <1>6, <1>12 DEF Phase
  <2>3. BlocksAsked(u, r) = {}
    <3>1. BlocksAsked(s, r) = {}
      BY NoAgenda
    <3> QED BY <3>1, <1>12 DEF AgendaKept
  <2>4. Underway(u, Tail(w), r)
    BY <2>3, <1>12 DEF Underway
  <2> QED BY <2>2, <2>4, <1>5 DEF Wire
<1>15. ASSUME NEW q \in Remote \ {r} PROVE Wire(u, f[q], g[q], q)
  <2>1. Untouched(s, u, q)
    BY <1>12 DEF Untouched
  <2> QED BY <2>1, <1>9, UntouchedWire
<1>16. PeerOK(u, h, g)
  <2>1. \A q \in Remote : Wire(u, h[q], g[q], q)
    BY <1>1, <1>14, <1>15 DEF m
  <2> QED BY <2>1, <1>11, <1>13 DEF PeerOK
<1>17. \A q \in Remote : Told(u, q)
  <2>1. Kept(s, u)
    BY <1>6, <1>12 DEF Kept, Completed
  <2> QED BY <2>1, KeptTold
<1> QED BY <1>2, <1>16, <1>17 DEF h, w

LEMMA UnchokeReceived ==
  ASSUME NEW s \in PeerType, NEW f \in [Remote -> Seq(Messages(FromKinds))], NEW g, PeerOK(s, f, g),
         \A q \in Remote : Told(s, q), s.agenda = <<>>,
         NEW r \in Remote, f[r] # <<>>, Head(f[r]).kind = "UNCHOKE"
  PROVE  LET u == DataArrived(s, r, Head(f[r]))
         IN  PeerOK(u, Popped(f, r), g) /\ \A q \in Remote : Told(u, q)
<1> DEFINE h == Popped(f, r)
           w == f[r]
           t == [s.thread[r] EXCEPT !.peerChoking = FALSE]
           a == [s EXCEPT !.thread = [s.thread EXCEPT ![r] = t]]
           n == Head(w)
           u == Schedule(a, r, n)
           m == g[r]
<1>1. h[r] = Tail(w) /\ \A q \in Remote \ {r} : h[q] = f[q]
  BY PoppedIs
<1>2. DataArrived(s, r, n) = IF s.thread[r].amInterested THEN u ELSE a
  <2>1. s.thread \in [Remote -> ThreadType] /\ s.thread[r] \in ThreadType
    BY DEF PeerType
  <2>2. DataArrived(s, r, n) =
            LET b == [s EXCEPT !.thread[r].peerChoking = FALSE]
            IN  IF s.thread[r].amInterested THEN Schedule(b, r, n) ELSE b
    BY DEF DataArrived
  <2>3. [s EXCEPT !.thread[r].peerChoking = FALSE] = a
    BY <2>1 DEF PeerType
  <2> QED BY <2>2, <2>3
<1>3. Wire(s, w, m, r) /\ w \in Seq(Messages(FromKinds)) /\ w # <<>>
  BY DEF PeerOK
<1> HIDE DEF h, w, m
<1>4. n.kind = "UNCHOKE" /\ n \in Messages(SelfKinds)
  <2>1. n \in Messages(FromKinds) /\ n.kind = "UNCHOKE"
    BY <1>3 DEF w
  <2> QED BY <2>1 DEF Messages, SelfKinds
<1>5. /\ Orderly(Tail(w)) /\ Phase(s.thread[r], Requesting(s, r), w, m) /\ Underway(s, w, r)
      /\ s.thread[r].conn \notin {"NONE", "ABORTING", "GONE"}
      /\ At(w, "CLOSE") # {} <=> At(Tail(w), "CLOSE") # {}
      /\ At(w, "CHOKE") # {} <=> At(Tail(w), "CHOKE") # {}
      /\ At(w, "PIECE") # {} <=> At(Tail(w), "PIECE") # {}
      /\ At(Tail(w), "UNCHOKE") = {}
      /\ At(w, "UNCHOKE") # {}
  BY <1>3, <1>4, PoppedWire
<1>6. /\ t \in ThreadType /\ t.conn = s.thread[r].conn /\ t.peerChoking = FALSE
      /\ t.requests = s.thread[r].requests /\ t.announced = s.thread[r].announced
      /\ t.amInterested = s.thread[r].amInterested /\ t.remoteBitfield = s.thread[r].remoteBitfield
  <2>1. s.thread[r] \in ThreadType
    BY DEF PeerType
  <2> QED BY <2>1 DEF ThreadType
<1>7. SetThread(s, a, r, t)
  BY DEF SetThread
<1> HIDE DEF a, t, n
<1>8. /\ a \in PeerType
      /\ a.thread[r] = t
      /\ \A q \in Remote \ {r} : a.thread[q] = s.thread[q]
      /\ a.localBitfield = s.localBitfield /\ a.state = s.state
      /\ a.enableEndGameMode = s.enableEndGameMode /\ a.agenda = s.agenda
      /\ a.toRemote = s.toRemote
      /\ \A q : AgendaKept(s, a, q) /\ (News(s, q) => News(a, q))
      /\ Removals(a) \subseteq Removals(s)
  BY <1>6, <1>7, ThreadSet
<1>9. Books(s) /\ Threads(s) /\ \A q \in Remote : Wire(s, f[q], g[q], q)
  BY DEF PeerOK
<1>10. Books(a)
  <2>1. \A q \in Remote : a.thread[q].requests = s.thread[q].requests
    BY <1>6, <1>8
  <2> QED BY <2>1, <1>8, <1>9, BooksSame
<1>11. s.thread[r].conn = "OPEN"
  <2>1. s.thread[r].conn \in {"NONE", "OPEN", "ABORTING", "GONE"}
    BY DEF PeerType, ThreadType
  <2> QED BY <2>1, <1>5
<1>12. Threads(a)
  <2> SUFFICES ASSUME NEW q \in Remote
               PROVE  /\ q \in Removals(a) => a.thread[q].conn \in {"ABORTING", "GONE"}
                      /\ a.thread[q].peerChoking => a.thread[q].requests = <<>>
                      /\ a.thread[q].conn # "OPEN" => a.thread[q].peerChoking
                      /\ a.thread[q].conn = "OPEN" => a.localBitfield.bitfield \subseteq a.thread[q].announced
    BY DEF Threads
  <2>1. /\ q \in Removals(s) => s.thread[q].conn \in {"ABORTING", "GONE"}
        /\ s.thread[q].peerChoking => s.thread[q].requests = <<>>
        /\ s.thread[q].conn # "OPEN" => s.thread[q].peerChoking
        /\ s.thread[q].conn = "OPEN" => s.localBitfield.bitfield \subseteq s.thread[q].announced
    BY <1>9 DEF Threads
  <2>2. CASE q = r
    BY <2>1, <2>2, <1>6, <1>8, <1>11
  <2>3. CASE q # r
    BY <2>1, <2>3, <1>8
  <2> QED BY <2>2, <2>3
<1>13. Wire(a, Tail(w), m, r)
  <2>1. Requesting(a, r) = Requesting(s, r) /\ a.toRemote[r] = s.toRemote[r]
    BY <1>8 DEF Requesting
  <2>2. Phase(a.thread[r], Requesting(a, r), Tail(w), m)
    BY <2>1, <1>5, <1>6, <1>8 DEF Phase
  <2>3. BlocksAsked(a, r) = {} /\ OnceAsked(a, r)
    BY <1>8, NoAgenda
  <2>4. BlocksIn(a.toRemote[r], "REQUEST") = {} /\ OnceIn(a.toRemote[r], "REQUEST")
    <3>1. At(s.toRemote[r], "REQUEST") = {}
      BY <1>5 DEF Phase, Requesting
    <3> QED BY <3>1, <2>1, NoneAt
  <2>5. BlocksIn(Tail(w), "PIECE") = {} /\ OnceIn(Tail(w), "PIECE")
    <3>1. At(Tail(w), "PIECE") = {}
      BY <1>5 DEF Phase
    <3> QED BY <3>1, NoneAt
  <2>6. Underway(a, Tail(w), r)
    BY <2>3, <2>4, <2>5 DEF Underway
  <2> QED BY <2>2, <2>6, <1>5 DEF Wire
<1>14. ASSUME NEW q \in Remote \ {r} PROVE Wire(a, f[q], g[q], q)
  <2>1. Untouched(s, a, q)
    BY <1>8 DEF Untouched
  <2> QED BY <2>1, <1>9, UntouchedWire
<1>15. PeerOK(a, h, g)
  <2>1. \A q \in Remote : Wire(a, h[q], g[q], q)
    BY <1>1, <1>13, <1>14 DEF m
  <2> QED BY <2>1, <1>8, <1>10, <1>12 DEF PeerOK
<1>16. Kept(s, a)
  BY <1>6, <1>8 DEF Kept, Completed
<1>17. u \in PeerType /\ Alike(a, u) /\ Kept(a, u)
  BY <1>4, <1>8, ScheduledAlike
<1> HIDE DEF u
<1>18. PeerOK(u, h, g)
  BY <1>15, <1>17, AlikeOK
<1>19. Kept(s, u)
  BY <1>16, <1>17, KeptComposed
<1>20. \A q \in Remote : Told(a, q) /\ Told(u, q)
  BY <1>16, <1>19, KeptTold
<1> QED BY <1>2, <1>15, <1>18, <1>20 DEF h, w, n

LEMMA CloseReceived ==
  ASSUME NEW s \in PeerType, NEW f \in [Remote -> Seq(Messages(FromKinds))], NEW g, PeerOK(s, f, g),
         \A q \in Remote : Told(s, q), s.agenda = <<>>,
         NEW r \in Remote, f[r] # <<>>, Head(f[r]).kind = "CLOSE"
  PROVE  LET u == DataArrived(s, r, Head(f[r]))
         IN  PeerOK(u, Popped(f, r), g) /\ \A q \in Remote : Told(u, q)
<1> DEFINE h == Popped(f, r)
           w == f[r]
           t == [s.thread[r] EXCEPT !.conn = "ABORTING"]
           a == [s EXCEPT !.thread = [s.thread EXCEPT ![r] = t]]
           m == g[r]
<1>1. h[r] = Tail(w) /\ \A q \in Remote \ {r} : h[q] = f[q]
  BY PoppedIs
<1>2. DataArrived(s, r, Head(w)) = a
  <2>1. s.thread \in [Remote -> ThreadType] /\ s.thread[r] \in ThreadType
    BY DEF PeerType
  <2>2. DataArrived(s, r, Head(w)) = [s EXCEPT !.thread[r].conn = "ABORTING"]
    BY DEF DataArrived
  <2>3. [s EXCEPT !.thread[r].conn = "ABORTING"] = a
    BY <2>1 DEF PeerType
  <2> QED BY <2>2, <2>3
<1>3. Wire(s, w, m, r) /\ w \in Seq(Messages(FromKinds)) /\ w # <<>>
  BY DEF PeerOK
<1> HIDE DEF h, w, m
<1>4. Head(w).kind = "CLOSE"
  BY DEF w
<1>5. /\ Orderly(Tail(w)) /\ Phase(s.thread[r], Requesting(s, r), w, m)
      /\ s.thread[r].conn \notin {"NONE", "ABORTING", "GONE"}
      /\ Tail(w) = <<>>
      /\ At(w, "CLOSE") # {}
      /\ At(w, "CHOKE") # {} <=> At(Tail(w), "CHOKE") # {}
  BY <1>3, <1>4, PoppedWire
<1>6. \A k : At(Tail(w), k) = {}
  BY <1>5 DEF At
<1>7. m.closed /\ m.amChoking /\ s.thread[r].peerChoking
  BY <1>5, <1>6 DEF Phase
<1>8. /\ t \in ThreadType /\ t.conn = "ABORTING" /\ t.peerChoking = s.thread[r].peerChoking
      /\ t.requests = s.thread[r].requests
      /\ t.amInterested = s.thread[r].amInterested /\ t.remoteBitfield = s.thread[r].remoteBitfield
  <2>1. s.thread[r] \in ThreadType
    BY DEF PeerType
  <2> QED BY <2>1 DEF ThreadType
<1>9. SetThread(s, a, r, t)
  BY DEF SetThread
<1> HIDE DEF a, t
<1>10. /\ a \in PeerType
       /\ a.thread[r] = t
       /\ \A q \in Remote \ {r} : a.thread[q] = s.thread[q]
       /\ a.localBitfield = s.localBitfield /\ a.state = s.state
       /\ a.enableEndGameMode = s.enableEndGameMode /\ a.agenda = s.agenda
       /\ a.toRemote = s.toRemote
       /\ \A q : AgendaKept(s, a, q) /\ (News(s, q) => News(a, q))
       /\ Removals(a) \subseteq Removals(s)
  BY <1>8, <1>9, ThreadSet
<1>11. Books(s) /\ Threads(s) /\ \A q \in Remote : Wire(s, f[q], g[q], q)
  BY DEF PeerOK
<1>12. Books(a)
  <2>1. \A q \in Remote : a.thread[q].requests = s.thread[q].requests
    BY <1>8, <1>10
  <2> QED BY <2>1, <1>10, <1>11, BooksSame
<1>13. Threads(a)
  BY <1>7, <1>8, <1>10, <1>11 DEF Threads
<1>14. Wire(a, Tail(w), m, r)
  <2>1. Requesting(a, r) = Requesting(s, r)
    BY <1>10 DEF Requesting
  <2>2. Phase(a.thread[r], Requesting(a, r), Tail(w), m)
    BY <2>1, <1>5, <1>6, <1>7, <1>8, <1>10 DEF Phase
  <2>3. BlocksAsked(a, r) = {}
    BY <1>10, NoAgenda
  <2>4. Underway(a, Tail(w), r)
    BY <2>3, <1>7, <1>8, <1>10 DEF Underway
  <2> QED BY <2>2, <2>4, <1>5 DEF Wire
<1>15. ASSUME NEW q \in Remote \ {r} PROVE Wire(a, f[q], g[q], q)
  <2>1. Untouched(s, a, q)
    BY <1>10 DEF Untouched
  <2> QED BY <2>1, <1>11, UntouchedWire
<1>16. PeerOK(a, h, g)
  <2>1. \A q \in Remote : Wire(a, h[q], g[q], q)
    BY <1>1, <1>14, <1>15 DEF m
  <2> QED BY <2>1, <1>10, <1>12, <1>13 DEF PeerOK
<1>17. \A q \in Remote : Told(a, q)
  <2>1. Kept(s, a)
    BY <1>8, <1>10 DEF Kept, Completed
  <2> QED BY <2>1, KeptTold
<1> QED BY <1>2, <1>16, <1>17 DEF h, w

\* A thread whose connection is closed gives its requests up, and is to be removed.
LEMMA ThreadClosed ==
  ASSUME NEW s \in PeerType, NEW f, NEW g, PeerOK(s, f, g), \A q \in Remote : Told(s, q),
         NEW r \in Remote, s.thread[r].conn = "ABORTING"
  PROVE  LET u == ConnectionClosed(s, r)
         IN  PeerOK(u, f, g) /\ \A q \in Remote : Told(u, q)
<1> DEFINE a == ClearPendingRequests(s, r)
           m == Msg("REMOVE_THREAD")
           u == Schedule(a, r, m)
<1>1. ConnectionClosed(s, r) = u
  BY DEF ConnectionClosed
<1>2. Books(s) /\ Threads(s) /\ \A q \in Remote : Wire(s, f[q], g[q], q)
  BY DEF PeerOK
<1>3. a \in PeerType /\ Books(a) /\ Cleared(s, a, r)
  BY <1>2, ClearedBooks
<1> HIDE DEF a
<1>4. m \in Messages(SelfKinds) /\ m.kind = "REMOVE_THREAD"
  BY MsgTypes DEF SelfKinds
<1> HIDE DEF m
<1>5. u \in PeerType /\ u.agenda = Append(a.agenda, SelfMsg(r, m))
  BY <1>3, <1>4, Scheduled
<1>6. /\ u.localBitfield = a.localBitfield /\ u.state = a.state
      /\ u.enableEndGameMode = a.enableEndGameMode /\ u.thread = a.thread /\ u.toRemote = a.toRemote
  BY <1>3 DEF Schedule, PeerType
<1> HIDE DEF u
<1>7. a.agenda \in Seq(SelfMsgs)
  BY <1>3 DEF PeerType
<1>8. /\ Removals(u) \subseteq Removals(a) \cup {r}
      /\ \A q : News(a, q) => News(u, q)
      /\ \A q : q # r \/ m.kind # "REQUEST" => AgendaKept(a, u, q)
  BY <1>5, <1>7, AgendaAppend
<1>9. /\ Removals(u) \subseteq Removals(s) \cup {r}
      /\ \A q \in Remote : (News(s, q) => News(u, q)) /\ AgendaKept(s, u, q)
  BY <1>3, <1>4, <1>8 DEF Cleared, AgendaKept
<1>10. s.thread[r].peerChoking /\ s.thread[r].requests = <<>>
  BY <1>2 DEF Threads
<1>11. \A q \in Remote : u.thread[q] = s.thread[q]
  <2>1. s.thread[r] \in ThreadType
    BY DEF PeerType
  <2>2. [s.thread[r] EXCEPT !.requests = <<>>] = s.thread[r]
    BY <2>1, <1>10 DEF ThreadType
  <2> QED BY <2>2, <1>3, <1>6 DEF Cleared
<1>12. Books(u)
  BY <1>3, <1>6, BooksSame
<1>13. Threads(u)
  BY <1>2, <1>3, <1>6, <1>9, <1>11 DEF Threads, Cleared
<1>14. ASSUME NEW q \in Remote PROVE Wire(u, f[q], g[q], q)
  <2>1. Untouched(s, u, q)
    BY <1>3, <1>6, <1>9, <1>11 DEF Untouched, Cleared
  <2> QED BY <2>1, <1>2, UntouchedWire
<1>15. PeerOK(u, f, g)
  BY <1>5, <1>12, <1>13, <1>14 DEF PeerOK
<1>16. \A q \in Remote : Told(u, q)
  <2>1. Kept(s, u)
    BY <1>3, <1>6, <1>9, <1>11 DEF Kept, Completed, Cleared
  <2> QED BY <2>1, KeptTold
<1> QED BY <1>1, <1>15, <1>16

-----------------------------------------------------------------------------
(* Self-messages *)

\* A step that leaves the books and the wires right, and all remote peers told.
Fine(u, f, g) == u \in PeerType /\ PeerOK(u, f, g) /\ \A q \in Remote : Told(u, q)

LEMMA FineKept ==
  ASSUME NEW s, NEW u \in PeerType, NEW f, NEW g, Fine(s, f, g), PeerOK(u, f, g), Kept(s, u)
  PROVE  Fine(u, f, g)
<1>1. \A q \in Remote : Told(u, q)
  BY KeptTold DEF Fine
<1> QED BY <1>1 DEF Fine

LEMMA InterestSent ==
  ASSUME NEW s \in PeerType, NEW r \in Remote
  PROVE  /\ SendInterested(s, r) \in PeerType /\ Alike(s, SendInterested(s, r))
         /\ Kept(s, SendInterested(s, r)) /\ SendInterested(s, r).thread[r].amInterested
<1> DEFINE a == SendMessage(s, r, StateMsg("INTERESTED"))
           t == [a.thread[r] EXCEPT !.amInterested = TRUE]
           b == [a EXCEPT !.thread[r].amInterested = TRUE]
           u == Schedule(b, r, Msg("NEXT_REQUEST"))
<1>1. SendInterested(s, r) = IF s.thread[r].peerChoking THEN b ELSE u
  BY DEF SendInterested
<1>2. a \in PeerType /\ Alike(s, a) /\ Kept(s, a)
  <2> DEFINE m == StateMsg("INTERESTED")
  <2>1. m \in Messages(ToKinds) /\ m.kind = "INTERESTED"
    BY MsgTypes DEF ToKinds, StateMsg
  <2> HIDE DEF m
  <2>2. /\ SendMessage(s, r, m) \in PeerType
        /\ Kept(s, SendMessage(s, r, m))
        /\ m.kind # "REQUEST" => Alike(s, SendMessage(s, r, m))
    BY <2>1, Sent
  <2> QED BY <2>1, <2>2 DEF m
<1> HIDE DEF a
<1>3. /\ t \in ThreadType /\ t.conn = a.thread[r].conn /\ t.peerChoking = a.thread[r].peerChoking
      /\ t.requests = a.thread[r].requests /\ t.announced = a.thread[r].announced
      /\ t.amInterested = TRUE /\ t.remoteBitfield = a.thread[r].remoteBitfield
  <2>1. a.thread[r] \in ThreadType
    BY <1>2 DEF PeerType
  <2> QED BY <2>1 DEF ThreadType
<1>4. SetThread(a, b, r, t)
  BY <1>2 DEF SetThread, PeerType
<1> HIDE DEF b, t
<1>5. b \in PeerType /\ Alike(a, b) /\ Kept(a, b)
  BY <1>2, <1>3, <1>4, ThreadSetAlike
<1>6. b.thread[r] = t
  BY <1>2, <1>3, <1>4, ThreadSet
<1>7. Alike(s, b) /\ Kept(s, b) /\ b.thread[r].amInterested
  BY <1>2, <1>3, <1>5, <1>6, AlikeComposed, KeptComposed
<1>8. u \in PeerType /\ Alike(b, u) /\ Kept(b, u)
  <2> DEFINE m == Msg("NEXT_REQUEST")
  <2>1. m \in Messages(SelfKinds) /\ m.kind = "NEXT_REQUEST"
    BY MsgTypes DEF SelfKinds
  <2> HIDE DEF m
  <2>2. /\ Schedule(b, r, m) \in PeerType
        /\ Alike(b, Schedule(b, r, m)) /\ Kept(b, Schedule(b, r, m))
    BY <2>1, <1>5, ScheduledAlike
  <2> QED BY <2>2 DEF m
<1> HIDE DEF u
<1>9. Alike(s, u) /\ Kept(s, u) /\ u.thread[r].amInterested
  <2>1. Alike(s, u) /\ Kept(s, u)
    BY <1>7, <1>8, AlikeComposed, KeptComposed
  <2>2. u.thread[r].amInterested
    BY <1>7, <1>8 DEF Kept
  <2> QED BY <2>1, <2>2
<1> QED BY <1>1, <1>5, <1>7, <1>8, <1>9

LEMMA NoInterestSent ==
  ASSUME NEW s \in PeerType, NEW f, NEW g, PeerOK(s, f, g), NEW r \in Remote,
         \A q \in Remote \ {r} : Told(s, q), ~AmInterested(s, r) \/ Completed(s)
  PROVE  Fine(SendNotInterested(s, r), f, g)
<1> DEFINE a == SendMessage(s, r, StateMsg("NOT_INTERESTED"))
           t == [a.thread[r] EXCEPT !.amInterested = FALSE]
           b == [a EXCEPT !.thread[r].amInterested = FALSE]
<1>1. SendNotInterested(s, r) = b
  BY DEF SendNotInterested
<1>2. a \in PeerType /\ Alike(s, a) /\ Kept(s, a) /\ a.localBitfield = s.localBitfield /\ a.state = s.state
      /\ a.thread = s.thread
  <2> DEFINE m == StateMsg("NOT_INTERESTED")
  <2>1. m \in Messages(ToKinds) /\ m.kind = "NOT_INTERESTED"
    BY MsgTypes DEF ToKinds, StateMsg
  <2> HIDE DEF m
  <2>2. /\ SendMessage(s, r, m) \in PeerType
        /\ Kept(s, SendMessage(s, r, m))
        /\ m.kind # "REQUEST" => Alike(s, SendMessage(s, r, m))
        /\ SendMessage(s, r, m).localBitfield = s.localBitfield
        /\ SendMessage(s, r, m).state = s.state
        /\ SendMessage(s, r, m).thread = s.thread
    BY <2>1, Sent
  <2> QED BY <2>1, <2>2 DEF m
<1> HIDE DEF a
<1>3. /\ t \in ThreadType /\ t.conn = a.thread[r].conn /\ t.peerChoking = a.thread[r].peerChoking
      /\ t.requests = a.thread[r].requests /\ t.announced = a.thread[r].announced
      /\ t.remoteBitfield = a.thread[r].remoteBitfield
  <2>1. a.thread[r] \in ThreadType
    BY <1>2 DEF PeerType
  <2> QED BY <2>1 DEF ThreadType
<1>4. SetThread(a, b, r, t)
  BY <1>2 DEF SetThread, PeerType
<1> HIDE DEF b, t
<1>5. b \in PeerType /\ Alike(a, b)
  BY <1>2, <1>3, <1>4, ThreadSetAlike
<1>6. /\ b.thread[r] = t /\ \A q \in Remote \ {r} : b.thread[q] = a.thread[q]
      /\ b.localBitfield = a.localBitfield /\ b.state = a.state
      /\ \A q : News(a, q) => News(b, q)
  BY <1>2, <1>3, <1>4, ThreadSet
<1>7. PeerOK(b, f, g)
  <2>1. Alike(s, b)
    BY <1>2, <1>5, AlikeComposed
  <2> QED BY <2>1, <1>5, AlikeOK
<1>8. ASSUME NEW q \in Remote PROVE Told(b, q)
  <2>1. CASE q = r
    <3>1. ~AmInterested(b, r) \/ Completed(b)
      BY <1>2, <1>3, <1>6 DEF AmInterested, Completed
    <3> QED BY <3>1, <2>1 DEF Told
  <2>2. CASE q # r
    <3>1. Told(s, q)
      BY <2>2
    <3>2. Told(a, q)
      BY <3>1, <1>2, KeptTold
    <3> QED BY <3>2, <2>2, <1>6 DEF Told, AmInterested, Completed
  <2> QED BY <2>1, <2>2
<1> QED BY <1>1, <1>5, <1>7, <1>8 DEF Fine

\* The counts of pieces do not matter.
LEMMA FreqSet ==
  ASSUME NEW s \in PeerType, NEW c \in [Piece -> Nat]
  PROVE  /\ [s EXCEPT !.pieceFreq = c] \in PeerType
         /\ Alike(s, [s EXCEPT !.pieceFreq = c]) /\ Kept(s, [s EXCEPT !.pieceFreq = c])
         /\ [s EXCEPT !.pieceFreq = c].thread = s.thread
<1> DEFINE u == [s EXCEPT !.pieceFreq = c]
<1>1. /\ u \in PeerType
      /\ u.localBitfield = s.localBitfield /\ u.state = s.state
      /\ u.enableEndGameMode = s.enableEndGameMode /\ u.thread = s.thread /\ u.toRemote = s.toRemote
      /\ u.agenda = s.agenda
  BY DEF PeerType
<1> HIDE DEF u
<1>2. /\ \A q : AgendaKept(s, u, q) /\ (News(s, q) => News(u, q))
      /\ Removals(u) \subseteq Removals(s)
  BY <1>1 DEF AgendaKept, News, BlocksAsked, OnceAsked, Asked, Removals
<1>3. Alike(s, u)
  BY <1>1, <1>2 DEF Alike
<1>4. Kept(s, u)
  BY <1>1, <1>2 DEF Kept, Completed
<1> QED BY <1>1, <1>3, <1>4 DEF u

LEMMA InterestShown ==
  ASSUME NEW s \in PeerType, NEW f, NEW g, PeerOK(s, f, g), NEW r \in Remote,
         \A q \in Remote \ {r} : Told(s, q)
  PROVE  /\ Fine(ShowInterest(s, r), f, g)
         /\ Fine(IF ~s.thread[r].amInterested /\ AmInterested(s, r) THEN SendInterested(s, r) ELSE s, f, g)
<1> DEFINE a == SendInterested(s, r)
           b == SendNotInterested(s, r)
<1>1. a \in PeerType /\ Alike(s, a) /\ Kept(s, a) /\ a.thread[r].amInterested
  BY InterestSent
<1>2. ~AmInterested(s, r) \/ Completed(s) => Fine(b, f, g)
  BY NoInterestSent
<1> HIDE DEF a, b
<1>3. Fine(a, f, g)
  <2>1. PeerOK(a, f, g)
    BY <1>1, AlikeOK
  <2>2. ASSUME NEW q \in Remote PROVE Told(a, q)
    <3>1. CASE q = r
      BY <3>1, <1>1 DEF Told
    <3>2. CASE q # r
      BY <3>2, <1>1, KeptTold
    <3> QED BY <3>1, <3>2
  <2> QED BY <2>1, <2>2, <1>1 DEF Fine
<1>4. s.thread[r].amInterested \/ ~AmInterested(s, r) \/ Completed(s) => Fine(s, f, g)
  <2> SUFFICES ASSUME s.thread[r].amInterested \/ ~AmInterested(s, r) \/ Completed(s)
               PROVE  \A q \in Remote : Told(s, q)
    BY DEF Fine
  <2>1. Told(s, r)
    BY DEF Told
  <2> QED BY <2>1
<1>5. Fine(ShowInterest(s, r), f, g)
  <2>1. ShowInterest(s, r) = IF ~Completed(s) /\ AmInterested(s, r)
                             THEN IF s.thread[r].amInterested THEN s ELSE a
                             ELSE IF s.thread[r].amInterested THEN b ELSE s
    BY DEF ShowInterest, a, b
  <2> QED BY <2>1, <1>2, <1>3, <1>4
<1>6. Fine(IF ~s.thread[r].amInterested /\ AmInterested(s, r) THEN SendInterested(s, r) ELSE s, f, g)
  <2>1. s.thread[r].amInterested \in BOOLEAN
    BY DEF PeerType, ThreadType
  <2> QED BY <2>1, <1>3, <1>4 DEF a
<1> QED BY <1>5, <1>6

\* A candidate belongs to no thread.
LEMMA CandidateFree ==
  ASSUME NEW s \in PeerType, Books(s), s.state = "NORMAL", NEW r \in Remote, NEW p \in Candidates(s, r)
  PROVE  p \in Piece /\ Owner(s, r, p)
<1>1. p \in Piece
  BY DEF Candidates, PeerType, ThreadType
<1>2. ~IsPieceRequested(s.localBitfield, p)
  BY DEF Candidates
<1>3. /\ Marks(s.localBitfield, PendingOf(s)) /\ s.localBitfield.currentlyRequested[p] \in Nat
  BY <1>1 DEF Books, PeerType, BitFieldType
<1>4. Cardinality(PendingOf(s) \cap BlocksOf(p)) = 0
  BY <1>1, <1>2, <1>3 DEF IsPieceRequested, Marks
<1>5. PendingOf(s) \cap BlocksOf(p) = {}
  <2>1. IsFiniteSet(PendingOf(s) \cap BlocksOf(p))
    <3>1. BlocksOf(p) \subseteq Entry
      BY <1>1 DEF BlocksOf, Entry
    <3> QED BY <3>1, Sizes, FS_Subset
  <2> QED BY <2>1, <1>4, FS_EmptySet
<1>6. ASSUME NEW q \in Remote \ {r}, NEW e \in Req(s, q), e[1] = p PROVE FALSE
  <2>1. e \in PendingOf(s)
    BY DEF PendingOf
  <2>2. e \in Entry
    <3>1. s.thread[q].requests \in Seq(Entry)
      BY DEF PeerType, ThreadType
    <3> QED BY <3>1 DEF Req, ToSet
  <2>3. e \in BlocksOf(p)
    BY <2>2, <1>6 DEF Entry, BlocksOf
  <2> QED BY <2>1, <2>3, <1>5
<1> QED BY <1>1, <1>6 DEF Owner

LEMMA MoveMade ==
  ASSUME NEW s \in PeerType, NEW f, NEW g, Fine(s, f, g), NEW r \in Remote, s.state # "SEEDING",
         NEW u \in NextMove(s, r)
  PROVE  Fine(u, f, g)
<1>1. s.state \in {"NORMAL", "ENDGAME"} /\ PeerOK(s, f, g) /\ Books(s)
  BY DEF PeerType, Fine, PeerOK
<1>2. CASE s.state = "ENDGAME"
  <2>1. u = ScheduleEndGameRequests(s)
    BY <1>2 DEF NextMove
  <2>2. u \in PeerType /\ EndGame(s, u)
    BY <2>1, EndGameScheduled
  <2>3. PeerOK(u, f, g) /\ Kept(s, u)
    BY <2>2, <1>1, <1>2, EndGameOK
  <2> QED BY <2>2, <2>3, FineKept
<1>3. CASE s.state = "NORMAL"
  <2> DEFINE t == [s.thread[r] EXCEPT !.allowedToRequest = FALSE]
             a == [s EXCEPT !.thread[r].allowedToRequest = FALSE]
  <2>1. u \in MakeNextPeerMove(s, r)
    BY <1>3 DEF NextMove
  <2>2. \/ u = s
        \/ ~s.thread[r].peerChoking /\ \E p \in SelectPiece(s, r) : u = SendBlockRequests(s, r, p)
        \/ u = a
        \/ ~AmInterested(s, r) /\ u = SendNotInterested(s, r)
    BY <2>1 DEF MakeNextPeerMove
  <2>3. CASE ~s.thread[r].peerChoking /\ \E p \in SelectPiece(s, r) : u = SendBlockRequests(s, r, p)
    <3>1. PICK p \in SelectPiece(s, r) : u = SendBlockRequests(s, r, p)
      BY <2>3
    <3>2. p \in Candidates(s, r)
      BY DEF SelectPiece
    <3>3. p \in Piece /\ Owner(s, r, p)
      BY <3>2, <1>1, <1>3, CandidateFree
    <3>4. SendBlockRequests(s, r, p) \in Requests(s, f, g, r, p)
      BY <3>3, <2>3, <1>1, BlocksRequested
    <3>5. u \in PeerType /\ PeerOK(u, f, g) /\ Kept(s, u)
      BY <3>1, <3>4 DEF Requests
    <3> QED BY <3>5, FineKept
  <2>4. CASE u = a
    <3>1. /\ t \in ThreadType /\ t.conn = s.thread[r].conn /\ t.peerChoking = s.thread[r].peerChoking
          /\ t.requests = s.thread[r].requests /\ t.announced = s.thread[r].announced
          /\ t.amInterested = s.thread[r].amInterested /\ t.remoteBitfield = s.thread[r].remoteBitfield
      <4>1. s.thread[r] \in ThreadType
        BY DEF PeerType
      <4> QED BY <4>1 DEF ThreadType
    <3>2. SetThread(s, a, r, t)
      BY DEF SetThread, PeerType
    <3> HIDE DEF a, t
    <3>3. a \in PeerType /\ Alike(s, a) /\ Kept(s, a)
      BY <3>1, <3>2, ThreadSetAlike
    <3>4. PeerOK(a, f, g)
      BY <3>3, <1>1, AlikeOK
    <3> QED BY <3>3, <3>4, <2>4, FineKept
  <2>5. CASE ~AmInterested(s, r) /\ u = SendNotInterested(s, r)
    <3>1. \A q \in Remote \ {r} : Told(s, q)
      BY DEF Fine
    <3> QED BY <3>1, <2>5, <1>1, NoInterestSent
  <2> QED BY <2>2, <2>3, <2>4, <2>5
<1> QED BY <1>1, <1>2, <1>3

\* The peer when the first message is off its agenda.
Resumed(s) == [s EXCEPT !.agenda = Tail(@)]

LEMMA ResumedIs ==
  ASSUME NEW s \in PeerType, NEW f, NEW g, Fine(s, f, g), s.agenda # <<>>
  PROVE  LET t == Resumed(s)
             h == Head(s.agenda)
         IN  /\ t \in PeerType /\ PeerOK(t, f, g)
             /\ h \in SelfMsgs
             /\ t.thread = s.thread /\ t.toRemote = s.toRemote /\ t.state = s.state
             /\ t.localBitfield = s.localBitfield
             /\ \A q \in Remote : q # h.remote \/ h.msg.kind \notin {"BITFIELD", "HAVE"} => Told(t, q)
             /\ h.msg.kind = "REMOVE_THREAD" => h.remote \in Removals(s)
             /\ \A q : AgendaKept(s, t, q)
             /\ h.msg.kind = "REQUEST" =>
                  /\ BlockOf(h.msg) \in BlocksAsked(s, h.remote)
                  /\ OnceAsked(s, h.remote) => BlockOf(h.msg) \notin BlocksAsked(t, h.remote)
<1> DEFINE t == Resumed(s)
           h == Head(s.agenda)
<1>1. s.agenda \in Seq(SelfMsgs)
  BY DEF PeerType
<1>2. Tail(s.agenda) \in Seq(SelfMsgs)
  BY <1>1
<1>3. /\ t \in PeerType /\ t.agenda = Tail(s.agenda)
      /\ t.thread = s.thread /\ t.toRemote = s.toRemote /\ t.state = s.state
      /\ t.localBitfield = s.localBitfield /\ t.enableEndGameMode = s.enableEndGameMode
  BY <1>2 DEF PeerType, Resumed
<1> HIDE DEF t
<1>4. /\ Removals(t) \subseteq Removals(s)
      /\ h \in SelfMsgs
      /\ h.msg.kind = "REMOVE_THREAD" => h.remote \in Removals(s)
      /\ \A q : News(s, q) /\ (q # h.remote \/ h.msg.kind \notin {"BITFIELD", "HAVE"}) => News(t, q)
      /\ \A q : AgendaKept(s, t, q)
      /\ h.msg.kind = "REQUEST" =>
           /\ BlockOf(h.msg) \in BlocksAsked(s, h.remote)
           /\ OnceAsked(s, h.remote) => BlockOf(h.msg) \notin BlocksAsked(t, h.remote)
  BY <1>1, <1>3, AgendaTail
<1> HIDE DEF h
<1>5. Alike(s, t)
  BY <1>3, <1>4 DEF Alike
<1>6. PeerOK(t, f, g)
  BY <1>3, <1>5, AlikeOK DEF Fine
<1>7. ASSUME NEW q \in Remote, q # h.remote \/ h.msg.kind \notin {"BITFIELD", "HAVE"} PROVE Told(t, q)
  <2>1. Told(s, q)
    BY DEF Fine
  <2> QED BY <2>1, <1>3, <1>4, <1>7 DEF Told, AmInterested, Completed
<1> QED BY <1>3, <1>4, <1>6, <1>7 DEF t, h

\* A request goes from the agenda to the wire.
LEMMA RequestSent ==
  ASSUME NEW s \in PeerType, NEW f, NEW g, Fine(s, f, g), s.agenda # <<>>,
         Head(s.agenda).msg.kind = "REQUEST",
         NEW u \in HandleSelf(Resumed(s), Head(s.agenda).remote, Head(s.agenda).msg)
  PROVE  Fine(u, f, g)
<1> DEFINE t == Resumed(s)
           h == Head(s.agenda)
           r == h.remote
           m == h.msg
           e == BlockOf(m)
           v == SendMessage(t, r, m)
<1>1. /\ t \in PeerType /\ PeerOK(t, f, g)
      /\ h \in SelfMsgs
      /\ t.thread = s.thread /\ t.toRemote = s.toRemote /\ t.state = s.state
      /\ t.localBitfield = s.localBitfield
      /\ \A q \in Remote : q # h.remote \/ h.msg.kind \notin {"BITFIELD", "HAVE"} => Told(t, q)
      /\ \A q : AgendaKept(s, t, q)
      /\ h.msg.kind = "REQUEST" =>
           /\ BlockOf(h.msg) \in BlocksAsked(s, h.remote)
           /\ OnceAsked(s, h.remote) => BlockOf(h.msg) \notin BlocksAsked(t, h.remote)
  BY ResumedIs
<1>2. h.msg.kind = "REQUEST"
  OBVIOUS
<1> HIDE DEF t, h
<1>3. u = IF t.thread[r].peerChoking THEN t ELSE v
  <2>1. u \in HandleSelf(t, r, m)
    BY DEF t, h
  <2> HIDE DEF t, r, m, v
  <2>2. m.kind = "REQUEST"
    BY <1>2 DEF m
  <2>3. u \in {IF t.thread[r].peerChoking THEN t ELSE SendMessage(t, r, m)}
    BY <2>1, <2>2 DEF HandleSelf
  <2> QED BY <2>3 DEF v
<1>4. Fine(t, f, g)
  BY <1>1, <1>2 DEF Fine
<1>5. r \in Remote /\ m \in Messages(ToKinds)
  BY <1>1, <1>2 DEF SelfMsgs, Messages, ToKinds
<1>6. e \in BlocksAsked(s, r) /\ (OnceAsked(s, r) => e \notin BlocksAsked(t, r)) /\ m.kind = "REQUEST"
  BY <1>1, <1>2
<1>7. Wire(s, f[r], g[r], r) /\ Threads(s)
  BY <1>5 DEF Fine, PeerOK
<1> HIDE DEF r, m, e
<1>8. ASSUME ~t.thread[r].peerChoking
      PROVE  Fine(v, f, g)
  <2>1. ~s.thread[r].peerChoking /\ s.thread[r].conn = "OPEN"
    BY <1>1, <1>5, <1>7, <1>8 DEF Threads
  <2>2. v \in PeerType /\ Kept(t, v) /\ v.thread = t.thread /\ v.localBitfield = t.localBitfield
        /\ v.agenda = t.agenda /\ v.state = t.state
    BY <1>1, <1>5, Sent
  <2>3. t.toRemote \in [Remote -> Seq(Messages(ToKinds))] /\ t.toRemote[r] \in Seq(Messages(ToKinds))
    BY <1>1, <1>5 DEF PeerType
  <2>4. /\ v.toRemote[r] = Append(t.toRemote[r], m) /\ v.enableEndGameMode = t.enableEndGameMode
        /\ \A q \in Remote \ {r} : v.toRemote[q] = t.toRemote[q]
    <3>1. v = [t EXCEPT !.toRemote[r] = Append(@, m)]
      BY <1>1, <2>1 DEF SendMessage, Established
    <3> QED BY <3>1, <2>3, <1>1, <1>5 DEF PeerType
  <2> HIDE DEF v
  <2>5. Books(v)
    <3>1. Books(t)
      BY <1>1 DEF PeerOK
    <3> QED BY <3>1, <2>2, <2>4, BooksSame
  <2>6. \A q : AgendaKept(t, v, q)
    BY <2>2 DEF AgendaKept, BlocksAsked, OnceAsked, Asked
  <2>7. Threads(v)
    <3>1. Threads(t) /\ Removals(v) = Removals(t)
      BY <1>1, <2>2 DEF PeerOK, Removals
    <3> QED BY <3>1, <2>2 DEF Threads
  <2>8. ASSUME NEW q \in Remote, q # r PROVE Wire(v, f[q], g[q], q)
    <3>1. Untouched(t, v, q)
      BY <2>2, <2>4, <2>6, <2>8 DEF Untouched
    <3>2. Wire(t, f[q], g[q], q)
      BY <1>1 DEF PeerOK
    <3> QED BY <3>1, <3>2, <1>1, UntouchedWire
  <2>9. Wire(v, f[r], g[r], r)
    <3> DEFINE A == BlocksAsked(s, r)
               R == BlocksIn(s.toRemote[r], "REQUEST")
               P == BlocksIn(f[r], "PIECE")
               B == BlocksAsked(v, r)
    <3>1. Phase(v.thread[r], Requesting(v, r), f[r], g[r]) /\ Orderly(f[r])
      <4>1. Phase(s.thread[r], Requesting(s, r), f[r], g[r]) /\ Orderly(f[r])
        BY <1>7 DEF Wire
      <4>2. v.thread[r] = s.thread[r]
        BY <2>2, <1>1
      <4> QED BY <4>1, <4>2, <2>1 DEF Phase
    <3>2. Underway(s, f[r], r)
      BY <1>7 DEF Wire
    <3>3. /\ B \subseteq A /\ (OnceAsked(s, r) => OnceAsked(v, r)) /\ e \in A
          /\ (OnceAsked(s, r) => e \notin B)
      <4>1. BlocksAsked(v, r) = BlocksAsked(t, r)
        BY <2>2 DEF BlocksAsked, Asked
      <4> QED BY <4>1, <1>1, <1>6, <2>6 DEF AgendaKept
    <3>4. BlocksIn(v.toRemote[r], "REQUEST") = R \cup {e}
          /\ (OnceIn(s.toRemote[r], "REQUEST") /\ e \notin R => OnceIn(v.toRemote[r], "REQUEST"))
      <4> DEFINE q == t.toRemote[r]
      <4>1. q \in Seq(Messages(ToKinds)) /\ q = s.toRemote[r] /\ v.toRemote[r] = Append(q, m)
        BY <2>3, <2>4, <1>1
      <4> HIDE DEF q
      <4>2. /\ BlocksIn(Append(q, m), "REQUEST") = BlocksIn(q, "REQUEST")
                  \cup {BlockOf(x) : x \in {y \in {m} : y.kind = "REQUEST"}}
            /\ OnceIn(q, "REQUEST") /\ (m.kind = "REQUEST" => BlockOf(m) \notin BlocksIn(q, "REQUEST"))
                 => OnceIn(Append(q, m), "REQUEST")
        BY <4>1, WireAppend
      <4>3. {BlockOf(x) : x \in {y \in {m} : y.kind = "REQUEST"}} = {e} /\ BlockOf(m) = e
        BY <1>6 DEF e
      <4> QED BY <4>1, <4>2, <4>3
    <3>5. /\ v.thread[r] = s.thread[r] /\ v.state = s.state /\ v.localBitfield = s.localBitfield
          /\ Req(v, r) = Req(s, r)
      BY <2>2, <1>1 DEF Req
    <3>6. s.state = "NORMAL" =>
             /\ A \cup R \cup P \subseteq Req(s, r)
             /\ A \cap R = {} /\ A \cap P = {} /\ R \cap P = {}
             /\ OnceAsked(s, r) /\ OnceIn(s.toRemote[r], "REQUEST") /\ OnceIn(f[r], "PIECE")
      BY <3>2, <2>1 DEF Underway
    <3>7. s.state = "ENDGAME" => A \cup R \cup P \subseteq Req(s, r) \cup s.localBitfield.blockfield
      BY <3>2, <2>1 DEF Underway
    <3> DEFINE R2 == BlocksIn(v.toRemote[r], "REQUEST")
    <3>8. v.state = "NORMAL" =>
             /\ B \cup R2 \cup P \subseteq Req(v, r)
             /\ B \cap R2 = {} /\ B \cap P = {} /\ R2 \cap P = {}
             /\ OnceAsked(v, r) /\ OnceIn(v.toRemote[r], "REQUEST") /\ OnceIn(f[r], "PIECE")
      <4> HIDE DEF A, B, R, P
      <4> QED BY <3>3, <3>4, <3>5, <3>6
    <3>9. v.state = "ENDGAME" => B \cup R2 \cup P \subseteq Req(v, r) \cup v.localBitfield.blockfield
      <4> HIDE DEF A, B, R, P
      <4> QED BY <3>3, <3>4, <3>5, <3>7
    <3>10. Underway(v, f[r], r)
      BY <3>5, <3>8, <3>9, <2>1 DEF Underway
    <3> QED BY <3>1, <3>10 DEF Wire
  <2>10. PeerOK(v, f, g)
    BY <2>2, <2>5, <2>7, <2>8, <2>9 DEF PeerOK
  <2> QED BY <2>2, <2>10, <1>4, FineKept
<1> QED BY <1>3, <1>4, <1>8

LEMMA InterestsUpdated ==
  ASSUME NEW s \in PeerType, NEW f, NEW g, Fine(s, f, g)
  PROVE  Fine(UpdateInterests(s), f, g)
<1> DEFINE c == [i \in DOMAIN s.peerState |-> SelfMsg(s.peerState[i], Msg("INTEREST"))]
           u == [s EXCEPT !.agenda = c \o s.agenda]
<1>1. UpdateInterests(s) = u
  BY DEF UpdateInterests
<1>2. s.peerState \in Seq(Remote) /\ s.agenda \in Seq(SelfMsgs)
  BY DEF PeerType
<1>3. Msg("INTEREST") \in Messages(SelfKinds) /\ Msg("INTEREST").kind = "INTEREST"
  BY MsgTypes DEF SelfKinds
<1>4. \A r \in Remote : SelfMsg(r, Msg("INTEREST")) \in SelfMsgs
                        /\ SelfMsg(r, Msg("INTEREST")).msg.kind = "INTEREST"
  BY <1>3 DEF SelfMsg, SelfMsgs
<1>5. DOMAIN s.peerState = 1 .. Len(s.peerState) /\ Len(s.peerState) \in Nat
      /\ \A i \in DOMAIN s.peerState : s.peerState[i] \in Remote
  BY <1>2
<1>6. c \in Seq(SelfMsgs) /\ \A i \in DOMAIN c : c[i].msg.kind = "INTEREST"
  BY <1>4, <1>5
<1>7. c \o s.agenda \in Seq(SelfMsgs)
  BY <1>2, <1>6
<1> HIDE DEF c
<1>8. /\ u \in PeerType /\ u.agenda = c \o s.agenda
      /\ u.localBitfield = s.localBitfield /\ u.state = s.state
      /\ u.enableEndGameMode = s.enableEndGameMode /\ u.thread = s.thread /\ u.toRemote = s.toRemote
  BY <1>7 DEF PeerType
<1> HIDE DEF u
<1>9. /\ Removals(u) \subseteq Removals(s)
      /\ \A q : News(s, q) => News(u, q)
      /\ \A q : AgendaKept(s, u, q)
  BY <1>2, <1>6, <1>8, AgendaAhead
<1>10. Alike(s, u)
  BY <1>8, <1>9 DEF Alike
<1>11. Kept(s, u)
  BY <1>8, <1>9 DEF Kept, Completed
<1>12. PeerOK(u, f, g)
  BY <1>8, <1>10, AlikeOK DEF Fine
<1> QED BY <1>1, <1>8, <1>11, <1>12, FineKept

\* A seeder lacks nothing.
LEMMA SeederContent ==
  ASSUME NEW s \in PeerType, Books(s), s.state = "SEEDING", NEW r \in Remote
  PROVE  ~AmInterested(s, r)
<1>1. s.localBitfield.blockfield = Entry /\ Counted(s.localBitfield)
  BY DEF Books
<1>2. \A p \in Piece : p \in s.localBitfield.bitfield
  <2>1. \A p \in Piece : BlocksOf(p) \subseteq Entry
    BY DEF BlocksOf, Entry
  <2> QED BY <2>1, <1>1 DEF Counted
<1>3. s.thread[r].remoteBitfield \subseteq Piece
  BY DEF PeerType, ThreadType
<1> QED BY <1>2, <1>3 DEF AmInterested

LEMMA InterestUpdated ==
  ASSUME NEW s \in PeerType, NEW f, NEW g, Fine(s, f, g), NEW r \in Remote, NEW u \in UpdateInterest(s, r)
  PROVE  Fine(u, f, g)
<1> DEFINE t == [s.thread[r] EXCEPT !.allowedToRequest = TRUE]
           a == [s EXCEPT !.thread[r].allowedToRequest = TRUE]
<1>1. u = s \/ (AmInterested(s, r) /\ u \in NextMove(a, r))
  BY DEF UpdateInterest
<1>2. CASE AmInterested(s, r) /\ u \in NextMove(a, r)
  <2>1. /\ t \in ThreadType /\ t.conn = s.thread[r].conn /\ t.peerChoking = s.thread[r].peerChoking
        /\ t.requests = s.thread[r].requests /\ t.announced = s.thread[r].announced
        /\ t.amInterested = s.thread[r].amInterested /\ t.remoteBitfield = s.thread[r].remoteBitfield
    <3>1. s.thread[r] \in ThreadType
      BY DEF PeerType
    <3> QED BY <3>1 DEF ThreadType
  <2>2. SetThread(s, a, r, t)
    BY DEF SetThread, PeerType
  <2> HIDE DEF a, t
  <2>3. a \in PeerType /\ Alike(s, a) /\ Kept(s, a)
    BY <2>1, <2>2, ThreadSetAlike
  <2>4. PeerOK(s, f, g) /\ Books(s)
    BY DEF Fine, PeerOK
  <2>5. PeerOK(a, f, g)
    BY <2>3, <2>4, AlikeOK
  <2>6. Fine(a, f, g)
    BY <2>3, <2>5, FineKept
  <2>7. a.state # "SEEDING"
    BY <2>3, <2>4, <1>2, SeederContent DEF Alike
  <2> QED BY <2>3, <2>6, <2>7, <1>2, MoveMade
<1> QED BY <1>1, <1>2

LEMMA ThreadRemoved ==
  ASSUME NEW s \in PeerType, NEW f, NEW g, Fine(s, f, g), NEW r \in Remote,
         s.thread[r].conn \in {"ABORTING", "GONE"}
  PROVE  Fine([s EXCEPT !.peerState = RemoveFirst(@, r), !.thread[r].conn = "GONE"], f, g)
<1> DEFINE t == [s.thread[r] EXCEPT !.conn = "GONE"]
           a == [s EXCEPT !.thread = [s.thread EXCEPT ![r] = t]]
           u == [s EXCEPT !.peerState = RemoveFirst(@, r), !.thread[r].conn = "GONE"]
<1>1. PeerOK(s, f, g) /\ Books(s) /\ Threads(s) /\ \A q \in Remote : Wire(s, f[q], g[q], q)
  BY DEF Fine, PeerOK
<1>2. /\ t \in ThreadType /\ t.conn = "GONE" /\ t.peerChoking = s.thread[r].peerChoking
      /\ t.requests = s.thread[r].requests /\ t.announced = s.thread[r].announced
      /\ t.amInterested = s.thread[r].amInterested /\ t.remoteBitfield = s.thread[r].remoteBitfield
  <2>1. s.thread[r] \in ThreadType
    BY DEF PeerType
  <2> QED BY <2>1 DEF ThreadType
<1>3. SetThread(s, a, r, t)
  BY DEF SetThread
<1>4. u = [a EXCEPT !.peerState = RemoveFirst(s.peerState, r)]
  BY DEF PeerType
<1> HIDE DEF a, t, u
<1>5. /\ a \in PeerType /\ a.thread[r] = t
      /\ \A q \in Remote \ {r} : a.thread[q] = s.thread[q]
      /\ a.localBitfield = s.localBitfield /\ a.state = s.state
      /\ a.enableEndGameMode = s.enableEndGameMode /\ a.agenda = s.agenda
      /\ a.toRemote = s.toRemote
  BY <1>2, <1>3, ThreadSet
<1>6. RemoveFirst(s.peerState, r) \in Seq(Remote)
  <2>1. s.peerState \in Seq(Remote)
    BY DEF PeerType
  <2> QED BY <2>1, FirstRemoved
<1>7. /\ u \in PeerType /\ u.thread = a.thread /\ u.localBitfield = a.localBitfield /\ u.state = a.state
      /\ u.enableEndGameMode = a.enableEndGameMode /\ u.agenda = a.agenda /\ u.toRemote = a.toRemote
  BY <1>4, <1>5, <1>6 DEF PeerType
<1>8. \A q : AgendaKept(s, u, q) /\ (News(s, q) => News(u, q)) /\ Removals(u) = Removals(s)
  BY <1>5, <1>7 DEF AgendaKept, News, BlocksAsked, OnceAsked, Asked, Removals
<1>9. Books(u)
  <2>1. \A q \in Remote : u.thread[q].requests = s.thread[q].requests
    BY <1>2, <1>5, <1>7
  <2> QED BY <2>1, <1>1, <1>5, <1>7, BooksSame
<1>10. Threads(u)
  BY <1>1, <1>2, <1>5, <1>7, <1>8 DEF Threads
<1>11. ASSUME NEW q \in Remote, q # r PROVE Wire(u, f[q], g[q], q)
  <2>1. Untouched(s, u, q)
    BY <1>5, <1>7, <1>8, <1>11 DEF Untouched
  <2> QED BY <2>1, <1>1, UntouchedWire
<1>12. Wire(u, f[r], g[r], r)
  <2>1. Orderly(f[r]) /\ Phase(s.thread[r], Requesting(s, r), f[r], g[r]) /\ Underway(s, f[r], r)
        /\ s.thread[r].peerChoking
    BY <1>1 DEF Wire, Threads
  <2>2. Requesting(u, r) = Requesting(s, r)
    BY <1>5, <1>7 DEF Requesting
  <2>3. Phase(u.thread[r], Requesting(u, r), f[r], g[r])
    BY <2>1, <2>2, <1>2, <1>5, <1>7 DEF Phase
  <2>4. BlocksAsked(u, r) = {}
    <3>1. BlocksAsked(s, r) = {}
      BY <2>1 DEF Underway
    <3> QED BY <3>1, <1>8 DEF AgendaKept
  <2>5. Underway(u, f[r], r)
    BY <2>1, <2>4, <1>2, <1>5, <1>7 DEF Underway
  <2> QED BY <2>1, <2>3, <2>5 DEF Wire
<1>13. PeerOK(u, f, g)
  BY <1>7, <1>9, <1>10, <1>11, <1>12 DEF PeerOK
<1>14. Kept(s, u)
  BY <1>2, <1>5, <1>7, <1>8 DEF Kept, Completed
<1> QED BY <1>7, <1>13, <1>14, FineKept DEF u

LEMMA SelfMessageFine ==
  ASSUME NEW s \in PeerType, NEW f, NEW g, Fine(s, f, g), s.agenda # <<>>,
         NEW u \in HandleSelf(Resumed(s), Head(s.agenda).remote, Head(s.agenda).msg)
  PROVE  Fine(u, f, g)
<1> DEFINE t == Resumed(s)
           h == Head(s.agenda)
           r == h.remote
           m == h.msg
<1>1. /\ t \in PeerType /\ PeerOK(t, f, g)
      /\ h \in SelfMsgs
      /\ t.thread = s.thread
      /\ \A q \in Remote : q # h.remote \/ h.msg.kind \notin {"BITFIELD", "HAVE"} => Told(t, q)
      /\ h.msg.kind = "REMOVE_THREAD" => h.remote \in Removals(s)
  BY ResumedIs
<1>2. u \in HandleSelf(t, r, m)
  OBVIOUS
<1>3. r \in Remote /\ m \in Messages(SelfKinds) /\ m.kind \in SelfKinds
      /\ m.index \in Piece /\ m.pieces \in SUBSET Piece
  BY <1>1 DEF SelfMsgs, Messages
<1>4. /\ \A q \in Remote \ {r} : Told(t, q)
      /\ m.kind \notin {"BITFIELD", "HAVE"} => Fine(t, f, g)
      /\ m.kind = "REMOVE_THREAD" => t.thread[r].conn \in {"ABORTING", "GONE"}
  <2>1. m.kind \notin {"BITFIELD", "HAVE"} => Fine(t, f, g)
    BY <1>1 DEF Fine
  <2>2. m.kind = "REMOVE_THREAD" => t.thread[r].conn \in {"ABORTING", "GONE"}
    BY <1>1, <1>3 DEF Fine, PeerOK, Threads
  <2> QED BY <2>1, <2>2, <1>1
<1>5. m.kind = "REQUEST" => Fine(u, f, g)
  BY RequestSent
<1>6. t.pieceFreq \in [Piece -> Nat]
  BY <1>1 DEF PeerType
<1> HIDE DEF t, h, r, m
<1>7. CASE m.kind = "BITFIELD"
  <2> DEFINE c == CountPieces(t.pieceFreq, m.pieces)
             a == [t EXCEPT !.pieceFreq = c]
  <2>1. u = ShowInterest(a, r)
    BY <1>2, <1>7 DEF HandleSelf
  <2>2. c \in [Piece -> Nat]
    BY <1>6 DEF CountPieces
  <2> HIDE DEF c
  <2>3. a \in PeerType /\ Alike(t, a) /\ Kept(t, a)
    BY <2>2, <1>1, FreqSet
  <2> HIDE DEF a
  <2>4. PeerOK(a, f, g) /\ \A q \in Remote \ {r} : Told(a, q)
    BY <2>3, <1>1, <1>4, AlikeOK, KeptTold
  <2>5. Fine(ShowInterest(a, r), f, g)
    BY <2>3, <2>4, <1>3, InterestShown
  <2> QED BY <2>1, <2>5
<1>8. CASE m.kind = "HAVE"
  <2> DEFINE c == [t.pieceFreq EXCEPT ![m.index] = @ + 1]
             a == [t EXCEPT !.pieceFreq = c]
  <2>1. u = IF ~t.thread[r].amInterested /\ AmInterested(t, r) THEN SendInterested(a, r) ELSE a
    <3>1. [t EXCEPT !.pieceFreq[m.index] = @ + 1] = a
      BY <1>1 DEF PeerType
    <3>2. u \in {IF ~t.thread[r].amInterested /\ AmInterested(t, r)
                 THEN SendInterested([t EXCEPT !.pieceFreq[m.index] = @ + 1], r)
                 ELSE [t EXCEPT !.pieceFreq[m.index] = @ + 1]}
      BY <1>2, <1>8 DEF HandleSelf
    <3> QED BY <3>1, <3>2
  <2>2. c \in [Piece -> Nat]
    BY <1>3, <1>6
  <2> HIDE DEF c
  <2>3. a \in PeerType /\ Alike(t, a) /\ Kept(t, a) /\ a.thread = t.thread
    BY <2>2, <1>1, FreqSet
  <2> HIDE DEF a
  <2>4. PeerOK(a, f, g) /\ \A q \in Remote \ {r} : Told(a, q)
    BY <2>3, <1>1, <1>4, AlikeOK, KeptTold
  <2>5. AmInterested(a, r) = AmInterested(t, r)
    BY <2>3 DEF AmInterested, Alike
  <2>6. Fine(IF ~a.thread[r].amInterested /\ AmInterested(a, r) THEN SendInterested(a, r) ELSE a, f, g)
    BY <2>3, <2>4, <1>3, InterestShown
  <2> QED BY <2>1, <2>3, <2>5, <2>6
<1>9. CASE m.kind \in {"UNCHOKE", "NEXT_REQUEST"}
  <2>1. Fine(t, f, g)
    BY <1>4, <1>9
  <2>2. u = t \/ (~Completed(t) /\ u \in NextMove(t, r))
    BY <1>2, <1>9 DEF HandleSelf
  <2>3. CASE ~Completed(t) /\ u \in NextMove(t, r)
    <3>1. t.state # "SEEDING"
      BY <2>3 DEF Completed
    <3> QED BY <3>1, <2>1, <2>3, <1>1, <1>3, MoveMade
  <2> QED BY <2>1, <2>2, <2>3
<1>10. CASE m.kind = "UPDATE_INTERESTS"
  <2>1. Fine(t, f, g) /\ u = UpdateInterests(t)
    BY <1>2, <1>4, <1>10 DEF HandleSelf
  <2> QED BY <2>1, <1>1, InterestsUpdated
<1>11. CASE m.kind = "INTEREST"
  <2>1. Fine(t, f, g) /\ u \in UpdateInterest(t, r)
    BY <1>2, <1>4, <1>11 DEF HandleSelf
  <2> QED BY <2>1, <1>1, <1>3, InterestUpdated
<1>12. CASE m.kind = "REMOVE_THREAD"
  <2> DEFINE v == [t EXCEPT !.peerState = RemoveFirst(@, r), !.thread[r].conn = "GONE"]
  <2>1. Fine(t, f, g) /\ u = v
    BY <1>2, <1>4, <1>12 DEF HandleSelf
  <2>2. Fine(v, f, g)
    BY <2>1, <1>1, <1>3, <1>4, <1>12, ThreadRemoved
  <2> QED BY <2>1, <2>2
<1> QED BY <1>3, <1>5, <1>7, <1>8, <1>9, <1>10, <1>11, <1>12 DEF SelfKinds

-----------------------------------------------------------------------------
(* Messages of a remote peer are put on the wire *)

LEMMA OrderlyAppend ==
  ASSUME NEW S, NEW q \in Seq(S), NEW m, Orderly(q), At(q, "CLOSE") = {},
         m.kind \in {"PIECE", "CHOKE", "UNCHOKE"} => At(q, "CHOKE") = {},
         m.kind = "UNCHOKE" => At(q, "PIECE") = {} /\ At(q, "UNCHOKE") = {}
  PROVE  Orderly(Append(q, m))
<1> DEFINE u == Append(q, m)
           n == Len(q) + 1
<1>1. /\ u[n] = m /\ n \in DOMAIN u
      /\ \A i \in DOMAIN q : i \in DOMAIN u /\ i # n /\ u[i] = q[i]
      /\ \A i \in DOMAIN u : i \in DOMAIN q \/ i = n
  BY AppendedAt
<1>2. \A i \in DOMAIN q : i \in Nat /\ i < n
  OBVIOUS
<1>3. n \in Nat
  OBVIOUS
<1> HIDE DEF u, n
<1>4. \A i \in DOMAIN q : /\ q[i].kind # "CLOSE"
                          /\ m.kind \in {"PIECE", "CHOKE", "UNCHOKE"} => q[i].kind # "CHOKE"
                          /\ m.kind = "UNCHOKE" => q[i].kind # "PIECE" /\ q[i].kind # "UNCHOKE"
  BY DEF At
<1>5. SUFFICES ASSUME NEW i \in DOMAIN u, NEW j \in DOMAIN u, i < j
               PROVE  /\ u[i].kind # "CLOSE"
                      /\ u[i].kind = "CHOKE"   => u[j].kind \notin {"PIECE", "CHOKE", "UNCHOKE"}
                      /\ u[j].kind = "UNCHOKE" => u[i].kind \notin {"PIECE", "CHOKE", "UNCHOKE"}
  BY DEF Orderly, u
<1>6. i # n
  BY <1>1, <1>2, <1>3, <1>5
<1>7. i \in DOMAIN q /\ u[i] = q[i]
  BY <1>1, <1>6
<1>8. CASE j = n
  BY <1>1, <1>4, <1>7, <1>8
<1>9. CASE j \in DOMAIN q
  <2>1. u[j] = q[j]
    BY <1>1, <1>9
  <2> QED BY <2>1, <1>5, <1>7, <1>9 DEF Orderly
<1> QED BY <1>1, <1>8, <1>9

\* What is added to a wire is there, and no block with it if it is none.
LEMMA Added ==
  ASSUME NEW s, NEW r, NEW S, NEW q \in Seq(S), NEW m
  PROVE  /\ \A k : At(Append(q, m), k) # {} <=> At(q, k) # {} \/ m.kind = k
         /\ m.kind # "PIECE" /\ Underway(s, q, r) => Underway(s, Append(q, m), r)
<1>1. \A k : At(Append(q, m), k) # {} <=> At(q, k) # {} \/ m.kind = k
  BY WireAppend
<1>2. ASSUME m.kind # "PIECE", Underway(s, q, r) PROVE Underway(s, Append(q, m), r)
  <2> DEFINE u == Append(q, m)
  <2>1. /\ BlocksIn(u, "PIECE") = BlocksIn(q, "PIECE") \cup {BlockOf(x) : x \in {y \in {m} : y.kind = "PIECE"}}
        /\ OnceIn(q, "PIECE") => OnceIn(u, "PIECE")
    BY <1>2, WireAppend
  <2>2. {y \in {m} : y.kind = "PIECE"} = {}
    BY <1>2
  <2>3. BlocksIn(u, "PIECE") = BlocksIn(q, "PIECE")
    BY <2>1, <2>2
  <2> HIDE DEF u
  <2>4. Underway(s, u, r)
    BY <1>2, <2>1, <2>3 DEF Underway
  <2> QED BY <2>4 DEF u
<1> QED BY <1>1, <1>2

LEMMA NewsAdded ==
  ASSUME NEW s, NEW r, NEW S, NEW q \in Seq(S), NEW m, NEW n, Wire(s, q, n, r),
         s.thread[r].conn = "OPEN", ~n.closed, m.kind \in {"HAVE", "BITFIELD"}
  PROVE  Wire(s, Append(q, m), n, r)
<1> DEFINE u == Append(q, m)
<1>1. Orderly(q) /\ Phase(s.thread[r], Requesting(s, r), q, n) /\ Underway(s, q, r)
  BY DEF Wire
<1>2. /\ \A k : At(u, k) # {} <=> At(q, k) # {} \/ m.kind = k
      /\ m.kind # "PIECE" /\ Underway(s, q, r) => Underway(s, u, r)
  BY Added
<1>3. At(q, "CLOSE") = {}
  BY <1>1 DEF Phase
<1>4. Orderly(u)
  BY <1>1, <1>3, OrderlyAppend
<1> HIDE DEF u
<1>5. \A k \in {"CLOSE", "CHOKE", "UNCHOKE", "PIECE"} : At(u, k) # {} <=> At(q, k) # {}
  BY <1>2
<1>6. Phase(s.thread[r], Requesting(s, r), u, n)
  BY <1>1, <1>5 DEF Phase
<1> QED BY <1>1, <1>2, <1>4, <1>6 DEF Wire, u

LEMMA ChokeAdded ==
  ASSUME NEW s, NEW r, NEW S, NEW q \in Seq(S), NEW m, NEW n, NEW n2, Wire(s, q, n, r),
         s.thread[r].conn = "OPEN", ~n.closed, ~n.amChoking, m.kind = "CHOKE", ~n2.closed, n2.amChoking
  PROVE  Wire(s, Append(q, m), n2, r)
<1> DEFINE u == Append(q, m)
<1>1. Orderly(q) /\ Phase(s.thread[r], Requesting(s, r), q, n) /\ Underway(s, q, r)
  BY DEF Wire
<1>2. /\ \A k : At(u, k) # {} <=> At(q, k) # {} \/ m.kind = k
      /\ m.kind # "PIECE" /\ Underway(s, q, r) => Underway(s, u, r)
  BY Added
<1>3. At(q, "CLOSE") = {} /\ At(q, "CHOKE") = {}
  BY <1>1 DEF Phase
<1>4. Orderly(u)
  BY <1>1, <1>3, OrderlyAppend
<1> HIDE DEF u
<1>5. /\ \A k \in {"CLOSE", "UNCHOKE", "PIECE"} : At(u, k) # {} <=> At(q, k) # {}
      /\ At(u, "CHOKE") # {}
  BY <1>2
<1>6. Phase(s.thread[r], Requesting(s, r), u, n2)
  BY <1>1, <1>3, <1>5 DEF Phase
<1> QED BY <1>1, <1>2, <1>4, <1>6 DEF Wire, u

LEMMA CloseAdded ==
  ASSUME NEW s, NEW r, NEW S, NEW q \in Seq(S), NEW m, NEW n, NEW n2, Wire(s, q, n, r),
         s.thread[r].conn = "OPEN", ~n.closed, n.amChoking, m.kind = "CLOSE", n2.closed, n2.amChoking
  PROVE  Wire(s, Append(q, m), n2, r)
<1> DEFINE u == Append(q, m)
<1>1. Orderly(q) /\ Phase(s.thread[r], Requesting(s, r), q, n) /\ Underway(s, q, r)
  BY DEF Wire
<1>2. /\ \A k : At(u, k) # {} <=> At(q, k) # {} \/ m.kind = k
      /\ m.kind # "PIECE" /\ Underway(s, q, r) => Underway(s, u, r)
  BY Added
<1>3. At(q, "CLOSE") = {}
  BY <1>1 DEF Phase
<1>4. Orderly(u)
  BY <1>1, <1>3, OrderlyAppend
<1> HIDE DEF u
<1>5. /\ \A k \in {"CHOKE", "UNCHOKE", "PIECE"} : At(u, k) # {} <=> At(q, k) # {}
      /\ At(u, "CLOSE") # {}
  BY <1>2
<1>6. Phase(s.thread[r], Requesting(s, r), u, n2)
  BY <1>1, <1>3, <1>5 DEF Phase
<1> QED BY <1>1, <1>2, <1>4, <1>6 DEF Wire, u

\* Only when nothing is under way that was sent before the last choke was known of.
LEMMA UnchokeAdded ==
  ASSUME NEW s, NEW r, NEW S, NEW q \in Seq(S), NEW m, NEW n, NEW n2, Wire(s, q, n, r),
         s.thread[r].conn = "OPEN", ~n.closed, n.amChoking, m.kind = "UNCHOKE", ~n2.closed, ~n2.amChoking,
         At(q, "CHOKE") = {}, ~Requesting(s, r)
  PROVE  Wire(s, Append(q, m), n2, r)
<1> DEFINE u == Append(q, m)
<1>1. Orderly(q) /\ Phase(s.thread[r], Requesting(s, r), q, n) /\ Underway(s, q, r)
  BY DEF Wire
<1>2. /\ \A k : At(u, k) # {} <=> At(q, k) # {} \/ m.kind = k
      /\ m.kind # "PIECE" /\ Underway(s, q, r) => Underway(s, u, r)
  BY Added
<1>3. At(q, "CLOSE") = {} /\ At(q, "UNCHOKE") = {} /\ s.thread[r].peerChoking /\ At(q, "PIECE") = {}
  BY <1>1 DEF Phase
<1>4. Orderly(u)
  BY <1>1, <1>3, OrderlyAppend
<1> HIDE DEF u
<1>5. /\ \A k \in {"CHOKE", "CLOSE", "PIECE"} : At(u, k) # {} <=> At(q, k) # {}
      /\ At(u, "UNCHOKE") # {}
  BY <1>2
<1>6. Phase(s.thread[r], Requesting(s, r), u, n2)
  BY <1>1, <1>3, <1>5 DEF Phase
<1> QED BY <1>1, <1>2, <1>4, <1>6 DEF Wire, u

\* A remote peer takes the first message off its wire.
Taken(s, r) == [s EXCEPT !.toRemote[r] = Tail(@)]

LEMMA TakenIs ==
  ASSUME NEW s \in PeerType, NEW r \in Remote, s.toRemote[r] # <<>>
  PROVE  /\ Taken(s, r) \in PeerType /\ Alike(s, Taken(s, r)) /\ Kept(s, Taken(s, r))
         /\ Taken(s, r).thread = s.thread /\ Taken(s, r).agenda = s.agenda /\ Taken(s, r).state = s.state
         /\ Taken(s, r).localBitfield = s.localBitfield
         /\ Taken(s, r).toRemote[r] = Tail(s.toRemote[r])
         /\ s.toRemote[r] \in Seq(Messages(ToKinds))
         /\ Head(s.toRemote[r]) \in Messages(ToKinds)
<1> DEFINE u == Taken(s, r)
           w == s.toRemote[r]
<1>1. s.toRemote \in [Remote -> Seq(Messages(ToKinds))] /\ w \in Seq(Messages(ToKinds))
  BY DEF PeerType
<1>2. Tail(w) \in Seq(Messages(ToKinds)) /\ Head(w) \in Messages(ToKinds)
  BY <1>1
<1>3. u = [s EXCEPT !.toRemote = [s.toRemote EXCEPT ![r] = Tail(w)]]
  BY DEF Taken
<1>4. [s.toRemote EXCEPT ![r] = Tail(w)] \in [Remote -> Seq(Messages(ToKinds))]
  BY <1>1, <1>2
<1>5. u \in PeerType
  <2> HIDE DEF u, w
  <2> QED BY <1>3, <1>4 DEF PeerType
<1>6. /\ u.localBitfield = s.localBitfield /\ u.state = s.state
      /\ u.enableEndGameMode = s.enableEndGameMode /\ u.thread = s.thread /\ u.agenda = s.agenda
      /\ u.toRemote[r] = Tail(w)
      /\ \A q \in Remote \ {r} : u.toRemote[q] = s.toRemote[q]
  BY <1>1, <1>3 DEF PeerType
<1> HIDE DEF u
<1>7. Kept(s, u)
  BY <1>6 DEF Kept, Completed, News
<1>8. Alike(s, u)
  <2>1. /\ BlocksIn(Tail(w), "REQUEST") \subseteq BlocksIn(w, "REQUEST")
        /\ OnceIn(w, "REQUEST") => OnceIn(Tail(w), "REQUEST")
    BY <1>1, WireTail
  <2>2. \A q : AgendaKept(s, u, q)
    BY <1>6 DEF AgendaKept, BlocksAsked, OnceAsked, Asked
  <2>3. Removals(u) \subseteq Removals(s)
    BY <1>6 DEF Removals
  <2>4. \A q \in Remote : /\ BlocksIn(u.toRemote[q], "REQUEST") \subseteq BlocksIn(s.toRemote[q], "REQUEST")
                          /\ OnceIn(s.toRemote[q], "REQUEST") => OnceIn(u.toRemote[q], "REQUEST")
    BY <2>1, <1>6
  <2> QED BY <2>2, <2>3, <2>4, <1>6 DEF Alike
<1> QED BY <1>1, <1>2, <1>5, <1>6, <1>7, <1>8 DEF u

\* A request is served: its block is under way from now on, and the request is no more.
LEMMA BlockAdded ==
  ASSUME NEW s \in PeerType, NEW r \in Remote, s.toRemote[r] # <<>>, Head(s.toRemote[r]).kind = "REQUEST",
         NEW S, NEW q \in Seq(S), NEW m, m.kind = "PIECE", BlockOf(m) = BlockOf(Head(s.toRemote[r])),
         NEW n, Wire(s, q, n, r), ~n.closed, ~n.amChoking
  PROVE  Wire(Taken(s, r), Append(q, m), n, r)
<1> DEFINE u == Taken(s, r)
           v == Append(q, m)
           e == BlockOf(m)
           A == BlocksAsked(s, r)
           R == BlocksIn(s.toRemote[r], "REQUEST")
           P == BlocksIn(q, "PIECE")
           R2 == BlocksIn(u.toRemote[r], "REQUEST")
           P2 == BlocksIn(v, "PIECE")
<1>1. Orderly(q) /\ Phase(s.thread[r], Requesting(s, r), q, n) /\ Underway(s, q, r)
  BY DEF Wire
<1>2. /\ u.thread = s.thread /\ u.agenda = s.agenda /\ u.state = s.state
      /\ u.localBitfield = s.localBitfield
      /\ u.toRemote[r] = Tail(s.toRemote[r]) /\ s.toRemote[r] \in Seq(Messages(ToKinds))
  BY TakenIs
<1>3. /\ e \in R /\ R2 \subseteq R
      /\ At(s.toRemote[r], "REQUEST") # {}
      /\ OnceIn(s.toRemote[r], "REQUEST") => OnceIn(u.toRemote[r], "REQUEST") /\ e \notin R2
  BY <1>2, WireTail
<1>4. /\ \A k : At(v, k) # {} <=> At(q, k) # {} \/ m.kind = k
      /\ OnceIn(q, "PIECE") /\ e \notin P => OnceIn(v, "PIECE")
      /\ P2 \subseteq P \cup {e}
  <2>1. /\ P2 = P \cup {BlockOf(x) : x \in {y \in {m} : y.kind = "PIECE"}}
        /\ OnceIn(q, "PIECE") /\ (m.kind = "PIECE" => e \notin P) => OnceIn(v, "PIECE")
    BY WireAppend
  <2>2. \A k : At(v, k) # {} <=> At(q, k) # {} \/ m.kind = k
    BY WireAppend
  <2>3. P2 \subseteq P \cup {e}
    BY <2>1
  <2> QED BY <2>1, <2>2, <2>3
<1>5. Requesting(s, r)
  BY <1>3 DEF Requesting
<1>6. ~s.thread[r].peerChoking /\ At(q, "CLOSE") = {} /\ At(q, "CHOKE") = {} /\ At(q, "UNCHOKE") = {}
  BY <1>1, <1>5 DEF Phase
<1>7. Orderly(v)
  BY <1>1, <1>6, OrderlyAppend
<1> HIDE DEF u, v, e
<1>8. /\ \A k \in {"CHOKE", "CLOSE", "UNCHOKE"} : At(v, k) = {}
  BY <1>4, <1>6
<1>9. Phase(u.thread[r], Requesting(u, r), v, n)
  <2>1. s.thread[r].conn \notin {"NONE", "ABORTING", "GONE"}
    BY <1>1 DEF Phase
  <2> QED BY <2>1, <1>1, <1>2, <1>6, <1>8 DEF Phase
<1>10. BlocksAsked(u, r) = A /\ (OnceAsked(s, r) => OnceAsked(u, r)) /\ Req(u, r) = Req(s, r)
  BY <1>2 DEF BlocksAsked, OnceAsked, Asked, Req
<1>11. ASSUME s.state = "NORMAL"
       PROVE  /\ A \cup R2 \cup P2 \subseteq Req(u, r)
              /\ A \cap R2 = {} /\ A \cap P2 = {} /\ R2 \cap P2 = {}
              /\ OnceAsked(u, r) /\ OnceIn(u.toRemote[r], "REQUEST") /\ OnceIn(v, "PIECE")
  <2>1. /\ A \cup R \cup P \subseteq Req(s, r)
        /\ A \cap R = {} /\ A \cap P = {} /\ R \cap P = {}
        /\ OnceAsked(s, r) /\ OnceIn(s.toRemote[r], "REQUEST") /\ OnceIn(q, "PIECE")
    BY <1>1, <1>6, <1>11 DEF Underway
  <2> HIDE DEF A, R, P, R2, P2
  <2>2. e \notin R2 /\ e \notin P
    BY <2>1, <1>3
  <2> QED BY <2>1, <2>2, <1>3, <1>4, <1>10
<1>12. ASSUME s.state = "ENDGAME" PROVE A \cup R2 \cup P2 \subseteq Req(u, r) \cup u.localBitfield.blockfield
  <2>1. A \cup R \cup P \subseteq Req(s, r) \cup s.localBitfield.blockfield
    BY <1>1, <1>6, <1>12 DEF Underway
  <2> HIDE DEF A, R, P, R2, P2
  <2> QED BY <2>1, <1>2, <1>3, <1>4, <1>10
<1>13. Underway(u, v, r)
  BY <1>2, <1>6, <1>10, <1>11, <1>12 DEF Underway
<1> QED BY <1>7, <1>9, <1>13 DEF Wire, u, v

-----------------------------------------------------------------------------
(* The first state, and a connection *)

LEMMA NothingIn ==
  /\ Orderly(<<>>) /\ \A k : At(<<>>, k) = {} /\ BlocksIn(<<>>, k) = {} /\ OnceIn(<<>>, k)
  /\ ToSet(<<>>) = {} /\ Distinct(<<>>)
  /\ \A S : <<>> \in Seq(S)
<1>1. DOMAIN <<>> = {}
  OBVIOUS
<1>2. \A k : At(<<>>, k) = {}
  BY <1>1 DEF At
<1>3. \A k : BlocksIn(<<>>, k) = {} /\ OnceIn(<<>>, k)
  BY <1>2 DEF BlocksIn, OnceIn
<1>4. ToSet(<<>>) = {} /\ Distinct(<<>>) /\ Orderly(<<>>)
  BY <1>1 DEF ToSet, Distinct, Orderly
<1>5. \A S : <<>> \in Seq(S)
  OBVIOUS
<1> QED BY <1>2, <1>3, <1>4, <1>5

LEMMA EmptyBooks ==
  ASSUME NEW lb, lb = EmptyBitField
  PROVE  lb \in BitFieldType /\ Counted(lb) /\ Marks(lb, {}) /\ lb.bitfield = {}
<1>1. /\ lb.bitfield = {} /\ lb.blockfield = {} /\ lb.requested = {}
      /\ lb.currentlyRequested = [p \in Piece |-> 0] /\ lb.numRemainingPieces = NumPieces
      /\ lb.numRemainingBlocks = NumPieces * NumBlocks
      /\ lb.numNonRequestedNonAvailableBlocks = NumPieces * NumBlocks
  BY DEF EmptyBitField
<1>2. /\ IsFiniteSet(Piece) /\ IsFiniteSet(Block)
      /\ Cardinality(Piece) = NumPieces /\ Cardinality(Block) = NumBlocks /\ 0 \in Block
  BY Sizes
<1>3. Cardinality(Entry) = NumPieces * NumBlocks
  <2>1. Cardinality(Piece \X Block) = Cardinality(Piece) * Cardinality(Block)
    BY <1>2, FS_Product
  <2> QED BY <2>1, <1>2 DEF Entry
<1>4. NumPieces \in Nat /\ NumBlocks \in Nat /\ NumPieces * NumBlocks \in Nat
  BY NumPiecesAssumption, NumBlocksAssumption
<1>5. lb \in BitFieldType
  <2>1. [p \in Piece |-> 0] \in [Piece -> Nat]
    OBVIOUS
  <2> QED BY <2>1, <1>4 DEF BitFieldType, EmptyBitField
<1>6. Counted(lb)
  <2>1. \A p \in Piece : ~(BlocksOf(p) \subseteq {})
    <3> TAKE p \in Piece
    <3>1. <<p, 0>> \in BlocksOf(p)
      BY <1>2 DEF BlocksOf
    <3> QED BY <3>1
  <2>2. Entry \ {} = Entry /\ Piece \ {} = Piece
    OBVIOUS
  <2> QED BY <2>1, <2>2, <1>1, <1>2, <1>3 DEF Counted
<1>7. Marks(lb, {})
  <2>1. Cardinality({}) = 0
    BY FS_EmptySet
  <2>2. \A p \in Piece : {} \cap BlocksOf(p) = {}
    OBVIOUS
  <2>3. Entry \ ({} \cup {}) = Entry
    OBVIOUS
  <2>4. {} \ {} = {}
    OBVIOUS
  <2> QED BY <2>1, <2>2, <2>3, <2>4, <1>1, <1>3 DEF Marks
<1> QED BY <1>1, <1>5, <1>6, <1>7

LEMMA FirstPeer ==
  ASSUME NEW s, NEW b \in BOOLEAN, s = InitialPeer(b)
  PROVE  /\ s \in PeerType /\ Books(s) /\ Threads(s) /\ s.state = "NORMAL"
         /\ \A r \in Remote : /\ s.thread[r] = InitialThread /\ s.toRemote[r] = <<>>
                              /\ Told(s, r)
         /\ s.agenda = <<>>
<1>1. /\ s.localBitfield = EmptyBitField /\ s.state = "NORMAL" /\ s.agenda = <<>>
      /\ s.thread = [r \in Remote |-> InitialThread] /\ s.toRemote = [r \in Remote |-> <<>>]
      /\ s.enableEndGameMode = b
  BY DEF InitialPeer
<1>2. /\ s.localBitfield \in BitFieldType /\ Counted(s.localBitfield) /\ Marks(s.localBitfield, {})
      /\ s.localBitfield.bitfield = {}
  BY <1>1, EmptyBooks
<1>3. /\ InitialThread \in ThreadType /\ InitialThread.requests = <<>> /\ InitialThread.peerChoking
      /\ InitialThread.conn = "NONE" /\ InitialThread.remoteBitfield = {}
  BY NothingIn DEF InitialThread, ThreadType
<1>4. s \in PeerType
  <2>1. EmptyBitField \in BitFieldType
    BY <1>1, <1>2
  <2>2. [r \in Remote |-> InitialThread] \in [Remote -> ThreadType]
    BY <1>3
  <2>3. <<>> \in Seq(Remote) /\ <<>> \in Seq(Remote \X Entry) /\ <<>> \in Seq(SelfMsgs)
        /\ [r \in Remote |-> <<>>] \in [Remote -> Seq(Messages(ToKinds))]
    BY NothingIn
  <2>4. [p \in Piece |-> 0] \in [Piece -> Nat]
    OBVIOUS
  <2> QED BY <2>1, <2>2, <2>3, <2>4 DEF PeerType, InitialPeer
<1>5. \A r \in Remote : /\ s.thread[r] = InitialThread /\ s.toRemote[r] = <<>>
                        /\ Req(s, r) = {}
  BY <1>1, <1>3, NothingIn DEF Req
<1>6. PendingOf(s) = {}
  BY <1>5 DEF PendingOf
<1>7. Orders(s)
  <2>1. \A r \in Remote : Distinct(s.thread[r].requests) /\ Len(s.thread[r].requests) <= RequestQueueDepth
    <3>1. Len(<<>>) = 0 /\ 0 <= RequestQueueDepth
      BY RequestQueueDepthAssumption
    <3> QED BY <3>1, <1>3, <1>5, NothingIn
  <2>2. OwnPieces(s)
    BY <1>5 DEF OwnPieces
  <2> QED BY <2>1, <2>2 DEF Orders
<1>8. Books(s)
  BY <1>1, <1>2, <1>6, <1>7 DEF Books
<1>9. Threads(s)
  <2>1. Removals(s) = {}
    BY <1>1 DEF Removals
  <2> QED BY <2>1, <1>3, <1>5 DEF Threads
<1>10. \A r \in Remote : Told(s, r)
  BY <1>3, <1>5 DEF Told, AmInterested
<1> QED BY <1>1, <1>4, <1>5, <1>8, <1>9, <1>10

LEMMA InitInv == SwarmInit => SwarmInv
<1> SUFFICES ASSUME SwarmInit PROVE SwarmInv
  OBVIOUS
<1>1. PICK swarm \in Swarms :
         /\ peer = InitialPeer(swarm.endGame)
         /\ fromRemote = [r \in Remote |-> <<>>]
         /\ remote = [r \in Remote |->
                    [has |-> swarm.pieces[r], amChoking |-> TRUE, peerInterested |-> FALSE,
                     closed |-> FALSE, chokes |-> 0,
                     gaining |-> r \in swarm.gaining, leaving |-> r \in swarm.leaving]]
  BY DEF SwarmInit
<1>2. swarm.endGame \in BOOLEAN /\ swarm.pieces \in [Remote -> SUBSET Piece]
  BY SwarmsAssumption DEF Swarm
<1>3. /\ peer \in PeerType /\ Books(peer) /\ Threads(peer) /\ peer.state = "NORMAL"
      /\ \A r \in Remote : /\ peer.thread[r] = InitialThread /\ peer.toRemote[r] = <<>>
                           /\ Told(peer, r)
      /\ peer.agenda = <<>>
  BY <1>1, <1>2, FirstPeer
<1>4. \A r \in Remote : /\ remote[r] \in RemoteType /\ fromRemote[r] = <<>>
                        /\ remote[r].amChoking /\ ~remote[r].closed
  <2> TAKE r \in Remote
  <2>1. swarm.pieces[r] \in SUBSET Piece
    BY <1>2
  <2>2. fromRemote[r] = <<>>
    BY <1>1
  <2> HIDE DEF SwarmInit
  <2>3. remote[r] = [has |-> swarm.pieces[r], amChoking |-> TRUE, peerInterested |-> FALSE,
                     closed |-> FALSE, chokes |-> 0,
                     gaining |-> r \in swarm.gaining, leaving |-> r \in swarm.leaving]
    BY <1>1
  <2>4. (r \in swarm.gaining) \in BOOLEAN /\ (r \in swarm.leaving) \in BOOLEAN
    OBVIOUS
  <2>5. remote[r].amChoking /\ ~remote[r].closed
    BY <2>3
  <2> QED BY <2>1, <2>2, <2>3, <2>4, <2>5 DEF RemoteType
<1>5. WireTypes
  <2>1. fromRemote \in [Remote -> Seq(Messages(FromKinds))]
    BY <1>1, NothingIn
  <2>2. remote = [r \in Remote |-> remote[r]]
    BY <1>1
  <2>3. remote \in [Remote -> RemoteType]
    BY <2>2, <1>4
  <2> QED BY <2>1, <2>3 DEF WireTypes
<1>6. ASSUME NEW r \in Remote PROVE Wire(peer, fromRemote[r], remote[r], r)
  <2>1. /\ peer.thread[r].conn = "NONE" /\ peer.thread[r].peerChoking
    BY <1>3 DEF InitialThread
  <2>2. fromRemote[r] = <<>> /\ peer.toRemote[r] = <<>>
    BY <1>3, <1>4
  <2>3. ~Requesting(peer, r)
    BY <2>2, NothingIn DEF Requesting
  <2>4. Phase(peer.thread[r], Requesting(peer, r), fromRemote[r], remote[r])
    BY <2>1, <2>2, <2>3, <1>4, NothingIn DEF Phase
  <2>5. BlocksAsked(peer, r) = {}
    BY <1>3, NoAgenda
  <2>6. Underway(peer, fromRemote[r], r)
    BY <2>1, <2>5 DEF Underway
  <2> QED BY <2>2, <2>4, <2>6, NothingIn DEF Wire
<1> QED BY <1>3, <1>5, <1>6 DEF SwarmInv, PeerOK

LEMMA HandshakeMade ==
  ASSUME NEW s \in PeerType, NEW r \in Remote, s.agenda = <<>>, s.thread[r].conn = "NONE",
         Books(s), Threads(s), \A q \in Remote : Told(s, q)
  PROVE  LET u == HandshakeComplete(s, r)
         IN  /\ u \in PeerType /\ Books(u) /\ Threads(u) /\ \A q \in Remote : Told(u, q)
             /\ u.thread[r].conn = "OPEN" /\ u.thread[r].peerChoking /\ u.agenda = <<>>
             /\ \A q \in Remote \ {r} : Untouched(s, u, q)
<1> DEFINE u == HandshakeComplete(s, r)
           t == [s.thread[r] EXCEPT !.conn = "OPEN", !.announced = s.localBitfield.bitfield]
           v == [s.thread EXCEPT ![r] = t]
           ps == Append(s.peerState, r)
<1>1. s.thread \in [Remote -> ThreadType] /\ s.thread[r] \in ThreadType
      /\ s.localBitfield \in BitFieldType /\ s.peerState \in Seq(Remote)
  BY DEF PeerType
<1>2. s.localBitfield.bitfield \in SUBSET Piece
  BY <1>1 DEF BitFieldType
<1>3. /\ t \in ThreadType /\ t.conn = "OPEN" /\ t.announced = s.localBitfield.bitfield
      /\ t.peerChoking = s.thread[r].peerChoking /\ t.requests = s.thread[r].requests
      /\ t.remoteBitfield = s.thread[r].remoteBitfield /\ t.amInterested = s.thread[r].amInterested
  BY <1>1, <1>2 DEF ThreadType
<1>4. u = [s EXCEPT !.peerState = ps, !.thread = v]
  BY <1>1 DEF HandshakeComplete, ThreadType, PeerType
<1> HIDE DEF t
<1>5. /\ v \in [Remote -> ThreadType] /\ v[r] = t /\ \A q \in Remote \ {r} : v[q] = s.thread[q]
      /\ ps \in Seq(Remote)
  BY <1>1, <1>3
<1> HIDE DEF v, ps, u
<1>6. u \in PeerType
  BY <1>4, <1>5 DEF PeerType
<1>7. /\ u.thread = v /\ u.localBitfield = s.localBitfield /\ u.state = s.state
      /\ u.enableEndGameMode = s.enableEndGameMode /\ u.agenda = s.agenda /\ u.toRemote = s.toRemote
  BY <1>4 DEF PeerType
<1>8. Books(u)
  <2>1. \A q \in Remote : u.thread[q].requests = s.thread[q].requests
    BY <1>3, <1>5, <1>7
  <2> QED BY <2>1, <1>7, BooksSame
<1>9. s.thread[r].peerChoking
  BY DEF Threads
<1>10. Threads(u)
  <2>1. Removals(u) = {} /\ Removals(s) = {}
    BY <1>7 DEF Removals
  <2> SUFFICES ASSUME NEW q \in Remote
               PROVE  /\ u.thread[q].peerChoking => u.thread[q].requests = <<>>
                      /\ u.thread[q].conn # "OPEN" => u.thread[q].peerChoking
                      /\ u.thread[q].conn = "OPEN" => u.localBitfield.bitfield \subseteq u.thread[q].announced
    BY <2>1 DEF Threads
  <2>2. CASE q = r
    <3>1. s.thread[r].requests = <<>>
      BY <1>9 DEF Threads
    <3> QED BY <3>1, <2>2, <1>3, <1>5, <1>7
  <2>3. CASE q # r
    BY <2>3, <1>5, <1>7 DEF Threads
  <2> QED BY <2>2, <2>3
<1>11. \A q \in Remote \ {r} : Untouched(s, u, q)
  <2>1. \A q : AgendaKept(s, u, q)
    BY <1>7 DEF AgendaKept, BlocksAsked, OnceAsked, Asked
  <2> QED BY <2>1, <1>5, <1>7 DEF Untouched
<1>12. Kept(s, u)
  BY <1>3, <1>5, <1>7 DEF Kept, Completed, News
<1>13. \A q \in Remote : Told(u, q)
  BY <1>12, KeptTold
<1> QED BY <1>3, <1>5, <1>6, <1>7, <1>8, <1>9, <1>10, <1>11, <1>13 DEF u

\* A wire that is new carries nothing yet.
LEMMA ConnectionMade ==
  ASSUME NEW s \in PeerType, NEW f \in [Remote -> Seq(Messages(FromKinds))], NEW g, PeerOK(s, f, g),
         \A q \in Remote : Told(s, q), NEW r \in Remote, s.agenda = <<>>, s.thread[r].conn = "NONE"
  PROVE  LET u == HandshakeComplete(s, r)
         IN  /\ Fine(u, f, g) /\ u.thread[r].conn = "OPEN" /\ ~g[r].closed
<1> DEFINE u == HandshakeComplete(s, r)
<1>1. Books(s) /\ Threads(s) /\ \A q \in Remote : Wire(s, f[q], g[q], q)
  BY DEF PeerOK
<1>2. /\ u \in PeerType /\ Books(u) /\ Threads(u) /\ \A q \in Remote : Told(u, q)
      /\ u.thread[r].conn = "OPEN" /\ u.thread[r].peerChoking /\ u.agenda = <<>>
      /\ \A q \in Remote \ {r} : Untouched(s, u, q)
  BY <1>1, HandshakeMade
<1> HIDE DEF u
<1>3. f[r] = <<>> /\ g[r].amChoking /\ ~g[r].closed
  BY <1>1 DEF Wire, Phase
<1>4. Wire(u, f[r], g[r], r)
  <2>1. Phase(u.thread[r], Requesting(u, r), f[r], g[r])
    BY <1>2, <1>3, NothingIn DEF Phase
  <2>2. BlocksAsked(u, r) = {}
    BY <1>2, NoAgenda
  <2>3. Underway(u, f[r], r)
    BY <1>2, <2>2 DEF Underway
  <2> QED BY <2>1, <2>3, <1>3, NothingIn DEF Wire
<1>5. \A q \in Remote \ {r} : Wire(u, f[q], g[q], q)
  BY <1>1, <1>2, UntouchedWire
<1>6. PeerOK(u, f, g)
  BY <1>2, <1>4, <1>5 DEF PeerOK
<1> QED BY <1>2, <1>3, <1>6 DEF Fine, u

\* A remote peer puts a message on its wire, or changes.
LEMMA WireChanged ==
  ASSUME NEW s, NEW f \in [Remote -> Seq(Messages(FromKinds))], NEW g, Fine(s, f, g), NEW r \in Remote,
         NEW h, NEW k, \A q \in Remote \ {r} : h[q] = f[q] /\ k[q] = g[q],
         Wire(s, h[r], k[r], r)
  PROVE  Fine(s, h, k)
<1>1. \A q \in Remote : Wire(s, h[q], k[q], q)
  BY DEF Fine, PeerOK
<1> QED BY <1>1 DEF Fine, PeerOK

\* The wires after message m to this peer.
Said(f, r, m) == [f EXCEPT ![r] = Append(@, m)]

LEMMA SaidIs ==
  ASSUME NEW f \in [Remote -> Seq(Messages(FromKinds))], NEW r \in Remote, NEW m \in Messages(FromKinds)
  PROVE  /\ Said(f, r, m) \in [Remote -> Seq(Messages(FromKinds))]
         /\ Said(f, r, m)[r] = Append(f[r], m)
         /\ \A q \in Remote \ {r} : Said(f, r, m)[q] = f[q]
         /\ f[r] \in Seq(Messages(FromKinds))
<1>1. f[r] \in Seq(Messages(FromKinds))
  OBVIOUS
<1>2. Append(f[r], m) \in Seq(Messages(FromKinds))
  BY <1>1
<1> QED BY <1>1, <1>2 DEF Said

-----------------------------------------------------------------------------
(* The steps *)

Inv(s, f, g) == /\ f \in [Remote -> Seq(Messages(FromKinds))]
                /\ g \in [Remote -> RemoteType]
                /\ Fine(s, f, g)

LEMMA InvNow == SwarmInv <=> Inv(peer, fromRemote, remote)
BY DEF SwarmInv, Inv, WireTypes, Fine, PeerOK

LEMMA InvNext == SwarmInv' <=> Inv(peer', fromRemote', remote')
BY DEF SwarmInv, Inv, WireTypes, Fine, PeerOK, Told, Books, Threads, Wire, PeerType

LEMMA SelfMessageKeeps == ASSUME Inv(peer, fromRemote, remote), SelfMessage
                          PROVE  Inv(peer', fromRemote', remote')
<1>1. peer \in PeerType /\ Fine(peer, fromRemote, remote)
  BY DEF Inv, Fine
<1>2. /\ peer.agenda # <<>>
      /\ peer' \in HandleSelf(Resumed(peer), Head(peer.agenda).remote, Head(peer.agenda).msg)
      /\ UNCHANGED <<fromRemote, remote>>
  BY DEF SelfMessage, Idle, Resumed
<1>3. Fine(peer', fromRemote, remote)
  BY <1>1, <1>2, SelfMessageFine
<1> QED BY <1>2, <1>3 DEF Inv

LEMMA ReceiveKeeps == ASSUME Inv(peer, fromRemote, remote), NEW r \in Remote, Receive(r)
                      PROVE  Inv(peer', fromRemote', remote')
<1>1. /\ peer \in PeerType /\ PeerOK(peer, fromRemote, remote) /\ \A q \in Remote : Told(peer, q)
      /\ fromRemote \in [Remote -> Seq(Messages(FromKinds))] /\ remote \in [Remote -> RemoteType]
  BY DEF Inv, Fine
<1>2. /\ peer.agenda = <<>> /\ fromRemote[r] # <<>>
      /\ fromRemote' = Popped(fromRemote, r) /\ remote' = remote
      /\ peer' = DataArrived(peer, r, Head(fromRemote[r]))
  BY DEF Receive, Idle, Popped
<1>3. /\ Popped(fromRemote, r) \in [Remote -> Seq(Messages(FromKinds))]
      /\ Head(fromRemote[r]) \in Messages(FromKinds)
  BY <1>1, <1>2, PoppedIs
<1>4. Head(fromRemote[r]).kind \in FromKinds
  BY <1>3 DEF Messages
<1> DEFINE u == DataArrived(peer, r, Head(fromRemote[r]))
<1>5. PeerOK(u, Popped(fromRemote, r), remote) /\ \A q \in Remote : Told(u, q)
  <2>1. CASE Head(fromRemote[r]).kind \in {"BITFIELD", "HAVE"}
    BY <2>1, <1>1, <1>2, NewsReceived
  <2>2. CASE Head(fromRemote[r]).kind = "CHOKE"
    BY <2>2, <1>1, <1>2, ChokeReceived
  <2>3. CASE Head(fromRemote[r]).kind = "UNCHOKE"
    BY <2>3, <1>1, <1>2, UnchokeReceived
  <2>4. CASE Head(fromRemote[r]).kind = "PIECE"
    BY <2>4, <1>1, <1>2, BlockReceived
  <2>5. CASE Head(fromRemote[r]).kind = "CLOSE"
    BY <2>5, <1>1, <1>2, CloseReceived
  <2> HIDE DEF u
  <2> QED BY <2>1, <2>2, <2>3, <2>4, <2>5, <1>4 DEF FromKinds
<1> HIDE DEF u
<1>6. Fine(u, Popped(fromRemote, r), remote)
  <2>1. u \in PeerType
    BY <1>5 DEF PeerOK
  <2> QED BY <2>1, <1>5 DEF Fine
<1> QED BY <1>1, <1>2, <1>3, <1>6 DEF Inv, u

LEMMA ClosedKeeps == ASSUME Inv(peer, fromRemote, remote), NEW r \in Remote, Closed(r)
                     PROVE  Inv(peer', fromRemote', remote')
<1>1. /\ peer \in PeerType /\ PeerOK(peer, fromRemote, remote) /\ \A q \in Remote : Told(peer, q)
  BY DEF Inv, Fine
<1>2. /\ peer.thread[r].conn = "ABORTING" /\ peer' = ConnectionClosed(peer, r)
      /\ UNCHANGED <<fromRemote, remote>>
  BY DEF Closed
<1> DEFINE u == ConnectionClosed(peer, r)
<1>3. PeerOK(u, fromRemote, remote) /\ \A q \in Remote : Told(u, q)
  BY <1>1, <1>2, ThreadClosed
<1> HIDE DEF u
<1>4. Fine(u, fromRemote, remote)
  <2>1. u \in PeerType
    BY <1>3 DEF PeerOK
  <2> QED BY <2>1, <1>3 DEF Fine
<1> QED BY <1>2, <1>4 DEF Inv, u

LEMMA ConnectKeeps == ASSUME Inv(peer, fromRemote, remote), NEW r \in Remote, Connect(r)
                      PROVE  Inv(peer', fromRemote', remote')
<1>1. /\ peer \in PeerType /\ PeerOK(peer, fromRemote, remote) /\ \A q \in Remote : Told(peer, q)
      /\ fromRemote \in [Remote -> Seq(Messages(FromKinds))] /\ remote \in [Remote -> RemoteType]
  BY DEF Inv, Fine
<1> DEFINE m == BitfieldMsg(remote[r].has)
           u == HandshakeComplete(peer, r)
           h == Said(fromRemote, r, m)
<1>2. /\ peer.agenda = <<>> /\ peer.thread[r].conn = "NONE" /\ peer' = u
      /\ fromRemote' = fromRemote \/ fromRemote' = h
      /\ remote' = remote
  BY DEF Connect, Idle, ToPeer, Said
<1>3. /\ Fine(u, fromRemote, remote) /\ u.thread[r].conn = "OPEN" /\ ~remote[r].closed
  BY <1>1, <1>2, ConnectionMade
<1>4. m \in Messages(FromKinds) /\ m.kind = "BITFIELD"
  <2>1. remote[r].has \in SUBSET Piece
    BY <1>1 DEF RemoteType
  <2> QED BY <2>1, MsgTypes
<1> HIDE DEF m, u
<1>5. /\ h \in [Remote -> Seq(Messages(FromKinds))]
      /\ h[r] = Append(fromRemote[r], m)
      /\ \A q \in Remote \ {r} : h[q] = fromRemote[q]
      /\ fromRemote[r] \in Seq(Messages(FromKinds))
  BY <1>1, <1>4, SaidIs
<1>6. Wire(u, Append(fromRemote[r], m), remote[r], r)
  <2>1. Wire(u, fromRemote[r], remote[r], r)
    BY <1>3 DEF Fine, PeerOK
  <2> QED BY <2>1, <1>3, <1>4, <1>5, NewsAdded
<1> HIDE DEF h
<1>7. Wire(u, h[r], remote[r], r)
  BY <1>5, <1>6
<1>8. Fine(u, h, remote)
  BY <1>1, <1>3, <1>5, <1>7, WireChanged
<1> QED BY <1>1, <1>2, <1>3, <1>5, <1>8 DEF Inv

-----------------------------------------------------------------------------
(* The steps of the remote peers *)

\* Remote peer r becomes n.
LEMMA RemoteSet ==
  ASSUME NEW g \in [Remote -> RemoteType], NEW r \in Remote, NEW n \in RemoteType
  PROVE  /\ [g EXCEPT ![r] = n] \in [Remote -> RemoteType]
         /\ [g EXCEPT ![r] = n][r] = n
         /\ \A q \in Remote \ {r} : [g EXCEPT ![r] = n][q] = g[q]
OBVIOUS

LEMMA ReceivesKeeps == ASSUME Inv(peer, fromRemote, remote), NEW r \in Remote, RemoteReceives(r)
                       PROVE  Inv(peer', fromRemote', remote')
<1>1. /\ peer \in PeerType /\ PeerOK(peer, fromRemote, remote) /\ Fine(peer, fromRemote, remote)
      /\ fromRemote \in [Remote -> Seq(Messages(FromKinds))] /\ remote \in [Remote -> RemoteType]
  BY DEF Inv, Fine
<1> DEFINE m == Head(peer.toRemote[r])
           e == <<m.index, m.begin>>
           p == PieceMsg(e)
           u == Taken(peer, r)
           n == [remote[r] EXCEPT !.peerInterested = (m.kind = "INTERESTED")]
           k == [remote EXCEPT ![r] = n]
           h == Said(fromRemote, r, p)
<1>2. /\ peer.toRemote[r] # <<>> /\ ~remote[r].closed
      /\ peer' = u
      /\ remote' = k \/ remote' = remote
      /\ fromRemote' = IF Serves(r, m) THEN h ELSE fromRemote
      /\ remote' = k => m.kind # "REQUEST" \/ remote' = remote
  BY DEF RemoteReceives, ToPeer, Said, Taken
<1>3. /\ u \in PeerType /\ Alike(peer, u) /\ Kept(peer, u)
      /\ m \in Messages(ToKinds)
  BY <1>1, <1>2, TakenIs
<1>4. e \in Entry /\ BlockOf(m) = e
  BY <1>3 DEF Messages, Entry, BlockOf
<1>5. p \in Messages(FromKinds) /\ p.kind = "PIECE" /\ BlockOf(p) = e
  <2> HIDE DEF e
  <2> QED BY <1>4, MsgTypes
<1>6. n \in RemoteType /\ n.closed = remote[r].closed /\ n.amChoking = remote[r].amChoking
  <2>1. remote[r] \in RemoteType
    BY <1>1
  <2> QED BY <2>1 DEF RemoteType
<1>7. Fine(u, fromRemote, remote)
  <2>1. PeerOK(u, fromRemote, remote)
    BY <1>1, <1>3, AlikeOK
  <2> HIDE DEF u
  <2> QED BY <2>1, <1>1, <1>3, FineKept
<1>8. ASSUME Serves(r, m) PROVE Fine(u, h, remote)
  <2>1. m.kind = "REQUEST" /\ ~remote[r].amChoking
    BY <1>8 DEF Serves
  <2> HIDE DEF p
  <2>2. /\ h \in [Remote -> Seq(Messages(FromKinds))]
        /\ h[r] = Append(fromRemote[r], p)
        /\ \A q \in Remote \ {r} : h[q] = fromRemote[q]
        /\ fromRemote[r] \in Seq(Messages(FromKinds))
    BY <1>1, <1>5, SaidIs
  <2> HIDE DEF h
  <2>3. Wire(peer, fromRemote[r], remote[r], r)
    BY <1>1 DEF PeerOK
  <2>4. Wire(u, Append(fromRemote[r], p), remote[r], r)
    <3>1. BlockOf(p) = BlockOf(m)
      BY <1>4, <1>5
    <3> QED BY <3>1, <2>1, <2>2, <2>3, <1>1, <1>2, <1>5, BlockAdded
  <2> HIDE DEF u
  <2>5. Wire(u, h[r], remote[r], r)
    BY <2>2, <2>4
  <2> QED BY <2>2, <2>5, <1>1, <1>7, WireChanged
<1> HIDE DEF u, p, n, m
<1>9. /\ fromRemote' \in [Remote -> Seq(Messages(FromKinds))] /\ Fine(u, fromRemote', remote)
  <2>1. h \in [Remote -> Seq(Messages(FromKinds))]
    BY <1>1, <1>5, SaidIs
  <2> QED BY <2>1, <1>1, <1>2, <1>7, <1>8
<1>10. /\ k \in [Remote -> RemoteType] /\ k[r] = n /\ \A q \in Remote \ {r} : k[q] = remote[q]
  BY <1>1, <1>6, RemoteSet
<1> HIDE DEF k, h
<1>11. PICK f : f = fromRemote'
  OBVIOUS
<1>12. Fine(u, f, k)
  <2>1. Wire(u, f[r], remote[r], r) /\ Fine(u, f, remote) /\ f \in [Remote -> Seq(Messages(FromKinds))]
    BY <1>9, <1>11 DEF Fine, PeerOK
  <2>2. Wire(u, f[r], k[r], r)
    BY <2>1, <1>6, <1>10 DEF Wire, Phase
  <2> QED BY <2>1, <2>2, <1>10, WireChanged
<1>13. Fine(u, fromRemote', remote') /\ remote' \in [Remote -> RemoteType]
  BY <1>1, <1>2, <1>9, <1>10, <1>11, <1>12
<1> QED BY <1>2, <1>9, <1>13 DEF Inv

\* A remote peer becomes n, having said m.
LEMMA RemoteSays ==
  ASSUME Inv(peer, fromRemote, remote), NEW r \in Remote, NEW m \in Messages(FromKinds), NEW n \in RemoteType,
         Wire(peer, Append(fromRemote[r], m), n, r)
  PROVE  Inv(peer, Said(fromRemote, r, m), [remote EXCEPT ![r] = n])
<1> DEFINE h == Said(fromRemote, r, m)
           k == [remote EXCEPT ![r] = n]
<1>1. /\ Fine(peer, fromRemote, remote)
      /\ fromRemote \in [Remote -> Seq(Messages(FromKinds))] /\ remote \in [Remote -> RemoteType]
  BY DEF Inv
<1>2. /\ h \in [Remote -> Seq(Messages(FromKinds))]
      /\ h[r] = Append(fromRemote[r], m)
      /\ \A q \in Remote \ {r} : h[q] = fromRemote[q]
  BY <1>1, SaidIs
<1>3. /\ k \in [Remote -> RemoteType] /\ k[r] = n /\ \A q \in Remote \ {r} : k[q] = remote[q]
  BY <1>1, RemoteSet
<1> HIDE DEF h, k
<1>4. Wire(peer, h[r], k[r], r)
  BY <1>2, <1>3
<1>5. \A q \in Remote \ {r} : h[q] = fromRemote[q] /\ k[q] = remote[q]
  BY <1>2, <1>3
<1>6. Fine(peer, h, k)
  <2>1. \A q \in Remote : Wire(peer, fromRemote[q], remote[q], q)
    BY <1>1 DEF Fine, PeerOK
  <2>2. \A q \in Remote \ {r} : Wire(peer, h[q], k[q], q)
    BY <2>1, <1>5
  <2>3. \A q \in Remote : Wire(peer, h[q], k[q], q)
    BY <2>2, <1>4
  <2> QED BY <2>3, <1>1 DEF Fine, PeerOK
<1> QED BY <1>2, <1>3, <1>6 DEF Inv, h, k

LEMMA StateMsgIs == \A kind \in FromKinds : StateMsg(kind) \in Messages(FromKinds) /\ StateMsg(kind).kind = kind
BY MsgTypes DEF StateMsg

LEMMA UnchokesKeeps == ASSUME SlowChoking = TRUE, Inv(peer, fromRemote, remote), NEW r \in Remote, RemoteUnchokes(r)
                       PROVE  Inv(peer', fromRemote', remote')
<1> DEFINE m == StateMsg("UNCHOKE")
           n == [remote[r] EXCEPT !.amChoking = FALSE]
<1>1. /\ Fine(peer, fromRemote, remote) /\ remote[r] \in RemoteType
      /\ fromRemote[r] \in Seq(Messages(FromKinds))
  BY DEF Inv
<1>2. /\ peer.thread[r].conn = "OPEN" /\ ~remote[r].closed /\ remote[r].amChoking /\ Drained(r)
      /\ peer' = peer /\ fromRemote' = Said(fromRemote, r, m)
      /\ remote' = [remote EXCEPT ![r] = n]
  BY DEF RemoteUnchokes, Connected, ToPeer, Said
<1>3. m \in Messages(FromKinds) /\ m.kind = "UNCHOKE"
  BY StateMsgIs DEF FromKinds
<1>4. n \in RemoteType /\ ~n.amChoking /\ ~n.closed
  BY <1>1, <1>2 DEF RemoteType
<1>5. At(fromRemote[r], "CHOKE") = {} /\ ~Requesting(peer, r)
  BY <1>2 DEF Drained, At, Requesting
<1>6. Wire(peer, fromRemote[r], remote[r], r)
  BY <1>1 DEF Fine, PeerOK
<1> HIDE DEF m, n
<1>7. Wire(peer, Append(fromRemote[r], m), n, r)
  BY <1>1, <1>2, <1>3, <1>4, <1>5, <1>6, UnchokeAdded
<1> QED BY <1>2, <1>3, <1>4, <1>7, RemoteSays

LEMMA ChokesKeeps == ASSUME Inv(peer, fromRemote, remote), NEW r \in Remote, RemoteChokes(r)
                     PROVE  Inv(peer', fromRemote', remote')
<1> DEFINE m == StateMsg("CHOKE")
           n == [remote[r] EXCEPT !.amChoking = TRUE, !.chokes = @ + 1]
<1>1. /\ Fine(peer, fromRemote, remote) /\ remote[r] \in RemoteType
      /\ fromRemote[r] \in Seq(Messages(FromKinds)) /\ remote \in [Remote -> RemoteType]
  BY DEF Inv
<1>2. /\ peer.thread[r].conn = "OPEN" /\ ~remote[r].closed /\ ~remote[r].amChoking
      /\ peer' = peer /\ fromRemote' = Said(fromRemote, r, m)
      /\ remote' = [remote EXCEPT ![r].amChoking = TRUE, ![r].chokes = @ + 1]
  BY DEF RemoteChokes, Connected, ToPeer, Said
<1>3. remote' = [remote EXCEPT ![r] = n]
  BY <1>1, <1>2 DEF RemoteType
<1>4. m \in Messages(FromKinds) /\ m.kind = "CHOKE"
  BY StateMsgIs DEF FromKinds
<1>5. n \in RemoteType /\ n.amChoking /\ ~n.closed
  BY <1>1, <1>2 DEF RemoteType
<1>6. Wire(peer, fromRemote[r], remote[r], r)
  BY <1>1 DEF Fine, PeerOK
<1> HIDE DEF m, n
<1>7. Wire(peer, Append(fromRemote[r], m), n, r)
  BY <1>1, <1>2, <1>4, <1>5, <1>6, ChokeAdded
<1>8. Inv(peer, Said(fromRemote, r, m), [remote EXCEPT ![r] = n])
  BY <1>4, <1>5, <1>7, RemoteSays
<1>9. peer' = peer /\ fromRemote' = Said(fromRemote, r, m)
  BY <1>2
<1> QED BY <1>3, <1>8, <1>9

LEMMA GainsKeeps == ASSUME Inv(peer, fromRemote, remote), NEW r \in Remote, RemoteGains(r)
                    PROVE  Inv(peer', fromRemote', remote')
<1>1. PICK p \in Piece \ remote[r].has :
          /\ remote' = [remote EXCEPT ![r].has = @ \cup {p}]
          /\ IF Connected(r) THEN ToPeer(r, HaveMsg(p)) ELSE UNCHANGED fromRemote
  BY DEF RemoteGains
<1> DEFINE m == HaveMsg(p)
           n == [remote[r] EXCEPT !.has = @ \cup {p}]
           k == [remote EXCEPT ![r] = n]
<1>2. /\ Fine(peer, fromRemote, remote) /\ remote[r] \in RemoteType
      /\ fromRemote[r] \in Seq(Messages(FromKinds)) /\ remote \in [Remote -> RemoteType]
      /\ fromRemote \in [Remote -> Seq(Messages(FromKinds))]
  BY DEF Inv
<1>3. peer' = peer /\ remote' = k
  BY <1>1 DEF RemoteGains
<1>4. m \in Messages(FromKinds) /\ m.kind = "HAVE"
  BY MsgTypes
<1>5. n \in RemoteType /\ n.amChoking = remote[r].amChoking /\ n.closed = remote[r].closed
  BY <1>2 DEF RemoteType
<1>6. Wire(peer, fromRemote[r], remote[r], r)
  BY <1>2 DEF Fine, PeerOK
<1>7. Wire(peer, fromRemote[r], n, r)
  <2> HIDE DEF n
  <2> QED BY <1>5, <1>6 DEF Wire, Phase
<1>8. CASE Connected(r)
  <2>1. fromRemote' = Said(fromRemote, r, m)
    BY <1>1, <1>8 DEF ToPeer, Said
  <2>2. peer.thread[r].conn = "OPEN" /\ ~n.closed
    BY <1>5, <1>8 DEF Connected
  <2> HIDE DEF m, n
  <2>3. Wire(peer, Append(fromRemote[r], m), n, r)
    BY <2>2, <1>2, <1>4, <1>7, NewsAdded
  <2> QED BY <2>1, <2>3, <1>3, <1>4, <1>5, RemoteSays
<1>9. CASE ~Connected(r)
  <2>1. fromRemote' = fromRemote
    BY <1>1, <1>9
  <2> HIDE DEF n
  <2>2. /\ k \in [Remote -> RemoteType] /\ k[r] = n /\ \A q \in Remote \ {r} : k[q] = remote[q]
    BY <1>2, <1>5, RemoteSet
  <2> HIDE DEF k
  <2>3. Wire(peer, fromRemote[r], k[r], r)
    BY <2>2, <1>7
  <2>4. Fine(peer, fromRemote, k)
    BY <2>2, <2>3, <1>2, WireChanged
  <2> QED BY <2>1, <2>2, <2>4, <1>2, <1>3 DEF Inv
<1> QED BY <1>8, <1>9

LEMMA ClosesKeeps == ASSUME Inv(peer, fromRemote, remote), NEW r \in Remote, RemoteCloses(r)
                     PROVE  Inv(peer', fromRemote', remote')
<1> DEFINE c == StateMsg("CHOKE")
           m == Msg("CLOSE")
           a == [remote[r] EXCEPT !.amChoking = TRUE]
           n == [remote[r] EXCEPT !.closed = TRUE, !.amChoking = TRUE]
           w == IF remote[r].amChoking THEN fromRemote[r] ELSE Append(fromRemote[r], c)
           h == [fromRemote EXCEPT ![r] = Append(w, m)]
           k == [remote EXCEPT ![r] = n]
<1>1. /\ Fine(peer, fromRemote, remote) /\ remote[r] \in RemoteType
      /\ fromRemote[r] \in Seq(Messages(FromKinds)) /\ remote \in [Remote -> RemoteType]
      /\ fromRemote \in [Remote -> Seq(Messages(FromKinds))]
  BY DEF Inv
<1>2. /\ c \in Messages(FromKinds) /\ c.kind = "CHOKE"
      /\ m \in Messages(FromKinds) /\ m.kind = "CLOSE"
  <2>1. c \in Messages(FromKinds) /\ c.kind = "CHOKE"
    BY StateMsgIs DEF FromKinds
  <2>2. m \in Messages(FromKinds) /\ m.kind = "CLOSE"
    BY MsgTypes DEF FromKinds
  <2> QED BY <2>1, <2>2
<1>3. w \in Seq(Messages(FromKinds))
  <2> HIDE DEF c
  <2> QED BY <1>1, <1>2
<1>4. /\ peer.thread[r].conn = "OPEN" /\ ~remote[r].closed
      /\ peer' = peer /\ fromRemote' = h /\ remote' = k
  <2>1. /\ peer.thread[r].conn = "OPEN" /\ ~remote[r].closed /\ peer' = peer
        /\ remote' = [remote EXCEPT ![r].closed = TRUE, ![r].amChoking = TRUE]
        /\ fromRemote' = [fromRemote EXCEPT ![r] = w \o <<m>>]
    BY DEF RemoteCloses, Connected
  <2>2. remote' = k
    BY <2>1, <1>1 DEF RemoteType
  <2>3. w \o <<m>> = Append(w, m)
    <3> HIDE DEF w, m
    <3> QED BY <1>2, <1>3, AppendIsConcat
  <2>4. fromRemote' = h
    BY <2>1, <2>3
  <2> QED BY <2>1, <2>2, <2>4
<1>5. /\ a.amChoking /\ ~a.closed
      /\ n \in RemoteType /\ n.amChoking /\ n.closed
  BY <1>1, <1>4 DEF RemoteType
<1>6. Wire(peer, fromRemote[r], remote[r], r)
  BY <1>1 DEF Fine, PeerOK
<1>7. \E x : Wire(peer, w, x, r) /\ x.amChoking /\ ~x.closed
  <2>1. CASE remote[r].amChoking
    <3>1. Wire(peer, w, remote[r], r)
      BY <2>1, <1>6
    <3> QED BY <2>1, <3>1, <1>4
  <2>2. CASE ~remote[r].amChoking
    <3> HIDE DEF a, c
    <3>1. Wire(peer, Append(fromRemote[r], c), a, r)
      BY <2>2, <1>1, <1>2, <1>4, <1>5, <1>6, ChokeAdded
    <3>2. Wire(peer, w, a, r)
      BY <2>2, <3>1
    <3> QED BY <3>2, <1>5
  <2> QED BY <2>1, <2>2
<1>8. Wire(peer, Append(w, m), n, r)
  <2>1. PICK x : Wire(peer, w, x, r) /\ x.amChoking /\ ~x.closed
    BY <1>7
  <2> HIDE DEF w, m, n
  <2> QED BY <2>1, <1>2, <1>3, <1>4, <1>5, CloseAdded
<1> HIDE DEF w, m, n
<1>9. /\ h \in [Remote -> Seq(Messages(FromKinds))] /\ h[r] = Append(w, m)
      /\ \A q \in Remote \ {r} : h[q] = fromRemote[q]
  <2>1. Append(w, m) \in Seq(Messages(FromKinds))
    BY <1>2, <1>3
  <2> QED BY <2>1, <1>1
<1>10. /\ k \in [Remote -> RemoteType] /\ k[r] = n /\ \A q \in Remote \ {r} : k[q] = remote[q]
  BY <1>1, <1>5, RemoteSet
<1> HIDE DEF h, k
<1>11. \A q \in Remote : Wire(peer, h[q], k[q], q)
  <2>1. Wire(peer, h[r], k[r], r)
    BY <1>8, <1>9, <1>10
  <2>2. \A q \in Remote : Wire(peer, fromRemote[q], remote[q], q)
    BY <1>1 DEF Fine, PeerOK
  <2>3. \A q \in Remote \ {r} : Wire(peer, h[q], k[q], q)
    BY <2>2, <1>9, <1>10
  <2> QED BY <2>1, <2>3
<1>12. Fine(peer, h, k)
  BY <1>1, <1>11 DEF Fine, PeerOK
<1> QED BY <1>4, <1>9, <1>10, <1>12 DEF Inv

LEMMA NextInv == ASSUME SlowChoking = TRUE PROVE SwarmInv /\ [Next]_vars => SwarmInv'
<1> SUFFICES ASSUME SwarmInv, [Next]_vars PROVE SwarmInv'
  OBVIOUS
<1>1. Inv(peer, fromRemote, remote)
  BY InvNow
<1>2. Inv(peer', fromRemote', remote')
  <2>1. CASE UNCHANGED vars
    <3>1. peer' = peer /\ fromRemote' = fromRemote /\ remote' = remote
      BY <2>1 DEF vars
    <3> QED BY <3>1, <1>1
  <2>2. CASE SelfMessage
    BY <2>2, <1>1, SelfMessageKeeps
  <2>3. ASSUME NEW r \in Remote, PeerEvent(r)
        PROVE  Inv(peer', fromRemote', remote')
    <3>1. CASE Connect(r)
      BY <3>1, <1>1, ConnectKeeps
    <3>2. CASE Receive(r)
      BY <3>2, <1>1, ReceiveKeeps
    <3>3. CASE Closed(r)
      BY <3>3, <1>1, ClosedKeeps
    <3> QED BY <2>3, <3>1, <3>2, <3>3 DEF PeerEvent
  <2>4. ASSUME NEW r \in Remote, RemoteEvent(r)
        PROVE  Inv(peer', fromRemote', remote')
    <3>1. CASE RemoteReceives(r)
      BY <3>1, <1>1, ReceivesKeeps
    <3>2. CASE RemoteUnchokes(r)
      BY <3>2, <1>1, UnchokesKeeps
    <3>3. CASE RemoteChokes(r)
      BY <3>3, <1>1, ChokesKeeps
    <3>4. CASE RemoteGains(r)
      BY <3>4, <1>1, GainsKeeps
    <3>5. CASE RemoteCloses(r)
      BY <3>5, <1>1, ClosesKeeps
    <3> QED BY <2>4, <3>1, <3>2, <3>3, <3>4, <3>5 DEF RemoteEvent
  <2> QED BY <2>1, <2>2, <2>3, <2>4 DEF Next
<1> QED BY <1>2, InvNext

-----------------------------------------------------------------------------
(* What follows *)

LEMMA CountDistinct ==
  ASSUME NEW S, NEW q \in Seq(S), Distinct(q)
  PROVE  Cardinality(ToSet(q)) = Len(q)
<1>1. Len(q) \in Nat /\ DOMAIN q = 1 .. Len(q)
  OBVIOUS
<1>2. q \in [1 .. Len(q) -> ToSet(q)]
  BY <1>1 DEF ToSet
<1>3. q \in Injection(1 .. Len(q), ToSet(q))
  BY <1>1, <1>2 DEF Distinct, Injection, IsInjective
<1>4. q \in Surjection(1 .. Len(q), ToSet(q))
  BY <1>1, <1>2 DEF ToSet, Surjection
<1>5. ExistsBijection(1 .. Len(q), ToSet(q))
  BY <1>3, <1>4 DEF ExistsBijection, Bijection
<1> QED BY <1>1, <1>5, FS_CountingElements

LEMMA InvTracks == SwarmInv => RequestsTracked
<1> SUFFICES ASSUME SwarmInv PROVE RequestsTracked
  OBVIOUS
<1>1. peer \in PeerType /\ Books(peer)
  BY DEF SwarmInv, PeerOK
<1>2. Pending = PendingOf(peer) /\ \A r \in Remote : RequestsOf(r) = Req(peer, r)
  BY DEF Pending, PendingOf, RequestsOf, Req
<1>3. peer.state \in {"NORMAL", "ENDGAME", "SEEDING"} /\ peer.localBitfield \in BitFieldType
  BY <1>1 DEF PeerType
<1>4. Counted(bf)
  BY <1>1 DEF Books, bf
<1>5. peer.state = "NORMAL" => Marks(bf, Pending) /\ Orders(peer)
  BY <1>1, <1>2 DEF Books, bf
<1>6. /\ bf.numRemainingBlocks = Cardinality((Piece \X Block) \ bf.blockfield)
      /\ bf.numRemainingPieces = Cardinality(Piece \ bf.bitfield)
      /\ \A p \in Piece : p \in bf.bitfield <=> BlocksOf(p) \subseteq bf.blockfield
  BY <1>4 DEF Counted, Entry
<1>7. peer.state = "NORMAL" =>
        /\ \A p \in Piece : bf.currentlyRequested[p] = Cardinality(Pending \cap BlocksOf(p))
        /\ bf.numNonRequestedNonAvailableBlocks
                = Cardinality((Piece \X Block) \ (bf.requested \cup bf.blockfield))
  BY <1>5 DEF Marks, Entry
<1>8. ASSUME ~peer.enableEndGameMode
      PROVE  bf.requested \ bf.blockfield = Pending \ bf.blockfield
  <2>1. peer.state # "ENDGAME"
    BY <1>1, <1>8 DEF Books
  <2>2. CASE peer.state = "NORMAL"
    <3>1. bf.requested \ bf.blockfield = Pending
      BY <2>2, <1>5 DEF Marks
    <3> QED BY <3>1
  <2>3. CASE peer.state = "SEEDING"
    <3>1. bf.blockfield = Entry
      BY <2>3, <1>1 DEF Books, bf
    <3>2. bf.requested \subseteq Entry
      BY <1>3 DEF BitFieldType, bf
    <3>3. \A r \in Remote : RequestsOf(r) \subseteq Entry
      <4> TAKE r \in Remote
      <4>1. peer.thread[r].requests \in Seq(Entry)
        BY <1>1 DEF PeerType, ThreadType
      <4> QED BY <4>1 DEF RequestsOf, ToSet
    <3>4. Pending \subseteq Entry
      BY <3>3 DEF Pending
    <3> QED BY <3>1, <3>2, <3>4
  <2> QED BY <2>1, <2>2, <2>3, <1>3
<1>9. BlocksCounted
  BY <1>6, <1>7, <1>8 DEF BlocksCounted
<1>10. OneThreadPerPiece
  <2> SUFFICES ASSUME peer.state = "NORMAL"
               PROVE  /\ \A r \in Remote : /\ Cardinality(RequestsOf(r)) = Len(peer.thread[r].requests)
                                           /\ Len(peer.thread[r].requests) <= RequestQueueDepth
                      /\ \A q, r \in Remote : \A e \in RequestsOf(q), f \in RequestsOf(r) :
                              e[1] = f[1] => q = r
    BY DEF OneThreadPerPiece
  <2>1. Orders(peer)
    BY <1>5
  <2>2. ASSUME NEW r \in Remote
        PROVE  /\ Cardinality(RequestsOf(r)) = Len(peer.thread[r].requests)
               /\ Len(peer.thread[r].requests) <= RequestQueueDepth
    <3>1. peer.thread[r].requests \in Seq(Entry)
      BY <1>1 DEF PeerType, ThreadType
    <3>2. Distinct(peer.thread[r].requests) /\ Len(peer.thread[r].requests) <= RequestQueueDepth
      BY <2>1 DEF Orders
    <3>3. Cardinality(ToSet(peer.thread[r].requests)) = Len(peer.thread[r].requests)
      BY <3>1, <3>2, CountDistinct
    <3> QED BY <3>2, <3>3 DEF RequestsOf
  <2>3. \A q, r \in Remote : \A e \in RequestsOf(q), f \in RequestsOf(r) : e[1] = f[1] => q = r
    BY <2>1, <1>2 DEF Orders, OwnPieces
  <2> QED BY <2>2, <2>3
<1> QED BY <1>9, <1>10 DEF RequestsTracked

LEMMA InvSendsOnce == SwarmInv => NothingSentTwice
<1> SUFFICES ASSUME SwarmInv, peer.state = "NORMAL", NEW r \in Remote
             PROVE  LET sent  == fromRemote[r]
                        BlockAt(i) == <<sent[i].index, sent[i].begin>>
                        sending == {i \in DOMAIN sent : sent[i].kind = "PIECE"}
                    IN  /\ peer.thread[r].conn = "OPEN" => \A i \in sending : BlockAt(i) \in RequestsOf(r)
                        /\ \A i, j \in sending : BlockAt(i) = BlockAt(j) => i = j
  BY DEF NothingSentTwice
<1> DEFINE q == fromRemote[r]
<1>1. peer \in PeerType /\ Wire(peer, q, remote[r], r)
  BY DEF SwarmInv, PeerOK
<1>2. Phase(peer.thread[r], Requesting(peer, r), q, remote[r]) /\ Underway(peer, q, r)
  BY <1>1 DEF Wire
<1>3. peer.thread[r].peerChoking => At(q, "PIECE") = {}
  BY <1>2 DEF Phase
<1>4. ~peer.thread[r].peerChoking => BlocksIn(q, "PIECE") \subseteq Req(peer, r) /\ OnceIn(q, "PIECE")
  BY <1>2 DEF Underway
<1>5. \A i \in At(q, "PIECE") : BlockOf(q[i]) \in Req(peer, r)
  BY <1>3, <1>4 DEF BlocksIn
<1>6. \A i, j \in At(q, "PIECE") : BlockOf(q[i]) = BlockOf(q[j]) => i = j
  BY <1>3, <1>4 DEF OnceIn
<1> QED BY <1>5, <1>6 DEF At, BlockOf, RequestsOf, Req

LEMMA InvAnnounces == SwarmInv => PiecesAnnounced
<1> SUFFICES ASSUME SwarmInv, NEW r \in Remote, Established(peer, r)
             PROVE  /\ bf.bitfield \subseteq peer.thread[r].announced
                    /\ Idle /\ ~Completed(peer) /\ AmInterested(peer, r) => peer.thread[r].amInterested
  BY DEF PiecesAnnounced
<1>1. Threads(peer) /\ Told(peer, r)
  BY DEF SwarmInv, PeerOK
<1>2. bf.bitfield \subseteq peer.thread[r].announced
  BY <1>1 DEF Threads, Established, bf
<1>3. ASSUME Idle, ~Completed(peer), AmInterested(peer, r) PROVE peer.thread[r].amInterested
  <2>1. ~News(peer, r)
    BY <1>3, NoAgenda DEF Idle
  <2> QED BY <2>1, <1>1, <1>3 DEF Told
<1> QED BY <1>2, <1>3

-----------------------------------------------------------------------------
(* The bit field and the threads never disagree.  Whatever the order in which blocks, chokes,      *)
(* unchokes and closed connections arrive, whenever the end game begins and whoever leaves:        *)
(* numRemainingBlocks and numRemainingPieces count exactly what is missing, a piece is available   *)
(* just when all its blocks are, outside the end game a block is marked as requested just when one *)
(* thread, and no other, has it pending, and the counters of requests agree.                       *)
THEOREM RequestsStayTracked == ASSUME SlowChoking = TRUE PROVE Spec => []RequestsTracked
<1>1. SwarmInit => SwarmInv
  BY InitInv
<1>2. SwarmInv /\ [Next]_vars => SwarmInv'
  BY NextInv
<1>3. SwarmInv => RequestsTracked
  BY InvTracks
<1> QED BY <1>1, <1>2, <1>3, PTL DEF Spec

(* No block crosses the network twice: outside the end game, every block on its way over a         *)
(* connection is pending there, and is on its way once, because dataArrived(CHOKE_MSG) drops the   *)
(* requests that will not be served, and an unchoke does not overtake them.                        *)
THEOREM BlocksCrossOnce == ASSUME SlowChoking = TRUE PROVE Spec => []NothingSentTwice
<1>1. SwarmInit => SwarmInv
  BY InitInv
<1>2. SwarmInv /\ [Next]_vars => SwarmInv'
  BY NextInv
<1>3. SwarmInv => NothingSentTwice
  BY InvSendsOnce
<1> QED BY <1>1, <1>2, <1>3, PTL DEF Spec

(* Every peer connected has heard of each piece this peer has completed, and when nothing is left  *)
(* to do at the current time, each one that has a piece this peer lacks has been told INTERESTED,  *)
(* without which it would never unchoke this peer.                                                 *)
THEOREM PeersHear == ASSUME SlowChoking = TRUE PROVE Spec => []PiecesAnnounced
<1>1. SwarmInit => SwarmInv
  BY InitInv
<1>2. SwarmInv /\ [Next]_vars => SwarmInv'
  BY NextInv
<1>3. SwarmInv => PiecesAnnounced
  BY InvAnnounces
<1> QED BY <1>1, <1>2, <1>3, PTL DEF Spec
=============================================================================
