------------------------ MODULE BTConnections_proofs ------------------------
(***************************************************************************)
(* Proofs about BTConnections and BTChoking: the table of a peer and its   *)
(* counters agree with its threads, two peers use one connection, and a    *)
(* choking round serves the fastest.                                       *)
(***************************************************************************)
EXTENDS BTConnections, BTChoking, FiniteSetTheorems, SequenceTheorems, WellFoundedInduction, TLAPS

(* What is under way *)

Kinds == {"SYN", "ESTABLISHED", "REFUSED", "ACK", "HANDSHAKE", "CLOSED", "ACKED"}
Messages == Connection \X Kinds

Back(c) == <<c[2], c[1]>>
On(w) == {w[i] : i \in 1 .. Len(w)}
Once(w) == \A i, j \in 1 .. Len(w) : w[i] = w[j] => i = j
Before(w, m, n) == \A i, j \in 1 .. Len(w) : w[i] = m /\ w[j] = n => i < j

\* What is under way to endpoint e.
In(e) == {m \in Kinds : <<e[1], m>> \in On(wire[Way(e)])}

\* A handler is told of a connection before anything of it arrives, and of its end last.
Order == {<<"ACK", "HANDSHAKE">>, <<"ACK", "CLOSED">>, <<"HANDSHAKE", "CLOSED">>}
Sorted(w, c) == \A o \in Order : Before(w, <<c, o[1]>>, <<c, o[2]>>)

WireInv ==
  /\ wire \in [Connection -> Seq(Messages)]
  /\ \A c \in Connection : /\ Once(wire[c])
                           /\ \A m \in On(wire[c]) : m[1] \in {c, Back(c)}
                           /\ Sorted(wire[c], c) /\ Sorted(wire[c], Back(c))

----------------------------------------------------------------------------
(* The life of a connection *)

ThreadRecords == [state : ToSet(States), id : Peer \cup Connection \cup {"none"},
                  closed : BOOLEAN, acked : BOOLEAN, peerClosed : BOOLEAN]
Entries == [conn : Connection, id : Peer \cup Connection]
Bases == [current : Int, pending : Int, listening : BOOLEAN, exiting : BOOLEAN,
          peerState : [Peer -> Seq(Entries)], peers : SUBSET Peer, leaving : BOOLEAN, responses : Int]

Live(t) == t.state \in {"CONNECTED", "ACTIVE_HANDSHAKE", "HANDSHAKE_COMPLETE"}
Gone(t) == t.state = "NONE"
Fresh(t) == ~t.closed /\ ~t.acked /\ ~t.peerClosed

Free(A, B, toA, toB) == A = NoThread /\ B = NoThread /\ toA = {} /\ toB = {}

Opening(A, B, toA, toB) ==
  /\ A.state \in {"INITIAL", "EARLY_ABORTING"} /\ Fresh(A) /\ B = NoThread
  /\ \/ toB = {"SYN"} /\ toA = {}
     \/ toB = {} /\ toA = {"ESTABLISHED"}
     \/ toB = {} /\ toA = {"REFUSED"}

\* The caller has its connection, the peer called does not know yet.
HalfOpen(A, B, toA, toB) ==
  /\ A.state \in {"INITIAL", "EARLY_ABORTING", "ACTIVE_ABORTING", "ACTIVE_HANDSHAKE"}
  /\ A.closed <=> ~Live(A)
  /\ ~A.acked /\ ~A.peerClosed
  /\ B = NoThread
  /\ toA = {}
  /\ "ACK" \in toB /\ toB \subseteq {"ACK", "HANDSHAKE", "CLOSED"}
  /\ "CLOSED" \in toB <=> A.closed

\* The state of an end t whose other end is o, with the messages to t.
End(t, o, to) ==
  IF Gone(t) THEN t = NoThread /\ to = {}
  ELSE /\ "CLOSED" \in to <=> o.closed /\ ~t.peerClosed
       /\ "ACKED" \in to <=> t.closed /\ ~t.acked /\ (o.peerClosed \/ Gone(o))
       /\ t.acked => t.closed /\ (o.peerClosed \/ Gone(o))
       /\ t.peerClosed => t.closed /\ (o.closed \/ Gone(o))
       /\ Gone(o) => t.peerClosed
       /\ "HANDSHAKE" \in to => ~t.peerClosed
       /\ t.closed <=> ~Live(t)

Open(A, B, toA, toB) ==
  /\ toA \subseteq {"HANDSHAKE", "CLOSED", "ACKED"} /\ toB \subseteq {"HANDSHAKE", "CLOSED", "ACKED"}
  /\ ~(Gone(A) /\ Gone(B))
  /\ End(A, B, toA) /\ End(B, A, toB)
  /\ A.state # "CONNECTED" /\ B.state # "ACTIVE_HANDSHAKE"
  /\ "HANDSHAKE" \in toB => B.state # "HANDSHAKE_COMPLETE"
  /\ "HANDSHAKE" \in toA \cup toB => A.state # "HANDSHAKE_COMPLETE"
  /\ ~("HANDSHAKE" \in toA \cap toB)

Linked(A, B, toA, toB) ==
  \/ Free(A, B, toA, toB) \/ Opening(A, B, toA, toB)
  \/ HalfOpen(A, B, toA, toB) \/ Open(A, B, toA, toB)

LinkInv ==
  \A c \in Connection :
    Linked(thread[ActiveEnd(c)], thread[PassiveEnd(c)], In(ActiveEnd(c)), In(PassiveEnd(c)))

\* Threads of a peer that exits have been told to close.
ExitInv ==
  \A e \in Endpoint :
    /\ thread[e].state = "EARLY_ABORTING" => base[e[2]].exiting
    /\ base[e[2]].exiting /\ e = ActiveEnd(e[1]) => thread[e].state # "INITIAL" /\ ~Live(thread[e])

----------------------------------------------------------------------------
(* The table of a peer *)

\* Each peer x has two threads with a peer y, that of the connection it has opened and
\* that of the one it has accepted.
Twin(e) == <<Back(e[1]), e[2]>>

\* The identities in the entries s of x about y are those of the threads A and P.
Identities(s, A, P) ==
  /\ Gone(A) /\ Gone(P) => s = <<>>
  /\ ~Gone(A) /\ Gone(P) => Len(s) = 1 /\ s[1].id = A.id
  /\ Gone(A) /\ ~Gone(P) => Len(s) = 1 /\ s[1].id = P.id
  /\ ~Gone(A) /\ ~Gone(P) => /\ Len(s) = 2
                             /\ \/ s[1].id = A.id /\ s[2].id = P.id
                                \/ s[1].id = P.id /\ s[2].id = A.id

\* While neither exits, the entry of the connection that x has opened is the first.
InOrder(c, s, A, P) ==
  /\ ~Gone(A) => s[1] = [conn |-> c, id |-> A.id]
  /\ ~Gone(P) => s[Len(s)] = [conn |-> Back(c), id |-> P.id]

Stay(c) == ~base[c[1]].exiting /\ ~base[c[2]].exiting

\* What x = c[1] has in its table about y = c[2].
Row(c, stay, s, A, P) ==
  /\ ~Gone(A) => A.id = c[2]
  /\ ~Gone(P) => P.id \in {Back(c), c[2]}
  /\ Identities(s, A, P)
  /\ stay => InOrder(c, s, A, P)

TableInv ==
  /\ \A x \in Peer : base[x].peerState[x] = <<>>
  /\ \A c \in Connection :
       Row(c, Stay(c), base[c[1]].peerState[c[2]], thread[ActiveEnd(c)], thread[PassiveEnd(Back(c))])

\* While neither exits, only a connection that the called peer has rejected is closed, and
\* of two connections one is not accepted by the peer called.
OrderlyInv ==
  \A c \in Connection : Stay(c) =>
    LET A == thread[ActiveEnd(c)]  P == thread[PassiveEnd(c)]
    IN  /\ A.closed => A.peerClosed
        /\ P.closed => P.id = c
        /\ ~(Live(A) /\ Live(P) /\ Live(thread[ActiveEnd(Back(c))]) /\ Live(thread[PassiveEnd(Back(c))]))

\* Threads are counted, and decide on the server socket.
Listens(b) ==
  /\ b.current + b.pending <= MinNumConnections /\ ~b.exiting => b.listening
  /\ b.current + b.pending + 1 >= MaxNumConnections \/ b.exiting => ~b.listening

CountInv ==
  \A x \in Peer : /\ IsFiniteSet(Threads(x))
                  /\ base[x].current + base[x].pending = Cardinality(Threads(x))
                  /\ Listens(base[x])

TypeInv == base \in [Peer -> Bases] /\ thread \in [Endpoint -> ThreadRecords]

ConnectionInv == TypeInv /\ WireInv /\ LinkInv /\ ExitInv /\ TableInv /\ OrderlyInv /\ CountInv

----------------------------------------------------------------------------
(* Sequences as sets of messages *)

LEMMA OnTail ==
  ASSUME NEW S, NEW w \in Seq(S), w # <<>>, Once(w)
  PROVE  /\ Tail(w) \in Seq(S) /\ Once(Tail(w))
         /\ On(Tail(w)) = On(w) \ {Head(w)}
         /\ Head(w) \in On(w)
         /\ \A m, n : Before(w, m, n) => Before(Tail(w), m, n)
         /\ \A m, n : Before(w, m, n) /\ m # n /\ n = Head(w) => m \notin On(w)
<1>1. /\ Tail(w) \in Seq(S) /\ Len(w) \in Nat \ {0} /\ Len(Tail(w)) = Len(w) - 1
      /\ \A i \in 1 .. Len(w) - 1 : Tail(w)[i] = w[i + 1]
      /\ Head(w) = w[1]
  OBVIOUS
<1>2. Once(Tail(w))
  BY <1>1 DEF Once
<1>3. On(Tail(w)) \subseteq On(w) \ {Head(w)}
  BY <1>1 DEF Once, On
<1>4. ASSUME NEW i \in 1 .. Len(w), w[i] # w[1] PROVE w[i] \in On(Tail(w))
  <2>1. i - 1 \in 1 .. Len(w) - 1 /\ Tail(w)[i - 1] = w[i]
    BY <1>1, <1>4
  <2> QED BY <1>1, <2>1 DEF On
<1>5. On(w) \ {Head(w)} \subseteq On(Tail(w))
  BY <1>1, <1>4 DEF On
<1>6. Head(w) \in On(w)
  BY <1>1 DEF On
<1>7. ASSUME NEW m, NEW n, Before(w, m, n) PROVE Before(Tail(w), m, n)
  <2> SUFFICES ASSUME NEW i \in 1 .. Len(Tail(w)), NEW j \in 1 .. Len(Tail(w)),
                      Tail(w)[i] = m, Tail(w)[j] = n
               PROVE  i < j
    BY DEF Before
  <2>1. i + 1 \in 1 .. Len(w) /\ j + 1 \in 1 .. Len(w) /\ w[i + 1] = m /\ w[j + 1] = n
    BY <1>1
  <2>2. i + 1 < j + 1
    BY <2>1, <1>7 DEF Before
  <2> QED BY <1>1, <2>2
<1>8. ASSUME NEW m, NEW n, Before(w, m, n), n = Head(w), m \in On(w) PROVE m = n
  BY <1>1, <1>8 DEF Before, On
<1> QED BY <1>1, <1>2, <1>3, <1>5, <1>6, <1>7, <1>8

LEMMA OnAppended ==
  ASSUME NEW S, NEW w \in Seq(S), NEW v \in Seq(S), Once(w), Once(v), On(w) \cap On(v) = {}
  PROVE  /\ w \o v \in Seq(S) /\ Once(w \o v)
         /\ On(w \o v) = On(w) \cup On(v)
         /\ \A m, n : Before(w, m, n) /\ Before(v, m, n) /\ ~(m \in On(v) /\ n \in On(w))
                       => Before(w \o v, m, n)
<1> DEFINE u == w \o v
<1>1. /\ u \in Seq(S) /\ Len(u) = Len(w) + Len(v) /\ Len(w) \in Nat /\ Len(v) \in Nat
      /\ \A i \in 1 .. Len(w) : u[i] = w[i]
      /\ \A i \in Len(w) + 1 .. Len(w) + Len(v) : u[i] = v[i - Len(w)]
  OBVIOUS
<1>2. ASSUME NEW i \in 1 .. Len(u)
      PROVE  \/ i \in 1 .. Len(w) /\ u[i] = w[i] /\ u[i] \in On(w)
             \/ i - Len(w) \in 1 .. Len(v) /\ u[i] = v[i - Len(w)] /\ u[i] \in On(v)
  BY <1>1 DEF On
<1>3. ASSUME NEW i \in 1 .. Len(v) PROVE i + Len(w) \in 1 .. Len(u) /\ u[i + Len(w)] = v[i]
  BY <1>1
<1> HIDE DEF u
<1>4. Once(u)
  <2> SUFFICES ASSUME NEW i \in 1 .. Len(u), NEW j \in 1 .. Len(u), u[i] = u[j] PROVE i = j
    BY DEF Once
  <2>1. CASE i \in 1 .. Len(w) /\ u[i] = w[i] /\ u[i] \in On(w)
    BY <1>1, <1>2, <2>1 DEF Once
  <2>2. CASE i - Len(w) \in 1 .. Len(v) /\ u[i] = v[i - Len(w)] /\ u[i] \in On(v)
    <3>1. j - Len(w) \in 1 .. Len(v) /\ u[j] = v[j - Len(w)]
      BY <1>2, <2>2
    <3>2. i - Len(w) = j - Len(w)
      BY <2>2, <3>1 DEF Once
    <3> QED BY <1>1, <3>2
  <2> QED BY <1>2, <2>1, <2>2
<1>5. On(u) = On(w) \cup On(v)
  <2>1. On(u) \subseteq On(w) \cup On(v)
    BY <1>2 DEF On
  <2>2. On(w) \subseteq On(u)
    BY <1>1 DEF On
  <2>3. On(v) \subseteq On(u)
    BY <1>3 DEF On
  <2> QED BY <2>1, <2>2, <2>3
<1>6. ASSUME NEW m, NEW n, Before(w, m, n), Before(v, m, n), ~(m \in On(v) /\ n \in On(w))
      PROVE  Before(u, m, n)
  <2> SUFFICES ASSUME NEW i \in 1 .. Len(u), NEW j \in 1 .. Len(u), u[i] = m, u[j] = n PROVE i < j
    BY DEF Before
  <2>1. CASE i \in 1 .. Len(w) /\ u[i] = w[i] /\ u[i] \in On(w)
    BY <1>1, <1>2, <1>6, <2>1 DEF Before
  <2>2. CASE i - Len(w) \in 1 .. Len(v) /\ u[i] = v[i - Len(w)] /\ u[i] \in On(v)
    <3>1. j - Len(w) \in 1 .. Len(v) /\ u[j] = v[j - Len(w)]
      BY <1>2, <1>6, <2>2
    <3>2. i - Len(w) < j - Len(w)
      BY <1>6, <2>2, <3>1 DEF Before
    <3> QED BY <1>1, <3>2
  <2> QED BY <1>2, <2>1, <2>2
<1> QED BY <1>1, <1>4, <1>5, <1>6 DEF u
----------------------------------------------------------------------------
(* Connections and their ends *)

LEMMA ConnectionParts ==
  ASSUME NEW c \in Connection
  PROVE  /\ c = <<c[1], c[2]>> /\ c[1] \in Peer /\ c[2] \in Peer /\ c[1] # c[2]
         /\ Back(c) \in Connection /\ Back(Back(c)) = c /\ Back(c) # c
         /\ ActiveEnd(c) \in Endpoint /\ PassiveEnd(c) \in Endpoint
         /\ ActiveEnd(c)[1] = c /\ PassiveEnd(c)[1] = c
         /\ ActiveEnd(c)[2] = c[1] /\ PassiveEnd(c)[2] = c[2]
         /\ ActiveEnd(c) # PassiveEnd(c)
         /\ Other(ActiveEnd(c)) = c[2] /\ Other(PassiveEnd(c)) = c[1]
         /\ Opposite(ActiveEnd(c)) = PassiveEnd(c) /\ Opposite(PassiveEnd(c)) = ActiveEnd(c)
         /\ Way(ActiveEnd(c)) = c /\ Way(PassiveEnd(c)) = Back(c)
<1>1. c = <<c[1], c[2]>> /\ c[1] \in Peer /\ c[2] \in Peer /\ c[1] # c[2]
  BY DEF Connection
<1>2. ActiveEnd(c) \in Endpoint /\ PassiveEnd(c) \in Endpoint
  BY <1>1 DEF Endpoint, ActiveEnd, PassiveEnd
<1>3. Back(c) \in Connection /\ Back(Back(c)) = c /\ Back(c) # c
  BY <1>1 DEF Connection, Back
<1> QED BY <1>1, <1>2, <1>3 DEF ActiveEnd, PassiveEnd, Other, Opposite, Way, Back

LEMMA EndpointParts ==
  ASSUME NEW e \in Endpoint
  PROVE  /\ e[1] \in Connection /\ e[2] \in Peer /\ Other(e) \in Peer /\ Other(e) # e[2]
         /\ e = ActiveEnd(e[1]) \/ e = PassiveEnd(e[1])
         /\ Opposite(e) \in Endpoint /\ Opposite(e)[1] = e[1] /\ Opposite(e)[2] = Other(e)
         /\ Way(e) \in Connection /\ Way(Opposite(e)) = Back(Way(e)) /\ Way(Opposite(e)) # Way(e)
         /\ Way(Opposite(e)) \in Connection
         /\ e[1] \in {Way(e), Back(Way(e))}
<1>1. e[1] \in Connection /\ e = <<e[1], e[2]>> /\ e[2] \in {e[1][1], e[1][2]}
  BY DEF Endpoint
<1>2. e = ActiveEnd(e[1]) \/ e = PassiveEnd(e[1])
  BY <1>1 DEF ActiveEnd, PassiveEnd
<1> DEFINE c == e[1]
<1>3. c \in Connection
  BY <1>1
<1> HIDE DEF c
<1>4. e = ActiveEnd(c) \/ e = PassiveEnd(c)
  BY <1>2 DEF c
<1>5. CASE e = ActiveEnd(c)
  BY <1>3, <1>5, ConnectionParts DEF c
<1>6. CASE e = PassiveEnd(c)
  BY <1>3, <1>6, ConnectionParts DEF c
<1> QED BY <1>4, <1>5, <1>6

----------------------------------------------------------------------------
(* A message arrives and is answered *)

\* The answer ms may follow what is under way already.
Fits(ms, in) ==
  /\ ms \in Seq(Kinds) /\ Once(ms) /\ On(ms) \cap in = {}
  /\ \A o \in Order : Before(ms, o[1], o[2]) /\ ~(o[1] \in On(ms) /\ o[2] \in in)

LEMMA OnTagged ==
  ASSUME NEW e \in Endpoint, NEW ms \in Seq(Kinds), Once(ms)
  PROVE  LET t == Tagged(e, ms) IN
         /\ t \in Seq(Messages) /\ Once(t)
         /\ On(t) = {<<e[1], m>> : m \in On(ms)}
         /\ \A m, n : Before(ms, m, n) => Before(t, <<e[1], m>>, <<e[1], n>>)
<1> DEFINE t == Tagged(e, ms)
<1>1. e[1] \in Connection
  BY EndpointParts
<1>2. t \in Seq(Messages) /\ Len(t) = Len(ms) /\ \A i \in 1 .. Len(ms) : t[i] = <<e[1], ms[i]>>
  BY <1>1 DEF Tagged, Messages
<1> HIDE DEF t
<1>3. Once(t)
  BY <1>2 DEF Once
<1>4. On(t) = {<<e[1], m>> : m \in On(ms)}
  BY <1>2 DEF On
<1>5. \A m, n : Before(ms, m, n) => Before(t, <<e[1], m>>, <<e[1], n>>)
  BY <1>2 DEF Before
<1> QED BY <1>2, <1>3, <1>4, <1>5 DEF t

\* Whatever is taken from one end of a connection and sent to the other, nothing else moves.
LEMMA ReplyMoves ==
  ASSUME WireInv, NEW e \in Endpoint, NEW m \in Kinds, NEW ms,
         Arrives(e, m), Reply(e, ms), Fits(ms, In(Opposite(e)))
  PROVE  /\ WireInv'
         /\ m \in In(e)
         /\ In(e)' = In(e) \ {m}
         /\ In(Opposite(e))' = In(Opposite(e)) \cup On(ms)
         /\ \A f \in Endpoint : f[1] # e[1] => In(f)' = In(f)
         /\ \A o \in Order : o[2] = m => o[1] \notin In(e)
<1> DEFINE c == e[1]
           k == Way(e)
           l == Way(Opposite(e))
           w == wire[k]
           v == wire[l]
           t == Tagged(e, ms)
<1>1. /\ c \in Connection /\ k \in Connection /\ l \in Connection /\ k # l /\ l = Back(k)
      /\ c \in {k, Back(k)} /\ c \in {l, Back(l)} /\ Opposite(e) \in Endpoint
      /\ Opposite(e)[1] = c
  <2>1. Way(e) \in Connection
    BY EndpointParts
  <2>2. Back(Back(Way(e))) = Way(e)
    BY <2>1, ConnectionParts
  <2> QED BY <2>2, EndpointParts
<1>2. /\ w \in Seq(Messages) /\ v \in Seq(Messages) /\ Once(w) /\ Once(v)
      /\ \A n \in On(w) : n[1] \in {k, Back(k)}
      /\ \A n \in On(v) : n[1] \in {l, Back(l)}
      /\ Sorted(w, k) /\ Sorted(w, Back(k)) /\ Sorted(v, l) /\ Sorted(v, Back(l))
  BY <1>1 DEF WireInv
<1>3. w # <<>> /\ Head(w) = <<c, m>>
  BY DEF Arrives
<1>4. /\ ms \in Seq(Kinds) /\ Once(ms)
      /\ t \in Seq(Messages) /\ Once(t) /\ On(t) = {<<c, n>> : n \in On(ms)}
      /\ \A n, o : Before(ms, n, o) => Before(t, <<c, n>>, <<c, o>>)
  BY OnTagged DEF Fits
<1>5. On(w) \cap {<<c, n>> : n \in Kinds} = {<<c, n>> : n \in In(e)}
  BY DEF In
<1>6. On(v) \cap {<<c, n>> : n \in Kinds} = {<<c, n>> : n \in In(Opposite(e))}
  BY <1>1 DEF In
<1>7. On(ms) \subseteq Kinds
  BY <1>4 DEF On
<1>8. On(v) \cap On(t) = {}
  BY <1>4, <1>6, <1>7 DEF Fits
<1>9. /\ wire' \in [Connection -> Seq(Messages)]
      /\ wire'[k] = Tail(w) /\ wire'[l] = v \o t
      /\ \A d \in Connection : d # k /\ d # l => wire'[d] = wire[d]
  <2>1. wire \in [Connection -> Seq(Messages)]
    BY DEF WireInv
  <2>2. Tail(w) \in Seq(Messages) /\ v \o t \in Seq(Messages)
    BY <1>2, <1>3, <1>4
  <2>3. wire' = [wire EXCEPT ![k] = Tail(@), ![l] = @ \o t]
    BY DEF Reply
  <2> HIDE DEF k, l, t
  <2> QED BY <1>1, <2>1, <2>2, <2>3
<1> HIDE DEF w, v, t, c, k, l
<1>10. /\ Once(Tail(w)) /\ On(Tail(w)) = On(w) \ {<<c, m>>} /\ <<c, m>> \in On(w)
       /\ \A n, o : Before(w, n, o) => Before(Tail(w), n, o)
       /\ \A n, o : Before(w, n, o) /\ n # o /\ o = <<c, m>> => n \notin On(w)
  BY <1>2, <1>3, OnTail
<1>11. /\ Once(v \o t) /\ On(v \o t) = On(v) \cup On(t)
       /\ \A n, o : Before(v, n, o) /\ Before(t, n, o) /\ ~(n \in On(t) /\ o \in On(v))
                      => Before(v \o t, n, o)
  BY <1>2, <1>4, <1>8, OnAppended
<1>12. Sorted(v \o t, l) /\ Sorted(v \o t, Back(l))
  <2> SUFFICES ASSUME NEW d \in {l, Back(l)}, NEW o \in Order
               PROVE  Before(v \o t, <<d, o[1]>>, <<d, o[2]>>)
    BY DEF Sorted
  <2>1. Before(v, <<d, o[1]>>, <<d, o[2]>>)
    BY <1>2 DEF Sorted
  <2>2. CASE d = c
    <3>1. Before(ms, o[1], o[2]) /\ ~(o[1] \in On(ms) /\ o[2] \in In(Opposite(e)))
      BY DEF Fits
    <3>2. Before(t, <<d, o[1]>>, <<d, o[2]>>)
      BY <1>4, <2>2, <3>1
    <3>3. o[2] \in Kinds
      BY DEF Order, Kinds
    <3>4. ~(<<d, o[1]>> \in On(t) /\ <<d, o[2]>> \in On(v))
      BY <1>4, <1>6, <2>2, <3>1, <3>3
    <3> QED BY <1>11, <2>1, <3>2, <3>4
  <2>3. CASE d # c
    <3>1. <<d, o[1]>> \notin On(t)
      BY <1>4, <2>3
    <3>2. Before(t, <<d, o[1]>>, <<d, o[2]>>)
      BY <3>1 DEF Before, On
    <3> QED BY <1>11, <2>1, <3>1, <3>2
  <2> QED BY <2>2, <2>3
<1>13. Sorted(Tail(w), k) /\ Sorted(Tail(w), Back(k))
  BY <1>2, <1>10 DEF Sorted
<1>14. WireInv'
  <2> SUFFICES ASSUME NEW d \in Connection
               PROVE  /\ Once(wire'[d]) /\ \A n \in On(wire'[d]) : n[1] \in {d, Back(d)}
                      /\ Sorted(wire'[d], d) /\ Sorted(wire'[d], Back(d))
    BY <1>9 DEF WireInv
  <2>1. CASE d = k
    BY <1>2, <1>9, <1>10, <1>13, <2>1
  <2>2. CASE d = l
    <3>1. \A n \in On(t) : n[1] \in {l, Back(l)}
      BY <1>1, <1>4
    <3> QED BY <1>2, <1>9, <1>11, <1>12, <2>2, <3>1
  <2>3. CASE d # k /\ d # l
    BY <1>9, <2>3 DEF WireInv
  <2> QED BY <2>1, <2>2, <2>3
<1>15. m \in In(e) /\ In(e)' = In(e) \ {m}
  <2>1. \A n : n \in In(e) <=> n \in Kinds /\ <<c, n>> \in On(w)
    BY DEF In, c, w, k
  <2>2. \A n : n \in In(e)' <=> n \in Kinds /\ <<c, n>> \in On(Tail(w))
    BY <1>9 DEF In, c, k
  <2> QED BY <1>10, <2>1, <2>2
<1>16. In(Opposite(e))' = In(Opposite(e)) \cup On(ms)
  <2>1. \A n : n \in In(Opposite(e)) <=> n \in Kinds /\ <<c, n>> \in On(v)
    BY <1>1 DEF In, v, l
  <2>2. \A n : n \in In(Opposite(e))' <=> n \in Kinds /\ <<c, n>> \in On(v \o t)
    BY <1>1, <1>9 DEF In, l
  <2> QED BY <1>4, <1>7, <1>11, <2>1, <2>2
<1>17. ASSUME NEW f \in Endpoint, f[1] # c PROVE In(f)' = In(f)
  <2>1. Way(f) \in Connection
    BY EndpointParts
  <2>2. \A n : <<f[1], n>> \in On(wire'[Way(f)]) <=> <<f[1], n>> \in On(wire[Way(f)])
    <3>1. CASE Way(f) = k
      <4>1. wire'[Way(f)] = Tail(w) /\ wire[Way(f)] = w
        BY <1>9, <3>1 DEF w
      <4>2. \A n : <<f[1], n>> # <<c, m>>
        BY <1>17
      <4> QED BY <1>10, <4>1, <4>2
    <3>2. CASE Way(f) = l
      <4>1. wire'[Way(f)] = v \o t /\ wire[Way(f)] = v
        BY <1>9, <3>2 DEF v
      <4>2. \A n : <<f[1], n>> \notin On(t)
        BY <1>4, <1>17
      <4> QED BY <1>11, <4>1, <4>2
    <3>3. CASE Way(f) # k /\ Way(f) # l
      BY <1>9, <2>1, <3>3
    <3> QED BY <3>1, <3>2, <3>3
  <2> QED BY <2>2 DEF In
<1>18. ASSUME NEW o \in Order, o[2] = m PROVE o[1] \notin In(e)
  <2>1. Before(w, <<c, o[1]>>, <<c, m>>)
    BY <1>1, <1>2, <1>18 DEF Sorted
  <2>2. o[1] # o[2]
    BY DEF Order
  <2>3. <<c, o[1]>> \notin On(w)
    BY <1>10, <1>18, <2>1, <2>2
  <2> QED BY <2>3 DEF In, c, w, k
<1> QED BY <1>14, <1>15, <1>16, <1>17, <1>18 DEF c

\* The answers there are.
LEMMA FitsNone == \A in : Fits(<<>>, in) /\ On(<<>>) = {}
<1>1. <<>> \in Seq(Kinds) /\ Once(<<>>) /\ On(<<>>) = {} /\ \A m, n : Before(<<>>, m, n)
  BY DEF Once, On, Before
<1> QED BY <1>1 DEF Fits

LEMMA FitsOne ==
  ASSUME NEW in, NEW a \in Kinds, a \notin in, \A o \in Order : o[1] = a => o[2] \notin in
  PROVE  Fits(<<a>>, in) /\ On(<<a>>) = {a} /\ <<>> \o <<a>> = <<a>> /\ <<a>> \o <<>> = <<a>>
<1>1. <<a>> \in Seq(Kinds) /\ Once(<<a>>) /\ On(<<a>>) = {a}
  BY DEF Once, On
<1>2. \A o \in Order : Before(<<a>>, o[1], o[2])
  BY DEF Before, Order
<1>3. <<>> \o <<a>> = <<a>> /\ <<a>> \o <<>> = <<a>>
  OBVIOUS
<1> QED BY <1>1, <1>2, <1>3 DEF Fits

LEMMA FitsTwo ==
  ASSUME NEW in, NEW a \in Kinds, NEW b \in Kinds, a \notin in, b \notin in, a # b, <<b, a>> \notin Order,
         \A o \in Order : o[1] \in {a, b} => o[2] \notin in
  PROVE  /\ Fits(<<a>> \o <<b>>, in) /\ On(<<a>> \o <<b>>) = {a, b}
         /\ <<a>> \o <<b>> = <<a, b>>
<1>1. <<a, b>> \in Seq(Kinds) /\ <<a>> \o <<b>> = <<a, b>> /\ Len(<<a, b>>) = 2
  <2> DEFINE u == <<a>> \o <<b>>
             v == <<a, b>>
  <2>1. u \in Seq(Kinds) /\ Len(u) = 2 /\ u[1] = a /\ u[2] = b
    OBVIOUS
  <2>2. v \in Seq(Kinds) /\ Len(v) = 2 /\ v[1] = a /\ v[2] = b
    OBVIOUS
  <2> HIDE DEF u, v
  <2>3. u = v
    BY <2>1, <2>2, SeqEqual
  <2> QED BY <2>2, <2>3 DEF u, v
<1>2. Once(<<a, b>>) /\ On(<<a, b>>) = {a, b}
  BY DEF Once, On
<1>3. \A o \in Order : Before(<<a, b>>, o[1], o[2])
  <2> SUFFICES ASSUME NEW o \in Order, NEW i \in 1 .. 2, NEW j \in 1 .. 2,
                      <<a, b>>[i] = o[1], <<a, b>>[j] = o[2]
               PROVE  i < j
    BY <1>1 DEF Before
  <2>1. o[1] # o[2] /\ o = <<o[1], o[2]>>
    BY DEF Order
  <2>2. i # j
    BY <2>1
  <2>3. ~(i = 2 /\ j = 1)
    BY <2>1
  <2> QED BY <2>2, <2>3
<1> QED BY <1>1, <1>2, <1>3 DEF Fits

----------------------------------------------------------------------------
(* Steps in the life of a connection *)

LEMMA SynLinks ==
  ASSUME NEW A, NEW B, NEW toA, NEW toB, Linked(A, B, toA, toB), "SYN" \in toB
  PROVE  /\ toA = {}
         /\ \A m \in {"ESTABLISHED", "REFUSED"} : Linked(A, B, toA \cup {m}, toB \ {"SYN"})
<1>1. Opening(A, B, toA, toB) /\ toB = {"SYN"} /\ toA = {}
  BY DEF Linked, Free, Opening, HalfOpen, Open
<1> QED BY <1>1 DEF Linked, Opening

LEMMA EstablishedLinks ==
  ASSUME NEW A \in ThreadRecords, NEW B, NEW toA, NEW toB, Linked(A, B, toA, toB), "ESTABLISHED" \in toA
  PROVE  /\ toB = {} /\ ~Gone(A) /\ Gone(B) /\ ~Live(A) /\ ~Live(B)
         /\ A.state \in {"INITIAL", "EARLY_ABORTING"} /\ ~A.closed
         /\ LET in == toA \ {"ESTABLISHED"} IN
            /\ Linked([A EXCEPT !.closed = TRUE], B, in, toB \cup {"ACK", "CLOSED"})
            /\ Linked([A EXCEPT !.state = "ACTIVE_ABORTING", !.closed = TRUE], B, in, toB \cup {"ACK", "CLOSED"})
            /\ Linked([A EXCEPT !.state = "ACTIVE_HANDSHAKE"], B, in, toB \cup {"ACK", "HANDSHAKE"})
<1>1. Opening(A, B, toA, toB) /\ toB = {} /\ toA = {"ESTABLISHED"}
  BY DEF Linked, Free, Opening, HalfOpen, Open
<1>2. Fresh(A) /\ B = NoThread /\ A.state \in {"INITIAL", "EARLY_ABORTING"}
  BY <1>1 DEF Opening
<1> DEFINE C == [A EXCEPT !.closed = TRUE]
           D == [A EXCEPT !.state = "ACTIVE_ABORTING", !.closed = TRUE]
           E == [A EXCEPT !.state = "ACTIVE_HANDSHAKE"]
<1>3. /\ C.state = A.state /\ C.closed = TRUE /\ C.acked = A.acked /\ C.peerClosed = A.peerClosed
      /\ D.state = "ACTIVE_ABORTING" /\ D.closed = TRUE /\ D.acked = A.acked /\ D.peerClosed = A.peerClosed
      /\ E.state = "ACTIVE_HANDSHAKE" /\ E.closed = A.closed /\ E.acked = A.acked /\ E.peerClosed = A.peerClosed
  BY DEF ThreadRecords
<1> HIDE DEF C, D, E
<1>4. HalfOpen(C, B, {}, {"ACK", "CLOSED"})
  BY <1>2, <1>3 DEF HalfOpen, Live, Fresh
<1>5. HalfOpen(D, B, {}, {"ACK", "CLOSED"})
  BY <1>2, <1>3 DEF HalfOpen, Live, Fresh
<1>6. HalfOpen(E, B, {}, {"ACK", "HANDSHAKE"})
  BY <1>2, <1>3 DEF HalfOpen, Live, Fresh
<1>7. toA \ {"ESTABLISHED"} = {} /\ \A m : toB \cup m = m
  BY <1>1
<1>8. ~Gone(A) /\ Gone(B) /\ ~Live(A) /\ ~Live(B) /\ ~A.closed
  BY <1>2 DEF Gone, Live, NoThread, Fresh
<1> QED BY <1>1, <1>2, <1>4, <1>5, <1>6, <1>7, <1>8 DEF Linked, C, D, E

LEMMA RefusedLinks ==
  ASSUME NEW A, NEW B, NEW toA, NEW toB, Linked(A, B, toA, toB), "REFUSED" \in toA
  PROVE  ~Gone(A) /\ Linked(NoThread, B, toA \ {"REFUSED"}, toB)
<1>1. Opening(A, B, toA, toB) /\ toB = {} /\ toA = {"REFUSED"}
  BY DEF Linked, Free, Opening, HalfOpen, Open
<1> QED BY <1>1 DEF Linked, Opening, Free, Gone

\* The peer called gets to know of the connection.
LEMMA AckLinks ==
  ASSUME NEW A \in ThreadRecords, NEW B, NEW toA, NEW toB, Linked(A, B, toA, toB), "ACK" \in toB, NEW id
  PROVE  /\ toA = {} /\ Gone(B) /\ ~Live(B) /\ ~Gone(A)
         /\ Linked(A, [NewThread(id) EXCEPT !.closed = TRUE], toA \cup {"CLOSED"}, toB \ {"ACK"})
         /\ Linked(A, [NewThread(id) EXCEPT !.state = "CONNECTED"], toA, toB \ {"ACK"})
<1>1. HalfOpen(A, B, toA, toB)
  BY DEF Linked, Free, Opening, HalfOpen, Open
<1> DEFINE C == [NewThread(id) EXCEPT !.closed = TRUE]
           D == [NewThread(id) EXCEPT !.state = "CONNECTED"]
           in == toB \ {"ACK"}
<1>2. /\ C.state = "INITIAL" /\ C.closed = TRUE /\ C.acked = FALSE /\ C.peerClosed = FALSE
      /\ D.state = "CONNECTED" /\ D.closed = FALSE /\ D.acked = FALSE /\ D.peerClosed = FALSE
  BY DEF NewThread, NoThread
<1>3. ~Gone(A) /\ toA = {} /\ B = NoThread /\ A.state \notin {"CONNECTED", "HANDSHAKE_COMPLETE"}
  BY <1>1 DEF HalfOpen, Gone
<1>4. in \subseteq {"HANDSHAKE", "CLOSED"} /\ ("CLOSED" \in in <=> A.closed)
  BY <1>1 DEF HalfOpen
<1>5. (A.closed <=> ~Live(A)) /\ ~A.acked /\ ~A.peerClosed
  BY <1>1 DEF HalfOpen
<1>6. Gone(B) /\ ~Live(B)
  BY <1>3 DEF Gone, Live, NoThread
<1> HIDE DEF C, D, in
<1>7. Open(A, C, {"CLOSED"}, in)
  <2>1. End(A, C, {"CLOSED"})
    BY <1>2, <1>3, <1>5 DEF End, Gone
  <2>2. End(C, A, in)
    BY <1>2, <1>3, <1>4, <1>5 DEF End, Gone, Live
  <2> QED BY <1>2, <1>3, <1>4, <2>1, <2>2 DEF Open, Gone
<1>8. Open(A, D, {}, in)
  <2>1. End(A, D, {})
    BY <1>2, <1>3, <1>5 DEF End, Gone
  <2>2. End(D, A, in)
    BY <1>2, <1>3, <1>4, <1>5 DEF End, Gone, Live
  <2> QED BY <1>2, <1>3, <1>4, <2>1, <2>2 DEF Open, Gone
<1> QED BY <1>3, <1>6, <1>7, <1>8 DEF Linked, C, D, in

LEMMA EndCloses ==
  ASSUME NEW t, NEW o, NEW to, NEW from, End(t, o, to), End(o, t, from),
         "CLOSED" \in to, "HANDSHAKE" \notin to,
         NEW u, u.closed = TRUE, u.peerClosed = TRUE, u.acked = t.acked, ~Live(u), ~Gone(u)
  PROVE  LET new == {"ACKED"} \cup (IF t.closed THEN {} ELSE {"CLOSED"}) IN
         /\ ~Gone(t) /\ ~Gone(o) /\ new \cap from = {}
         /\ End(u, o, to \ {"CLOSED"}) /\ End(o, u, from \cup new)
<1>1. ~Gone(t) /\ o.closed /\ ~t.peerClosed
  BY DEF End
<1>2. ~Gone(o)
  BY <1>1 DEF End, NoThread
<1>3. "ACKED" \notin from /\ ~o.acked
  BY <1>1, <1>2 DEF End
<1>4. ~t.closed => "CLOSED" \notin from /\ ~o.peerClosed
  BY <1>1, <1>2 DEF End
<1>5. End(u, o, to \ {"CLOSED"})
  BY <1>1, <1>2 DEF End
<1>6. End(o, u, from \cup {"ACKED"} \cup (IF t.closed THEN {} ELSE {"CLOSED"}))
  BY <1>1, <1>2, <1>3, <1>4 DEF End
<1>7. from \cup {"ACKED"} \cup (IF t.closed THEN {} ELSE {"CLOSED"})
        = from \cup ({"ACKED"} \cup (IF t.closed THEN {} ELSE {"CLOSED"}))
  OBVIOUS
<1> QED BY <1>1, <1>2, <1>3, <1>4, <1>5, <1>6, <1>7

\* The first of a connection's ends to be looked at may be either.
Ends(e, t, o, to, from) == IF e = ActiveEnd(e[1]) THEN Linked(t, o, to, from) ELSE Linked(o, t, from, to)
OpenEnds(e, t, o, to, from) == IF e = ActiveEnd(e[1]) THEN Open(t, o, to, from) ELSE Open(o, t, from, to)

LEMMA OpenWhenClosing ==
  ASSUME NEW e, NEW t, NEW o, NEW to, NEW from, Ends(e, t, o, to, from), "ACK" \notin to,
         to \cap {"CLOSED", "ACKED", "HANDSHAKE"} # {} \/ (~Gone(t) /\ t.acked)
  PROVE  OpenEnds(e, t, o, to, from)
BY DEF Ends, OpenEnds, Linked, Free, Opening, HalfOpen, Fresh, Gone, NoThread

LEMMA OpenIsLinked ==
  ASSUME NEW e, NEW t, NEW o, NEW to, NEW from, OpenEnds(e, t, o, to, from)
  PROVE  Ends(e, t, o, to, from)
BY DEF Ends, OpenEnds, Linked

LEMMA OpenParts ==
  ASSUME NEW e, NEW t, NEW o, NEW to, NEW from, OpenEnds(e, t, o, to, from)
  PROVE  /\ End(t, o, to) /\ End(o, t, from) /\ ~(Gone(t) /\ Gone(o))
         /\ to \subseteq {"HANDSHAKE", "CLOSED", "ACKED"} /\ from \subseteq {"HANDSHAKE", "CLOSED", "ACKED"}
BY DEF OpenEnds, Open

LEMMA ClosedLinks ==
  ASSUME NEW e, NEW t, NEW o, NEW to, NEW from, Ends(e, t, o, to, from),
         "CLOSED" \in to, "ACK" \notin to, "HANDSHAKE" \notin to,
         NEW u, u.closed = TRUE, u.peerClosed = TRUE, u.acked = t.acked, ~Live(u), ~Gone(u)
  PROVE  LET new == {"ACKED"} \cup (IF t.closed THEN {} ELSE {"CLOSED"}) IN
         /\ ~Gone(t) /\ ~Gone(o) /\ new \cap from = {} /\ o.closed
         /\ Ends(e, u, o, to \ {"CLOSED"}, from \cup new)
<1> DEFINE new == {"ACKED"} \cup (IF t.closed THEN {} ELSE {"CLOSED"})
<1>1. OpenEnds(e, t, o, to, from)
  BY OpenWhenClosing
<1>2. /\ ~Gone(t) /\ ~Gone(o) /\ new \cap from = {}
      /\ End(u, o, to \ {"CLOSED"}) /\ End(o, u, from \cup new)
  BY <1>1, OpenParts, EndCloses
<1>3. o.closed
  BY <1>1, <1>2, OpenParts DEF End
<1>4. u.state \notin {"NONE", "CONNECTED", "ACTIVE_HANDSHAKE", "HANDSHAKE_COMPLETE"}
  BY DEF Live, Gone
<1>5. new \subseteq {"CLOSED", "ACKED"}
  OBVIOUS
<1> HIDE DEF new
<1>6. OpenEnds(e, u, o, to \ {"CLOSED"}, from \cup new)
  BY <1>1, <1>2, <1>4, <1>5 DEF OpenEnds, Open, Gone
<1> QED BY <1>2, <1>3, <1>6, OpenIsLinked DEF new

LEMMA AckedLinks ==
  ASSUME NEW e, NEW t \in ThreadRecords, NEW o, NEW to, NEW from, Ends(e, t, o, to, from),
         "ACKED" \in to, "ACK" \notin to
  PROVE  ~Gone(t) /\ Ends(e, [t EXCEPT !.acked = TRUE], o, to \ {"ACKED"}, from)
<1> DEFINE u == [t EXCEPT !.acked = TRUE]
<1>1. OpenEnds(e, t, o, to, from)
  BY OpenWhenClosing
<1>2. u.state = t.state /\ u.closed = t.closed /\ u.peerClosed = t.peerClosed /\ u.acked = TRUE
  BY DEF ThreadRecords
<1> HIDE DEF u
<1>3. ~Gone(t) /\ t.closed /\ (o.peerClosed \/ Gone(o))
  BY <1>1, OpenParts DEF End
<1>4. End(u, o, to \ {"ACKED"})
  BY <1>1, <1>2, <1>3, OpenParts DEF End, Gone, Live
<1>5. End(o, u, from)
  BY <1>1, <1>2, <1>3, OpenParts DEF End, Gone, Live
<1>6. OpenEnds(e, u, o, to \ {"ACKED"}, from)
  BY <1>1, <1>2, <1>4, <1>5 DEF OpenEnds, Open, Gone
<1> QED BY <1>3, <1>6, OpenIsLinked DEF u

LEMMA GoneLinks ==
  ASSUME NEW e, NEW t, NEW o, NEW to, NEW from, Ends(e, t, o, to, from),
         ~Gone(t), t.acked, t.peerClosed, "ACK" \notin to
  PROVE  t.closed /\ Ends(e, NoThread, o, to, from)
<1>1. OpenEnds(e, t, o, to, from)
  BY OpenWhenClosing
<1>2. /\ End(t, o, to) /\ End(o, t, from)
      /\ to \subseteq {"HANDSHAKE", "CLOSED", "ACKED"} /\ from \subseteq {"HANDSHAKE", "CLOSED", "ACKED"}
  BY <1>1, OpenParts
<1>3. to = {} /\ t.closed
  BY <1>2 DEF End
<1>4. Gone(NoThread) /\ ~NoThread.closed /\ ~NoThread.peerClosed /\ NoThread.state = "NONE"
  BY DEF NoThread, Gone
<1>5. CASE Gone(o)
  <2>1. o = NoThread /\ from = {}
    BY <1>2, <1>5 DEF End
  <2> QED BY <1>3, <2>1 DEF Ends, Linked, Free
<1>6. CASE ~Gone(o)
  <2>1. End(NoThread, o, to)
    BY <1>3, <1>4 DEF End
  <2>2. End(o, NoThread, from)
    BY <1>2, <1>4, <1>6 DEF End
  <2>3. OpenEnds(e, NoThread, o, to, from)
    BY <1>1, <1>3, <1>4, <1>6, <2>1, <2>2 DEF OpenEnds, Open
  <2> QED BY <1>3, <2>3, OpenIsLinked
<1> QED BY <1>5, <1>6

LEMMA HandshakeLinks ==
  ASSUME NEW e, NEW t, NEW o, NEW to, NEW from, Ends(e, t, o, to, from),
         "HANDSHAKE" \in to, "ACK" \notin to,
         NEW u, u.state = "HANDSHAKE_COMPLETE", u.closed = t.closed, u.acked = t.acked,
         u.peerClosed = t.peerClosed
  PROVE  /\ ~Gone(t)
         /\ ~Live(t) => Ends(e, t, o, to \ {"HANDSHAKE"}, from)
         /\ t.state = "ACTIVE_HANDSHAKE" => Ends(e, u, o, to \ {"HANDSHAKE"}, from)
         /\ Live(t) /\ t.state # "ACTIVE_HANDSHAKE" =>
              /\ from \cap {"HANDSHAKE", "CLOSED"} = {} /\ ~t.closed /\ e # ActiveEnd(e[1])
              /\ Ends(e, u, o, to \ {"HANDSHAKE"}, from \cup {"HANDSHAKE"})
<1>1. OpenEnds(e, t, o, to, from)
  BY OpenWhenClosing
<1>2. /\ End(t, o, to) /\ End(o, t, from)
      /\ to \subseteq {"HANDSHAKE", "CLOSED", "ACKED"} /\ from \subseteq {"HANDSHAKE", "CLOSED", "ACKED"}
  BY <1>1, OpenParts
<1>3. ~Gone(t) /\ ~t.peerClosed
  BY <1>2 DEF End
<1>4. End(t, o, to \ {"HANDSHAKE"})
  BY <1>2, <1>3 DEF End
<1>5. OpenEnds(e, t, o, to \ {"HANDSHAKE"}, from)
  BY <1>1, <1>2, <1>3, <1>4 DEF OpenEnds, Open
<1>6. ASSUME Live(t)
      PROVE  End(u, o, to \ {"HANDSHAKE"}) /\ End(o, u, from) /\ ~Gone(u) /\ ~t.closed /\ ~Gone(o) /\ ~o.peerClosed
  <2>1. ~Gone(u) /\ Live(u)
    BY DEF Gone, Live
  <2>2. ~t.closed
    BY <1>2, <1>3, <1>6 DEF End
  <2>3. End(u, o, to \ {"HANDSHAKE"})
    BY <1>2, <1>3, <1>6, <2>1, <2>2 DEF End
  <2>4. End(o, u, from)
    BY <1>2, <1>3, <2>1, <2>2 DEF End
  <2>5. ~Gone(o) /\ ~o.peerClosed
    BY <1>2, <1>3, <2>2 DEF End
  <2> QED BY <2>1, <2>2, <2>3, <2>4, <2>5
<1>7. ASSUME t.state = "ACTIVE_HANDSHAKE" PROVE OpenEnds(e, u, o, to \ {"HANDSHAKE"}, from)
  <2>1. Live(t)
    BY <1>7 DEF Live
  <2> QED BY <1>1, <1>2, <1>6, <1>7, <2>1 DEF OpenEnds, Open
<1>8. ASSUME Live(t), t.state # "ACTIVE_HANDSHAKE"
      PROVE  /\ from \cap {"HANDSHAKE", "CLOSED"} = {} /\ e # ActiveEnd(e[1])
             /\ OpenEnds(e, u, o, to \ {"HANDSHAKE"}, from \cup {"HANDSHAKE"})
  <2>1. "HANDSHAKE" \notin from
    BY <1>1 DEF OpenEnds, Open
  <2>2. "CLOSED" \notin from
    BY <1>2, <1>6, <1>8 DEF End
  <2>3. End(o, u, from \cup {"HANDSHAKE"})
    BY <1>6, <1>8 DEF End
  <2>4. e # ActiveEnd(e[1])
    BY <1>1, <1>8 DEF OpenEnds, Open, Live
  <2>5. Open(o, u, from \cup {"HANDSHAKE"}, to \ {"HANDSHAKE"})
    BY <1>1, <1>2, <1>6, <1>8, <2>1, <2>3, <2>4 DEF OpenEnds, Open
  <2> QED BY <2>1, <2>2, <2>4, <2>5 DEF OpenEnds
<1> QED BY <1>3, <1>5, <1>6, <1>7, <1>8, OpenIsLinked

\* The states, as compared in the code.
LEMMA Ranks ==
  /\ Rank["NONE"] = 1 /\ Rank["EARLY_ABORTING"] = 2 /\ Rank["ACTIVE_ABORTING"] = 3
  /\ Rank["PASSIVE_ABORTING"] = 4 /\ Rank["INITIAL"] = 5 /\ Rank["CONNECTED"] = 6
  /\ Rank["ACTIVE_HANDSHAKE"] = 7 /\ Rank["HANDSHAKE_COMPLETE"] = 8
<1>1. DOMAIN States = 1 .. 8
  BY DEF States
<1>2. ToSet(States) = {"NONE", "EARLY_ABORTING", "ACTIVE_ABORTING", "PASSIVE_ABORTING", "INITIAL",
                       "CONNECTED", "ACTIVE_HANDSHAKE", "HANDSHAKE_COMPLETE"}
  BY <1>1 DEF ToSet, States
<1>3. \A state \in ToSet(States) : Rank[state] = CHOOSE i \in DOMAIN States : States[i] = state
  BY DEF Rank
<1>4. \A i, j \in 1 .. 8 : States[i] = States[j] => i = j
  BY DEF States
<1>5. ASSUME NEW state \in ToSet(States), NEW i \in 1 .. 8, States[i] = state PROVE Rank[state] = i
  BY <1>1, <1>3, <1>4, <1>5
<1>6. /\ States[1] = "NONE" /\ States[2] = "EARLY_ABORTING" /\ States[3] = "ACTIVE_ABORTING"
      /\ States[4] = "PASSIVE_ABORTING" /\ States[5] = "INITIAL" /\ States[6] = "CONNECTED"
      /\ States[7] = "ACTIVE_HANDSHAKE" /\ States[8] = "HANDSHAKE_COMPLETE"
  BY DEF States
<1> QED BY <1>2, <1>5, <1>6

StateNames == {"NONE", "EARLY_ABORTING", "ACTIVE_ABORTING", "PASSIVE_ABORTING", "INITIAL",
               "CONNECTED", "ACTIVE_HANDSHAKE", "HANDSHAKE_COMPLETE"}

LEMMA BeyondMeans ==
  ASSUME TypeInv, NEW e \in Endpoint
  PROVE  /\ thread[e].state \in StateNames
         /\ Beyond(e, "INITIAL") <=> Live(thread[e])
         /\ Beyond(e, "ACTIVE_ABORTING") <=> ~(thread[e].state \in {"NONE", "EARLY_ABORTING", "ACTIVE_ABORTING"})
<1>1. thread[e].state \in StateNames
  <2>1. ToSet(States) = StateNames
    BY DEF ToSet, States, StateNames
  <2>2. thread[e].state \in ToSet(States)
    BY DEF TypeInv, ThreadRecords
  <2> QED BY <2>1, <2>2
<1> QED BY <1>1, Ranks DEF Beyond, Live, StateNames

----------------------------------------------------------------------------
(* A step changes one thread, and what its peer keeps of it *)

LEMMA TwinParts ==
  ASSUME NEW e \in Endpoint
  PROVE  /\ Twin(e) \in Endpoint /\ Twin(e) # e /\ Twin(e) # Opposite(e)
         /\ Twin(e)[1] = Back(e[1]) /\ Twin(e)[2] = e[2]
         /\ e = ActiveEnd(e[1]) => Twin(e) = PassiveEnd(Back(e[1]))
         /\ e = PassiveEnd(e[1]) => Twin(e) = ActiveEnd(Back(e[1]))
<1> DEFINE c == e[1]
<1>1. c \in Connection /\ (e = ActiveEnd(c) \/ e = PassiveEnd(c))
  BY EndpointParts
<1>2. c = <<c[1], c[2]>> /\ Back(c) = <<c[2], c[1]>> /\ c[1] # c[2] /\ Back(c) \in Connection /\ Back(c) # c
  BY <1>1, ConnectionParts DEF Back
<1> HIDE DEF c
<1>3. CASE e = ActiveEnd(c)
  <2>1. e[1] = c /\ e[2] = c[1]
    BY <1>3 DEF ActiveEnd
  <2>2. Twin(e) = PassiveEnd(Back(c))
    BY <1>2, <2>1 DEF Twin, PassiveEnd
  <2> QED BY <1>1, <1>2, <1>3, <2>1, <2>2, ConnectionParts, EndpointParts DEF Twin
<1>4. CASE e = PassiveEnd(c)
  <2>1. e[1] = c /\ e[2] = c[2]
    BY <1>4 DEF PassiveEnd
  <2>2. Twin(e) = ActiveEnd(Back(c))
    BY <1>2, <2>1 DEF Twin, ActiveEnd
  <2> QED BY <1>1, <1>2, <1>4, <2>1, <2>2, ConnectionParts, EndpointParts DEF Twin
<1> QED BY <1>1, <1>3, <1>4

LEMMA LinkEnds ==
  ASSUME LinkInv, NEW e \in Endpoint
  PROVE  Ends(e, thread[e], thread[Opposite(e)], In(e), In(Opposite(e)))
<1>1. e[1] \in Connection /\ (e = ActiveEnd(e[1]) \/ e = PassiveEnd(e[1]))
  BY EndpointParts
<1>2. CASE e = ActiveEnd(e[1])
  <2>1. Opposite(e) = PassiveEnd(e[1])
    BY <1>1, <1>2, ConnectionParts
  <2> QED BY <1>1, <1>2, <2>1 DEF LinkInv, Ends
<1>3. CASE e = PassiveEnd(e[1])
  <2>1. Opposite(e) = ActiveEnd(e[1]) /\ e # ActiveEnd(e[1])
    BY <1>1, <1>3, ConnectionParts
  <2> QED BY <1>1, <1>3, <2>1 DEF LinkInv, Ends
<1> QED BY <1>1, <1>2, <1>3

LEMMA StepLinks ==
  ASSUME TypeInv, LinkInv, NEW e \in Endpoint, NEW u, thread' = [thread EXCEPT ![e] = u],
         \A f \in Endpoint : f[1] # e[1] => In(f)' = In(f),
         Ends(e, u, thread[Opposite(e)], In(e)', In(Opposite(e))')
  PROVE  LinkInv'
<1>1. /\ thread'[e] = u /\ thread'[Opposite(e)] = thread[Opposite(e)]
      /\ \A f \in Endpoint : f # e => thread'[f] = thread[f]
  <2>1. Opposite(e) # e /\ Opposite(e) \in Endpoint
    BY EndpointParts
  <2> QED BY <2>1 DEF TypeInv
<1> SUFFICES ASSUME NEW c \in Connection
             PROVE  Linked(thread'[ActiveEnd(c)], thread'[PassiveEnd(c)], In(ActiveEnd(c))', In(PassiveEnd(c))')
  BY DEF LinkInv
<1>2. CASE c # e[1]
  <2>1. /\ ActiveEnd(c) \in Endpoint /\ PassiveEnd(c) \in Endpoint
        /\ ActiveEnd(c)[1] = c /\ PassiveEnd(c)[1] = c
    BY ConnectionParts
  <2>2. /\ thread'[ActiveEnd(c)] = thread[ActiveEnd(c)] /\ thread'[PassiveEnd(c)] = thread[PassiveEnd(c)]
        /\ In(ActiveEnd(c))' = In(ActiveEnd(c)) /\ In(PassiveEnd(c))' = In(PassiveEnd(c))
    BY <1>1, <1>2, <2>1
  <2> QED BY <2>2 DEF LinkInv
<1>3. CASE c = e[1] /\ e = ActiveEnd(c)
  <2>1. Opposite(e) = PassiveEnd(c)
    BY <1>3, ConnectionParts
  <2> QED BY <1>1, <1>3, <2>1 DEF Ends
<1>4. CASE c = e[1] /\ e = PassiveEnd(c)
  <2>1. Opposite(e) = ActiveEnd(c) /\ e # ActiveEnd(c)
    BY <1>4, ConnectionParts
  <2> QED BY <1>1, <1>4, <2>1 DEF Ends
<1> QED BY <1>2, <1>3, <1>4, EndpointParts

\* What x = e[2] has in its table about the other peer, e being either of its two endpoints.
RowAt(e, stay, s, t, w) ==
  IF e = ActiveEnd(e[1]) THEN Row(Way(e), stay, s, t, w) ELSE Row(Way(e), stay, s, w, t)

LEMMA RowEnds ==
  ASSUME TableInv, NEW e \in Endpoint
  PROVE  RowAt(e, Stay(Way(e)), base[e[2]].peerState[Other(e)], thread[e], thread[Twin(e)])
<1>1. e[1] \in Connection /\ Way(e) \in Connection /\ (e = ActiveEnd(e[1]) \/ e = PassiveEnd(e[1]))
  BY EndpointParts
<1>2. Way(e)[1] = e[2] /\ Way(e)[2] = Other(e)
  BY DEF Way
<1>3. CASE e = ActiveEnd(e[1])
  <2>1. Way(e) = e[1] /\ Twin(e) = PassiveEnd(Back(Way(e)))
    BY <1>1, <1>3, ConnectionParts, TwinParts
  <2> QED BY <1>1, <1>2, <1>3, <2>1 DEF RowAt, TableInv
<1>4. CASE e = PassiveEnd(e[1])
  <2>1. Way(e) = Back(e[1]) /\ Back(Back(e[1])) = e[1] /\ Twin(e) = ActiveEnd(Way(e)) /\ e # ActiveEnd(e[1])
    BY <1>1, <1>4, ConnectionParts, TwinParts
  <2>2. e = PassiveEnd(Back(Way(e)))
    BY <1>4, <2>1
  <2>3. Row(Way(e), Stay(Way(e)), base[Way(e)[1]].peerState[Way(e)[2]],
            thread[ActiveEnd(Way(e))], thread[PassiveEnd(Back(Way(e)))])
    BY <1>1 DEF TableInv
  <2>4. Row(Way(e), Stay(Way(e)), base[e[2]].peerState[Other(e)], thread[Twin(e)], thread[e])
    BY <1>2, <2>1, <2>2, <2>3
  <2> QED BY <2>1, <2>4 DEF RowAt
<1> QED BY <1>1, <1>3, <1>4

\* The number of threads, when the one at e becomes u.
LEMMA CountStep ==
  ASSUME TypeInv, CountInv, NEW e \in Endpoint, NEW u, NEW b \in Bases,
         thread' = [thread EXCEPT ![e] = u], base' = [base EXCEPT ![e[2]] = b],
         b.current + b.pending = base[e[2]].current + base[e[2]].pending
                + (IF Gone(u) THEN 0 ELSE 1) - (IF Gone(thread[e]) THEN 0 ELSE 1),
         Listens(b)
  PROVE  CountInv'
<1>1. e[2] \in Peer
  BY EndpointParts
<1>2. /\ \A f \in Endpoint : thread'[f] = IF f = e THEN u ELSE thread[f]
      /\ \A x \in Peer : base'[x] = IF x = e[2] THEN b ELSE base[x]
  BY <1>1 DEF TypeInv
<1> SUFFICES ASSUME NEW x \in Peer
             PROVE  /\ IsFiniteSet(Threads(x)')
                    /\ base'[x].current + base'[x].pending = Cardinality(Threads(x)')
                    /\ Listens(base'[x])
  BY DEF CountInv
<1>3. /\ IsFiniteSet(Threads(x)) /\ Cardinality(Threads(x)) \in Nat
      /\ base[x].current + base[x].pending = Cardinality(Threads(x)) /\ Listens(base[x])
  <2>1. IsFiniteSet(Threads(x)) /\ base[x].current + base[x].pending = Cardinality(Threads(x)) /\ Listens(base[x])
    BY DEF CountInv
  <2> QED BY <2>1, FS_CardinalityType
<1>4. CASE x # e[2]
  <2>1. Threads(x)' = Threads(x)
    BY <1>2, <1>4 DEF Threads
  <2> QED BY <1>2, <1>3, <1>4, <2>1
<1>5. CASE x = e[2]
  <2> DEFINE T == Threads(x)
             U == Threads(x)'
  <2>1. /\ \A f \in Endpoint : f \in T <=> f[2] = x /\ ~Gone(thread[f])
        /\ \A f \in Endpoint : f \in U <=> f[2] = x /\ ~Gone(thread'[f])
        /\ T \subseteq Endpoint /\ U \subseteq Endpoint
    BY DEF Threads, Gone
  <2>2. base'[x] = b
    BY <1>2, <1>5
  <2>3. IsFiniteSet(T) /\ Cardinality(T) \in Nat /\ base[x].current + base[x].pending = Cardinality(T)
    BY <1>3
  <2> HIDE DEF T, U
  <2>4. CASE Gone(u) <=> Gone(thread[e])
    <3>0. \A f \in Endpoint : Gone(thread'[f]) <=> Gone(thread[f])
      BY <1>2, <2>4
    <3>1. U = T
      BY <2>1, <3>0
    <3>2. b.current + b.pending = Cardinality(T)
      BY <1>5, <2>3, <2>4
    <3> QED BY <2>2, <2>3, <3>1, <3>2 DEF U
  <2>5. CASE ~Gone(u) /\ Gone(thread[e])
    <3>1. U = T \cup {e} /\ e \notin T
      BY <1>2, <1>5, <2>1, <2>5
    <3>2. IsFiniteSet(U) /\ Cardinality(U) = Cardinality(T) + 1
      BY <2>3, <3>1, FS_AddElement
    <3>3. b.current + b.pending = Cardinality(T) + 1
      BY <1>5, <2>3, <2>5
    <3> QED BY <2>2, <3>2, <3>3 DEF U
  <2>6. CASE Gone(u) /\ ~Gone(thread[e])
    <3>1. U = T \ {e} /\ e \in T
      BY <1>2, <1>5, <2>1, <2>6
    <3>2. IsFiniteSet(U) /\ Cardinality(U) = Cardinality(T) - 1
      BY <2>3, <3>1, FS_RemoveElement
    <3>3. b.current + b.pending = Cardinality(T) - 1
      BY <1>5, <2>3, <2>6
    <3> QED BY <2>2, <3>2, <3>3 DEF U
  <2> QED BY <2>4, <2>5, <2>6
<1> QED BY <1>4, <1>5

LEMMA EndStep ==
  ASSUME ConnectionInv, NEW e \in Endpoint, NEW u \in ThreadRecords, NEW b \in Bases, NEW s,
         thread' = [thread EXCEPT ![e] = u], base' = [base EXCEPT ![e[2]] = b],
         b.exiting = base[e[2]].exiting,
         b.peerState = [base[e[2]].peerState EXCEPT ![Other(e)] = s],
         WireInv', LinkInv',
         RowAt(e, Stay(Way(e)), s, u, thread[Twin(e)]),
         b.current + b.pending = base[e[2]].current + base[e[2]].pending
                + (IF Gone(u) THEN 0 ELSE 1) - (IF Gone(thread[e]) THEN 0 ELSE 1),
         Listens(b),
         u.state = "EARLY_ABORTING" => b.exiting,
         b.exiting /\ e = ActiveEnd(e[1]) => u.state # "INITIAL" /\ ~Live(u),
         Stay(e[1]) =>
            /\ u.closed => IF e = ActiveEnd(e[1]) THEN u.peerClosed ELSE u.id = e[1]
            /\ Live(u) => \/ Live(thread[e])
                          \/ ~Live(thread[Opposite(e)])
                          \/ ~Live(thread[Twin(e)])
                          \/ ~Live(thread[Opposite(Twin(e))])
  PROVE  ConnectionInv'
<1> DEFINE x == e[2]
           y == Other(e)
<1>1. /\ x \in Peer /\ y \in Peer /\ x # y /\ Way(e) = <<x, y>> /\ Way(e) \in Connection
      /\ e[1] \in Connection /\ (e = ActiveEnd(e[1]) \/ e = PassiveEnd(e[1]))
  BY EndpointParts DEF Way
<1>2. /\ \A f \in Endpoint : thread'[f] = IF f = e THEN u ELSE thread[f]
      /\ \A z \in Peer : base'[z] = IF z = x THEN b ELSE base[z]
      /\ \A z \in Peer : b.peerState[z] = IF z = y THEN s ELSE base[x].peerState[z]
      /\ \A z \in Peer : base'[z].exiting = base[z].exiting
  <2>1. base[x] \in Bases
    BY <1>1 DEF ConnectionInv, TypeInv
  <2>2. base[x].peerState \in [Peer -> Seq(Entries)]
    BY <2>1 DEF Bases
  <2>3. \A z \in Peer : b.peerState[z] = IF z = y THEN s ELSE base[x].peerState[z]
    BY <1>1, <2>2
  <2> QED BY <1>1, <2>3 DEF ConnectionInv, TypeInv
<1>20. ASSUME NEW z \in Peer, NEW v \in Peer
       PROVE  base'[z].peerState[v] = IF z = x /\ v = y THEN s ELSE base[z].peerState[v]
  <2>1. base'[z] = IF z = x THEN b ELSE base[z]
    BY <1>2
  <2>2. b.peerState[v] = IF v = y THEN s ELSE base[x].peerState[v]
    BY <1>2
  <2>3. CASE z = x
    BY <2>1, <2>2, <2>3
  <2>4. CASE z # x
    BY <2>1, <2>4
  <2> QED BY <2>3, <2>4
<1>3. TypeInv'
  BY <1>1 DEF ConnectionInv, TypeInv
<1>4. \A c \in Connection : Stay(c)' <=> Stay(c)
  BY <1>2, ConnectionParts DEF Stay
<1>5. ExitInv'
  <2> SUFFICES ASSUME NEW f \in Endpoint
               PROVE  /\ thread'[f].state = "EARLY_ABORTING" => base'[f[2]].exiting
                      /\ base'[f[2]].exiting /\ f = ActiveEnd(f[1]) => thread'[f].state # "INITIAL" /\ ~Live(thread'[f])
    BY DEF ExitInv
  <2>1. f[2] \in Peer
    BY EndpointParts
  <2>2. CASE f = e
    BY <1>1, <1>2, <2>2
  <2>3. CASE f # e
    BY <1>2, <2>1, <2>3 DEF ConnectionInv, ExitInv
  <2> QED BY <2>2, <2>3
<1>6. CountInv'
  BY CountStep DEF ConnectionInv
<1>7. TableInv'
  <2>1. ASSUME NEW z \in Peer PROVE base'[z].peerState[z] = <<>>
    <3>1. base[z].peerState[z] = <<>>
      BY DEF ConnectionInv, TableInv
    <3> QED BY <1>1, <1>20, <3>1
  <2>2. ASSUME NEW c \in Connection
        PROVE  Row(c, Stay(c)', base'[c[1]].peerState[c[2]], thread'[ActiveEnd(c)], thread'[PassiveEnd(Back(c))])
    <3>1. /\ c = <<c[1], c[2]>> /\ c[1] \in Peer /\ c[2] \in Peer /\ Back(c) \in Connection
          /\ ActiveEnd(c) \in Endpoint /\ PassiveEnd(Back(c)) \in Endpoint
          /\ Way(ActiveEnd(c)) = c /\ Way(PassiveEnd(Back(c))) = c
      <4>1. Back(c) \in Connection /\ Back(Back(c)) = c
        BY ConnectionParts
      <4> QED BY <4>1, ConnectionParts
    <3>2. CASE c = Way(e)
      <4>1. c[1] = x /\ c[2] = y
        BY <1>1, <3>2
      <4>2. base'[c[1]].peerState[c[2]] = s
        BY <1>1, <1>20, <4>1
      <4>3. Stay(c)' <=> Stay(c)
        BY <1>4
      <4>4. CASE e = ActiveEnd(e[1])
        <5>1. ActiveEnd(c) = e /\ PassiveEnd(Back(c)) = Twin(e) /\ Twin(e) # e /\ Twin(e) \in Endpoint
          BY <1>1, <3>2, <4>4, ConnectionParts, TwinParts
        <5>2. Row(c, Stay(c), s, u, thread[Twin(e)])
          BY <3>2, <4>4 DEF RowAt
        <5>3. Row(c, Stay(c)', s, u, thread[Twin(e)])
          BY <4>3, <5>2 DEF Row
        <5> QED BY <1>2, <4>2, <5>1, <5>3
      <4>5. CASE e = PassiveEnd(e[1])
        <5>1. /\ e # ActiveEnd(e[1]) /\ PassiveEnd(Back(c)) = e /\ ActiveEnd(c) = Twin(e)
              /\ Twin(e) # e /\ Twin(e) \in Endpoint
          BY <1>1, <3>2, <4>5, ConnectionParts, TwinParts
        <5>2. Row(c, Stay(c), s, thread[Twin(e)], u)
          BY <3>2, <5>1 DEF RowAt
        <5>3. Row(c, Stay(c)', s, thread[Twin(e)], u)
          BY <4>3, <5>2 DEF Row
        <5> QED BY <1>2, <4>2, <5>1, <5>3
      <4> QED BY <1>1, <4>4, <4>5
    <3>3. CASE c # Way(e)
      <4>1. ~(c[1] = x /\ c[2] = y)
        BY <1>1, <3>1, <3>3
      <4>2. base'[c[1]].peerState[c[2]] = base[c[1]].peerState[c[2]]
        BY <1>20, <3>1, <4>1
      <4>3. thread'[ActiveEnd(c)] = thread[ActiveEnd(c)] /\ thread'[PassiveEnd(Back(c))] = thread[PassiveEnd(Back(c))]
        BY <1>2, <3>1, <3>3
      <4>4. Row(c, Stay(c), base[c[1]].peerState[c[2]], thread[ActiveEnd(c)], thread[PassiveEnd(Back(c))])
        BY DEF ConnectionInv, TableInv
      <4>5. Row(c, Stay(c)', base[c[1]].peerState[c[2]], thread[ActiveEnd(c)], thread[PassiveEnd(Back(c))])
        BY <1>4, <4>4 DEF Row
      <4> QED BY <4>2, <4>3, <4>5
    <3> QED BY <3>2, <3>3
  <2> QED BY <2>1, <2>2 DEF TableInv
<1>8. OrderlyInv'
  <2> SUFFICES ASSUME NEW c \in Connection, Stay(c)
      PROVE  LET A == thread'[ActiveEnd(c)]  P == thread'[PassiveEnd(c)]
             IN  /\ A.closed => A.peerClosed
                 /\ P.closed => P.id = c
                 /\ ~(Live(A) /\ Live(P) /\ Live(thread'[ActiveEnd(Back(c))]) /\ Live(thread'[PassiveEnd(Back(c))]))
    BY <1>4 DEF OrderlyInv
  <2>1. /\ Back(c) \in Connection /\ Back(Back(c)) = c /\ Back(c) # c
        /\ ActiveEnd(c) \in Endpoint /\ PassiveEnd(c) \in Endpoint /\ ActiveEnd(c) # PassiveEnd(c)
        /\ ActiveEnd(c)[1] = c /\ PassiveEnd(c)[1] = c
        /\ ActiveEnd(Back(c)) \in Endpoint /\ PassiveEnd(Back(c)) \in Endpoint
        /\ ActiveEnd(Back(c))[1] = Back(c) /\ PassiveEnd(Back(c))[1] = Back(c)
    <3>1. Back(c) \in Connection /\ Back(Back(c)) = c /\ Back(c) # c
      BY ConnectionParts
    <3> QED BY <3>1, ConnectionParts
  <2>2. /\ thread[ActiveEnd(c)].closed => thread[ActiveEnd(c)].peerClosed
        /\ thread[PassiveEnd(c)].closed => thread[PassiveEnd(c)].id = c
        /\ ~(/\ Live(thread[ActiveEnd(c)]) /\ Live(thread[PassiveEnd(c)])
             /\ Live(thread[ActiveEnd(Back(c))]) /\ Live(thread[PassiveEnd(Back(c))]))
    BY DEF ConnectionInv, OrderlyInv
  <2>3. CASE e[1] # c /\ e[1] # Back(c)
    BY <1>2, <2>1, <2>2, <2>3
  <2>4. Stay(e[1]) /\ e[1] \in {c, Back(c)} =>
          /\ e = ActiveEnd(c) => (u.closed => u.peerClosed)
          /\ e = PassiveEnd(c) => (u.closed => u.id = c)
    BY <1>1, <2>1
  <2>5. e[1] \in {c, Back(c)} => Stay(e[1])
    BY DEF Stay, Back
  <2>6. ASSUME e[1] \in {c, Back(c)}
        PROVE  {e, Opposite(e), Twin(e), Opposite(Twin(e))}
                  = {ActiveEnd(c), PassiveEnd(c), ActiveEnd(Back(c)), PassiveEnd(Back(c))}
    <3> DEFINE d == e[1]
    <3>1. d \in Connection /\ Back(d) \in Connection /\ Back(Back(d)) = d
      BY <1>1, ConnectionParts
    <3>2. {e, Opposite(e), Twin(e), Opposite(Twin(e))}
                  = {ActiveEnd(d), PassiveEnd(d), ActiveEnd(Back(d)), PassiveEnd(Back(d))}
      <4>1. CASE e = ActiveEnd(d)
        <5>1. Opposite(e) = PassiveEnd(d) /\ Twin(e) = PassiveEnd(Back(d))
          BY <3>1, <4>1, ConnectionParts, TwinParts
        <5>2. Opposite(PassiveEnd(Back(d))) = ActiveEnd(Back(d))
          BY <3>1, ConnectionParts
        <5> QED BY <4>1, <5>1, <5>2
      <4>2. CASE e = PassiveEnd(d)
        <5>1. Opposite(e) = ActiveEnd(d) /\ Twin(e) = ActiveEnd(Back(d))
          BY <3>1, <4>2, ConnectionParts, TwinParts
        <5>2. Opposite(ActiveEnd(Back(d))) = PassiveEnd(Back(d))
          BY <3>1, ConnectionParts
        <5> QED BY <4>2, <5>1, <5>2
      <4> QED BY <1>1, <4>1, <4>2
    <3> HIDE DEF d
    <3>3. d = c \/ d = Back(c)
      BY <2>6 DEF d
    <3> QED BY <2>1, <3>2, <3>3
  <2>7. CASE e[1] \in {c, Back(c)}
    <3>1. /\ thread'[ActiveEnd(c)].closed => thread'[ActiveEnd(c)].peerClosed
          /\ thread'[PassiveEnd(c)].closed => thread'[PassiveEnd(c)].id = c
      BY <1>2, <2>1, <2>2, <2>4, <2>5, <2>7
    <3> DEFINE four == {ActiveEnd(c), PassiveEnd(c), ActiveEnd(Back(c)), PassiveEnd(Back(c))}
    <3>2. four = {e, Opposite(e), Twin(e), Opposite(Twin(e))} /\ four \subseteq Endpoint
      BY <2>1, <2>6, <2>7
    <3>3. ~ \A f \in four : Live(thread[f])
      BY <2>2
    <3>4. Live(u) => Live(thread[e]) \/ ~ \A f \in four \ {e} : Live(thread[f])
      <4>1. Twin(e) # e /\ Opposite(e) # e /\ Opposite(Twin(e)) # e
        <5>1. Twin(e) \in Endpoint /\ Twin(e)[1] # e[1]
          BY <1>1, TwinParts, ConnectionParts
        <5> QED BY <5>1, EndpointParts
      <4> QED BY <2>5, <2>7, <3>2, <4>1
    <3> HIDE DEF four
    <3>5. ~ \A f \in four : Live(thread'[f])
      <4>1. e \in four
        BY <3>2
      <4>2. \A f \in four \ {e} : thread'[f] = thread[f]
        BY <1>2, <3>2
      <4>3. thread'[e] = u
        BY <1>2
      <4> QED BY <3>3, <3>4, <4>1, <4>2, <4>3
    <3> QED BY <3>1, <3>5 DEF four
  <2> QED BY <2>3, <2>7
<1> QED BY <1>3, <1>5, <1>6, <1>7, <1>8 DEF ConnectionInv

----------------------------------------------------------------------------
(* Steps that change no table and no counter *)

LEMMA QuietStep ==
  ASSUME ConnectionInv, UNCHANGED <<base, thread>>, WireInv', LinkInv'
  PROVE  ConnectionInv'
<1>1. \A x \in Peer : Threads(x)' = Threads(x)
  BY DEF Threads
<1>2. CountInv'
  BY <1>1 DEF ConnectionInv, CountInv
<1>3. \A c \in Connection : Stay(c)' <=> Stay(c)
  BY DEF Stay
<1>4. OrderlyInv'
  BY <1>3 DEF ConnectionInv, OrderlyInv
<1>5. TableInv'
  <2> SUFFICES ASSUME NEW c \in Connection
               PROVE  Row(c, Stay(c)', base[c[1]].peerState[c[2]], thread[ActiveEnd(c)], thread[PassiveEnd(Back(c))])
    BY DEF ConnectionInv, TableInv
  <2>1. Row(c, Stay(c), base[c[1]].peerState[c[2]], thread[ActiveEnd(c)], thread[PassiveEnd(Back(c))])
    BY DEF ConnectionInv, TableInv
  <2> QED BY <1>3, <2>1 DEF Row
<1>6. ExitInv' /\ TypeInv'
  BY DEF ConnectionInv, ExitInv, TypeInv
<1> QED BY <1>2, <1>4, <1>5, <1>6 DEF ConnectionInv

\* A row depends on the identities only of the threads there are.
LEMMA RowSame ==
  ASSUME NEW e, NEW stay, NEW s, NEW t, NEW u, NEW w, RowAt(e, stay, s, t, w),
         ~Gone(t), ~Gone(u), u.id = t.id
  PROVE  RowAt(e, stay, s, u, w)
BY DEF RowAt, Row, Identities, InOrder

LEMMA KeepStep ==
  ASSUME ConnectionInv, NEW e \in Endpoint, NEW u \in ThreadRecords,
         thread' = [thread EXCEPT ![e] = u], base' = base,
         ~Gone(thread[e]), ~Gone(u), u.id = thread[e].id,
         WireInv', \A f \in Endpoint : f[1] # e[1] => In(f)' = In(f),
         Ends(e, u, thread[Opposite(e)], In(e)', In(Opposite(e))'),
         u.state = "EARLY_ABORTING" => thread[e].state = "EARLY_ABORTING",
         u.state = "INITIAL" => thread[e].state = "INITIAL",
         Live(u) => Live(thread[e]),
         Stay(e[1]) => (u.closed => IF e = ActiveEnd(e[1]) THEN u.peerClosed ELSE u.id = e[1])
  PROVE  ConnectionInv'
<1> DEFINE b == base[e[2]]
<1>1. e[2] \in Peer /\ Other(e) \in Peer
  BY EndpointParts
<1>2. b \in Bases /\ b.peerState \in [Peer -> Seq(Entries)] /\ b.current + b.pending \in Int
  <2>1. b \in Bases
    BY <1>1 DEF ConnectionInv, TypeInv
  <2> QED BY <2>1 DEF Bases
<1>3. base' = [base EXCEPT ![e[2]] = b] /\ b.peerState = [b.peerState EXCEPT ![Other(e)] = b.peerState[Other(e)]]
  BY <1>1, <1>2 DEF ConnectionInv, TypeInv
<1>4. LinkInv'
  BY StepLinks DEF ConnectionInv
<1>5. RowAt(e, Stay(Way(e)), b.peerState[Other(e)], u, thread[Twin(e)])
  BY RowEnds, RowSame DEF ConnectionInv
<1>6. Listens(b)
  BY <1>1 DEF ConnectionInv, CountInv
<1>7. /\ u.state = "EARLY_ABORTING" => b.exiting
      /\ b.exiting /\ e = ActiveEnd(e[1]) => u.state # "INITIAL" /\ ~Live(u)
  BY DEF ConnectionInv, ExitInv
<1>8. b.current + b.pending = b.current + b.pending + (IF Gone(u) THEN 0 ELSE 1) - (IF Gone(thread[e]) THEN 0 ELSE 1)
  BY <1>2
<1> HIDE DEF b
<1>9. b.exiting = base[e[2]].exiting /\ b.current = base[e[2]].current /\ b.pending = base[e[2]].pending
      /\ b.peerState = base[e[2]].peerState
  BY DEF b
<1> QED BY <1>2, <1>3, <1>4, <1>5, <1>6, <1>7, <1>8, <1>9, EndStep

\* What arrives at which end, and when a thread is there.
LEMMA EndParts ==
  ASSUME LinkInv, NEW e \in Endpoint
  PROVE  /\ Gone(thread[e]) => thread[e] = NoThread
         /\ "ACKED" \in In(e) => "ACK" \notin In(e)
         /\ thread[e].acked => "ACK" \notin In(e) /\ ~Gone(thread[e])
         /\ "SYN" \in In(e) => e # ActiveEnd(e[1])
         /\ "REFUSED" \in In(e) => e = ActiveEnd(e[1])
<1>1. Ends(e, thread[e], thread[Opposite(e)], In(e), In(Opposite(e)))
  BY LinkEnds
<1> QED BY <1>1 DEF Ends, Linked, Free, Opening, HalfOpen, Open, End, Fresh, Gone, NoThread

\* What arrives is first on its way.
LEMMA Arrived ==
  ASSUME WireInv, NEW e \in Endpoint, NEW m \in Kinds, Arrives(e, m)
  PROVE  m \in In(e) /\ \A o \in Order : o[2] = m => o[1] \notin In(e)
<1> DEFINE w == wire[Way(e)]
<1>1. w # <<>> /\ Head(w) = <<e[1], m>> /\ w \in Seq(Messages) /\ Once(w) /\ Sorted(w, e[1])
  <2>1. Way(e) \in Connection /\ e[1] \in {Way(e), Back(Way(e))}
    BY EndpointParts
  <2> QED BY <2>1 DEF Arrives, WireInv
<1> HIDE DEF w
<1>2. Head(w) \in On(w) /\ \A k, n : Before(w, k, n) /\ k # n /\ n = Head(w) => k \notin On(w)
  BY <1>1, OnTail
<1>3. ASSUME NEW o \in Order, o[2] = m PROVE o[1] \notin In(e)
  <2>1. Before(w, <<e[1], o[1]>>, <<e[1], o[2]>>)
    BY <1>1 DEF Sorted
  <2>2. o[1] # o[2]
    BY DEF Order
  <2>3. <<e[1], o[1]>> # <<e[1], o[2]>>
    BY <2>2
  <2>4. <<e[1], o[1]>> \notin On(w)
    BY <1>1, <1>2, <1>3, <2>1, <2>3
  <2> QED BY <2>4 DEF In, w
<1> QED BY <1>1, <1>2, <1>3 DEF In, w

LEMMA SynStep ==
  ASSUME ConnectionInv, NEW c \in Connection, Syn(c)
  PROVE  ConnectionInv'
<1> DEFINE e == PassiveEnd(c)
<1>1. e \in Endpoint /\ e[1] = c /\ e # ActiveEnd(c) /\ Opposite(e) = ActiveEnd(c)
  BY ConnectionParts
<1> DEFINE m == IF base[c[2]].listening THEN "ESTABLISHED" ELSE "REFUSED"
<1>2. Arrives(e, "SYN") /\ Reply(e, <<m>>) /\ UNCHANGED <<base, thread>>
  BY DEF Syn
<1>3. m \in {"ESTABLISHED", "REFUSED"} /\ m \in Kinds
  BY DEF Kinds
<1> HIDE DEF e, m
<1>4. Linked(thread[Opposite(e)], thread[e], In(Opposite(e)), In(e))
  BY <1>1, LinkEnds DEF ConnectionInv, Ends
<1>5. "SYN" \in In(e)
  BY <1>1, <1>2, Arrived DEF ConnectionInv, Kinds
<1>6. In(Opposite(e)) = {}
  BY <1>4, <1>5, SynLinks
<1>7. Fits(<<m>>, In(Opposite(e))) /\ On(<<m>>) = {m}
  BY <1>3, <1>6, FitsOne
<1>8. /\ WireInv' /\ In(e)' = In(e) \ {"SYN"} /\ In(Opposite(e))' = In(Opposite(e)) \cup {m}
      /\ \A f \in Endpoint : f[1] # e[1] => In(f)' = In(f)
  BY <1>1, <1>2, <1>7, ReplyMoves DEF ConnectionInv, Kinds
<1>9. Linked(thread[Opposite(e)], thread[e], In(Opposite(e))', In(e)')
  <2>1. \A n \in {"ESTABLISHED", "REFUSED"} :
           Linked(thread[Opposite(e)], thread[e], In(Opposite(e)) \cup {n}, In(e) \ {"SYN"})
    BY <1>4, <1>5, SynLinks
  <2>2. Linked(thread[Opposite(e)], thread[e], In(Opposite(e)) \cup {m}, In(e) \ {"SYN"})
    BY <1>3, <2>1
  <2> QED BY <1>8, <2>2
<1>10. thread' = [thread EXCEPT ![e] = thread[e]]
  BY <1>1, <1>2 DEF ConnectionInv, TypeInv
<1>11. LinkInv'
  BY <1>1, <1>8, <1>9, <1>10, StepLinks DEF ConnectionInv, Ends
<1> QED BY <1>2, <1>8, <1>11, QuietStep

LEMMA AckedStep ==
  ASSUME ConnectionInv, NEW e \in Endpoint, Acked(e)
  PROVE  ConnectionInv'
<1> DEFINE u == [thread[e] EXCEPT !.acked = TRUE]
<1>1. Arrives(e, "ACKED") /\ Reply(e, <<>>) /\ base' = base /\ thread[e] \in ThreadRecords
      /\ thread' = [thread EXCEPT ![e] = u]
  BY DEF Acked, ConnectionInv, TypeInv
<1>2. /\ WireInv' /\ "ACKED" \in In(e) /\ In(e)' = In(e) \ {"ACKED"} /\ In(Opposite(e))' = In(Opposite(e))
      /\ \A f \in Endpoint : f[1] # e[1] => In(f)' = In(f)
  <2>1. Fits(<<>>, In(Opposite(e))) /\ On(<<>>) = {} /\ "ACKED" \in Kinds
    BY FitsNone DEF Kinds
  <2> HIDE DEF u
  <2>2. /\ WireInv' /\ "ACKED" \in In(e) /\ In(e)' = In(e) \ {"ACKED"}
        /\ In(Opposite(e))' = In(Opposite(e)) \cup On(<<>>)
        /\ \A f \in Endpoint : f[1] # e[1] => In(f)' = In(f)
    BY <1>1, <2>1, ReplyMoves DEF ConnectionInv
  <2> QED BY <2>1, <2>2
<1>3. ~Gone(thread[e]) /\ Ends(e, u, thread[Opposite(e)], In(e)', In(Opposite(e))')
  <2>1. "ACK" \notin In(e)
    BY <1>2, EndParts DEF ConnectionInv
  <2>2. Ends(e, thread[e], thread[Opposite(e)], In(e), In(Opposite(e)))
    BY LinkEnds DEF ConnectionInv
  <2> QED BY <1>1, <1>2, <2>1, <2>2, AckedLinks
<1>4. u \in ThreadRecords /\ u.state = thread[e].state /\ u.id = thread[e].id /\ u.closed = thread[e].closed
      /\ u.peerClosed = thread[e].peerClosed
  BY <1>1 DEF ThreadRecords
<1> HIDE DEF u
<1>5. (Gone(u) <=> Gone(thread[e])) /\ (Live(u) <=> Live(thread[e]))
  BY <1>4 DEF Gone, Live
<1>6. Stay(e[1]) => (u.closed => IF e = ActiveEnd(e[1]) THEN u.peerClosed ELSE u.id = e[1])
  <2>1. e[1] \in Connection /\ (e = ActiveEnd(e[1]) \/ e = PassiveEnd(e[1]))
    BY EndpointParts
  <2> QED BY <1>4, <2>1 DEF ConnectionInv, OrderlyInv
<1> QED BY <1>1, <1>2, <1>3, <1>4, <1>5, <1>6, KeepStep

LEMMA PeerClosedStep ==
  ASSUME ConnectionInv, NEW e \in Endpoint, PeerClosed(e)
  PROVE  ConnectionInv'
<1> DEFINE t == thread[e]
           u == [t EXCEPT !.state = IF Beyond(e, "ACTIVE_ABORTING") THEN "PASSIVE_ABORTING" ELSE @,
                          !.closed = TRUE, !.peerClosed = TRUE]
           ms == <<"ACKED">> \o (IF t.closed THEN <<>> ELSE <<"CLOSED">>)
           new == {"ACKED"} \cup (IF t.closed THEN {} ELSE {"CLOSED"})
<1>1. Arrives(e, "CLOSED") /\ Reply(e, ms) /\ base' = base /\ t \in ThreadRecords
      /\ thread' = [thread EXCEPT ![e] = u]
  BY DEF PeerClosed, ConnectionInv, TypeInv
<1>2. /\ t.state \in StateNames
      /\ u.state = IF t.state \in {"NONE", "EARLY_ABORTING", "ACTIVE_ABORTING"} THEN t.state ELSE "PASSIVE_ABORTING"
      /\ u.id = t.id /\ u.closed = TRUE /\ u.acked = t.acked /\ u.peerClosed = TRUE
      /\ u \in ThreadRecords
  <2>1. StateNames = ToSet(States)
    BY DEF ToSet, States, StateNames
  <2>2. t.state \in StateNames /\ (Beyond(e, "ACTIVE_ABORTING") <=> ~(t.state \in {"NONE", "EARLY_ABORTING", "ACTIVE_ABORTING"}))
    BY BeyondMeans DEF ConnectionInv
  <2>3. "PASSIVE_ABORTING" \in ToSet(States)
    BY <2>1 DEF StateNames
  <2> HIDE DEF t
  <2> QED BY <1>1, <2>2, <2>3 DEF ThreadRecords
<1>3. ~Live(u) /\ (Gone(u) <=> Gone(t))
  <2> HIDE DEF t, u
  <2> QED BY <1>2 DEF Live, Gone
<1>4. Ends(e, t, thread[Opposite(e)], In(e), In(Opposite(e)))
  BY LinkEnds DEF ConnectionInv
<1> HIDE DEF u, ms, new
<1>5. "CLOSED" \in In(e) /\ \A o \in Order : o[2] = "CLOSED" => o[1] \notin In(e)
  BY <1>1, Arrived DEF ConnectionInv, Kinds
<1>6. "ACK" \notin In(e) /\ "HANDSHAKE" \notin In(e)
  BY <1>5 DEF Order
<1>7. ASSUME ~Gone(t)
      PROVE  /\ ~Gone(thread[Opposite(e)]) /\ new \cap In(Opposite(e)) = {} /\ thread[Opposite(e)].closed
             /\ Ends(e, u, thread[Opposite(e)], In(e) \ {"CLOSED"}, In(Opposite(e)) \cup new)
  BY <1>2, <1>3, <1>4, <1>5, <1>6, <1>7, ClosedLinks DEF new
<1>8. ~Gone(t)
  <2>1. OpenEnds(e, t, thread[Opposite(e)], In(e), In(Opposite(e)))
    BY <1>4, <1>5, <1>6, OpenWhenClosing
  <2>2. End(t, thread[Opposite(e)], In(e))
    BY <2>1, OpenParts
  <2> QED BY <1>5, <2>2 DEF End
<1>9. Fits(ms, In(Opposite(e))) /\ On(ms) = new
  <2>1. "ACKED" \in Kinds /\ "CLOSED" \in Kinds /\ \A o \in Order : o[1] \notin {"ACKED", "CLOSED"}
        /\ <<"CLOSED", "ACKED">> \notin Order
    BY DEF Kinds, Order
  <2>2. CASE t.closed
    <3>1. ms = <<"ACKED">> \o <<>> /\ new = {"ACKED"}
      BY <2>2 DEF ms, new
    <3> QED BY <1>7, <1>8, <2>1, <3>1, FitsOne
  <2>3. CASE ~t.closed
    <3>1. ms = <<"ACKED">> \o <<"CLOSED">> /\ new = {"ACKED", "CLOSED"}
      BY <2>3 DEF ms, new
    <3> QED BY <1>7, <1>8, <2>1, <3>1, FitsTwo
  <2> QED BY <2>2, <2>3
<1>10. /\ WireInv' /\ In(e)' = In(e) \ {"CLOSED"} /\ In(Opposite(e))' = In(Opposite(e)) \cup On(ms)
       /\ \A f \in Endpoint : f[1] # e[1] => In(f)' = In(f)
  <2>1. "CLOSED" \in Kinds
    BY DEF Kinds
  <2> QED BY <1>1, <1>9, <2>1, ReplyMoves DEF ConnectionInv
<1>11. Ends(e, u, thread[Opposite(e)], In(e)', In(Opposite(e))')
  BY <1>7, <1>8, <1>9, <1>10
<1>12. Stay(e[1]) => (u.closed => IF e = ActiveEnd(e[1]) THEN u.peerClosed ELSE u.id = e[1])
  <2> SUFFICES ASSUME Stay(e[1]), e # ActiveEnd(e[1]) PROVE t.id = e[1]
    BY <1>2
  <2>1. e[1] \in Connection /\ e = PassiveEnd(e[1]) /\ Opposite(e) = ActiveEnd(e[1])
    BY EndpointParts, ConnectionParts
  <2>2. thread[Opposite(e)].peerClosed
    BY <1>7, <1>8, <2>1 DEF ConnectionInv, OrderlyInv
  <2>3. OpenEnds(e, t, thread[Opposite(e)], In(e), In(Opposite(e)))
    BY <1>4, <1>5, <1>6, OpenWhenClosing
  <2>4. End(thread[Opposite(e)], t, In(Opposite(e)))
    BY <2>3, OpenParts
  <2>5. t.closed
    BY <1>7, <1>8, <2>2, <2>4 DEF End
  <2> QED BY <2>1, <2>5 DEF ConnectionInv, OrderlyInv
<1>13. /\ u.state = "EARLY_ABORTING" => t.state = "EARLY_ABORTING"
       /\ u.state = "INITIAL" => t.state = "INITIAL"
  BY <1>2
<1> QED BY <1>1, <1>2, <1>3, <1>8, <1>10, <1>11, <1>12, <1>13, KeepStep

----------------------------------------------------------------------------
(* Steps that change the table of a peer *)

\* The first entry with an identity, and what is left without it.
FirstWith(s, id) == SelectInSeq(s, LAMBDA entry : entry.id = id)

LEMMA FirstIs ==
  ASSUME NEW s, NEW id, NEW n \in Nat, Len(s) = n,
         NEW i \in 1 .. n, s[i].id = id, \A j \in 1 .. n : s[j].id = id => i <= j
  PROVE  FirstWith(s, id) = i
<1> DEFINE I == {j \in 1 .. Len(s) : s[j].id = id}
<1>1. FirstWith(s, id) = IF I # {} THEN Min(I) ELSE 0
  BY DEF FirstWith, SelectInSeq
<1>2. i \in I /\ \A j \in I : i <= j
  OBVIOUS
<1>3. I \subseteq Nat
  OBVIOUS
<1> HIDE DEF I
<1>4. \A k \in I : (\A j \in I : k <= j) => k = i
  BY <1>2, <1>3
<1>5. Min(I) = i
  BY <1>2, <1>4 DEF Min
<1> QED BY <1>1, <1>2, <1>5

LEMMA RemoveOne ==
  ASSUME NEW S, NEW s \in Seq(S)
  PROVE  /\ Len(s) = 1 => RemoveAt(s, 1) = <<>>
         /\ Len(s) = 2 => RemoveAt(s, 1) = <<s[2]>> /\ RemoveAt(s, 2) = <<s[1]>>
<1>1. ASSUME Len(s) = 1 PROVE RemoveAt(s, 1) = <<>>
  <2>1. SubSeq(s, 1, 0) = <<>> /\ SubSeq(s, 2, 1) = <<>>
    BY <1>1
  <2>2. RemoveAt(s, 1) = SubSeq(s, 1, 0) \o SubSeq(s, 2, 1)
    BY <1>1 DEF RemoveAt
  <2> QED BY <2>1, <2>2
<1>2. ASSUME Len(s) = 2 PROVE RemoveAt(s, 1) = <<s[2]>> /\ RemoveAt(s, 2) = <<s[1]>>
  <2>1. SubSeq(s, 1, 0) = <<>> /\ SubSeq(s, 3, 2) = <<>> /\ SubSeq(s, 2, 2) = <<s[2]>> /\ SubSeq(s, 1, 1) = <<s[1]>>
    <3>1. SubSeq(s, 1, 0) = <<>> /\ SubSeq(s, 3, 2) = <<>>
      BY <1>2
    <3>2. ASSUME NEW i \in 1 .. 2 PROVE SubSeq(s, i, i) = <<s[i]>>
      <4> DEFINE u == SubSeq(s, i, i)
                 v == <<s[i]>>
      <4>1. u \in Seq(S) /\ Len(u) = 1 /\ u[1] = s[i]
        BY <1>2
      <4>2. v \in Seq(S) /\ Len(v) = 1 /\ v[1] = s[i]
        BY <1>2
      <4> HIDE DEF u, v
      <4>3. u = v
        BY <4>1, <4>2, SeqEqual
      <4> QED BY <4>3 DEF u, v
    <3> QED BY <3>1, <3>2
  <2>2. RemoveAt(s, 1) = SubSeq(s, 1, 0) \o SubSeq(s, 2, 2) /\ RemoveAt(s, 2) = SubSeq(s, 1, 1) \o SubSeq(s, 3, 2)
    BY <1>2 DEF RemoveAt
  <2> QED BY <2>1, <2>2
<1> QED BY <1>1, <1>2

LEMMA OneOfTwo ==
  ASSUME NEW s \in Seq(Entries), NEW a, NEW b, Len(s) = 2,
         \/ s[1].id = a /\ s[2].id = b
         \/ s[1].id = b /\ s[2].id = a
  PROVE  LET r == RemoveAt(s, FirstWith(s, a)) IN
         /\ s[1].id = a => FirstWith(s, a) = 1 /\ r = <<s[2]>>
         /\ s[1].id # a => FirstWith(s, a) = 2 /\ r = <<s[1]>>
         /\ Len(r) = 1 /\ r[1].id = b /\ r \in Seq(Entries)
<1>1. RemoveAt(s, 1) = <<s[2]>> /\ RemoveAt(s, 2) = <<s[1]>>
      /\ <<s[1]>> \in Seq(Entries) /\ <<s[2]>> \in Seq(Entries)
  BY RemoveOne
<1>2. CASE s[1].id = a
  <2>1. FirstWith(s, a) = 1
    BY <1>2, FirstIs
  <2>2. s[2].id = b
    BY <1>2
  <2> QED BY <1>1, <1>2, <2>1, <2>2
<1>3. CASE s[1].id # a
  <2>1. s[2].id = a /\ s[1].id = b
    BY <1>3
  <2>2. FirstWith(s, a) = 2
    <3>1. \A j \in 1 .. 2 : s[j].id = a => 2 <= j
      BY <1>3
    <3> QED BY <2>1, <3>1, FirstIs
  <2> QED BY <1>1, <1>3, <2>1, <2>2
<1> QED BY <1>2, <1>3

LEMMA OneOfOne ==
  ASSUME NEW s \in Seq(Entries), NEW a, Len(s) = 1, s[1].id = a
  PROVE  FirstWith(s, a) = 1 /\ RemoveAt(s, FirstWith(s, a)) = <<>>
<1>1. RemoveAt(s, 1) = <<>>
  BY RemoveOne
<1>2. FirstWith(s, a) = 1
  BY FirstIs
<1> QED BY <1>1, <1>2

\* removePeer, for the thread of the connection that was opened ...
LEMMA RowRemovesActive ==
  ASSUME NEW c \in Connection, NEW stay, NEW s \in Seq(Entries), NEW A, NEW P,
         Row(c, stay, s, A, P), ~Gone(A)
  PROVE  /\ RemoveAt(s, FirstWith(s, A.id)) \in Seq(Entries)
         /\ Row(c, stay, RemoveAt(s, FirstWith(s, A.id)), NoThread, P)
<1> DEFINE r == RemoveAt(s, FirstWith(s, A.id))
<1>1. Gone(NoThread)
  BY DEF Gone, NoThread
<1>2. CASE Gone(P)
  <2>1. Len(s) = 1 /\ s[1].id = A.id
    BY <1>2 DEF Row, Identities
  <2>2. r = <<>>
    BY <2>1, OneOfOne
  <2>3. r \in Seq(Entries)
    BY <2>2
  <2> QED BY <1>1, <1>2, <2>2, <2>3 DEF Row, Identities, InOrder
<1>3. CASE ~Gone(P)
  <2>1. Len(s) = 2 /\ (\/ s[1].id = A.id /\ s[2].id = P.id
                       \/ s[1].id = P.id /\ s[2].id = A.id)
    BY <1>3 DEF Row, Identities
  <2>2. /\ s[1].id = A.id => r = <<s[2]>>
        /\ Len(r) = 1 /\ r[1].id = P.id /\ r \in Seq(Entries)
    BY <2>1, OneOfTwo
  <2>3. Identities(r, NoThread, P)
    BY <1>1, <1>3, <2>2 DEF Identities
  <2>4. stay => InOrder(c, r, NoThread, P)
    <3> SUFFICES ASSUME stay PROVE InOrder(c, r, NoThread, P)
      OBVIOUS
    <3>1. s[1] = [conn |-> c, id |-> A.id] /\ s[2] = [conn |-> Back(c), id |-> P.id]
      BY <1>3, <2>1 DEF Row, InOrder
    <3>2. r = <<s[2]>>
      BY <2>2, <3>1
    <3>3. r[Len(r)] = s[2]
      BY <3>2
    <3> HIDE DEF r
    <3> QED BY <1>1, <3>1, <3>3 DEF InOrder
  <2> QED BY <1>1, <1>3, <2>2, <2>3, <2>4 DEF Row
<1> QED BY <1>2, <1>3

\* ... and for that of the connection that was accepted.
LEMMA RowRemovesPassive ==
  ASSUME NEW c \in Connection, NEW stay, NEW s \in Seq(Entries), NEW A, NEW P,
         Row(c, stay, s, A, P), ~Gone(P), stay => P.id = Back(c)
  PROVE  /\ RemoveAt(s, FirstWith(s, P.id)) \in Seq(Entries)
         /\ Row(c, stay, RemoveAt(s, FirstWith(s, P.id)), A, NoThread)
<1> DEFINE r == RemoveAt(s, FirstWith(s, P.id))
<1>1. Gone(NoThread)
  BY DEF Gone, NoThread
<1>2. CASE Gone(A)
  <2>1. Len(s) = 1 /\ s[1].id = P.id
    BY <1>2 DEF Row, Identities
  <2>2. r = <<>>
    BY <2>1, OneOfOne
  <2>3. r \in Seq(Entries)
    BY <2>2
  <2> QED BY <1>1, <1>2, <2>2, <2>3 DEF Row, Identities, InOrder
<1>3. CASE ~Gone(A)
  <2>1. Len(s) = 2 /\ (\/ s[1].id = P.id /\ s[2].id = A.id
                       \/ s[1].id = A.id /\ s[2].id = P.id)
    BY <1>3 DEF Row, Identities
  <2>2. /\ s[1].id # P.id => r = <<s[1]>>
        /\ Len(r) = 1 /\ r[1].id = A.id /\ r \in Seq(Entries)
    BY <2>1, OneOfTwo
  <2>3. Identities(r, A, NoThread)
    BY <1>1, <1>3, <2>2 DEF Identities
  <2>4. stay => InOrder(c, r, A, NoThread)
    <3> SUFFICES ASSUME stay PROVE InOrder(c, r, A, NoThread)
      OBVIOUS
    <3>1. s[1] = [conn |-> c, id |-> A.id] /\ A.id = c[2] /\ P.id = Back(c)
      BY <1>3, <2>1 DEF Row, InOrder
    <3>2. c[2] # Back(c)
      BY PeerAssumption DEF Back, Connection
    <3>3. r = <<s[1]>>
      BY <2>2, <3>1, <3>2
    <3>4. r[1] = s[1]
      BY <3>3
    <3> HIDE DEF r
    <3> QED BY <1>1, <3>1, <3>4 DEF InOrder
  <2> QED BY <1>1, <1>3, <2>2, <2>3, <2>4 DEF Row
<1> QED BY <1>2, <1>3

\* addPeer, for a connection that was accepted.
LEMMA RowAppends ==
  ASSUME NEW c \in Connection, NEW stay, NEW s \in Seq(Entries), NEW A, NEW P, NEW Q,
         Row(c, stay, s, A, P), Gone(P), ~Gone(Q), Q.id = Back(c)
  PROVE  LET r == Append(s, [conn |-> Back(c), id |-> Back(c)]) IN
         /\ r \in Seq(Entries)
         /\ Row(c, stay, r, A, Q)
         /\ stay /\ ~Gone(A) => r[1].conn = c
<1> DEFINE new == [conn |-> Back(c), id |-> Back(c)]
           r == Append(s, new)
<1>1. new \in Entries /\ new.id = Back(c)
  BY ConnectionParts DEF Entries
<1>2. new = [conn |-> Back(c), id |-> Q.id]
  OBVIOUS
<1> HIDE DEF new
<1>3. r \in Seq(Entries) /\ Len(r) = Len(s) + 1 /\ r[Len(s) + 1] = new
      /\ \A i \in 1 .. Len(s) : r[i] = s[i]
  BY <1>1
<1> HIDE DEF r
<1>4. CASE Gone(A)
  <2>1. s = <<>>
    BY <1>4 DEF Row, Identities
  <2>2. Len(r) = 1 /\ r[1] = new
    BY <1>3, <2>1
  <2> QED BY <1>1, <1>2, <1>3, <1>4, <2>2 DEF Row, Identities, InOrder, r, new
<1>5. CASE ~Gone(A)
  <2>1. Len(s) = 1 /\ s[1].id = A.id /\ (stay => s[1] = [conn |-> c, id |-> A.id])
    BY <1>5 DEF Row, Identities, InOrder
  <2>2. Len(r) = 2 /\ r[1] = s[1] /\ r[2] = new
    BY <1>3, <2>1
  <2>3. Row(c, stay, r, A, Q)
    BY <1>1, <1>2, <1>5, <2>1, <2>2 DEF Row, Identities, InOrder
  <2> QED BY <1>3, <2>1, <2>2, <2>3 DEF r, new
<1> QED BY <1>4, <1>5

\* The identity of a peer that has called replaces its address.
LEMMA RowRenames ==
  ASSUME NEW c \in Connection, NEW stay, NEW s \in Seq(Entries), NEW A, NEW P, NEW Q,
         Row(c, stay, s, A, P), ~Gone(P), ~Gone(Q), Q.id = c[2]
  PROVE  LET r == [s EXCEPT ![FirstWith(s, P.id)].id = c[2]] IN
         r \in Seq(Entries) /\ Row(c, stay, r, A, Q)
<1> DEFINE i == FirstWith(s, P.id)
           r == [s EXCEPT ![i].id = c[2]]
<1>1. i \in 1 .. Len(s) => /\ r \in Seq(Entries) /\ Len(r) = Len(s)
                           /\ r[i].conn = s[i].conn /\ r[i].id = c[2]
                           /\ \A j \in 1 .. Len(s) : j # i => r[j] = s[j]
  <2> HIDE DEF i
  <2> SUFFICES ASSUME i \in 1 .. Len(s)
               PROVE  /\ r \in Seq(Entries) /\ Len(r) = Len(s)
                      /\ r[i].conn = s[i].conn /\ r[i].id = c[2]
                      /\ \A j \in 1 .. Len(s) : j # i => r[j] = s[j]
    OBVIOUS
  <2> DEFINE n == [s[i] EXCEPT !.id = c[2]]
  <2>1. n \in Entries /\ n.conn = s[i].conn /\ n.id = c[2]
    <3>1. s[i] \in Entries /\ c[2] \in Peer
      BY ConnectionParts
    <3> DEFINE v == s[i]
    <3>2. v \in Entries
      BY <3>1
    <3> HIDE DEF v
    <3>3. LET m == [v EXCEPT !.id = c[2]] IN m \in Entries /\ m.conn = v.conn /\ m.id = c[2]
      BY <3>1, <3>2 DEF Entries
    <3> QED BY <3>3 DEF v
  <2>2. r = [s EXCEPT ![i] = n]
    OBVIOUS
  <2> HIDE DEF n
  <2> QED BY <2>1, <2>2
<1>2. \A n \in Entries : n = [conn |-> n.conn, id |-> n.id]
  BY DEF Entries
<1> HIDE DEF r
<1>3. CASE Gone(A)
  <2>1. Len(s) = 1 /\ s[1].id = P.id
    BY <1>3 DEF Row, Identities
  <2>2. i = 1
    BY <2>1, OneOfOne
  <2> HIDE DEF i
  <2>3. Len(r) = 1 /\ r[1].conn = s[1].conn /\ r[1].id = Q.id /\ r \in Seq(Entries) /\ r[1] \in Entries
    <3>1. i \in 1 .. Len(s)
      BY <2>1, <2>2
    <3>2. r \in Seq(Entries) /\ Len(r) = 1 /\ r[1].conn = s[1].conn /\ r[1].id = c[2]
      BY <1>1, <2>1, <2>2, <3>1
    <3>3. \A q \in Seq(Entries) : \A k \in 1 .. Len(q) : q[k] \in Entries
      BY ElementOfSeq
    <3>4. 1 \in 1 .. Len(r)
      BY <3>2
    <3>5. r[1] \in Entries
      BY <3>2, <3>3, <3>4
    <3> QED BY <3>2, <3>5
  <2>4. Identities(r, A, Q)
    BY <1>3, <2>3 DEF Identities
  <2>5. stay => InOrder(c, r, A, Q)
    <3> SUFFICES ASSUME stay PROVE InOrder(c, r, A, Q)
      OBVIOUS
    <3>1. s[1].conn = Back(c)
      BY <2>1 DEF Row, InOrder
    <3>2. r[1] = [conn |-> Back(c), id |-> Q.id]
      BY <1>2, <2>3, <3>1
    <3> QED BY <1>3, <2>3, <3>2 DEF InOrder
  <2> QED BY <1>3, <2>3, <2>4, <2>5 DEF Row, r, i
<1>4. CASE ~Gone(A)
  <2>1. Len(s) = 2 /\ (\/ s[1].id = P.id /\ s[2].id = A.id
                       \/ s[1].id = A.id /\ s[2].id = P.id)
    BY <1>4 DEF Row, Identities
  <2>2. (s[1].id = P.id => i = 1) /\ (s[1].id # P.id => i = 2)
    BY <2>1, OneOfTwo
  <2>3. A.id = c[2]
    BY <1>4 DEF Row
  <2> HIDE DEF i
  <2>4. /\ Len(r) = 2 /\ r \in Seq(Entries) /\ r[1] \in Entries /\ r[2] \in Entries
        /\ r[i].id = c[2] /\ r[1].conn = s[1].conn /\ r[2].conn = s[2].conn
        /\ i = 1 => r[2] = s[2]
        /\ i = 2 => r[1] = s[1]
    BY <1>1, <2>1, <2>2
  <2>5. Identities(r, A, Q)
    BY <1>4, <2>1, <2>2, <2>3, <2>4 DEF Identities
  <2>6. stay => InOrder(c, r, A, Q)
    <3> SUFFICES ASSUME stay PROVE InOrder(c, r, A, Q)
      OBVIOUS
    <3>1. s[1].conn = c /\ s[2].conn = Back(c)
      BY <1>4, <2>1 DEF Row, InOrder
    <3>2. r[1].id = c[2] /\ r[2].id = c[2]
      BY <1>4, <2>5, <2>3 DEF Identities
    <3>3. r[1] = [conn |-> c, id |-> A.id] /\ r[2] = [conn |-> Back(c), id |-> Q.id]
      BY <1>2, <2>3, <2>4, <3>1, <3>2
    <3> QED BY <2>4, <3>3 DEF InOrder
  <2> QED BY <1>4, <2>3, <2>4, <2>5, <2>6 DEF Row, r, i
<1> QED BY <1>3, <1>4

----------------------------------------------------------------------------
(* The counters *)

LEMMA Checked ==
  ASSUME NEW b \in Bases, b.exiting => ~b.listening
  PROVE  LET d == CheckConnections(b) IN
         /\ d \in Bases /\ Listens(d)
         /\ d.current = b.current /\ d.pending = b.pending /\ d.exiting = b.exiting
         /\ d.peerState = b.peerState
<1> DEFINE d == CheckConnections(b)
           l == IF b.current + b.pending + 1 >= MaxNumConnections THEN FALSE
                ELSE IF b.current + b.pending <= MinNumConnections /\ ~b.exiting THEN TRUE
                ELSE b.listening
<1>1. l \in BOOLEAN
  BY DEF Bases
<1>2. d = [b EXCEPT !.listening = l]
  BY DEF CheckConnections
<1>3. /\ b.current \in Int /\ b.pending \in Int
      /\ b.current + b.pending <= MinNumConnections /\ ~b.exiting => l
      /\ b.current + b.pending + 1 >= MaxNumConnections \/ b.exiting => ~l
  <2>1. b.current \in Int /\ b.pending \in Int
    BY DEF Bases
  <2> DEFINE n == b.current + b.pending
  <2>2. n \in Int /\ MinNumConnections \in Int /\ MaxNumConnections \in Int /\ MinNumConnections < MaxNumConnections - 1
    BY <2>1, MinAssumption, MaxAssumption
  <2>3. l <=> ~(n + 1 >= MaxNumConnections) /\ ((n <= MinNumConnections /\ ~b.exiting) \/ b.listening)
    OBVIOUS
  <2> HIDE DEF n, l
  <2>4. ~(n <= MinNumConnections /\ n + 1 >= MaxNumConnections)
    BY <2>2
  <2>5. n <= MinNumConnections /\ ~b.exiting => l
    BY <2>3, <2>4
  <2>6. n + 1 >= MaxNumConnections => ~l
    BY <2>3
  <2>7. b.exiting => ~l
    BY <2>3
  <2> QED BY <2>1, <2>5, <2>6, <2>7 DEF n
<1> HIDE DEF l, d
<1>4. d \in Bases /\ d.listening = l /\ d.current = b.current /\ d.pending = b.pending
      /\ d.exiting = b.exiting /\ d.peerState = b.peerState
  BY <1>1, <1>2 DEF Bases
<1>5. Listens(d)
  BY <1>3, <1>4 DEF Listens
<1> QED BY <1>4, <1>5 DEF d

LEMMA Increased ==
  ASSUME NEW b \in Bases, b.exiting => ~b.listening
  PROVE  LET d == IncreaseCurrent(b) IN
         /\ d \in Bases /\ Listens(d)
         /\ d.current + d.pending = b.current + b.pending
         /\ d.exiting = b.exiting /\ d.peerState = b.peerState
<1> DEFINE f == [b EXCEPT !.current = @ + 1, !.pending = @ - 1]
<1>1. /\ f \in Bases /\ f.current = b.current + 1 /\ f.pending = b.pending - 1 /\ f.exiting = b.exiting
      /\ f.listening = b.listening /\ f.peerState = b.peerState
      /\ b.current \in Int /\ b.pending \in Int
  <2>1. b.current \in Int /\ b.pending \in Int
    BY DEF Bases
  <2>2. b.current + 1 \in Int /\ b.pending - 1 \in Int
    BY <2>1
  <2> DEFINE cu == b.current + 1
             pe == b.pending - 1
  <2>3. f = [b EXCEPT !.current = cu, !.pending = pe]
    OBVIOUS
  <2> HIDE DEF cu, pe, f
  <2>4. cu \in Int /\ pe \in Int
    BY <2>2 DEF cu, pe
  <2>5. /\ f \in Bases /\ f.current = cu /\ f.pending = pe /\ f.exiting = b.exiting
        /\ f.listening = b.listening /\ f.peerState = b.peerState
    BY <2>3, <2>4 DEF Bases
  <2> QED BY <2>1, <2>5 DEF cu, pe
<1>2. IncreaseCurrent(b) = CheckConnections(f)
  BY DEF IncreaseCurrent
<1> HIDE DEF f
<1>3. f.current + f.pending = b.current + b.pending
  BY <1>1
<1> QED BY <1>1, <1>2, <1>3, Checked

\* What EndStep wants of the record of a peer, from the invariant.
LEMMA BaseParts ==
  ASSUME ConnectionInv, NEW x \in Peer
  PROVE  /\ base[x] \in Bases /\ Listens(base[x])
         /\ base[x].exiting => ~base[x].listening
         /\ base[x].current \in Int /\ base[x].pending \in Int
         /\ base[x].peerState \in [Peer -> Seq(Entries)]
<1>1. base[x] \in Bases /\ Listens(base[x])
  BY DEF ConnectionInv, TypeInv, CountInv
<1> QED BY <1>1 DEF Bases, Listens

LEMMA Answered ==
  ASSUME ConnectionInv, NEW e \in Endpoint, NEW m \in Kinds, NEW ms, NEW u,
         Arrives(e, m), Reply(e, ms), Fits(ms, In(Opposite(e))), thread' = [thread EXCEPT ![e] = u],
         Ends(e, u, thread[Opposite(e)], In(e) \ {m}, In(Opposite(e)) \cup On(ms))
  PROVE  WireInv' /\ LinkInv'
<1>1. /\ WireInv' /\ In(e)' = In(e) \ {m} /\ In(Opposite(e))' = In(Opposite(e)) \cup On(ms)
      /\ \A f \in Endpoint : f[1] # e[1] => In(f)' = In(f)
  BY ReplyMoves DEF ConnectionInv
<1>2. Ends(e, u, thread[Opposite(e)], In(e)', In(Opposite(e))')
  BY <1>1
<1> QED BY <1>1, <1>2, StepLinks DEF ConnectionInv

----------------------------------------------------------------------------
(* A connection is established *)

LEMMA ActiveEstablishedStep ==
  ASSUME ConnectionInv, NEW c \in Connection, ActiveEstablished(c)
  PROVE  ConnectionInv'
<1> DEFINE e == ActiveEnd(c)
           t == thread[e]
           o == thread[Opposite(e)]
           b == base[c[1]]
           s == b.peerState[c[2]]
<1>1. /\ e \in Endpoint /\ e[1] = c /\ e[2] = c[1] /\ Other(e) = c[2] /\ Way(e) = c /\ c[1] \in Peer /\ c[2] \in Peer
      /\ Opposite(e) = PassiveEnd(c) /\ Opposite(e) \in Endpoint /\ e = ActiveEnd(e[1])
  BY ConnectionParts
<1>2. /\ Arrives(e, "ESTABLISHED")
      /\ IF AlreadyEstablished(e, s) THEN Reject(e, b, t, <<"ACK">>) ELSE Accept(e, b, t, <<"ACK">>)
  BY DEF ActiveEstablished
<1> HIDE DEF e
<1>3. "ESTABLISHED" \in In(e) /\ "ESTABLISHED" \in Kinds
  BY <1>1, <1>2, Arrived DEF Kinds, ConnectionInv
<1>4. t \in ThreadRecords /\ Linked(t, o, In(e), In(Opposite(e)))
  BY <1>1, LinkEnds DEF Ends, ConnectionInv, TypeInv
<1>5. /\ In(Opposite(e)) = {} /\ ~Gone(t) /\ Gone(o) /\ ~Live(t) /\ ~Live(o)
      /\ t.state \in {"INITIAL", "EARLY_ABORTING"} /\ ~t.closed
  BY <1>3, <1>4, EstablishedLinks
<1>6. b \in Bases /\ Listens(b) /\ (b.exiting => ~b.listening) /\ s \in Seq(Entries)
  BY <1>1, BaseParts
<1>7. RowAt(e, Stay(c), s, t, thread[Twin(e)])
  BY <1>1, RowEnds DEF ConnectionInv
<1>8. /\ t.state = "EARLY_ABORTING" => b.exiting
      /\ b.exiting => t.state # "INITIAL"
  BY <1>1 DEF ConnectionInv, ExitInv
<1>9. Stay(c) => ~b.exiting
  BY DEF Stay
<1>10. "ACK" \in Kinds /\ "CLOSED" \in Kinds /\ "HANDSHAKE" \in Kinds
       /\ <<"CLOSED", "ACK">> \notin Order /\ <<"HANDSHAKE", "ACK">> \notin Order
  BY DEF Kinds, Order
\* In every case the thread stays, becoming u, and the counters together do not change.
<1>11. ASSUME NEW u \in ThreadRecords, NEW d \in Bases, NEW m \in {"CLOSED", "HANDSHAKE"},
              thread' = [thread EXCEPT ![e] = u], base' = [base EXCEPT ![c[1]] = d],
              Reply(e, <<"ACK">> \o <<m>>),
              Linked(u, o, In(e) \ {"ESTABLISHED"}, In(Opposite(e)) \cup {"ACK", m}),
              d.exiting = b.exiting, d.peerState = b.peerState, Listens(d),
              d.current + d.pending = b.current + b.pending,
              ~Gone(u), u.id = t.id, u.state = "EARLY_ABORTING" => b.exiting,
              b.exiting => u.state # "INITIAL" /\ ~Live(u),
              Stay(c) => ~u.closed
       PROVE  ConnectionInv'
  <2>1. Fits(<<"ACK">> \o <<m>>, In(Opposite(e))) /\ On(<<"ACK">> \o <<m>>) = {"ACK", m}
    <3>1. m \in Kinds /\ "ACK" # m /\ <<m, "ACK">> \notin Order
      BY <1>10
    <3> DEFINE in == In(Opposite(e))
    <3>2. \A n : n \notin in
      BY <1>5
    <3> HIDE DEF in
    <3>3. Fits(<<"ACK">> \o <<m>>, in) /\ On(<<"ACK">> \o <<m>>) = {"ACK", m}
      BY <1>10, <3>1, <3>2, FitsTwo
    <3> QED BY <3>3 DEF in
  <2>2. Ends(e, u, o, In(e) \ {"ESTABLISHED"}, In(Opposite(e)) \cup On(<<"ACK">> \o <<m>>))
    BY <1>1, <1>11, <2>1 DEF Ends
  <2>3. WireInv' /\ LinkInv'
    BY <1>1, <1>2, <1>3, <1>11, <2>1, <2>2, Answered
  <2>4. RowAt(e, Stay(Way(e)), s, u, thread[Twin(e)])
    BY <1>1, <1>5, <1>7, <1>11, RowSame
  <2>5. d.peerState = [b.peerState EXCEPT ![Other(e)] = s]
    <3>1. b.peerState \in [Peer -> Seq(Entries)]
      BY <1>1, BaseParts
    <3> QED BY <1>1, <1>11, <3>1
  <2>6. d.current + d.pending = b.current + b.pending + (IF Gone(u) THEN 0 ELSE 1) - (IF Gone(t) THEN 0 ELSE 1)
    <3>1. b.current \in Int /\ b.pending \in Int
      BY <1>1, BaseParts
    <3> QED BY <1>5, <1>11, <3>1
  <2>7. d.exiting = base[e[2]].exiting /\ d.peerState = [base[e[2]].peerState EXCEPT ![Other(e)] = s]
    BY <1>1, <1>11, <2>5
  <2>8. d.current + d.pending = base[e[2]].current + base[e[2]].pending
                + (IF Gone(u) THEN 0 ELSE 1) - (IF Gone(thread[e]) THEN 0 ELSE 1)
    BY <1>1, <2>6
  <2>9. base' = [base EXCEPT ![e[2]] = d]
    BY <1>1, <1>11
  <2>10. Stay(e[1]) => /\ u.closed => IF e = ActiveEnd(e[1]) THEN u.peerClosed ELSE u.id = e[1]
                       /\ Live(u) => \/ Live(thread[e])
                                     \/ ~Live(thread[Opposite(e)])
                                     \/ ~Live(thread[Twin(e)])
                                     \/ ~Live(thread[Opposite(Twin(e))])
    BY <1>1, <1>5, <1>11
  <2> QED BY <1>1, <1>11, <2>3, <2>4, <2>7, <2>8, <2>9, <2>10, EndStep
<1>12. /\ Linked([t EXCEPT !.closed = TRUE], o, In(e) \ {"ESTABLISHED"}, In(Opposite(e)) \cup {"ACK", "CLOSED"})
       /\ Linked([t EXCEPT !.state = "ACTIVE_ABORTING", !.closed = TRUE], o, In(e) \ {"ESTABLISHED"}, In(Opposite(e)) \cup {"ACK", "CLOSED"})
       /\ Linked([t EXCEPT !.state = "ACTIVE_HANDSHAKE"], o, In(e) \ {"ESTABLISHED"}, In(Opposite(e)) \cup {"ACK", "HANDSHAKE"})
  BY <1>3, <1>4, EstablishedLinks
<1>13. /\ IncreaseCurrent(b) \in Bases /\ Listens(IncreaseCurrent(b))
       /\ IncreaseCurrent(b).current + IncreaseCurrent(b).pending = b.current + b.pending
       /\ IncreaseCurrent(b).exiting = b.exiting /\ IncreaseCurrent(b).peerState = b.peerState
  BY <1>6, Increased
<1>14. StateNames = ToSet(States)
  BY DEF ToSet, States, StateNames
<1> HIDE DEF t, o, b, s
<1>15. CASE AlreadyEstablished(e, s)
  <2> DEFINE u == [t EXCEPT !.closed = TRUE]
  <2>1. thread' = [thread EXCEPT ![e] = u] /\ base' = [base EXCEPT ![c[1]] = IncreaseCurrent(b)]
        /\ Reply(e, <<"ACK">> \o <<"CLOSED">>)
    BY <1>1, <1>2, <1>15 DEF Reject
  <2>2. u \in ThreadRecords /\ u.state = t.state /\ u.id = t.id
    BY <1>4 DEF ThreadRecords
  <2>3. Linked(u, o, In(e) \ {"ESTABLISHED"}, In(Opposite(e)) \cup {"ACK", "CLOSED"})
    BY <1>12
  <2> HIDE DEF u
  <2>4. ~Gone(u) /\ ~Live(u)
    BY <1>5, <2>2 DEF Gone, Live
  <2>5. ~Stay(c)
    <3>1. <<s[1].conn, c[1]>> # e
      BY <1>1, <1>15 DEF AlreadyEstablished
    <3>2. Stay(c) => s[1] = [conn |-> c, id |-> t.id]
      BY <1>1, <1>5, <1>7 DEF RowAt, Row, InOrder
    <3>3. e = <<c, c[1]>>
      BY DEF e, ActiveEnd
    <3> QED BY <3>1, <3>2, <3>3
  <2> QED BY <1>8, <1>11, <1>13, <2>1, <2>2, <2>3, <2>4, <2>5
<1>16. CASE ~AlreadyEstablished(e, s) /\ t.state = "EARLY_ABORTING"
  <2> DEFINE u == [t EXCEPT !.state = "ACTIVE_ABORTING", !.closed = TRUE]
  <2>1. thread' = [thread EXCEPT ![e] = u] /\ base' = [base EXCEPT ![c[1]] = b]
        /\ Reply(e, <<"ACK">> \o <<"CLOSED">>)
    BY <1>1, <1>2, <1>16 DEF Accept
  <2>2. u \in ThreadRecords /\ u.state = "ACTIVE_ABORTING" /\ u.id = t.id
    <3>1. "ACTIVE_ABORTING" \in ToSet(States)
      BY <1>14 DEF StateNames
    <3> QED BY <1>4, <3>1 DEF ThreadRecords
  <2>3. Linked(u, o, In(e) \ {"ESTABLISHED"}, In(Opposite(e)) \cup {"ACK", "CLOSED"})
    BY <1>12
  <2> HIDE DEF u
  <2>4. ~Gone(u) /\ ~Live(u)
    BY <2>2 DEF Gone, Live
  <2>5. ~Stay(c)
    BY <1>8, <1>9, <1>16
  <2> QED BY <1>6, <1>11, <2>1, <2>2, <2>3, <2>4, <2>5
<1>17. CASE ~AlreadyEstablished(e, s) /\ t.state # "EARLY_ABORTING"
  <2> DEFINE u == [t EXCEPT !.state = "ACTIVE_HANDSHAKE"]
  <2>1. thread' = [thread EXCEPT ![e] = u] /\ base' = [base EXCEPT ![c[1]] = IncreaseCurrent(b)]
        /\ Reply(e, <<"ACK">> \o <<"HANDSHAKE">>)
    BY <1>1, <1>2, <1>17 DEF Accept, HandshakeMsg
  <2>2. u \in ThreadRecords /\ u.state = "ACTIVE_HANDSHAKE" /\ u.id = t.id /\ u.closed = t.closed
    <3>1. "ACTIVE_HANDSHAKE" \in ToSet(States)
      BY <1>14 DEF StateNames
    <3> QED BY <1>4, <3>1 DEF ThreadRecords
  <2>3. Linked(u, o, In(e) \ {"ESTABLISHED"}, In(Opposite(e)) \cup {"ACK", "HANDSHAKE"})
    BY <1>12
  <2> HIDE DEF u
  <2>4. ~Gone(u) /\ ~b.exiting
    BY <1>5, <1>8, <1>17, <2>2 DEF Gone
  <2> QED BY <1>5, <1>11, <1>13, <2>1, <2>2, <2>3, <2>4
<1> QED BY <1>15, <1>16, <1>17

LEMMA Added ==
  ASSUME NEW b \in Bases, b.exiting => ~b.listening, NEW e \in Endpoint, NEW id \in Peer \cup Connection
  PROVE  LET d == AddPeer(b, e, id) IN
         /\ d \in Bases /\ Listens(d)
         /\ d.current + d.pending = b.current + b.pending + 1
         /\ d.exiting = b.exiting
         /\ d.peerState = [b.peerState EXCEPT ![Other(e)] = Append(@, [conn |-> e[1], id |-> id])]
<1> DEFINE new == [conn |-> e[1], id |-> id]
           ps == [b.peerState EXCEPT ![Other(e)] = Append(@, new)]
           pe == b.pending + 1
           f == [b EXCEPT !.pending = pe, !.peerState = ps]
<1>1. b.current \in Int /\ b.pending \in Int /\ b.peerState \in [Peer -> Seq(Entries)]
  BY DEF Bases
<1>2. new \in Entries /\ Other(e) \in Peer
  BY EndpointParts DEF Entries
<1>3. ps \in [Peer -> Seq(Entries)] /\ pe \in Int
  <2> HIDE DEF new
  <2>1. Append(b.peerState[Other(e)], new) \in Seq(Entries)
    BY <1>1, <1>2
  <2> QED BY <1>1, <1>2, <2>1
<1>4. AddPeer(b, e, id) = CheckConnections(f)
  BY <1>1, <1>2 DEF AddPeer, Bases
<1> HIDE DEF ps, pe, f, new
<1>5. f \in Bases /\ f.current = b.current /\ f.pending = pe /\ f.exiting = b.exiting
      /\ f.listening = b.listening /\ f.peerState = ps
  BY <1>3 DEF f, Bases
<1>6. f.current + f.pending = b.current + b.pending + 1
  BY <1>1, <1>5 DEF pe
<1> QED BY <1>4, <1>5, <1>6, Checked DEF ps, new

LEMMA PassiveEstablishedStep ==
  ASSUME ConnectionInv, NEW c \in Connection, PassiveEstablished(c)
  PROVE  ConnectionInv'
<1> DEFINE e == PassiveEnd(c)
           t == thread[e]
           o == thread[Opposite(e)]
           x == c[2]
           b == AddPeer(base[x], e, c)
           s == base[x].peerState[c[1]]
           r == Append(s, [conn |-> c, id |-> c])
           k == Back(c)
<1>1. /\ e \in Endpoint /\ e[1] = c /\ e[2] = x /\ Other(e) = c[1] /\ Way(e) = k /\ c[1] \in Peer /\ x \in Peer
      /\ Opposite(e) = ActiveEnd(c) /\ Opposite(e) \in Endpoint /\ e # ActiveEnd(c) /\ e # ActiveEnd(e[1])
      /\ k \in Connection /\ Back(k) = c
      /\ c[1] \in Peer
  BY ConnectionParts
<1>2. /\ Arrives(e, "ACK")
      /\ IF AlreadyEstablished(e, b.peerState[c[1]]) THEN Reject(e, b, NewThread(c), <<>>)
         ELSE Accept(e, b, NewThread(c), <<>>)
  BY DEF PassiveEstablished
<1> HIDE DEF e, k
<1>3. "ACK" \in In(e) /\ "ACK" \in Kinds
  BY <1>1, <1>2, Arrived DEF Kinds, ConnectionInv
<1>4. o \in ThreadRecords /\ Linked(o, t, In(Opposite(e)), In(e))
  BY <1>1, LinkEnds DEF Ends, ConnectionInv, TypeInv
<1>5. /\ In(Opposite(e)) = {} /\ Gone(t) /\ ~Live(t) /\ ~Gone(o)
      /\ Linked(o, [NewThread(c) EXCEPT !.closed = TRUE], In(Opposite(e)) \cup {"CLOSED"}, In(e) \ {"ACK"})
      /\ Linked(o, [NewThread(c) EXCEPT !.state = "CONNECTED"], In(Opposite(e)), In(e) \ {"ACK"})
  BY <1>3, <1>4, AckLinks
<1>6. base[x] \in Bases /\ (base[x].exiting => ~base[x].listening) /\ s \in Seq(Entries)
      /\ base[x].current \in Int /\ base[x].pending \in Int /\ base[x].peerState \in [Peer -> Seq(Entries)]
  BY <1>1, BaseParts
<1>7. /\ b \in Bases /\ Listens(b) /\ b.current + b.pending = base[x].current + base[x].pending + 1
      /\ b.exiting = base[x].exiting /\ b.peerState = [base[x].peerState EXCEPT ![c[1]] = r]
  <2>1. c \in Peer \cup Connection
    OBVIOUS
  <2> DEFINE old == base[x]
  <2> HIDE DEF old
  <2>2. old \in Bases /\ (old.exiting => ~old.listening)
    BY <1>6 DEF old
  <2>3. LET f == AddPeer(old, e, c) IN
        /\ f \in Bases /\ Listens(f) /\ f.current + f.pending = old.current + old.pending + 1
        /\ f.exiting = old.exiting
        /\ f.peerState = [old.peerState EXCEPT ![Other(e)] = Append(@, [conn |-> e[1], id |-> c])]
    BY <1>1, <2>1, <2>2, Added
  <2> QED BY <1>1, <2>3 DEF old
<1>8. b.peerState[c[1]] = r
  BY <1>1, <1>6, <1>7
<1>9. /\ IncreaseCurrent(b) \in Bases /\ Listens(IncreaseCurrent(b))
      /\ IncreaseCurrent(b).current + IncreaseCurrent(b).pending = b.current + b.pending
      /\ IncreaseCurrent(b).exiting = b.exiting /\ IncreaseCurrent(b).peerState = b.peerState
  <2>1. b.exiting => ~b.listening
    BY <1>7 DEF Listens
  <2> HIDE DEF b
  <2> QED BY <1>7, <2>1, Increased
<1>10. Row(k, Stay(k), s, thread[Twin(e)], t)
  <2>1. RowAt(e, Stay(k), s, t, thread[Twin(e)])
    BY <1>1, RowEnds DEF ConnectionInv
  <2> QED BY <1>1, <2>1 DEF RowAt
<1> DEFINE d == IncreaseCurrent(b)
<1> HIDE DEF t, o, b, s, r, x, d
\* In both cases there is a new thread u, and one more is counted.
<1>11. ASSUME NEW u \in ThreadRecords, NEW ms,
              thread' = [thread EXCEPT ![e] = u], base' = [base EXCEPT ![x] = d],
              Reply(e, ms), Fits(ms, In(Opposite(e))),
              Linked(o, u, In(Opposite(e)) \cup On(ms), In(e) \ {"ACK"}),
              ~Gone(u), u.id = c, u.state # "EARLY_ABORTING",
              Stay(c) /\ Live(u) => ~Live(thread[Twin(e)])
       PROVE  ConnectionInv'
  <2>1. Ends(e, u, o, In(e) \ {"ACK"}, In(Opposite(e)) \cup On(ms))
    BY <1>1, <1>11 DEF Ends
  <2>2. WireInv' /\ LinkInv'
    BY <1>1, <1>2, <1>3, <1>11, <2>1, Answered DEF o
  <2>3. Row(k, Stay(k), r, thread[Twin(e)], u)
    BY <1>1, <1>5, <1>6, <1>10, <1>11, RowAppends DEF r
  <2>4. RowAt(e, Stay(Way(e)), r, u, thread[Twin(e)])
    BY <1>1, <2>3 DEF RowAt
  <2>5. d.exiting = base[e[2]].exiting /\ d.peerState = [base[e[2]].peerState EXCEPT ![Other(e)] = r]
        /\ d \in Bases /\ Listens(d) /\ base' = [base EXCEPT ![e[2]] = d]
    BY <1>1, <1>7, <1>9, <1>11 DEF d
  <2>6. d.current + d.pending = base[e[2]].current + base[e[2]].pending
                + (IF Gone(u) THEN 0 ELSE 1) - (IF Gone(thread[e]) THEN 0 ELSE 1)
    <3>1. Gone(thread[e])
      BY <1>5 DEF t
    <3>2. d.current + d.pending = base[e[2]].current + base[e[2]].pending + 1
      BY <1>1, <1>7, <1>9 DEF d
    <3> QED BY <1>1, <1>6, <1>11, <3>1, <3>2
  <2>7. Stay(e[1]) => /\ u.closed => IF e = ActiveEnd(e[1]) THEN u.peerClosed ELSE u.id = e[1]
                      /\ Live(u) => \/ Live(thread[e])
                                    \/ ~Live(thread[Opposite(e)])
                                    \/ ~Live(thread[Twin(e)])
                                    \/ ~Live(thread[Opposite(Twin(e))])
    BY <1>1, <1>11
  <2> QED BY <1>1, <1>11, <2>2, <2>4, <2>5, <2>6, <2>7, EndStep
<1>12. \A n : <<>> \o <<n>> = <<n>>
  OBVIOUS
<1>13. StateNames = ToSet(States)
  BY DEF ToSet, States, StateNames
<1>14. CASE AlreadyEstablished(e, b.peerState[c[1]])
  <2> DEFINE u == [NewThread(c) EXCEPT !.closed = TRUE]
  <2>1. thread' = [thread EXCEPT ![e] = u] /\ base' = [base EXCEPT ![x] = d] /\ Reply(e, <<>> \o <<"CLOSED">>)
    BY <1>1, <1>2, <1>14 DEF Reject, d
  <2>2. u \in ThreadRecords /\ u.state = "INITIAL" /\ u.id = c
    BY <1>13 DEF ThreadRecords, NewThread, NoThread, StateNames
  <2>3. Linked(o, u, In(Opposite(e)) \cup {"CLOSED"}, In(e) \ {"ACK"})
    BY <1>5
  <2> HIDE DEF u
  <2>4. ~Gone(u) /\ ~Live(u)
    BY <2>2 DEF Gone, Live
  <2>5. Fits(<<"CLOSED">>, In(Opposite(e))) /\ On(<<"CLOSED">>) = {"CLOSED"}
    <3>1. "CLOSED" \in Kinds /\ \A p \in Order : p[1] # "CLOSED"
      BY DEF Kinds, Order
    <3> DEFINE in == In(Opposite(e))
    <3>2. "CLOSED" \notin in
      BY <1>5
    <3> HIDE DEF in
    <3>3. Fits(<<"CLOSED">>, in) /\ On(<<"CLOSED">>) = {"CLOSED"}
      BY <3>1, <3>2, FitsOne
    <3> QED BY <3>3 DEF in
  <2>6. Reply(e, <<"CLOSED">>)
    BY <1>12, <2>1
  <2>7. Linked(o, u, In(Opposite(e)) \cup On(<<"CLOSED">>), In(e) \ {"ACK"})
    BY <2>3, <2>5
  <2> QED BY <1>11, <2>1, <2>2, <2>4, <2>5, <2>6, <2>7
<1>15. CASE ~AlreadyEstablished(e, b.peerState[c[1]])
  <2> DEFINE u == [NewThread(c) EXCEPT !.state = "CONNECTED"]
  <2>1. thread' = [thread EXCEPT ![e] = u] /\ base' = [base EXCEPT ![x] = d] /\ Reply(e, <<>>)
    <3>1. NewThread(c).state = "INITIAL"
      BY DEF NewThread, NoThread
    <3> QED BY <1>1, <1>2, <1>15, <3>1 DEF Accept, d
  <2>2. u \in ThreadRecords /\ u.state = "CONNECTED" /\ u.id = c
    BY <1>13 DEF ThreadRecords, NewThread, NoThread, StateNames
  <2>3. Linked(o, u, In(Opposite(e)), In(e) \ {"ACK"})
    BY <1>5
  <2> HIDE DEF u
  <2>4. ~Gone(u)
    BY <2>2 DEF Gone
  <2>5. Fits(<<>>, In(Opposite(e))) /\ In(Opposite(e)) \cup On(<<>>) = In(Opposite(e))
    <3>1. Fits(<<>>, In(Opposite(e))) /\ On(<<>>) = {}
      BY FitsNone
    <3> QED BY <3>1
  <2>6. Linked(o, u, In(Opposite(e)) \cup On(<<>>), In(e) \ {"ACK"})
    BY <2>3, <2>5
  <2>7. Stay(c) => ~Live(thread[Twin(e)])
    <3> SUFFICES ASSUME Stay(c), Live(thread[Twin(e)]) PROVE FALSE
      OBVIOUS
    <3>1. Stay(k) /\ ~Gone(thread[Twin(e)])
      BY DEF Stay, k, Back, Live, Gone
    <3>2. r[1].conn = k
      <4>1. Gone(t) /\ ~Gone(u) /\ u.id = Back(k)
        BY <1>1, <1>5, <2>2, <2>4
      <4>2. LET q == Append(s, [conn |-> Back(k), id |-> Back(k)]) IN
            Stay(k) /\ ~Gone(thread[Twin(e)]) => q[1].conn = k
        BY <1>1, <1>6, <1>10, <4>1, RowAppends
      <4> QED BY <1>1, <3>1, <4>2 DEF r
    <3>3. Twin(e) = <<k, x>> /\ Twin(e) # e /\ Twin(e) \in Endpoint
      BY <1>1, TwinParts DEF Twin, k
    <3>4. ~Beyond(Twin(e), "INITIAL")
      BY <1>1, <1>8, <1>15, <3>2, <3>3 DEF AlreadyEstablished
    <3> QED BY <3>3, <3>4, BeyondMeans DEF ConnectionInv
  <2> QED BY <1>11, <2>1, <2>2, <2>4, <2>5, <2>6, <2>7
<1> QED BY <1>14, <1>15

LEMMA HandshakeStep ==
  ASSUME ConnectionInv, NEW e \in Endpoint, Handshake(e)
  PROVE  ConnectionInv'
<1> DEFINE t == thread[e]
           o == thread[Opposite(e)]
           x == e[2]
           y == Other(e)
           s == base[x].peerState[y]
<1>1. /\ e[1] \in Connection /\ x \in Peer /\ y \in Peer /\ Opposite(e) \in Endpoint
      /\ e = ActiveEnd(e[1]) \/ e = PassiveEnd(e[1])
      /\ Way(e) \in Connection /\ Way(e)[1] = x /\ Way(e)[2] = y
  BY EndpointParts DEF Way
<1>2. Arrives(e, "HANDSHAKE") /\ "HANDSHAKE" \in Kinds
  BY DEF Handshake, HandshakeMsg, Kinds
<1>3. "HANDSHAKE" \in In(e) /\ "ACK" \notin In(e)
  <2>1. <<"ACK", "HANDSHAKE">> \in Order
    BY DEF Order
  <2>2. "HANDSHAKE" \in In(e) /\ \A p \in Order : p[2] = "HANDSHAKE" => p[1] \notin In(e)
    BY <1>2, Arrived DEF ConnectionInv
  <2> QED BY <2>1, <2>2
<1>4. t \in ThreadRecords /\ t.state \in StateNames /\ Ends(e, t, o, In(e), In(Opposite(e)))
      /\ (Beyond(e, "INITIAL") <=> Live(t))
  BY LinkEnds, BeyondMeans DEF ConnectionInv, TypeInv
<1>5. ASSUME NEW u, u.state = "HANDSHAKE_COMPLETE", u.closed = t.closed, u.acked = t.acked, u.peerClosed = t.peerClosed
      PROVE  /\ ~Gone(t)
             /\ ~Live(t) => Ends(e, t, o, In(e) \ {"HANDSHAKE"}, In(Opposite(e)))
             /\ t.state = "ACTIVE_HANDSHAKE" => Ends(e, u, o, In(e) \ {"HANDSHAKE"}, In(Opposite(e)))
             /\ Live(t) /\ t.state # "ACTIVE_HANDSHAKE" =>
                  /\ In(Opposite(e)) \cap {"HANDSHAKE", "CLOSED"} = {} /\ ~t.closed /\ e # ActiveEnd(e[1])
                  /\ Ends(e, u, o, In(e) \ {"HANDSHAKE"}, In(Opposite(e)) \cup {"HANDSHAKE"})
  BY <1>3, <1>4, <1>5, HandshakeLinks
<1>6. Fits(<<>>, In(Opposite(e))) /\ On(<<>>) = {} /\ In(Opposite(e)) \cup On(<<>>) = In(Opposite(e))
  <2>1. Fits(<<>>, In(Opposite(e))) /\ On(<<>>) = {}
    BY FitsNone
  <2> QED BY <2>1
<1>7. "HANDSHAKE_COMPLETE" \in ToSet(States)
  BY DEF ToSet, States
<1>8. thread \in [Endpoint -> ThreadRecords] /\ base \in [Peer -> Bases]
  BY DEF ConnectionInv, TypeInv
<1>10. CASE ~Live(t)
  <2>1. Reply(e, <<>>) /\ UNCHANGED <<base, thread>>
    BY <1>4, <1>10 DEF Handshake
  <2>2. thread' = [thread EXCEPT ![e] = t]
    BY <1>8, <2>1
  <2>3. Ends(e, t, o, In(e) \ {"HANDSHAKE"}, In(Opposite(e)) \cup On(<<>>))
    <3> DEFINE u == [t EXCEPT !.state = "HANDSHAKE_COMPLETE"]
    <3>1. u.state = "HANDSHAKE_COMPLETE" /\ u.closed = t.closed /\ u.acked = t.acked /\ u.peerClosed = t.peerClosed
      BY <1>4 DEF ThreadRecords
    <3> HIDE DEF u, t, o
    <3> QED BY <1>5, <1>6, <1>10, <3>1
  <2>4. WireInv' /\ LinkInv'
    BY <1>2, <1>6, <2>1, <2>2, <2>3, Answered
  <2> QED BY <2>1, <2>4, QuietStep
<1>11. CASE t.state = "ACTIVE_HANDSHAKE"
  <2> DEFINE u == [t EXCEPT !.state = "HANDSHAKE_COMPLETE"]
  <2>1. Live(t)
    BY <1>11 DEF Live
  <2>2. Reply(e, <<>>) /\ base' = base /\ thread' = [thread EXCEPT ![e] = u]
    BY <1>4, <1>11, <2>1 DEF Handshake
  <2>3. u \in ThreadRecords /\ u.state = "HANDSHAKE_COMPLETE" /\ u.closed = t.closed /\ u.acked = t.acked
        /\ u.peerClosed = t.peerClosed /\ u.id = t.id
    <3> HIDE DEF t
    <3> QED BY <1>4, <1>7 DEF ThreadRecords
  <2> HIDE DEF u
  <2>4. ~Gone(t) /\ Ends(e, u, o, In(e) \ {"HANDSHAKE"}, In(Opposite(e)))
    BY <1>5, <1>11, <2>3
  <2>5. /\ WireInv' /\ In(e)' = In(e) \ {"HANDSHAKE"} /\ In(Opposite(e))' = In(Opposite(e)) \cup On(<<>>)
        /\ \A f \in Endpoint : f[1] # e[1] => In(f)' = In(f)
    BY <1>2, <1>6, <2>2, ReplyMoves DEF ConnectionInv
  <2>6. Ends(e, u, o, In(e)', In(Opposite(e))')
    BY <1>6, <2>4, <2>5
  <2>7. ~Gone(u) /\ u.state # "INITIAL" /\ u.state # "EARLY_ABORTING"
    BY <2>3 DEF Gone
  <2>8. Stay(e[1]) => (u.closed => IF e = ActiveEnd(e[1]) THEN u.peerClosed ELSE u.id = e[1])
    BY <1>1, <2>3 DEF ConnectionInv, OrderlyInv
  <2> QED BY <2>1, <2>2, <2>3, <2>4, <2>5, <2>6, <2>7, <2>8, KeepStep
<1>12. CASE Live(t) /\ t.state # "ACTIVE_HANDSHAKE"
  <2> DEFINE u == [t EXCEPT !.state = "HANDSHAKE_COMPLETE", !.id = y]
             r == [s EXCEPT ![FirstWith(s, t.id)].id = y]
             ps == [base[x].peerState EXCEPT ![y] = r]
             d == [base[x] EXCEPT !.peerState = ps]
  <2>1. /\ Reply(e, <<"HANDSHAKE">>) /\ thread' = [thread EXCEPT ![e] = u]
        /\ base' = [base EXCEPT ![e[2]].peerState[Other(e)] =
                    LET i == SelectInSeq(@, LAMBDA entry : entry.id = thread[e].id)
                    IN  [@ EXCEPT ![i].id = Other(e)]]
    BY <1>4, <1>8, <1>12 DEF Handshake, HandshakeMsg
  <2>2. base' = [base EXCEPT ![x] = d]
    BY <2>1 DEF FirstWith
  <2>3. u \in ThreadRecords /\ u.state = "HANDSHAKE_COMPLETE" /\ u.closed = t.closed /\ u.acked = t.acked
        /\ u.peerClosed = t.peerClosed /\ u.id = y
    <3> HIDE DEF t, y
    <3> QED BY <1>1, <1>4, <1>7 DEF ThreadRecords
  <2> HIDE DEF u
  <2>4. /\ ~Gone(t) /\ In(Opposite(e)) \cap {"HANDSHAKE", "CLOSED"} = {} /\ ~t.closed /\ e # ActiveEnd(e[1])
        /\ Ends(e, u, o, In(e) \ {"HANDSHAKE"}, In(Opposite(e)) \cup {"HANDSHAKE"})
    BY <1>5, <1>12, <2>3
  <2>5. Fits(<<"HANDSHAKE">>, In(Opposite(e))) /\ On(<<"HANDSHAKE">>) = {"HANDSHAKE"}
    <3> DEFINE in == In(Opposite(e))
    <3>1. "HANDSHAKE" \notin in /\ "CLOSED" \notin in
      BY <2>4
    <3>2. \A p \in Order : p[1] = "HANDSHAKE" => p[2] = "CLOSED"
      BY DEF Order
    <3> HIDE DEF in
    <3>3. Fits(<<"HANDSHAKE">>, in) /\ On(<<"HANDSHAKE">>) = {"HANDSHAKE"}
      BY <1>2, <3>1, <3>2, FitsOne
    <3> QED BY <3>3 DEF in
  <2>6. Ends(e, u, o, In(e) \ {"HANDSHAKE"}, In(Opposite(e)) \cup On(<<"HANDSHAKE">>))
    BY <2>4, <2>5
  <2>7. WireInv' /\ LinkInv'
    BY <1>2, <2>1, <2>5, <2>6, Answered
  <2>8. base[x] \in Bases /\ Listens(base[x]) /\ s \in Seq(Entries) /\ base[x].peerState \in [Peer -> Seq(Entries)]
        /\ base[x].current \in Int /\ base[x].pending \in Int
    BY <1>1, BaseParts
  <2>9. Row(Way(e), Stay(Way(e)), s, thread[Twin(e)], t)
    <3>1. RowAt(e, Stay(Way(e)), s, t, thread[Twin(e)])
      BY RowEnds DEF ConnectionInv
    <3> QED BY <2>4, <3>1 DEF RowAt
  <2>10. r \in Seq(Entries) /\ Row(Way(e), Stay(Way(e)), r, thread[Twin(e)], u)
    <3>1. ~Gone(u)
      BY <2>3 DEF Gone
    <3> HIDE DEF t, s
    <3> QED BY <1>1, <2>3, <2>4, <2>8, <2>9, <3>1, RowRenames
  <2> HIDE DEF r
  <2>11. RowAt(e, Stay(Way(e)), r, u, thread[Twin(e)])
    BY <2>4, <2>10 DEF RowAt
  <2>12. ps \in [Peer -> Seq(Entries)]
    BY <2>8, <2>10
  <2>13. d \in Bases /\ d.peerState = ps /\ d.current = base[x].current /\ d.pending = base[x].pending
         /\ d.exiting = base[x].exiting /\ d.listening = base[x].listening
    <3> HIDE DEF ps
    <3> QED BY <2>8, <2>12 DEF Bases
  <2> HIDE DEF d
  <2>14. Listens(d)
    BY <2>8, <2>13 DEF Listens
  <2>15. d.current + d.pending = base[x].current + base[x].pending + (IF Gone(u) THEN 0 ELSE 1) - (IF Gone(t) THEN 0 ELSE 1)
    <3>1. ~Gone(u) /\ ~Gone(t)
      BY <2>3, <2>4 DEF Gone
    <3> QED BY <2>8, <2>13, <3>1
  <2>16. Stay(e[1]) => /\ u.closed => IF e = ActiveEnd(e[1]) THEN u.peerClosed ELSE u.id = e[1]
                       /\ Live(u) => \/ Live(thread[e])
                                     \/ ~Live(thread[Opposite(e)])
                                     \/ ~Live(thread[Twin(e)])
                                     \/ ~Live(thread[Opposite(Twin(e))])
    BY <1>12, <2>3, <2>4
  <2>17. u.state # "EARLY_ABORTING"
    BY <2>3
  <2> QED BY <2>1, <2>2, <2>3, <2>4, <2>7, <2>11, <2>13, <2>14, <2>15, <2>16, <2>17, EndStep
<1> QED BY <1>10, <1>11, <1>12

----------------------------------------------------------------------------
(* A thread ends *)

\* removePeer and one of the counters.
LEMMA RemoveStep ==
  ASSUME ConnectionInv, NEW e \in Endpoint, NEW b \in Bases,
         ~Gone(thread[e]),
         thread' = [thread EXCEPT ![e] = NoThread],
         base' = [base EXCEPT ![e[2]] = CheckConnections(RemovePeer(b, Other(e), thread[e].id))],
         b.exiting = base[e[2]].exiting, b.listening = base[e[2]].listening,
         b.peerState = base[e[2]].peerState,
         b.current + b.pending = base[e[2]].current + base[e[2]].pending - 1,
         WireInv', LinkInv',
         Stay(e[1]) /\ e # ActiveEnd(e[1]) => thread[e].id = e[1]
  PROVE  ConnectionInv'
<1> DEFINE x == e[2]
           y == Other(e)
           t == thread[e]
           k == Way(e)
           s == base[x].peerState[y]
           r == RemoveAt(s, FirstWith(s, t.id))
           ps == [b.peerState EXCEPT ![y] = r]
           f == [b EXCEPT !.peerState = ps]
           d == CheckConnections(f)
<1>1. /\ x \in Peer /\ y \in Peer /\ k \in Connection /\ e[1] \in {k, Back(k)} /\ e[1] \in Connection
      /\ e = ActiveEnd(e[1]) \/ e = PassiveEnd(e[1])
  BY EndpointParts
<1>2. /\ base[x] \in Bases /\ (base[x].exiting => ~base[x].listening) /\ s \in Seq(Entries)
      /\ base[x].peerState \in [Peer -> Seq(Entries)] /\ base[x].current \in Int /\ base[x].pending \in Int
  BY <1>1, BaseParts
<1>3. RowAt(e, Stay(k), s, t, thread[Twin(e)])
  BY RowEnds DEF ConnectionInv
<1>4. Stay(k) <=> Stay(e[1])
  BY <1>1 DEF Stay, Back
<1>5. r \in Seq(Entries) /\ RowAt(e, Stay(k), r, NoThread, thread[Twin(e)])
  <2> HIDE DEF s, t, k, r
  <2>1. CASE e = ActiveEnd(e[1])
    <3>1. Row(k, Stay(k), s, t, thread[Twin(e)])
      BY <1>3, <2>1 DEF RowAt, k
    <3>2. r \in Seq(Entries) /\ Row(k, Stay(k), r, NoThread, thread[Twin(e)])
      BY <1>1, <1>2, <3>1, RowRemovesActive DEF r, t
    <3> QED BY <2>1, <3>2 DEF RowAt, k
  <2>2. CASE e # ActiveEnd(e[1])
    <3>1. Row(k, Stay(k), s, thread[Twin(e)], t)
      BY <1>3, <2>2 DEF RowAt, k
    <3>2. Back(k) = e[1]
      BY <1>1, <2>2, ConnectionParts DEF k
    <3>3. Stay(k) => t.id = Back(k)
      BY <1>4, <2>2, <3>2 DEF t
    <3>4. r \in Seq(Entries) /\ Row(k, Stay(k), r, thread[Twin(e)], NoThread)
      BY <1>1, <1>2, <3>1, <3>3, RowRemovesPassive DEF r, t
    <3> QED BY <2>2, <3>4 DEF RowAt, k
  <2> QED BY <2>1, <2>2
<1>6. RemovePeer(b, y, t.id) = f
  <2>1. RemovePeer(b, y, t.id) = [b EXCEPT !.peerState[y] = RemoveAt(@, FirstWith(@, t.id))]
    BY DEF RemovePeer, FirstWith
  <2> QED BY <2>1
<1>7. ps \in [Peer -> Seq(Entries)] /\ ps = [base[x].peerState EXCEPT ![y] = r]
  <2> HIDE DEF r
  <2> QED BY <1>2, <1>5
<1>8. /\ f \in Bases /\ f.current = b.current /\ f.pending = b.pending /\ f.exiting = b.exiting
      /\ f.listening = b.listening /\ f.peerState = ps
  <2> HIDE DEF ps
  <2> QED BY <1>7 DEF Bases
<1> HIDE DEF f
<1>9. /\ d \in Bases /\ Listens(d) /\ d.current = f.current /\ d.pending = f.pending /\ d.exiting = f.exiting
      /\ d.peerState = f.peerState
  BY <1>2, <1>8, Checked
<1>10. base' = [base EXCEPT ![x] = d]
  BY <1>6
<1> HIDE DEF d
<1>11. Gone(NoThread) /\ NoThread \in ThreadRecords /\ ~Live(NoThread) /\ NoThread.state = "NONE" /\ ~NoThread.closed
  BY DEF Gone, Live, NoThread, ThreadRecords, ToSet, States
<1>12. d.current + d.pending = base[x].current + base[x].pending
                + (IF Gone(NoThread) THEN 0 ELSE 1) - (IF Gone(t) THEN 0 ELSE 1)
  BY <1>2, <1>8, <1>9, <1>11
<1>13. d.exiting = base[x].exiting /\ d.peerState = [base[x].peerState EXCEPT ![y] = r]
  BY <1>7, <1>8, <1>9
<1>14. Stay(e[1]) => /\ NoThread.closed => IF e = ActiveEnd(e[1]) THEN NoThread.peerClosed ELSE NoThread.id = e[1]
                     /\ Live(NoThread) => \/ Live(thread[e])
                                          \/ ~Live(thread[Opposite(e)])
                                          \/ ~Live(thread[Twin(e)])
                                          \/ ~Live(thread[Opposite(Twin(e))])
  BY <1>11
<1>15. NoThread.state # "EARLY_ABORTING" /\ NoThread.state # "INITIAL"
  BY <1>11
<1> HIDE DEF r, ps
<1> QED BY <1>5, <1>9, <1>10, <1>11, <1>12, <1>13, <1>14, <1>15, EndStep

LEMMA ClosedStep ==
  ASSUME ConnectionInv, NEW e \in Endpoint, Closed(e)
  PROVE  ConnectionInv'
<1> DEFINE t == thread[e]
           b == [base[e[2]] EXCEPT !.current = @ - 1]
<1>1. /\ t.acked /\ t.peerClosed
      /\ base' = [base EXCEPT ![e[2]] = CheckConnections(RemovePeer(b, Other(e), t.id))]
      /\ thread' = [thread EXCEPT ![e] = NoThread]
      /\ wire' = wire
  BY DEF Closed
<1>2. e[2] \in Peer /\ e[1] \in Connection /\ (e = ActiveEnd(e[1]) \/ e = PassiveEnd(e[1]))
  BY EndpointParts
<1>3. ~Gone(t) /\ "ACK" \notin In(e)
  BY <1>1, EndParts DEF ConnectionInv
<1>4. Ends(e, t, thread[Opposite(e)], In(e), In(Opposite(e)))
  BY LinkEnds DEF ConnectionInv
<1>5. t.closed /\ Ends(e, NoThread, thread[Opposite(e)], In(e), In(Opposite(e)))
  BY <1>1, <1>3, <1>4, GoneLinks
<1>6. WireInv' /\ \A f \in Endpoint : In(f)' = In(f)
  BY <1>1 DEF ConnectionInv, WireInv, In
<1>7. Ends(e, NoThread, thread[Opposite(e)], In(e)', In(Opposite(e))')
  <2>1. Opposite(e) \in Endpoint
    BY EndpointParts
  <2> QED BY <1>5, <1>6, <2>1
<1>8. LinkInv'
  BY <1>1, <1>6, <1>7, StepLinks DEF ConnectionInv
<1>9. base[e[2]] \in Bases /\ base[e[2]].current \in Int /\ base[e[2]].pending \in Int
  BY <1>2, BaseParts
<1>10. /\ b \in Bases /\ b.exiting = base[e[2]].exiting /\ b.listening = base[e[2]].listening
       /\ b.peerState = base[e[2]].peerState /\ b.current = base[e[2]].current - 1 /\ b.pending = base[e[2]].pending
  <2> DEFINE old == base[e[2]]
             cu == old.current - 1
  <2>1. b = [old EXCEPT !.current = cu] /\ cu \in Int /\ old \in Bases
    BY <1>9
  <2> HIDE DEF old, cu, b
  <2>2. /\ b \in Bases /\ b.exiting = old.exiting /\ b.listening = old.listening
        /\ b.peerState = old.peerState /\ b.current = cu /\ b.pending = old.pending
    BY <2>1 DEF Bases
  <2> QED BY <2>2 DEF old, cu
<1>11. b.current + b.pending = base[e[2]].current + base[e[2]].pending - 1
  BY <1>9, <1>10
<1>12. Stay(e[1]) /\ e # ActiveEnd(e[1]) => t.id = e[1]
  BY <1>2, <1>5 DEF ConnectionInv, OrderlyInv
<1> HIDE DEF b
<1> QED BY <1>1, <1>3, <1>6, <1>8, <1>10, <1>11, <1>12, RemoveStep

LEMMA FailureStep ==
  ASSUME ConnectionInv, NEW e \in Endpoint, Failure(e)
  PROVE  ConnectionInv'
<1> DEFINE t == thread[e]
           o == thread[Opposite(e)]
           b == [base[e[2]] EXCEPT !.pending = @ - 1]
<1>1. /\ Arrives(e, "REFUSED") /\ Reply(e, <<>>)
      /\ base' = [base EXCEPT ![e[2]] = CheckConnections(RemovePeer(b, Other(e), t.id))]
      /\ thread' = [thread EXCEPT ![e] = NoThread]
  BY DEF Failure
<1>2. e[2] \in Peer
  BY EndpointParts
<1>3. "REFUSED" \in Kinds /\ "REFUSED" \in In(e)
  BY <1>1, Arrived DEF ConnectionInv, Kinds
<1>4. e = ActiveEnd(e[1])
  BY <1>3, EndParts DEF ConnectionInv
<1>5. Linked(t, o, In(e), In(Opposite(e)))
  BY <1>4, LinkEnds DEF ConnectionInv, Ends
<1>6. ~Gone(t) /\ Linked(NoThread, o, In(e) \ {"REFUSED"}, In(Opposite(e)))
  BY <1>3, <1>5, RefusedLinks
<1>7. Fits(<<>>, In(Opposite(e))) /\ On(<<>>) = {}
  BY FitsNone
<1>8. Ends(e, NoThread, o, In(e) \ {"REFUSED"}, In(Opposite(e)) \cup On(<<>>))
  <2>1. In(Opposite(e)) \cup On(<<>>) = In(Opposite(e))
    BY <1>7
  <2> QED BY <1>4, <1>6, <2>1 DEF Ends
<1>9. WireInv' /\ LinkInv'
  BY <1>1, <1>3, <1>7, <1>8, Answered
<1>10. base[e[2]] \in Bases /\ base[e[2]].current \in Int /\ base[e[2]].pending \in Int
  BY <1>2, BaseParts
<1>11. /\ b \in Bases /\ b.exiting = base[e[2]].exiting /\ b.listening = base[e[2]].listening
       /\ b.peerState = base[e[2]].peerState /\ b.current = base[e[2]].current /\ b.pending = base[e[2]].pending - 1
  <2> DEFINE old == base[e[2]]
             pe == old.pending - 1
  <2>1. b = [old EXCEPT !.pending = pe] /\ pe \in Int /\ old \in Bases
    BY <1>10
  <2> HIDE DEF old, pe, b
  <2>2. /\ b \in Bases /\ b.exiting = old.exiting /\ b.listening = old.listening
        /\ b.peerState = old.peerState /\ b.current = old.current /\ b.pending = pe
    BY <2>1 DEF Bases
  <2> QED BY <2>2 DEF old, pe
<1>12. b.current + b.pending = base[e[2]].current + base[e[2]].pending - 1
  BY <1>10, <1>11
<1> HIDE DEF b
<1> QED BY <1>1, <1>4, <1>6, <1>9, <1>11, <1>12, RemoveStep

----------------------------------------------------------------------------
(* The tracker responds *)

Call(x, y) == ActiveEnd(<<x, y>>)

\* Peers without an entry are not connected in any way.
LEMMA UnknownFree ==
  ASSUME ConnectionInv, NEW x \in Peer, NEW y \in Unknown(x),
         \A z \in Others(x) : thread[<<<<x, z>>, z>>].state = "NONE"
  PROVE  /\ y \in Peer /\ y # x /\ <<x, y>> \in Connection
         /\ base[x].peerState[y] = <<>>
         /\ thread[ActiveEnd(<<x, y>>)] = NoThread /\ thread[PassiveEnd(<<x, y>>)] = NoThread
         /\ In(ActiveEnd(<<x, y>>)) = {} /\ In(PassiveEnd(<<x, y>>)) = {}
         /\ Gone(thread[PassiveEnd(<<y, x>>)])
<1> DEFINE c == <<x, y>>
<1>1. y \in base[x].peers /\ y # x /\ base[x].peerState[y] = <<>> /\ base[x] \in Bases
  BY BaseParts DEF Unknown, Others
<1>2. y \in Peer
  BY <1>1 DEF Bases
<1>3. c \in Connection /\ c[1] = x /\ c[2] = y /\ Back(c) = <<y, x>>
  BY <1>1, <1>2 DEF Connection, Back
<1>4. PassiveEnd(c) = <<<<x, y>>, y>>
  BY DEF PassiveEnd
<1>5. Gone(thread[PassiveEnd(c)])
  BY <1>1, <1>4 DEF Gone, Unknown
<1> HIDE DEF c
<1>6. Row(c, Stay(c), base[x].peerState[y], thread[ActiveEnd(c)], thread[PassiveEnd(Back(c))])
  BY <1>3 DEF ConnectionInv, TableInv
<1>7. Gone(thread[ActiveEnd(c)]) /\ Gone(thread[PassiveEnd(Back(c))])
  <2> DEFINE s == base[x].peerState[y]
  <2>1. s = <<>>
    BY <1>1
  <2>2. Len(s) = 0
    BY <2>1
  <2> HIDE DEF s
  <2>3. Identities(s, thread[ActiveEnd(c)], thread[PassiveEnd(Back(c))])
    BY <1>6 DEF Row, s
  <2> QED BY <2>2, <2>3 DEF Identities
<1>8. Linked(thread[ActiveEnd(c)], thread[PassiveEnd(c)], In(ActiveEnd(c)), In(PassiveEnd(c)))
  BY <1>3 DEF ConnectionInv, LinkInv
<1>9. Free(thread[ActiveEnd(c)], thread[PassiveEnd(c)], In(ActiveEnd(c)), In(PassiveEnd(c)))
  BY <1>5, <1>7, <1>8 DEF Linked, Opening, HalfOpen, Open, Gone
<1> QED BY <1>1, <1>2, <1>3, <1>7, <1>9 DEF Free, c

LEMMA CallsCounted ==
  ASSUME NEW x \in Peer, NEW called \in SUBSET Peer, x \notin called
  PROVE  LET new == {Call(x, y) : y \in called} IN
         /\ new \subseteq Endpoint /\ IsFiniteSet(new) /\ Cardinality(new) = Cardinality(called)
         /\ IsFiniteSet(called) /\ Cardinality(called) \in Nat
<1> DEFINE new == {Call(x, y) : y \in called}
           f == [y \in called |-> Call(x, y)]
<1>1. IsFiniteSet(called)
  BY PeerAssumption, FS_Subset
<1>2. \A y, z : Call(x, y) = Call(x, z) => y = z
  BY DEF Call, ActiveEnd
<1>3. f \in Bijection(called, new)
  <2>1. f \in [called -> new]
    OBVIOUS
  <2>2. \A y, z \in called : f[y] = f[z] => y = z
    BY <1>2
  <2>3. \A e \in new : \E y \in called : f[y] = e
    OBVIOUS
  <2> HIDE DEF f, new
  <2> QED BY <2>1, <2>2, <2>3 DEF Bijection, Injection, Surjection, IsInjective
<1>4. ExistsBijection(called, new)
  BY <1>3 DEF ExistsBijection
<1>5. IsFiniteSet(new) /\ Cardinality(new) = Cardinality(called)
  BY <1>1, <1>4, FS_Bijection
<1>6. new \subseteq Endpoint
  BY DEF Call, ActiveEnd, Endpoint, Connection
<1>7. Cardinality(called) \in Nat
  BY <1>1, FS_CardinalityType
<1> QED BY <1>1, <1>5, <1>6, <1>7

\* Nothing that is put on the wire of its own accord has to come before anything else.
LEMMA WireAppends ==
  ASSUME NEW c \in Connection, NEW w \in Seq(Messages), NEW v \in Seq(Messages), Once(w), Once(v),
         On(w) \cap On(v) = {}, \A m \in On(w) \cup On(v) : m[1] \in {c, Back(c)},
         Sorted(w, c), Sorted(w, Back(c)), \A m \in On(v) : m[2] \in {"SYN", "CLOSED"}
  PROVE  /\ w \o v \in Seq(Messages) /\ Once(w \o v) /\ On(w \o v) = On(w) \cup On(v)
         /\ \A m \in On(w \o v) : m[1] \in {c, Back(c)}
         /\ Sorted(w \o v, c) /\ Sorted(w \o v, Back(c))
<1>1. /\ w \o v \in Seq(Messages) /\ Once(w \o v) /\ On(w \o v) = On(w) \cup On(v)
      /\ \A m, n : Before(w, m, n) /\ Before(v, m, n) /\ ~(m \in On(v) /\ n \in On(w)) => Before(w \o v, m, n)
  BY OnAppended
<1>2. ASSUME NEW k \in {c, Back(c)}, NEW o \in Order PROVE Before(w \o v, <<k, o[1]>>, <<k, o[2]>>)
  <2>1. <<k, o[1]>> \notin On(v)
    <3>1. o[1] \notin {"SYN", "CLOSED"}
      BY DEF Order
    <3>2. <<k, o[1]>>[2] = o[1]
      OBVIOUS
    <3> QED BY <3>1, <3>2
  <2>2. Before(v, <<k, o[1]>>, <<k, o[2]>>)
    BY <2>1 DEF Before, On
  <2>3. Before(w, <<k, o[1]>>, <<k, o[2]>>)
    BY DEF Sorted
  <2> QED BY <1>1, <2>1, <2>2, <2>3
<1> QED BY <1>1, <1>2 DEF Sorted

LEMMA TrackerResponseStep ==
  ASSUME ConnectionInv, NEW x \in Peer, TrackerResponse(x)
  PROVE  ConnectionInv'
<1> DEFINE Calls(called, e) == e[2] = x /\ e[1][1] = x /\ e[1][2] \in called
           one          == CheckConnections([base[x] EXCEPT !.responses = @ - 1])
           Entry(y)     == [conn |-> <<x, y>>, id |-> y]
           table(called) == [y \in Peer |-> IF y \in called THEN <<Entry(y)>> ELSE one.peerState[y]]
           all(called)  == [one EXCEPT !.pending = @ + Cardinality(called), !.peerState = table(called)]
           old          == base[x]
<1>1. /\ ~old.exiting
      /\ \A z \in Others(x) : thread[<<<<x, z>>, z>>].state = "NONE"
  BY DEF TrackerResponse
<1>2. PICK called \in SUBSET Unknown(x) :
        /\ base' = [base EXCEPT ![x] = CheckConnections(all(called))]
        /\ thread' = [e \in Endpoint |-> IF Calls(called, e) THEN NewThread(Other(e)) ELSE thread[e]]
        /\ wire' = [c \in Connection |->
              IF c[2] = x /\ c[1] \in called THEN Append(wire[c], <<<<x, c[1]>>, "SYN">>) ELSE wire[c]]
  BY DEF TrackerResponse
<1> DEFINE s(y) == <<Entry(y)>>
           ps == table(called)
           n  == Cardinality(called)
           a  == all(called)
           d  == CheckConnections(a)
           new == {Call(x, y) : y \in called}
           m(y) == <<<<x, y>>, "SYN">>
<1>3. ASSUME NEW y \in called
      PROVE  /\ y \in Peer /\ y # x /\ <<x, y>> \in Connection /\ old.peerState[y] = <<>>
             /\ thread[ActiveEnd(<<x, y>>)] = NoThread /\ thread[PassiveEnd(<<x, y>>)] = NoThread
             /\ In(ActiveEnd(<<x, y>>)) = {} /\ In(PassiveEnd(<<x, y>>)) = {}
             /\ Gone(thread[PassiveEnd(<<y, x>>)])
  BY <1>1, UnknownFree
<1>4. called \subseteq Peer /\ x \notin called
  BY <1>3
<1>5. new \subseteq Endpoint /\ IsFiniteSet(new) /\ Cardinality(new) = n /\ n \in Nat
  BY <1>4, CallsCounted
<1>6. ASSUME NEW e \in Endpoint PROVE Calls(called, e) <=> e \in new
  <2>1. e = <<e[1], e[2]>> /\ e[1] = <<e[1][1], e[1][2]>>
    BY DEF Endpoint, Connection
  <2>2. ASSUME Calls(called, e) PROVE e \in new
    BY <2>1, <2>2 DEF Call, ActiveEnd
  <2>3. ASSUME e \in new PROVE Calls(called, e)
    BY <2>3 DEF Call, ActiveEnd
  <2> QED BY <2>2, <2>3
<1>7. old \in Bases /\ Listens(old) /\ (old.exiting => ~old.listening) /\ old.current \in Int /\ old.pending \in Int
      /\ old.peerState \in [Peer -> Seq(Entries)]
  BY BaseParts
\* The record of x.
<1>8. /\ one \in Bases /\ Listens(one) /\ one.current = old.current /\ one.pending = old.pending
      /\ one.exiting = old.exiting /\ one.peerState = old.peerState
  <2> DEFINE re == old.responses - 1
             g == [old EXCEPT !.responses = re]
  <2>1. re \in Int
    BY <1>7 DEF Bases
  <2>2. one = CheckConnections(g)
    OBVIOUS
  <2> HIDE DEF old, re
  <2>3. /\ g \in Bases /\ g.current = old.current /\ g.pending = old.pending /\ g.exiting = old.exiting
        /\ g.listening = old.listening /\ g.peerState = old.peerState
    BY <1>7, <2>1 DEF Bases
  <2> HIDE DEF g, one
  <2> QED BY <1>7, <2>2, <2>3, Checked
<1>9. ps \in [Peer -> Seq(Entries)] /\ \A y \in Peer : ps[y] = IF y \in called THEN s(y) ELSE old.peerState[y]
  <2>1. \A y \in called : Entry(y) \in Entries
    BY <1>3 DEF Entries
  <2> HIDE DEF one
  <2>2. \A y \in Peer : ps[y] = IF y \in called THEN s(y) ELSE old.peerState[y]
    BY <1>8
  <2>3. \A y \in called : s(y) \in Seq(Entries)
    <3> HIDE DEF Entry
    <3> QED BY <2>1
  <2> HIDE DEF s, Entry
  <2>4. ps \in [Peer -> Seq(Entries)]
    BY <1>7, <1>8, <2>3 DEF s, Entry
  <2> QED BY <2>2, <2>4
<1>10. /\ a \in Bases /\ a.current = old.current /\ a.pending = old.pending + n /\ a.exiting = old.exiting
       /\ a.listening = one.listening /\ a.peerState = ps
  <2> DEFINE pe == one.pending + n
  <2>1. a = [one EXCEPT !.pending = pe, !.peerState = ps] /\ pe \in Int /\ pe = old.pending + n
    BY <1>5, <1>7, <1>8
  <2> HIDE DEF one, ps, pe, a
  <2>2. a \in Bases /\ a.current = one.current /\ a.pending = pe /\ a.exiting = one.exiting
        /\ a.listening = one.listening /\ a.peerState = ps
    BY <1>8, <1>9, <2>1 DEF Bases
  <2> QED BY <1>8, <2>1, <2>2
<1>11. /\ d \in Bases /\ Listens(d) /\ d.current = a.current /\ d.pending = a.pending /\ d.exiting = a.exiting
       /\ d.peerState = a.peerState
  <2>1. a.exiting => ~a.listening
    BY <1>1, <1>10
  <2> HIDE DEF a
  <2> QED BY <1>10, <2>1, Checked
<1>12. base' = [base EXCEPT ![x] = d] /\ base \in [Peer -> Bases] /\ thread \in [Endpoint -> ThreadRecords]
  BY <1>2 DEF ConnectionInv, TypeInv
<1>13. /\ d.current + d.pending = old.current + old.pending + n
       /\ d.exiting = old.exiting /\ d.peerState = ps
  <2> HIDE DEF d, a, ps, one, n
  <2> QED BY <1>5, <1>7, <1>10, <1>11
<1> HIDE DEF d, a, ps, one, Entry
<1>14. \A z \in Peer : base'[z] = IF z = x THEN d ELSE base[z]
  BY <1>12
<1>15. \A e \in Endpoint : thread'[e] = IF e \in new THEN NewThread(Other(e)) ELSE thread[e]
  BY <1>2, <1>6
<1>16. \A y \in called : Call(x, y) \in new /\ Call(x, y) \in Endpoint /\ Other(Call(x, y)) = y
                         /\ Call(x, y)[2] = x /\ Call(x, y)[1] = <<x, y>>
  BY <1>3, <1>5, ConnectionParts DEF Call
<1>17. \A y \in Peer : NewThread(y) \in ThreadRecords /\ NewThread(y).state = "INITIAL" /\ NewThread(y).id = y
                       /\ Fresh(NewThread(y)) /\ ~Gone(NewThread(y)) /\ ~Live(NewThread(y))
  <2> SUFFICES ASSUME NEW y \in Peer
               PROVE  NewThread(y) \in ThreadRecords /\ NewThread(y).state = "INITIAL" /\ NewThread(y).id = y
                       /\ Fresh(NewThread(y)) /\ ~Gone(NewThread(y)) /\ ~Live(NewThread(y))
    OBVIOUS
  <2> DEFINE t == NewThread(y)
  <2>1. "INITIAL" \in ToSet(States)
    BY DEF ToSet, States
  <2>2. NoThread \in ThreadRecords /\ ~NoThread.closed /\ ~NoThread.acked /\ ~NoThread.peerClosed
    BY DEF NoThread, ThreadRecords, ToSet, States
  <2>3. t \in ThreadRecords /\ t.state = "INITIAL" /\ t.id = y /\ ~t.closed /\ ~t.acked /\ ~t.peerClosed
    BY <2>1, <2>2 DEF NewThread, ThreadRecords
  <2> HIDE DEF t
  <2>4. t \in ThreadRecords /\ t.state = "INITIAL" /\ t.id = y /\ Fresh(t) /\ ~Gone(t) /\ ~Live(t)
    BY <2>3 DEF Fresh, Gone, Live
  <2> QED BY <2>4 DEF t
<1>18. \A e \in Endpoint : e \in new => \E y \in called : e = Call(x, y)
  OBVIOUS
<1> HIDE DEF new
<1>19. TypeInv'
  <2>1. \A e \in Endpoint : NewThread(Other(e)) \in ThreadRecords
    BY <1>17, EndpointParts
  <2>2. thread' \in [Endpoint -> ThreadRecords]
    <3>1. \A e \in Endpoint : (IF Calls(called, e) THEN NewThread(Other(e)) ELSE thread[e]) \in ThreadRecords
      BY <1>12, <2>1
    <3> QED BY <1>2, <3>1
  <2>3. base' \in [Peer -> Bases]
    BY <1>11, <1>12
  <2> QED BY <2>2, <2>3 DEF TypeInv
<1>20. \A z \in Peer : base'[z].exiting = base[z].exiting
  BY <1>13, <1>14
<1>21. \A c \in Connection : Stay(c)' <=> Stay(c)
  BY <1>20, ConnectionParts DEF Stay
<1>22. ExitInv'
  <2> SUFFICES ASSUME NEW e \in Endpoint
               PROVE  /\ thread'[e].state = "EARLY_ABORTING" => base'[e[2]].exiting
                      /\ base'[e[2]].exiting /\ e = ActiveEnd(e[1]) => thread'[e].state # "INITIAL" /\ ~Live(thread'[e])
    BY DEF ExitInv
  <2>1. e[2] \in Peer
    BY EndpointParts
  <2>2. CASE e \in new
    <3>1. PICK y \in called : e = Call(x, y)
      BY <1>18, <2>2
    <3>2. thread'[e] = NewThread(y) /\ e[2] = x /\ y \in Peer
      BY <1>3, <1>15, <1>16, <2>2, <3>1
    <3> QED BY <1>1, <1>17, <1>20, <2>1, <3>2
  <2>3. CASE e \notin new
    BY <1>15, <1>20, <2>1, <2>3 DEF ConnectionInv, ExitInv
  <2> QED BY <2>2, <2>3
<1>23. CountInv'
  <2> SUFFICES ASSUME NEW z \in Peer
               PROVE  /\ IsFiniteSet(Threads(z)')
                      /\ base'[z].current + base'[z].pending = Cardinality(Threads(z)')
                      /\ Listens(base'[z])
    BY DEF CountInv
  <2>1. IsFiniteSet(Threads(z)) /\ base[z].current + base[z].pending = Cardinality(Threads(z)) /\ Listens(base[z])
    BY DEF ConnectionInv, CountInv
  <2>2. CASE z # x
    <3>1. \A e \in Endpoint : e[2] = z => thread'[e] = thread[e]
      BY <1>15, <1>16, <1>18, <2>2
    <3>2. Threads(z)' = Threads(z)
      BY <3>1 DEF Threads
    <3> QED BY <1>14, <2>1, <2>2, <3>2
  <2>3. CASE z = x
    <3> DEFINE T == Threads(z)
               U == Threads(z)'
    <3>1. /\ \A e \in Endpoint : e \in T <=> e[2] = x /\ ~Gone(thread[e])
          /\ \A e \in Endpoint : e \in U <=> e[2] = x /\ ~Gone(thread'[e])
          /\ T \subseteq Endpoint /\ U \subseteq Endpoint
      BY <2>3 DEF Threads, Gone
    <3>2. IsFiniteSet(T) /\ old.current + old.pending = Cardinality(T)
      BY <2>1, <2>3
    <3> HIDE DEF T, U
    <3>3. \A e \in new : e \in Endpoint /\ e[2] = x /\ Gone(thread[e]) /\ ~Gone(thread'[e])
      <4> SUFFICES ASSUME NEW e \in new
                   PROVE  e \in Endpoint /\ e[2] = x /\ Gone(thread[e]) /\ ~Gone(thread'[e])
        OBVIOUS
      <4>1. PICK y \in called : e = Call(x, y)
        BY <1>5, <1>18
      <4>2. thread'[e] = NewThread(y) /\ e[2] = x /\ y \in Peer /\ e \in Endpoint
        BY <1>3, <1>15, <1>16, <4>1
      <4>3. thread[e] = NoThread
        BY <1>3, <4>1 DEF Call
      <4>4. Gone(thread[e])
        BY <4>3 DEF Gone, NoThread
      <4> QED BY <1>17, <4>2, <4>4
    <3>4. \A e \in Endpoint : e \notin new => thread'[e] = thread[e]
      BY <1>15
    <3>5. U = T \cup new
      <4>1. \A e \in Endpoint : e \in U <=> e \in T \/ e \in new
        <5> SUFFICES ASSUME NEW e \in Endpoint PROVE e \in U <=> e \in T \/ e \in new
          OBVIOUS
        <5>1. CASE e \in new
          BY <3>1, <3>3, <5>1
        <5>2. CASE e \notin new
          BY <3>1, <3>4, <5>2
        <5> QED BY <5>1, <5>2
      <4> QED BY <1>5, <3>1, <4>1
    <3>6. T \cap new = {}
      BY <3>1, <3>3
    <3>7. IsFiniteSet(U) /\ Cardinality(U) = Cardinality(T) + n - Cardinality(T \cap new)
      BY <1>5, <3>2, <3>5, FS_Union
    <3>8. Cardinality(T \cap new) = 0 /\ Cardinality(T) \in Nat
      BY <3>2, <3>6, FS_EmptySet, FS_CardinalityType
    <3>9. Cardinality(U) = Cardinality(T) + n
      BY <1>5, <3>7, <3>8
    <3>10. base'[z] = d
      BY <1>14, <2>3
    <3>11. base'[z].current + base'[z].pending = Cardinality(U)
      BY <1>13, <3>2, <3>9, <3>10
    <3> QED BY <1>11, <3>7, <3>10, <3>11 DEF U
  <2> QED BY <2>2, <2>3
<1>24. ASSUME NEW c \in Connection, c[1] # x \/ c[2] \notin called
       PROVE  thread'[ActiveEnd(c)] = thread[ActiveEnd(c)]
  <2>1. ActiveEnd(c) \in Endpoint /\ ActiveEnd(c)[1] = c
    BY ConnectionParts
  <2>2. ActiveEnd(c) \notin new
    <3> SUFFICES ASSUME NEW y \in called, ActiveEnd(c) = Call(x, y) PROVE FALSE
      BY <1>18, <2>1
    <3>1. c = <<x, y>>
      BY <1>16, <2>1
    <3> QED BY <1>24, <3>1
  <2> QED BY <1>15, <2>1, <2>2
<1>25. ASSUME NEW c \in Connection PROVE thread'[PassiveEnd(c)] = thread[PassiveEnd(c)]
  <2>1. PassiveEnd(c) \in Endpoint /\ PassiveEnd(c)[1] = c /\ PassiveEnd(c)[2] = c[2] /\ c[1] # c[2]
    BY ConnectionParts
  <2>2. PassiveEnd(c) \notin new
    <3> SUFFICES ASSUME NEW y \in called, PassiveEnd(c) = Call(x, y) PROVE FALSE
      BY <1>18, <2>1
    <3>1. c = <<x, y>> /\ c[2] = x
      BY <1>16, <2>1
    <3> QED BY <2>1, <3>1
  <2> QED BY <1>15, <2>1, <2>2
<1>26. ASSUME NEW y \in called PROVE thread'[ActiveEnd(<<x, y>>)] = NewThread(y)
  BY <1>15, <1>16, <1>26 DEF Call
<1>27. TableInv'
  <2>1. ASSUME NEW z \in Peer PROVE base'[z].peerState[z] = <<>>
    <3>1. base[z].peerState[z] = <<>>
      BY DEF ConnectionInv, TableInv
    <3>2. CASE z = x
      <4>1. base'[z] = d /\ ps[x] = old.peerState[x]
        BY <1>4, <1>9, <1>14, <3>2
      <4> QED BY <1>13, <3>1, <3>2, <4>1
    <3>3. CASE z # x
      BY <1>14, <3>1, <3>3
    <3> QED BY <3>2, <3>3
  <2>2. ASSUME NEW c \in Connection
        PROVE  Row(c, Stay(c)', base'[c[1]].peerState[c[2]], thread'[ActiveEnd(c)], thread'[PassiveEnd(Back(c))])
    <3>1. c = <<c[1], c[2]>> /\ c[1] \in Peer /\ c[2] \in Peer /\ Back(c) \in Connection
      BY ConnectionParts
    <3>2. thread'[PassiveEnd(Back(c))] = thread[PassiveEnd(Back(c))]
      BY <1>25, <3>1
    <3>3. CASE c[1] = x /\ c[2] \in called
      <4> DEFINE y == c[2]
      <4>1. c = <<x, y>> /\ y \in Peer /\ y \in called
        BY <3>1, <3>3
      <4>2. base'[c[1]].peerState[c[2]] = s(y)
        <5>1. base'[c[1]] = d /\ ps[y] = s(y)
          BY <1>9, <1>14, <3>3, <4>1
        <5> QED BY <1>13, <5>1
      <4>3. thread'[ActiveEnd(c)] = NewThread(y)
        BY <1>26, <4>1
      <4>4. Gone(thread[PassiveEnd(Back(c))])
        <5>1. Back(c) = <<y, x>>
          BY <4>1 DEF Back
        <5> QED BY <1>3, <4>1, <5>1
      <4>5. Len(s(y)) = 1 /\ s(y)[1] = [conn |-> c, id |-> y]
        BY <4>1 DEF Entry
      <4> DEFINE q == s(y)
                 A == NewThread(y)
                 P == thread[PassiveEnd(Back(c))]
      <4>6. ~Gone(A) /\ A.id = y /\ Gone(P)
        BY <1>17, <4>1, <4>4
      <4> HIDE DEF q, A, P
      <4>7. Len(q) = 1 /\ q[1] = [conn |-> c, id |-> y]
        BY <4>5 DEF q
      <4>8. Row(c, Stay(c)', q, A, P)
        BY <4>6, <4>7 DEF Row, Identities, InOrder
      <4> QED BY <3>2, <4>2, <4>3, <4>8 DEF q, A, P
    <3>4. CASE c[1] # x \/ c[2] \notin called
      <4>1. thread'[ActiveEnd(c)] = thread[ActiveEnd(c)]
        BY <1>24, <3>4
      <4>2. base'[c[1]].peerState[c[2]] = base[c[1]].peerState[c[2]]
        <5>1. CASE c[1] = x
          <6>1. base'[c[1]] = d /\ ps[c[2]] = old.peerState[c[2]]
            BY <1>9, <1>14, <3>1, <3>4, <5>1
          <6> QED BY <1>13, <5>1, <6>1
        <5>2. CASE c[1] # x
          BY <1>14, <3>1, <5>2
        <5> QED BY <5>1, <5>2
      <4>3. Row(c, Stay(c), base[c[1]].peerState[c[2]], thread[ActiveEnd(c)], thread[PassiveEnd(Back(c))])
        BY DEF ConnectionInv, TableInv
      <4>4. Row(c, Stay(c)', base[c[1]].peerState[c[2]], thread[ActiveEnd(c)], thread[PassiveEnd(Back(c))])
        BY <1>21, <4>3 DEF Row
      <4> QED BY <3>2, <4>1, <4>2, <4>4
    <3> QED BY <3>3, <3>4
  <2> QED BY <2>1, <2>2 DEF TableInv
<1>28. ASSUME NEW c \in Connection
       PROVE  \/ thread'[ActiveEnd(c)] = thread[ActiveEnd(c)]
              \/ ~thread'[ActiveEnd(c)].closed /\ ~Live(thread'[ActiveEnd(c)])
  <2>1. CASE c[1] # x \/ c[2] \notin called
    BY <1>24, <2>1
  <2>2. CASE c[1] = x /\ c[2] \in called
    <3>1. thread'[ActiveEnd(c)] = NewThread(c[2]) /\ c[2] \in Peer
      <4>1. c = <<x, c[2]>> /\ c[2] \in Peer
        BY <2>2, ConnectionParts
      <4> QED BY <1>26, <2>2, <4>1
    <3> QED BY <1>17, <3>1 DEF Fresh
  <2> QED BY <2>1, <2>2
<1>29. OrderlyInv'
  <2> SUFFICES ASSUME NEW c \in Connection, Stay(c)
      PROVE  /\ thread'[ActiveEnd(c)].closed => thread'[ActiveEnd(c)].peerClosed
             /\ thread'[PassiveEnd(c)].closed => thread'[PassiveEnd(c)].id = c
             /\ ~(/\ Live(thread'[ActiveEnd(c)]) /\ Live(thread'[PassiveEnd(c)])
                  /\ Live(thread'[ActiveEnd(Back(c))]) /\ Live(thread'[PassiveEnd(Back(c))]))
    BY <1>21 DEF OrderlyInv
  <2>1. Back(c) \in Connection
    BY ConnectionParts
  <2>2. /\ thread[ActiveEnd(c)].closed => thread[ActiveEnd(c)].peerClosed
        /\ thread[PassiveEnd(c)].closed => thread[PassiveEnd(c)].id = c
        /\ ~(/\ Live(thread[ActiveEnd(c)]) /\ Live(thread[PassiveEnd(c)])
             /\ Live(thread[ActiveEnd(Back(c))]) /\ Live(thread[PassiveEnd(Back(c))]))
    BY DEF ConnectionInv, OrderlyInv
  <2>3. /\ thread'[ActiveEnd(c)].closed => thread'[ActiveEnd(c)].peerClosed
        /\ Live(thread'[ActiveEnd(c)]) => Live(thread[ActiveEnd(c)])
    BY <1>28, <2>2
  <2>4. Live(thread'[ActiveEnd(Back(c))]) => Live(thread[ActiveEnd(Back(c))])
    BY <1>28, <2>1
  <2>5. thread'[PassiveEnd(c)] = thread[PassiveEnd(c)] /\ thread'[PassiveEnd(Back(c))] = thread[PassiveEnd(Back(c))]
    BY <1>25, <2>1
  <2> QED BY <2>2, <2>3, <2>4, <2>5
\* What is under way.
<1>30. ASSUME NEW c \in Connection, c[2] = x, c[1] \in called
       PROVE  LET u == <<<<x, c[1]>>, "SYN">>  v == <<u>> IN
              /\ wire'[c] = wire[c] \o v
              /\ v \in Seq(Messages) /\ Once(v) /\ On(v) = {u} /\ u \in Messages
              /\ u[1] = Back(c) /\ u[2] = "SYN"
              /\ On(wire[c]) \cap On(v) = {}
              /\ PassiveEnd(Back(c)) = <<<<x, c[1]>>, c[1]>>
  <2> DEFINE u == <<<<x, c[1]>>, "SYN">>
             v == <<u>>
  <2>1. u \in Messages /\ u[1] = Back(c) /\ u[2] = "SYN"
    <3>1. <<x, c[1]>> \in Connection
      BY <1>3, <1>30
    <3> QED BY <1>30, <3>1 DEF Messages, Kinds, Back
  <2>2. v \in Seq(Messages) /\ Once(v) /\ On(v) = {u}
    <3> HIDE DEF u
    <3> QED BY <2>1 DEF Once, On
  <2>4. wire'[c] = wire[c] \o v
    <3>1. wire'[c] = Append(wire[c], u)
      BY <1>2, <1>30
    <3>2. wire[c] \in Seq(Messages)
      BY DEF ConnectionInv, WireInv
    <3> DEFINE w == wire[c]
    <3> HIDE DEF u, w
    <3>3. Append(w, u) = w \o <<u>>
      <4>1. w \in Seq(Messages) /\ u \in Messages
        BY <2>1, <3>2 DEF w
      <4> QED BY <4>1, AppendIsConcat
    <3> QED BY <3>1, <3>3 DEF w
  <2>5. PassiveEnd(Back(c)) = <<<<x, c[1]>>, c[1]>> /\ Way(PassiveEnd(Back(c))) = c /\ PassiveEnd(Back(c))[1] = Back(c)
        /\ Back(c) = <<x, c[1]>>
    <3>1. Back(c) \in Connection /\ Back(Back(c)) = c /\ c = <<c[1], c[2]>>
      BY ConnectionParts
    <3>2. Way(PassiveEnd(Back(c))) = c /\ PassiveEnd(Back(c))[1] = Back(c)
      BY <3>1, ConnectionParts
    <3> QED BY <1>30, <3>2 DEF Back, PassiveEnd
  <2>6. On(wire[c]) \cap On(v) = {}
    <3>1. In(PassiveEnd(Back(c))) = {}
      BY <1>3, <1>30, <2>5
    <3>2. <<Back(c), "SYN">> \notin On(wire[c])
      BY <2>5, <3>1 DEF In, Kinds
    <3> QED BY <2>2, <2>5, <3>2
  <2> HIDE DEF v, u
  <2> QED BY <2>1, <2>2, <2>4, <2>5, <2>6 DEF v, u
<1>31. \A c \in Connection : ~(c[2] = x /\ c[1] \in called) => wire'[c] = wire[c]
  BY <1>2
<1>32. WireInv'
  <2>1. ASSUME NEW c \in Connection
        PROVE  /\ wire'[c] \in Seq(Messages)
               /\ Once(wire'[c])
               /\ \A k \in On(wire'[c]) : k[1] \in {c, Back(c)}
               /\ Sorted(wire'[c], c) /\ Sorted(wire'[c], Back(c))
    <3>1. /\ wire[c] \in Seq(Messages) /\ Once(wire[c])
          /\ \A k \in On(wire[c]) : k[1] \in {c, Back(c)}
          /\ Sorted(wire[c], c) /\ Sorted(wire[c], Back(c))
      BY DEF ConnectionInv, WireInv
    <3>2. CASE ~(c[2] = x /\ c[1] \in called)
      BY <1>31, <3>1, <3>2
    <3>3. CASE c[2] = x /\ c[1] \in called
      <4> DEFINE u == <<<<x, c[1]>>, "SYN">>
                 v == <<u>>
                 w == wire[c]
      <4>1. /\ wire'[c] = w \o v
            /\ v \in Seq(Messages) /\ Once(v) /\ On(v) = {u} /\ u \in Messages
            /\ u[1] = Back(c) /\ u[2] = "SYN"
            /\ On(w) \cap On(v) = {}
        BY <1>30, <3>3
      <4> HIDE DEF v, w
      <4>2. w \in Seq(Messages) /\ Once(w) /\ (\A k \in On(w) : k[1] \in {c, Back(c)})
            /\ Sorted(w, c) /\ Sorted(w, Back(c))
        BY <3>1 DEF w
      <4>3. /\ \A k \in On(w) \cup On(v) : k[1] \in {c, Back(c)}
            /\ \A k \in On(v) : k[2] \in {"SYN", "CLOSED"}
        BY <4>1, <4>2
      <4>4. /\ w \o v \in Seq(Messages) /\ Once(w \o v)
            /\ \A k \in On(w \o v) : k[1] \in {c, Back(c)}
            /\ Sorted(w \o v, c) /\ Sorted(w \o v, Back(c))
        BY <4>1, <4>2, <4>3, WireAppends
      <4> QED BY <4>1, <4>4
    <3> QED BY <3>2, <3>3
  <2>2. wire' \in [Connection -> Seq(Messages)]
    <3>1. wire' = [c \in Connection |-> wire'[c]]
      BY <1>2
    <3> QED BY <2>1, <3>1
  <2> QED BY <2>1, <2>2 DEF WireInv
<1>33. ASSUME NEW e \in Endpoint
       PROVE  In(e)' = IF e[1][1] = x /\ e[1][2] \in called /\ e = PassiveEnd(e[1]) THEN {"SYN"} ELSE In(e)
  <2> DEFINE c == Way(e)
             w == wire[c]
  <2>1. c \in Connection /\ e[1] \in {c, Back(c)} /\ e[1] \in Connection /\ (e = ActiveEnd(e[1]) \/ e = PassiveEnd(e[1]))
    BY EndpointParts
  <2>2. ASSUME ~(c[2] = x /\ c[1] \in called) PROVE In(e)' = In(e) /\ ~(e[1][1] = x /\ e[1][2] \in called /\ e = PassiveEnd(e[1]))
    <3>1. In(e)' = In(e)
      BY <1>31, <2>1, <2>2 DEF In
    <3>2. e = PassiveEnd(e[1]) => c = Back(e[1])
      BY <2>1, ConnectionParts
    <3> HIDE DEF c
    <3> QED BY <2>2, <3>1, <3>2 DEF Back
  <2>3. ASSUME c[2] = x, c[1] \in called
        PROVE  In(e)' = IF e[1][1] = x /\ e[1][2] \in called /\ e = PassiveEnd(e[1]) THEN {"SYN"} ELSE In(e)
    <3> DEFINE u == <<<<x, c[1]>>, "SYN">>
               v == <<u>>
    <3>1. wire'[c] = w \o v /\ v \in Seq(Messages) /\ Once(v) /\ On(v) = {u} /\ On(w) \cap On(v) = {} /\ u[1] = Back(c)
      BY <1>30, <2>1, <2>3
    <3>2. w \in Seq(Messages) /\ Once(w)
      BY <2>1 DEF ConnectionInv, WireInv
    <3> HIDE DEF c, w, v
    <3>3. On(w \o v) = On(w) \cup {u}
      BY <3>1, <3>2, OnAppended
    <3>4. In(e)' = {k \in Kinds : <<e[1], k>> \in On(w \o v)} /\ In(e) = {k \in Kinds : <<e[1], k>> \in On(w)}
      BY <3>1 DEF In, c, w
    <3>5. CASE e[1] = Back(c)
      <4>1. e[1] = <<x, c[1]>> /\ c = <<c[1], c[2]>> /\ c[1] # c[2]
        BY <2>1, <2>3, <3>5, ConnectionParts DEF Back
      <4>2. e = PassiveEnd(e[1])
        <5>1. Way(ActiveEnd(e[1])) = e[1] /\ e[1] # c
          BY <2>1, <3>5, ConnectionParts
        <5> QED BY <2>1, <5>1 DEF c
      <4>3. In(e) = {}
        <5>1. ActiveEnd(<<x, c[1]>>) \in Endpoint
          BY <2>1, <4>1, ConnectionParts
        <5> QED BY <1>3, <2>3, <4>1, <4>2
      <4>4. In(e)' = In(e) \cup {"SYN"}
        BY <3>3, <3>4, <4>1 DEF Kinds
      <4> QED BY <2>3, <4>1, <4>2, <4>3, <4>4
    <3>6. CASE e[1] # Back(c)
      <4>1. e[1] = c
        BY <2>1, <3>6
      <4>2. \A k : <<e[1], k>> # u
        BY <3>1, <3>6
      <4>3. In(e)' = In(e)
        BY <3>3, <3>4, <4>2
      <4>4. e[1][1] # x
        BY <2>1, <2>3, <4>1, ConnectionParts
      <4> QED BY <4>3, <4>4
    <3> QED BY <3>5, <3>6
  <2> QED BY <2>2, <2>3
<1>34. LinkInv'
  <2> SUFFICES ASSUME NEW c \in Connection
               PROVE  Linked(thread'[ActiveEnd(c)], thread'[PassiveEnd(c)], In(ActiveEnd(c))', In(PassiveEnd(c))')
    BY DEF LinkInv
  <2>1. /\ ActiveEnd(c) \in Endpoint /\ PassiveEnd(c) \in Endpoint /\ ActiveEnd(c)[1] = c /\ PassiveEnd(c)[1] = c
        /\ ActiveEnd(c) # PassiveEnd(c)
    BY ConnectionParts
  <2>2. In(ActiveEnd(c))' = In(ActiveEnd(c)) /\ thread'[PassiveEnd(c)] = thread[PassiveEnd(c)]
    BY <1>25, <1>33, <2>1
  <2>3. Linked(thread[ActiveEnd(c)], thread[PassiveEnd(c)], In(ActiveEnd(c)), In(PassiveEnd(c)))
    BY DEF ConnectionInv, LinkInv
  <2>4. CASE c[1] # x \/ c[2] \notin called
    <3>1. In(PassiveEnd(c))' = In(PassiveEnd(c)) /\ thread'[ActiveEnd(c)] = thread[ActiveEnd(c)]
      BY <1>24, <1>33, <2>1, <2>4
    <3> QED BY <2>2, <2>3, <3>1
  <2>5. CASE c[1] = x /\ c[2] \in called
    <3>1. c = <<x, c[2]>> /\ c[2] \in Peer
      BY <2>5, ConnectionParts
    <3>2. In(PassiveEnd(c))' = {"SYN"}
      BY <1>33, <2>1, <2>5
    <3>3. In(ActiveEnd(c)) = {} /\ thread[PassiveEnd(c)] = NoThread
      <4>1. In(ActiveEnd(<<x, c[2]>>)) = {} /\ thread[PassiveEnd(<<x, c[2]>>)] = NoThread
        BY <1>3, <2>5
      <4> QED BY <3>1, <4>1
    <3>4. thread'[ActiveEnd(c)] = NewThread(c[2])
      BY <1>26, <2>5, <3>1
    <3>5. Opening(NewThread(c[2]), NoThread, {}, {"SYN"})
      BY <1>17, <3>1 DEF Opening
    <3> QED BY <2>2, <3>2, <3>3, <3>4, <3>5 DEF Linked
  <2> QED BY <2>4, <2>5
<1> QED BY <1>19, <1>22, <1>23, <1>27, <1>29, <1>32, <1>34 DEF ConnectionInv

----------------------------------------------------------------------------
(* A peer exits *)

\* What closeConnection does to a thread.
LEMMA ClosedThread ==
  ASSUME TypeInv, NEW e \in Endpoint
  PROVE  LET t == thread[e]  u == CloseConnection(e) IN
         /\ u \in ThreadRecords /\ u.id = t.id /\ u.acked = t.acked /\ u.peerClosed = t.peerClosed
         /\ ~Live(t) => u.closed = t.closed
         /\ Live(t) => u.closed = TRUE /\ u.state = "ACTIVE_ABORTING"
         /\ t.state = "INITIAL" => u.state = "EARLY_ABORTING"
         /\ ~Live(t) /\ t.state # "INITIAL" => u.state = t.state
         /\ ~Live(u) /\ u.state # "INITIAL" /\ (Gone(u) <=> Gone(t))
         /\ Gone(t) => u = t
<1> DEFINE t == thread[e]
           u == CloseConnection(e)
<1>1. t \in ThreadRecords /\ (Beyond(e, "INITIAL") <=> Live(t))
  BY BeyondMeans DEF TypeInv
<1>2. u = IF Live(t) THEN [t EXCEPT !.state = "ACTIVE_ABORTING", !.closed = TRUE]
          ELSE IF t.state = "INITIAL" THEN [t EXCEPT !.state = "EARLY_ABORTING"] ELSE t
  BY <1>1 DEF CloseConnection
<1>3. "ACTIVE_ABORTING" \in ToSet(States) /\ "EARLY_ABORTING" \in ToSet(States)
  BY DEF ToSet, States
<1> HIDE DEF t, u
<1>4. CASE Live(t)
  <2>1. u = [t EXCEPT !.state = "ACTIVE_ABORTING", !.closed = TRUE]
    BY <1>2, <1>4
  <2>2. u \in ThreadRecords /\ u.id = t.id /\ u.acked = t.acked /\ u.peerClosed = t.peerClosed /\ u.closed = TRUE
        /\ u.state = "ACTIVE_ABORTING"
    BY <1>1, <1>3, <2>1 DEF ThreadRecords
  <2> QED BY <1>4, <2>2 DEF Live, Gone, t, u
<1>5. CASE ~Live(t) /\ t.state = "INITIAL"
  <2>1. u = [t EXCEPT !.state = "EARLY_ABORTING"]
    BY <1>2, <1>5
  <2>2. u \in ThreadRecords /\ u.id = t.id /\ u.acked = t.acked /\ u.peerClosed = t.peerClosed /\ u.closed = t.closed
        /\ u.state = "EARLY_ABORTING"
    BY <1>1, <1>3, <2>1 DEF ThreadRecords
  <2> QED BY <1>5, <2>2 DEF Live, Gone, t, u
<1>6. CASE ~Live(t) /\ t.state # "INITIAL"
  <2>1. u = t
    BY <1>2, <1>6
  <2> QED BY <1>1, <1>6, <2>1 DEF t, u
<1> QED BY <1>4, <1>5, <1>6

LEMMA ExitLinks ==
  ASSUME NEW e, NEW t, NEW o, NEW to, NEW from, Ends(e, t, o, to, from), NEW u,
         u.acked = t.acked, u.peerClosed = t.peerClosed,
         ~Live(t) => u.closed = t.closed,
         Live(t) => u.closed = TRUE /\ u.state = "ACTIVE_ABORTING",
         t.state = "INITIAL" => u.state = "EARLY_ABORTING",
         ~Live(t) /\ t.state # "INITIAL" => u.state = t.state,
         ~Live(u), Gone(u) <=> Gone(t), Gone(t) => u = t
  PROVE  /\ Live(t) => "CLOSED" \notin from
         /\ Ends(e, u, o, to, from \cup (IF Live(t) THEN {"CLOSED"} ELSE {}))
<1> DEFINE new == IF Live(t) THEN {"CLOSED"} ELSE {}
<1>1. ~Live(t) => from \cup new = from
  OBVIOUS
<1>2. Live(t) => from \cup new = from \cup {"CLOSED"}
  OBVIOUS
<1>3. CASE Gone(t)
  <2>1. ~Live(t)
    BY <1>3 DEF Live, Gone
  <2> QED BY <1>1, <1>3, <2>1
<1>4. CASE ~Gone(t) /\ OpenEnds(e, t, o, to, from)
  <2>1. End(t, o, to) /\ End(o, t, from)
    BY <1>4, OpenParts
  <2>2. CASE ~Live(t)
    <3>1. End(u, o, to) /\ End(o, u, from)
      BY <1>4, <2>1, <2>2 DEF End
    <3>2. u.state \notin {"CONNECTED", "ACTIVE_HANDSHAKE", "HANDSHAKE_COMPLETE"}
      BY DEF Live
    <3>3. OpenEnds(e, u, o, to, from)
      BY <1>4, <3>1, <3>2 DEF OpenEnds, Open
    <3> QED BY <1>1, <2>2, <3>3, OpenIsLinked
  <2>3. CASE Live(t)
    <3>1. ~t.closed /\ ~t.peerClosed /\ "CLOSED" \notin from /\ ~Gone(o) /\ ~o.peerClosed /\ ~o.acked
      BY <1>4, <2>1, <2>3 DEF End, NoThread, Gone
    <3>2. End(u, o, to)
      BY <1>4, <2>1, <2>3, <3>1 DEF End
    <3>3. End(o, u, from \cup {"CLOSED"})
      BY <1>4, <2>1, <2>3, <3>1 DEF End
    <3>4. OpenEnds(e, u, o, to, from \cup {"CLOSED"})
      BY <1>4, <2>3, <3>2, <3>3 DEF OpenEnds, Open, Gone
    <3> QED BY <1>2, <2>3, <3>1, <3>4, OpenIsLinked
  <2> QED BY <2>2, <2>3
<1>5. CASE ~Gone(t) /\ ~OpenEnds(e, t, o, to, from)
  <2>1. Linked(t, o, to, from) /\ e = ActiveEnd(e[1]) /\ (Opening(t, o, to, from) \/ HalfOpen(t, o, to, from))
    BY <1>5 DEF Ends, OpenEnds, Linked, Free, Opening, HalfOpen, Gone, NoThread
  <2>2. CASE Opening(t, o, to, from)
    <3>1. ~Live(t) /\ u.state = "EARLY_ABORTING" /\ u.closed = t.closed
      BY <2>2 DEF Opening, Live
    <3>2. Opening(u, o, to, from)
      BY <2>2, <3>1 DEF Opening, Fresh
    <3> QED BY <1>1, <2>1, <3>1, <3>2 DEF Ends, Linked
  <2>3. CASE HalfOpen(t, o, to, from)
    <3>1. CASE Live(t)
      <4>1. HalfOpen(u, o, to, from \cup {"CLOSED"}) /\ "CLOSED" \notin from
        BY <2>3, <3>1 DEF HalfOpen
      <4> QED BY <1>2, <2>1, <3>1, <4>1 DEF Ends, Linked
    <3>2. CASE ~Live(t)
      <4>1. u.state \in {"EARLY_ABORTING", "ACTIVE_ABORTING"} /\ u.closed = t.closed
        BY <2>3, <3>2 DEF HalfOpen, Live
      <4>2. HalfOpen(u, o, to, from)
        BY <2>3, <3>2, <4>1 DEF HalfOpen
      <4> QED BY <1>1, <2>1, <3>2, <4>2 DEF Ends, Linked
    <3> QED BY <3>1, <3>2
  <2> QED BY <2>1, <2>2, <2>3
<1> QED BY <1>3, <1>4, <1>5

LEMMA ClosingIs ==
  ASSUME TypeInv, NEW e \in Endpoint
  PROVE  /\ Closing(e) \in Seq(Messages) /\ Once(Closing(e))
         /\ On(Closing(e)) = IF Live(thread[e]) THEN {<<e[1], "CLOSED">>} ELSE {}
<1>1. Closing(e) = IF Live(thread[e]) THEN <<<<e[1], "CLOSED">>>> ELSE <<>>
  BY BeyondMeans DEF Closing
<1> DEFINE u == <<e[1], "CLOSED">>
<1>2. u \in Messages
  BY EndpointParts DEF Messages, Kinds
<1> HIDE DEF u
<1>3. <<u>> \in Seq(Messages) /\ Once(<<u>>) /\ On(<<u>>) = {u}
  BY <1>2 DEF Once, On
<1>4. <<>> \in Seq(Messages) /\ Once(<<>>) /\ On(<<>>) = {}
  BY DEF Once, On
<1>5. CASE Live(thread[e])
  BY <1>1, <1>3, <1>5 DEF u
<1>6. CASE ~Live(thread[e])
  BY <1>1, <1>4, <1>6
<1> QED BY <1>5, <1>6

LEMMA ExitStep ==
  ASSUME ConnectionInv, NEW x \in Peer, Exit(x)
  PROVE  ConnectionInv'
<1> DEFINE call(c)    == Closing(<<<<x, c[1]>>, x>>)
           accept(c)  == Closing(<<c, x>>)
           both(c, f) == IF f THEN call(c) \o accept(c) ELSE accept(c) \o call(c)
           d          == [base[x] EXCEPT !.exiting = TRUE, !.listening = FALSE]
<1>1. /\ base' = [base EXCEPT ![x].exiting = TRUE, ![x].listening = FALSE]
      /\ thread' = [e \in Endpoint |-> IF e[2] = x THEN CloseConnection(e) ELSE thread[e]]
  BY DEF Exit
<1>2. PICK callsFirst \in SUBSET Peer :
        wire' = [c \in Connection |-> IF c[2] # x THEN wire[c] ELSE wire[c] \o both(c, c[1] \in callsFirst)]
  BY DEF Exit
<1>3. base \in [Peer -> Bases] /\ thread \in [Endpoint -> ThreadRecords] /\ base[x] \in Bases
  BY DEF ConnectionInv, TypeInv
<1>4. base' = [base EXCEPT ![x] = d]
  BY <1>1, <1>3
<1>5. d \in Bases /\ d.exiting = TRUE /\ d.listening = FALSE /\ d.current = base[x].current /\ d.pending = base[x].pending
      /\ d.peerState = base[x].peerState
  <2> DEFINE old == base[x]
  <2>1. d = [old EXCEPT !.exiting = TRUE, !.listening = FALSE] /\ old \in Bases
    BY <1>3
  <2> HIDE DEF old, d
  <2>2. d \in Bases /\ d.exiting = TRUE /\ d.listening = FALSE /\ d.current = old.current /\ d.pending = old.pending
        /\ d.peerState = old.peerState
    BY <2>1 DEF Bases
  <2> QED BY <2>2 DEF old
<1> HIDE DEF d
<1>6. \A z \in Peer : base'[z] = IF z = x THEN d ELSE base[z]
  BY <1>3, <1>4
<1>7. /\ \A z \in Peer : base'[z].peerState = base[z].peerState
      /\ \A z \in Peer : base'[z].current = base[z].current /\ base'[z].pending = base[z].pending
      /\ \A z \in Peer : base'[z].exiting <=> base[z].exiting \/ z = x
  BY <1>5, <1>6
<1>8. \A e \in Endpoint : thread'[e] = IF e[2] = x THEN CloseConnection(e) ELSE thread[e]
  BY <1>1
<1>9. ASSUME NEW e \in Endpoint
      PROVE  LET t == thread[e]  u == CloseConnection(e) IN
             /\ u \in ThreadRecords /\ u.id = t.id /\ u.acked = t.acked /\ u.peerClosed = t.peerClosed
             /\ ~Live(t) => u.closed = t.closed
             /\ Live(t) => u.closed = TRUE /\ u.state = "ACTIVE_ABORTING"
             /\ t.state = "INITIAL" => u.state = "EARLY_ABORTING"
             /\ ~Live(t) /\ t.state # "INITIAL" => u.state = t.state
             /\ ~Live(u) /\ u.state # "INITIAL" /\ (Gone(u) <=> Gone(t))
             /\ Gone(t) => u = t
  BY ClosedThread DEF ConnectionInv
<1>10. \A e \in Endpoint : (Gone(thread'[e]) <=> Gone(thread[e])) /\ thread'[e].id = thread[e].id
  BY <1>8, <1>9
<1>11. TypeInv'
  <2>1. \A e \in Endpoint : (IF e[2] = x THEN CloseConnection(e) ELSE thread[e]) \in ThreadRecords
    BY <1>3, <1>9
  <2>2. thread' \in [Endpoint -> ThreadRecords]
    BY <1>1, <2>1
  <2>3. base' \in [Peer -> Bases]
    BY <1>3, <1>4, <1>5
  <2> QED BY <2>2, <2>3 DEF TypeInv
<1>12. ExitInv'
  <2> SUFFICES ASSUME NEW e \in Endpoint
               PROVE  /\ thread'[e].state = "EARLY_ABORTING" => base'[e[2]].exiting
                      /\ base'[e[2]].exiting /\ e = ActiveEnd(e[1]) => thread'[e].state # "INITIAL" /\ ~Live(thread'[e])
    BY DEF ExitInv
  <2>1. e[2] \in Peer
    BY EndpointParts
  <2>2. CASE e[2] = x
    BY <1>7, <1>8, <1>9, <2>1, <2>2
  <2>3. CASE e[2] # x
    BY <1>7, <1>8, <2>1, <2>3 DEF ConnectionInv, ExitInv
  <2> QED BY <2>2, <2>3
<1>13. CountInv'
  <2> SUFFICES ASSUME NEW z \in Peer
               PROVE  /\ IsFiniteSet(Threads(z)')
                      /\ base'[z].current + base'[z].pending = Cardinality(Threads(z)')
                      /\ Listens(base'[z])
    BY DEF CountInv
  <2>1. IsFiniteSet(Threads(z)) /\ base[z].current + base[z].pending = Cardinality(Threads(z)) /\ Listens(base[z])
    BY DEF ConnectionInv, CountInv
  <2>2. Threads(z)' = Threads(z)
    BY <1>10 DEF Threads, Gone
  <2>3. Listens(base'[z])
    BY <1>5, <1>6, <2>1 DEF Listens
  <2> QED BY <1>7, <2>1, <2>2, <2>3
<1>14. ASSUME NEW c \in Connection, Stay(c)'
       PROVE  /\ Stay(c) /\ c[1] # x /\ c[2] # x
              /\ thread'[ActiveEnd(c)] = thread[ActiveEnd(c)] /\ thread'[PassiveEnd(c)] = thread[PassiveEnd(c)]
              /\ thread'[ActiveEnd(Back(c))] = thread[ActiveEnd(Back(c))]
              /\ thread'[PassiveEnd(Back(c))] = thread[PassiveEnd(Back(c))]
  <2>1. c[1] \in Peer /\ c[2] \in Peer /\ Back(c) \in Connection /\ Back(c)[1] = c[2] /\ Back(c)[2] = c[1]
    BY ConnectionParts DEF Back
  <2>2. Stay(c) /\ c[1] # x /\ c[2] # x
    BY <1>7, <1>14, <2>1 DEF Stay
  <2>3. \A b \in {c, Back(c)} : /\ ActiveEnd(b) \in Endpoint /\ ActiveEnd(b)[2] # x
                                /\ PassiveEnd(b) \in Endpoint /\ PassiveEnd(b)[2] # x
    BY <2>1, <2>2, ConnectionParts
  <2> QED BY <1>8, <2>2, <2>3
<1>15. TableInv'
  <2>1. \A z \in Peer : base'[z].peerState[z] = <<>>
    BY <1>7 DEF ConnectionInv, TableInv
  <2>2. ASSUME NEW c \in Connection
        PROVE  Row(c, Stay(c)', base'[c[1]].peerState[c[2]], thread'[ActiveEnd(c)], thread'[PassiveEnd(Back(c))])
    <3>1. c[1] \in Peer /\ c[2] \in Peer /\ ActiveEnd(c) \in Endpoint /\ PassiveEnd(Back(c)) \in Endpoint
      <4>1. Back(c) \in Connection
        BY ConnectionParts
      <4> QED BY <4>1, ConnectionParts
    <3>2. Row(c, Stay(c), base[c[1]].peerState[c[2]], thread[ActiveEnd(c)], thread[PassiveEnd(Back(c))])
      BY DEF ConnectionInv, TableInv
    <3>3. base'[c[1]].peerState[c[2]] = base[c[1]].peerState[c[2]]
      BY <1>7, <3>1
    <3>4. CASE Stay(c)'
      BY <1>14, <3>2, <3>3, <3>4
    <3>5. CASE ~Stay(c)'
      <4> DEFINE A == thread[ActiveEnd(c)]
                 P == thread[PassiveEnd(Back(c))]
                 B == thread'[ActiveEnd(c)]
                 Q == thread'[PassiveEnd(Back(c))]
                 s == base[c[1]].peerState[c[2]]
      <4>1. (Gone(B) <=> Gone(A)) /\ B.id = A.id /\ (Gone(Q) <=> Gone(P)) /\ Q.id = P.id
        BY <1>10, <3>1
      <4>2. Row(c, Stay(c), s, A, P)
        BY <3>2
      <4> HIDE DEF A, P, B, Q, s
      <4>3. Row(c, FALSE, s, B, Q)
        BY <4>1, <4>2 DEF Row, Identities
      <4>4. Row(c, Stay(c)', s, B, Q)
        BY <3>5, <4>3 DEF Row
      <4> QED BY <3>3, <4>4 DEF s, B, Q
    <3> QED BY <3>4, <3>5
  <2> QED BY <2>1, <2>2 DEF TableInv
<1>16. OrderlyInv'
  <2> SUFFICES ASSUME NEW c \in Connection, Stay(c)'
      PROVE  /\ thread'[ActiveEnd(c)].closed => thread'[ActiveEnd(c)].peerClosed
             /\ thread'[PassiveEnd(c)].closed => thread'[PassiveEnd(c)].id = c
             /\ ~(/\ Live(thread'[ActiveEnd(c)]) /\ Live(thread'[PassiveEnd(c)])
                  /\ Live(thread'[ActiveEnd(Back(c))]) /\ Live(thread'[PassiveEnd(Back(c))]))
    BY DEF OrderlyInv
  <2>1. Stay(c)
    BY <1>14
  <2>2. /\ thread[ActiveEnd(c)].closed => thread[ActiveEnd(c)].peerClosed
        /\ thread[PassiveEnd(c)].closed => thread[PassiveEnd(c)].id = c
        /\ ~(/\ Live(thread[ActiveEnd(c)]) /\ Live(thread[PassiveEnd(c)])
             /\ Live(thread[ActiveEnd(Back(c))]) /\ Live(thread[PassiveEnd(Back(c))]))
    BY <2>1 DEF ConnectionInv, OrderlyInv
  <2> QED BY <1>14, <2>2
\* What is under way.
<1>17. ASSUME NEW e \in Endpoint, e[2] = x
       PROVE  /\ Live(thread[e]) => "CLOSED" \notin In(Opposite(e))
              /\ Ends(e, thread'[e], thread[Opposite(e)], In(e),
                      In(Opposite(e)) \cup (IF Live(thread[e]) THEN {"CLOSED"} ELSE {}))
  <2> DEFINE t == thread[e]
             u == CloseConnection(e)
  <2>1. Ends(e, t, thread[Opposite(e)], In(e), In(Opposite(e)))
    BY LinkEnds DEF ConnectionInv
  <2>2. /\ u.acked = t.acked /\ u.peerClosed = t.peerClosed
        /\ ~Live(t) => u.closed = t.closed
        /\ Live(t) => u.closed = TRUE /\ u.state = "ACTIVE_ABORTING"
        /\ t.state = "INITIAL" => u.state = "EARLY_ABORTING"
        /\ ~Live(t) /\ t.state # "INITIAL" => u.state = t.state
        /\ ~Live(u) /\ (Gone(u) <=> Gone(t))
        /\ Gone(t) => u = t
    BY <1>9
  <2>3. thread'[e] = u
    BY <1>8, <1>17
  <2> HIDE DEF t, u
  <2>4. /\ Live(t) => "CLOSED" \notin In(Opposite(e))
        /\ Ends(e, u, thread[Opposite(e)], In(e), In(Opposite(e)) \cup (IF Live(t) THEN {"CLOSED"} ELSE {}))
    BY <2>1, <2>2, ExitLinks
  <2> QED BY <2>3, <2>4 DEF t
<1>18. ASSUME NEW c \in Connection, c[2] = x
       PROVE  /\ ActiveEnd(Back(c)) = <<<<x, c[1]>>, x>> /\ PassiveEnd(c) = <<c, x>>
              /\ ActiveEnd(Back(c)) \in Endpoint /\ PassiveEnd(c) \in Endpoint
              /\ ActiveEnd(Back(c))[1] = Back(c) /\ PassiveEnd(c)[1] = c
              /\ ActiveEnd(Back(c))[2] = x /\ PassiveEnd(c)[2] = x /\ Back(c) # c
              /\ Opposite(ActiveEnd(Back(c))) = PassiveEnd(Back(c)) /\ Way(PassiveEnd(Back(c))) = c
              /\ PassiveEnd(Back(c))[1] = Back(c)
              /\ Opposite(PassiveEnd(c)) = ActiveEnd(c) /\ Way(ActiveEnd(c)) = c
              /\ ActiveEnd(c)[1] = c
  <2>1. Back(c) \in Connection /\ Back(Back(c)) = c /\ Back(c) # c
    BY ConnectionParts
  <2>2. Back(c) = <<x, c[1]>> /\ Back(c)[1] = x
    BY <1>18 DEF Back
  <2>3. ActiveEnd(Back(c)) = <<<<x, c[1]>>, x>> /\ PassiveEnd(c) = <<c, x>>
    BY <1>18, <2>2 DEF ActiveEnd, PassiveEnd
  <2> QED BY <1>18, <2>1, <2>2, <2>3, ConnectionParts
<1>19. ASSUME NEW c \in Connection, c[2] = x
       PROVE  \E v \in Seq(Messages) :
              /\ wire'[c] = wire[c] \o v /\ Once(v)
              /\ On(v) = {<<e[1], "CLOSED">> : e \in {f \in {ActiveEnd(Back(c)), PassiveEnd(c)} : Live(thread[f])}}
              /\ On(wire[c]) \cap On(v) = {}
  <2> DEFINE p == call(c)
             q == accept(c)
             v == both(c, c[1] \in callsFirst)
             a == ActiveEnd(Back(c))
             b == PassiveEnd(c)
  <2>1. p = Closing(a) /\ q = Closing(b)
    BY <1>18, <1>19
  <2>2. /\ p \in Seq(Messages) /\ Once(p) /\ On(p) = (IF Live(thread[a]) THEN {<<Back(c), "CLOSED">>} ELSE {})
        /\ q \in Seq(Messages) /\ Once(q) /\ On(q) = (IF Live(thread[b]) THEN {<<c, "CLOSED">>} ELSE {})
    <3>1. a \in Endpoint /\ a[1] = Back(c) /\ b \in Endpoint /\ b[1] = c
      BY <1>18, <1>19
    <3> HIDE DEF a, b, p, q
    <3>2. p = Closing(a) /\ q = Closing(b)
      BY <2>1 DEF p, q
    <3> QED BY <3>1, <3>2, ClosingIs DEF ConnectionInv
  <2>3. wire'[c] = wire[c] \o v
    BY <1>2, <1>19
  <2>4. v = p \o q \/ v = q \o p
    OBVIOUS
  <2>5. <<Back(c), "CLOSED">> # <<c, "CLOSED">>
    BY <1>18, <1>19
  <2> HIDE DEF p, q, v
  <2>6. On(p) \cap On(q) = {}
    BY <2>2, <2>5
  <2>7. v \in Seq(Messages) /\ Once(v) /\ On(v) = On(p) \cup On(q)
    <3>1. CASE v = p \o q
      BY <2>2, <2>6, <3>1, OnAppended
    <3>2. CASE v = q \o p
      BY <2>2, <2>6, <3>2, OnAppended
    <3> QED BY <2>4, <3>1, <3>2
  <2>8. On(v) = {<<e[1], "CLOSED">> : e \in {f \in {a, b} : Live(thread[f])}}
    <3>1. a[1] = Back(c) /\ b[1] = c
      BY <1>18, <1>19
    <3> HIDE DEF a, b
    <3> QED BY <2>2, <2>7, <3>1
  <2>9. Live(thread[a]) => <<Back(c), "CLOSED">> \notin On(wire[c])
    <3>1. Live(thread[a]) => "CLOSED" \notin In(PassiveEnd(Back(c)))
      BY <1>17, <1>18, <1>19
    <3> QED BY <1>18, <1>19, <3>1 DEF In, Kinds
  <2>10. Live(thread[b]) => <<c, "CLOSED">> \notin On(wire[c])
    <3>1. Live(thread[b]) => "CLOSED" \notin In(ActiveEnd(c))
      BY <1>17, <1>18, <1>19
    <3> QED BY <1>18, <1>19, <3>1 DEF In, Kinds
  <2>11. On(wire[c]) \cap On(v) = {}
    BY <2>2, <2>7, <2>9, <2>10
  <2> QED BY <2>3, <2>7, <2>8, <2>11
<1>20. \A c \in Connection : c[2] # x => wire'[c] = wire[c]
  BY <1>2
<1>21. WireInv'
  <2>1. ASSUME NEW c \in Connection
        PROVE  /\ wire'[c] \in Seq(Messages)
               /\ Once(wire'[c])
               /\ \A k \in On(wire'[c]) : k[1] \in {c, Back(c)}
               /\ Sorted(wire'[c], c) /\ Sorted(wire'[c], Back(c))
    <3>1. /\ wire[c] \in Seq(Messages) /\ Once(wire[c])
          /\ \A k \in On(wire[c]) : k[1] \in {c, Back(c)}
          /\ Sorted(wire[c], c) /\ Sorted(wire[c], Back(c))
      BY DEF ConnectionInv, WireInv
    <3>2. CASE c[2] # x
      BY <1>20, <3>1, <3>2
    <3>3. CASE c[2] = x
      <4>1. PICK v \in Seq(Messages) :
              /\ wire'[c] = wire[c] \o v /\ Once(v)
              /\ On(v) = {<<e[1], "CLOSED">> : e \in {f \in {ActiveEnd(Back(c)), PassiveEnd(c)} : Live(thread[f])}}
              /\ On(wire[c]) \cap On(v) = {}
        BY <1>19, <3>3
      <4>2. \A m \in On(v) : m[1] \in {c, Back(c)} /\ m[2] \in {"SYN", "CLOSED"}
        BY <1>18, <3>3, <4>1
      <4>3. \A m \in On(wire[c]) \cup On(v) : m[1] \in {c, Back(c)}
        BY <3>1, <4>2
      <4> DEFINE w == wire[c]
      <4>4. w \in Seq(Messages) /\ Once(w) /\ Sorted(w, c) /\ Sorted(w, Back(c)) /\ On(w) \cap On(v) = {}
            /\ (\A m \in On(w) \cup On(v) : m[1] \in {c, Back(c)}) /\ wire'[c] = w \o v
        BY <3>1, <4>1, <4>3
      <4> HIDE DEF w
      <4>5. /\ w \o v \in Seq(Messages) /\ Once(w \o v)
            /\ \A m \in On(w \o v) : m[1] \in {c, Back(c)}
            /\ Sorted(w \o v, c) /\ Sorted(w \o v, Back(c))
        BY <4>1, <4>2, <4>4, WireAppends
      <4> QED BY <4>4, <4>5
    <3> QED BY <3>2, <3>3
  <2>2. wire' \in [Connection -> Seq(Messages)]
    <3>1. wire' = [c \in Connection |-> wire'[c]]
      BY <1>2
    <3> QED BY <2>1, <3>1
  <2> QED BY <2>1, <2>2 DEF WireInv
<1>22. ASSUME NEW e \in Endpoint, e[2] = x
       PROVE  In(Opposite(e))' = In(Opposite(e)) \cup (IF Live(thread[e]) THEN {"CLOSED"} ELSE {})
  <2> DEFINE f == Opposite(e)
             c == Way(f)
             w == wire[c]
  <2>1. c \in Connection /\ c[2] = x /\ f[1] = e[1] /\ e[1] \in {c, Back(c)} /\ e[1] \in Connection
        /\ (e = ActiveEnd(e[1]) \/ e = PassiveEnd(e[1])) /\ f \in Endpoint
    <3>1. f \in Endpoint /\ f[1] = e[1] /\ f[2] = Other(e) /\ e[1] \in Connection
          /\ (e = ActiveEnd(e[1]) \/ e = PassiveEnd(e[1]))
      BY EndpointParts
    <3>2. Way(f) \in Connection /\ f[1] \in {Way(f), Back(Way(f))}
      BY <3>1, EndpointParts
    <3>3. Other(f) = e[2]
      <4>1. Opposite(ActiveEnd(e[1])) = PassiveEnd(e[1]) /\ Opposite(PassiveEnd(e[1])) = ActiveEnd(e[1])
            /\ Other(PassiveEnd(e[1])) = e[1][1] /\ Other(ActiveEnd(e[1])) = e[1][2]
            /\ ActiveEnd(e[1])[2] = e[1][1] /\ PassiveEnd(e[1])[2] = e[1][2]
        BY <3>1, ConnectionParts
      <4> QED BY <3>1, <4>1
    <3>4. c[2] = x
      BY <1>22, <3>3 DEF Way
    <3> QED BY <3>1, <3>2, <3>4
  <2> HIDE DEF f, c
  <2>2. PICK v \in Seq(Messages) :
              /\ wire'[c] = wire[c] \o v /\ Once(v)
              /\ On(v) = {<<g[1], "CLOSED">> : g \in {h \in {ActiveEnd(Back(c)), PassiveEnd(c)} : Live(thread[h])}}
              /\ On(wire[c]) \cap On(v) = {}
    BY <1>19, <2>1
  <2>3. e \in {ActiveEnd(Back(c)), PassiveEnd(c)}
    <3>1. \A k \in Connection : Way(PassiveEnd(k)) = Back(k) /\ Way(ActiveEnd(k)) = k /\ Back(k) # k /\ Back(Back(k)) = k
                                /\ Opposite(ActiveEnd(k)) = PassiveEnd(k) /\ Opposite(PassiveEnd(k)) = ActiveEnd(k)
      BY ConnectionParts
    <3>2. CASE e = ActiveEnd(e[1])
      <4>1. c = Back(e[1])
        BY <2>1, <3>1, <3>2 DEF c, f
      <4> QED BY <2>1, <3>1, <3>2, <4>1
    <3>3. CASE e = PassiveEnd(e[1])
      <4>1. c = e[1]
        BY <2>1, <3>1, <3>3 DEF c, f
      <4> QED BY <3>3, <4>1
    <3> QED BY <2>1, <3>2, <3>3
  <2>4. \A h \in {ActiveEnd(Back(c)), PassiveEnd(c)} : h[1] = e[1] => h = e
    BY <1>18, <2>1, <2>3
  <2>5. <<e[1], "CLOSED">> \in On(v) <=> Live(thread[e])
    BY <2>2, <2>3, <2>4
  <2>6. On(w \o v) = On(w) \cup On(v)
    <3>1. w \in Seq(Messages) /\ Once(w) /\ On(w) \cap On(v) = {}
      BY <2>1, <2>2 DEF ConnectionInv, WireInv
    <3> HIDE DEF w
    <3> QED BY <2>2, <3>1, OnAppended
  <2>7. In(f)' = {k \in Kinds : <<e[1], k>> \in On(w \o v)} /\ In(f) = {k \in Kinds : <<e[1], k>> \in On(w)}
    BY <2>1, <2>2 DEF In, c
  <2>8. \A k \in Kinds : <<e[1], k>> \in On(v) <=> k = "CLOSED" /\ Live(thread[e])
    BY <2>2, <2>5
  <2> HIDE DEF w
  <2>9. In(f)' = In(f) \cup (IF Live(thread[e]) THEN {"CLOSED"} ELSE {})
    <3>1. "CLOSED" \in Kinds
      BY DEF Kinds
    <3> QED BY <2>6, <2>7, <2>8, <3>1
  <2> QED BY <2>9 DEF f
<1>23. ASSUME NEW e \in Endpoint, Other(e) # x PROVE In(e)' = In(e)
  <2>1. Way(e) \in Connection /\ Way(e)[2] = Other(e)
    BY EndpointParts DEF Way
  <2> QED BY <1>20, <1>23, <2>1 DEF In
<1>24. LinkInv'
  <2> SUFFICES ASSUME NEW c \in Connection
               PROVE  Linked(thread'[ActiveEnd(c)], thread'[PassiveEnd(c)], In(ActiveEnd(c))', In(PassiveEnd(c))')
    BY DEF LinkInv
  <2>1. /\ ActiveEnd(c) \in Endpoint /\ PassiveEnd(c) \in Endpoint /\ ActiveEnd(c)[1] = c /\ PassiveEnd(c)[1] = c
        /\ ActiveEnd(c)[2] = c[1] /\ PassiveEnd(c)[2] = c[2] /\ ActiveEnd(c) # PassiveEnd(c) /\ c[1] # c[2]
        /\ Other(ActiveEnd(c)) = c[2] /\ Other(PassiveEnd(c)) = c[1]
        /\ Opposite(ActiveEnd(c)) = PassiveEnd(c) /\ Opposite(PassiveEnd(c)) = ActiveEnd(c)
    BY ConnectionParts
  <2>2. Linked(thread[ActiveEnd(c)], thread[PassiveEnd(c)], In(ActiveEnd(c)), In(PassiveEnd(c)))
    BY DEF ConnectionInv, LinkInv
  <2>3. CASE c[1] # x /\ c[2] # x
    BY <1>8, <1>23, <2>1, <2>2, <2>3
  <2>4. CASE c[1] = x
    <3>1. thread'[PassiveEnd(c)] = thread[PassiveEnd(c)] /\ In(ActiveEnd(c))' = In(ActiveEnd(c))
      BY <1>8, <1>23, <2>1, <2>4
    <3> DEFINE e == ActiveEnd(c)
    <3>2. In(PassiveEnd(c))' = In(PassiveEnd(c)) \cup (IF Live(thread[e]) THEN {"CLOSED"} ELSE {})
      BY <1>22, <2>1, <2>4
    <3>3. Ends(e, thread'[e], thread[PassiveEnd(c)], In(e),
               In(PassiveEnd(c)) \cup (IF Live(thread[e]) THEN {"CLOSED"} ELSE {}))
      BY <1>17, <2>1, <2>4
    <3>4. Linked(thread'[e], thread[PassiveEnd(c)], In(e),
                 In(PassiveEnd(c)) \cup (IF Live(thread[e]) THEN {"CLOSED"} ELSE {}))
      BY <2>1, <3>3 DEF Ends
    <3> QED BY <3>1, <3>2, <3>4
  <2>5. CASE c[2] = x
    <3>1. thread'[ActiveEnd(c)] = thread[ActiveEnd(c)] /\ In(PassiveEnd(c))' = In(PassiveEnd(c))
      BY <1>8, <1>23, <2>1, <2>5
    <3> DEFINE e == PassiveEnd(c)
    <3>2. In(ActiveEnd(c))' = In(ActiveEnd(c)) \cup (IF Live(thread[e]) THEN {"CLOSED"} ELSE {})
      BY <1>22, <2>1, <2>5
    <3>3. Ends(e, thread'[e], thread[ActiveEnd(c)], In(e),
               In(ActiveEnd(c)) \cup (IF Live(thread[e]) THEN {"CLOSED"} ELSE {}))
      BY <1>17, <2>1, <2>5
    <3>4. Linked(thread[ActiveEnd(c)], thread'[e],
                 In(ActiveEnd(c)) \cup (IF Live(thread[e]) THEN {"CLOSED"} ELSE {}), In(e))
      BY <2>1, <3>3 DEF Ends
    <3> QED BY <3>1, <3>2, <3>4
  <2> QED BY <2>3, <2>4, <2>5
<1> QED BY <1>11, <1>12, <1>13, <1>15, <1>16, <1>21, <1>24 DEF ConnectionInv

----------------------------------------------------------------------------
(* The invariant *)

LEMMA InvStutters ==
  ASSUME ConnectionInv, UNCHANGED connectionVars
  PROVE  ConnectionInv'
<1>1. UNCHANGED base /\ UNCHANGED thread /\ UNCHANGED wire
  BY DEF connectionVars
<1>2. WireInv'
  BY <1>1 DEF ConnectionInv, WireInv
<1>3. \A e : In(e)' = In(e)
  BY <1>1 DEF In
<1>4. LinkInv'
  BY <1>1, <1>3 DEF ConnectionInv, LinkInv
<1> QED BY <1>1, <1>2, <1>4, QuietStep

LEMMA InvHolds == ConnectionInit => ConnectionInv
<1> SUFFICES ASSUME ConnectionInit PROVE ConnectionInv
  OBVIOUS
<1>1. PICK overlay \in Overlays :
        base = [x \in Peer |->
            [current |-> 0, pending |-> 0, listening |-> TRUE, exiting |-> FALSE,
             peerState |-> [y \in Peer |-> <<>>],
             peers |-> overlay.peers, leaving |-> x \in overlay.leaving,
             responses |-> IF x \in overlay.peers THEN overlay.responses ELSE 0]]
  BY DEF ConnectionInit
<1>2. thread = [e \in Endpoint |-> NoThread] /\ wire = [c \in Connection |-> <<>>]
  BY DEF ConnectionInit
<1>3. overlay.peers \in SUBSET Peer /\ overlay.responses \in Nat
  <2>1. overlay \in Overlay
    BY OverlaysAssumption
  <2> QED BY <2>1 DEF Overlay
<1>4. \A x \in Peer : /\ base[x].current = 0 /\ base[x].pending = 0 /\ base[x].listening = TRUE
                      /\ base[x].exiting = FALSE /\ \A y \in Peer : base[x].peerState[y] = <<>>
  BY <1>1
<1>5. \A e \in Endpoint : thread[e] = NoThread /\ Gone(thread[e])
  BY <1>2 DEF Gone, NoThread
<1>6. \A c \in Connection : wire[c] = <<>> /\ On(wire[c]) = {}
  BY <1>2 DEF On
<1>7. TypeInv
  <2>1. NoThread \in ThreadRecords
    <3>1. "NONE" \in ToSet(States)
      BY DEF ToSet, States
    <3> QED BY <3>1 DEF NoThread, ThreadRecords
  <2>2. thread \in [Endpoint -> ThreadRecords]
    BY <1>2, <2>1
  <2>3. ASSUME NEW x \in Peer PROVE base[x] \in Bases
    <3> DEFINE none == [y \in Peer |-> <<>>]
               rs   == IF x \in overlay.peers THEN overlay.responses ELSE 0
               may  == x \in overlay.leaving
    <3>1. none \in [Peer -> Seq(Entries)] /\ rs \in Int /\ may \in BOOLEAN
      BY <1>3
    <3>2. base[x] = [current |-> 0, pending |-> 0, listening |-> TRUE, exiting |-> FALSE, peerState |-> none,
                     peers |-> overlay.peers, leaving |-> may, responses |-> rs]
      BY <1>1
    <3> HIDE DEF none, rs, may
    <3> QED BY <1>3, <3>1, <3>2 DEF Bases
  <2>4. base \in [Peer -> Bases]
    <3>1. base = [x \in Peer |-> base[x]]
      BY <1>1
    <3> QED BY <2>3, <3>1
  <2> QED BY <2>2, <2>4 DEF TypeInv
<1>8. WireInv
  <2>1. wire \in [Connection -> Seq(Messages)]
    BY <1>2
  <2>2. ASSUME NEW c \in Connection
        PROVE  Once(wire[c]) /\ Sorted(wire[c], c) /\ Sorted(wire[c], Back(c))
    BY <1>6 DEF Once, Sorted, Before
  <2> QED BY <1>6, <2>1, <2>2 DEF WireInv
<1>9. LinkInv
  <2>1. ASSUME NEW e \in Endpoint PROVE In(e) = {}
    BY <1>6, EndpointParts DEF In
  <2> QED BY <1>5, <2>1, ConnectionParts DEF LinkInv, Linked, Free
<1>10. ExitInv
  <2>1. NoThread.state = "NONE"
    BY DEF NoThread
  <2> QED BY <1>4, <1>5, <2>1, EndpointParts DEF ExitInv
<1>11. TableInv
  <2>1. ASSUME NEW c \in Connection
        PROVE  Row(c, Stay(c), base[c[1]].peerState[c[2]], thread[ActiveEnd(c)], thread[PassiveEnd(Back(c))])
    <3>1. c[1] \in Peer /\ c[2] \in Peer /\ ActiveEnd(c) \in Endpoint /\ PassiveEnd(Back(c)) \in Endpoint
      BY ConnectionParts
    <3> QED BY <1>4, <1>5, <3>1 DEF Row, Identities, InOrder
  <2> QED BY <1>4, <2>1 DEF TableInv
<1>12. OrderlyInv
  <2>1. ~NoThread.closed /\ ~Live(NoThread)
    BY DEF NoThread, Live
  <2> QED BY <1>5, <2>1, ConnectionParts DEF OrderlyInv
<1>13. CountInv
  <2>1. ASSUME NEW x \in Peer PROVE IsFiniteSet(Threads(x)) /\ Cardinality(Threads(x)) = 0
    <3>1. Threads(x) = {}
      BY <1>5 DEF Threads, Gone
    <3> QED BY <3>1, FS_EmptySet
  <2>2. ASSUME NEW x \in Peer PROVE Listens(base[x])
    <3>1. ~(0 + 0 + 1 >= MaxNumConnections)
      BY MinAssumption, MaxAssumption
    <3> QED BY <1>4, <3>1 DEF Listens
  <2> QED BY <1>4, <2>1, <2>2 DEF CountInv
<1> QED BY <1>7, <1>8, <1>9, <1>10, <1>11, <1>12, <1>13 DEF ConnectionInv

LEMMA InvKept ==
  ASSUME ConnectionInv, [ConnectionNext]_connectionVars
  PROVE  ConnectionInv'
<1>1. ASSUME NEW c \in Connection, Delivery(c) PROVE ConnectionInv'
  BY <1>1, SynStep, ActiveEstablishedStep, PassiveEstablishedStep DEF Delivery
<1>2. ASSUME NEW e \in Endpoint, ThreadStep(e) PROVE ConnectionInv'
  BY <1>2, HandshakeStep, PeerClosedStep, AckedStep, ClosedStep, FailureStep DEF ThreadStep
<1>3. ASSUME NEW x \in Peer, TrackerResponse(x) PROVE ConnectionInv'
  BY <1>3, TrackerResponseStep
<1>4. ASSUME NEW x \in Peer, Exit(x) PROVE ConnectionInv'
  BY <1>4, ExitStep
<1>5. CASE UNCHANGED connectionVars
  BY <1>5, InvStutters
<1> QED BY <1>1, <1>2, <1>3, <1>4, <1>5 DEF ConnectionNext, NetworkStep

----------------------------------------------------------------------------
(* What follows from it *)

LEMMA EntriesFollow ==
  ASSUME ConnectionInv, NEW x \in Peer, NEW y \in Peer
  PROVE  LET entries == base[x].peerState[y]
             threads == {e \in Threads(x) : Other(e) = y}
         IN  /\ Len(entries) = Cardinality(threads)
             /\ ~base[x].exiting /\ ~base[y].exiting =>
                                    {<<entries[i].conn, entries[i].id>> : i \in DOMAIN entries}
                                         = {<<e[1], thread[e].id>> : e \in threads}
<1> DEFINE s       == base[x].peerState[y]
           threads == {e \in Threads(x) : Other(e) = y}
           stay    == ~base[x].exiting /\ ~base[y].exiting
           found   == {<<s[i].conn, s[i].id>> : i \in DOMAIN s}
           wanted  == {<<e[1], thread[e].id>> : e \in threads}
<1>1. s \in Seq(Entries)
  BY BaseParts
<1>2. CASE x = y
  <2>1. s = <<>>
    BY <1>2 DEF ConnectionInv, TableInv
  <2>2. threads = {}
    BY <1>2, EndpointParts DEF Threads
  <2>3. Len(s) = 0 /\ DOMAIN s = {}
    BY <2>1
  <2>4. Cardinality(threads) = 0
    BY <2>2, FS_EmptySet
  <2>5. found = {} /\ wanted = {}
    BY <2>2, <2>3
  <2> QED BY <2>3, <2>4, <2>5
<1>3. CASE x # y
  <2> DEFINE c == <<x, y>>
             p == ActiveEnd(c)
             q == PassiveEnd(Back(c))
             A == thread[p]
             P == thread[q]
  <2>1. c \in Connection /\ c[1] = x /\ c[2] = y
    BY <1>3 DEF Connection
  <2> HIDE DEF c
  <2>2. /\ p \in Endpoint /\ q \in Endpoint /\ p[1] = c /\ q[1] = Back(c) /\ p[2] = x /\ q[2] = x
        /\ Other(p) = y /\ Other(q) = y /\ Back(c) # c /\ p # q
    <3>1. Back(c) \in Connection /\ Back(c) # c /\ Back(c)[1] = y /\ Back(c)[2] = x
      BY <2>1, ConnectionParts DEF Back
    <3>2. q \in Endpoint /\ q[1] = Back(c) /\ q[2] = x /\ Other(q) = y
      BY <3>1, ConnectionParts
    <3>3. p \in Endpoint /\ p[1] = c /\ p[2] = x /\ Other(p) = y
      BY <2>1, ConnectionParts
    <3> QED BY <3>1, <3>2, <3>3
  <2>3. ASSUME NEW e \in Endpoint, e[2] = x, Other(e) = y PROVE e \in {p, q}
    <3>1. e[1] \in Connection /\ (e = ActiveEnd(e[1]) \/ e = PassiveEnd(e[1]))
      BY EndpointParts
    <3>2. CASE e = ActiveEnd(e[1])
      <4>1. e[1] = <<e[1][1], e[1][2]>> /\ e[1][1] = x /\ e[1][2] = y
        BY <2>3, <3>1, <3>2, ConnectionParts
      <4> QED BY <3>2, <4>1 DEF c
    <3>3. CASE e = PassiveEnd(e[1])
      <4>1. e[1] = <<e[1][1], e[1][2]>> /\ e[1][1] = y /\ e[1][2] = x
        BY <2>3, <3>1, <3>3, ConnectionParts
      <4>2. e[1] = Back(c)
        BY <2>1, <4>1 DEF Back
      <4> QED BY <3>3, <4>2
    <3> QED BY <3>1, <3>2, <3>3
  <2>4. threads = {e \in {p, q} : ~Gone(thread[e])}
    BY <2>2, <2>3 DEF Threads, Gone
  <2>5. Row(c, Stay(c), s, A, P) /\ (stay <=> Stay(c))
    BY <2>1 DEF ConnectionInv, TableInv, Stay
  <2>6. Identities(s, A, P) /\ (stay => InOrder(c, s, A, P))
    BY <2>5 DEF Row
  <2> HIDE DEF p, q, s
  <2>7. CASE Gone(A) /\ Gone(P)
    <3>1. threads = {} /\ s = <<>>
      BY <2>4, <2>6, <2>7 DEF Identities
    <3>2. Len(s) = 0 /\ DOMAIN s = {}
      BY <3>1
    <3>3. Cardinality(threads) = 0
      BY <3>1, FS_EmptySet
    <3>4. found = {} /\ wanted = {}
      BY <3>1, <3>2
    <3> QED BY <3>2, <3>3, <3>4 DEF s
  <2>8. CASE ~Gone(A) /\ Gone(P)
    <3>1. threads = {p}
      BY <2>4, <2>8
    <3>2. Len(s) = 1 /\ Cardinality(threads) = 1
      BY <2>6, <2>8, <3>1, FS_Singleton DEF Identities
    <3>3. DOMAIN s = {1}
      BY <1>1, <3>2
    <3>4. ASSUME stay PROVE found = wanted
      <4>1. s[1].conn = c /\ s[1].id = A.id
        BY <2>6, <2>8, <3>4 DEF InOrder
      <4>2. found = {<<s[1].conn, s[1].id>>} /\ wanted = {<<p[1], thread[p].id>>}
        BY <3>1, <3>3
      <4> QED BY <2>2, <4>1, <4>2
    <3> QED BY <3>2, <3>4 DEF s
  <2>9. CASE Gone(A) /\ ~Gone(P)
    <3>1. threads = {q}
      BY <2>4, <2>9
    <3>2. Len(s) = 1 /\ Cardinality(threads) = 1
      BY <2>6, <2>9, <3>1, FS_Singleton DEF Identities
    <3>3. DOMAIN s = {1}
      BY <1>1, <3>2
    <3>4. ASSUME stay PROVE found = wanted
      <4>1. s[1].conn = Back(c) /\ s[1].id = P.id
        BY <2>6, <2>9, <3>2, <3>4 DEF InOrder
      <4>2. found = {<<s[1].conn, s[1].id>>} /\ wanted = {<<q[1], thread[q].id>>}
        BY <3>1, <3>3
      <4> QED BY <2>2, <4>1, <4>2
    <3> QED BY <3>2, <3>4 DEF s
  <2>10. CASE ~Gone(A) /\ ~Gone(P)
    <3>1. threads = {p, q}
      BY <2>4, <2>10
    <3>2. Len(s) = 2
      BY <2>6, <2>10 DEF Identities
    <3>3. Cardinality(threads) = 2
      <4>1. IsFiniteSet({p}) /\ Cardinality({p}) = 1 /\ q \notin {p} /\ threads = {p} \cup {q}
        BY <2>2, <3>1, FS_Singleton
      <4>2. Cardinality({p} \cup {q}) = Cardinality({p}) + 1
        BY <4>1, FS_AddElement
      <4> QED BY <4>1, <4>2
    <3>4. DOMAIN s = {1, 2}
      BY <1>1, <3>2
    <3>5. ASSUME stay PROVE found = wanted
      <4>1. s[1].conn = c /\ s[1].id = A.id /\ s[2].conn = Back(c) /\ s[2].id = P.id
        BY <2>6, <2>10, <3>2, <3>5 DEF InOrder
      <4>2. found = {<<s[1].conn, s[1].id>>, <<s[2].conn, s[2].id>>}
        BY <3>4
      <4>3. wanted = {<<p[1], thread[p].id>>, <<q[1], thread[q].id>>}
        BY <3>1
      <4> QED BY <2>2, <4>1, <4>2, <4>3
    <3> QED BY <3>2, <3>3, <3>5 DEF s
  <2> QED BY <2>7, <2>8, <2>9, <2>10
<1> QED BY <1>2, <1>3

\* What a peer keeps of its connections agrees with the threads there are: its
\* peerState has one entry for each thread, the right one while neither peer has
\* exited, its two counters together count the threads, and checkConnections has
\* opened and closed the server socket as they say.  For all peers, limits and
\* overlays, with peers that exit at any time.
THEOREM TablesMatchThreads == ConnectionSpec => []ConnectionsTracked
<1>1. ConnectionInv => ConnectionsTracked
  <2> SUFFICES ASSUME ConnectionInv PROVE EntriesMatchThreads /\ ConnectionsCounted
    BY DEF ConnectionsTracked
  <2>1. EntriesMatchThreads
    BY EntriesFollow DEF EntriesMatchThreads
  <2>2. ConnectionsCounted
    BY DEF ConnectionInv, CountInv, Listens, ConnectionsCounted
  <2> QED BY <2>1, <2>2
<1> QED BY <1>1, InvHolds, InvKept, PTL DEF ConnectionSpec

\* Of two connections between the same peers, opened at the same time, at most one
\* gets through the handshake at all four ends: connectionAlreadyEstablished rejects
\* one of them at the peer called.  For all peers, limits and overlays.
THEOREM PairsUseOneConnection == ConnectionSpec => []OneConnectionPerPair
<1>1. ConnectionInv => OneConnectionPerPair
  <2> SUFFICES ASSUME ConnectionInv, NEW a \in Peer, NEW b \in Peer, a # b,
                      \A e \in {<<c, x>> : c \in {<<a, b>>, <<b, a>>}, x \in {a, b}} :
                         thread[e].state = "HANDSHAKE_COMPLETE"
               PROVE  FALSE
    BY DEF OneConnectionPerPair
  <2> DEFINE c == <<a, b>>
  <2>1. c \in Connection /\ Back(c) = <<b, a>> /\ Back(c) \in Connection
    BY DEF Connection, Back
  <2>2. /\ ActiveEnd(c) = <<c, a>> /\ PassiveEnd(c) = <<c, b>>
        /\ ActiveEnd(Back(c)) = <<Back(c), b>> /\ PassiveEnd(Back(c)) = <<Back(c), a>>
    BY <2>1 DEF ActiveEnd, PassiveEnd
  <2>3. /\ Live(thread[ActiveEnd(c)]) /\ Live(thread[PassiveEnd(c)])
        /\ Live(thread[ActiveEnd(Back(c))]) /\ Live(thread[PassiveEnd(Back(c))])
    BY <2>1, <2>2 DEF Live
  <2>4. /\ ActiveEnd(c) \in Endpoint /\ ActiveEnd(c)[1] = c /\ ActiveEnd(c)[2] = a
        /\ ActiveEnd(Back(c)) \in Endpoint /\ ActiveEnd(Back(c))[1] = Back(c) /\ ActiveEnd(Back(c))[2] = b
    BY <2>1, ConnectionParts
  <2>5. ~base[a].exiting /\ ~base[b].exiting
    BY <2>3, <2>4 DEF ConnectionInv, ExitInv
  <2>6. Stay(c)
    BY <2>5 DEF Stay
  <2> HIDE DEF c
  <2> QED BY <2>1, <2>3, <2>6 DEF ConnectionInv, OrderlyInv
<1> QED BY <1>1, InvHolds, InvKept, PTL DEF ConnectionSpec

-----------------------------------------------------------------------------
(* Induction, and folds over sequences *)

LEMMA LeastNumber ==
  ASSUME NEW T \in SUBSET Nat, T # {}
  PROVE  \E n \in T : \A m \in T : n <= m
<1>1. PICK n \in T : \A m \in T : ~ (<<m, n>> \in OpToRel(<, Nat))
  BY NatLessThanWellFounded, WFMin
<1>2. \A m \in T : ~(m < n)
  BY <1>1 DEF OpToRel
<1> QED BY <1>2

LEMMA AllNumbers ==
  ASSUME NEW T, 0 \in T, \A k \in Nat : k \in T => k + 1 \in T
  PROVE  \A k \in Nat : k \in T
<1> DEFINE Lacking == {k \in Nat : k \notin T}
<1>1. SUFFICES ASSUME Lacking # {} PROVE FALSE
  OBVIOUS
<1>2. PICK n \in Lacking : \A m \in Lacking : n <= m
  BY <1>1, LeastNumber
<1>3. n \in Nat /\ n # 0 /\ n \notin T
  BY <1>2
<1>4. n - 1 \in Nat /\ n - 1 \notin Lacking
  BY <1>2, <1>3
<1>5. (n - 1) + 1 \in T
  BY <1>4
<1> QED BY <1>3, <1>5

\* A set of numbers up to n has a greatest, and with it goes the rest of a fold.
LEMMA GreatestOf ==
  ASSUME NEW n \in Nat, NEW S \in SUBSET (1 .. n), S # {}
  PROVE  Max(S) \in S /\ \A k \in S : k <= Max(S)
<1> DEFINE T == {n - k : k \in S}
<1>1. T \in SUBSET Nat /\ T # {}
  <2>1. \A k \in S : n - k \in Nat
    OBVIOUS
  <2> QED BY <2>1
<1>2. PICK l \in T : \A m \in T : l <= m
  BY <1>1, LeastNumber
<1>3. PICK k \in S : l = n - k
  BY <1>2
<1>4. \A m \in S : n - k <= n - m
  BY <1>2, <1>3
<1>5. \A m \in S : k >= m
  BY <1>4
<1>6. \E x \in S : \A y \in S : x >= y
  BY <1>5
<1>7. Max(S) \in S /\ \A y \in S : Max(S) >= y
  BY <1>6 DEF Max
<1> QED BY <1>7

LEMMA GreatestUpTo ==
  ASSUME NEW n \in Nat, NEW k \in 1 .. n
  PROVE  Max(1 .. k) = k /\ (1 .. k) \ {k} = 1 .. k - 1
<1>1. 1 .. k \in SUBSET (1 .. n) /\ 1 .. k # {} /\ k \in 1 .. k
  OBVIOUS
<1>2. Max(1 .. k) \in 1 .. k /\ k <= Max(1 .. k)
  BY <1>1, GreatestOf
<1> QED BY <1>2

UpTo(n, k) == {S \in SUBSET (1 .. n) : \A i \in S : i <= k}

\* g is the fold of the steps F from s, for the sets of positions in P.
Folds(g, P, F, s) == g = [S \in P |-> IF S = {} THEN s ELSE F[<<g[S \ {Max(S)}], Max(S)>>]]

LEMMA FoldExists ==
  ASSUME NEW D, NEW n \in Nat, NEW F \in [D \X (1 .. n) -> D], NEW s \in D
  PROVE  \E g \in [SUBSET (1 .. n) -> D] : Folds(g, SUBSET (1 .. n), F, s)
<1> DEFINE T == {k \in Nat : \E g \in [UpTo(n, k) -> D] : Folds(g, UpTo(n, k), F, s)}
<1>1. 0 \in T
  <2> DEFINE g == [S \in UpTo(n, 0) |-> s]
  <2>1. \A S \in UpTo(n, 0) : S = {}
    BY DEF UpTo
  <2>2. g \in [UpTo(n, 0) -> D] /\ Folds(g, UpTo(n, 0), F, s)
    BY <2>1 DEF Folds
  <2> QED BY <2>2
<1>2. ASSUME NEW k \in Nat, k \in T PROVE k + 1 \in T
  <2>1. PICK g \in [UpTo(n, k) -> D] : Folds(g, UpTo(n, k), F, s)
    BY <1>2
  <2> DEFINE P == UpTo(n, k)
             Q == UpTo(n, k + 1)
             h == [S \in Q |-> IF S = {} THEN s ELSE F[<<g[S \ {Max(S)}], Max(S)>>]]
  <2>2. g = [S \in P |-> IF S = {} THEN s ELSE F[<<g[S \ {Max(S)}], Max(S)>>]]
    BY <2>1 DEF Folds
  <2>3. P \subseteq Q
    BY DEF UpTo
  <2>4. \A S \in Q : S # {} => S \ {Max(S)} \in P /\ Max(S) \in 1 .. n
    <3> SUFFICES ASSUME NEW S \in Q, S # {} PROVE S \ {Max(S)} \in P /\ Max(S) \in 1 .. n
      OBVIOUS
    <3>1. S \in SUBSET (1 .. n) /\ \A i \in S : i <= k + 1
      BY DEF UpTo
    <3>2. Max(S) \in S /\ \A i \in S : i <= Max(S)
      BY <3>1, GreatestOf
    <3> DEFINE x == Max(S)
    <3>5. x \in S
      BY <3>2
    <3> HIDE DEF x
    <3>3. x \in Nat /\ x <= k + 1
      BY <3>1, <3>5
    <3>4. \A i \in S \ {x} : i <= k
      <4> TAKE i \in S \ {x}
      <4>1. i \in Nat /\ x \in Nat /\ i <= x /\ i # x /\ x <= k + 1
        BY <3>1, <3>2, <3>3 DEF x
      <4> QED BY <4>1
    <3> QED BY <3>1, <3>2, <3>4 DEF UpTo, x
  <2> HIDE DEF P, Q
  <2>5. \A S \in P : h[S] = g[S]
    <3>1. \A S \in P : h[S] = IF S = {} THEN s ELSE F[<<g[S \ {Max(S)}], Max(S)>>]
      BY <2>3
    <3>2. \A S \in P : g[S] = IF S = {} THEN s ELSE F[<<g[S \ {Max(S)}], Max(S)>>]
      BY <2>2
    <3> QED BY <3>1, <3>2
  <2>6. h \in [Q -> D]
    <3>1. \A S \in Q : S # {} => g[S \ {Max(S)}] \in D
      BY <2>1, <2>4 DEF P
    <3>2. \A S \in Q : S # {} => F[<<g[S \ {Max(S)}], Max(S)>>] \in D
      BY <2>4, <3>1
    <3> QED BY <3>2
  <2>7. \A S \in Q : h[S] = IF S = {} THEN s ELSE F[<<h[S \ {Max(S)}], Max(S)>>]
    <3>1. \A S \in Q : h[S] = IF S = {} THEN s ELSE F[<<g[S \ {Max(S)}], Max(S)>>]
      OBVIOUS
    <3> HIDE DEF h
    <3> QED BY <3>1, <2>4, <2>5
  <2>8. h = [S \in Q |-> h[S]]
    OBVIOUS
  <2> HIDE DEF h
  <2>9. h = [S \in Q |-> IF S = {} THEN s ELSE F[<<h[S \ {Max(S)}], Max(S)>>]]
    BY <2>7, <2>8
  <2>10. Folds(h, UpTo(n, k + 1), F, s) /\ h \in [UpTo(n, k + 1) -> D]
    BY <2>6, <2>9 DEF Folds, Q
  <2> QED BY <2>10
<1>3. n \in T
  <2> HIDE DEF T
  <2> QED BY <1>1, <1>2, AllNumbers
<1>4. UpTo(n, n) = SUBSET (1 .. n)
  BY DEF UpTo
<1> QED BY <1>3, <1>4

\* f is a fold of F from s wherever F is defined.
Unfolds(f, n, D, F, s) ==
  /\ f[{}] = s
  /\ \A S \in SUBSET (1 .. n) : S # {} /\ f[S \ {Max(S)}] \in D
        => f[S] = F[<<f[S \ {Max(S)}], Max(S)>>]

\* h are the values a fold goes through.
Runs(h, n, D, F, s) ==
  h \in [0 .. n -> D] /\ h[0] = s /\ \A k \in 1 .. n : h[k] = F[<<h[k - 1], k>>]

\* The last of them is x.
RunsTo(x, n, D, F, s) == \E h : Runs(h, n, D, F, s) /\ h[n] = x

\* Whatever is a fold wherever F is defined goes through the values of F, one after the other.
LEMMA FoldIsRun ==
  ASSUME NEW D, NEW n \in Nat, NEW F \in [D \X (1 .. n) -> D], NEW s \in D, NEW f,
         Unfolds(f, n, D, F, s)
  PROVE  RunsTo(f[1 .. n], n, D, F, s)
<1>0. /\ f[{}] = s
      /\ \A S \in SUBSET (1 .. n) : S # {} /\ f[S \ {Max(S)}] \in D
            => f[S] = F[<<f[S \ {Max(S)}], Max(S)>>]
  BY DEF Unfolds
<1>1. \A k \in 1 .. n : f[1 .. k - 1] \in D => f[1 .. k] = F[<<f[1 .. k - 1], k>>]
  <2> TAKE k \in 1 .. n
  <2>1. 1 .. k \in SUBSET (1 .. n) /\ 1 .. k # {}
    OBVIOUS
  <2>2. Max(1 .. k) = k /\ (1 .. k) \ {k} = 1 .. k - 1
    BY GreatestUpTo
  <2> QED BY <2>1, <2>2, <1>0
<1> DEFINE T == {k \in Nat : k <= n => f[1 .. k] \in D}
<1>2. 0 \in T
  <2>1. 1 .. 0 = {}
    OBVIOUS
  <2> QED BY <2>1, <1>0
<1>3. ASSUME NEW k \in Nat, k \in T PROVE k + 1 \in T
  <2> SUFFICES ASSUME k + 1 <= n PROVE f[1 .. k + 1] \in D
    OBVIOUS
  <2>1. k + 1 \in 1 .. n /\ (k + 1) - 1 = k /\ f[1 .. k] \in D
    BY <1>3
  <2>2. f[1 .. k + 1] = F[<<f[1 .. k], k + 1>>]
    BY <2>1, <1>1
  <2> QED BY <2>1, <2>2
<1>4. \A k \in Nat : k \in T
  <2> HIDE DEF T
  <2> QED BY <1>2, <1>3, AllNumbers
<1> DEFINE h == [k \in 0 .. n |-> f[1 .. k]]
<1>5. h \in [0 .. n -> D]
  BY <1>4
<1>6. h[0] = s
  <2>1. 1 .. 0 = {} /\ 0 \in 0 .. n
    OBVIOUS
  <2> QED BY <2>1, <1>0
<1>7. \A k \in 1 .. n : h[k] = F[<<h[k - 1], k>>]
  <2> TAKE k \in 1 .. n
  <2>1. k \in 0 .. n /\ k - 1 \in 0 .. n
    OBVIOUS
  <2>2. f[1 .. k - 1] \in D
    BY <2>1, <1>4
  <2> QED BY <2>1, <2>2, <1>1
<1>8. h[n] = f[1 .. n]
  OBVIOUS
<1> HIDE DEF h
<1> QED BY <1>5, <1>6, <1>7, <1>8 DEF Runs, RunsTo

LEMMA Folded ==
  ASSUME NEW D, NEW n \in Nat, NEW F \in [D \X (1 .. n) -> D], NEW s \in D, NEW f,
         \A g \in [SUBSET (1 .. n) -> D] : Folds(g, SUBSET (1 .. n), F, s) => Unfolds(f, n, D, F, s)
  PROVE  f[1 .. n] \in D /\ RunsTo(f[1 .. n], n, D, F, s)
<1>1. PICK g \in [SUBSET (1 .. n) -> D] : Folds(g, SUBSET (1 .. n), F, s)
  BY FoldExists
<1>2. Unfolds(f, n, D, F, s)
  BY <1>1
<1>3. RunsTo(f[1 .. n], n, D, F, s)
  BY <1>2, FoldIsRun
<1>4. f[1 .. n] \in D
  BY <1>3 DEF Runs, RunsTo
<1> QED BY <1>3, <1>4


-----------------------------------------------------------------------------
(* Choking rounds *)

ServiceTypes == [amChoking : BOOLEAN, peerInterested : BOOLEAN, optimistic : BOOLEAN,
                 rate : Nat, last : {"OLD", "BETWEEN", "RECENT"}]

ChokingTypes == served \in [Remote -> ServiceTypes] /\ peerState \in Seq(Remote) /\ minDownloaderRate \in Nat

RoundTypes == [served : [Remote -> ServiceTypes], numDownloaders : Nat, minRate : Nat]

\* The services other than of r are the same.
SameBut(a, b, r) == \A q \in Remote \ {r} : b[q] = a[q]

LEMMA ChokeTypes ==
  ASSUME NEW s \in [Remote -> ServiceTypes], NEW r, NEW when \in {"BETWEEN", "RECENT"}
  PROVE  /\ Unchoke(s, r, when) \in [Remote -> ServiceTypes] /\ SameBut(s, Unchoke(s, r, when), r)
         /\ Choke(s, r, when) \in [Remote -> ServiceTypes] /\ SameBut(s, Choke(s, r, when), r)
         /\ r \in Remote => ~Unchoke(s, r, when)[r].amChoking /\ Choke(s, r, when)[r].amChoking
<1>1. CASE r \in Remote
  <2>1. s[r] \in ServiceTypes
    BY <1>1
  <2> DEFINE u == [s[r] EXCEPT !.amChoking = FALSE, !.last = when]
             c == [s[r] EXCEPT !.amChoking = TRUE, !.optimistic = FALSE, !.last = when]
  <2>2. u \in ServiceTypes /\ c \in ServiceTypes /\ ~u.amChoking /\ c.amChoking
    BY <2>1 DEF ServiceTypes
  <2>3. Unchoke(s, r, when) = [s EXCEPT ![r] = u]
    BY <1>1, <2>1 DEF Unchoke, ServiceTypes
  <2>4. Choke(s, r, when) = [s EXCEPT ![r] = c]
    BY <1>1, <2>1 DEF Choke, ServiceTypes
  <2> HIDE DEF u, c
  <2> QED BY <1>1, <2>2, <2>3, <2>4 DEF SameBut
<1>2. CASE r \notin Remote
  <2>1. Unchoke(s, r, when) = s /\ Choke(s, r, when) = s
    BY <1>2 DEF Unchoke, Choke
  <2> QED BY <1>2, <2>1 DEF SameBut
<1> QED BY <1>1, <1>2

\* What a step of a round does to the thread of r and to the count.
LEMMA StepChokes ==
  ASSUME ChokingTypes, NEW a \in RoundTypes, NEW r \in Remote
  PROVE  /\ ChokingStep(a, r) \in RoundTypes
         /\ SameBut(a.served, ChokingStep(a, r).served, r)
         /\ \/ ChokingStep(a, r).numDownloaders = a.numDownloaders
            \/ /\ ChokingStep(a, r).numDownloaders = a.numDownloaders + 1
               /\ ~ChokingStep(a, r).served[r].amChoking
         /\ Eligible(r) /\ a.served[r].peerInterested /\ ChokingStep(a, r).served[r].amChoking
               => a.numDownloaders >= Downloaders
<1> DEFINE t == a.served[r]
           b == ChokingStep(a, r)
           u == Unchoke(a.served, r, "RECENT")
           c == Choke(a.served, r, "RECENT")
           m == IF t.rate <= a.minRate THEN t.rate ELSE a.minRate
<1>0. /\ a.served \in [Remote -> ServiceTypes] /\ a.numDownloaders \in Nat /\ a.minRate \in Nat
      /\ t \in ServiceTypes /\ t.amChoking \in BOOLEAN /\ t.peerInterested \in BOOLEAN /\ t.rate \in Nat
      /\ m \in Nat
  BY DEF RoundTypes, ServiceTypes
<1>1. /\ u \in [Remote -> ServiceTypes] /\ SameBut(a.served, u, r) /\ ~u[r].amChoking
      /\ c \in [Remote -> ServiceTypes] /\ SameBut(a.served, c, r) /\ c[r].amChoking
  BY <1>0, ChokeTypes
<1>2. Downloaders \in Nat
  BY DownloadersAssumption
<1>3. SameBut(a.served, a.served, r)
  BY DEF SameBut
<1>4. CASE ~Eligible(r)
  <2>1. b = a
    BY <1>4 DEF ChokingStep
  <2> QED BY <1>3, <1>4, <2>1
<1>5. CASE Eligible(r) /\ t.amChoking /\ t.peerInterested /\ a.numDownloaders < Downloaders
  <2>1. b = [a EXCEPT !.served = u, !.numDownloaders = a.numDownloaders + 1, !.minRate = m]
    BY <1>5 DEF ChokingStep, RoundTypes
  <2> HIDE DEF t, b, u, c, m
  <2>2. b = [served |-> u, numDownloaders |-> a.numDownloaders + 1, minRate |-> m]
    BY <2>1, <1>0 DEF RoundTypes
  <2>3. b \in RoundTypes /\ b.served = u /\ b.numDownloaders = a.numDownloaders + 1
    BY <2>2, <1>0, <1>1 DEF RoundTypes
  <2> QED BY <2>3, <1>1 DEF b
<1>6. CASE Eligible(r) /\ t.amChoking /\ ~t.peerInterested
  <2>1. b \in {a, [a EXCEPT !.served = u]}
    BY <1>6, <1>0 DEF ChokingStep, RoundTypes
  <2>2. ~a.served[r].peerInterested
    BY <1>6
  <2> HIDE DEF t, b, u, c, m
  <2>3. b \in RoundTypes /\ b.served \in {u, a.served} /\ b.numDownloaders = a.numDownloaders
    BY <2>1, <1>0, <1>1 DEF RoundTypes
  <2> QED BY <2>2, <2>3, <1>1, <1>3 DEF b
<1>7. CASE Eligible(r) /\ t.amChoking /\ t.peerInterested /\ ~(a.numDownloaders < Downloaders)
  <2>1. b = a
    BY <1>7, <1>0 DEF ChokingStep
  <2> QED BY <2>1, <1>0, <1>2, <1>3, <1>7
<1>8. CASE Eligible(r) /\ ~t.amChoking /\ a.numDownloaders = Downloaders /\ ~t.optimistic
  <2>1. b = [a EXCEPT !.served = c]
    BY <1>8, <1>0 DEF ChokingStep, RoundTypes
  <2> HIDE DEF t, b, u, c, m
  <2>2. b \in RoundTypes /\ b.served = c /\ b.numDownloaders = a.numDownloaders
    BY <2>1, <1>0, <1>1 DEF RoundTypes
  <2> QED BY <2>2, <1>1, <1>2, <1>8 DEF b
<1>9. CASE Eligible(r) /\ ~t.amChoking /\ ~(a.numDownloaders = Downloaders /\ ~t.optimistic)
  <2>1. b = [a EXCEPT !.numDownloaders = a.numDownloaders + 1]
    BY <1>9, <1>0 DEF ChokingStep, RoundTypes
  <2>2. ~a.served[r].amChoking
    BY <1>9
  <2> HIDE DEF t, b, u, c, m
  <2>3. b \in RoundTypes /\ b.served = a.served /\ b.numDownloaders = a.numDownloaders + 1
    BY <2>1, <1>0 DEF RoundTypes
  <2> QED BY <2>2, <2>3, <1>3 DEF b
<1> QED BY <1>0, <1>4, <1>5, <1>6, <1>7, <1>8, <1>9

-----------------------------------------------------------------------------
(* The threads that a round has passed *)

\* order lists the connected peers, each once.
Lists(order, n) ==
  /\ n \in Nat /\ order \in [1 .. n -> Remote]
  /\ \A i, j \in 1 .. n : order[i] = order[j] => i = j
  /\ Connected = {order[i] : i \in 1 .. n}

LEMMA ConnectedFinite == ASSUME ChokingTypes PROVE IsFiniteSet(Connected) /\ Connected \subseteq Remote
<1> DEFINE n == Len(peerState)
<1>1. n \in Nat /\ peerState \in [1 .. n -> Remote] /\ DOMAIN peerState = 1 .. n
  BY DEF ChokingTypes
<1>2. Connected = {peerState[i] : i \in 1 .. n}
  BY <1>1 DEF Connected, ToSet
<1>3. peerState \in Surjection(1 .. n, Connected)
  BY <1>1, <1>2 DEF Surjection
<1>4. IsFiniteSet(1 .. n)
  BY <1>1, FS_Interval
<1> QED BY <1>1, <1>2, <1>3, <1>4, FS_Surjection

LEMMA OrderLists ==
  ASSUME ChokingTypes, NEW order \in SetToSeqs(Connected)
  PROVE  Lists(order, Cardinality(Connected)) /\ Len(order) = Cardinality(Connected)
                                              /\ DOMAIN order = 1 .. Cardinality(Connected)
<1> DEFINE n == Cardinality(Connected)
<1>1. IsFiniteSet(Connected) /\ Connected \subseteq Remote
  BY ConnectedFinite
<1>2. n \in Nat
  BY <1>1, FS_CardinalityType
<1>3. order \in [1 .. n -> Connected] /\ \A i, j \in 1 .. n : i # j => order[i] # order[j]
  BY DEF SetToSeqs
<1> HIDE DEF n
<1>4. order \in Injection(1 .. n, Connected)
  BY <1>3 DEF Injection, IsInjective
<1>5. Cardinality(1 .. n) = n
  BY <1>2, FS_Interval
<1>6. order \in Surjection(1 .. n, Connected)
  BY <1>1, <1>4, <1>5, FS_Injection DEF n
<1>7. Connected = {order[i] : i \in 1 .. n}
  BY <1>3, <1>6 DEF Surjection
<1>8. order \in Seq(Connected) /\ Len(order) = n /\ DOMAIN order = 1 .. n
  BY <1>2, <1>3
<1> QED BY <1>1, <1>2, <1>3, <1>7, <1>8 DEF Lists, n

Passed(order, k) == {order[i] : i \in 1 .. k}
Unchoked(s, S)   == {q \in S : ~s[q].amChoking}

\* After k threads: those that are counted are unchoked, those ahead have not changed, and one
\* that was left choked had as many unchoked ones before it as there are places.
AfterThreads(order, n, a, k) ==
  /\ a \in RoundTypes
  /\ a.numDownloaders <= Cardinality(Unchoked(a.served, Passed(order, k)))
  /\ \A i \in k + 1 .. n : a.served[order[i]] = served[order[i]]
  /\ \A i \in 1 .. k :
       Eligible(order[i]) /\ served[order[i]].peerInterested /\ a.served[order[i]].amChoking
         => Downloaders <= Cardinality(Unchoked(a.served, Passed(order, i)))

LEMMA PassedFinite ==
  ASSUME NEW n \in Nat, NEW order, Lists(order, n), NEW k \in 0 .. n, NEW s
  PROVE  /\ IsFiniteSet(Unchoked(s, Passed(order, k))) /\ Passed(order, k) \subseteq Remote
         /\ Cardinality(Unchoked(s, Passed(order, k))) \in Nat
<1>1. 1 .. k \subseteq 1 .. n /\ k \in Nat
  OBVIOUS
<1>2. Passed(order, k) \subseteq Remote
  BY <1>1 DEF Lists, Passed
<1>3. IsFiniteSet(1 .. k)
  BY <1>1, FS_Interval
<1> DEFINE f == [i \in 1 .. k |-> order[i]]
<1>4. f \in Surjection(1 .. k, Passed(order, k))
  BY DEF Surjection, Passed
<1>5. IsFiniteSet(Passed(order, k))
  BY <1>3, <1>4, FS_Surjection
<1>6. Unchoked(s, Passed(order, k)) \in SUBSET Passed(order, k)
  BY DEF Unchoked
<1>7. IsFiniteSet(Unchoked(s, Passed(order, k)))
  BY <1>5, <1>6, FS_Subset
<1> QED BY <1>2, <1>7, FS_CardinalityType

\* A step leaves those alone that the round has passed.
LEMMA PassedStay ==
  ASSUME NEW n \in Nat, NEW order, Lists(order, n), NEW k \in 1 .. n, NEW s, NEW u,
         SameBut(s, u, order[k]), NEW i \in 0 .. k - 1
  PROVE  Unchoked(u, Passed(order, i)) = Unchoked(s, Passed(order, i))
<1>1. \A j \in 1 .. i : j \in 1 .. n /\ order[j] # order[k] /\ order[j] \in Remote
  BY DEF Lists
<1>2. \A q \in Passed(order, i) : u[q] = s[q]
  BY <1>1 DEF Passed, SameBut
<1> QED BY <1>2 DEF Unchoked

LEMMA OneMorePassed ==
  ASSUME NEW n \in Nat, NEW order, Lists(order, n), NEW k \in 1 .. n
  PROVE  Passed(order, k) = Passed(order, k - 1) \cup {order[k]} /\ order[k] \notin Passed(order, k - 1)
<1>1. 1 .. k = (1 .. k - 1) \cup {k} /\ \A i \in 1 .. k - 1 : i \in 1 .. n /\ i # k
  OBVIOUS
<1>2. order[k] \notin Passed(order, k - 1)
  BY <1>1 DEF Passed, Lists
<1> QED BY <1>1, <1>2 DEF Passed

LEMMA ThreadPassed ==
  ASSUME ChokingTypes, NEW n \in Nat, NEW order, Lists(order, n), NEW k \in 1 .. n, NEW a,
         AfterThreads(order, n, a, k - 1)
  PROVE  AfterThreads(order, n, ChokingStep(a, order[k]), k)
<1> DEFINE r == order[k]
           b == ChokingStep(a, r)
           U == Unchoked(a.served, Passed(order, k - 1))
           V == Unchoked(b.served, Passed(order, k))
<1>1. r \in Remote /\ a \in RoundTypes /\ k \in Nat /\ k - 1 \in 0 .. n /\ k \in 0 .. n
  BY DEF AfterThreads, Lists
<1>2. /\ b \in RoundTypes
      /\ SameBut(a.served, b.served, r)
      /\ \/ b.numDownloaders = a.numDownloaders
         \/ b.numDownloaders = a.numDownloaders + 1 /\ ~b.served[r].amChoking
      /\ Eligible(r) /\ a.served[r].peerInterested /\ b.served[r].amChoking
            => a.numDownloaders >= Downloaders
  BY <1>1, StepChokes
<1> HIDE DEF b
<1>3. \A i \in 0 .. k - 1 : Unchoked(b.served, Passed(order, i)) = Unchoked(a.served, Passed(order, i))
  BY <1>2, PassedStay
<1>4. Passed(order, k) = Passed(order, k - 1) \cup {r} /\ r \notin Passed(order, k - 1)
  BY OneMorePassed
<1>5. U \subseteq V /\ (~b.served[r].amChoking => V = U \cup {r}) /\ r \notin U
  <2>1. Unchoked(b.served, Passed(order, k - 1)) = U
    BY <1>1, <1>3
  <2> QED BY <2>1, <1>4 DEF Unchoked
<1>6. /\ IsFiniteSet(U) /\ Cardinality(U) \in Nat /\ IsFiniteSet(V) /\ Cardinality(V) \in Nat
  BY <1>1, PassedFinite
<1> HIDE DEF U, V
<1>7. Cardinality(U) <= Cardinality(V) /\ (~b.served[r].amChoking => Cardinality(V) = Cardinality(U) + 1)
  BY <1>5, <1>6, FS_Subset, FS_AddElement
<1>8. a.numDownloaders <= Cardinality(U) /\ a.numDownloaders \in Nat /\ b.numDownloaders \in Nat
  BY <1>1, <1>2 DEF AfterThreads, RoundTypes, U
<1>9. b.numDownloaders <= Cardinality(V)
  BY <1>2, <1>6, <1>7, <1>8
<1>10. ASSUME NEW i \in k + 1 .. n PROVE b.served[order[i]] = served[order[i]]
  <2>1. i \in k - 1 + 1 .. n /\ i # k /\ i \in 1 .. n
    BY <1>1
  <2>2. order[i] # r /\ order[i] \in Remote
    BY <2>1 DEF Lists
  <2>3. a.served[order[i]] = served[order[i]]
    BY <2>1 DEF AfterThreads
  <2> QED BY <2>2, <2>3, <1>2 DEF SameBut
<1>11. ASSUME NEW i \in 1 .. k, Eligible(order[i]), served[order[i]].peerInterested,
              b.served[order[i]].amChoking
       PROVE  Downloaders <= Cardinality(Unchoked(b.served, Passed(order, i)))
  <2>1. CASE i = k
    <3>1. a.served[r] = served[r]
      <4>1. k \in k - 1 + 1 .. n
        BY <1>1
      <4> QED BY <4>1 DEF AfterThreads
    <3>2. a.numDownloaders >= Downloaders
      BY <1>11, <1>2, <2>1, <3>1
    <3> QED BY <1>6, <1>7, <1>8, <2>1, <3>2, DownloadersAssumption DEF V
  <2>2. CASE i # k
    <3>1. i \in 1 .. k - 1 /\ i \in 0 .. k - 1 /\ i \in 1 .. n
      BY <1>1, <2>2
    <3>2. order[i] # r /\ order[i] \in Remote
      BY <2>2, <3>1 DEF Lists
    <3>3. a.served[order[i]].amChoking
      BY <1>2, <1>11, <3>2 DEF SameBut
    <3>4. Downloaders <= Cardinality(Unchoked(a.served, Passed(order, i)))
      BY <1>11, <3>1, <3>3 DEF AfterThreads
    <3> QED BY <3>1, <3>4, <1>3
  <2> QED BY <2>1, <2>2
<1> QED BY <1>2, <1>9, <1>10, <1>11 DEF AfterThreads, V, b

-----------------------------------------------------------------------------
(* A round *)

Beginning == [served |-> served, numDownloaders |-> 0, minRate |-> minDownloaderRate]

LEMMA BeginningIs ==
  ASSUME ChokingTypes, NEW n \in Nat, NEW order, Lists(order, n)
  PROVE  AfterThreads(order, n, Beginning, 0)
<1>1. Beginning \in RoundTypes
  BY DEF Beginning, ChokingTypes, RoundTypes
<1>2. 0 <= Cardinality(Unchoked(served, Passed(order, 0)))
  BY PassedFinite
<1> QED BY <1>1, <1>2 DEF AfterThreads, Beginning

LEMMA RoundIs ==
  ASSUME ChokingTypes, NEW order \in SetToSeqs(Connected)
  PROVE  AfterThreads(order, Cardinality(Connected), FoldLeft(ChokingStep, Beginning, order),
                      Cardinality(Connected))
<1> DEFINE n == Cardinality(Connected)
           D == RoundTypes
           s == Beginning
           F == [x \in D \X (1 .. n) |-> ChokingStep(x[1], order[x[2]])]
           f == CHOOSE g : g = [S \in SUBSET (1 .. n) |->
                                  IF S = {} THEN s ELSE ChokingStep(g[S \ {Max(S)}], order[Max(S)])]
<1>1. Lists(order, n) /\ n \in Nat /\ DOMAIN order = 1 .. n
  BY OrderLists DEF Lists
<1>2. FoldLeft(ChokingStep, Beginning, order) = f[1 .. n]
  BY <1>1 DEF FoldLeft, MapThenFoldSet
<1> HIDE DEF n
<1>3. AfterThreads(order, n, s, 0) /\ s \in D
  BY <1>1, BeginningIs DEF AfterThreads
<1>4. F \in [D \X (1 .. n) -> D]
  <2>1. ASSUME NEW a \in D, NEW i \in 1 .. n PROVE ChokingStep(a, order[i]) \in D
    <3>1. order[i] \in Remote
      BY <1>1 DEF Lists
    <3> QED BY <3>1, StepChokes
  <2> QED BY <2>1
<1> HIDE DEF s
<1>5. ASSUME NEW g \in [SUBSET (1 .. n) -> D], Folds(g, SUBSET (1 .. n), F, s)
      PROVE  Unfolds(f, n, D, F, s)
  <2> HIDE DEF D
  <2>1. g = [S \in SUBSET (1 .. n) |-> IF S = {} THEN s ELSE F[<<g[S \ {Max(S)}], Max(S)>>]]
    BY <1>5 DEF Folds
  <2>2. \A S \in SUBSET (1 .. n) : S # {} => Max(S) \in 1 .. n
    BY <1>1, GreatestOf
  <2>3. \A d \in D : \A i \in 1 .. n : F[<<d, i>>] = ChokingStep(d, order[i])
    OBVIOUS
  <2> HIDE DEF F
  <2>4. \A S \in SUBSET (1 .. n) : S # {} =>
           F[<<g[S \ {Max(S)}], Max(S)>>] = ChokingStep(g[S \ {Max(S)}], order[Max(S)])
    BY <2>2, <2>3
  <2>5. g = [S \in SUBSET (1 .. n) |-> IF S = {} THEN s ELSE ChokingStep(g[S \ {Max(S)}], order[Max(S)])]
    BY <2>1, <2>4
  <2>6. f = [S \in SUBSET (1 .. n) |-> IF S = {} THEN s ELSE ChokingStep(f[S \ {Max(S)}], order[Max(S)])]
    BY <2>5
  <2> HIDE DEF f
  <2>7. f[{}] = s
    BY <2>6
  <2>8. \A S \in SUBSET (1 .. n) : S # {} => f[S] = ChokingStep(f[S \ {Max(S)}], order[Max(S)])
    BY <2>6
  <2> QED BY <2>2, <2>3, <2>7, <2>8 DEF Unfolds
<1> HIDE DEF f, F
<1>6. RunsTo(f[1 .. n], n, D, F, s)
  BY <1>1, <1>3, <1>4, <1>5, Folded
<1>7. PICK h : Runs(h, n, D, F, s) /\ h[n] = f[1 .. n]
  BY <1>6 DEF RunsTo
<1> DEFINE T == {k \in Nat : k <= n => AfterThreads(order, n, h[k], k)}
<1>8. 0 \in T
  BY <1>3, <1>7 DEF Runs
<1>9. ASSUME NEW k \in Nat, k \in T PROVE k + 1 \in T
  <2> SUFFICES ASSUME k + 1 <= n PROVE AfterThreads(order, n, h[k + 1], k + 1)
    OBVIOUS
  <2>1. k + 1 \in 1 .. n /\ (k + 1) - 1 = k /\ k \in 0 .. n
    BY <1>1
  <2>2. h[k] \in D /\ h[k + 1] = F[<<h[k], k + 1>>]
    BY <2>1, <1>7 DEF Runs
  <2>3. h[k + 1] = ChokingStep(h[k], order[k + 1])
    BY <2>1, <2>2 DEF F
  <2>4. AfterThreads(order, n, h[k], (k + 1) - 1)
    BY <1>9, <2>1
  <2> HIDE DEF T, D
  <2> QED BY <1>1, <2>1, <2>3, <2>4, ThreadPassed
<1>10. n \in T
  <2> HIDE DEF T
  <2> QED BY <1>1, <1>8, <1>9, AllNumbers
<1> QED BY <1>1, <1>2, <1>7, <1>10 DEF n

LEMMA FirstGone ==
  ASSUME NEW S, NEW q \in Seq(S), NEW e
  PROVE  RemoveFirst(q, e) \in Seq(S)
<1> DEFINE I == {i \in 1 .. Len(q) : q[i] = e}
           k == Min(I)
<1>1. Len(q) \in Nat /\ I \in SUBSET Nat
  OBVIOUS
<1>2. CASE I = {}
  BY <1>2 DEF RemoveFirst
<1>3. CASE I # {}
  <2>1. \E i \in 1 .. Len(q) : q[i] = e
    BY <1>3
  <2>2. RemoveFirst(q, e) = RemoveAt(q, k)
    BY <1>3, <2>1 DEF RemoveFirst, SelectInSeq
  <2>3. k \in I
    <3>1. \E x \in I : \A y \in I : x <= y
      <4> HIDE DEF I
      <4> QED BY <1>1, <1>3, LeastNumber
    <3>2. k = CHOOSE x \in I : \A y \in I : x =< y
      BY DEF Min
    <3> HIDE DEF I, k
    <3> QED BY <3>1, <3>2
  <2>4. k \in 1 .. Len(q)
    BY <2>3
  <2> HIDE DEF k
  <2>5. SubSeq(q, 1, k - 1) \in Seq(S)
    BY <1>1, <2>4
  <2>6. SubSeq(q, k + 1, Len(q)) \in Seq(S)
    <3>1. k + 1 \in 1 .. Len(q) + 1 /\ Len(q) \in k .. Len(q)
      BY <1>1, <2>4
    <3> QED BY <3>1, <1>1, <2>4, SubSeqProperties
  <2> QED BY <2>2, <2>5, <2>6 DEF RemoveAt
<1> QED BY <1>2, <1>3

LEMMA ServiceSet ==
  ASSUME NEW s \in [Remote -> ServiceTypes], NEW r \in Remote
  PROVE  /\ NewService \in ServiceTypes
         /\ \A b \in BOOLEAN : [s EXCEPT ![r].peerInterested = b] \in [Remote -> ServiceTypes]
         /\ \A n \in Nat : [s EXCEPT ![r].rate = n] \in [Remote -> ServiceTypes]
         /\ [s EXCEPT ![r] = NewService] \in [Remote -> ServiceTypes]
<1>1. NewService \in ServiceTypes
  BY DEF NewService, ServiceTypes
<1>2. s[r] \in ServiceTypes
  OBVIOUS
<1>3. ASSUME NEW b \in BOOLEAN PROVE [s EXCEPT ![r].peerInterested = b] \in [Remote -> ServiceTypes]
  <2>1. [s[r] EXCEPT !.peerInterested = b] \in ServiceTypes
    BY <1>2 DEF ServiceTypes
  <2> QED BY <2>1
<1>4. ASSUME NEW n \in Nat PROVE [s EXCEPT ![r].rate = n] \in [Remote -> ServiceTypes]
  <2>1. [s[r] EXCEPT !.rate = n] \in ServiceTypes
    BY <1>2 DEF ServiceTypes
  <2> QED BY <2>1
<1> QED BY <1>1, <1>3, <1>4

LEMMA RoundTyped == ASSUME ChokingTypes, ChokingRound PROVE ChokingTypes'
<1>1. PICK order \in SetToSeqs(Connected) :
        LET a == FoldLeft(ChokingStep, Beginning, order)
        IN  served' = a.served /\ minDownloaderRate' = a.minRate
  BY DEF ChokingRound, Beginning
<1>2. FoldLeft(ChokingStep, Beginning, order) \in RoundTypes
  BY RoundIs DEF AfterThreads
<1>3. peerState' = peerState
  BY DEF ChokingRound
<1> QED BY <1>1, <1>2, <1>3 DEF ChokingTypes, RoundTypes

LEMMA OptimisticTyped == ASSUME ChokingTypes, AnOptimisticRound PROVE ChokingTypes'
<1>1. PICK chosen \in SUBSET Remote : OptimisticRound(chosen)
  BY DEF AnOptimisticRound
<1>2. served \in [Remote -> ServiceTypes]
  BY DEF ChokingTypes
<1> DEFINE before  == SelectSeq(peerState, LAMBDA r : Eligible(r) /\ ~served[r].amChoking
                                                                    /\ served[r].optimistic)
           candidates == SelectSeq(peerState, LAMBDA r : Eligible(r) /\ served[r].amChoking)
           n == IF Len(candidates) < OptUnchokedPeers THEN Len(candidates) ELSE OptUnchokedPeers
           dropped == ToSet(before) \ ToSet(Kept(before, n))
           v(r) == CASE r \in chosen  -> [Unchoke(served, r, "RECENT")[r] EXCEPT !.optimistic = TRUE]
                     [] r \in dropped -> Choke(served, r, "RECENT")[r]
                     [] OTHER         -> served[r]
<1>3. peerState' = peerState /\ minDownloaderRate' = minDownloaderRate
  BY <1>1 DEF OptimisticRound
<1>4. served' = served \/ served' = [r \in Remote |-> v(r)]
  <2>1. candidates = <<>> \/ candidates # <<>>
    OBVIOUS
  <2> QED BY <1>1 DEF OptimisticRound
<1> HIDE DEF dropped
<1>5. ASSUME NEW r \in Remote PROVE v(r) \in ServiceTypes
  <2>1. Unchoke(served, r, "RECENT")[r] \in ServiceTypes /\ Choke(served, r, "RECENT")[r] \in ServiceTypes
    BY <1>2, ChokeTypes
  <2>2. [Unchoke(served, r, "RECENT")[r] EXCEPT !.optimistic = TRUE] \in ServiceTypes
    BY <2>1 DEF ServiceTypes
  <2>3. served[r] \in ServiceTypes
    BY <1>2
  <2>4. v(r) \in {[Unchoke(served, r, "RECENT")[r] EXCEPT !.optimistic = TRUE],
                  Choke(served, r, "RECENT")[r], served[r]}
    OBVIOUS
  <2> HIDE DEF v
  <2> QED BY <2>1, <2>2, <2>3, <2>4
<1> HIDE DEF v
<1> QED BY <1>2, <1>3, <1>4, <1>5 DEF ChokingTypes

LEMMA NextRoundTyped == ASSUME ChokingTypes, NextRound PROVE ChokingTypes'
<1>1. \A r \in Remote : [served[r] EXCEPT !.last = IF @ = "BETWEEN" THEN "RECENT" ELSE "OLD"] \in ServiceTypes
  <2> TAKE r \in Remote
  <2>1. served[r] \in ServiceTypes
    BY DEF ChokingTypes
  <2> QED BY <2>1 DEF ServiceTypes
<1> QED BY <1>1 DEF NextRound, ChokingTypes

LEMMA RemoteTyped == ASSUME ChokingTypes, NEW r \in Remote, RemoteStep(r) PROVE ChokingTypes'
<1>1. served \in [Remote -> ServiceTypes] /\ peerState \in Seq(Remote)
  BY DEF ChokingTypes
<1>2. CASE Interested(r)
  <2> DEFINE now == [served EXCEPT ![r].peerInterested = TRUE]
  <2>1. now \in [Remote -> ServiceTypes]
    BY <1>1, ServiceSet
  <2>2. WorstChoked(now) \subseteq [Remote -> ServiceTypes]
    <3> HIDE DEF now
    <3> QED BY <2>1, ChokeTypes DEF WorstChoked
  <2>3. served' = now \/ served' \in WorstChoked(now)
    BY <1>2 DEF Interested
  <2>4. UNCHANGED <<peerState, minDownloaderRate>>
    BY <1>2 DEF Interested
  <2> HIDE DEF now
  <2> QED BY <2>1, <2>2, <2>3, <2>4 DEF ChokingTypes
<1>3. CASE NotInterested(r)
  <2>1. /\ served' = [served EXCEPT ![r].peerInterested = FALSE]
        /\ UNCHANGED <<peerState, minDownloaderRate>>
    BY <1>3 DEF NotInterested
  <2> QED BY <1>1, <2>1, ServiceSet DEF ChokingTypes
<1>4. CASE Measured(r)
  <2>1. PICK rate \in 0 .. MaxRate : served' = [served EXCEPT ![r].rate = rate]
    BY <1>4 DEF Measured
  <2>2. rate \in Nat
    BY <2>1, MaxRateAssumption
  <2>3. served' \in [Remote -> ServiceTypes]
    BY <1>1, <2>1, <2>2, ServiceSet
  <2> QED BY <1>4, <2>3 DEF Measured, ChokingTypes
<1>5. CASE ShakesHands(r)
  BY <1>1, <1>5 DEF ShakesHands, ChokingTypes
<1>6. CASE Leaves(r)
  <2>1. /\ served' = [served EXCEPT ![r] = NewService] /\ peerState' = RemoveFirst(peerState, r)
        /\ UNCHANGED minDownloaderRate
    BY <1>6 DEF Leaves
  <2> QED BY <1>1, <2>1, ServiceSet, FirstGone DEF ChokingTypes
<1> QED BY <1>2, <1>3, <1>4, <1>5, <1>6 DEF RemoteStep

LEMMA ChokingTyped == ChokingTypes /\ [ChokingNext]_chokingVars => ChokingTypes'
<1> SUFFICES ASSUME ChokingTypes, [ChokingNext]_chokingVars PROVE ChokingTypes'
  OBVIOUS
<1>1. CASE UNCHANGED chokingVars
  BY <1>1 DEF chokingVars, ChokingTypes
<1>2. CASE StopChokingAlgorithms
  <2>1. NewService \in ServiceTypes
    BY DEF NewService, ServiceTypes
  <2> QED BY <1>2, <2>1 DEF StopChokingAlgorithms, ChokingTypes
<1> QED BY <1>1, <1>2, RoundTyped, OptimisticTyped, NextRoundTyped, RemoteTyped DEF ChokingNext

LEMMA ChokingTypedAtFirst == ChokingInit => ChokingTypes
<1>1. NewService \in ServiceTypes
  BY DEF NewService, ServiceTypes
<1>2. MaxRate + 1 \in Nat
  BY MaxRateAssumption
<1> QED BY <1>1, <1>2 DEF ChokingInit, ChokingTypes

LEMMA RoundServes ==
  ASSUME ChokingTypes, ChokingRound, NEW r \in Connected,
         Eligible(r), served[r].peerInterested, served'[r].amChoking
  PROVE  Cardinality({q \in Connected : ~served'[q].amChoking /\ Rate(q) >= Rate(r)}) >= Downloaders
<1>1. PICK order \in SetToSeqs(Connected) :
        /\ ByRate(order)
        /\ LET a == FoldLeft(ChokingStep, Beginning, order)
           IN  served' = a.served /\ minDownloaderRate' = a.minRate
  BY DEF ChokingRound, Beginning
<1> DEFINE n == Cardinality(Connected)
           G == {q \in Connected : ~served'[q].amChoking /\ Rate(q) >= Rate(r)}
<1>2. Lists(order, n) /\ n \in Nat /\ DOMAIN order = 1 .. n
  BY OrderLists DEF Lists
<1>3. AfterThreads(order, n, FoldLeft(ChokingStep, Beginning, order), n)
  BY RoundIs
<1>4. PICK j \in 1 .. n : order[j] = r
  BY <1>2 DEF Lists
<1> HIDE DEF n
<1>5. Downloaders <= Cardinality(Unchoked(served', Passed(order, j)))
  BY <1>1, <1>3, <1>4 DEF AfterThreads
<1>6. \A i \in 1 .. j : order[i] \in Connected /\ Rate(order[i]) >= Rate(r)
  <2> TAKE i \in 1 .. j
  <2>1. i \in 1 .. n /\ order[i] \in Connected /\ i \in DOMAIN order /\ j \in DOMAIN order
    BY <1>2, <1>4 DEF Lists
  <2>2. CASE i = j
    <3>1. r \in Remote /\ served[r] \in ServiceTypes
      BY ConnectedFinite DEF ChokingTypes
    <3>2. Rate(r) \in Nat
      BY <3>1 DEF Rate, ServiceTypes
    <3> QED BY <1>4, <2>1, <2>2, <3>2
  <2>3. CASE i < j
    BY <1>1, <1>4, <2>1, <2>3 DEF ByRate
  <2> QED BY <1>2, <1>4, <2>2, <2>3
<1>7. Unchoked(served', Passed(order, j)) \in SUBSET G
  BY <1>6 DEF Unchoked, Passed
<1>8. IsFiniteSet(G)
  BY ConnectedFinite, FS_Subset
<1>9. Cardinality(Unchoked(served', Passed(order, j))) <= Cardinality(G)
  BY <1>7, <1>8, FS_Subset
<1>10. /\ Cardinality(G) \in Nat
       /\ Cardinality(Unchoked(served', Passed(order, j))) \in Nat
  <2>1. j \in 0 .. n
    BY <1>2, <1>4
  <2> QED BY <1>2, <1>8, <2>1, FS_CardinalityType, PassedFinite
<1> HIDE DEF G
<1>11. Downloaders <= Cardinality(G)
  BY <1>5, <1>9, <1>10, DownloadersAssumption
<1> QED BY <1>10, <1>11, DownloadersAssumption DEF G

(* A choking round serves the fastest.  An interested peer is left choked only if as many peers as *)
(* there are places are served that are at least as fast, whatever optimistic rounds have          *)
(* unchoked before, whoever was choked or unchoked too recently to be looked at, and however equal *)
(* rates are sorted (ChokingAlgorithm).                                                            *)
THEOREM FastestFirst == ChokingSpec => FastestAreServed
<1>1. ChokingInit => ChokingTypes
  BY ChokingTypedAtFirst
<1>2. ChokingTypes /\ [ChokingNext]_chokingVars => ChokingTypes'
  BY ChokingTyped
<1> DEFINE Serves == ChokingRound =>
              \A r \in Connected : Eligible(r) /\ served[r].peerInterested /\ served'[r].amChoking =>
                Cardinality({q \in Connected : ~served'[q].amChoking /\ Rate(q) >= Rate(r)}) >= Downloaders
<1>3. ChokingTypes /\ [ChokingNext]_chokingVars => [Serves]_chokingVars
  BY RoundServes
<1> QED BY <1>1, <1>2, <1>3, PTL DEF ChokingSpec, FastestAreServed
=============================================================================
