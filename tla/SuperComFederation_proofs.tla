--------------------- MODULE SuperComFederation_proofs ---------------------
(***************************************************************************)
(* Proofs about SuperComFederation: a job the USO has in its table is in   *)
(* one place, no assertion stops a simulation with slow timers, and a job  *)
(* is not sent to wait while some data centre could start it.  Proofs      *)
(* about SuperComBackfillSearch: the loops of searchServers and of         *)
(* best-fit backfill compute what the models of the data centre take them  *)
(* to compute.                                                             *)
(***************************************************************************)
EXTENDS SuperComFederation, SuperComBackfillSearch, FiniteSetTheorems, SequenceTheorems, WellFoundedInduction, TLAPS

FedJob == [client : FedClient, nodes : 1 .. MaxNodes]
FedEntry == [client : FedClient, nodes : 1 .. MaxNodes, rms : RMS]
UsoMsg == [kind : {"job", "finish"}, client : FedClient, rms : RMS]

ClientTypes ==
  /\ request \in [FedClient -> Connection] /\ report \in [FedClient -> Connection]
  /\ socket \in [FedClient -> {"listen", "request", "report"}]
  /\ requestSent \in [FedClient -> BOOLEAN] /\ connectMsg \in [FedClient -> BOOLEAN]
  /\ asked \in [FedClient -> Job] /\ sentRequests \in [FedClient -> Nat]

RmsTypes ==
  /\ queue \in [RMS -> Seq(FedJob)] /\ requested \in [RMS -> Seq(FedJob)]
  /\ running \in [RMS -> SUBSET FedJob] /\ toUso \in [RMS -> Seq(FedClient)]
  /\ \A d \in RMS : IsFiniteSet(running[d])

UsoTypes ==
  cliList \in Seq(FedEntry) /\ selfMsgs \in Seq(UsoMsg) /\ rmsConnected \subseteq RMS

TypeInv == ClientTypes /\ RmsTypes /\ UsoTypes

\* The table knows a client once, and only while its job is placed or reported.
Table == ToSet(cliList)
Known(c) == \E e \in Table : e.client = c

Single(list) == \A k, l \in DOMAIN list : list[k].client = list[l].client => k = l
KnownOnce == Single(cliList)

Phases == \A c \in FedClient :
  /\ connectMsg[c] => request[c] \notin {"syn", "job"}
  /\ connectMsg[c] \/ request[c] \in {"syn", "job"} =>
       ~Known(c) /\ report[c] \notin {"uso", "syn", "finish"}
  /\ Known(c) => report[c] \notin {"syn", "finish"}
  /\ report[c] = "uso" => Known(c)

\* Where the table has the job of c, as a number of jobs at d.
Due(d, c) ==
  IF report[c] # "uso" /\ \E e \in Table : e.client = c /\ e.rms = d
  THEN 1 ELSE 0

Counted == \A d \in RMS, c \in FedClient : At(d, c) = Due(d, c)

AsAsked ==
  /\ \A e \in Table : e.nodes = asked[e.client].nodes
  /\ \A d \in RMS : \A t \in Jobs(d) : t.nodes = asked[t.client].nodes

\* A data centre does not run more jobs than its servers hold.
WithinServers == \A d \in RMS : Occupied(running[d]) <= RmsServers

Followed == KnownOnce /\ Phases /\ Counted /\ AsAsked /\ WithinServers

\* After the USO's error nothing happens any more, but the job it was for is lost.
Inv == TypeInv /\ (~usoError => Followed)

-----------------------------------------------------------------------------
(* Numbers *)

Below == {p \in Nat \X Nat : p[1] < p[2]}

LEMMA BelowWellFounded == IsWellFoundedOn(Below, Nat)
BY NatLessThanWellFounded DEF OpToRel, Below

LEMMA LeastNumber ==
  ASSUME NEW T, T \subseteq Nat, T # {}
  PROVE  Min(T) \in T /\ \A y \in T : Min(T) <= y
<1>1. PICK x \in T : \A y \in T : ~(<<y, x>> \in Below)
  BY BelowWellFounded, WFMin
<1>2. ASSUME NEW y \in T PROVE x <= y
  <2>1. x \in Nat /\ y \in Nat /\ ~(<<y, x>> \in Below)
    BY <1>1
  <2>2. y < x => <<y, x>> \in Below
    BY <2>1 DEF Below
  <2> QED BY <2>1, <2>2
<1> QED BY <1>2 DEF Min

LEMMA LargestNumber ==
  ASSUME NEW n \in Nat, NEW T, T \subseteq 0 .. n, T # {}
  PROVE  Max(T) \in T
<1> DEFINE U == {k \in 0 .. n : n - k \in T}
<1>1. U \subseteq Nat /\ U # {}
  <2>1. PICK y \in T : y \in 0 .. n
    OBVIOUS
  <2>2. n - y \in 0 .. n /\ n - (n - y) = y
    BY <2>1
  <2>3. n - (n - y) \in T
    BY <2>1, <2>2
  <2>4. n - y \in U
    BY <2>2, <2>3
  <2>5. U \subseteq Nat
    OBVIOUS
  <2> QED BY <2>4, <2>5
<1> HIDE DEF U
<1>2. PICK k \in U : \A l \in U : k <= l
  BY <1>1, LeastNumber
<1>3. k \in 0 .. n /\ n - k \in T
  BY <1>2 DEF U
<1>4. ASSUME NEW y \in T PROVE n - k >= y
  <2>1. y \in 0 .. n /\ n - y \in 0 .. n /\ n - (n - y) = y
    OBVIOUS
  <2>2. n - y \in U
    BY <2>1 DEF U
  <2>3. k <= n - y
    BY <1>2, <2>2
  <2> QED BY <1>3, <2>1, <2>3
<1> QED BY <1>3, <1>4 DEF Max

-----------------------------------------------------------------------------
(* Members of a sequence that belong to a set, counted *)

Spots(s, M) == {k \in DOMAIN s : s[k] \in M}
Count(s, M) == Cardinality(Spots(s, M))

LEMMA CountNat ==
  ASSUME NEW S, NEW s \in Seq(S), NEW M
  PROVE  IsFiniteSet(Spots(s, M)) /\ Count(s, M) \in Nat
<1>1. 1 \in Int /\ Len(s) \in Int
  OBVIOUS
<1>2. IsFiniteSet(1 .. Len(s))
  BY <1>1, FS_Interval, Zenon
<1>3. Spots(s, M) \in SUBSET (1 .. Len(s))
  BY DEF Spots
<1>4. IsFiniteSet(Spots(s, M))
  BY <1>2, <1>3, FS_Subset
<1> QED BY <1>4, FS_CardinalityType DEF Count

LEMMA CountConcat ==
  ASSUME NEW S, NEW s \in Seq(S), NEW t \in Seq(S), NEW M
  PROVE  Count(s \o t, M) = Count(s, M) + Count(t, M)
<1> DEFINE A == Spots(s, M)
           B == Spots(t, M)
           C == {k + Len(s) : k \in B}
           f == [k \in B |-> k + Len(s)]
<1>1. /\ s \o t \in Seq(S) /\ Len(s) \in Nat /\ Len(t) \in Nat /\ Len(s \o t) = Len(s) + Len(t)
      /\ \A k \in 1 .. Len(s) : (s \o t)[k] = s[k]
      /\ \A k \in 1 .. Len(t) : (s \o t)[k + Len(s)] = t[k]
  OBVIOUS
<1>2. IsFiniteSet(A) /\ IsFiniteSet(B) /\ Cardinality(A) \in Nat /\ Cardinality(B) \in Nat
  BY CountNat DEF Count
<1>3. B \subseteq Nat
  BY DEF Spots
<1>4. f \in Bijection(B, C)
  <2>1. f \in [B -> C]
    OBVIOUS
  <2>2. \A k, l \in B : f[k] = f[l] => k = l
    BY <1>1, <1>3
  <2>3. \A y \in C : \E k \in B : f[k] = y
    OBVIOUS
  <2> HIDE DEF f, A, B, C
  <2>4. f \in Injection(B, C)
    BY <2>1, <2>2 DEF Injection, IsInjective
  <2>5. f \in Surjection(B, C)
    BY <2>1, <2>3 DEF Surjection
  <2> QED BY <2>4, <2>5 DEF Bijection
<1>5. Spots(s \o t, M) = A \cup C
  <2>1. ASSUME NEW k \in 1 .. Len(s) + Len(t) PROVE (s \o t)[k] \in M <=> k \in A \/ k \in C
    <3>1. CASE k <= Len(s)
      <4>1. k \in A <=> (s \o t)[k] \in M
        BY <1>1, <3>1 DEF Spots
      <4>2. k \notin C
        BY <1>1, <3>1 DEF Spots
      <4> QED BY <4>1, <4>2
    <3>2. CASE k > Len(s)
      <4>1. k - Len(s) \in 1 .. Len(t) /\ (k - Len(s)) + Len(s) = k
        BY <1>1, <3>2
      <4>2. (s \o t)[k] = t[k - Len(s)]
        BY <1>1, <4>1
      <4>3. k \notin A
        BY <1>1, <3>2 DEF Spots
      <4>4. t[k - Len(s)] \in M => k \in C
        BY <4>1 DEF Spots
      <4>5. k \in C => t[k - Len(s)] \in M
        <5> SUFFICES ASSUME NEW l \in B, k = l + Len(s) PROVE t[k - Len(s)] \in M
          OBVIOUS
        <5>1. l \in Nat /\ k - Len(s) = l /\ t[l] \in M
          BY <1>1, <1>3 DEF Spots
        <5> QED BY <5>1
      <4> QED BY <4>2, <4>3, <4>4, <4>5
    <3> QED BY <1>1, <3>1, <3>2
  <2>2. A \cup C \subseteq 1 .. Len(s) + Len(t)
    BY <1>1 DEF Spots
  <2>3. DOMAIN (s \o t) = 1 .. Len(s) + Len(t)
    BY <1>1
  <2> HIDE DEF A, C
  <2> QED BY <2>1, <2>2, <2>3 DEF Spots
<1>6. A \cap C = {}
  <2> SUFFICES ASSUME NEW k \in A, k \in C PROVE FALSE
    OBVIOUS
  <2>1. k \in 1 .. Len(s)
    BY DEF Spots
  <2>2. PICK l \in B : k = l + Len(s)
    OBVIOUS
  <2>3. l \in 1 .. Len(t)
    BY DEF Spots
  <2> QED BY <1>1, <2>1, <2>2, <2>3
<1> HIDE DEF A, B, C, f
<1>7. IsFiniteSet(C) /\ Cardinality(C) = Cardinality(B)
  <2>1. ExistsBijection(B, C)
    BY <1>4 DEF ExistsBijection
  <2> QED BY <1>2, <2>1, FS_Bijection
<1>8. Cardinality(A \cup C) = Cardinality(A) + Cardinality(C) - Cardinality(A \cap C)
  BY <1>2, <1>7, FS_Union
<1>9. Cardinality(A \cup C) = Cardinality(A) + Cardinality(B)
  <2>1. Cardinality(A \cap C) = 0
    BY <1>6, FS_EmptySet
  <2> QED BY <1>2, <1>7, <1>8, <2>1
<1> QED BY <1>5, <1>9 DEF A, B, Count

LEMMA CountOne ==
  ASSUME NEW x, NEW M
  PROVE  Count(<<x>>, M) = IF x \in M THEN 1 ELSE 0
<1>1. Spots(<<x>>, M) = IF x \in M THEN {1} ELSE {}
  BY DEF Spots
<1>2. Cardinality({1}) = 1 /\ Cardinality({}) = 0
  BY FS_Singleton, FS_EmptySet
<1> QED BY <1>1, <1>2 DEF Count

LEMMA CountAppend ==
  ASSUME NEW S, NEW s \in Seq(S), NEW x \in S, NEW M
  PROVE  Count(Append(s, x), M) = Count(s, M) + (IF x \in M THEN 1 ELSE 0)
<1>1. Append(s, x) = s \o <<x>> /\ <<x>> \in Seq(S)
  OBVIOUS
<1>2. Count(s \o <<x>>, M) = Count(s, M) + Count(<<x>>, M)
  BY <1>1, CountConcat
<1> QED BY <1>1, <1>2, CountOne

LEMMA CountHead ==
  ASSUME NEW S, NEW s \in Seq(S), s # <<>>, NEW M
  PROVE  /\ Head(s) \in S /\ Tail(s) \in Seq(S)
         /\ Count(s, M) = Count(Tail(s), M) + (IF Head(s) \in M THEN 1 ELSE 0)
<1>1. Head(s) \in S /\ Tail(s) \in Seq(S) /\ Len(Tail(s)) = Len(s) - 1 /\ Len(s) \in Nat /\ Len(s) # 0
      /\ Head(s) = s[1] /\ \A k \in 1 .. Len(s) - 1 : Tail(s)[k] = s[k + 1]
  OBVIOUS
<1>2. <<Head(s)>> \in Seq(S) /\ Len(<<Head(s)>>) = 1
  BY <1>1
<1>3. s = <<Head(s)>> \o Tail(s)
  <2> DEFINE w == <<Head(s)>> \o Tail(s)
  <2>1. w \in Seq(S) /\ Len(w) = Len(s)
    BY <1>1, <1>2
  <2>2. \A k \in 1 .. Len(s) : w[k] = s[k]
    BY <1>1, <1>2
  <2> HIDE DEF w
  <2>3. s = w
    BY <2>1, <2>2, SeqEqual
  <2> QED BY <2>3 DEF w
<1>4. Count(<<Head(s)>> \o Tail(s), M) = Count(<<Head(s)>>, M) + Count(Tail(s), M)
  BY <1>1, <1>2, CountConcat
<1>5. Count(<<Head(s)>>, M) = IF Head(s) \in M THEN 1 ELSE 0
  BY CountOne
<1>6. Count(Tail(s), M) \in Nat
  BY <1>1, CountNat
<1>7. Count(s, M) = Count(<<Head(s)>>, M) + Count(Tail(s), M)
  BY <1>3, <1>4, Zenon
<1>8. Count(s, M) = Count(Tail(s), M) + (IF Head(s) \in M THEN 1 ELSE 0)
  BY <1>5, <1>6, <1>7
<1> QED BY <1>1, <1>8

LEMMA CountSplit ==
  ASSUME NEW S, NEW s \in Seq(S), NEW n \in 0 .. Len(s), NEW M
  PROVE  /\ SubSeq(s, 1, n) \in Seq(S) /\ SubSeq(s, n + 1, Len(s)) \in Seq(S)
         /\ Count(s, M) = Count(SubSeq(s, 1, n), M) + Count(SubSeq(s, n + 1, Len(s)), M)
<1> DEFINE a == SubSeq(s, 1, n)
           b == SubSeq(s, n + 1, Len(s))
           w == a \o b
<1>1. Len(s) \in Nat /\ n \in Nat /\ n <= Len(s)
  OBVIOUS
<1>2. a \in Seq(S) /\ Len(a) = n /\ \A k \in 1 .. n : a[k] = s[k]
  BY <1>1
<1>3. b \in Seq(S) /\ Len(b) = Len(s) - n /\ \A k \in 1 .. Len(s) - n : b[k] = s[k + n]
  BY <1>1
<1>4. s = w
  <2> HIDE DEF a, b
  <2>1. w \in Seq(S) /\ Len(w) = Len(s)
    BY <1>1, <1>2, <1>3
  <2>2. ASSUME NEW k \in 1 .. Len(s) PROVE w[k] = s[k]
    <3>1. CASE k <= n
      <4>1. k \in 1 .. n /\ k \in 1 .. Len(a)
        BY <1>1, <1>2, <3>1
      <4>2. w[k] = a[k]
        BY <1>2, <1>3, <4>1
      <4> QED BY <1>2, <4>1, <4>2
    <3>2. CASE k > n
      <4>1. k - n \in 1 .. Len(s) - n /\ (k - n) + n = k
        BY <1>1, <3>2
      <4>2. w[(k - n) + Len(a)] = b[k - n]
        BY <1>2, <1>3, <4>1
      <4>3. w[k] = b[k - n]
        <5>1. Len(a) = n /\ (k - n) + n = k
          BY <1>2, <4>1
        <5> HIDE DEF w
        <5> QED BY <4>2, <5>1
      <4>4. b[k - n] = s[k]
        BY <1>3, <4>1
      <4> QED BY <4>3, <4>4
    <3>3. k <= n \/ k > n
      BY <1>1
    <3> QED BY <3>1, <3>2, <3>3, Zenon
  <2> HIDE DEF w
  <2> QED BY <2>1, <2>2, SeqEqual
<1>5. Count(w, M) = Count(a, M) + Count(b, M)
  <2> HIDE DEF a, b
  <2> QED BY <1>2, <1>3, CountConcat
<1> QED BY <1>2, <1>3, <1>4, <1>5

\* A count of zero, and a count of one.
LEMMA CountMeans ==
  ASSUME NEW S, NEW s \in Seq(S), NEW M
  PROVE  /\ Count(s, M) = 0 <=> \A k \in DOMAIN s : s[k] \notin M
         /\ Count(s, M) = 1 => \E x \in M : \A k \in DOMAIN s : s[k] \in M => s[k] = x
         /\ Count(s, M) = 1 => \E k \in DOMAIN s : s[k] \in M
<1>1. IsFiniteSet(Spots(s, M))
  BY CountNat
<1>2. Count(s, M) = 0 <=> Spots(s, M) = {}
  BY <1>1, FS_EmptySet DEF Count
<1>3. ASSUME Count(s, M) = 1 PROVE \E k : Spots(s, M) = {k}
  BY <1>1, <1>3, FS_Singleton DEF Count
<1>4. ASSUME Count(s, M) = 1 PROVE \E k \in DOMAIN s : s[k] \in M /\ \A l \in DOMAIN s : s[l] \in M => l = k
  <2>1. PICK k : Spots(s, M) = {k}
    BY <1>3, <1>4
  <2> QED BY <2>1 DEF Spots
<1> QED BY <1>2, <1>4 DEF Spots

-----------------------------------------------------------------------------
(* The members of a sequence *)

LEMMA MembersOfSeq ==
  ASSUME NEW S, NEW s \in Seq(S)
  PROVE  /\ ToSet(s) \subseteq S /\ IsFiniteSet(ToSet(s))
         /\ \A x \in S : ToSet(Append(s, x)) = ToSet(s) \cup {x}
         /\ s # <<>> => Head(s) \in ToSet(s) /\ ToSet(Tail(s)) \subseteq ToSet(s)
<1>1. Len(s) \in Nat /\ DOMAIN s = 1 .. Len(s) /\ \A k \in 1 .. Len(s) : s[k] \in S
  OBVIOUS
<1>2. IsFiniteSet(ToSet(s))
  <2>1. 1 \in Int /\ Len(s) \in Int
    BY <1>1
  <2>2. IsFiniteSet(DOMAIN s)
    BY <1>1, <2>1, FS_Interval, Zenon
  <2> DEFINE f == [k \in DOMAIN s |-> s[k]]
  <2>3. f \in Surjection(DOMAIN s, ToSet(s))
    BY DEF Surjection, ToSet
  <2> HIDE DEF f
  <2> QED BY <2>2, <2>3, FS_Surjection
<1>3. ASSUME NEW x \in S PROVE ToSet(Append(s, x)) = ToSet(s) \cup {x}
  <2>1. /\ DOMAIN Append(s, x) = 1 .. Len(s) + 1 /\ Append(s, x)[Len(s) + 1] = x
        /\ \A k \in 1 .. Len(s) : Append(s, x)[k] = s[k]
    OBVIOUS
  <2>2. 1 .. Len(s) + 1 = (1 .. Len(s)) \cup {Len(s) + 1}
    BY <1>1
  <2> QED BY <1>1, <2>1, <2>2 DEF ToSet
<1>4. ASSUME s # <<>> PROVE Head(s) \in ToSet(s) /\ ToSet(Tail(s)) \subseteq ToSet(s)
  <2>1. Len(s) # 0 /\ Head(s) = s[1] /\ DOMAIN Tail(s) = 1 .. Len(s) - 1
    BY <1>4
  <2>2. \A k \in 1 .. Len(s) - 1 : Tail(s)[k] = s[k + 1] /\ k + 1 \in 1 .. Len(s)
    BY <1>1, <1>4
  <2>3. 1 \in 1 .. Len(s)
    BY <1>1, <2>1
  <2> QED BY <1>1, <2>1, <2>2, <2>3 DEF ToSet
<1>5. ToSet(s) \subseteq S
  BY <1>1 DEF ToSet
<1> QED BY <1>2, <1>3, <1>4, <1>5

LEMMA MembersOfPart ==
  ASSUME NEW S, NEW s \in Seq(S), NEW n \in 0 .. Len(s)
  PROVE  /\ ToSet(SubSeq(s, 1, n)) \subseteq ToSet(s)
         /\ ToSet(SubSeq(s, n + 1, Len(s))) \subseteq ToSet(s)
<1>1. Len(s) \in Nat /\ n \in Nat /\ n <= Len(s) /\ DOMAIN s = 1 .. Len(s)
  OBVIOUS
<1>2. DOMAIN SubSeq(s, 1, n) = 1 .. n /\ \A k \in 1 .. n : SubSeq(s, 1, n)[k] = s[k] /\ k \in DOMAIN s
  BY <1>1
<1>3. /\ DOMAIN SubSeq(s, n + 1, Len(s)) = 1 .. Len(s) - n
      /\ \A k \in 1 .. Len(s) - n : SubSeq(s, n + 1, Len(s))[k] = s[k + n] /\ k + n \in DOMAIN s
  BY <1>1
<1> QED BY <1>2, <1>3 DEF ToSet

-----------------------------------------------------------------------------
(* The table *)

LEMMA EntryFound ==
  ASSUME NEW list \in Seq(FedEntry), NEW c, NEW l \in 1 .. Len(list), list[l].client = c
  PROVE  Entry(list, c) \in 1 .. Len(list) /\ list[Entry(list, c)].client = c
<1> DEFINE T == {p \in 1 .. Len(list) : list[p].client = c}
<1>1. T \subseteq Nat /\ l \in T
  OBVIOUS
<1> HIDE DEF T
<1>2. Min(T) \in T
  BY <1>1, LeastNumber
<1> QED BY <1>2 DEF T, Entry

LEMMA LookupFinds ==
  ASSUME UsoTypes, NEW c, Known(c)
  PROVE  Lookup(c) \in Table /\ Lookup(c).client = c
<1>1. PICK l \in DOMAIN cliList : cliList[l].client = c
  BY DEF Known, Table, ToSet
<1>2. cliList \in Seq(FedEntry) /\ DOMAIN cliList = 1 .. Len(cliList)
  BY DEF UsoTypes
<1>3. Entry(cliList, c) \in DOMAIN cliList /\ cliList[Entry(cliList, c)].client = c
  BY <1>1, <1>2, EntryFound
<1> QED BY <1>3 DEF Lookup, Table, ToSet

LEMMA AddedAtEnd ==
  ASSUME UsoTypes, ClientTypes, NEW c \in FedClient, ~Known(c), NEW d \in RMS
  PROVE  Added(c, d) = Append(cliList, [client |-> c, nodes |-> asked[c].nodes, rms |-> d])
<1> DEFINE n == Len(cliList)
           new == [client |-> c, nodes |-> asked[c].nodes, rms |-> -1]
           list == Append(cliList, new)
           item == [client |-> c, nodes |-> asked[c].nodes, rms |-> d]
           T == {p \in 1 .. Len(list) : list[p].client = c}
<1>1. n \in Nat /\ DOMAIN cliList = 1 .. n /\ cliList \in Seq(FedEntry)
  BY DEF UsoTypes
<1>2. \A k \in 1 .. n : cliList[k].client # c
  BY <1>1 DEF Known, Table, ToSet
<1>3. /\ Len(list) = n + 1 /\ DOMAIN list = 1 .. n + 1 /\ list[n + 1] = new
      /\ \A k \in 1 .. n : list[k] = cliList[k]
  <2> HIDE DEF new
  <2> QED BY <1>1
<1>4. T = {n + 1}
  BY <1>1, <1>2, <1>3
<1>5. Entry(list, c) = n + 1
  <2>1. {n + 1} \subseteq Nat /\ {n + 1} # {}
    BY <1>1
  <2>2. Min({n + 1}) \in {n + 1}
    BY <2>1, LeastNumber, Zenon
  <2>3. Min({n + 1}) = n + 1
    BY <2>2
  <2> QED BY <1>4, <2>3 DEF Entry
<1>6. [list EXCEPT ![n + 1].rms = d] = Append(cliList, item)
  <2> DEFINE u == [list EXCEPT ![n + 1].rms = d]
             v == Append(cliList, item)
  <2>1. u = [k \in 1 .. n + 1 |-> IF k = n + 1 THEN [list[n + 1] EXCEPT !.rms = d] ELSE list[k]]
    <3> HIDE DEF list
    <3> QED BY <1>1, <1>3
  <2>2. [list[n + 1] EXCEPT !.rms = d] = item
    BY <1>3
  <2>3. v = [k \in 1 .. n + 1 |-> IF k = n + 1 THEN item ELSE cliList[k]]
    <3> HIDE DEF item
    <3>1. /\ DOMAIN v = 1 .. n + 1 /\ v[n + 1] = item
          /\ \A k \in 1 .. n : v[k] = cliList[k]
      BY <1>1
    <3>2. v = [k \in DOMAIN v |-> v[k]]
      <4>1. asked[c] \in [nodes : 1 .. MaxNodes, energyAware : BOOLEAN]
        BY DEF ClientTypes, Job
      <4>2. asked[c].nodes \in 1 .. MaxNodes
        BY <4>1
      <4>3. item \in FedEntry
        BY <4>2 DEF item, FedEntry
      <4>4. v \in Seq(FedEntry)
        BY <1>1, <4>3
      <4> HIDE DEF v
      <4> QED BY <4>4
    <3>3. \A k \in 1 .. n + 1 : k # n + 1 => k \in 1 .. n
      BY <1>1
    <3> HIDE DEF v, n
    <3> QED BY <3>1, <3>2, <3>3
  <2>4. \A k \in 1 .. n + 1 : k # n + 1 => list[k] = cliList[k]
    BY <1>1, <1>3
  <2> HIDE DEF list, item, u, v, new
  <2> QED BY <2>1, <2>2, <2>3, <2>4 DEF u, v
<1> QED BY <1>5, <1>6 DEF Added

LEMMA AddedToTable ==
  ASSUME UsoTypes, ClientTypes, KnownOnce, NEW c \in FedClient, ~Known(c), NEW d \in RMS
  PROVE  LET e == [client |-> c, nodes |-> asked[c].nodes, rms |-> d]
         IN  /\ Added(c, d) \in Seq(FedEntry) /\ Single(Added(c, d))
             /\ ToSet(Added(c, d)) = Table \cup {e}
<1> DEFINE e == [client |-> c, nodes |-> asked[c].nodes, rms |-> d]
           n == Len(cliList)
           v == Append(cliList, e)
<1>1. e \in FedEntry /\ e.client = c
  <2>1. asked[c] \in [nodes : 1 .. MaxNodes, energyAware : BOOLEAN]
    BY DEF ClientTypes, Job
  <2>2. asked[c].nodes \in 1 .. MaxNodes
    BY <2>1
  <2> QED BY <2>2 DEF FedEntry
<1>2. cliList \in Seq(FedEntry) /\ n \in Nat /\ DOMAIN cliList = 1 .. n
  BY DEF UsoTypes
<1>3. Added(c, d) = v
  BY AddedAtEnd
<1>4. \A k \in 1 .. n : cliList[k].client # c
  BY <1>2 DEF Known, Table, ToSet
<1> HIDE DEF e
<1>5. /\ v \in Seq(FedEntry) /\ DOMAIN v = 1 .. n + 1 /\ v[n + 1] = e
      /\ \A k \in 1 .. n : v[k] = cliList[k]
  BY <1>1, <1>2
<1>6. ToSet(v) = Table \cup {e}
  BY <1>1, <1>2, MembersOfSeq DEF Table
<1>7. Single(v)
  <2> SUFFICES ASSUME NEW k \in 1 .. n + 1, NEW l \in 1 .. n + 1, v[k].client = v[l].client
               PROVE  k = l
    BY <1>5 DEF Single
  <2> HIDE DEF v
  <2>1. \A x \in 1 .. n + 1 : x \in 1 .. n \/ x = n + 1
    BY <1>2
  <2>2. CASE k \in 1 .. n /\ l \in 1 .. n
    BY <1>2, <1>5, <2>2 DEF KnownOnce, Single
  <2>3. CASE k \in 1 .. n /\ l = n + 1
    BY <1>1, <1>4, <1>5, <2>3
  <2>4. CASE k = n + 1 /\ l \in 1 .. n
    BY <1>1, <1>4, <1>5, <2>4
  <2> QED BY <2>1, <2>2, <2>3, <2>4
<1> QED BY <1>3, <1>5, <1>6, <1>7 DEF e

LEMMA RemovedAt ==
  ASSUME NEW S, NEW q \in Seq(S), NEW p \in 1 .. Len(q)
  PROVE  /\ RemoveAt(q, p) \in Seq(S) /\ Len(RemoveAt(q, p)) = Len(q) - 1
         /\ \A k \in 1 .. Len(q) - 1 : RemoveAt(q, p)[k] = IF k < p THEN q[k] ELSE q[k + 1]
<1> DEFINE a == SubSeq(q, 1, p - 1)
           b == SubSeq(q, p + 1, Len(q))
<1>1. Len(q) \in Nat /\ p \in Nat /\ 1 <= p /\ p <= Len(q)
  OBVIOUS
<1>2. a \in Seq(S) /\ Len(a) = p - 1 /\ \A k \in 1 .. p - 1 : a[k] = q[k]
  BY <1>1
<1>3. b \in Seq(S) /\ Len(b) = Len(q) - p /\ \A k \in 1 .. Len(q) - p : b[k] = q[k + p]
  BY <1>1
<1> HIDE DEF a, b
<1>4. a \o b \in Seq(S) /\ Len(a \o b) = Len(q) - 1
  <2>0. \A x, y \in Seq(S) : x \o y \in Seq(S) /\ Len(x \o y) = Len(x) + Len(y)
    OBVIOUS
  <2>1. a \o b \in Seq(S) /\ Len(a \o b) = Len(a) + Len(b)
    BY <1>2, <1>3, <2>0, Zenon
  <2>2. Len(a) = p - 1 /\ Len(b) = Len(q) - p
    BY <1>2, <1>3
  <2> QED BY <1>1, <2>1, <2>2
<1>5. ASSUME NEW k \in 1 .. Len(q) - 1 PROVE (a \o b)[k] = IF k < p THEN q[k] ELSE q[k + 1]
  <2>1. CASE k < p
    <3>1. k \in 1 .. p - 1 /\ k \in 1 .. Len(a)
      BY <1>1, <1>2, <2>1
    <3>2. (a \o b)[k] = a[k]
      BY <1>2, <1>3, <3>1
    <3> QED BY <1>2, <2>1, <3>1, <3>2
  <2>2. CASE ~(k < p)
    <3>1. k - (p - 1) \in 1 .. Len(q) - p /\ k - (p - 1) + p = k + 1 /\ (k - (p - 1)) + (p - 1) = k
      BY <1>1, <2>2
    <3>2. (a \o b)[(k - (p - 1)) + Len(a)] = b[k - (p - 1)]
      BY <1>2, <1>3, <3>1
    <3>3. (a \o b)[k] = b[k - (p - 1)]
      BY <1>2, <3>1, <3>2
    <3>4. b[k - (p - 1)] = q[k + 1]
      BY <1>3, <3>1
    <3> QED BY <2>2, <3>3, <3>4
  <2> QED BY <2>1, <2>2
<1> QED BY <1>4, <1>5 DEF a, b, RemoveAt

LEMMA DeletedFromTable ==
  ASSUME UsoTypes, KnownOnce, NEW c, Known(c)
  PROVE  LET list == Deleted(cliList, c)
         IN  /\ list \in Seq(FedEntry) /\ Single(list)
             /\ ToSet(list) = {e \in Table : e.client # c}
<1> DEFINE n == Len(cliList)
           z == Entry(cliList, c)
           p == Deleted(cliList, c)
<1>1. cliList \in Seq(FedEntry) /\ n \in Nat /\ DOMAIN cliList = 1 .. n
  BY DEF UsoTypes
<1>2. PICK l \in DOMAIN cliList : cliList[l].client = c
  BY DEF Known, Table, ToSet
<1>3. z \in 1 .. n /\ cliList[z].client = c
  BY <1>1, <1>2, EntryFound
<1>4. \A k \in 1 .. n : cliList[k].client = c => k = z
  BY <1>1, <1>3 DEF KnownOnce, Single
<1> HIDE DEF z
<1>5. /\ p \in Seq(FedEntry) /\ DOMAIN p = 1 .. n - 1
      /\ \A k \in 1 .. n - 1 : p[k] = IF k < z THEN cliList[k] ELSE cliList[k + 1]
  <2>1. p = RemoveAt(cliList, z)
    BY DEF Deleted, z
  <2>2. /\ RemoveAt(cliList, z) \in Seq(FedEntry) /\ Len(RemoveAt(cliList, z)) = n - 1
        /\ \A k \in 1 .. n - 1 : RemoveAt(cliList, z)[k] = IF k < z THEN cliList[k] ELSE cliList[k + 1]
    BY <1>1, <1>3, RemovedAt
  <2> HIDE DEF p
  <2>3. Len(p) = n - 1 /\ p \in Seq(FedEntry)
    BY <2>1, <2>2
  <2>4. DOMAIN p = 1 .. n - 1
    BY <2>3
  <2> QED BY <2>1, <2>2, <2>3, <2>4
<1> HIDE DEF p
\* Where the element at k of the shorter list was.
<1> DEFINE old(k) == IF k < z THEN k ELSE k + 1
<1>6. \A k \in 1 .. n - 1 : old(k) \in 1 .. n /\ old(k) # z /\ p[k] = cliList[old(k)]
  BY <1>1, <1>3, <1>5
<1>7. \A k, m \in 1 .. n - 1 : old(k) = old(m) => k = m
  BY <1>1, <1>3
<1>8. \A x \in 1 .. n : x # z => \E k \in 1 .. n - 1 : old(k) = x
  <2> SUFFICES ASSUME NEW x \in 1 .. n, x # z PROVE \E k \in 1 .. n - 1 : old(k) = x
    OBVIOUS
  <2>1. CASE x < z
    <3>1. x \in 1 .. n - 1 /\ old(x) = x
      BY <1>1, <1>3, <2>1
    <3> QED BY <3>1
  <2>2. CASE x > z
    <3>1. x - 1 \in 1 .. n - 1 /\ old(x - 1) = x
      BY <1>1, <1>3, <2>2
    <3> QED BY <3>1
  <2> QED BY <1>1, <1>3, <2>1, <2>2
<1> HIDE DEF old
<1>9. Single(p)
  BY <1>1, <1>5, <1>6, <1>7 DEF KnownOnce, Single
<1>10. ToSet(p) = {e \in Table : e.client # c}
  <2>1. ASSUME NEW k \in 1 .. n - 1 PROVE p[k] \in Table /\ p[k].client # c
    BY <1>1, <1>4, <1>6 DEF Table, ToSet
  <2>2. ASSUME NEW x \in 1 .. n, cliList[x].client # c PROVE cliList[x] \in ToSet(p)
    <3>1. x # z
      BY <1>3, <2>2
    <3>2. PICK k \in 1 .. n - 1 : old(k) = x
      BY <1>8, <3>1
    <3> QED BY <1>5, <1>6, <3>2 DEF ToSet
  <2> QED BY <1>1, <1>5, <2>1, <2>2 DEF Table, ToSet
<1> QED BY <1>5, <1>9, <1>10 DEF p

-----------------------------------------------------------------------------
(* The places of a job *)

JobsOf(c) == {t \in FedJob : t.client = c}
Here(jobs, c) == {t \in jobs : t.client = c}

Ordered(d, c) == Count(selfMsgs, {InternalMsg("job", c, d)})
Sent(d, c) == Count(requested[d], JobsOf(c))
Waits(d, c) == Count(queue[d], JobsOf(c))
Runs(d, c) == Cardinality(Here(running[d], c))
Ended(d, c) == Count(toUso[d], {c})
Told(d, c) == Count(selfMsgs, {InternalMsg("finish", c, d)})

PlacesAdd == \A d \in RMS, c \in FedClient :
  /\ At(d, c) = Ordered(d, c) + Sent(d, c) + Waits(d, c) + Runs(d, c) + Ended(d, c) + Told(d, c)
  /\ Ordered(d, c) \in Nat /\ Sent(d, c) \in Nat /\ Waits(d, c) \in Nat
  /\ Runs(d, c) \in Nat /\ Ended(d, c) \in Nat /\ Told(d, c) \in Nat

LEMMA MessageIs ==
  ASSUME NEW m \in UsoMsg, NEW k, NEW c, NEW d
  PROVE  m = InternalMsg(k, c, d) <=> m.client = c /\ m.rms = d /\ m.kind = k
<1>1. m = [kind |-> m.kind, client |-> m.client, rms |-> m.rms]
  BY DEF UsoMsg
<1> QED BY <1>1 DEF InternalMsg

LEMMA Places == TypeInv => PlacesAdd
<1> SUFFICES ASSUME TypeInv, NEW d \in RMS, NEW c \in FedClient
             PROVE  /\ At(d, c) = Ordered(d, c) + Sent(d, c) + Waits(d, c)
                                    + Runs(d, c) + Ended(d, c) + Told(d, c)
                    /\ Ordered(d, c) \in Nat /\ Sent(d, c) \in Nat /\ Waits(d, c) \in Nat
                    /\ Runs(d, c) \in Nat /\ Ended(d, c) \in Nat /\ Told(d, c) \in Nat
  BY DEF PlacesAdd
<1>1. /\ selfMsgs \in Seq(UsoMsg) /\ requested[d] \in Seq(FedJob) /\ queue[d] \in Seq(FedJob)
      /\ toUso[d] \in Seq(FedClient) /\ IsFiniteSet(running[d])
  BY DEF TypeInv, UsoTypes, RmsTypes
<1>2. ASSUME NEW k
      PROVE  {p \in DOMAIN selfMsgs : /\ selfMsgs[p].client = c /\ selfMsgs[p].rms = d
                                      /\ selfMsgs[p].kind = k} = Spots(selfMsgs, {InternalMsg(k, c, d)})
  <2>1. \A p \in DOMAIN selfMsgs : selfMsgs[p] \in UsoMsg
    BY <1>1
  <2>2. \A p \in DOMAIN selfMsgs : selfMsgs[p] = InternalMsg(k, c, d)
          <=> selfMsgs[p].client = c /\ selfMsgs[p].rms = d /\ selfMsgs[p].kind = k
    BY <2>1, MessageIs
  <2> QED BY <2>2 DEF Spots
<1>3. ASSUME NEW s \in Seq(FedJob)
      PROVE  {p \in DOMAIN s : s[p].client = c} = Spots(s, JobsOf(c))
  <2>1. \A p \in DOMAIN s : s[p] \in FedJob
    OBVIOUS
  <2> QED BY <2>1 DEF Spots, JobsOf
<1>4. {p \in DOMAIN toUso[d] : toUso[d][p] = c} = Spots(toUso[d], {c})
  BY DEF Spots
<1>5. IsFiniteSet(Here(running[d], c))
  <2>1. Here(running[d], c) \in SUBSET running[d]
    BY DEF Here
  <2> QED BY <1>1, <2>1, FS_Subset
<1>6. Runs(d, c) \in Nat
  BY <1>5, FS_CardinalityType DEF Runs
<1>7. /\ Ordered(d, c) \in Nat /\ Sent(d, c) \in Nat /\ Waits(d, c) \in Nat
      /\ Ended(d, c) \in Nat /\ Told(d, c) \in Nat
  BY <1>1, CountNat DEF Ordered, Sent, Waits, Ended, Told
<1>8. At(d, c) = Ordered(d, c) + Sent(d, c) + Waits(d, c) + Runs(d, c) + Ended(d, c) + Told(d, c)
  <2>1. Cardinality({p \in DOMAIN selfMsgs : /\ selfMsgs[p].client = c /\ selfMsgs[p].rms = d
                                             /\ selfMsgs[p].kind = "job"}) = Ordered(d, c)
    BY <1>2 DEF Ordered, Count
  <2>2. Cardinality({p \in DOMAIN selfMsgs : /\ selfMsgs[p].client = c /\ selfMsgs[p].rms = d
                                             /\ selfMsgs[p].kind = "finish"}) = Told(d, c)
    BY <1>2 DEF Told, Count
  <2>3. Cardinality({p \in DOMAIN requested[d] : requested[d][p].client = c}) = Sent(d, c)
    BY <1>1, <1>3 DEF Sent, Count
  <2>4. Cardinality({p \in DOMAIN queue[d] : queue[d][p].client = c}) = Waits(d, c)
    BY <1>1, <1>3 DEF Waits, Count
  <2>5. Cardinality({t \in running[d] : t.client = c}) = Runs(d, c)
    BY DEF Runs, Here
  <2>6. Cardinality({p \in DOMAIN toUso[d] : toUso[d][p] = c}) = Ended(d, c)
    BY <1>4 DEF Ended, Count
  <2> QED BY <2>1, <2>2, <2>3, <2>4, <2>5, <2>6 DEF At
<1> QED BY <1>6, <1>7, <1>8

LEMMA PlacesAfter == TypeInv' => PlacesAdd'
BY Places, PTL

LEMMA OneOfSix ==
  ASSUME NEW t \in {0, 1}, NEW a \in Nat, NEW b \in Nat, NEW e \in Nat, NEW f \in Nat,
         NEW g \in Nat, NEW h \in Nat, a + b + e + f + g + h = t
  PROVE  /\ a \in {0, 1} /\ b \in {0, 1} /\ e \in {0, 1} /\ f \in {0, 1} /\ g \in {0, 1} /\ h \in {0, 1}
         /\ a # 0 \/ b # 0 \/ e # 0 \/ f # 0 \/ g # 0 \/ h # 0 => t = 1
         /\ f # 0 => b = 0 /\ e = 0
OBVIOUS

\* At most one place holds the job of a client, and none that of a client the table does not know.
LEMMA OnePlace ==
  ASSUME TypeInv, Counted, NEW d \in RMS, NEW c \in FedClient
  PROVE  /\ Ordered(d, c) \in {0, 1} /\ Sent(d, c) \in {0, 1} /\ Waits(d, c) \in {0, 1}
         /\ Runs(d, c) \in {0, 1} /\ Ended(d, c) \in {0, 1} /\ Told(d, c) \in {0, 1}
         /\ \/ Ordered(d, c) # 0 \/ Sent(d, c) # 0 \/ Waits(d, c) # 0
            \/ Runs(d, c) # 0 \/ Ended(d, c) # 0 \/ Told(d, c) # 0
            => Due(d, c) = 1 /\ Known(c) /\ report[c] # "uso"
         /\ Runs(d, c) # 0 => Sent(d, c) = 0 /\ Waits(d, c) = 0
<1>1. /\ Ordered(d, c) + Sent(d, c) + Waits(d, c) + Runs(d, c) + Ended(d, c) + Told(d, c) = Due(d, c)
      /\ Ordered(d, c) \in Nat /\ Sent(d, c) \in Nat /\ Waits(d, c) \in Nat
      /\ Runs(d, c) \in Nat /\ Ended(d, c) \in Nat /\ Told(d, c) \in Nat
  BY Places DEF PlacesAdd, Counted
<1>2. Due(d, c) \in {0, 1} /\ (Due(d, c) = 1 => Known(c) /\ report[c] # "uso")
  BY DEF Due, Known
<1>3. /\ Ordered(d, c) \in {0, 1} /\ Sent(d, c) \in {0, 1} /\ Waits(d, c) \in {0, 1}
      /\ Runs(d, c) \in {0, 1} /\ Ended(d, c) \in {0, 1} /\ Told(d, c) \in {0, 1}
      /\ \/ Ordered(d, c) # 0 \/ Sent(d, c) # 0 \/ Waits(d, c) # 0
         \/ Runs(d, c) # 0 \/ Ended(d, c) # 0 \/ Told(d, c) # 0
         => Due(d, c) = 1
      /\ Runs(d, c) # 0 => Sent(d, c) = 0 /\ Waits(d, c) = 0
  <2> DEFINE t == Due(d, c)
             a == Ordered(d, c)
             b == Sent(d, c)
             e == Waits(d, c)
             f == Runs(d, c)
             g == Ended(d, c)
             h == Told(d, c)
  <2>1. /\ t \in {0, 1} /\ a \in Nat /\ b \in Nat /\ e \in Nat /\ f \in Nat /\ g \in Nat /\ h \in Nat
        /\ a + b + e + f + g + h = t
    BY <1>1, <1>2
  <2> HIDE DEF t, a, b, e, f, g, h
  <2>2. /\ a \in {0, 1} /\ b \in {0, 1} /\ e \in {0, 1} /\ f \in {0, 1} /\ g \in {0, 1} /\ h \in {0, 1}
        /\ a # 0 \/ b # 0 \/ e # 0 \/ f # 0 \/ g # 0 \/ h # 0 => t = 1
        /\ f # 0 => b = 0 /\ e = 0
    BY <2>1, OneOfSix
  <2> QED BY <2>2 DEF t, a, b, e, f, g, h
<1> QED BY <1>2, <1>3, Zenon

LEMMA JobsKnown ==
  ASSUME TypeInv, Counted, NEW d \in RMS, NEW t \in Jobs(d)
  PROVE  t \in FedJob /\ Known(t.client) /\ report[t.client] # "uso"
<1>1. /\ requested[d] \in Seq(FedJob) /\ queue[d] \in Seq(FedJob)
      /\ running[d] \in SUBSET FedJob /\ IsFiniteSet(running[d])
  BY DEF TypeInv, RmsTypes
<1>2. t \in FedJob /\ t.client \in FedClient /\ t \in JobsOf(t.client)
  <2>1. t \in FedJob
    BY <1>1, MembersOfSeq DEF Jobs
  <2> QED BY <2>1 DEF FedJob, JobsOf
<1> DEFINE c == t.client
<1>3. Sent(d, c) # 0 \/ Waits(d, c) # 0 \/ Runs(d, c) # 0
  <2>1. CASE t \in ToSet(requested[d])
    <3>1. \E k \in DOMAIN requested[d] : requested[d][k] \in JobsOf(c)
      BY <1>2, <2>1 DEF ToSet
    <3>2. Count(requested[d], JobsOf(c)) = 0 <=> \A k \in DOMAIN requested[d] : requested[d][k] \notin JobsOf(c)
      BY <1>1, CountMeans
    <3> QED BY <3>1, <3>2 DEF Sent
  <2>2. CASE t \in ToSet(queue[d])
    <3>1. \E k \in DOMAIN queue[d] : queue[d][k] \in JobsOf(c)
      BY <1>2, <2>2 DEF ToSet
    <3>2. Count(queue[d], JobsOf(c)) = 0 <=> \A k \in DOMAIN queue[d] : queue[d][k] \notin JobsOf(c)
      BY <1>1, CountMeans
    <3> QED BY <3>1, <3>2 DEF Waits
  <2>3. CASE t \in running[d]
    <3>1. t \in Here(running[d], c) /\ Here(running[d], c) \in SUBSET running[d]
      BY <2>3 DEF Here
    <3>2. IsFiniteSet(Here(running[d], c))
      BY <1>1, <3>1, FS_Subset
    <3> QED BY <3>1, <3>2, FS_EmptySet DEF Runs
  <2> QED BY <2>1, <2>2, <2>3 DEF Jobs
<1> HIDE DEF c
<1>4. c \in FedClient
  BY <1>2 DEF c
<1>6. Known(c) /\ report[c] # "uso"
  BY <1>3, <1>4, OnePlace, Zenon
<1> QED BY <1>2, <1>6 DEF c

-----------------------------------------------------------------------------
(* The clients *)

LEMMA JobType == \A t \in Job : t.nodes \in 1 .. MaxNodes
BY DEF Job

\* What the clients do leaves the jobs where they are.
LEMMA SamePlaces ==
  ASSUME UNCHANGED <<rmsVars, cliList, selfMsgs>>
  PROVE  /\ Table' = Table /\ \A x : Known(x)' <=> Known(x)
         /\ \A d \in RMS : Jobs(d)' = Jobs(d) /\ \A x : At(d, x)' = At(d, x)
<1>1. Table' = Table
  BY DEF Table
<1>2. \A d, x : At(d, x)' = At(d, x)
  BY DEF At, rmsVars
<1>3. \A d : Jobs(d)' = Jobs(d)
  BY DEF Jobs, rmsVars
<1> QED BY <1>1, <1>2, <1>3 DEF Known

LEMMA ClientTypesKept ==
  ASSUME ClientTypes, NEW c \in FedClient, Connect(c) \/ ClientStep(c)
  PROVE  ClientTypes'
<1>1. CASE Connect(c)
  BY <1>1 DEF ClientTypes, Connect, Connection
<1>2. CASE SendRequest(c)
  <2>1. PICK t \in Job : asked' = [asked EXCEPT ![c] = t]
    BY <1>2 DEF SendRequest
  <2>2. asked' \in [FedClient -> Job]
    BY <2>1 DEF ClientTypes
  <2>3. sentRequests' \in [FedClient -> Nat]
    BY <1>2 DEF ClientTypes, SendRequest
  <2> QED BY <1>2, <2>2, <2>3 DEF ClientTypes, SendRequest, Connection
<1>3. CASE Response(c)
  BY <1>3 DEF ClientTypes, Response, Connection
<1>4. CASE ReportOpens(c)
  BY <1>4 DEF ClientTypes, ReportOpens, Connection
<1>5. CASE Finish(c)
  <2>1. (sentRequests[c] < JobRequests) \in BOOLEAN
    OBVIOUS
  <2>2. connectMsg' \in [FedClient -> BOOLEAN]
    BY <1>5, <2>1 DEF ClientTypes, Finish
  <2> QED BY <1>5, <2>2 DEF ClientTypes, Finish, Connection
<1>6. CASE RequestClosed(c)
  BY <1>6 DEF ClientTypes, RequestClosed, Connection
<1>7. CASE ReportClosed(c)
  BY <1>7 DEF ClientTypes, ReportClosed, Connection
<1> QED BY <1>1, <1>2, <1>3, <1>4, <1>5, <1>6, <1>7 DEF ClientStep

\* A client that begins or asks has no job in the table, and only a report that is in the table is
\* made.
LEMMA ClientPhases ==
  ASSUME ClientTypes, Phases, NEW c \in FedClient, Connect(c) \/ ClientStep(c), cliList' = cliList
  PROVE  Phases' /\ \A x \in FedClient : report'[x] = "uso" <=> report[x] = "uso"
<1>1. \A x : Known(x)' <=> Known(x)
  BY DEF Known, Table
<1> SUFFICES ASSUME NEW x \in FedClient
             PROVE  /\ connectMsg'[x] => request'[x] \notin {"syn", "job"}
                    /\ connectMsg'[x] \/ request'[x] \in {"syn", "job"} =>
                         ~Known(x) /\ report'[x] \notin {"uso", "syn", "finish"}
                    /\ Known(x) => report'[x] \notin {"syn", "finish"}
                    /\ report'[x] = "uso" => Known(x)
                    /\ report'[x] = "uso" <=> report[x] = "uso"
  BY <1>1 DEF Phases
<1>2. /\ connectMsg[x] => request[x] \notin {"syn", "job"}
      /\ connectMsg[x] \/ request[x] \in {"syn", "job"} =>
           ~Known(x) /\ report[x] \notin {"uso", "syn", "finish"}
      /\ Known(x) => report[x] \notin {"syn", "finish"}
      /\ report[x] = "uso" => Known(x)
  BY DEF Phases
<1>3. CASE Connect(c)
  BY <1>2, <1>3 DEF ClientTypes, Connect
<1>4. CASE SendRequest(c)
  BY <1>2, <1>4 DEF ClientTypes, SendRequest
<1>5. CASE Response(c)
  BY <1>2, <1>5 DEF ClientTypes, Response
<1>6. CASE ReportOpens(c)
  BY <1>2, <1>6 DEF ClientTypes, ReportOpens
<1>7. CASE Finish(c)
  BY <1>2, <1>7 DEF ClientTypes, Finish
<1>8. CASE RequestClosed(c)
  BY <1>2, <1>8 DEF ClientTypes, RequestClosed
<1>9. CASE ReportClosed(c)
  BY <1>2, <1>9 DEF ClientTypes, ReportClosed
<1> QED BY <1>3, <1>4, <1>5, <1>6, <1>7, <1>8, <1>9 DEF ClientStep

LEMMA ClientKeeps ==
  ASSUME TypeInv, Followed, NEW c \in FedClient, Connect(c) \/ ClientStep(c), UNCHANGED <<rmsVars, usoVars>>
  PROVE  TypeInv' /\ Followed'
<1>1. TypeInv'
  <2>1. ClientTypes'
    BY ClientTypesKept DEF TypeInv
  <2> QED BY <2>1 DEF TypeInv, RmsTypes, UsoTypes, rmsVars, usoVars
<1>2. UNCHANGED <<rmsVars, cliList, selfMsgs>>
  BY DEF usoVars
<1>3. /\ Table' = Table /\ \A x : Known(x)' <=> Known(x)
      /\ \A d \in RMS : Jobs(d)' = Jobs(d) /\ \A x : At(d, x)' = At(d, x)
  BY <1>2, SamePlaces
<1>4. Phases' /\ \A x \in FedClient : report'[x] = "uso" <=> report[x] = "uso"
  BY <1>2, ClientPhases DEF TypeInv, Followed
<1>5. Counted'
  <2>1. \A d \in RMS, x \in FedClient : Due(d, x)' = Due(d, x)
    BY <1>3, <1>4 DEF Due
  <2> QED BY <1>3, <2>1 DEF Counted, Followed
<1>6. AsAsked'
  <2>1. \A x \in FedClient : Known(x) => asked'[x] = asked[x]
    <3>1. CASE SendRequest(c)
      <4>1. ~Known(c) /\ \A x \in FedClient : x # c => asked'[x] = asked[x]
        BY <3>1 DEF SendRequest, Followed, Phases, TypeInv, ClientTypes
      <4> QED BY <4>1
    <3>2. CASE ~SendRequest(c)
      BY <3>2 DEF ClientStep, Connect, Response, ReportOpens, Finish, RequestClosed, ReportClosed
    <3> QED BY <3>1, <3>2
  <2>2. \A e \in Table : e.client \in FedClient /\ Known(e.client)
    <3>1. Table \subseteq FedEntry
      BY MembersOfSeq DEF Table, TypeInv, UsoTypes
    <3> QED BY <3>1 DEF Known, FedEntry
  <2>3. \A d \in RMS : \A t \in Jobs(d) : t.client \in FedClient /\ Known(t.client)
    BY JobsKnown DEF Followed, FedJob
  <2> QED BY <1>3, <2>1, <2>2, <2>3 DEF AsAsked, Followed
<1>7. KnownOnce' /\ WithinServers'
  BY <1>2 DEF Followed, KnownOnce, Single, WithinServers, rmsVars
<1> QED BY <1>1, <1>4, <1>5, <1>6, <1>7 DEF Followed

-----------------------------------------------------------------------------
(* The servers that jobs occupy *)

OwnUnits(t) == {t} \X (1 .. t.nodes)
Units(jobs) == UNION {OwnUnits(t) : t \in jobs}

LEMMA OwnUnitsCount ==
  ASSUME NEW t \in FedJob
  PROVE  IsFiniteSet(OwnUnits(t)) /\ Cardinality(OwnUnits(t)) = t.nodes /\ t.nodes \in Nat
<1>1. PICK n \in Nat : n = t.nodes
  BY ClientsAssumption DEF FedJob
<1>2. IsFiniteSet({t}) /\ Cardinality({t}) = 1
  BY FS_Singleton
<1>3. IsFiniteSet(1 .. n) /\ Cardinality(1 .. n) = n
  <2>1. 1 \in Int /\ n \in Int
    OBVIOUS
  <2>2. IsFiniteSet(1 .. n) /\ Cardinality(1 .. n) = IF 1 > n THEN 0 ELSE n - 1 + 1
    BY <2>1, FS_Interval, Zenon
  <2> QED BY <2>2
<1>4. IsFiniteSet({t} \X (1 .. n)) /\ Cardinality({t} \X (1 .. n)) = n
  <2> DEFINE S == {t}
             T == 1 .. n
  <2>1. IsFiniteSet(S) /\ IsFiniteSet(T) /\ Cardinality(S) = 1 /\ Cardinality(T) = n
    BY <1>2, <1>3
  <2> HIDE DEF S, T
  <2>2. IsFiniteSet(S \X T) /\ Cardinality(S \X T) = Cardinality(S) * Cardinality(T)
    BY <2>1, FS_Product, Zenon
  <2>3. IsFiniteSet(S \X T) /\ Cardinality(S \X T) = n
    BY <2>1, <2>2
  <2> QED BY <2>3 DEF S, T
<1> QED BY <1>1, <1>4 DEF OwnUnits

LEMMA OccupiedNat ==
  ASSUME NEW jobs \in SUBSET FedJob, IsFiniteSet(jobs)
  PROVE  IsFiniteSet(Units(jobs)) /\ Occupied(jobs) = Cardinality(Units(jobs)) /\ Occupied(jobs) \in Nat
<1> DEFINE all == {OwnUnits(t) : t \in jobs}
           f == [t \in jobs |-> OwnUnits(t)]
<1>1. f \in Surjection(jobs, all)
  BY DEF Surjection
<1>2. IsFiniteSet(all)
  <2> HIDE DEF f, all
  <2> QED BY <1>1, FS_Surjection
<1>3. \A T \in all : IsFiniteSet(T)
  BY OwnUnitsCount
<1>4. IsFiniteSet(UNION all)
  <2> HIDE DEF all
  <2> QED BY <1>2, <1>3, FS_UNION
<1>5. Occupied(jobs) = Cardinality(UNION all)
  BY DEF Occupied, OwnUnits
<1>6. Cardinality(UNION all) \in Nat
  BY <1>4, FS_CardinalityType
<1> QED BY <1>4, <1>5, <1>6 DEF Units

LEMMA OccupiedOneMore ==
  ASSUME NEW jobs \in SUBSET FedJob, IsFiniteSet(jobs), NEW t \in FedJob
  PROVE  Occupied(jobs \cup {t}) <= Occupied(jobs) + t.nodes
<1> DEFINE A == Units(jobs)
           B == OwnUnits(t)
<1>1. IsFiniteSet(A) /\ Occupied(jobs) = Cardinality(A) /\ Cardinality(A) \in Nat
  BY OccupiedNat
<1>2. IsFiniteSet(B) /\ Cardinality(B) = t.nodes /\ t.nodes \in Nat
  BY OwnUnitsCount
<1>3. Occupied(jobs \cup {t}) = Cardinality(A \cup B)
  <2>1. IsFiniteSet(jobs \cup {t})
    BY FS_AddElement
  <2>2. Occupied(jobs \cup {t}) = Cardinality(Units(jobs \cup {t}))
    BY <2>1, OccupiedNat
  <2>3. Units(jobs \cup {t}) = A \cup B
    BY DEF Units
  <2> QED BY <2>2, <2>3
<1> HIDE DEF A, B
<1>4. Cardinality(A \cup B) = Cardinality(A) + Cardinality(B) - Cardinality(A \cap B)
  BY <1>1, <1>2, FS_Union
<1>5. Cardinality(A \cap B) \in Nat
  BY <1>1, FS_Intersection, FS_CardinalityType
<1> QED BY <1>1, <1>2, <1>3, <1>4, <1>5

LEMMA OccupiedFewer ==
  ASSUME NEW jobs \in SUBSET FedJob, IsFiniteSet(jobs), NEW some \in SUBSET jobs
  PROVE  IsFiniteSet(some) /\ Occupied(some) <= Occupied(jobs)
<1>1. IsFiniteSet(some)
  BY FS_Subset
<1>2. IsFiniteSet(Units(jobs)) /\ Occupied(jobs) = Cardinality(Units(jobs))
  BY OccupiedNat
<1>3. Occupied(some) = Cardinality(Units(some))
  BY <1>1, OccupiedNat
<1>4. Units(some) \in SUBSET Units(jobs)
  BY DEF Units
<1>5. Cardinality(Units(some)) <= Cardinality(Units(jobs))
  BY <1>2, <1>4, FS_Subset
<1> QED BY <1>1, <1>2, <1>3, <1>5

\* The queue is served as far as the servers hold the jobs.
LEMMA StartableFits ==
  ASSUME NEW jobs \in SUBSET FedJob, IsFiniteSet(jobs), Occupied(jobs) <= RmsServers,
         NEW q \in Seq(FedJob)
  PROVE  /\ Startable(jobs, q) \in 0 .. Len(q)
         /\ Occupied(jobs \cup ToSet(SubSeq(q, 1, Startable(jobs, q)))) <= RmsServers
<1> DEFINE with(n) == jobs \cup ToSet(SubSeq(q, 1, n))
           T == {n \in 0 .. Len(q) : FreeServers(with(n)) >= 0}
<1>1. Len(q) \in Nat /\ RmsServers \in Nat
  BY DataCentresAssumption
<1>2. \A n \in 0 .. Len(q) : with(n) \in SUBSET FedJob /\ IsFiniteSet(with(n))
  <2> SUFFICES ASSUME NEW n \in 0 .. Len(q) PROVE with(n) \in SUBSET FedJob /\ IsFiniteSet(with(n))
    OBVIOUS
  <2>1. SubSeq(q, 1, n) \in Seq(FedJob)
    BY <1>1
  <2>2. ToSet(SubSeq(q, 1, n)) \subseteq FedJob /\ IsFiniteSet(ToSet(SubSeq(q, 1, n)))
    BY <2>1, MembersOfSeq
  <2> QED BY <2>2, FS_Union
<1>3. \A n \in 0 .. Len(q) : n \in T <=> Occupied(with(n)) <= RmsServers
  <2> SUFFICES ASSUME NEW n \in 0 .. Len(q) PROVE n \in T <=> Occupied(with(n)) <= RmsServers
    OBVIOUS
  <2>1. Occupied(with(n)) \in Nat
    BY <1>2, OccupiedNat
  <2> HIDE DEF with
  <2> QED BY <1>1, <2>1 DEF FreeServers
<1>4. with(0) = jobs
  BY DEF ToSet
<1>5. 0 \in T
  <2> HIDE DEF T, with
  <2>1. 0 \in 0 .. Len(q) /\ Occupied(with(0)) <= RmsServers
    BY <1>1, <1>4
  <2> QED BY <1>3, <2>1
<1>6. T \subseteq 0 .. Len(q)
  OBVIOUS
<1>7. Startable(jobs, q) = Max(T)
  BY DEF Startable
<1> HIDE DEF T, with
<1>8. Max(T) \in T
  BY <1>1, <1>5, <1>6, LargestNumber
<1>9. Max(T) \in 0 .. Len(q) /\ Occupied(with(Max(T))) <= RmsServers
  BY <1>3, <1>6, <1>8
<1> QED BY <1>7, <1>9 DEF with

-----------------------------------------------------------------------------
(* The data centres *)

LEMMA RmsTypesOf ==
  ASSUME TypeInv, NEW d \in RMS
  PROVE  /\ queue[d] \in Seq(FedJob) /\ requested[d] \in Seq(FedJob) /\ running[d] \in SUBSET FedJob
         /\ toUso[d] \in Seq(FedClient) /\ IsFiniteSet(running[d])
BY DEF TypeInv, RmsTypes

LEMMA AcceptTypes ==
  ASSUME TypeInv, NEW d \in RMS, AcceptJob(d), UNCHANGED <<clientVars, usoVars>>
  PROVE  TypeInv'
<1> DEFINE t == Head(requested[d])
<1>1. /\ queue[d] \in Seq(FedJob) /\ requested[d] \in Seq(FedJob) /\ running[d] \in SUBSET FedJob
      /\ IsFiniteSet(running[d])
  BY RmsTypesOf
<1>2. requested[d] # <<>>
  BY DEF AcceptJob
<1>3. t \in FedJob /\ Tail(requested[d]) \in Seq(FedJob)
  BY <1>1, <1>2
<1>4. /\ requested' = [requested EXCEPT ![d] = Tail(@)] /\ toUso' = toUso
      /\ \/ running' = [running EXCEPT ![d] = @ \cup {t}] /\ queue' = queue
         \/ queue' = [queue EXCEPT ![d] = Append(@, t)] /\ running' = running
  BY DEF AcceptJob
<1> HIDE DEF t
<1>5. IsFiniteSet(running[d] \cup {t}) /\ Append(queue[d], t) \in Seq(FedJob)
  BY <1>1, <1>3, FS_AddElement
<1>6. requested' \in [RMS -> Seq(FedJob)]
  BY <1>3, <1>4 DEF TypeInv, RmsTypes
<1>7. queue' \in [RMS -> Seq(FedJob)]
  BY <1>4, <1>5 DEF TypeInv, RmsTypes
<1>8. running' \in [RMS -> SUBSET FedJob] /\ \A x \in RMS : IsFiniteSet(running'[x])
  <2>1. CASE running' = running
    BY <2>1 DEF TypeInv, RmsTypes
  <2>2. CASE running' = [running EXCEPT ![d] = @ \cup {t}]
    <3>1. running[d] \cup {t} \in SUBSET FedJob
      BY <1>1, <1>3
    <3> DEFINE u == running[d] \cup {t}
    <3>2. running' = [running EXCEPT ![d] = u] /\ u \in SUBSET FedJob /\ IsFiniteSet(u)
      BY <1>5, <2>2, <3>1
    <3> HIDE DEF u
    <3> QED BY <3>2 DEF TypeInv, RmsTypes
  <2> QED BY <1>4, <2>1, <2>2
<1>9. RmsTypes'
  BY <1>4, <1>6, <1>7, <1>8 DEF TypeInv, RmsTypes
<1> QED BY <1>9 DEF TypeInv, ClientTypes, UsoTypes, clientVars, usoVars

LEMMA HereFinite ==
  ASSUME NEW jobs, IsFiniteSet(jobs), NEW c
  PROVE  IsFiniteSet(Here(jobs, c)) /\ Cardinality(Here(jobs, c)) \in Nat
<1>1. Here(jobs, c) \in SUBSET jobs
  BY DEF Here
<1>2. IsFiniteSet(Here(jobs, c))
  BY <1>1, FS_Subset
<1> QED BY <1>2, FS_CardinalityType

\* A job that starts is one more of its client.
LEMMA HereOneMore ==
  ASSUME NEW jobs, IsFiniteSet(jobs), NEW t, NEW c, t.client = c => Here(jobs, c) = {}
  PROVE  Cardinality(Here(jobs \cup {t}, c)) = Cardinality(Here(jobs, c)) + (IF t.client = c THEN 1 ELSE 0)
<1>1. IsFiniteSet(Here(jobs, c)) /\ Cardinality(Here(jobs, c)) \in Nat
  BY HereFinite
<1>2. CASE t.client = c
  <2>1. Here(jobs \cup {t}, c) = {t} /\ Here(jobs, c) = {}
    BY <1>2 DEF Here
  <2>2. Cardinality({t}) = 1 /\ Cardinality({}) = 0
    BY FS_Singleton, FS_EmptySet
  <2> QED BY <1>2, <2>1, <2>2
<1>3. CASE t.client # c
  <2>1. Here(jobs \cup {t}, c) = Here(jobs, c)
    BY <1>3 DEF Here
  <2> QED BY <1>1, <1>3, <2>1
<1> QED BY <1>2, <1>3

LEMMA AcceptMoves ==
  ASSUME TypeInv, Counted, NEW d \in RMS, AcceptJob(d), UNCHANGED <<clientVars, usoVars>>,
         NEW x \in RMS, NEW c \in FedClient
  PROVE  At(x, c)' = At(x, c)
<1> DEFINE t == Head(requested[d])
<1>1. TypeInv'
  BY AcceptTypes
<1>2. /\ At(x, c) = Ordered(x, c) + Sent(x, c) + Waits(x, c) + Runs(x, c) + Ended(x, c) + Told(x, c)
      /\ Ordered(x, c) \in Nat /\ Sent(x, c) \in Nat /\ Waits(x, c) \in Nat
      /\ Runs(x, c) \in Nat /\ Ended(x, c) \in Nat /\ Told(x, c) \in Nat
  BY Places DEF PlacesAdd
<1>3. /\ At(x, c)' = Ordered(x, c)' + Sent(x, c)' + Waits(x, c)' + Runs(x, c)' + Ended(x, c)' + Told(x, c)'
      /\ Sent(x, c)' \in Nat /\ Waits(x, c)' \in Nat /\ Runs(x, c)' \in Nat
  BY <1>1, PlacesAfter DEF PlacesAdd
<1>4. Ordered(x, c)' = Ordered(x, c) /\ Told(x, c)' = Told(x, c) /\ Ended(x, c)' = Ended(x, c)
  BY DEF Ordered, Told, Ended, usoVars, AcceptJob
<1>5. CASE x # d
  <2>1. requested'[x] = requested[x] /\ queue'[x] = queue[x] /\ running'[x] = running[x]
    BY <1>5 DEF AcceptJob, TypeInv, RmsTypes
  <2>2. Sent(x, c)' = Sent(x, c) /\ Waits(x, c)' = Waits(x, c) /\ Runs(x, c)' = Runs(x, c)
    BY <2>1 DEF Sent, Waits, Runs
  <2> QED BY <1>2, <1>3, <1>4, <2>2
<1>6. CASE x = d
  <2>1. /\ queue[d] \in Seq(FedJob) /\ requested[d] \in Seq(FedJob) /\ running[d] \in SUBSET FedJob
        /\ IsFiniteSet(running[d]) /\ requested[d] # <<>>
    BY RmsTypesOf DEF AcceptJob
  <2>2. /\ t \in FedJob /\ Tail(requested[d]) \in Seq(FedJob)
        /\ Sent(d, c) = Count(Tail(requested[d]), JobsOf(c)) + (IF t \in JobsOf(c) THEN 1 ELSE 0)
    BY <2>1, CountHead DEF Sent
  <2>3. t \in JobsOf(c) <=> t.client = c
    BY <2>2 DEF JobsOf
  <2>4. requested'[d] = Tail(requested[d])
    BY DEF AcceptJob, TypeInv, RmsTypes
  <2>5. Sent(d, c) = Sent(d, c)' + (IF t.client = c THEN 1 ELSE 0)
    BY <2>2, <2>3, <2>4 DEF Sent
  <2>6. CASE queue[d] = <<>> /\ HasServers(d, t.nodes)
    <3>1. running'[d] = running[d] \cup {t} /\ queue'[d] = queue[d]
      BY <2>6 DEF AcceptJob, TypeInv, RmsTypes
    <3>2. t.client = c => Here(running[d], c) = {}
      <4> SUFFICES ASSUME t.client = c PROVE Here(running[d], c) = {}
        OBVIOUS
      <4>1. Sent(d, c) # 0
        BY <1>3, <1>6, <2>5
      <4>2. Runs(d, c) = 0
        BY <4>1, OnePlace
      <4> QED BY <2>1, <4>2, HereFinite, FS_EmptySet DEF Runs
    <3>3. Runs(d, c)' = Runs(d, c) + (IF t.client = c THEN 1 ELSE 0)
      BY <2>1, <3>1, <3>2, HereOneMore DEF Runs
    <3>4. Waits(d, c)' = Waits(d, c)
      BY <3>1 DEF Waits
    <3> HIDE DEF t
    <3> QED BY <1>2, <1>3, <1>4, <1>6, <2>5, <3>3, <3>4
  <2>7. CASE ~(queue[d] = <<>> /\ HasServers(d, t.nodes))
    <3>1. queue'[d] = Append(queue[d], t) /\ running'[d] = running[d]
      BY <2>7 DEF AcceptJob, TypeInv, RmsTypes
    <3>2. Waits(d, c)' = Waits(d, c) + (IF t.client = c THEN 1 ELSE 0)
      <4> HIDE DEF t
      <4>1. Count(Append(queue[d], t), JobsOf(c)) = Count(queue[d], JobsOf(c)) + (IF t \in JobsOf(c) THEN 1 ELSE 0)
        BY <2>1, <2>2, CountAppend
      <4> QED BY <2>3, <3>1, <4>1 DEF Waits
    <3>3. Runs(d, c)' = Runs(d, c)
      BY <3>1 DEF Runs
    <3> HIDE DEF t
    <3> QED BY <1>2, <1>3, <1>4, <1>6, <2>5, <3>2, <3>3
  <2> QED BY <1>6, <2>6, <2>7
<1> QED BY <1>5, <1>6

\* What a data centre does keeps the invariant if its jobs stay where they are, up to the place,
\* and no more run than its servers hold.
LEMMA RmsKeeps ==
  ASSUME TypeInv, TypeInv', Followed, UNCHANGED <<clientVars, usoVars>>,
         \A x \in RMS, c \in FedClient : At(x, c)' = At(x, c),
         \A x \in RMS : Jobs(x)' \subseteq Jobs(x),
         WithinServers'
  PROVE  Followed'
<1>1. cliList' = cliList /\ report' = report /\ asked' = asked /\ connectMsg' = connectMsg /\ request' = request
  BY DEF clientVars, usoVars
<1>2. Table' = Table
  BY <1>1 DEF Table
<1>3. KnownOnce' /\ Phases'
  BY <1>1, <1>2 DEF Followed, KnownOnce, Single, Phases, Known
<1>4. Counted'
  <2>1. \A x \in RMS, c \in FedClient : Due(x, c)' = Due(x, c)
    BY <1>1, <1>2 DEF Due
  <2> QED BY <2>1 DEF Counted, Followed
<1>5. AsAsked'
  BY <1>1, <1>2 DEF AsAsked, Followed
<1> QED BY <1>3, <1>4, <1>5 DEF Followed

LEMMA AcceptKeeps ==
  ASSUME TypeInv, Followed, NEW d \in RMS, AcceptJob(d), UNCHANGED <<clientVars, usoVars>>
  PROVE  TypeInv' /\ Followed'
<1> DEFINE t == Head(requested[d])
<1>1. TypeInv'
  BY AcceptTypes
<1>2. \A x \in RMS, c \in FedClient : At(x, c)' = At(x, c)
  BY AcceptMoves DEF Followed
<1>3. /\ queue[d] \in Seq(FedJob) /\ requested[d] \in Seq(FedJob) /\ running[d] \in SUBSET FedJob
      /\ IsFiniteSet(running[d]) /\ requested[d] # <<>>
  BY RmsTypesOf DEF AcceptJob
<1>4. t \in FedJob /\ t \in ToSet(requested[d]) /\ ToSet(Tail(requested[d])) \subseteq ToSet(requested[d])
  <2>1. t \in FedJob
    BY <1>3
  <2> QED BY <1>3, <2>1, MembersOfSeq
<1>5. \A x \in RMS : Jobs(x)' \subseteq Jobs(x)
  <2> SUFFICES ASSUME NEW x \in RMS PROVE Jobs(x)' \subseteq Jobs(x)
    OBVIOUS
  <2>1. CASE x # d
    <3>1. requested'[x] = requested[x] /\ queue'[x] = queue[x] /\ running'[x] = running[x]
      BY <2>1 DEF AcceptJob, TypeInv, RmsTypes
    <3> QED BY <3>1 DEF Jobs
  <2>2. CASE x = d
    <3>1. requested'[d] = Tail(requested[d])
      BY DEF AcceptJob, TypeInv, RmsTypes
    <3>2. ToSet(queue'[d]) \subseteq ToSet(queue[d]) \cup {t} /\ running'[d] \subseteq running[d] \cup {t}
      <4>1. CASE queue[d] = <<>> /\ HasServers(d, t.nodes)
        BY <4>1 DEF AcceptJob, TypeInv, RmsTypes
      <4>2. CASE ~(queue[d] = <<>> /\ HasServers(d, t.nodes))
        <5>1. queue'[d] = Append(queue[d], t) /\ running'[d] = running[d]
          BY <4>2 DEF AcceptJob, TypeInv, RmsTypes
        <5> HIDE DEF t
        <5>2. ToSet(Append(queue[d], t)) = ToSet(queue[d]) \cup {t}
          BY <1>3, <1>4, MembersOfSeq
        <5> QED BY <5>1, <5>2
      <4> QED BY <4>1, <4>2
    <3> HIDE DEF t
    <3> QED BY <1>4, <2>2, <3>1, <3>2 DEF Jobs
  <2> QED BY <2>1, <2>2
<1>6. WithinServers'
  <2> SUFFICES ASSUME NEW x \in RMS PROVE Occupied(running'[x]) <= RmsServers
    BY DEF WithinServers, Occupied
  <2>1. Occupied(running[x]) <= RmsServers
    BY DEF Followed, WithinServers
  <2>2. CASE running'[x] = running[x]
    BY <2>1, <2>2
  <2>3. CASE x = d /\ queue[d] = <<>> /\ HasServers(d, t.nodes)
    <3>1. running'[d] = running[d] \cup {t}
      BY <2>3 DEF AcceptJob, TypeInv, RmsTypes
    <3>2. Occupied(running[d] \cup {t}) <= Occupied(running[d]) + t.nodes
      BY <1>3, <1>4, OccupiedOneMore
    <3>3. t.nodes <= RmsServers - Occupied(running[d])
      BY <2>3 DEF HasServers, FreeServers
    <3>4. Occupied(running[d]) \in Nat /\ RmsServers \in Nat /\ t.nodes \in Nat
      BY <1>3, <1>4, OccupiedNat, OwnUnitsCount, DataCentresAssumption
    <3>5. Occupied(running[d] \cup {t}) \in Nat
      <4>1. running[d] \cup {t} \in SUBSET FedJob /\ IsFiniteSet(running[d] \cup {t})
        BY <1>3, <1>4, FS_AddElement
      <4> QED BY <4>1, OccupiedNat
    <3>6. Occupied(running[d] \cup {t}) <= RmsServers
      <4> DEFINE a == Occupied(running[d] \cup {t})
                 b == Occupied(running[d])
                 n == t.nodes
      <4>1. a \in Nat /\ b \in Nat /\ n \in Nat /\ RmsServers \in Nat /\ a <= b + n /\ n <= RmsServers - b
        BY <3>2, <3>3, <3>4, <3>5
      <4> HIDE DEF a, b, n
      <4>2. a <= RmsServers
        BY <4>1
      <4> QED BY <4>2 DEF a
    <3> QED BY <2>3, <3>1, <3>6
  <2>4. running'[x] = running[x] \/ (x = d /\ queue[d] = <<>> /\ HasServers(d, t.nodes))
    BY DEF AcceptJob, TypeInv, RmsTypes
  <2> QED BY <2>2, <2>3, <2>4
<1> QED BY <1>1, <1>2, <1>5, <1>6, RmsKeeps

-----------------------------------------------------------------------------
(* The end of a job *)

Left(d, t) == running[d] \ {t}
Served(d, t) == Startable(Left(d, t), queue[d])
Begun(d, t) == SubSeq(queue[d], 1, Served(d, t))
Rest(d, t) == SubSeq(queue[d], Served(d, t) + 1, Len(queue[d]))

LEMMA EndFacts ==
  ASSUME TypeInv, WithinServers, NEW d \in RMS, NEW t, EndJob(d, t)
  PROVE  /\ t \in running[d] /\ t \in FedJob /\ t.client \in FedClient
         /\ Left(d, t) \in SUBSET FedJob /\ IsFiniteSet(Left(d, t))
         /\ Served(d, t) \in 0 .. Len(queue[d])
         /\ Occupied(Left(d, t) \cup ToSet(Begun(d, t))) <= RmsServers
         /\ Begun(d, t) \in Seq(FedJob) /\ Rest(d, t) \in Seq(FedJob)
         /\ ToSet(Begun(d, t)) \subseteq ToSet(queue[d]) /\ ToSet(Rest(d, t)) \subseteq ToSet(queue[d])
         /\ IsFiniteSet(ToSet(Begun(d, t)))
<1>1. queue[d] \in Seq(FedJob) /\ running[d] \in SUBSET FedJob /\ IsFiniteSet(running[d])
  BY RmsTypesOf
<1>2. t \in running[d] /\ t \in FedJob /\ t.client \in FedClient
  BY <1>1 DEF EndJob, FedJob
<1>3. Left(d, t) \in SUBSET running[d] /\ Left(d, t) \in SUBSET FedJob
  BY <1>1 DEF Left
<1>4. IsFiniteSet(Left(d, t)) /\ Occupied(Left(d, t)) <= Occupied(running[d])
  BY <1>1, <1>3, OccupiedFewer
<1>5. Occupied(Left(d, t)) <= RmsServers
  <2>1. Occupied(Left(d, t)) \in Nat /\ Occupied(running[d]) \in Nat /\ RmsServers \in Nat
    BY <1>1, <1>3, <1>4, OccupiedNat, DataCentresAssumption
  <2>2. Occupied(running[d]) <= RmsServers
    BY DEF WithinServers
  <2> QED BY <1>4, <2>1, <2>2
<1>6. /\ Served(d, t) \in 0 .. Len(queue[d])
      /\ Occupied(Left(d, t) \cup ToSet(Begun(d, t))) <= RmsServers
  BY <1>1, <1>3, <1>4, <1>5, StartableFits DEF Served, Begun
<1>7. /\ Begun(d, t) \in Seq(FedJob) /\ Rest(d, t) \in Seq(FedJob)
      /\ ToSet(Begun(d, t)) \subseteq ToSet(queue[d]) /\ ToSet(Rest(d, t)) \subseteq ToSet(queue[d])
  BY <1>1, <1>6, CountSplit, MembersOfPart DEF Begun, Rest
<1>8. IsFiniteSet(ToSet(Begun(d, t)))
  BY <1>7, MembersOfSeq
<1> QED BY <1>2, <1>3, <1>4, <1>6, <1>7, <1>8

LEMMA EndAssigns ==
  ASSUME TypeInv, NEW d \in RMS, NEW t, EndJob(d, t)
  PROVE  /\ running' = [running EXCEPT ![d] = Left(d, t) \cup ToSet(Begun(d, t))]
         /\ queue' = [queue EXCEPT ![d] = Rest(d, t)]
         /\ toUso' = [toUso EXCEPT ![d] = Append(toUso[d], t.client)]
         /\ requested' = requested
BY DEF EndJob, SendFinish, Left, Served, Begun, Rest, TypeInv, RmsTypes

LEMMA EndTypes ==
  ASSUME TypeInv, WithinServers, NEW d \in RMS, NEW t, EndJob(d, t), UNCHANGED <<clientVars, usoVars>>
  PROVE  TypeInv' /\ WithinServers'
<1> DEFINE u == Left(d, t) \cup ToSet(Begun(d, t))
           o == Rest(d, t)
           w == Append(toUso[d], t.client)
<1>1. /\ running' = [running EXCEPT ![d] = u] /\ queue' = [queue EXCEPT ![d] = o]
      /\ toUso' = [toUso EXCEPT ![d] = w] /\ requested' = requested
  BY EndAssigns
<1>2. u \in SUBSET FedJob /\ IsFiniteSet(u) /\ Occupied(u) <= RmsServers
  <2>1. /\ Left(d, t) \in SUBSET FedJob /\ IsFiniteSet(Left(d, t)) /\ Begun(d, t) \in Seq(FedJob)
        /\ IsFiniteSet(ToSet(Begun(d, t))) /\ Occupied(u) <= RmsServers
    BY EndFacts
  <2>2. ToSet(Begun(d, t)) \subseteq FedJob
    BY <2>1, MembersOfSeq
  <2> QED BY <2>1, <2>2, FS_Union
<1>3. o \in Seq(FedJob)
  BY EndFacts
<1>4. w \in Seq(FedClient)
  <2>1. toUso[d] \in Seq(FedClient) /\ t.client \in FedClient
    BY EndFacts, RmsTypesOf
  <2> QED BY <2>1
<1> HIDE DEF u, o, w
<1>5. RmsTypes'
  BY <1>1, <1>2, <1>3, <1>4 DEF TypeInv, RmsTypes
<1>6. WithinServers'
  <2> SUFFICES ASSUME NEW x \in RMS PROVE Occupied(running'[x]) <= RmsServers
    BY DEF WithinServers, Occupied
  <2>1. running'[x] = IF x = d THEN u ELSE running[x]
    BY <1>1 DEF TypeInv, RmsTypes
  <2> QED BY <1>2, <2>1 DEF WithinServers
<1> QED BY <1>5, <1>6 DEF TypeInv, ClientTypes, UsoTypes, clientVars, usoVars

\* The jobs that begin are taken from the queue, each once.
LEMMA BegunCounted ==
  ASSUME NEW jobs \in SUBSET FedJob, IsFiniteSet(jobs), NEW s \in Seq(FedJob), NEW c,
         Count(s, JobsOf(c)) \in {0, 1},
         Count(s, JobsOf(c)) = 1 => Here(jobs, c) = {}
  PROVE  Cardinality(Here(jobs \cup ToSet(s), c)) = Cardinality(Here(jobs, c)) + Count(s, JobsOf(c))
<1>1. IsFiniteSet(Here(jobs, c)) /\ Cardinality(Here(jobs, c)) \in Nat
  BY HereFinite
<1>2. \A k \in DOMAIN s : s[k] \in FedJob
  OBVIOUS
<1>3. CASE Count(s, JobsOf(c)) = 0
  <2>1. \A k \in DOMAIN s : s[k] \notin JobsOf(c)
    BY <1>3, CountMeans
  <2>2. Here(jobs \cup ToSet(s), c) = Here(jobs, c)
    BY <1>2, <2>1 DEF Here, JobsOf, ToSet
  <2> QED BY <1>1, <1>3, <2>2
<1>4. CASE Count(s, JobsOf(c)) = 1
  <2>1. PICK x \in JobsOf(c) : \A k \in DOMAIN s : s[k] \in JobsOf(c) => s[k] = x
    BY <1>4, CountMeans
  <2>2. PICK l \in DOMAIN s : s[l] \in JobsOf(c)
    BY <1>4, CountMeans
  <2>3. Here(jobs, c) = {}
    BY <1>4
  <2>4. Here(jobs \cup ToSet(s), c) = {x}
    BY <1>2, <2>1, <2>2, <2>3 DEF Here, JobsOf, ToSet
  <2>5. Cardinality({x}) = 1 /\ Cardinality({}) = 0
    BY FS_Singleton, FS_EmptySet
  <2>6. Cardinality(Here(jobs \cup ToSet(s), c)) = 1
    BY <2>4, <2>5, Zenon
  <2>7. Cardinality(Here(jobs, c)) = 0
    BY <2>3, <2>5, Zenon
  <2> QED BY <1>4, <2>6, <2>7
<1> QED BY <1>3, <1>4

LEMMA EndMoves ==
  ASSUME TypeInv, Counted, WithinServers, NEW d \in RMS, NEW t, EndJob(d, t),
         UNCHANGED <<clientVars, usoVars>>, NEW x \in RMS, NEW c \in FedClient
  PROVE  At(x, c)' = At(x, c)
<1>1. TypeInv'
  BY EndTypes
<1>2. /\ At(x, c) = Ordered(x, c) + Sent(x, c) + Waits(x, c) + Runs(x, c) + Ended(x, c) + Told(x, c)
      /\ Ordered(x, c) \in Nat /\ Sent(x, c) \in Nat /\ Waits(x, c) \in Nat
      /\ Runs(x, c) \in Nat /\ Ended(x, c) \in Nat /\ Told(x, c) \in Nat
  BY Places DEF PlacesAdd
<1>3. /\ At(x, c)' = Ordered(x, c)' + Sent(x, c)' + Waits(x, c)' + Runs(x, c)' + Ended(x, c)' + Told(x, c)'
      /\ Ended(x, c)' \in Nat /\ Waits(x, c)' \in Nat /\ Runs(x, c)' \in Nat
  BY <1>1, PlacesAfter DEF PlacesAdd
<1>4. Ordered(x, c)' = Ordered(x, c) /\ Told(x, c)' = Told(x, c) /\ Sent(x, c)' = Sent(x, c)
  BY EndAssigns DEF Ordered, Told, Sent, usoVars
<1>5. CASE x # d
  <2>1. toUso'[x] = toUso[x] /\ queue'[x] = queue[x] /\ running'[x] = running[x]
    BY <1>5, EndAssigns DEF TypeInv, RmsTypes
  <2>2. Ended(x, c)' = Ended(x, c) /\ Waits(x, c)' = Waits(x, c) /\ Runs(x, c)' = Runs(x, c)
    BY <2>1 DEF Ended, Waits, Runs
  <2> QED BY <1>2, <1>3, <1>4, <2>2
<1>6. CASE x = d
  <2> DEFINE left == Left(d, t)
             b == Count(Begun(d, t), JobsOf(c))
             o == Count(Rest(d, t), JobsOf(c))
             k == IF t.client = c THEN 1 ELSE 0
  <2>1. /\ running'[d] = left \cup ToSet(Begun(d, t)) /\ queue'[d] = Rest(d, t)
        /\ toUso'[d] = Append(toUso[d], t.client)
    BY EndAssigns DEF TypeInv, RmsTypes
  <2>2. /\ queue[d] \in Seq(FedJob) /\ running[d] \in SUBSET FedJob
        /\ IsFiniteSet(running[d]) /\ toUso[d] \in Seq(FedClient)
    BY RmsTypesOf
  <2>3. /\ t \in running[d] /\ t \in FedJob /\ t.client \in FedClient
        /\ left \in SUBSET FedJob /\ IsFiniteSet(left)
        /\ Served(d, t) \in 0 .. Len(queue[d])
        /\ Begun(d, t) \in Seq(FedJob) /\ Rest(d, t) \in Seq(FedJob)
    BY EndFacts
  <2>4. Waits(d, c) = b + o
    BY <2>2, <2>3, CountSplit DEF Waits, Begun, Rest
  <2>5. b \in Nat /\ o \in Nat
    BY <2>3, CountNat
  <2>6. Waits(d, c)' = o
    BY <2>1 DEF Waits
  <2>7. Ended(d, c)' = Ended(d, c) + k
    <3>1. Count(Append(toUso[d], t.client), {c}) = Count(toUso[d], {c}) + (IF t.client \in {c} THEN 1 ELSE 0)
      BY <2>2, <2>3, CountAppend
    <3> QED BY <2>1, <3>1 DEF Ended
  <2>8. Runs(d, c) = Cardinality(Here(left, c)) + k
    <3>1. IsFiniteSet(Here(running[d], c))
      BY <2>2, HereFinite
    <3>2. CASE t.client = c
      <4>1. Here(left, c) = Here(running[d], c) \ {t} /\ t \in Here(running[d], c)
        BY <2>3, <3>2 DEF Here, Left
      <4>2. Cardinality(Here(running[d], c) \ {t}) = Cardinality(Here(running[d], c)) - 1
        BY <3>1, <4>1, FS_RemoveElement
      <4> QED BY <1>2, <1>6, <3>2, <4>1, <4>2 DEF Runs
    <3>3. CASE t.client # c
      <4>1. Here(left, c) = Here(running[d], c)
        BY <3>3 DEF Here, Left
      <4> QED BY <1>2, <1>6, <3>3, <4>1 DEF Runs
    <3> QED BY <3>2, <3>3
  <2>9. Cardinality(Here(left, c)) \in Nat
    BY <2>3, HereFinite
  <2>10. b \in {0, 1} /\ (b = 1 => Here(left, c) = {})
    <3>1. Waits(d, c) \in {0, 1} /\ (Runs(d, c) # 0 => Waits(d, c) = 0)
      BY OnePlace
    <3>2. b \in {0, 1}
      BY <2>4, <2>5, <3>1
    <3>3. b = 1 => Runs(d, c) = 0
      BY <2>4, <2>5, <3>1
    <3>4. k \in {0, 1}
      OBVIOUS
    <3>5. b = 1 => Cardinality(Here(left, c)) = 0
      <4> HIDE DEF b, k, left
      <4> QED BY <2>8, <2>9, <3>3, <3>4
    <3>6. IsFiniteSet(Here(left, c))
      BY <2>3, HereFinite
    <3> QED BY <3>2, <3>5, <3>6, FS_EmptySet
  <2>11. Runs(d, c)' = Cardinality(Here(left, c)) + b
    <3>1. Cardinality(Here(left \cup ToSet(Begun(d, t)), c)) = Cardinality(Here(left, c)) + b
      BY <2>3, <2>10, BegunCounted
    <3> QED BY <2>1, <3>1 DEF Runs
  <2>12. k \in {0, 1}
    OBVIOUS
  <2> DEFINE h == Cardinality(Here(left, c))
  <2>13. h \in Nat /\ Runs(d, c) = h + k /\ Runs(d, c)' = h + b
    BY <2>8, <2>9, <2>11
  <2> HIDE DEF h, k, b, o
  <2> QED BY <1>2, <1>3, <1>4, <1>6, <2>4, <2>5, <2>6, <2>7, <2>12, <2>13
<1> QED BY <1>5, <1>6

LEMMA EndKeeps ==
  ASSUME TypeInv, Followed, NEW d \in RMS, NEW t, EndJob(d, t), UNCHANGED <<clientVars, usoVars>>
  PROVE  TypeInv' /\ Followed'
<1>1. TypeInv' /\ WithinServers'
  BY EndTypes DEF Followed
<1>2. \A x \in RMS, c \in FedClient : At(x, c)' = At(x, c)
  BY EndMoves DEF Followed
<1>3. \A x \in RMS : Jobs(x)' \subseteq Jobs(x)
  <2> SUFFICES ASSUME NEW x \in RMS PROVE Jobs(x)' \subseteq Jobs(x)
    OBVIOUS
  <2>1. CASE x # d
    <3>1. requested'[x] = requested[x] /\ queue'[x] = queue[x] /\ running'[x] = running[x]
      BY <2>1, EndAssigns DEF TypeInv, RmsTypes
    <3> QED BY <3>1 DEF Jobs
  <2>2. CASE x = d
    <3>1. /\ running'[d] = Left(d, t) \cup ToSet(Begun(d, t)) /\ queue'[d] = Rest(d, t)
          /\ requested'[d] = requested[d]
      BY EndAssigns DEF TypeInv, RmsTypes
    <3>2. ToSet(Begun(d, t)) \subseteq ToSet(queue[d]) /\ ToSet(Rest(d, t)) \subseteq ToSet(queue[d])
      BY EndFacts DEF Followed
    <3>3. Left(d, t) \subseteq running[d]
      BY DEF Left
    <3> QED BY <2>2, <3>1, <3>2, <3>3 DEF Jobs
  <2> QED BY <2>1, <2>2
<1> QED BY <1>1, <1>2, <1>3, RmsKeeps

-----------------------------------------------------------------------------
(* The user service object *)

LEMMA EstablishedKeeps ==
  ASSUME TypeInv, Followed, NEW d \in RMS, RmsEstablished(d)
  PROVE  TypeInv' /\ Followed'
<1>1. /\ UNCHANGED <<rmsVars, cliList, selfMsgs>> /\ UNCHANGED clientVars
      /\ rmsConnected' = rmsConnected \cup {d}
  BY DEF RmsEstablished
<1>2. TypeInv'
  BY <1>1 DEF TypeInv, ClientTypes, RmsTypes, UsoTypes, clientVars, rmsVars
<1>3. /\ Table' = Table /\ \A x : Known(x)' <=> Known(x)
      /\ \A x \in RMS : Jobs(x)' = Jobs(x) /\ \A c : At(x, c)' = At(x, c)
  BY <1>1, SamePlaces
<1>4. KnownOnce' /\ WithinServers'
  BY <1>1 DEF Followed, KnownOnce, Single, WithinServers, rmsVars
<1>5. Phases' /\ AsAsked'
  BY <1>1, <1>3 DEF Followed, Phases, AsAsked, clientVars
<1>6. Counted'
  <2>1. \A x \in RMS, c \in FedClient : Due(x, c)' = Due(x, c)
    BY <1>1, <1>3 DEF Due, clientVars
  <2> QED BY <1>3, <2>1 DEF Followed, Counted
<1> QED BY <1>2, <1>4, <1>5, <1>6 DEF Followed

LEMMA PeerClosedKeeps ==
  ASSUME TypeInv, Followed, NEW c \in FedClient, PeerClosed(c)
  PROVE  TypeInv' /\ Followed'
<1>1. /\ UNCHANGED <<rmsVars, cliList, selfMsgs>> /\ rmsConnected' = rmsConnected
      /\ UNCHANGED <<socket, requestSent, connectMsg, asked, sentRequests>>
  BY DEF PeerClosed, usoVars
<1>2. /\ \/ request[c] = "clientClosed" /\ request' = [request EXCEPT ![c] = "usoClosed"] /\ report' = report
         \/ report[c] = "clientClosed" /\ report' = [report EXCEPT ![c] = "usoClosed"] /\ request' = request
  BY DEF PeerClosed
<1>3. /\ request' \in [FedClient -> Connection] /\ report' \in [FedClient -> Connection]
      /\ \A x \in FedClient : request'[x] = request[x] \/ (request[x] = "clientClosed" /\ request'[x] = "usoClosed")
      /\ \A x \in FedClient : report'[x] = report[x] \/ (report[x] = "clientClosed" /\ report'[x] = "usoClosed")
  BY <1>2 DEF TypeInv, ClientTypes, Connection
<1>4. TypeInv'
  BY <1>1, <1>3 DEF TypeInv, ClientTypes, RmsTypes, UsoTypes, rmsVars
<1>5. /\ Table' = Table /\ \A x : Known(x)' <=> Known(x)
      /\ \A x \in RMS : Jobs(x)' = Jobs(x) /\ \A y : At(x, y)' = At(x, y)
  BY <1>1, SamePlaces
<1>6. KnownOnce' /\ WithinServers' /\ AsAsked'
  BY <1>1, <1>5 DEF Followed, KnownOnce, Single, WithinServers, AsAsked, rmsVars
<1>7. Phases'
  <2> SUFFICES ASSUME NEW x \in FedClient
               PROVE  /\ connectMsg'[x] => request'[x] \notin {"syn", "job"}
                      /\ connectMsg'[x] \/ request'[x] \in {"syn", "job"} =>
                           ~Known(x) /\ report'[x] \notin {"uso", "syn", "finish"}
                      /\ Known(x) => report'[x] \notin {"syn", "finish"}
                      /\ report'[x] = "uso" => Known(x)
    BY <1>5 DEF Phases
  <2>1. /\ connectMsg[x] => request[x] \notin {"syn", "job"}
        /\ connectMsg[x] \/ request[x] \in {"syn", "job"} =>
             ~Known(x) /\ report[x] \notin {"uso", "syn", "finish"}
        /\ Known(x) => report[x] \notin {"syn", "finish"}
        /\ report[x] = "uso" => Known(x)
    BY DEF Followed, Phases
  <2>2. request'[x] \in {"syn", "job"} => request[x] = request'[x]
    BY <1>3
  <2>3. report'[x] \in {"uso", "syn", "finish"} => report[x] = report'[x]
    BY <1>3
  <2> QED BY <1>1, <2>1, <2>2, <2>3
<1>8. Counted'
  <2>1. \A x \in RMS, y \in FedClient : Due(x, y)' = Due(x, y)
    <3>1. \A y \in FedClient : report'[y] = "uso" <=> report[y] = "uso"
      BY <1>3
    <3> QED BY <1>5, <3>1 DEF Due
  <2> QED BY <1>5, <2>1 DEF Followed, Counted
<1> QED BY <1>4, <1>6, <1>7, <1>8 DEF Followed

LEMMA MessageSpot ==
  ASSUME NEW k, NEW l, NEW c, NEW y, NEW d, NEW x
  PROVE  InternalMsg(k, c, d) \in {InternalMsg(l, y, x)} <=> k = l /\ c = y /\ d = x
<1>1. /\ InternalMsg(k, c, d).kind = k /\ InternalMsg(k, c, d).client = c /\ InternalMsg(k, c, d).rms = d
      /\ InternalMsg(l, y, x).kind = l /\ InternalMsg(l, y, x).client = y /\ InternalMsg(l, y, x).rms = x
  BY DEF InternalMsg
<1> QED BY <1>1

\* A message the USO schedules for itself is one place more.
LEMMA Scheduled ==
  ASSUME selfMsgs \in Seq(UsoMsg), NEW k \in {"job", "finish"}, NEW c \in FedClient, NEW d \in RMS,
         selfMsgs' = Append(selfMsgs, InternalMsg(k, c, d)), NEW x \in RMS, NEW y \in FedClient
  PROVE  /\ selfMsgs' \in Seq(UsoMsg)
         /\ Ordered(x, y)' = Ordered(x, y) + (IF k = "job" /\ x = d /\ y = c THEN 1 ELSE 0)
         /\ Told(x, y)' = Told(x, y) + (IF k = "finish" /\ x = d /\ y = c THEN 1 ELSE 0)
<1> DEFINE m == InternalMsg(k, c, d)
<1>1. m \in UsoMsg
  BY DEF InternalMsg, UsoMsg
<1>2. /\ m \in {InternalMsg("job", y, x)} <=> k = "job" /\ x = d /\ y = c
      /\ m \in {InternalMsg("finish", y, x)} <=> k = "finish" /\ x = d /\ y = c
  BY MessageSpot
<1> HIDE DEF m
<1>3. selfMsgs' = Append(selfMsgs, m)
  BY DEF m
<1>4. \A M : Count(Append(selfMsgs, m), M) = Count(selfMsgs, M) + (IF m \in M THEN 1 ELSE 0)
  BY <1>1, CountAppend
<1>5. selfMsgs' \in Seq(UsoMsg)
  BY <1>1, <1>3
<1> QED BY <1>2, <1>3, <1>4, <1>5 DEF Ordered, Told

LEMMA RequestKeeps ==
  ASSUME TypeInv, Followed, NEW c \in FedClient, UsoRequest(c)
  PROVE  TypeInv' /\ Followed'
<1>1. PICK d \in RMS : cliList' = Added(c, d) /\ selfMsgs' = Append(selfMsgs, InternalMsg("job", c, d))
  BY DEF UsoRequest
<1>2. /\ request[c] = "job" /\ request' = [request EXCEPT ![c] = "response"]
      /\ UNCHANGED <<report, socket, requestSent, connectMsg, asked, sentRequests>>
      /\ UNCHANGED rmsVars /\ rmsConnected' = rmsConnected
  BY DEF UsoRequest
<1>3. ~Known(c) /\ report[c] \notin {"uso", "syn", "finish"} /\ ~connectMsg[c]
  BY <1>2 DEF Followed, Phases, TypeInv, ClientTypes
<1> DEFINE e == [client |-> c, nodes |-> asked[c].nodes, rms |-> d]
<1>4. /\ Added(c, d) \in Seq(FedEntry) /\ Single(Added(c, d))
      /\ ToSet(Added(c, d)) = Table \cup {e}
  BY <1>3, AddedToTable DEF TypeInv, Followed
<1>5. cliList' \in Seq(FedEntry) /\ KnownOnce' /\ Table' = Table \cup {e}
  BY <1>1, <1>4 DEF KnownOnce, Single, Table
<1>6. e.client = c /\ e.rms = d /\ e.nodes = asked[c].nodes
  OBVIOUS
<1> HIDE DEF e
<1>7. selfMsgs \in Seq(UsoMsg)
  BY DEF TypeInv, UsoTypes
<1>8. ASSUME NEW x \in RMS, NEW y \in FedClient
      PROVE  /\ selfMsgs' \in Seq(UsoMsg)
             /\ Ordered(x, y)' = Ordered(x, y) + (IF x = d /\ y = c THEN 1 ELSE 0)
             /\ Told(x, y)' = Told(x, y)
  <2>1. /\ selfMsgs' \in Seq(UsoMsg)
        /\ Ordered(x, y)' = Ordered(x, y) + (IF "job" = "job" /\ x = d /\ y = c THEN 1 ELSE 0)
        /\ Told(x, y)' = Told(x, y) + (IF "job" = "finish" /\ x = d /\ y = c THEN 1 ELSE 0)
    BY <1>1, <1>7, Scheduled
  <2>2. Told(x, y) \in Nat
    BY Places DEF PlacesAdd
  <2> QED BY <2>1, <2>2
<1>9. TypeInv'
  <2>1. request' \in [FedClient -> Connection]
    BY <1>2 DEF TypeInv, ClientTypes, Connection
  <2> QED BY <1>2, <1>5, <1>8, <2>1 DEF TypeInv, ClientTypes, RmsTypes, UsoTypes, rmsVars
<1>10. \A y \in FedClient : Known(y)' <=> Known(y) \/ y = c
  BY <1>5, <1>6 DEF Known
<1>11. Phases'
  <2>1. \A y \in FedClient : y # c => request'[y] = request[y]
    BY <1>2 DEF TypeInv, ClientTypes
  <2>2. request'[c] = "response"
    BY <1>2 DEF TypeInv, ClientTypes
  <2> QED BY <1>2, <1>3, <1>10, <2>1, <2>2 DEF Phases, Followed
<1>12. Counted'
  <2> SUFFICES ASSUME NEW x \in RMS, NEW y \in FedClient PROVE At(x, y)' = Due(x, y)'
    BY DEF Counted
  <2>1. At(x, y)' = At(x, y) + (IF x = d /\ y = c THEN 1 ELSE 0)
    <3>1. /\ At(x, y) = Ordered(x, y) + Sent(x, y) + Waits(x, y) + Runs(x, y) + Ended(x, y) + Told(x, y)
          /\ Ordered(x, y) \in Nat /\ Sent(x, y) \in Nat /\ Waits(x, y) \in Nat
          /\ Runs(x, y) \in Nat /\ Ended(x, y) \in Nat /\ Told(x, y) \in Nat
      BY Places DEF PlacesAdd
    <3>2. At(x, y)' = Ordered(x, y)' + Sent(x, y)' + Waits(x, y)' + Runs(x, y)' + Ended(x, y)' + Told(x, y)'
      BY <1>9, PlacesAfter DEF PlacesAdd
    <3>3. Sent(x, y)' = Sent(x, y) /\ Waits(x, y)' = Waits(x, y) /\ Runs(x, y)' = Runs(x, y)
          /\ Ended(x, y)' = Ended(x, y)
      BY <1>2 DEF Sent, Waits, Runs, Ended, rmsVars
    <3> QED BY <1>8, <3>1, <3>2, <3>3
  <2>2. Due(x, y)' = Due(x, y) + (IF x = d /\ y = c THEN 1 ELSE 0)
    <3>1. CASE y # c
      <4>1. Due(x, y)' = Due(x, y)
        BY <1>2, <1>5, <1>6, <3>1 DEF Due
      <4> QED BY <3>1, <4>1 DEF Due
    <3>2. CASE y = c
      <4>1. Due(x, c) = 0
        BY <1>3 DEF Due, Known
      <4>2. Due(x, c)' = IF x = d THEN 1 ELSE 0
        BY <1>2, <1>3, <1>5, <1>6 DEF Due, Known
      <4> QED BY <3>2, <4>1, <4>2
    <3> QED BY <3>1, <3>2
  <2> QED BY <2>1, <2>2 DEF Followed, Counted
<1>13. AsAsked' /\ WithinServers'
  <2>1. \A x \in RMS : Jobs(x)' = Jobs(x)
    BY <1>2 DEF Jobs, rmsVars
  <2> QED BY <1>2, <1>5, <1>6, <2>1 DEF AsAsked, WithinServers, Followed, rmsVars
<1> QED BY <1>5, <1>9, <1>11, <1>12, <1>13 DEF Followed

\* A message that is handled is one place fewer.
LEMMA Handled ==
  ASSUME selfMsgs \in Seq(UsoMsg), selfMsgs # <<>>, selfMsgs' = Tail(selfMsgs),
         NEW x \in RMS, NEW y \in FedClient
  PROVE  LET m == Head(selfMsgs)
         IN  /\ Ordered(x, y) = Ordered(x, y)' + (IF m.kind = "job" /\ m.rms = x /\ m.client = y THEN 1 ELSE 0)
             /\ Told(x, y) = Told(x, y)' + (IF m.kind = "finish" /\ m.rms = x /\ m.client = y THEN 1 ELSE 0)
<1> DEFINE m == Head(selfMsgs)
<1>1. m \in UsoMsg
  OBVIOUS
<1>2. /\ m \in {InternalMsg("job", y, x)} <=> m.kind = "job" /\ m.rms = x /\ m.client = y
      /\ m \in {InternalMsg("finish", y, x)} <=> m.kind = "finish" /\ m.rms = x /\ m.client = y
  <2> HIDE DEF m
  <2> QED BY <1>1, MessageIs
<1>3. \A M : Count(selfMsgs, M) = Count(Tail(selfMsgs), M) + (IF m \in M THEN 1 ELSE 0)
  BY CountHead
<1> HIDE DEF m
<1>4. /\ Ordered(x, y) = Ordered(x, y)' + (IF m.kind = "job" /\ m.rms = x /\ m.client = y THEN 1 ELSE 0)
      /\ Told(x, y) = Told(x, y)' + (IF m.kind = "finish" /\ m.rms = x /\ m.client = y THEN 1 ELSE 0)
  BY <1>2, <1>3 DEF Ordered, Told
<1> QED BY <1>4 DEF m

LEMMA HeadOfMessages ==
  ASSUME UsoTypes, selfMsgs # <<>>
  PROVE  /\ Head(selfMsgs) \in UsoMsg /\ Tail(selfMsgs) \in Seq(UsoMsg)
         /\ Head(selfMsgs).client \in FedClient /\ Head(selfMsgs).rms \in RMS
         /\ Head(selfMsgs).kind \in {"job", "finish"}
<1>1. Head(selfMsgs) \in UsoMsg /\ Tail(selfMsgs) \in Seq(UsoMsg)
  BY DEF UsoTypes
<1> QED BY <1>1 DEF UsoMsg

\* A job that waits to be forwarded is in the table.
LEMMA OrderIsKnown ==
  ASSUME TypeInv, Counted, selfMsgs # <<>>, Head(selfMsgs).kind = "job"
  PROVE  Known(Head(selfMsgs).client)
<1> DEFINE m == Head(selfMsgs)
           c == m.client
           d == m.rms
<1>1. m \in UsoMsg /\ c \in FedClient /\ d \in RMS
  BY HeadOfMessages DEF TypeInv
<1>2. selfMsgs \in Seq(UsoMsg)
  BY DEF TypeInv, UsoTypes
<1>3. m \in {InternalMsg("job", c, d)}
  <2>1. m.kind = "job"
    OBVIOUS
  <2> HIDE DEF m
  <2> QED BY <1>1, <2>1, MessageIs
<1>4. Count(selfMsgs, {InternalMsg("job", c, d)}) = Count(Tail(selfMsgs), {InternalMsg("job", c, d)}) + 1
  BY <1>2, <1>3, CountHead
<1>5. Count(Tail(selfMsgs), {InternalMsg("job", c, d)}) \in Nat
  <2>1. Tail(selfMsgs) \in Seq(UsoMsg)
    BY <1>2
  <2> QED BY <2>1, CountNat
<1> HIDE DEF c, d, m
<1>6. Ordered(d, c) # 0
  BY <1>4, <1>5 DEF Ordered
<1>7. Known(c)
  BY <1>1, <1>6, OnePlace
<1> QED BY <1>7 DEF c, m

\* The job that is forwarded is the one the client asked for.
LEMMA ForwardedIsAsked ==
  ASSUME TypeInv, Followed, selfMsgs # <<>>, Head(selfMsgs).kind = "job"
  PROVE  LET c == Head(selfMsgs).client
         IN  Forwarded(c) \in FedJob /\ Forwarded(c).client = c /\ Forwarded(c).nodes = asked[c].nodes
<1> DEFINE c == Head(selfMsgs).client
<1>1. c \in FedClient
  BY HeadOfMessages DEF TypeInv
<1>2. Known(c)
  BY OrderIsKnown DEF Followed
<1> HIDE DEF c
<1>3. Lookup(c) \in Table /\ Lookup(c).client = c
  BY <1>2, LookupFinds DEF TypeInv
<1>4. Lookup(c).nodes = asked[c].nodes
  BY <1>3 DEF Followed, AsAsked
<1>5. asked[c] \in Job
  BY <1>1 DEF TypeInv, ClientTypes
<1>6. Forwarded(c) \in FedJob /\ Forwarded(c).client = c /\ Forwarded(c).nodes = asked[c].nodes
  BY <1>1, <1>4, <1>5, JobType DEF Forwarded, FedJob
<1> QED BY <1>6 DEF c

LEMMA InternalJobKeeps ==
  ASSUME TypeInv, Followed, InternalJob
  PROVE  TypeInv' /\ (~usoError' => Followed')
<1> DEFINE m == Head(selfMsgs)
           c == m.client
           d == m.rms
           f == Forwarded(c)
<1>1. /\ selfMsgs # <<>> /\ m.kind = "job" /\ selfMsgs' = Tail(selfMsgs)
      /\ UNCHANGED clientVars /\ UNCHANGED <<queue, running, toUso, rmsConnected, cliList>>
  BY DEF InternalJob
<1>2. /\ m \in UsoMsg /\ c \in FedClient /\ d \in RMS /\ Tail(selfMsgs) \in Seq(UsoMsg)
  BY <1>1, HeadOfMessages DEF TypeInv
<1>3. f \in FedJob /\ f.client = c /\ f.nodes = asked[c].nodes
  BY <1>1, ForwardedIsAsked
<1>4. CASE m.rms \notin rmsConnected
  <2>1. requested' = requested /\ usoError'
    BY <1>4 DEF InternalJob
  <2> QED BY <1>1, <1>2, <2>1 DEF TypeInv, ClientTypes, RmsTypes, UsoTypes, clientVars
<1>5. CASE m.rms \in rmsConnected
  <2>1. requested' = [requested EXCEPT ![d] = Append(requested[d], f)]
    BY <1>2, <1>5 DEF InternalJob, TypeInv, RmsTypes
  <2>2. \A x \in RMS, y \in FedClient :
          /\ Ordered(x, y) = Ordered(x, y)' + (IF d = x /\ c = y THEN 1 ELSE 0)
          /\ Told(x, y) = Told(x, y)' + (IF m.kind = "finish" /\ d = x /\ c = y THEN 1 ELSE 0)
    <3>1. selfMsgs \in Seq(UsoMsg)
      BY DEF TypeInv, UsoTypes
    <3> QED BY <1>1, <3>1, Handled
  <2> HIDE DEF f
  <2>3. requested[d] \in Seq(FedJob)
    BY <1>2, RmsTypesOf
  <2>4. Append(requested[d], f) \in Seq(FedJob)
    BY <1>3, <2>3
  <2> HIDE DEF c, d
  <2>5. requested' \in [RMS -> Seq(FedJob)]
    <3> DEFINE w == Append(requested[d], f)
    <3>1. w \in Seq(FedJob) /\ requested' = [requested EXCEPT ![d] = w]
      BY <2>1, <2>4
    <3> HIDE DEF w
    <3> QED BY <3>1 DEF TypeInv, RmsTypes
  <2>6. TypeInv'
    BY <1>1, <1>2, <2>5 DEF TypeInv, ClientTypes, RmsTypes, UsoTypes, clientVars
  <2>7. Table' = Table /\ \A y : Known(y)' <=> Known(y)
    BY <1>1 DEF Table, Known
  <2>8. KnownOnce' /\ Phases' /\ WithinServers'
    BY <1>1, <2>7 DEF Followed, KnownOnce, Single, Phases, WithinServers, clientVars
  <2>9. \A x \in RMS : requested'[x] = IF x = d THEN Append(requested[d], f) ELSE requested[x]
    BY <2>1 DEF TypeInv, RmsTypes
  <2>10. Counted'
    <3> SUFFICES ASSUME NEW x \in RMS, NEW y \in FedClient PROVE At(x, y)' = Due(x, y)'
      BY DEF Counted
    <3>1. /\ At(x, y) = Ordered(x, y) + Sent(x, y) + Waits(x, y) + Runs(x, y) + Ended(x, y) + Told(x, y)
          /\ Ordered(x, y) \in Nat /\ Sent(x, y) \in Nat /\ Waits(x, y) \in Nat
          /\ Runs(x, y) \in Nat /\ Ended(x, y) \in Nat /\ Told(x, y) \in Nat
      BY Places DEF PlacesAdd
    <3>2. /\ At(x, y)' = Ordered(x, y)' + Sent(x, y)' + Waits(x, y)' + Runs(x, y)' + Ended(x, y)' + Told(x, y)'
          /\ Ordered(x, y)' \in Nat /\ Told(x, y)' \in Nat
      BY <2>6, PlacesAfter DEF PlacesAdd
    <3>3. Waits(x, y)' = Waits(x, y) /\ Runs(x, y)' = Runs(x, y) /\ Ended(x, y)' = Ended(x, y)
      BY <1>1 DEF Waits, Runs, Ended
    <3>4. Sent(x, y)' = Sent(x, y) + (IF d = x /\ c = y THEN 1 ELSE 0)
      <4>1. CASE x # d
        BY <2>9, <3>1, <4>1 DEF Sent
      <4>2. CASE x = d
        <5>1. Count(Append(requested[d], f), JobsOf(y)) = Count(requested[d], JobsOf(y)) + (IF f \in JobsOf(y) THEN 1 ELSE 0)
          BY <1>3, <2>3, CountAppend
        <5>2. f \in JobsOf(y) <=> c = y
          BY <1>3 DEF JobsOf
        <5> QED BY <2>9, <4>2, <5>1, <5>2 DEF Sent
      <4> QED BY <4>1, <4>2
    <3>5. /\ Ordered(x, y) = Ordered(x, y)' + (IF d = x /\ c = y THEN 1 ELSE 0)
          /\ Told(x, y) = Told(x, y)'
      <4>1. m.kind # "finish"
        BY <1>1
      <4>2. Told(x, y)' \in Nat
        BY <3>2
      <4>3. Told(x, y) = Told(x, y)' + 0
        BY <2>2, <4>1
      <4> QED BY <2>2, <4>2, <4>3
    <3>6. At(x, y)' = At(x, y)
      BY <3>1, <3>2, <3>3, <3>4, <3>5
    <3>7. Due(x, y)' = Due(x, y)
      BY <1>1, <2>7 DEF Due, clientVars
    <3> QED BY <3>6, <3>7 DEF Followed, Counted
  <2>11. AsAsked'
    <3> SUFFICES ASSUME NEW x \in RMS, NEW t \in Jobs(x)' PROVE t.nodes = asked[t.client].nodes
      BY <1>1, <2>7 DEF AsAsked, Followed, clientVars
    <3>1. t \in Jobs(x) \/ t = f
      <4>1. CASE x # d
        BY <1>1, <2>9, <4>1 DEF Jobs
      <4>2. CASE x = d
        <5>1. ToSet(Append(requested[d], f)) = ToSet(requested[d]) \cup {f}
          BY <1>3, <2>3, MembersOfSeq
        <5> QED BY <1>1, <2>9, <4>2, <5>1 DEF Jobs
      <4> QED BY <4>1, <4>2
    <3> QED BY <1>3, <3>1 DEF AsAsked, Followed
  <2> QED BY <2>6, <2>8, <2>10, <2>11 DEF Followed
<1> QED BY <1>4, <1>5

LEMMA UsoFinishKeeps ==
  ASSUME TypeInv, Followed, NEW d \in RMS, UsoFinish(d)
  PROVE  TypeInv' /\ Followed'
<1> DEFINE c == Head(toUso[d])
<1>1. /\ toUso[d] # <<>> /\ selfMsgs' = Append(selfMsgs, InternalMsg("finish", c, d))
      /\ toUso' = [toUso EXCEPT ![d] = Tail(toUso[d])]
      /\ UNCHANGED clientVars /\ UNCHANGED <<queue, running, requested, rmsConnected, cliList>>
  BY DEF UsoFinish, TypeInv, RmsTypes
<1>2. toUso[d] \in Seq(FedClient)
  BY RmsTypesOf
<1>3. c \in FedClient /\ Tail(toUso[d]) \in Seq(FedClient)
  BY <1>1, <1>2
<1>4. \A y : Count(toUso[d], {y}) = Count(Tail(toUso[d]), {y}) + (IF c \in {y} THEN 1 ELSE 0)
  BY <1>1, <1>2, CountHead
<1> HIDE DEF c
<1>5. selfMsgs \in Seq(UsoMsg)
  BY DEF TypeInv, UsoTypes
<1>6. ASSUME NEW x \in RMS, NEW y \in FedClient
      PROVE  /\ selfMsgs' \in Seq(UsoMsg)
             /\ Ordered(x, y)' = Ordered(x, y) + 0
             /\ Told(x, y)' = Told(x, y) + (IF x = d /\ y = c THEN 1 ELSE 0)
  <2>1. /\ selfMsgs' \in Seq(UsoMsg)
        /\ Ordered(x, y)' = Ordered(x, y) + (IF "finish" = "job" /\ x = d /\ y = c THEN 1 ELSE 0)
        /\ Told(x, y)' = Told(x, y) + (IF "finish" = "finish" /\ x = d /\ y = c THEN 1 ELSE 0)
    BY <1>1, <1>3, <1>5, Scheduled
  <2> QED BY <2>1
<1>7. TypeInv'
  <2>1. selfMsgs' \in Seq(UsoMsg)
    BY <1>3, <1>6
  <2>2. toUso' \in [RMS -> Seq(FedClient)]
    BY <1>1, <1>3 DEF TypeInv, RmsTypes
  <2> QED BY <1>1, <2>1, <2>2 DEF TypeInv, ClientTypes, RmsTypes, UsoTypes, clientVars
<1>8. Table' = Table /\ \A y : Known(y)' <=> Known(y)
  BY <1>1 DEF Table, Known
<1>9. KnownOnce' /\ Phases' /\ WithinServers' /\ AsAsked'
  BY <1>1, <1>8 DEF Followed, KnownOnce, Single, Phases, WithinServers, AsAsked, Jobs, clientVars
<1>10. Counted'
  <2> SUFFICES ASSUME NEW x \in RMS, NEW y \in FedClient PROVE At(x, y)' = Due(x, y)'
    BY DEF Counted
  <2>1. /\ At(x, y) = Ordered(x, y) + Sent(x, y) + Waits(x, y) + Runs(x, y) + Ended(x, y) + Told(x, y)
        /\ Ordered(x, y) \in Nat /\ Sent(x, y) \in Nat /\ Waits(x, y) \in Nat
        /\ Runs(x, y) \in Nat /\ Ended(x, y) \in Nat /\ Told(x, y) \in Nat
    BY Places DEF PlacesAdd
  <2>2. /\ At(x, y)' = Ordered(x, y)' + Sent(x, y)' + Waits(x, y)' + Runs(x, y)' + Ended(x, y)' + Told(x, y)'
        /\ Ended(x, y)' \in Nat
    BY <1>7, PlacesAfter DEF PlacesAdd
  <2>3. Waits(x, y)' = Waits(x, y) /\ Runs(x, y)' = Runs(x, y) /\ Sent(x, y)' = Sent(x, y)
    BY <1>1 DEF Waits, Runs, Sent
  <2>4. Ended(x, y) = Ended(x, y)' + (IF x = d /\ y = c THEN 1 ELSE 0)
    <3>1. CASE x # d
      <4>1. toUso'[x] = toUso[x]
        BY <1>1, <3>1 DEF TypeInv, RmsTypes
      <4> QED BY <2>1, <3>1, <4>1 DEF Ended
    <3>2. CASE x = d
      <4>1. toUso'[d] = Tail(toUso[d])
        BY <1>1 DEF TypeInv, RmsTypes
      <4> QED BY <1>4, <3>2, <4>1 DEF Ended
    <3> QED BY <3>1, <3>2
  <2>5. At(x, y)' = At(x, y)
    BY <1>6, <2>1, <2>2, <2>3, <2>4
  <2>6. Due(x, y)' = Due(x, y)
    BY <1>1, <1>8 DEF Due, clientVars
  <2> QED BY <2>5, <2>6 DEF Followed, Counted
<1> QED BY <1>7, <1>9, <1>10 DEF Followed

\* The table has one data centre for a client.
LEMMA OneDue ==
  ASSUME KnownOnce, NEW c, NEW d, NEW x, Due(d, c) = 1, Due(x, c) = 1
  PROVE  x = d
<1>1. PICK k \in DOMAIN cliList : cliList[k].client = c /\ cliList[k].rms = d
  BY DEF Due, Table, ToSet
<1>2. PICK l \in DOMAIN cliList : cliList[l].client = c /\ cliList[l].rms = x
  BY DEF Due, Table, ToSet
<1> QED BY <1>1, <1>2 DEF KnownOnce, Single

LEMMA InternalFinishKeeps ==
  ASSUME TypeInv, Followed, InternalFinish
  PROVE  TypeInv' /\ Followed'
<1> DEFINE m == Head(selfMsgs)
<1>0. PICK c \in FedClient, d \in RMS : c = m.client /\ d = m.rms
  <2>1. selfMsgs # <<>>
    BY DEF InternalFinish
  <2> QED BY <2>1, HeadOfMessages DEF TypeInv
<1>1. /\ selfMsgs # <<>> /\ m.kind = "finish" /\ selfMsgs' = Tail(selfMsgs)
      /\ report' = [report EXCEPT ![c] = "uso"]
      /\ UNCHANGED <<request, socket, requestSent, connectMsg, asked, sentRequests>>
      /\ UNCHANGED rmsVars /\ rmsConnected' = rmsConnected /\ cliList' = cliList
  BY <1>0 DEF InternalFinish
<1>2. m \in UsoMsg /\ c \in FedClient /\ d \in RMS /\ Tail(selfMsgs) \in Seq(UsoMsg)
  BY <1>0, <1>1, HeadOfMessages DEF TypeInv
<1>3. \A x \in RMS, y \in FedClient :
        /\ Ordered(x, y) = Ordered(x, y)' + (IF m.kind = "job" /\ d = x /\ c = y THEN 1 ELSE 0)
        /\ Told(x, y) = Told(x, y)' + (IF d = x /\ c = y THEN 1 ELSE 0)
  <2>1. selfMsgs \in Seq(UsoMsg)
    BY DEF TypeInv, UsoTypes
  <2> QED BY <1>0, <1>1, <2>1, Handled
<1>4. m.kind # "job"
  BY <1>1
<1>5. report' \in [FedClient -> Connection] /\ report'[c] = "uso" /\ \A y \in FedClient : y # c => report'[y] = report[y]
  BY <1>1, <1>2 DEF TypeInv, ClientTypes, Connection
<1>6. TypeInv'
  BY <1>1, <1>2, <1>5 DEF TypeInv, ClientTypes, RmsTypes, UsoTypes, rmsVars
<1>7. Due(d, c) = 1 /\ Known(c) /\ report[c] # "uso"
  <2>1. Told(d, c)' \in Nat
    BY <1>2, <1>6, PlacesAfter DEF PlacesAdd
  <2>2. Told(d, c) = Told(d, c)' + 1
    BY <1>2, <1>3
  <2>3. Told(d, c) # 0
    BY <2>1, <2>2
  <2> QED BY <1>2, <2>3, OnePlace DEF Followed
<1>8. Table' = Table /\ \A y : Known(y)' <=> Known(y)
  BY <1>1 DEF Table, Known
<1>9. KnownOnce' /\ WithinServers' /\ AsAsked'
  BY <1>1, <1>8 DEF Followed, KnownOnce, Single, WithinServers, AsAsked, Jobs, rmsVars
<1>10. Phases'
  <2> SUFFICES ASSUME NEW y \in FedClient
               PROVE  /\ connectMsg[y] => request[y] \notin {"syn", "job"}
                      /\ connectMsg[y] \/ request[y] \in {"syn", "job"} =>
                           ~Known(y) /\ report'[y] \notin {"uso", "syn", "finish"}
                      /\ Known(y) => report'[y] \notin {"syn", "finish"}
                      /\ report'[y] = "uso" => Known(y)
    BY <1>1, <1>8 DEF Phases
  <2>1. /\ connectMsg[y] => request[y] \notin {"syn", "job"}
        /\ connectMsg[y] \/ request[y] \in {"syn", "job"} =>
             ~Known(y) /\ report[y] \notin {"uso", "syn", "finish"}
        /\ Known(y) => report[y] \notin {"syn", "finish"}
        /\ report[y] = "uso" => Known(y)
    BY DEF Followed, Phases
  <2> QED BY <1>5, <1>7, <2>1
<1>11. Counted'
  <2> SUFFICES ASSUME NEW x \in RMS, NEW y \in FedClient PROVE At(x, y)' = Due(x, y)'
    BY DEF Counted
  <2>1. /\ At(x, y) = Ordered(x, y) + Sent(x, y) + Waits(x, y) + Runs(x, y) + Ended(x, y) + Told(x, y)
        /\ Ordered(x, y) \in Nat /\ Sent(x, y) \in Nat /\ Waits(x, y) \in Nat
        /\ Runs(x, y) \in Nat /\ Ended(x, y) \in Nat /\ Told(x, y) \in Nat
    BY Places DEF PlacesAdd
  <2>2. /\ At(x, y)' = Ordered(x, y)' + Sent(x, y)' + Waits(x, y)' + Runs(x, y)' + Ended(x, y)' + Told(x, y)'
        /\ Ordered(x, y)' \in Nat /\ Told(x, y)' \in Nat
    BY <1>6, PlacesAfter DEF PlacesAdd
  <2>3. /\ Waits(x, y)' = Waits(x, y) /\ Runs(x, y)' = Runs(x, y) /\ Sent(x, y)' = Sent(x, y)
        /\ Ended(x, y)' = Ended(x, y)
    BY <1>1 DEF Waits, Runs, Sent, Ended, rmsVars
  <2>4. Ordered(x, y) = Ordered(x, y)' + 0
    BY <1>3, <1>4
  <2>5. At(x, y) = At(x, y)' + (IF d = x /\ c = y THEN 1 ELSE 0)
    BY <1>3, <2>1, <2>2, <2>3, <2>4
  <2>6. At(x, y) = Due(x, y) /\ Due(x, y) \in {0, 1}
    BY DEF Followed, Counted, Due
  <2>7. CASE y # c
    <3>1. Due(x, y)' = Due(x, y)
      BY <1>5, <1>8, <2>7 DEF Due
    <3>2. At(x, y)' \in Nat
      BY <2>1, <2>2, <2>3
    <3> QED BY <2>5, <2>6, <2>7, <3>1, <3>2
  <2>8. CASE y = c
    <3>1. Due(x, c)' = 0
      BY <1>5 DEF Due
    <3>2. Due(x, c) = IF x = d THEN 1 ELSE 0
      BY <1>7, <2>6, <2>8, OneDue DEF Followed
    <3>3. At(x, y)' \in Nat
      BY <2>1, <2>2, <2>3
    <3> QED BY <2>5, <2>6, <2>8, <3>1, <3>2, <3>3
  <2> QED BY <2>7, <2>8
<1> QED BY <1>6, <1>9, <1>10, <1>11 DEF Followed

LEMMA ReportKeeps ==
  ASSUME TypeInv, Followed, NEW c \in FedClient, ReportEstablished(c)
  PROVE  TypeInv' /\ Followed'
<1>1. /\ report[c] = "uso" /\ report' = [report EXCEPT ![c] = "syn"]
      /\ cliList' = Deleted(cliList, c)
      /\ UNCHANGED <<request, socket, requestSent, connectMsg, asked, sentRequests>>
      /\ UNCHANGED rmsVars /\ rmsConnected' = rmsConnected /\ selfMsgs' = selfMsgs
  BY DEF ReportEstablished, DeleteClient
<1>2. Known(c) /\ ~connectMsg[c] /\ request[c] \notin {"syn", "job"}
  BY <1>1 DEF Followed, Phases
<1>3. cliList' \in Seq(FedEntry) /\ KnownOnce' /\ Table' = {e \in Table : e.client # c}
  <2>1. /\ Deleted(cliList, c) \in Seq(FedEntry) /\ Single(Deleted(cliList, c))
        /\ ToSet(Deleted(cliList, c)) = {e \in Table : e.client # c}
    BY <1>2, DeletedFromTable DEF TypeInv, Followed
  <2> QED BY <1>1, <2>1 DEF KnownOnce, Single, Table
<1>4. report' \in [FedClient -> Connection] /\ report'[c] = "syn" /\ \A y \in FedClient : y # c => report'[y] = report[y]
  BY <1>1 DEF TypeInv, ClientTypes, Connection
<1>5. TypeInv'
  BY <1>1, <1>3, <1>4 DEF TypeInv, ClientTypes, RmsTypes, UsoTypes, rmsVars
<1>6. \A y : Known(y)' <=> Known(y) /\ y # c
  BY <1>3 DEF Known
<1>7. Phases'
  <2> SUFFICES ASSUME NEW y \in FedClient
               PROVE  /\ connectMsg[y] => request[y] \notin {"syn", "job"}
                      /\ connectMsg[y] \/ request[y] \in {"syn", "job"} =>
                           ~(Known(y) /\ y # c) /\ report'[y] \notin {"uso", "syn", "finish"}
                      /\ Known(y) /\ y # c => report'[y] \notin {"syn", "finish"}
                      /\ report'[y] = "uso" => Known(y) /\ y # c
    BY <1>1, <1>6 DEF Phases
  <2>1. /\ connectMsg[y] => request[y] \notin {"syn", "job"}
        /\ connectMsg[y] \/ request[y] \in {"syn", "job"} =>
             ~Known(y) /\ report[y] \notin {"uso", "syn", "finish"}
        /\ Known(y) => report[y] \notin {"syn", "finish"}
        /\ report[y] = "uso" => Known(y)
    BY DEF Followed, Phases
  <2> QED BY <1>2, <1>4, <2>1
<1>8. Counted'
  <2> SUFFICES ASSUME NEW x \in RMS, NEW y \in FedClient PROVE At(x, y)' = Due(x, y)'
    BY DEF Counted
  <2>1. At(x, y)' = At(x, y)
    BY <1>1 DEF At, rmsVars
  <2>2. CASE y # c
    <3>1. Due(x, y)' = Due(x, y)
      BY <1>3, <1>4, <2>2 DEF Due
    <3> QED BY <2>1, <3>1 DEF Followed, Counted
  <2>3. CASE y = c
    <3>1. Due(x, c)' = 0
      BY <1>3 DEF Due
    <3>2. Due(x, c) = 0
      BY <1>1 DEF Due
    <3> QED BY <2>1, <2>3, <3>1, <3>2 DEF Followed, Counted
  <2> QED BY <2>2, <2>3
<1>9. AsAsked' /\ WithinServers'
  <2>1. \A x \in RMS : Jobs(x)' = Jobs(x)
    BY <1>1 DEF Jobs, rmsVars
  <2> QED BY <1>1, <1>3, <2>1 DEF AsAsked, WithinServers, Followed, rmsVars
<1> QED BY <1>3, <1>5, <1>7, <1>8, <1>9 DEF Followed

-----------------------------------------------------------------------------
(* The invariant *)

LEMMA InvInit == FederationInit => Inv
<1> SUFFICES ASSUME FederationInit PROVE TypeInv /\ Followed
  BY DEF Inv
<1> USE DEF FederationInit, ClientsInit, RmsInit, UsoInit
<1>1. TypeInv
  <2>1. ClientTypes
    <3>1. SomeJob \in Job
      BY ClientsAssumption DEF SomeJob, Job
    <3>2. asked \in [FedClient -> Job]
      <4> HIDE DEF FederationInit, RmsInit, UsoInit
      <4> QED BY <3>1 DEF FederationInit
    <3> QED BY <3>2 DEF ClientTypes, Connection
  <2>2. RmsTypes
    <3>1. IsFiniteSet({})
      BY FS_EmptySet
    <3> QED BY <3>1 DEF RmsTypes
  <2>3. UsoTypes
    BY DEF UsoTypes
  <2> QED BY <2>1, <2>2, <2>3 DEF TypeInv
<1>2. Table = {}
  BY DEF Table, ToSet
<1>3. KnownOnce /\ Phases
  <2>1. KnownOnce
    BY DEF KnownOnce, Single
  <2>2. Phases
    BY <1>2 DEF Phases, Known
  <2> QED BY <2>1, <2>2
<1>4. Cardinality({}) = 0
  BY FS_EmptySet
<1>5. Counted
  <2> SUFFICES ASSUME NEW d \in RMS, NEW c \in FedClient PROVE At(d, c) = Due(d, c)
    BY DEF Counted
  <2>1. Due(d, c) = 0
    BY <1>2 DEF Due
  <2>2. /\ Ordered(d, c) = 0 /\ Sent(d, c) = 0 /\ Waits(d, c) = 0
        /\ Runs(d, c) = 0 /\ Ended(d, c) = 0 /\ Told(d, c) = 0
    <3>1. \A M : Count(<<>>, M) = 0
      <4>1. \A M : Spots(<<>>, M) = {}
        BY DEF Spots
      <4> QED BY <1>4, <4>1 DEF Count
    <3>2. selfMsgs = <<>> /\ requested[d] = <<>> /\ queue[d] = <<>> /\ toUso[d] = <<>> /\ running[d] = {}
      OBVIOUS
    <3>3. Here({}, c) = {}
      BY DEF Here
    <3> HIDE DEF FederationInit, ClientsInit, RmsInit, UsoInit
    <3>4. /\ Ordered(d, c) = 0 /\ Sent(d, c) = 0 /\ Waits(d, c) = 0 /\ Ended(d, c) = 0 /\ Told(d, c) = 0
      BY <3>1, <3>2 DEF Ordered, Sent, Waits, Ended, Told
    <3>5. Runs(d, c) = 0
      BY <1>4, <3>2, <3>3 DEF Runs
    <3> QED BY <3>4, <3>5
  <2>3. At(d, c) = Ordered(d, c) + Sent(d, c) + Waits(d, c) + Runs(d, c) + Ended(d, c) + Told(d, c)
    BY <1>1, Places DEF PlacesAdd
  <2> HIDE DEF FederationInit, ClientsInit, RmsInit, UsoInit
  <2> QED BY <2>1, <2>2, <2>3
<1>6. AsAsked
  <2>1. \A d \in RMS : Jobs(d) = {}
    BY DEF Jobs, ToSet
  <2> QED BY <1>2, <2>1 DEF AsAsked
<1>7. WithinServers
  <2>1. Occupied({}) = 0
    <3>1. UNION {OwnUnits(t) : t \in {}} = {}
      OBVIOUS
    <3> QED BY <1>4, <3>1 DEF Occupied, OwnUnits
  <2>2. \A d \in RMS : running[d] = {}
    OBVIOUS
  <2> QED BY <2>1, <2>2, DataCentresAssumption DEF WithinServers
<1> QED BY <1>1, <1>3, <1>5, <1>6, <1>7 DEF Followed

LEMMA InvNext == Inv /\ [Next]_vars => Inv'
<1> SUFFICES ASSUME Inv, [Next]_vars PROVE Inv'
  OBVIOUS
<1>1. CASE UNCHANGED vars
  <2>1. TypeInv'
    BY <1>1 DEF Inv, TypeInv, ClientTypes, RmsTypes, UsoTypes, vars, clientVars, rmsVars, usoVars
  <2>2. /\ UNCHANGED <<rmsVars, cliList, selfMsgs>> /\ UNCHANGED clientVars /\ usoError' = usoError
    BY <1>1 DEF vars, usoVars
  <2>3. /\ Table' = Table /\ \A x : Known(x)' <=> Known(x)
        /\ \A x \in RMS : Jobs(x)' = Jobs(x) /\ \A c : At(x, c)' = At(x, c)
    BY <2>2, SamePlaces
  <2>4. Followed => Followed'
    <3> SUFFICES ASSUME Followed PROVE Followed'
      OBVIOUS
    <3>1. KnownOnce' /\ WithinServers'
      BY <2>2 DEF Followed, KnownOnce, Single, WithinServers, rmsVars
    <3>2. Phases' /\ AsAsked'
      BY <2>2, <2>3 DEF Followed, Phases, AsAsked, clientVars
    <3>3. Counted'
      <4>1. \A x \in RMS, c \in FedClient : Due(x, c)' = Due(x, c)
        BY <2>2, <2>3 DEF Due, clientVars
      <4> QED BY <2>3, <4>1 DEF Followed, Counted
    <3> QED BY <3>1, <3>2, <3>3 DEF Followed
  <2> QED BY <2>1, <2>2, <2>4 DEF Inv
<1>2. CASE Next
  <2>1. TypeInv /\ Followed
    BY <1>2 DEF Inv, Next
  <2>2. ASSUME NEW c \in FedClient, ClientEvent(c) PROVE Inv'
    <3>1. (Connect(c) \/ ClientStep(c)) /\ UNCHANGED <<rmsVars, usoVars>>
      BY <2>2 DEF ClientEvent
    <3> QED BY <2>1, <3>1, ClientKeeps DEF Inv
  <2>3. ASSUME NEW d \in RMS, RmsEvent(d) PROVE Inv'
    <3>1. CASE AcceptJob(d) /\ UNCHANGED <<clientVars, usoVars>>
      BY <2>1, <3>1, AcceptKeeps DEF Inv
    <3>2. ASSUME NEW t \in running[d], EndJob(d, t), UNCHANGED <<clientVars, usoVars>> PROVE Inv'
      BY <2>1, <3>2, EndKeeps DEF Inv
    <3> QED BY <2>3, <3>1, <3>2 DEF RmsEvent
  <2>4. CASE UsoStep
    <3>1. CASE InternalJob
      BY <2>1, <3>1, InternalJobKeeps DEF Inv
    <3>2. CASE InternalFinish
      BY <2>1, <3>2, InternalFinishKeeps DEF Inv
    <3>3. ASSUME NEW d \in RMS, RmsEstablished(d) \/ UsoFinish(d) PROVE Inv'
      BY <2>1, <3>3, EstablishedKeeps, UsoFinishKeeps DEF Inv
    <3>4. ASSUME NEW c \in FedClient, UsoRequest(c) \/ ReportEstablished(c) \/ PeerClosed(c) PROVE Inv'
      BY <2>1, <3>4, RequestKeeps, ReportKeeps, PeerClosedKeeps DEF Inv
    <3> QED BY <2>4, <3>1, <3>2, <3>3, <3>4 DEF UsoStep
  <2> QED BY <1>2, <2>2, <2>3, <2>4 DEF Next
<1> QED BY <1>1, <1>2

LEMMA InvHolds == Spec => []Inv
BY InvInit, InvNext, PTL DEF Spec

LEMMA FollowedMeans ==
  ASSUME Followed PROVE JobsFollowed
<1> SUFFICES ASSUME NEW c \in FedClient
             PROVE  LET mine == {p \in DOMAIN cliList : cliList[p].client = c}
                    IN  /\ Cardinality(mine) <= 1
                        /\ \A d \in RMS : At(d, c) =
                             IF report[c] # "uso" /\ \E p \in mine : cliList[p].rms = d THEN 1 ELSE 0
  BY DEF JobsFollowed, Followed, AsAsked
<1> DEFINE mine == {p \in DOMAIN cliList : cliList[p].client = c}
<1>1. \A k, l \in mine : k = l
  BY DEF Followed, KnownOnce, Single
<1>2. Cardinality(mine) <= 1
  <2> HIDE DEF mine
  <2>1. CASE mine = {}
    <3>1. Cardinality({}) = 0
      BY FS_EmptySet
    <3>2. Cardinality(mine) = 0
      BY <2>1, <3>1
    <3> QED BY <3>2
  <2>2. CASE mine # {}
    <3>1. PICK k : mine = {k}
      BY <1>1, <2>2
    <3>2. Cardinality({k}) = 1
      BY FS_Singleton
    <3>3. Cardinality(mine) = 1
      BY <3>1, <3>2
    <3> QED BY <3>3
  <2> QED BY <2>1, <2>2
<1>3. ASSUME NEW d \in RMS
      PROVE  At(d, c) = IF report[c] # "uso" /\ \E p \in mine : cliList[p].rms = d THEN 1 ELSE 0
  <2>1. (\E p \in mine : cliList[p].rms = d) <=> \E e \in Table : e.client = c /\ e.rms = d
    BY DEF Table, ToSet
  <2> HIDE DEF mine
  <2>2. At(d, c) = Due(d, c)
    BY DEF Followed, Counted
  <2> QED BY <2>1, <2>2 DEF Due
<1> QED BY <1>2, <1>3

-----------------------------------------------------------------------------
(* Slow timers: no assertion fails *)

\* The end of the job of c is on its way to the USO, or in its own messages.
Late(c) == \E d \in RMS : c \in ToSet(toUso[d]) \/ InternalMsg("finish", c, d) \in ToSet(selfMsgs)

\* With slow timers the connection of a request is closed before the job ends, and that of a report
\* before the next request: the socket object stands for the one that is open.
Orderly(c) ==
  /\ request[c] # "none" => socket[c] = "request"
  /\ report[c] \in {"finish", "clientClosed", "usoClosed"} => socket[c] = "report"
  /\ report[c] \in {"uso", "syn"} \/ Late(c) => request[c] = "none" /\ requestSent[c]
  /\ Known(c) => requestSent[c] \/ request[c] = "response"
  /\ Known(c) \/ request[c] \in {"syn", "job"} => rmsConnected = RMS

NoErrors == ~socketError /\ ~usoError

SlowInv == NoErrors /\ \A c \in FedClient : Orderly(c)

LEMMA LateKnown ==
  ASSUME TypeInv, Counted, NEW c \in FedClient, Late(c)
  PROVE  Known(c)
<1>1. PICK d \in RMS : c \in ToSet(toUso[d]) \/ InternalMsg("finish", c, d) \in ToSet(selfMsgs)
  BY DEF Late
<1>2. toUso[d] \in Seq(FedClient) /\ selfMsgs \in Seq(UsoMsg)
  BY RmsTypesOf DEF TypeInv, UsoTypes
<1>3. CASE c \in ToSet(toUso[d])
  <2>1. \E k \in DOMAIN toUso[d] : toUso[d][k] \in {c}
    BY <1>3 DEF ToSet
  <2>2. Ended(d, c) # 0
    BY <1>2, <2>1, CountMeans DEF Ended
  <2> QED BY <2>2, OnePlace
<1>4. CASE InternalMsg("finish", c, d) \in ToSet(selfMsgs)
  <2> DEFINE M == {InternalMsg("finish", c, d)}
  <2>1. \E k \in DOMAIN selfMsgs : selfMsgs[k] \in M
    BY <1>4 DEF ToSet
  <2> HIDE DEF M
  <2>2. Count(selfMsgs, M) # 0
    BY <1>2, <2>1, CountMeans
  <2>3. Told(d, c) # 0
    BY <2>2 DEF Told, M
  <2> QED BY <2>3, OnePlace
<1> QED BY <1>1, <1>3, <1>4

LEMMA SlowConnect ==
  ASSUME TypeInv, Followed, SlowInv, SlowTimers, NEW c \in FedClient, Connect(c), rmsConnected = RMS,
         UNCHANGED <<rmsVars, usoVars>>
  PROVE  SlowInv'
<1>1. Table' = Table /\ (\A x : Known(x)' <=> Known(x)) /\ \A x : Late(x)' <=> Late(x)
  BY DEF usoVars, rmsVars, Table, Known, Late
<1>2. ~Known(c) /\ ~Late(c)
  <2>1. connectMsg[c]
    BY DEF Connect
  <2>2. ~Known(c)
    BY <2>1 DEF Followed, Phases
  <2> QED BY <2>2, LateKnown DEF Followed
<1>3. ASSUME NEW x \in FedClient PROVE Orderly(x)'
  <2>1. CASE x = c
    BY <1>1, <1>2, <2>1 DEF Connect, Orderly, TypeInv, ClientTypes, usoVars
  <2>2. CASE x # c
    <3>1. /\ request'[x] = request[x] /\ report'[x] = report[x] /\ socket'[x] = socket[x]
          /\ requestSent'[x] = requestSent[x] /\ rmsConnected' = rmsConnected
      BY <2>2 DEF Connect, TypeInv, ClientTypes, usoVars
    <3>2. Orderly(x)
      BY DEF SlowInv
    <3> QED BY <1>1, <3>1, <3>2 DEF Orderly
  <2> QED BY <2>1, <2>2
<1>4. NoErrors'
  BY DEF SlowInv, NoErrors, Connect, usoVars
<1> QED BY <1>3, <1>4 DEF SlowInv

LEMMA SlowClient ==
  ASSUME TypeInv, Followed, SlowInv, NEW c \in FedClient, ClientStep(c), UNCHANGED <<rmsVars, usoVars>>
  PROVE  SlowInv'
<1>1. /\ Table' = Table /\ (\A x : Known(x)' <=> Known(x)) /\ (\A x : Late(x)' <=> Late(x))
      /\ rmsConnected' = rmsConnected /\ usoError' = usoError
  BY DEF usoVars, rmsVars, Table, Known, Late
<1>2. /\ request[c] # "none" => socket[c] = "request"
      /\ report[c] \in {"finish", "clientClosed", "usoClosed"} => socket[c] = "report"
      /\ report[c] \in {"uso", "syn"} \/ Late(c) => request[c] = "none" /\ requestSent[c]
      /\ Known(c) => requestSent[c] \/ request[c] = "response"
      /\ Known(c) \/ request[c] \in {"syn", "job"} => rmsConnected = RMS
  BY DEF SlowInv, Orderly
<1>3. Known(c) => report[c] \notin {"syn", "finish"}
  BY DEF Followed, Phases
<1>4. Late(c) => Known(c)
  BY LateKnown DEF Followed
<1>5. Orderly(c)' /\ ~socketError'
  <2> SUFFICES /\ request'[c] # "none" => socket'[c] = "request"
               /\ report'[c] \in {"finish", "clientClosed", "usoClosed"} => socket'[c] = "report"
               /\ report'[c] \in {"uso", "syn"} \/ Late(c) => request'[c] = "none" /\ requestSent'[c]
               /\ Known(c) => requestSent'[c] \/ request'[c] = "response"
               /\ Known(c) \/ request'[c] \in {"syn", "job"} => rmsConnected = RMS
               /\ ~socketError'
    BY <1>1 DEF Orderly
  <2>0. ~socketError
    BY DEF SlowInv, NoErrors
  <2>1. CASE SendRequest(c)
    BY <1>2, <2>0, <2>1 DEF SendRequest, TypeInv, ClientTypes
  <2>2. CASE Response(c)
    BY <1>2, <2>0, <2>2 DEF Response, TypeInv, ClientTypes
  <2>3. CASE ReportOpens(c)
    BY <1>2, <2>0, <2>3 DEF ReportOpens, TypeInv, ClientTypes
  <2>4. CASE Finish(c)
    BY <1>2, <1>3, <1>4, <2>0, <2>4 DEF Finish, TypeInv, ClientTypes
  <2>5. CASE RequestClosed(c)
    <3>1. socket[c] = "request"
      BY <1>2, <2>5 DEF RequestClosed
    <3>2. socketError' = (socketError \/ socket[c] # "request")
      BY <2>5 DEF RequestClosed
    <3>3. ~socketError'
      BY <2>0, <3>1, <3>2, Zenon
    <3> QED BY <1>2, <2>5, <3>3 DEF RequestClosed, TypeInv, ClientTypes
  <2>6. CASE ReportClosed(c)
    <3>1. socket[c] = "report"
      BY <1>2, <2>6 DEF ReportClosed
    <3>2. socketError' = (socketError \/ socket[c] # "report")
      BY <2>6 DEF ReportClosed
    <3>3. ~socketError'
      BY <2>0, <3>1, <3>2, Zenon
    <3> QED BY <1>2, <2>6, <3>3 DEF ReportClosed, TypeInv, ClientTypes
  <2> QED BY <2>1, <2>2, <2>3, <2>4, <2>5, <2>6 DEF ClientStep
<1>6. ASSUME NEW x \in FedClient, x # c PROVE Orderly(x)'
  <2>1. /\ request'[x] = request[x] /\ report'[x] = report[x] /\ socket'[x] = socket[x]
        /\ requestSent'[x] = requestSent[x]
    BY <1>6 DEF ClientStep, SendRequest, Response, ReportOpens, Finish, RequestClosed, ReportClosed,
                TypeInv, ClientTypes
  <2>2. Orderly(x)
    BY DEF SlowInv
  <2> QED BY <1>1, <2>1, <2>2 DEF Orderly
<1> QED BY <1>1, <1>5, <1>6 DEF SlowInv, NoErrors

\* What changes nothing at the clients and in the table, and ends no job, keeps them orderly.
LEMMA SlowKept ==
  ASSUME SlowInv, UNCHANGED <<request, report, socket, requestSent, rmsConnected, cliList>>,
         UNCHANGED <<socketError, usoError>>,
         \A x \in FedClient : Late(x)' => Late(x) \/ (request[x] = "none" /\ requestSent[x])
  PROVE  SlowInv'
<1>1. \A x : Known(x)' <=> Known(x)
  BY DEF Known, Table
<1>2. ASSUME NEW x \in FedClient PROVE Orderly(x)'
  <2>1. Orderly(x)
    BY DEF SlowInv
  <2>2. Late(x)' => Late(x) \/ (request[x] = "none" /\ requestSent[x])
    OBVIOUS
  <2> QED BY <1>1, <2>1, <2>2 DEF Orderly
<1> QED BY <1>2 DEF SlowInv, NoErrors

LEMMA SlowRms ==
  ASSUME TypeInv, Followed, SlowInv, SlowTimers, NEW d \in RMS, RmsEvent(d)
  PROVE  SlowInv'
<1>1. UNCHANGED clientVars /\ UNCHANGED usoVars
  BY DEF RmsEvent
<1>2. CASE AcceptJob(d)
  <2>1. toUso' = toUso /\ selfMsgs' = selfMsgs
    BY <1>1, <1>2 DEF AcceptJob, usoVars
  <2>2. \A x : Late(x)' <=> Late(x)
    BY <2>1 DEF Late
  <2> QED BY <1>1, <2>2, SlowKept DEF clientVars, usoVars
<1>3. ASSUME NEW t \in running[d], request[t.client] = "none", EndJob(d, t) PROVE SlowInv'
  <2>1. /\ toUso' = [toUso EXCEPT ![d] = Append(toUso[d], t.client)] /\ selfMsgs' = selfMsgs
        /\ toUso[d] \in Seq(FedClient) /\ t.client \in FedClient
    BY <1>1, <1>3, EndAssigns, EndFacts, RmsTypesOf DEF Followed, usoVars
  <2>2. ToSet(Append(toUso[d], t.client)) = ToSet(toUso[d]) \cup {t.client}
    BY <2>1, MembersOfSeq
  <2>3. \A x \in RMS : ToSet(toUso'[x]) = ToSet(toUso[x]) \cup (IF x = d THEN {t.client} ELSE {})
    BY <2>1, <2>2 DEF TypeInv, RmsTypes
  <2>4. \A x \in FedClient : Late(x)' => Late(x) \/ x = t.client
    BY <2>1, <2>3 DEF Late
  <2>5. Known(t.client)
    <3>1. t \in Jobs(d)
      BY DEF Jobs
    <3> QED BY <3>1, JobsKnown DEF Followed
  <2>6. requestSent[t.client]
    BY <1>3, <2>1, <2>5 DEF SlowInv, Orderly
  <2>7. \A x \in FedClient : Late(x)' => Late(x) \/ (request[x] = "none" /\ requestSent[x])
    BY <1>3, <2>4, <2>6
  <2> QED BY <1>1, <2>7, SlowKept DEF clientVars, usoVars
<1> QED BY <1>2, <1>3 DEF RmsEvent

LEMMA SlowEstablished ==
  ASSUME SlowInv, NEW d \in RMS, RmsEstablished(d)
  PROVE  SlowInv'
<1>1. /\ UNCHANGED <<clientVars, rmsVars>> /\ UNCHANGED <<cliList, selfMsgs, usoError>>
      /\ rmsConnected' = rmsConnected \cup {d}
  BY DEF RmsEstablished
<1>2. (\A x : Known(x)' <=> Known(x)) /\ (\A x : Late(x)' <=> Late(x))
  BY <1>1 DEF Known, Table, Late, rmsVars
<1>3. rmsConnected = RMS => rmsConnected' = RMS
  BY <1>1
<1>4. ASSUME NEW x \in FedClient PROVE Orderly(x)'
  <2>1. Orderly(x)
    BY DEF SlowInv
  <2>2. /\ request' = request /\ report' = report /\ socket' = socket /\ requestSent' = requestSent
    BY <1>1 DEF clientVars
  <2> QED BY <1>2, <1>3, <2>1, <2>2 DEF Orderly
<1>5. NoErrors'
  BY <1>1 DEF SlowInv, NoErrors, clientVars
<1> QED BY <1>4, <1>5 DEF SlowInv

\* A step of the USO at the connections of one client leaves the other clients orderly.
LEMMA SlowOther ==
  ASSUME SlowInv, NEW c \in FedClient, Orderly(c)',
         UNCHANGED <<socket, requestSent, socketError, usoError, rmsConnected>>,
         \A x \in FedClient : x # c => /\ request'[x] = request[x] /\ report'[x] = report[x]
                                       /\ Known(x)' => Known(x)
                                       /\ Late(x)' => Late(x)
  PROVE  SlowInv'
<1>1. ASSUME NEW x \in FedClient, x # c PROVE Orderly(x)'
  <2>1. Orderly(x)
    BY DEF SlowInv
  <2>2. /\ request'[x] = request[x] /\ report'[x] = report[x]
        /\ (Known(x)' => Known(x)) /\ (Late(x)' => Late(x))
    BY <1>1
  <2> QED BY <2>1, <2>2 DEF Orderly
<1>2. NoErrors'
  BY DEF SlowInv, NoErrors
<1> QED BY <1>1, <1>2 DEF SlowInv

LEMMA SlowPeerClosed ==
  ASSUME TypeInv, SlowInv, NEW c \in FedClient, PeerClosed(c)
  PROVE  SlowInv'
<1>1. /\ UNCHANGED <<socket, requestSent, socketError, usoError, rmsConnected>>
      /\ UNCHANGED <<toUso, selfMsgs, cliList>>
  BY DEF PeerClosed, rmsVars, usoVars
<1>2. (\A x : Known(x)' <=> Known(x)) /\ (\A x : Late(x)' <=> Late(x))
  BY <1>1 DEF Known, Table, Late
<1>3. \A x \in FedClient : x # c => request'[x] = request[x] /\ report'[x] = report[x]
  BY DEF PeerClosed, TypeInv, ClientTypes
<1>4. Orderly(c)
  BY DEF SlowInv
<1>5. \/ request[c] = "clientClosed" /\ request'[c] = "usoClosed" /\ report'[c] = report[c]
      \/ report[c] = "clientClosed" /\ report'[c] = "usoClosed" /\ request'[c] = request[c]
  BY DEF PeerClosed, TypeInv, ClientTypes
<1>6. Orderly(c)'
  BY <1>1, <1>2, <1>4, <1>5 DEF Orderly
<1> QED BY <1>1, <1>2, <1>3, <1>6, SlowOther

LEMMA SlowRequest ==
  ASSUME TypeInv, Followed, SlowInv, NEW c \in FedClient, UsoRequest(c)
  PROVE  SlowInv'
<1>1. PICK d \in RMS : cliList' = Added(c, d) /\ selfMsgs' = Append(selfMsgs, InternalMsg("job", c, d))
  BY DEF UsoRequest
<1>2. /\ request[c] = "job" /\ request' = [request EXCEPT ![c] = "response"]
      /\ UNCHANGED <<report, socket, requestSent, socketError, rmsConnected, usoError>>
      /\ UNCHANGED rmsVars
  BY DEF UsoRequest
<1>3. ~Known(c) /\ report[c] \notin {"uso", "syn", "finish"}
  BY <1>2 DEF Followed, Phases, TypeInv, ClientTypes
<1>4. \A x : x # c => (Known(x)' => Known(x))
  <2> DEFINE e == [client |-> c, nodes |-> asked[c].nodes, rms |-> d]
  <2>1. Table' = Table \cup {e}
    <3>1. ToSet(Added(c, d)) = Table \cup {e}
      BY <1>3, AddedToTable DEF TypeInv, Followed
    <3> QED BY <1>1, <3>1 DEF Table
  <2>2. e.client = c
    OBVIOUS
  <2> HIDE DEF e
  <2> QED BY <2>1, <2>2 DEF Known
<1>5. \A x : Late(x)' => Late(x)
  <2> DEFINE m == InternalMsg("job", c, d)
  <2>1. m \in UsoMsg /\ selfMsgs \in Seq(UsoMsg)
    BY DEF m, InternalMsg, UsoMsg, TypeInv, UsoTypes
  <2>2. \A x, y : InternalMsg("finish", y, x) # m
    BY DEF InternalMsg
  <2> HIDE DEF m
  <2>3. ToSet(Append(selfMsgs, m)) = ToSet(selfMsgs) \cup {m}
    BY <2>1, MembersOfSeq
  <2>4. ToSet(selfMsgs') = ToSet(selfMsgs) \cup {m} /\ toUso' = toUso
    BY <1>1, <1>2, <2>3 DEF m, rmsVars
  <2> QED BY <2>2, <2>4 DEF Late
<1>6. Orderly(c)
  BY DEF SlowInv
<1>7. request'[c] = "response" /\ \A x \in FedClient : x # c => request'[x] = request[x]
  BY <1>2 DEF TypeInv, ClientTypes
<1>8. Orderly(c)'
  BY <1>2, <1>3, <1>5, <1>6, <1>7 DEF Orderly
<1> QED BY <1>2, <1>4, <1>5, <1>7, <1>8, SlowOther

LEMMA SlowReport ==
  ASSUME TypeInv, Followed, SlowInv, NEW c \in FedClient, ReportEstablished(c)
  PROVE  SlowInv'
<1>1. /\ report[c] = "uso" /\ report' = [report EXCEPT ![c] = "syn"] /\ cliList' = Deleted(cliList, c)
      /\ UNCHANGED <<request, socket, requestSent, socketError, rmsConnected, selfMsgs, usoError>>
      /\ UNCHANGED rmsVars
  BY DEF ReportEstablished, DeleteClient
<1>2. Known(c)
  BY <1>1 DEF Followed, Phases
<1>3. Table' \subseteq Table
  <2>1. ToSet(Deleted(cliList, c)) \subseteq Table
    BY <1>2, DeletedFromTable DEF TypeInv, Followed
  <2> QED BY <1>1, <2>1 DEF Table
<1>4. (\A x : Known(x)' => Known(x)) /\ (\A x : Late(x)' <=> Late(x))
  BY <1>1, <1>3 DEF Known, Late, rmsVars
<1>5. report'[c] = "syn" /\ \A x \in FedClient : x # c => report'[x] = report[x]
  BY <1>1 DEF TypeInv, ClientTypes
<1>6. Orderly(c)
  BY DEF SlowInv
<1>7. Orderly(c)'
  BY <1>1, <1>4, <1>5, <1>6 DEF Orderly
<1> QED BY <1>1, <1>4, <1>5, <1>7, SlowOther

LEMMA SlowInternalJob ==
  ASSUME TypeInv, Followed, SlowInv, InternalJob
  PROVE  SlowInv'
<1>1. /\ selfMsgs # <<>> /\ Head(selfMsgs).kind = "job" /\ selfMsgs' = Tail(selfMsgs)
      /\ UNCHANGED clientVars /\ UNCHANGED <<toUso, rmsConnected, cliList>>
  BY DEF InternalJob
<1>2. rmsConnected = RMS
  <2>1. Head(selfMsgs).client \in FedClient /\ Known(Head(selfMsgs).client)
    BY <1>1, HeadOfMessages, OrderIsKnown DEF TypeInv, Followed
  <2> QED BY <2>1 DEF SlowInv, Orderly
<1>3. usoError' = usoError
  <2>1. Head(selfMsgs).rms \in RMS
    BY <1>1, HeadOfMessages DEF TypeInv
  <2> QED BY <1>2, <2>1 DEF InternalJob
<1>4. \A x : Late(x)' => Late(x)
  <2>1. selfMsgs \in Seq(UsoMsg)
    BY DEF TypeInv, UsoTypes
  <2>2. ToSet(Tail(selfMsgs)) \subseteq ToSet(selfMsgs)
    BY <1>1, <2>1, MembersOfSeq
  <2>3. ToSet(selfMsgs') \subseteq ToSet(selfMsgs)
    BY <1>1, <2>2
  <2> QED BY <1>1, <2>3 DEF Late
<1> QED BY <1>1, <1>3, <1>4, SlowKept DEF clientVars

LEMMA SlowFinish ==
  ASSUME TypeInv, Followed, SlowInv, NEW d \in RMS, UsoFinish(d)
  PROVE  SlowInv'
<1>1. PICK h : h = Head(toUso[d])
  OBVIOUS
<1>2. /\ toUso[d] # <<>> /\ selfMsgs' = Append(selfMsgs, InternalMsg("finish", h, d))
      /\ toUso' = [toUso EXCEPT ![d] = Tail(toUso[d])]
      /\ UNCHANGED clientVars /\ UNCHANGED <<rmsConnected, cliList, usoError>>
  BY <1>1 DEF UsoFinish, TypeInv, RmsTypes
<1>3. toUso[d] \in Seq(FedClient) /\ selfMsgs \in Seq(UsoMsg)
  BY RmsTypesOf DEF TypeInv, UsoTypes
<1>4. h \in ToSet(toUso[d]) /\ ToSet(Tail(toUso[d])) \subseteq ToSet(toUso[d])
  BY <1>1, <1>2, <1>3, MembersOfSeq
<1>5. \A x \in RMS : ToSet(toUso'[x]) \subseteq ToSet(toUso[x])
  BY <1>2, <1>4 DEF TypeInv, RmsTypes
<1>6. ToSet(selfMsgs') = ToSet(selfMsgs) \cup {InternalMsg("finish", h, d)}
  <2> DEFINE m == InternalMsg("finish", h, d)
  <2>1. h \in FedClient
    BY <1>1, <1>2, <1>3
  <2>2. m \in UsoMsg
    BY <2>1 DEF InternalMsg, UsoMsg
  <2> HIDE DEF m
  <2>3. ToSet(Append(selfMsgs, m)) = ToSet(selfMsgs) \cup {m}
    BY <1>3, <2>2, MembersOfSeq
  <2> QED BY <1>2, <2>3 DEF m
<1>7. \A x : Late(x)' => Late(x)
  <2> SUFFICES ASSUME NEW x, Late(x)' PROVE Late(x)
    OBVIOUS
  <2>1. PICK e \in RMS : x \in ToSet(toUso'[e]) \/ InternalMsg("finish", x, e) \in ToSet(selfMsgs')
    BY DEF Late
  <2>2. CASE x \in ToSet(toUso'[e])
    BY <1>5, <2>2 DEF Late
  <2>3. CASE InternalMsg("finish", x, e) \in ToSet(selfMsgs)
    BY <2>3 DEF Late
  <2>4. CASE InternalMsg("finish", x, e) \in {InternalMsg("finish", h, d)}
    <3>1. x = h
      BY <2>4, MessageSpot
    <3> QED BY <1>4, <3>1 DEF Late
  <2> QED BY <1>6, <2>1, <2>2, <2>3, <2>4
<1> QED BY <1>2, <1>7, SlowKept DEF clientVars

LEMMA SlowInternalFinish ==
  ASSUME TypeInv, Followed, SlowInv, InternalFinish
  PROVE  SlowInv'
<1>1. PICK c, d : c = Head(selfMsgs).client /\ d = Head(selfMsgs).rms
  OBVIOUS
<1>2. /\ selfMsgs # <<>> /\ Head(selfMsgs).kind = "finish" /\ selfMsgs' = Tail(selfMsgs)
      /\ report' = [report EXCEPT ![c] = "uso"]
      /\ UNCHANGED <<request, socket, requestSent, socketError, rmsConnected, cliList, usoError>>
      /\ UNCHANGED rmsVars
  BY <1>1 DEF InternalFinish
<1>3. c \in FedClient /\ d \in RMS /\ Head(selfMsgs) \in UsoMsg
  BY <1>1, <1>2, HeadOfMessages DEF TypeInv
<1>4. /\ Head(selfMsgs) \in ToSet(selfMsgs) /\ ToSet(Tail(selfMsgs)) \subseteq ToSet(selfMsgs)
  <2>1. selfMsgs \in Seq(UsoMsg)
    BY DEF TypeInv, UsoTypes
  <2> QED BY <1>2, <2>1, MembersOfSeq
<1>5. Late(c)
  <2>1. Head(selfMsgs) = InternalMsg("finish", c, d)
    BY <1>1, <1>2, <1>3 DEF InternalMsg, UsoMsg
  <2> QED BY <1>3, <1>4, <2>1 DEF Late
<1>6. Orderly(c)
  BY <1>3 DEF SlowInv
<1>7. request[c] = "none" /\ requestSent[c]
  BY <1>5, <1>6 DEF Orderly
<1>8. \A x : (Known(x)' <=> Known(x)) /\ (Late(x)' => Late(x))
  BY <1>2, <1>4 DEF Known, Table, Late, rmsVars
<1>9. report'[c] = "uso" /\ \A x \in FedClient : x # c => report'[x] = report[x]
  BY <1>2, <1>3 DEF TypeInv, ClientTypes
<1>10. Orderly(c)'
  BY <1>2, <1>6, <1>7, <1>8, <1>9 DEF Orderly
<1> QED BY <1>2, <1>3, <1>8, <1>9, <1>10, SlowOther

LEMMA SlowInit == FederationInit => SlowInv
<1> SUFFICES ASSUME FederationInit PROVE SlowInv
  OBVIOUS
<1>1. /\ \A c \in FedClient : request[c] = "none" /\ report[c] = "none"
      /\ ~socketError /\ ~usoError
  BY DEF FederationInit, ClientsInit, UsoInit
<1>2. cliList = <<>> /\ selfMsgs = <<>> /\ \A d \in RMS : toUso[d] = <<>>
  BY DEF FederationInit, UsoInit, RmsInit
<1>3. \A c : ~Known(c) /\ ~Late(c)
  BY <1>2 DEF Known, Table, Late, ToSet
<1> QED BY <1>1, <1>3 DEF SlowInv, NoErrors, Orderly

LEMMA SlowNext ==
  ASSUME SlowTimers
  PROVE  Inv /\ SlowInv /\ [Next]_vars => SlowInv'
<1> SUFFICES ASSUME Inv, SlowInv, [Next]_vars PROVE SlowInv'
  OBVIOUS
<1>1. TypeInv /\ Followed
  BY DEF Inv, SlowInv, NoErrors
<1>2. CASE UNCHANGED vars
  <2>1. /\ UNCHANGED <<request, report, socket, requestSent, rmsConnected, cliList>>
        /\ UNCHANGED <<socketError, usoError, toUso, selfMsgs>>
    BY <1>2 DEF vars, clientVars, rmsVars, usoVars
  <2>2. \A x : Late(x)' <=> Late(x)
    BY <2>1 DEF Late
  <2> QED BY <2>1, <2>2, SlowKept
<1>3. ASSUME NEW c \in FedClient, ClientEvent(c) PROVE SlowInv'
  <2>1. UNCHANGED <<rmsVars, usoVars>>
    BY <1>3 DEF ClientEvent
  <2>2. CASE Connect(c) /\ rmsConnected = RMS
    BY <1>1, <2>1, <2>2, SlowConnect
  <2>3. CASE ClientStep(c)
    BY <1>1, <2>1, <2>3, SlowClient
  <2> QED BY <1>3, <2>2, <2>3 DEF ClientEvent
<1>4. ASSUME NEW d \in RMS, RmsEvent(d) PROVE SlowInv'
  BY <1>1, <1>4, SlowRms
<1>5. CASE UsoStep
  <2>1. InternalJob => SlowInv'
    BY <1>1, SlowInternalJob
  <2>2. InternalFinish => SlowInv'
    BY <1>1, SlowInternalFinish
  <2>3. \A d \in RMS : RmsEstablished(d) \/ UsoFinish(d) => SlowInv'
    BY <1>1, SlowEstablished, SlowFinish
  <2>4. \A c \in FedClient : UsoRequest(c) \/ ReportEstablished(c) \/ PeerClosed(c) => SlowInv'
    BY <1>1, SlowRequest, SlowReport, SlowPeerClosed
  <2> QED BY <1>5, <2>1, <2>2, <2>3, <2>4 DEF UsoStep
<1> QED BY <1>2, <1>3, <1>4, <1>5 DEF Next

LEMMA SlowHolds ==
  ASSUME SlowTimers
  PROVE  Spec => [](Inv /\ SlowInv)
<1>1. FederationInit => Inv /\ SlowInv
  BY InvInit, SlowInit
<1>2. (Inv /\ SlowInv) /\ [Next]_vars => (Inv /\ SlowInv)'
  BY InvNext, SlowNext
<1> QED BY <1>1, <1>2, PTL DEF Spec

-----------------------------------------------------------------------------
(* A job that can start at once does *)

\* The obligation of NotSentToWait for one client.
Placed(c) ==
  request[c] = "job" /\ request'[c] = "response" /\ fit4green /\ ~asked[c].energyAware
     /\ Immediate(asked[c].nodes) # {}
    => Last(selfMsgs').rms \in Immediate(asked[c].nodes)

LEMMA SoonestIsImmediate ==
  ASSUME NEW nodes, NEW time, Immediate(nodes) # {}
  PROVE  Soonest(nodes, time) \in Immediate(nodes)
<1>1. PICK d : d \in Immediate(nodes)
  OBVIOUS
<1>2. RMS \subseteq Nat
  BY DataCentresAssumption DEF RMS
<1>3. Immediate(nodes) \subseteq Nat
  BY <1>2 DEF Immediate
<1>4. Min(Immediate(nodes)) \in Immediate(nodes)
  BY <1>1, <1>3, LeastNumber
<1> QED BY <1>4 DEF Soonest

LEMMA RequestPlaces ==
  ASSUME TypeInv, NEW c \in FedClient, UsoRequest(c)
  PROVE  Placed(c)
<1> SUFFICES ASSUME fit4green, ~asked[c].energyAware, Immediate(asked[c].nodes) # {}
             PROVE  Last(selfMsgs').rms \in Immediate(asked[c].nodes)
  BY DEF Placed
<1>1. PICK d \in RMS : SelectRMS(asked[c], d) /\ selfMsgs' = Append(selfMsgs, InternalMsg("job", c, d))
  BY DEF UsoRequest
<1>2. PICK figure : d = Soonest(asked[c].nodes, figure)
  BY <1>1 DEF SelectRMS
<1>3. d \in Immediate(asked[c].nodes)
  BY <1>2, SoonestIsImmediate
<1>4. Last(selfMsgs') = InternalMsg("job", c, d)
  <2> DEFINE m == InternalMsg("job", c, d)
  <2>1. m \in UsoMsg /\ selfMsgs \in Seq(UsoMsg)
    BY DEF m, InternalMsg, UsoMsg, TypeInv, UsoTypes
  <2> HIDE DEF m
  <2>2. Append(selfMsgs, m)[Len(Append(selfMsgs, m))] = m
    BY <2>1
  <2> QED BY <1>1, <2>2 DEF Last, m
<1>5. InternalMsg("job", c, d).rms = d
  BY DEF InternalMsg
<1> QED BY <1>3, <1>4, <1>5

LEMMA StepPlaces ==
  Inv /\ [Next]_vars => [\A c \in FedClient : Placed(c)]_vars
<1> SUFFICES ASSUME Inv, Next, NEW c \in FedClient PROVE Placed(c)
  OBVIOUS
<1>1. TypeInv
  BY DEF Inv
<1>2. request'[c] # "response" \/ request[c] # "job" => Placed(c)
  BY DEF Placed
<1>3. ASSUME NEW x \in FedClient, ClientEvent(x) PROVE Placed(c)
  <2>1. request'[c] # "response" \/ request[c] # "job"
    BY <1>1, <1>3 DEF ClientEvent, Connect, ClientStep, SendRequest, Response, ReportOpens, Finish,
                      RequestClosed, ReportClosed, TypeInv, ClientTypes
  <2> QED BY <1>2, <2>1
<1>4. ASSUME NEW d \in RMS, RmsEvent(d) PROVE Placed(c)
  <2>1. request' = request
    BY <1>4 DEF RmsEvent, clientVars
  <2> QED BY <1>2, <2>1
<1>5. CASE UsoStep
  <2>1. InternalJob \/ InternalFinish => request' = request
    BY DEF InternalJob, InternalFinish, clientVars
  <2>2. \A d \in RMS : RmsEstablished(d) \/ UsoFinish(d) => request' = request
    BY DEF RmsEstablished, UsoFinish, clientVars
  <2>3. ASSUME NEW x \in FedClient, UsoRequest(x) PROVE Placed(c)
    <3>1. CASE x = c
      BY <1>1, <2>3, <3>1, RequestPlaces
    <3>2. CASE x # c
      <4>1. request'[c] = request[c]
        BY <1>1, <2>3, <3>2 DEF UsoRequest, TypeInv, ClientTypes
      <4> QED BY <1>2, <4>1
    <3> QED BY <3>1, <3>2
  <2>4. ASSUME NEW x \in FedClient, ReportEstablished(x) \/ PeerClosed(x) PROVE Placed(c)
    <3>1. request'[c] # "response" \/ request[c] # "job"
      BY <1>1, <2>4 DEF ReportEstablished, PeerClosed, TypeInv, ClientTypes
    <3> QED BY <1>2, <3>1
  <2>5. request' = request => Placed(c)
    BY <1>2
  <2> QED BY <1>5, <2>1, <2>2, <2>3, <2>4, <2>5 DEF UsoStep
<1> QED BY <1>3, <1>4, <1>5 DEF Next

-----------------------------------------------------------------------------
(* The theorems *)

\* With slow timers the socket of a client stands for the connection that is being closed whenever
\* one is, and the user service object forwards a job only when its connections are established:
\* neither the assertion of TCPSocket nor the error of the user service object stops a simulation.
THEOREM SimulationGoesOn ==
  ASSUME SlowTimers
  PROVE  Spec => []NoErrors
BY SlowHolds, PTL DEF SlowInv

\* Whatever the timers are, as long as the user service object has not met a connection that is not
\* established, a job of its table is in one place, at or about the data centre of its entry, and a
\* data centre has the job that was asked for last.
THEOREM FollowedUntilError ==
  Spec => [](usoError \/ JobsFollowed)
<1>1. Inv => usoError \/ JobsFollowed
  BY FollowedMeans DEF Inv
<1> QED BY <1>1, InvHolds, PTL

\* With slow timers a job of the table of the user service object is always in one place: no request,
\* queued or running job, finish message or internal message is lost or doubled.
THEOREM JobsAreFollowed ==
  ASSUME SlowTimers
  PROVE  Spec => []JobsFollowed
<1>1. Inv /\ SlowInv => JobsFollowed
  BY FollowedMeans DEF Inv, SlowInv, NoErrors
<1> QED BY <1>1, SlowHolds, PTL

\* A job that is not to be placed by energy goes to a data centre that can start it at once, if there
\* is one: neither a shorter mean queueing time nor a choice for an earlier job hides it.
THEOREM ReadyCentresUsed == Spec => NotSentToWait
<1>1. Spec => [][\A c \in FedClient : Placed(c)]_vars
  BY InvHolds, StepPlaces, PTL DEF Spec
<1> QED BY <1>1 DEF NotSentToWait, Placed

-----------------------------------------------------------------------------
(* The searches inside a data centre *)

BackfillSpec == BackfillInit /\ [][BackfillNext]_backfillVars

SearchTypes ==
  /\ memory \in [Server -> Int] /\ coresInUse \in [Server -> Int]
  /\ reserved \in [Server -> BOOLEAN] /\ reserved0 \in [Server -> BOOLEAN]
  /\ r \in Request /\ i \in 0 .. NumServers /\ j \in 0 .. r.nodes
  /\ serverNumber \in [0 .. r.nodes - 1 -> Server \cup {-1}]
  /\ serversFound \in BOOLEAN /\ done \in BOOLEAN

\* The servers that can take a node, as the reservations were before the search.
Suitable == {s \in Server : memory[s] >= r.needMemory /\ ~reserved0[s] /\ FreeCores(s) >= r.cores}

\* The candidates of the first k passes, and the servers that are left for pass k.
Taken(k) == {serverNumber[l] : l \in 0 .. k - 1}
Open(k) == Suitable \ Taken(k)

\* n is the candidate among the servers C, or -1 if there is none.
Best(s, C) == s \in C /\ \A t \in C : t # s => Preferred(s, t)
Picked(n, C) == IF C = {} THEN n = -1 ELSE Best(n, C)

\* The servers that the pass at hand has looked at and found suitable.
Seen(k) == {s \in Open(j) : s < k}

PassesPick == \A k \in 0 .. j - 1 : Picked(serverNumber[k], Open(k))

PassAtHand == j < r.nodes =>
  /\ Picked(serverNumber[j], Seen(i))
  /\ IF serverNumber[j] = -1 THEN candidateCores = -1
     ELSE candidateCores = FreeCores(serverNumber[j]) /\ candidateState = state[serverNumber[j]]
  /\ \A k \in j + 1 .. r.nodes - 1 : serverNumber[k] = -1

Reservations == \A s \in Server : reserved[s] <=> reserved0[s] \/ (~done /\ s \in Taken(j))

SearchEnds == done => j = r.nodes /\ (serversFound <=> -1 \notin Taken(j))

SearchInv == SearchTypes /\ PassesPick /\ PassAtHand /\ Reservations /\ SearchEnds

-----------------------------------------------------------------------------
(* The order of the servers *)

LEMMA Numbers ==
  ASSUME SearchTypes
  PROVE  /\ \A s \in Server : s \in Nat /\ s < NumServers /\ s # -1 /\ FreeCores(s) \in Int
         /\ NumServers \in Nat /\ r.nodes \in Nat \ {0} /\ r.cores \in Nat \ {0} /\ r.needMemory \in Nat
         /\ j \in Int /\ i \in Int
<1>1. NumServers \in Nat \ {0} /\ NumCores \in Nat \ {0}
  BY NumServersAssumption, NumCoresAssumption
<1>2. \A s \in Server : s \in Nat /\ s < NumServers /\ s # -1
  BY <1>1 DEF Server
<1>3. \A s \in Server : FreeCores(s) \in Int
  BY <1>1 DEF SearchTypes, FreeCores
<1>4. r.nodes \in Nat \ {0} /\ r.cores \in Nat \ {0} /\ r.needMemory \in Nat
  BY DEF SearchTypes, Request
<1> QED BY <1>1, <1>2, <1>3, <1>4 DEF SearchTypes

LEMMA PreferredTransitive ==
  ASSUME SearchTypes, NEW s \in Server, NEW t \in Server, NEW u \in Server,
         Preferred(s, t), Preferred(t, u)
  PROVE  Preferred(s, u)
<1>1. /\ s \in Nat /\ t \in Nat /\ u \in Nat
      /\ FreeCores(s) \in Int /\ FreeCores(t) \in Int /\ FreeCores(u) \in Int
  BY Numbers
<1> QED BY <1>1 DEF Preferred

LEMMA OpenServers ==
  ASSUME NEW k
  PROVE  Open(k) \subseteq Server /\ Seen(k) \subseteq Server
BY DEF Open, Suitable, Seen

\* One more pass takes what it has picked.
LEMMA TakenNext ==
  ASSUME NEW k \in Nat
  PROVE  Taken(k + 1) = Taken(k) \cup {serverNumber[k]}
<1>1. 0 .. (k + 1) - 1 = (0 .. k - 1) \cup {k}
  OBVIOUS
<1> QED BY <1>1 DEF Taken

-----------------------------------------------------------------------------
(* The steps of the search *)

LEMMA SearchBegins == BackfillInit => SearchInv
<1> SUFFICES ASSUME BackfillInit PROVE SearchInv
  OBVIOUS
<1>1. PICK kind \in [Server -> ServerKinds] :
        /\ memory = [s \in Server |-> kind[s].memory]
        /\ coresInUse = [s \in Server |-> kind[s].coresInUse]
        /\ reserved = [s \in Server |-> kind[s].reserved]
  BY DEF BackfillInit, SearchInit
<1>2. /\ r \in SearchRequests /\ reserved0 = reserved /\ i = 0 /\ j = 0
      /\ serverNumber = [k \in 0 .. r.nodes - 1 |-> -1] /\ candidateCores = -1
      /\ serversFound = TRUE /\ done = FALSE
  BY DEF BackfillInit, SearchInit
<1>3. \A s \in Server : /\ kind[s].memory \in Int /\ kind[s].coresInUse \in Int
                        /\ kind[s].reserved \in BOOLEAN
  BY SearchAssumption
<1>4. r \in Request /\ r.nodes \in Nat \ {0}
  BY <1>2, SearchAssumption DEF Request
<1>5. NumServers \in Nat
  BY NumServersAssumption
<1>6. SearchTypes
  <2>1. memory \in [Server -> Int] /\ coresInUse \in [Server -> Int]
    BY <1>1, <1>3
  <2>2. reserved \in [Server -> BOOLEAN] /\ reserved0 \in [Server -> BOOLEAN]
    BY <1>1, <1>2, <1>3
  <2>3. serverNumber \in [0 .. r.nodes - 1 -> Server \cup {-1}]
    BY <1>2
  <2>4. i \in 0 .. NumServers /\ j \in 0 .. r.nodes
    BY <1>2, <1>4, <1>5
  <2>5. serversFound \in BOOLEAN /\ done \in BOOLEAN
    BY <1>2
  <2> QED BY <1>4, <2>1, <2>2, <2>3, <2>4, <2>5 DEF SearchTypes
<1>7. \A s \in Server : s \in Nat
  BY <1>6, Numbers
<1>8. PassesPick
  BY <1>2 DEF PassesPick
<1>9. PassAtHand
  <2>1. Seen(i) = {}
    <3>1. \A s \in Server : ~(s < 0)
      BY <1>7
    <3> QED BY <1>2, <3>1, OpenServers DEF Seen
  <2> QED BY <1>2, <1>4, <2>1 DEF PassAtHand, Picked
<1>10. Reservations
  <2>1. Taken(j) = {}
    BY <1>2 DEF Taken
  <2> QED BY <1>2, <2>1 DEF Reservations
<1> QED BY <1>2, <1>6, <1>8, <1>9, <1>10 DEF SearchInv, SearchEnds

LEMMA LookKeeps ==
  ASSUME SearchInv, LookAt
  PROVE  SearchInv'
<1> DEFINE a == FreeCores(i)
           c == serverNumber[j]
           takes == /\ memory[i] >= r.needMemory /\ ~reserved[i] /\ a >= r.cores
                    /\ \/ a < candidateCores \/ candidateCores = -1
                       \/ a = candidateCores /\ candidateState \in Asleep
<1>1. /\ j < r.nodes /\ i < NumServers /\ i' = i + 1
      /\ UNCHANGED <<state, memory, coresInUse, reserved, r, reserved0, j, serversFound, done>>
  BY DEF LookAt
<1>2. takes => /\ serverNumber' = [serverNumber EXCEPT ![j] = i]
               /\ candidateCores' = a /\ candidateState' = state[i]
  BY DEF LookAt
<1>3. ~takes => UNCHANGED <<serverNumber, candidateCores, candidateState>>
  BY DEF LookAt
<1>4. SearchTypes
  BY DEF SearchInv
<1>5. /\ i \in Server /\ j \in 0 .. r.nodes - 1 /\ j \in Nat /\ r.nodes \in Nat /\ NumServers \in Nat
      /\ i \in Nat
  BY <1>1, <1>4, Numbers DEF SearchTypes, Server
<1>6. ~done
  BY <1>1, <1>5 DEF SearchInv, SearchEnds
<1>7. serverNumber' \in [0 .. r.nodes - 1 -> Server \cup {-1}]
  <2>1. CASE takes
    BY <1>2, <1>4, <1>5, <2>1 DEF SearchTypes
  <2>2. CASE ~takes
    BY <1>3, <1>4, <2>2 DEF SearchTypes
  <2> QED BY <2>1, <2>2
<1>8. SearchTypes'
  BY <1>1, <1>4, <1>5, <1>7 DEF SearchTypes
<1>9. \A l \in 0 .. r.nodes - 1 : l # j => serverNumber'[l] = serverNumber[l]
  <2>1. CASE takes
    BY <1>2, <1>4, <1>5, <2>1 DEF SearchTypes
  <2>2. CASE ~takes
    BY <1>3, <2>2
  <2> QED BY <2>1, <2>2
<1>10. Suitable' = Suitable
  BY <1>1 DEF Suitable, FreeCores
<1>11. \A k \in 0 .. j : Taken(k)' = Taken(k)
  <2> SUFFICES ASSUME NEW k \in 0 .. j PROVE Taken(k)' = Taken(k)
    OBVIOUS
  <2>1. \A l \in 0 .. k - 1 : l \in 0 .. r.nodes - 1 /\ l # j
    BY <1>5
  <2> QED BY <1>9, <2>1 DEF Taken
<1>12. \A k \in 0 .. j : Open(k)' = Open(k)
  BY <1>10, <1>11 DEF Open
<1>13. \A s, t : Preferred(s, t)' <=> Preferred(s, t)
  BY <1>1 DEF Preferred, FreeCores
<1>14. PassesPick'
  <2> SUFFICES ASSUME NEW k \in 0 .. j - 1 PROVE Picked(serverNumber[k], Open(k))'
    BY <1>1 DEF PassesPick
  <2>1. k \in 0 .. j /\ k \in 0 .. r.nodes - 1 /\ k # j
    BY <1>5
  <2>2. serverNumber'[k] = serverNumber[k] /\ Open(k)' = Open(k)
    BY <1>9, <1>12, <2>1
  <2>3. Picked(serverNumber[k], Open(k))
    BY DEF SearchInv, PassesPick
  <2> QED BY <1>13, <2>2, <2>3 DEF Picked, Best
<1>15. Open(j)' = Open(j)
  <2>1. j \in 0 .. j
    BY <1>5
  <2> QED BY <1>1, <1>12, <2>1 DEF Open, Taken
<1>16. /\ Picked(c, Seen(i))
       /\ c = -1 => candidateCores = -1
       /\ c # -1 => candidateCores = FreeCores(c) /\ candidateState = state[c]
       /\ \A k \in j + 1 .. r.nodes - 1 : serverNumber[k] = -1
  BY <1>1 DEF SearchInv, PassAtHand
<1>17. i \in Open(j) <=> memory[i] >= r.needMemory /\ ~reserved[i] /\ a >= r.cores
  BY <1>5, <1>6 DEF SearchInv, Reservations, Open, Suitable
<1>18. Seen(i)' = Seen(i) \cup (IF i \in Open(j) THEN {i} ELSE {})
  <2>1. Seen(i)' = {s \in Open(j) : s < i + 1}
    BY <1>1, <1>15 DEF Seen
  <2>2. \A s \in Open(j) : s \in Nat
    BY <1>4, Numbers, OpenServers
  <2>3. \A s \in Nat : s < i + 1 <=> s < i \/ s = i
    BY <1>5
  <2> QED BY <2>1, <2>2, <2>3 DEF Seen
<1>19. \A k \in j + 1 .. r.nodes - 1 : serverNumber'[k] = -1
  <2>1. \A k \in j + 1 .. r.nodes - 1 : k \in 0 .. r.nodes - 1 /\ k # j
    BY <1>5
  <2> QED BY <1>9, <1>16, <2>1
<1>20. Seen(i) \subseteq Server /\ \A s \in Seen(i) : s < i
  BY OpenServers DEF Seen
<1>21. a \in Int /\ r.cores \in Nat \ {0}
  BY <1>4, <1>5, Numbers
<1>22. takes => serverNumber'[j] = i
  BY <1>2, <1>4, <1>5 DEF SearchTypes
<1>23. takes <=> /\ i \in Open(j)
                 /\ \/ a < candidateCores \/ candidateCores = -1
                    \/ a = candidateCores /\ candidateState \in Asleep
  BY <1>17
<1>24. i # -1 /\ \A s \in Server : s # -1
  BY <1>4, <1>5, Numbers
<1> HIDE DEF takes
\* What the pass has picked after the look.
<1>25. /\ Picked(serverNumber'[j], Seen(i)')
       /\ IF serverNumber'[j] = -1 THEN candidateCores' = -1
          ELSE candidateCores' = FreeCores(serverNumber'[j]) /\ candidateState' = state[serverNumber'[j]]
  <2>1. CASE i \notin Open(j)
    <3>1. ~takes /\ Seen(i)' = Seen(i)
      BY <1>18, <1>23, <2>1
    <3> QED BY <1>3, <1>16, <3>1
  <2>2. CASE i \in Open(j) /\ c = -1
    <3>1. takes
      BY <1>16, <1>23, <2>2
    <3>2. Seen(i) = {}
      BY <1>16, <1>20, <1>24, <2>2 DEF Picked, Best
    <3>3. Seen(i)' = {i}
      BY <1>18, <2>2, <3>2
    <3>4. Picked(i, {i})
      BY DEF Picked, Best
    <3> QED BY <1>2, <1>22, <1>24, <3>1, <3>3, <3>4
  <2>3. CASE i \in Open(j) /\ c # -1
    <3>1. Seen(i)' = Seen(i) \cup {i}
      BY <1>18, <2>3
    <3>2. Best(c, Seen(i)) /\ Seen(i) # {}
      BY <1>16, <2>3 DEF Picked
    <3>3. c \in Server /\ c < i /\ c \in Seen(i) /\ FreeCores(c) \in Int /\ c \in Nat
      BY <1>4, <1>20, <3>2, Numbers DEF Best
    <3>4. FreeCores(c) >= r.cores
      BY <3>3 DEF Seen, Open, Suitable
    <3>5. takes <=> a < FreeCores(c) \/ (a = FreeCores(c) /\ state[c] \in Asleep)
      BY <1>16, <1>21, <1>23, <2>3, <3>3, <3>4
    <3>6. CASE takes
      <4>1. Preferred(i, c)
        BY <1>5, <1>21, <3>3, <3>5, <3>6 DEF Preferred
      <4>2. \A t \in Seen(i) : Preferred(i, t)
        <5> SUFFICES ASSUME NEW t \in Seen(i), t # c PROVE Preferred(i, t)
          BY <4>1
        <5>1. Preferred(c, t) /\ t \in Server
          BY <1>20, <3>2 DEF Best
        <5> QED BY <1>4, <1>5, <3>3, <4>1, <5>1, PreferredTransitive
      <4>3. Picked(i, Seen(i) \cup {i})
        BY <4>2 DEF Picked, Best
      <4> QED BY <1>2, <1>22, <1>24, <3>1, <3>6, <4>3
    <3>7. CASE ~takes
      <4>1. Preferred(c, i)
        BY <1>5, <1>21, <3>3, <3>5, <3>7 DEF Preferred
      <4>2. Picked(c, Seen(i) \cup {i})
        BY <3>2, <4>1 DEF Picked, Best
      <4>3. serverNumber'[j] = c /\ candidateCores' = FreeCores(c) /\ candidateState' = state[c]
        BY <1>3, <1>16, <2>3, <3>7
      <4> QED BY <2>3, <3>1, <4>2, <4>3
    <3> QED BY <3>6, <3>7
  <2> QED BY <2>1, <2>2, <2>3
<1>26. PassAtHand'
  <2>1. Picked(serverNumber[j], Seen(i))'
    BY <1>1, <1>13, <1>25 DEF Picked, Best
  <2>2. \A s : FreeCores(s)' = FreeCores(s)
    BY <1>1 DEF FreeCores
  <2> QED BY <1>1, <1>19, <1>25, <2>1, <2>2 DEF PassAtHand
<1>27. Reservations' /\ SearchEnds'
  <2>1. Taken(j)' = Taken(j)
    <3>1. j \in 0 .. j
      BY <1>5
    <3> QED BY <1>1, <1>11, <3>1 DEF Taken
  <2> QED BY <1>1, <1>6, <2>1 DEF SearchInv, Reservations, SearchEnds
<1> QED BY <1>8, <1>14, <1>26, <1>27 DEF SearchInv

LEMMA EndPassKeeps ==
  ASSUME SearchInv, EndPass
  PROVE  SearchInv'
<1> DEFINE c == serverNumber[j]
<1>1. /\ j < r.nodes /\ i = NumServers /\ j' = j + 1 /\ i' = 0 /\ candidateCores' = -1
      /\ reserved' = IF c # -1 THEN [reserved EXCEPT ![c] = TRUE] ELSE reserved
      /\ UNCHANGED <<state, memory, coresInUse, r, reserved0, serverNumber, candidateState,
                     serversFound, done>>
  BY DEF EndPass
<1>2. SearchTypes
  BY DEF SearchInv
<1>3. /\ j \in 0 .. r.nodes - 1 /\ j \in Nat /\ r.nodes \in Nat /\ NumServers \in Nat
      /\ c \in Server \cup {-1} /\ \A s \in Server : s # -1 /\ s \in Nat /\ s < NumServers
  <2>1. /\ r.nodes \in Nat /\ NumServers \in Nat
        /\ \A s \in Server : s # -1 /\ s \in Nat /\ s < NumServers
    BY <1>2, Numbers
  <2>2. j \in 0 .. r.nodes - 1 /\ j \in Nat
    BY <1>1, <1>2, <2>1 DEF SearchTypes
  <2> QED BY <1>2, <2>1, <2>2 DEF SearchTypes
<1>4. ~done
  BY <1>1, <1>3 DEF SearchInv, SearchEnds
<1>5. reserved' \in [Server -> BOOLEAN]
  <2>1. CASE c = -1
    BY <1>1, <1>2, <2>1 DEF SearchTypes
  <2>2. CASE c # -1
    BY <1>1, <1>2, <2>2 DEF SearchTypes
  <2> QED BY <2>1, <2>2
<1>6. SearchTypes'
  BY <1>1, <1>2, <1>3, <1>5 DEF SearchTypes
<1>7. /\ \A k : Taken(k)' = Taken(k) /\ Open(k)' = Open(k)
      /\ \A s, t : Preferred(s, t)' <=> Preferred(s, t)
  BY <1>1 DEF Taken, Open, Suitable, Preferred, FreeCores
<1>8. Picked(c, Open(j))
  <2>1. Picked(c, Seen(i))
    BY <1>1 DEF SearchInv, PassAtHand
  <2>2. Seen(i) = Open(j)
    BY <1>1, <1>3, OpenServers DEF Seen
  <2> QED BY <2>1, <2>2
<1>9. PassesPick'
  <2> SUFFICES ASSUME NEW k \in 0 .. j PROVE Picked(serverNumber[k], Open(k))
    <3>1. 0 .. j' - 1 = 0 .. j
      BY <1>1, <1>3
    <3>2. serverNumber' = serverNumber
      BY <1>1
    <3> QED BY <1>7, <3>1, <3>2 DEF PassesPick, Picked, Best
  <2>1. k = j \/ k \in 0 .. j - 1
    BY <1>3
  <2> QED BY <1>8, <2>1 DEF SearchInv, PassesPick
<1>10. PassAtHand'
  <2> SUFFICES ASSUME j + 1 < r.nodes
               PROVE  /\ Picked(serverNumber[j], Seen(i))'
                      /\ serverNumber[j + 1] = -1
                      /\ \A k \in (j + 1) + 1 .. r.nodes - 1 : serverNumber[k] = -1
    BY <1>1 DEF PassAtHand
  <2>1. \A k \in j + 1 .. r.nodes - 1 : serverNumber[k] = -1
    BY <1>1 DEF SearchInv, PassAtHand
  <2>2. j + 1 \in j + 1 .. r.nodes - 1 /\ \A k \in (j + 1) + 1 .. r.nodes - 1 : k \in j + 1 .. r.nodes - 1
    BY <1>3
  <2>3. Seen(i)' = {}
    <3>1. Seen(i)' \subseteq Server
      BY OpenServers DEF Seen, Open, Suitable
    <3>2. \A s \in Seen(i)' : s < 0
      BY <1>1 DEF Seen
    <3> QED BY <1>3, <3>1, <3>2
  <2>4. serverNumber'[j'] = -1
    BY <1>1, <2>1, <2>2
  <2> QED BY <2>1, <2>2, <2>3, <2>4 DEF Picked
<1>11. Reservations'
  <2>1. Taken(j + 1) = Taken(j) \cup {c}
    BY <1>3, TakenNext
  <2>2. Taken(j)' = Taken(j) \cup {c}
    BY <1>1, <2>1 DEF Taken
  <2>3. \A s \in Server : reserved'[s] <=> reserved[s] \/ s = c
    <3>1. CASE c = -1
      BY <1>1, <1>3, <3>1
    <3>2. CASE c # -1
      BY <1>1, <1>2, <3>2 DEF SearchTypes
    <3> QED BY <3>1, <3>2
  <2>4. \A s \in Server : reserved[s] <=> reserved0[s] \/ s \in Taken(j)
    BY <1>4 DEF SearchInv, Reservations
  <2> QED BY <1>1, <1>4, <2>2, <2>3, <2>4 DEF Reservations
<1> QED BY <1>1, <1>4, <1>6, <1>9, <1>10, <1>11 DEF SearchInv, SearchEnds

LEMMA PickedIsSuitable ==
  ASSUME SearchTypes, PassesPick, NEW k \in 0 .. j - 1, serverNumber[k] # -1
  PROVE  /\ serverNumber[k] \in Suitable \ Taken(k)
         /\ \A t \in Suitable \ Taken(k) : t # serverNumber[k] => Preferred(serverNumber[k], t)
BY DEF PassesPick, Picked, Best, Open

LEMMA ReleaseKeeps ==
  ASSUME SearchInv, Release
  PROVE  SearchInv'
<1>1. /\ j = r.nodes /\ ~done /\ done'
      /\ serversFound' = (-1 \notin Taken(j))
      /\ reserved' = [s \in Server |-> s \notin Taken(j) /\ reserved[s]]
      /\ UNCHANGED <<state, memory, coresInUse, r, reserved0, i, j, serverNumber, candidateCores,
                     candidateState>>
  BY DEF Release, Taken
<1>2. SearchTypes /\ PassesPick
  BY DEF SearchInv
<1>3. r.nodes \in Nat /\ \A s \in Server : s # -1
  BY <1>2, Numbers
<1>4. done' = TRUE
  BY DEF Release
<1>5. SearchTypes'
  BY <1>1, <1>2, <1>4 DEF SearchTypes
<1>6. /\ \A k : Taken(k)' = Taken(k) /\ Open(k)' = Open(k)
      /\ \A s, t : Preferred(s, t)' <=> Preferred(s, t)
  BY <1>1 DEF Taken, Open, Suitable, Preferred, FreeCores
<1>7. PassesPick'
  BY <1>1, <1>2, <1>6 DEF PassesPick, Picked, Best
<1>8. PassAtHand'
  BY <1>1, <1>3 DEF PassAtHand
<1>9. Reservations'
  <2> SUFFICES ASSUME NEW s \in Server PROVE reserved'[s] <=> reserved0[s]
    BY <1>1 DEF Reservations
  <2>1. reserved'[s] <=> s \notin Taken(j) /\ reserved[s]
    BY <1>1
  <2>2. reserved[s] <=> reserved0[s] \/ s \in Taken(j)
    BY <1>1 DEF SearchInv, Reservations
  <2>3. s \in Taken(j) => ~reserved0[s]
    <3> SUFFICES ASSUME s \in Taken(j) PROVE ~reserved0[s]
      OBVIOUS
    <3>1. PICK k \in 0 .. j - 1 : s = serverNumber[k]
      BY DEF Taken
    <3> QED BY <1>2, <1>3, <3>1, PickedIsSuitable DEF Suitable
  <2> QED BY <2>1, <2>2, <2>3
<1>10. SearchEnds'
  <2>1. Taken(j)' = Taken(j)
    BY <1>1 DEF Taken
  <2> QED BY <1>1, <2>1 DEF SearchEnds
<1> QED BY <1>5, <1>7, <1>8, <1>9, <1>10 DEF SearchInv

LEMMA NextJobKeeps ==
  ASSUME SearchInv, NEW q \in SearchRequests, NextJob(q)
  PROVE  SearchInv'
<1>1. /\ done /\ r' = q /\ i' = 0 /\ j' = 0 /\ candidateCores' = -1
      /\ serverNumber' = [k \in 0 .. q.nodes - 1 |-> -1] /\ serversFound' = TRUE /\ done' = FALSE
      /\ UNCHANGED <<state, memory, coresInUse, reserved, reserved0>>
  BY DEF NextJob
<1>2. SearchTypes /\ NumServers \in Nat
  BY NumServersAssumption DEF SearchInv
<1>3. q \in Request /\ q.nodes \in Nat \ {0}
  BY SearchAssumption DEF Request
<1>4. SearchTypes'
  <2>1. serverNumber' \in [0 .. r'.nodes - 1 -> Server \cup {-1}]
    BY <1>1
  <2>2. i' \in 0 .. NumServers /\ j' \in 0 .. r'.nodes
    BY <1>1, <1>2, <1>3
  <2>3. r' \in Request /\ serversFound' \in BOOLEAN /\ done' \in BOOLEAN
    BY <1>1, <1>3
  <2> QED BY <1>1, <1>2, <2>1, <2>2, <2>3 DEF SearchTypes
<1>5. PassesPick'
  BY <1>1 DEF PassesPick
<1>6. PassAtHand'
  <2>1. Seen(i)' = {}
    <3>1. Seen(i)' \subseteq Server /\ \A s \in Seen(i)' : s < 0
      BY <1>1 DEF Seen, Open, Suitable
    <3>2. \A s \in Server : s \in Nat
      BY <1>2, Numbers
    <3> QED BY <3>1, <3>2
  <2> QED BY <1>1, <1>3, <2>1 DEF PassAtHand, Picked
<1>7. Reservations'
  <2>1. Taken(j)' = {}
    BY <1>1 DEF Taken
  <2> QED BY <1>1, <2>1 DEF SearchInv, Reservations
<1> QED BY <1>1, <1>4, <1>5, <1>6, <1>7 DEF SearchInv, SearchEnds

LEMMA SearchStep == SearchInv /\ [BackfillNext]_backfillVars => SearchInv'
<1> SUFFICES ASSUME SearchInv, [BackfillNext]_backfillVars PROVE SearchInv'
  OBVIOUS
<1>1. CASE UNCHANGED backfillVars
  <2>1. UNCHANGED <<state, memory, coresInUse, reserved, r, reserved0, i, j, serverNumber,
                    candidateCores, candidateState, serversFound, done>>
    BY <1>1 DEF backfillVars, searchVars
  <2>2. SearchTypes' /\ Reservations' /\ SearchEnds'
    BY <2>1 DEF SearchInv, SearchTypes, Reservations, SearchEnds, Taken
  <2>3. PassesPick'
    BY <2>1 DEF SearchInv, PassesPick, Picked, Best, Open, Taken, Suitable, FreeCores, Preferred
  <2>4. PassAtHand'
    BY <2>1 DEF SearchInv, PassAtHand, Picked, Best, Seen, Open, Taken, Suitable, FreeCores, Preferred
  <2> QED BY <2>2, <2>3, <2>4 DEF SearchInv
<1>2. CASE BackfillNext
  BY <1>2, LookKeeps, EndPassKeeps, ReleaseKeeps, NextJobKeeps DEF BackfillNext, SearchNext
<1> QED BY <1>1, <1>2

-----------------------------------------------------------------------------
(* What the search has found *)

\* Different passes pick different servers.
LEMMA PicksDiffer ==
  ASSUME SearchTypes, PassesPick, NEW k \in 0 .. j - 1, NEW l \in 0 .. j - 1,
         serverNumber[k] = serverNumber[l], serverNumber[k] # -1
  PROVE  k = l
<1>1. k \in Nat /\ l \in Nat
  BY DEF SearchTypes
<1>2. serverNumber[k] \notin Taken(k) /\ serverNumber[l] \notin Taken(l)
  BY PickedIsSuitable
<1>3. ~(k < l)
  BY <1>1, <1>2 DEF Taken
<1>4. ~(l < k)
  BY <1>1, <1>2 DEF Taken
<1> QED BY <1>1, <1>3, <1>4

LEMMA TakenFew ==
  ASSUME NEW k \in Nat
  PROVE  IsFiniteSet(Taken(k)) /\ Cardinality(Taken(k)) <= k /\ Cardinality(Taken(k)) \in Nat
<1> DEFINE D == 0 .. k - 1
           f == [l \in D |-> serverNumber[l]]
<1>1. IsFiniteSet(D) /\ Cardinality(D) = k
  <2>1. 0 \in Int /\ k - 1 \in Int
    OBVIOUS
  <2>2. IsFiniteSet(0 .. k - 1) /\ Cardinality(0 .. k - 1) = IF 0 > k - 1 THEN 0 ELSE (k - 1) - 0 + 1
    BY <2>1, FS_Interval, Zenon
  <2> QED BY <2>2
<1>2. f \in Surjection(D, Taken(k))
  <2>1. f \in [D -> Taken(k)]
    BY DEF Taken
  <2>2. \A s \in Taken(k) : \E l \in D : f[l] = s
    BY DEF Taken
  <2> QED BY <2>1, <2>2 DEF Surjection
<1> HIDE DEF D, f
<1>3. IsFiniteSet(Taken(k)) /\ Cardinality(Taken(k)) <= Cardinality(D)
  BY <1>1, <1>2, FS_Surjection
<1>4. Cardinality(Taken(k)) \in Nat
  BY <1>3, FS_CardinalityType
<1> QED BY <1>1, <1>3, <1>4

\* A search that has succeeded has picked as many servers as there were passes.
LEMMA TakenAll ==
  ASSUME SearchTypes, PassesPick, j = r.nodes, -1 \notin Taken(j)
  PROVE  Cardinality(Taken(j)) = r.nodes
<1> DEFINE D == 0 .. j - 1
           f == [l \in D |-> serverNumber[l]]
<1>1. j \in Nat
  BY DEF SearchTypes
<1>2. IsFiniteSet(D) /\ Cardinality(D) = j
  <2>1. 0 \in Int /\ j - 1 \in Int
    BY <1>1
  <2>2. IsFiniteSet(0 .. j - 1) /\ Cardinality(0 .. j - 1) = IF 0 > j - 1 THEN 0 ELSE (j - 1) - 0 + 1
    BY <2>1, FS_Interval, Zenon
  <2> QED BY <1>1, <2>2
<1>3. f \in Bijection(D, Taken(j))
  <2>1. f \in [D -> Taken(j)]
    BY DEF Taken
  <2>2. \A s \in Taken(j) : \E l \in D : f[l] = s
    BY DEF Taken
  <2>3. \A k, l \in D : f[k] = f[l] => k = l
    <3>1. \A k \in D : serverNumber[k] # -1
      BY DEF Taken
    <3> QED BY <3>1, PicksDiffer
  <2> QED BY <2>1, <2>2, <2>3 DEF Bijection, Injection, Surjection, IsInjective
<1> HIDE DEF D, f
<1>4. Cardinality(Taken(j)) = Cardinality(D)
  <2>1. ExistsBijection(D, Taken(j))
    BY <1>3 DEF ExistsBijection
  <2> QED BY <1>2, <2>1, FS_Bijection
<1> QED BY <1>2, <1>4

LEMMA FoundIsSelection ==
  ASSUME SearchTypes, PassesPick, j = r.nodes, -1 \notin Taken(j), Eligible(r) = Suitable
  PROVE  Taken(j) \subseteq Eligible(r) /\ SearchServers(r, Taken(j))
<1>1. ASSUME NEW s \in Taken(j)
      PROVE  s \in Suitable /\ \A t \in Suitable \ Taken(j) : Preferred(s, t)
  <2>1. PICK k \in 0 .. j - 1 : s = serverNumber[k]
    BY DEF Taken
  <2>2. s # -1
    OBVIOUS
  <2>3. s \in Suitable \ Taken(k) /\ \A t \in Suitable \ Taken(k) : t # s => Preferred(s, t)
    BY <2>1, <2>2, PickedIsSuitable
  <2>4. Taken(k) \subseteq Taken(j)
    <3>1. \A l \in 0 .. k - 1 : l \in 0 .. j - 1
      BY DEF SearchTypes
    <3> QED BY <3>1 DEF Taken
  <2> QED BY <2>3, <2>4
<1>2. Cardinality(Taken(j)) = r.nodes
  BY TakenAll
<1> QED BY <1>1, <1>2 DEF SearchServers

LEMMA NotFoundIsNone ==
  ASSUME SearchTypes, PassesPick, j = r.nodes, -1 \in Taken(j), Eligible(r) = Suitable
  PROVE  ~ServersFound(r)
<1> SUFFICES ASSUME NEW T \in SUBSET Suitable, Cardinality(T) = r.nodes PROVE FALSE
  BY DEF ServersFound, SearchServers
<1>1. PICK k \in 0 .. j - 1 : serverNumber[k] = -1
  BY DEF Taken
<1>2. k \in Nat /\ k < r.nodes /\ r.nodes \in Nat
  BY Numbers DEF SearchTypes
<1>3. Suitable \subseteq Taken(k)
  <2>1. -1 \notin Open(k)
    BY Numbers, OpenServers
  <2> QED BY <1>1, <2>1 DEF PassesPick, Picked, Best, Open
<1>4. IsFiniteSet(Taken(k)) /\ Cardinality(Taken(k)) <= k /\ Cardinality(Taken(k)) \in Nat
  BY <1>2, TakenFew
<1>5. T \subseteq Taken(k)
  BY <1>3
<1>6. Cardinality(T) <= Cardinality(Taken(k))
  BY <1>4, <1>5, FS_Subset
<1> QED BY <1>2, <1>4, <1>6

LEMMA SearchIsRight == SearchInv => SearchAgrees
<1> SUFFICES ASSUME SearchInv, done PROVE SearchAgrees
  BY DEF SearchAgrees
<1>1. SearchTypes /\ PassesPick /\ j = r.nodes /\ (serversFound <=> -1 \notin Taken(j))
  BY DEF SearchInv, SearchEnds
<1>2. \A s \in Server : reserved[s] <=> reserved0[s]
  BY DEF SearchInv, Reservations
<1>3. reserved = reserved0
  <2>1. reserved \in [Server -> BOOLEAN] /\ reserved0 \in [Server -> BOOLEAN]
    BY <1>1 DEF SearchTypes
  <2>2. \A s \in Server : reserved[s] = reserved0[s]
    BY <1>2, <2>1
  <2> QED BY <2>1, <2>2
<1>4. Eligible(r) = Suitable
  BY <1>3 DEF Eligible, Suitable
<1>5. {serverNumber[k] : k \in 0 .. r.nodes - 1} = Taken(j)
  BY <1>1 DEF Taken
<1>6. serversFound => Taken(j) \subseteq Eligible(r) /\ SearchServers(r, Taken(j))
  BY <1>1, <1>4, FoundIsSelection
<1>7. serversFound <=> ServersFound(r)
  <2>1. serversFound => ServersFound(r)
    BY <1>6 DEF ServersFound
  <2>2. ~serversFound => ~ServersFound(r)
    BY <1>1, <1>4, NotFoundIsNone
  <2> QED BY <2>1, <2>2
<1> QED BY <1>3, <1>5, <1>6, <1>7 DEF SearchAgrees

-----------------------------------------------------------------------------
(* Sums over finite sets, and other definitions by recursion *)

LEMMA LeastExists ==
  ASSUME NEW T \in SUBSET Nat, T # {}
  PROVE  \E n \in T : \A m \in T : n <= m
<1>1. PICK n \in T : \A m \in T : ~ (<<m, n>> \in OpToRel(<, Nat))
  BY NatLessThanWellFounded, WFMin
<1>2. \A m \in T : ~(m < n)
  BY <1>1 DEF OpToRel
<1> QED BY <1>2

LEMMA AllNumbers ==
  ASSUME NEW T, 0 \in T, \A k \in Nat : k \in T => k + 1 \in T
  PROVE  \A k \in Nat : k \in T
<1> DEFINE Missing == {k \in Nat : k \notin T}
<1>1. SUFFICES ASSUME Missing # {} PROVE FALSE
  OBVIOUS
<1>2. PICK n \in Missing : \A m \in Missing : n <= m
  BY <1>1, LeastExists
<1>3. n \in Nat /\ n # 0 /\ n \notin T
  BY <1>2
<1>4. n - 1 \in Nat /\ n - 1 \notin Missing
  BY <1>2, <1>3
<1>5. (n - 1) + 1 \in T
  BY <1>4
<1> QED BY <1>3, <1>5

\* The element of U that a sum takes first.
Some(U) == CHOOSE x \in U : TRUE

\* The function s has the sum of h for each of the sets in F.
Sums(h, F, s) == s = [U \in F |-> IF U = {} THEN 0 ELSE h[Some(U)] + s[U \ {Some(U)}]]

SetsUpTo(S, k) == {U \in SUBSET S : Cardinality(U) <= k}

LEMMA SumUnfolded ==
  ASSUME NEW h, NEW S
  PROVE  SumFunctionOnSet(h, S) = (CHOOSE s : Sums(h, SUBSET S, s))[S]
BY DEF SumFunctionOnSet, FoldFunctionOnSet, MapThenFoldSet, Sums, Some

\* One element less.
LEMMA SmallerSet ==
  ASSUME NEW S, IsFiniteSet(S), NEW k \in Nat, NEW U \in SetsUpTo(S, k + 1), U # {}
  PROVE  Some(U) \in S /\ U \ {Some(U)} \in SetsUpTo(S, k)
<1> DEFINE x == Some(U)
<1>1. x \in U
  BY DEF Some
<1>2. U \subseteq S /\ Cardinality(U) <= k + 1
  BY DEF SetsUpTo
<1>3. IsFiniteSet(U)
  BY <1>2, FS_Subset
<1>4. Cardinality(U) \in Nat /\ Cardinality(U \ {x}) = Cardinality(U) - 1
  BY <1>1, <1>3, FS_RemoveElement, FS_CardinalityType
<1> HIDE DEF x
<1>5. U \ {x} \in SUBSET S /\ Cardinality(U \ {x}) <= k
  BY <1>2, <1>4
<1>6. x \in S /\ U \ {x} \in SetsUpTo(S, k)
  BY <1>1, <1>2, <1>5 DEF SetsUpTo
<1> QED BY <1>6 DEF x

LEMMA NoElements ==
  ASSUME NEW S, IsFiniteSet(S), NEW U \in SetsUpTo(S, 0)
  PROVE  U = {}
<1>1. U \subseteq S /\ Cardinality(U) <= 0
  BY DEF SetsUpTo
<1>2. IsFiniteSet(U)
  BY <1>1, FS_Subset
<1>3. Cardinality(U) \in Nat /\ (Cardinality(U) = 0 <=> U = {})
  BY <1>2, FS_CardinalityType, FS_EmptySet
<1> QED BY <1>1, <1>3

LEMMA SumsExist ==
  ASSUME NEW S, IsFiniteSet(S), NEW h
  PROVE  \A k \in Nat : \E s : Sums(h, SetsUpTo(S, k), s)
<1> DEFINE T == {k \in Nat : \E s : Sums(h, SetsUpTo(S, k), s)}
<1>1. 0 \in T
  <2> DEFINE zero == [U \in SetsUpTo(S, 0) |-> 0]
  <2>1. \A U \in SetsUpTo(S, 0) : U = {}
    BY NoElements
  <2>2. Sums(h, SetsUpTo(S, 0), zero)
    BY <2>1 DEF Sums
  <2> QED BY <2>2
<1>2. ASSUME NEW k \in Nat, k \in T PROVE k + 1 \in T
  <2>1. PICK s : Sums(h, SetsUpTo(S, k), s)
    BY <1>2
  <2> DEFINE F == SetsUpTo(S, k)
             G == SetsUpTo(S, k + 1)
             t == [U \in G |-> IF U = {} THEN 0 ELSE h[Some(U)] + s[U \ {Some(U)}]]
  <2>2. s = [U \in F |-> IF U = {} THEN 0 ELSE h[Some(U)] + s[U \ {Some(U)}]]
    BY <2>1 DEF Sums
  <2>3. F \subseteq G
    <3>1. \A U \in F : U \in SUBSET S /\ Cardinality(U) <= k
      BY DEF SetsUpTo
    <3>2. \A U \in F : Cardinality(U) \in Nat
      BY <3>1, FS_Subset, FS_CardinalityType
    <3>3. \A U \in F : Cardinality(U) <= k + 1
      BY <3>1, <3>2
    <3> QED BY <3>1, <3>3 DEF SetsUpTo
  <2>4. \A U \in G : U # {} => U \ {Some(U)} \in F
    BY SmallerSet
  <2> HIDE DEF F, G
  <2>5. \A U \in F : t[U] = s[U]
    <3>1. \A U \in F : t[U] = IF U = {} THEN 0 ELSE h[Some(U)] + s[U \ {Some(U)}]
      BY <2>3
    <3>2. \A U \in F : s[U] = IF U = {} THEN 0 ELSE h[Some(U)] + s[U \ {Some(U)}]
      BY <2>2
    <3> QED BY <3>1, <3>2
  <2>6. \A U \in G : t[U] = IF U = {} THEN 0 ELSE h[Some(U)] + t[U \ {Some(U)}]
    <3>1. \A U \in G : t[U] = IF U = {} THEN 0 ELSE h[Some(U)] + s[U \ {Some(U)}]
      OBVIOUS
    <3> QED BY <3>1, <2>4, <2>5
  <2>7. t = [U \in G |-> t[U]]
    OBVIOUS
  <2> HIDE DEF t
  <2>8. t = [U \in G |-> IF U = {} THEN 0 ELSE h[Some(U)] + t[U \ {Some(U)}]]
    BY <2>6, <2>7
  <2>9. Sums(h, SetsUpTo(S, k + 1), t)
    BY <2>8 DEF Sums, G
  <2> QED BY <2>9
<1>3. \A k \in Nat : k \in T
  <2> HIDE DEF T
  <2> QED BY <1>1, <1>2, AllNumbers
<1> QED BY <1>3

\* The sum of numbers is a number.
LEMMA SumIsNumber ==
  ASSUME NEW S, IsFiniteSet(S), NEW h, \A x \in S : h[x] \in Int
  PROVE  SumFunctionOnSet(h, S) \in Int
<1> DEFINE n == Cardinality(S)
           s == CHOOSE f : Sums(h, SUBSET S, f)
<1>1. n \in Nat
  BY FS_CardinalityType
<1>2. SetsUpTo(S, n) = SUBSET S
  <2>1. \A U \in SUBSET S : Cardinality(U) <= n
    BY FS_Subset
  <2> QED BY <2>1 DEF SetsUpTo
<1>3. \E f : Sums(h, SUBSET S, f)
  BY <1>1, <1>2, SumsExist
<1>4. Sums(h, SUBSET S, s)
  BY <1>3
<1> HIDE DEF n, s
<1>5. \A U \in SUBSET S : s[U] = IF U = {} THEN 0 ELSE h[Some(U)] + s[U \ {Some(U)}]
  BY <1>4 DEF Sums
<1>e. s[{}] = 0
  <2>1. {} \in SUBSET S
    OBVIOUS
  <2> QED BY <2>1, <1>5
<1> DEFINE T == {k \in Nat : \A U \in SetsUpTo(S, k) : s[U] \in Int}
<1>6. 0 \in T
  <2>1. ASSUME NEW U \in SetsUpTo(S, 0) PROVE s[U] \in Int
    <3>1. U = {}
      BY NoElements
    <3> QED BY <3>1, <1>e
  <2> QED BY <2>1
<1>7. ASSUME NEW k \in Nat, k \in T PROVE k + 1 \in T
  <2>1. ASSUME NEW U \in SetsUpTo(S, k + 1) PROVE s[U] \in Int
    <3>1. U \in SUBSET S
      BY DEF SetsUpTo
    <3>2. CASE U = {}
      BY <3>2, <1>e
    <3>3. CASE U # {}
      <4>1. Some(U) \in S /\ U \ {Some(U)} \in SetsUpTo(S, k)
        BY <3>3, SmallerSet
      <4>2. h[Some(U)] \in Int /\ s[U \ {Some(U)}] \in Int
        BY <4>1, <1>7
      <4>3. s[U] = h[Some(U)] + s[U \ {Some(U)}]
        BY <3>1, <3>3, <1>5
      <4> QED BY <4>2, <4>3
    <3> QED BY <3>2, <3>3
  <2> QED BY <2>1
<1>8. \A k \in Nat : k \in T
  <2> HIDE DEF T
  <2> QED BY <1>6, <1>7, AllNumbers
<1>9. s[S] \in Int
  <2>1. n \in T
    BY <1>1, <1>8
  <2>2. S \in SetsUpTo(S, n)
    BY <1>2
  <2> QED BY <2>1, <2>2
<1> QED BY <1>9, SumUnfolded DEF s

-----------------------------------------------------------------------------
(* The scan for the best fit *)

Optimum(k, free) == [jobIndex |-> k, nodes |-> free[k].nodes, cores |-> free[k].cores,
                     memory |-> free[k].memory]

\* What the scan keeps after candidate k.
Kept(opt, k, C, free) == IF k \in C /\ Replaces(free[k], opt) THEN Optimum(k, free) ELSE opt

\* s is the scan of the positions up to n, of which those in C are candidates.
Scans(n, C, free, s) ==
  s = [k \in 0 .. n |-> IF k = 0 THEN NoOptimum ELSE Kept(s[k - 1], k, C, free)]

LEMMA OptimalJobUnfolded ==
  ASSUME NEW n, NEW C, NEW free
  PROVE  OptimalJob(n, C, free) = (CHOOSE s : Scans(n, C, free, s))[n].jobIndex
BY DEF OptimalJob, Scans, Kept, Optimum

LEMMA ScansExist ==
  ASSUME NEW C, NEW free
  PROVE  \A n \in Nat : \E s : Scans(n, C, free, s)
<1> DEFINE T == {n \in Nat : \E s : Scans(n, C, free, s)}
<1>1. 0 \in T
  <2> DEFINE s == [k \in 0 .. 0 |-> NoOptimum]
  <2>1. Scans(0, C, free, s)
    BY DEF Scans
  <2> QED BY <2>1
<1>2. ASSUME NEW n \in Nat, n \in T PROVE n + 1 \in T
  <2>1. PICK s : Scans(n, C, free, s)
    BY <1>2
  <2> DEFINE t == [k \in 0 .. n + 1 |-> IF k = 0 THEN NoOptimum ELSE Kept(s[k - 1], k, C, free)]
  <2>2. s = [k \in 0 .. n |-> IF k = 0 THEN NoOptimum ELSE Kept(s[k - 1], k, C, free)]
    BY <2>1 DEF Scans
  <2>3. \A k \in 0 .. n : t[k] = s[k]
    <3>1. \A k \in 0 .. n : k \in 0 .. n + 1
      OBVIOUS
    <3>2. \A k \in 0 .. n : t[k] = IF k = 0 THEN NoOptimum ELSE Kept(s[k - 1], k, C, free)
      BY <3>1
    <3>3. \A k \in 0 .. n : s[k] = IF k = 0 THEN NoOptimum ELSE Kept(s[k - 1], k, C, free)
      BY <2>2
    <3> QED BY <3>2, <3>3
  <2>4. \A k \in 0 .. n + 1 : k # 0 => k - 1 \in 0 .. n
    OBVIOUS
  <2>5. \A k \in 0 .. n + 1 : t[k] = IF k = 0 THEN NoOptimum ELSE Kept(s[k - 1], k, C, free)
    OBVIOUS
  <2>6. t = [k \in 0 .. n + 1 |-> t[k]]
    OBVIOUS
  <2> HIDE DEF t
  <2>7. \A k \in 0 .. n + 1 : t[k] = IF k = 0 THEN NoOptimum ELSE Kept(t[k - 1], k, C, free)
    BY <2>3, <2>4, <2>5
  <2>8. t = [k \in 0 .. n + 1 |-> IF k = 0 THEN NoOptimum ELSE Kept(t[k - 1], k, C, free)]
    BY <2>6, <2>7
  <2>9. Scans(n + 1, C, free, t)
    BY <2>8 DEF Scans
  <2> QED BY <2>9
<1>3. \A n \in Nat : n \in T
  <2> HIDE DEF T
  <2> QED BY <1>1, <1>2, AllNumbers
<1> QED BY <1>3

IsRest(a) == a.nodes \in Int \ {-1} /\ a.cores \in Int \ {-1} /\ a.memory \in Int \ {-1}

\* The optimum opt is the first of the best fits up to n.
FirstBest(opt, n, free) ==
  /\ opt.jobIndex \in 1 .. n
  /\ opt = Optimum(opt.jobIndex, free)
  /\ \A k \in 1 .. n : ~LeavesLess(free[k], free[opt.jobIndex])
  /\ \A k \in 1 .. opt.jobIndex - 1 : LeavesLess(free[opt.jobIndex], free[k])

\* Among rests without a -1 the one that leaves less replaces the optimum.
LEMMA ReplacesLess ==
  ASSUME NEW free, NEW k, NEW l, IsRest(free[k]), IsRest(free[l])
  PROVE  Replaces(free[k], Optimum(l, free)) <=> LeavesLess(free[k], free[l])
BY DEF Replaces, LeavesLess, IsRest, Optimum

LEMMA LessIsOrder ==
  ASSUME NEW a, NEW b, NEW c, IsRest(a), IsRest(b), IsRest(c)
  PROVE  /\ ~LeavesLess(a, a)
         /\ LeavesLess(a, b) => ~LeavesLess(b, a)
         /\ LeavesLess(a, b) /\ ~LeavesLess(c, b) => LeavesLess(a, c)
BY DEF LeavesLess, IsRest

LEMMA ScanStep ==
  ASSUME NEW n \in Nat \ {0}, NEW free, \A k \in 1 .. n + 1 : IsRest(free[k]),
         NEW opt, FirstBest(opt, n, free), NEW C, n + 1 \in C
  PROVE  FirstBest(Kept(opt, n + 1, C, free), n + 1, free)
<1> DEFINE l == opt.jobIndex
           m == n + 1
<1>1. l \in 1 .. n /\ l \in 1 .. m /\ m \in 1 .. m /\ m \in Nat
  BY DEF FirstBest
<1>2. \A k \in 1 .. m : k \in 1 .. n \/ k = m
  OBVIOUS
<1>3. opt = Optimum(l, free) /\ \A k \in 1 .. n : ~LeavesLess(free[k], free[l])
  BY DEF FirstBest
<1>4. \A k \in 1 .. l - 1 : LeavesLess(free[l], free[k])
  BY DEF FirstBest
<1>5. IsRest(free[l]) /\ IsRest(free[m])
  BY <1>1
<1>6. Replaces(free[m], opt) <=> LeavesLess(free[m], free[l])
  BY <1>3, <1>5, ReplacesLess
<1>7. CASE LeavesLess(free[m], free[l])
  <2>1. Kept(opt, m, C, free) = Optimum(m, free)
    BY <1>6, <1>7 DEF Kept
  <2>2. \A k \in 1 .. n : LeavesLess(free[m], free[k])
    <3>1. \A k \in 1 .. n : IsRest(free[k])
      BY <1>1
    <3> QED BY <3>1, <1>3, <1>5, <1>7, LessIsOrder
  <2>3. \A k \in 1 .. m : ~LeavesLess(free[k], free[m])
    <3> SUFFICES ASSUME NEW k \in 1 .. m PROVE ~LeavesLess(free[k], free[m])
      OBVIOUS
    <3>1. IsRest(free[k])
      OBVIOUS
    <3>2. CASE k = m
      BY <3>2, <1>5, LessIsOrder
    <3>3. CASE k \in 1 .. n
      BY <3>1, <3>3, <2>2, <1>5, LessIsOrder
    <3> QED BY <3>2, <3>3, <1>2
  <2>4. m - 1 = n
    OBVIOUS
  <2>5. Optimum(m, free).jobIndex = m
    BY DEF Optimum
  <2> HIDE DEF m
  <2>6. FirstBest(Optimum(m, free), m, free)
    BY <1>1, <2>2, <2>3, <2>4, <2>5 DEF FirstBest
  <2> QED BY <2>1, <2>6 DEF m
<1>8. CASE ~LeavesLess(free[m], free[l])
  <2>1. Kept(opt, m, C, free) = opt
    BY <1>6, <1>8 DEF Kept
  <2>2. \A k \in 1 .. m : ~LeavesLess(free[k], free[l])
    BY <1>2, <1>3, <1>8
  <2> HIDE DEF m
  <2>3. FirstBest(opt, m, free)
    BY <1>1, <1>3, <1>4, <2>2 DEF FirstBest
  <2> QED BY <2>1, <2>3 DEF m
<1> QED BY <1>7, <1>8

LEMMA BestFitSelected ==
  ASSUME NEW n \in Nat \ {0}, NEW free, \A k \in 1 .. n : IsRest(free[k])
  PROVE  LET c == OptimalJob(n, 1 .. n, free)
         IN  /\ c \in 1 .. n
             /\ \A k \in 1 .. n : ~LeavesLess(free[k], free[c])
             /\ \A k \in 1 .. c - 1 : LeavesLess(free[c], free[k])
<1> DEFINE s == CHOOSE f : Scans(n, 1 .. n, free, f)
<1>1. Scans(n, 1 .. n, free, s)
  BY ScansExist
<1> HIDE DEF s
<1>2. \A k \in 0 .. n : s[k] = IF k = 0 THEN NoOptimum ELSE Kept(s[k - 1], k, 1 .. n, free)
  BY <1>1 DEF Scans
<1> DEFINE T == {k \in Nat : k + 1 <= n => FirstBest(s[k + 1], k + 1, free)}
<1>3. 0 \in T
  <2>1. 1 \in 0 .. n /\ 1 # 0 /\ 1 - 1 = 0 /\ 0 \in 0 .. n /\ 1 \in 1 .. n
    OBVIOUS
  <2>2. s[0] = NoOptimum
    BY <2>1, <1>2
  <2>3. s[1] = Kept(s[0], 1, 1 .. n, free)
    BY <2>1, <1>2
  <2>4. Replaces(free[1], NoOptimum)
    BY DEF Replaces, NoOptimum
  <2>5. s[1] = Optimum(1, free)
    BY <2>1, <2>2, <2>3, <2>4 DEF Kept
  <2>6. ~LeavesLess(free[1], free[1])
    BY <2>1, LessIsOrder
  <2>7. s[1].jobIndex = 1
    BY <2>5 DEF Optimum
  <2>8. \A k \in 1 .. 1 : ~LeavesLess(free[k], free[1])
    BY <2>6
  <2>9. 1 .. 1 - 1 = {}
    OBVIOUS
  <2>10. FirstBest(s[1], 1, free)
    BY <2>5, <2>7, <2>8, <2>9 DEF FirstBest
  <2> QED BY <2>10
<1>4. ASSUME NEW k \in Nat, k \in T PROVE k + 1 \in T
  <2> DEFINE m == k + 1
  <2>1. m \in Nat \ {0} /\ (m + 1) - 1 = m
    OBVIOUS
  <2> HIDE DEF m
  <2>2. SUFFICES ASSUME m + 1 <= n PROVE FirstBest(s[m + 1], m + 1, free)
    BY <2>1 DEF m
  <2>3. m <= n /\ m + 1 \in 0 .. n /\ m + 1 # 0 /\ m + 1 \in 1 .. n
    BY <2>1, <2>2
  <2>4. FirstBest(s[m], m, free)
    BY <1>4, <2>3 DEF m
  <2>5. s[m + 1] = Kept(s[m], m + 1, 1 .. n, free)
    BY <2>1, <2>3, <1>2
  <2>6. \A l \in 1 .. m + 1 : IsRest(free[l])
    BY <2>1, <2>2
  <2> QED BY <2>1, <2>3, <2>4, <2>5, <2>6, ScanStep
<1>5. \A k \in Nat : k \in T
  <2> HIDE DEF T
  <2> QED BY <1>3, <1>4, AllNumbers
<1>6. n - 1 \in T /\ (n - 1) + 1 = n
  BY <1>5
<1>7. FirstBest(s[n], n, free)
  BY <1>6
<1>8. OptimalJob(n, 1 .. n, free) = s[n].jobIndex
  BY OptimalJobUnfolded DEF s
<1> QED BY <1>7, <1>8 DEF FirstBest

-----------------------------------------------------------------------------
(* The candidates of best-fit backfill *)

CandidatesInv == candidates \in Seq(SearchRequests) /\ r \in SearchRequests

LEMMA FreeAfterIsRest ==
  ASSUME SearchTypes, NEW q \in Request
  PROVE  FreeAfter(q).nodes \in Int /\ FreeAfter(q).cores \in Int /\ FreeAfter(q).memory \in Int
<1> DEFINE roomy == {s \in Server : FreeCores(s) > q.cores}
           freeCores == [s \in Server |-> FreeCores(s)]
<1>1. IsFiniteSet(roomy)
  <2>1. NumServers - 1 \in Int /\ 0 \in Int
    BY Numbers
  <2>2. IsFiniteSet(0 .. NumServers - 1)
    BY <2>1, FS_Interval, Zenon
  <2>3. roomy \subseteq 0 .. NumServers - 1
    BY DEF Server
  <2> QED BY <2>2, <2>3, FS_Subset
<1>2. \A s \in roomy : freeCores[s] \in Int /\ memory[s] \in Int
  BY Numbers DEF SearchTypes
<1>3. q.nodes \in Nat /\ q.cores \in Nat /\ q.needMemory \in Nat
  BY DEF Request
<1>4. FreeAfter(q) = [nodes  |-> Cardinality(roomy) - q.nodes,
                      cores  |-> SumFunctionOnSet(freeCores, roomy) - q.cores * q.nodes,
                      memory |-> SumFunctionOnSet(memory, roomy) - q.needMemory * q.nodes]
  BY DEF FreeAfter
<1> HIDE DEF roomy, freeCores
<1>5. SumFunctionOnSet(freeCores, roomy) \in Int
  BY <1>1, <1>2, SumIsNumber
<1>6. SumFunctionOnSet(memory, roomy) \in Int
  BY <1>1, <1>2, SumIsNumber
<1>7. Cardinality(roomy) \in Nat
  BY <1>1, FS_CardinalityType
<1>8. q.cores * q.nodes \in Int /\ q.needMemory * q.nodes \in Int
  BY <1>3
<1> QED BY <1>3, <1>4, <1>5, <1>6, <1>7, <1>8

LEMMA BestFitIsRight ==
  ASSUME SearchTypes, CandidatesInv
  PROVE  SelectsBestFitAboveSentinel
<1> DEFINE n == Len(Found)
<1>1. SUFFICES ASSUME Found # <<>>,
                      \A k \in 1 .. n : -1 \notin {Free[k].nodes, Free[k].cores, Free[k].memory}
               PROVE  BestFits(Chosen) /\ \A k \in 1 .. Chosen - 1 : ~BestFits(k)
  BY DEF SelectsBestFitAboveSentinel
<1>2. Found \in Seq(Request)
  <2>1. SearchRequests \subseteq Request
    BY SearchAssumption
  <2>2. Found \in Seq(SearchRequests)
    BY DEF Found, CandidatesInv
  <2> QED BY <2>1, <2>2
<1>3. n \in Nat \ {0} /\ \A k \in 1 .. n : Found[k] \in Request
  BY <1>1, <1>2
<1>4. \A k \in 1 .. n : IsRest(Free[k])
  <2> TAKE k \in 1 .. n
  <2>1. Free[k] = FreeAfter(Found[k])
    BY DEF Free
  <2>2. Free[k].nodes \in Int /\ Free[k].cores \in Int /\ Free[k].memory \in Int
    BY <1>3, <2>1, FreeAfterIsRest
  <2> QED BY <1>1, <2>2 DEF IsRest
<1>5. Chosen = OptimalJob(n, 1 .. n, Free)
  BY DEF Chosen
<1> HIDE DEF n
<1>6. /\ Chosen \in 1 .. n
      /\ \A k \in 1 .. n : ~LeavesLess(Free[k], Free[Chosen])
      /\ \A k \in 1 .. Chosen - 1 : LeavesLess(Free[Chosen], Free[k])
  BY <1>3, <1>4, <1>5, BestFitSelected
<1>7. BestFits(Chosen)
  BY <1>6 DEF BestFits, n
<1>8. \A k \in 1 .. Chosen - 1 : ~BestFits(k)
  BY <1>6 DEF BestFits, n
<1> QED BY <1>7, <1>8

LEMMA CandidatesBegin == BackfillInit => CandidatesInv
BY DEF BackfillInit, SearchInit, CandidatesInv

LEMMA CandidatesStep ==
  ASSUME CandidatesInv, [BackfillNext]_backfillVars
  PROVE  CandidatesInv'
<1>1. CASE SearchNext /\ UNCHANGED candidates
  BY <1>1 DEF SearchNext, LookAt, EndPass, Release, CandidatesInv
<1>2. CASE \E q \in SearchRequests : NextJob(q)
  BY <1>2 DEF NextJob, Found, CandidatesInv
<1>3. CASE UNCHANGED backfillVars
  BY <1>3 DEF backfillVars, searchVars, CandidatesInv
<1> QED BY <1>1, <1>2, <1>3 DEF BackfillNext

-----------------------------------------------------------------------------
(* The theorem *)

\* For any number of servers, whatever the RMS knows of them, and for every queue of requests:
\* the loops of searchServers succeed exactly if there are enough servers, choose the most
\* preferred ones and release what they reserve meanwhile, so that SuperComSrvList and
\* SuperComRms are right to state searchServers by its result; and best-fit backfill selects the
\* first of the jobs that leave least, as long as none leaves -1 of a resource.
THEOREM SearchImplemented == BackfillSpec => []BackfillAgrees
<1>1. BackfillInit => SearchInv /\ CandidatesInv
  BY SearchBegins, CandidatesBegin
<1>2. SearchInv /\ CandidatesInv /\ [BackfillNext]_backfillVars => (SearchInv /\ CandidatesInv)'
  BY SearchStep, CandidatesStep
<1>3. SearchInv /\ CandidatesInv => BackfillAgrees
  BY SearchIsRight, BestFitIsRight DEF SearchInv, BackfillAgrees
<1> QED BY <1>1, <1>2, <1>3, PTL DEF BackfillSpec
=============================================================================
