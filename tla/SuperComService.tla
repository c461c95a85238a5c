-------------------------- MODULE SuperComService --------------------------
(***************************************************************************)
(* What a data centre promises its clients, without RMS, messages or       *)
(* sleeping servers.  A job is accepted, gets all its nodes at once,       *)
(* starts, gives its nodes back one by one, and is reported when the last  *)
(* has been given back.  The cores of a server are never promised twice.   *)
(***************************************************************************)
EXTENDS Integers, FiniteSets

CONSTANTS
    Server,
    NumCores,       \* cores of a server
    Client,
    Requests        \* what each client may ask for

VARIABLES
    status,         \* how far the job of a client is
    request,        \* what it asks for
    holders         \* the clients whose jobs hold cores of a server

serviceVars == <<status, request, holders>>

NoRequest == [nodes |-> 0, cores |-> 0, needMemory |-> 0]

\* The cores of server s that are held, unit by unit.
CoresHeld(s) == {u \in holders[s] \X (1 .. NumCores) : u[2] <= request[u[1]].cores}

\* Whether the servers T can take a job with request r.
CanHold(T, r) ==
    /\ Cardinality(T) = r.nodes
    /\ \A s \in T : Cardinality(CoresHeld(s)) + r.cores <= NumCores

ServiceInit ==
    /\ status = [c \in Client |-> "absent"]
    /\ request = [c \in Client |-> NoRequest]
    /\ holders = [s \in Server |-> {}]

\* The job of c, with request r, gets all its servers; it may have to wait for them.
Hold(c, r, T) ==
    /\ CanHold(T, r)
    /\ holders' = [s \in Server |-> IF s \in T THEN holders[s] \cup {c} ELSE holders[s]]
    /\ \E st \in {"placed", "started"} : status' = [status EXCEPT ![c] = st]

Submit(c, r) ==
    /\ status[c] = "absent" /\ r \in Requests[c]
    /\ request' = [request EXCEPT ![c] = r]
    /\ \/ status' = [status EXCEPT ![c] = "waiting"] /\ UNCHANGED holders
       \/ \E T \in SUBSET Server : Hold(c, r, T)

PlaceJob(c) ==
    /\ status[c] = "waiting"
    /\ \E T \in SUBSET Server : Hold(c, request[c], T)
    /\ UNCHANGED request

Start(c) ==
    /\ status[c] = "placed"
    /\ status' = [status EXCEPT ![c] = "started"]
    /\ UNCHANGED <<request, holders>>

\* A node of the job ends; with the last one the job does.
ReleaseNode(c, s) ==
    /\ status[c] = "started" /\ c \in holders[s]
    /\ holders' = [holders EXCEPT ![s] = @ \ {c}]
    /\ IF \E t \in Server \ {s} : c \in holders[t]
       THEN UNCHANGED <<status, request>>
       ELSE /\ status' = [status EXCEPT ![c] = "finished"]
            /\ request' = [request EXCEPT ![c] = NoRequest]

Notify(c) ==
    /\ status[c] = "finished"
    /\ status' = [status EXCEPT ![c] = "absent"]
    /\ UNCHANGED <<request, holders>>

ServiceNext ==
    \E c \in Client : \/ \E r \in Requests[c] : Submit(c, r)
                      \/ PlaceJob(c) \/ Start(c) \/ Notify(c)
                      \/ \E s \in Server : ReleaseNode(c, s)

ServiceSpec == ServiceInit /\ [][ServiceNext]_serviceVars
============================================================================
