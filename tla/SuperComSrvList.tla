-------------------------- MODULE SuperComSrvList --------------------------
(***************************************************************************)
(* The RMS's view of its servers (srvList, one serverInfo per server) and  *)
(* the functions that read it: which servers a job would get, and what it  *)
(* would leave free.  They are stated here by their result; the module     *)
(* SuperComBackfillSearch has the loops of searchServers as they are run.  *)
(***************************************************************************)
EXTENDS SuperComNet, FiniteSetsExt

VARIABLES
    state,          \* what the RMS takes the server to be doing
    memory,         \* memory it takes to be free
    coresInUse,     \* cores of the jobs it has placed there
    reserved        \* asleep or waking up on its order: not to be chosen

Request == [nodes : Nat \ {0}, cores : Nat \ {0}, needMemory : Nat]

Asleep == {"DOWN", "STANDBY", "HYBERNATED"}

SrvListTypeOK ==
    /\ state \in [Server -> {"IDLE", "RUNNING"} \cup Asleep]
    /\ memory \in [Server -> Int]
    /\ coresInUse \in [Server -> Int]
    /\ reserved \in [Server -> BOOLEAN]

SrvListInit ==
    /\ state = [s \in Server |-> "IDLE"]
    /\ memory = [s \in Server |-> Memory]
    /\ coresInUse = [s \in Server |-> 0]
    /\ reserved = [s \in Server |-> FALSE]

----------------------------------------------------------------------------

FreeCores(s) == NumCores - coresInUse[s]

EligibleAnyFreeCore(r) == {s \in Server : memory[s] >= r.needMemory /\ ~reserved[s] /\ FreeCores(s) > 0}
EligibleAnyMemory(r) == {s \in Server : ~reserved[s] /\ FreeCores(s) >= r.cores}

\* The servers that can take a node of request r.
Eligible(r) == {s \in Server : memory[s] >= r.needMemory /\ ~reserved[s] /\ FreeCores(s) >= r.cores}

\* searchServers prefers the server with the fewest free cores; among equals one
\* that is awake, the first of them, and among sleeping ones the last.
Preferred(s, t) ==
    \/ FreeCores(s) < FreeCores(t)
    \/ /\ FreeCores(s) = FreeCores(t)
       /\ \/ state[s] \notin Asleep /\ (state[t] \in Asleep \/ s < t)
          \/ state[s] \in Asleep /\ state[t] \in Asleep /\ s > t

\* T is the selection of searchServers for r: the r.nodes most preferred servers.
SearchServers(r, T) ==
    /\ Cardinality(T) = r.nodes
    /\ \A s \in T, t \in Eligible(r) \ T : Preferred(s, t)

ServersFound(r) == \E T \in SUBSET Eligible(r) : SearchServers(r, T)

\* Whether some server sleeps, idles or has a free core.
IsResourcesAvailable == \E s \in Server : state[s] # "RUNNING" \/ FreeCores(s) > 0

\* calculateFreeResources: what is left of the servers that have more free cores
\* than a node of r needs.
FreeAfter(r) ==
    LET roomy == {s \in Server : FreeCores(s) > r.cores}
    IN  [nodes  |-> Cardinality(roomy) - r.nodes,
         cores  |-> SumFunctionOnSet([s \in Server |-> FreeCores(s)], roomy) - r.cores * r.nodes,
         memory |-> SumFunctionOnSet(memory, roomy) - r.needMemory * r.nodes]
============================================================================
