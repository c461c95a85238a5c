----------------------- MODULE SuperComBackfillSearch -----------------------
(***************************************************************************)
(* The loops of searchServers: for each node j of a job, a pass over the   *)
(* servers i keeps a candidate; the candidate of each pass is reserved, so *)
(* that the next pass takes another, and at the end all are released.      *)
(* One step is one turn of the inner loop.                                 *)
(*                                                                         *)
(* Best-fit backfill searches for job after job of the queue; the jobs     *)
(* with servers are candidates, of which the best fit is started.          *)
(***************************************************************************)
EXTENDS SuperComSrvList, SuperComBestFit, Sequences

CONSTANTS
    ServerKinds,    \* what the RMS may know of a server when the search starts
    SearchRequests, \* what the search may be for
    MaxCandidates   \* bound: jobs looked at after the first candidate

ASSUME SearchAssumption ==
    /\ \A kind \in ServerKinds : /\ kind.memory \in Int /\ kind.coresInUse \in Int
                                 /\ kind.reserved \in BOOLEAN
    /\ SearchRequests \subseteq Request
    /\ MaxCandidates \in Nat

VARIABLES
    r,              \* the request the search is for
    reserved0,      \* reserved when the search starts
    i, j,           \* server looked at, node searched for
    serverNumber,   \* candidates of the passes, -1 for none
    candidateCores,
    candidateState,
    serversFound,
    done

searchVars == <<state, memory, coresInUse, reserved, r, reserved0, i, j, serverNumber,
                candidateCores, candidateState, serversFound, done>>

SearchInit ==
    /\ \E kind \in [Server -> ServerKinds] :
         /\ state = [s \in Server |-> kind[s].state]
         /\ memory = [s \in Server |-> kind[s].memory]
         /\ coresInUse = [s \in Server |-> kind[s].coresInUse]
         /\ reserved = [s \in Server |-> kind[s].reserved]
    /\ NetInit
    /\ r \in SearchRequests
    /\ reserved0 = reserved
    /\ i = 0 /\ j = 0
    /\ serverNumber = [k \in 0 .. r.nodes - 1 |-> -1]
    /\ candidateCores = -1
    /\ candidateState = "IDLE"      \* not read before it is set
    /\ serversFound = TRUE
    /\ done = FALSE

\* One server is looked at.
LookAt ==
    LET availableCores == FreeCores(i)
    IN  /\ j < r.nodes /\ i < NumServers
        /\ i' = i + 1
        /\ IF /\ memory[i] >= r.needMemory /\ ~reserved[i] /\ availableCores >= r.cores
              /\ \/ availableCores < candidateCores \/ candidateCores = -1
                 \/ availableCores = candidateCores /\ candidateState \in Asleep
           THEN /\ serverNumber' = [serverNumber EXCEPT ![j] = i]
                /\ candidateCores' = availableCores
                /\ candidateState' = state[i]
           ELSE UNCHANGED <<serverNumber, candidateCores, candidateState>>
        /\ UNCHANGED <<state, memory, coresInUse, reserved, r, reserved0, j, serversFound, done>>

\* Wrong variant of EndPass: the candidate of the last pass still bounds the next one.
EndPassKeepsBound ==
    /\ j < r.nodes /\ i = NumServers
    /\ reserved' = IF serverNumber[j] # -1 THEN [reserved EXCEPT ![serverNumber[j]] = TRUE]
                                           ELSE reserved
    /\ j' = j + 1 /\ i' = 0
    /\ UNCHANGED <<state, memory, coresInUse, r, reserved0, serverNumber, candidateCores,
                   candidateState, serversFound, done>>

\* The end of a pass reserves its candidate.
EndPass ==
    /\ j < r.nodes /\ i = NumServers
    /\ reserved' = IF serverNumber[j] # -1 THEN [reserved EXCEPT ![serverNumber[j]] = TRUE]
                                           ELSE reserved
    /\ j' = j + 1 /\ i' = 0
    /\ candidateCores' = -1
    /\ UNCHANGED <<state, memory, coresInUse, r, reserved0, serverNumber, candidateState,
                   serversFound, done>>

\* The candidates are released; a pass without one means that the search has failed.
Release ==
    /\ j = r.nodes /\ ~done
    /\ LET chosen == {serverNumber[k] : k \in 0 .. r.nodes - 1}
       IN  /\ serversFound' = (-1 \notin chosen)
           /\ reserved' = [s \in Server |-> s \notin chosen /\ reserved[s]]
    /\ done' = TRUE
    /\ UNCHANGED <<state, memory, coresInUse, r, reserved0, i, j, serverNumber, candidateCores,
                   candidateState>>

SearchNext == (LookAt \/ EndPass \/ Release) /\ UNCHANGED netVars

----------------------------------------------------------------------------

\* The loops compute what the RMS module takes searchServers to compute: they succeed exactly
\* if there is a selection, and then choose different servers that form it (2215-2292).  And
\* they leave no trace in srvList: what was reserved to tell the candidates apart is released,
\* and nothing that was reserved before, also when the search fails half-way.
SearchAgrees ==
    done => /\ serversFound <=> ServersFound(r)
            /\ serversFound => LET T == {serverNumber[k] : k \in 0 .. r.nodes - 1}
                               IN  T \subseteq Eligible(r) /\ SearchServers(r, T)
            /\ reserved = reserved0

----------------------------------------------------------------------------
(* Best-fit backfill *)

VARIABLE candidates         \* requests that could be served, in queue order

backfillVars == <<searchVars, netVars, candidates>>

BackfillInit == SearchInit /\ candidates = <<>>

\* The candidates, when the search for the job at hand has ended.
Found == IF serversFound THEN Append(candidates, r) ELSE candidates

\* Resources are searched for the next job of the queue, which asks for q.
NextJob(q) ==
    /\ done /\ Len(candidates) < MaxCandidates
    /\ candidates' = Found
    /\ r' = q
    /\ i' = 0 /\ j' = 0
    /\ serverNumber' = [k \in 0 .. q.nodes - 1 |-> -1]
    /\ candidateCores' = -1
    /\ candidateState' = "IDLE"
    /\ serversFound' = TRUE
    /\ done' = FALSE
    /\ UNCHANGED <<state, memory, coresInUse, reserved, reserved0, netVars>>

BackfillNext == (SearchNext /\ UNCHANGED candidates) \/ \E q \in SearchRequests : NextJob(q)

----------------------------------------------------------------------------

Free == [k \in 1 .. Len(Found) |-> FreeAfter(Found[k])]

Chosen == OptimalJob(Len(Found), 1 .. Len(Found), Free)

\* a leaves less than b: fewer nodes, then fewer cores, then less memory.
LeavesLess(a, b) ==
    \/ a.nodes < b.nodes
    \/ a.nodes = b.nodes /\ a.cores < b.cores
    \/ a.nodes = b.nodes /\ a.cores = b.cores /\ a.memory < b.memory

BestFits(k) == \A l \in 1 .. Len(Found) : ~LeavesLess(Free[l], Free[k])

\* "Select the job that leaves the less free resources" (1842, 1925): as long as no job leaves
\* a number of nodes, cores or memory of -1, which the record of the optimum takes for "nothing
\* yet", the first of the jobs that leave least is selected.
SelectsBestFitAboveSentinel ==
    done /\ Found # <<>> /\ (\A k \in 1 .. Len(Found) : -1 \notin {Free[k].nodes, Free[k].cores, Free[k].memory})
      => BestFits(Chosen) /\ \A k \in 1 .. Chosen - 1 : ~BestFits(k)

\* Servers are searched for and a backfill job is chosen as the RMS module takes for granted.
BackfillAgrees == SearchAgrees /\ SelectsBestFitAboveSentinel
============================================================================
