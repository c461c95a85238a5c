------------------------ MODULE SuperComFederation -------------------------
(***************************************************************************)
(* A federation: clients, the USO and the data centres.  With SlowTimers   *)
(* a client starts after the connections of the USO are established, and   *)
(* a job runs longer than its client needs to close the connection of the  *)
(* request; the simulations use seconds for the one and milliseconds for   *)
(* the other.                                                              *)
(***************************************************************************)
EXTENDS SuperComUSO

vars == <<clientVars, rmsVars, usoVars>>

FederationInit ==
    ClientsInit /\ RmsInit /\ UsoInit

ClientEvent(c) ==
    /\ \/ (SlowTimers => rmsConnected = RMS) /\ Connect(c)
       \/ ClientStep(c)
    /\ UNCHANGED <<rmsVars, usoVars>>

RmsEvent(d) ==
    /\ \/ AcceptJob(d)
       \/ \E j \in running[d] : (SlowTimers => request[j.client] = "none") /\ EndJob(d, j)
    /\ UNCHANGED <<clientVars, usoVars>>

Next ==
    /\ ~socketError /\ ~usoError
    /\ \/ \E c \in FedClient : ClientEvent(c)
       \/ \E d \in RMS : RmsEvent(d)
       \/ UsoStep

Spec == FederationInit /\ [][Next]_vars

\* Timers expire, messages arrive, and jobs end.
FairSpec == Spec /\ WF_vars(Next)

----------------------------------------------------------------------------

\* The data centres that have, or are about to get, the job of c.
At(d, c) ==
    Cardinality({i \in DOMAIN selfMsgs : /\ selfMsgs[i].client = c /\ selfMsgs[i].rms = d
                                         /\ selfMsgs[i].kind = "job"})
      + Cardinality({i \in DOMAIN requested[d] : requested[d][i].client = c})
      + Cardinality({i \in DOMAIN queue[d] : queue[d][i].client = c})
      + Cardinality({j \in running[d] : j.client = c})
      + Cardinality({i \in DOMAIN toUso[d] : toUso[d][i] = c})
      + Cardinality({i \in DOMAIN selfMsgs : /\ selfMsgs[i].client = c /\ selfMsgs[i].rms = d
                                             /\ selfMsgs[i].kind = "finish"})

Jobs(d) == ToSet(requested[d]) \cup ToSet(queue[d]) \cup running[d]

\* A job the USO has in its table, and no other, is in one place: at the data centre of its
\* entry, on the way to it or from it, or being reported; and its data centre runs the job
\* that was asked for, not what is left in the table of an earlier one.
JobsFollowed ==
    /\ \A c \in FedClient :
         LET mine == {i \in DOMAIN cliList : cliList[i].client = c}
         IN  /\ Cardinality(mine) <= 1
             /\ \A d \in RMS : At(d, c) =
                  IF report[c] # "uso" /\ \E i \in mine : cliList[i].rms = d THEN 1 ELSE 0
    /\ \A d \in RMS : \A j \in Jobs(d) : j.nodes = asked[j.client].nodes

\* A job that is not to be placed by energy is not sent to wait while some data centre has no
\* queue and servers for it: neither a shorter mean queueing time nor a choice for an earlier
\* job may hide that centre.
NotSentToWait ==
    [][\A c \in FedClient :
         request[c] = "job" /\ request'[c] = "response" /\ fit4green /\ ~asked[c].energyAware
            /\ Immediate(asked[c].nodes) # {}
           => Last(selfMsgs').rms \in Immediate(asked[c].nodes)]_vars

\* Each client gets all its jobs done: no finish message meets a client that does not wait for
\* it, and no assertion stops the simulation.
AllJobsFinish ==
    <>[](\A c \in FedClient : /\ sentRequests[c] = JobRequests /\ ~requestSent[c]
                           /\ request[c] = "none" /\ report[c] = "none")
============================================================================
