----------------------- MODULE MCSuperComFederation ------------------------
(***************************************************************************)
(* Small instances for TLC, one aspect at a time: a federation of data     *)
(* centres, the search for servers inside one of them, for a queue of jobs *)
(* over small lists of servers, and the hardware of one server.            *)
(***************************************************************************)
EXTENDS SuperComFederation, SuperComBackfillSearch, SuperComStartTime, SuperComServerHardware

CONSTANTS c1, c2

Kind(st, mem, used, res) == [state |-> st, memory |-> mem, coresInUse |-> used, reserved |-> res]

\* Servers as the RMS may know them: idle, running with cores or memory to spare or not, asleep,
\* and asleep but on the way to sleep.
Kinds == {Kind("IDLE", 3, 0, FALSE), Kind("RUNNING", 2, 1, FALSE), Kind("RUNNING", 1, 2, FALSE),
          Kind("HYBERNATED", 3, 0, FALSE), Kind("HYBERNATED", 3, 0, TRUE)}

\* For the estimates also: fully used, and on the way to wake up for a job.
MoreKinds == {Kind("RUNNING", 0, 3, FALSE), Kind("HYBERNATED", 3, 1, TRUE),
              Kind("HYBERNATED", 3, 3, TRUE)}

AllKinds == Kinds \cup MoreKinds

QRequests == [nodes : 1 .. 3, cores : 1 .. 2, needMemory : 1 .. 2]
\* Jobs of two or of four cores, of which a server of four runs two or one; 20 is the default load,
\* which loads a core as much as its wake-up does.
MCJobKinds == [cores : {2, 4}, memory : 1 .. 2, load : {20, 48}, loadedTime : {40, 100}]

FirstJobs == [nodes : 1 .. 3, cores : 1 .. 3, needMemory : {1}]

KnownOf(s) == Kind(state[s], memory[s], coresInUse[s], reserved[s])

\* What may run on s: one job or two that hold its cores, or one it is woken up for.
JobsOn(s) ==
    LET used == coresInUse[s]
        Ending(c, t) == [cores |-> c, start |-> 0, run |-> t]
        Ends == {now, now + 2}
    IN  IF used = 0 THEN {<<>>}
        ELSE IF state[s] = "HYBERNATED" THEN {<<[cores |-> used, start |-> now + 1, run |-> 1]>>}
        ELSE {<<Ending(used, t)>> : t \in {now + 1, now + WakeUp}}
             \cup {<<Ending(c, t), Ending(used - c, u)>> : c \in 1 .. used - 1, t \in Ends, u \in Ends}

VARIABLE aspect     \* what this behaviour is about

mcVars == <<vars, backfillVars, startVars, hardwareVars, aspect>>

ARequest == CHOOSE q \in QRequests : TRUE

NoEstimate == first = ARequest /\ serverJobs = [s \in Server |-> <<>>]

EstimateInit ==
    /\ \A s \in Server : coresInUse[s] # 2
    /\ \E jobs0 \in JobsOn(0), jobs1 \in JobsOn(1), jobs2 \in JobsOn(2) :
         serverJobs = [s \in Server |-> <<jobs0, jobs1, jobs2>>[s + 1]]

MCInit ==
    /\ FederationInit /\ BackfillInit /\ HardwareInit /\ now = WakeUp
    /\ \/ /\ aspect \in {"federation", "hardware"}
          /\ aspect = "hardware" => ~fit4green
          /\ \A s \in Server : KnownOf(s) = Kind("IDLE", 3, 0, FALSE)
          /\ r = ARequest /\ NoEstimate
       \/ /\ aspect = "search" /\ ~fit4green
          /\ \A s \in Server : KnownOf(s) \in Kinds
          /\ NoEstimate
       \/ /\ aspect = "estimate" /\ ~fit4green /\ r = ARequest
          /\ EstimateInit /\ first \in FirstJobs

MCNext ==
    /\ UNCHANGED <<startVars, aspect>>
    /\ \/ aspect = "federation" /\ Next /\ UNCHANGED <<backfillVars, hardwareVars>>
       \/ aspect = "search" /\ BackfillNext /\ UNCHANGED <<vars, hardwareVars>>
       \/ aspect = "hardware" /\ HardwareNext /\ UNCHANGED <<vars, backfillVars>>

MCSpec == MCInit /\ [][MCNext]_mcVars /\ WF_vars(Next)

\* What is estimated holds: a job that is let pass does not delay the first of the queue; the
\* hardware of a server is in the state its jobs and orders put it in, the estimate for a job is
\* what the job brings about, and no time is charged with another power than the server had.
EstimatesAgree ==
    /\ aspect = "estimate" => FirstNotDelayed
    /\ aspect = "hardware" => HardwareMatchesJobs /\ EstimateFits /\ ChargedAsSpent
============================================================================
