-------------------------- MODULE SuperComServers --------------------------
(***************************************************************************)
(* The servers of a data centre (SuperComServerApp), as far as the RMS can *)
(* tell them apart: their operation mode, the jobs they run, the memory    *)
(* those jobs use and the timers they have set.  Each action is one call   *)
(* of handleMessage.  The state of cores, memory sticks and disk, which    *)
(* only the energy figures depend on, is not part of this module.          *)
(***************************************************************************)
EXTENDS SuperComNet

VARIABLES
    operationMode,      \* 0 awake, 1 stand-by, 2 hibernated
    complete,           \* pending INTERNAL_COMPLETE timers, one per running job
    usedMemory,         \* memory of the running jobs
    sleepResponse,      \* whether INTERNAL_SLEEP_RESPONSE is scheduled
    wakeupResponse      \* clients of the scheduled INTERNAL_WAKEUP_RESPONSE

serverVars == <<operationMode, complete, usedMemory, sleepResponse, wakeupResponse>>

\* "A server cannot have more than 4 jobs running simultaneously"
MaxRunningJobs == 4

ServersTypeOK ==
    /\ operationMode \in [Server -> {0, 1, 2}]
    /\ complete \in [Server -> SUBSET [client : Client, memory : Nat]]
    /\ usedMemory \in [Server -> Int]
    /\ sleepResponse \in [Server -> BOOLEAN]
    /\ wakeupResponse \in [Server -> SUBSET Client]

ServersInit ==
    /\ operationMode = [s \in Server |-> 0]
    /\ complete = [s \in Server |-> {}]
    /\ usedMemory = [s \in Server |-> 0]
    /\ sleepResponse = [s \in Server |-> FALSE]
    /\ wakeupResponse = [s \in Server |-> {}]

----------------------------------------------------------------------------

\* MSGKIND_REQUEST: the job starts at once, whatever the operation mode.  The
\* INPUT message that follows it changes nothing and is left out.
ServerRequest(s, m) ==
    /\ m \in toServer[s] /\ m.type = "REQUEST"
    /\ toServer' = [toServer EXCEPT ![s] = @ \ {m}]
    /\ complete' = [complete EXCEPT ![s] = @ \cup {[client |-> m.client, memory |-> m.memory]}]
    /\ usedMemory' = [usedMemory EXCEPT ![s] = @ + m.memory]
    /\ simError' = IF Cardinality(complete[s]) + 1 > MaxRunningJobs THEN "runningJobs"
                   ELSE IF usedMemory[s] + m.memory > Memory THEN "usedMemory" ELSE "none"
    /\ UNCHANGED <<toRms, operationMode, sleepResponse, wakeupResponse>>

\* MSGKIND_SLEEP: asleep at once; the answer is a timer of zero delay.  Sleep
\* mode 2 is the only one that the RMS asks for.
ServerSleep(s, m) ==
    /\ m \in toServer[s] /\ m.type = "SLEEP"
    /\ toServer' = [toServer EXCEPT ![s] = @ \ {m}]
    /\ operationMode' = [operationMode EXCEPT ![s] = 2]
    /\ sleepResponse' = [sleepResponse EXCEPT ![s] = TRUE]
    /\ UNCHANGED <<toRms, simError, complete, usedMemory, wakeupResponse>>

\* MSGKIND_WAKEUP: counted as awake at once; the answer follows the start-up delay.
ServerWakeup(s, m) ==
    /\ m \in toServer[s] /\ m.type = "WAKEUP"
    /\ toServer' = [toServer EXCEPT ![s] = @ \ {m}]
    /\ operationMode' = [operationMode EXCEPT ![s] = 0]
    /\ wakeupResponse' = [wakeupResponse EXCEPT ![s] = @ \cup {m.client}]
    /\ UNCHANGED <<toRms, simError, complete, usedMemory, sleepResponse>>

\* INTERNAL_COMPLETE: the run time of job j is over.
ServerResponse(s, j) ==
    /\ j \in complete[s]
    /\ complete' = [complete EXCEPT ![s] = @ \ {j}]
    /\ usedMemory' = [usedMemory EXCEPT ![s] = @ - j.memory]
    /\ simError' = IF usedMemory[s] - j.memory < 0 THEN "usedMemory" ELSE "none"
    /\ toRms' = [toRms EXCEPT ![s] = @ \cup {FinishMsg(j.client)}]
    /\ UNCHANGED <<toServer, operationMode, sleepResponse, wakeupResponse>>

\* Wrong variant of ServerSleepResponse: the answer is of the wrong kind.
SleepAnsweredAsFinish(s) ==
    /\ sleepResponse[s]
    /\ sleepResponse' = [sleepResponse EXCEPT ![s] = FALSE]
    /\ toRms' = [toRms EXCEPT ![s] = @ \cup {FinishMsg(NoClient)}]
    /\ UNCHANGED <<toServer, simError, operationMode, complete, usedMemory, wakeupResponse>>

\* INTERNAL_SLEEP_RESPONSE
ServerSleepResponse(s) ==
    /\ sleepResponse[s]
    /\ sleepResponse' = [sleepResponse EXCEPT ![s] = FALSE]
    /\ toRms' = [toRms EXCEPT ![s] = @ \cup {SleepResponseMsg}]
    /\ UNCHANGED <<toServer, simError, operationMode, complete, usedMemory, wakeupResponse>>

\* INTERNAL_WAKEUP_RESPONSE
ServerWakeupResponse(s, c) ==
    /\ c \in wakeupResponse[s]
    /\ wakeupResponse' = [wakeupResponse EXCEPT ![s] = @ \ {c}]
    /\ toRms' = [toRms EXCEPT ![s] = @ \cup {WakeupResponseMsg(c)}]
    /\ UNCHANGED <<toServer, simError, operationMode, complete, usedMemory, sleepResponse>>

ServerStep(s) ==
    \/ \E m \in toServer[s] : ServerRequest(s, m) \/ ServerSleep(s, m) \/ ServerWakeup(s, m)
    \/ \E j \in complete[s] : ServerResponse(s, j)
    \/ ServerSleepResponse(s)
    \/ \E c \in wakeupResponse[s] : ServerWakeupResponse(s, c)
============================================================================
