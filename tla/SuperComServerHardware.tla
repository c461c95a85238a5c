----------------------- MODULE SuperComServerHardware -----------------------
(***************************************************************************)
(* What the energy figures of one server are computed from: the loads of   *)
(* its cores, its memory sticks, its disk and its operation mode, changed  *)
(* by jobs, by sleep and by wake-up, and charged by computeEnergy for the  *)
(* time since the last change.                                             *)
(*                                                                         *)
(* Orders come as the RMS gives them (what SuperComCluster checks): a job  *)
(* only to a server that is awake and has cores and memory for it, a sleep *)
(* order only when no job runs.  Loads are in half percent.                *)
(***************************************************************************)
EXTENDS Integers, SequencesExt

CONSTANTS
    CoresOfServer,  \* numCPUs times numCores
    NumRAMsticks,
    RAMstickSize,
    JobKinds,       \* what may be asked: [cores, memory, load, loadedTime]
    SleepModes,     \* 1 stand-by, 2 hibernate
    MaxPUE          \* steps that the PUE may take before it is at its floor

VARIABLES
    powerMode,      \* operationMode
    executing,        \* the jobs whose INTERNAL_COMPLETE is scheduled
    waking,         \* whether INTERNAL_WAKEUP_RESPONSE is scheduled
    load,           \* of each core
    loaded,         \* of each memory stick
    hdd,            \* HDDstate and loadedTime of the disk
    loadedTimes,    \* LoadedTimeVector
    PUE,            \* steps that dynamicPUEupdate has taken
    elapsed,        \* whether time has passed since `from`
    spent           \* the power the server has had since then

hardware     == <<load, loaded, hdd>>
hardwareVars == <<hardware, powerMode, executing, waking, loadedTimes, PUE, elapsed, spent>>

AtIdle   == 1
AtSleep  == 0
AtWakeup == 41
LoadOf(job) == IF 2 * job.load + 1 > 200 THEN 200 ELSE 2 * job.load + 1

Total(fn, list) == FoldLeft(LAMBDA sum, e : sum + fn[e], 0, list)
MemoryOf == [job \in JobKinds |-> job.memory]
CoresOf  == [job \in JobKinds |-> job.cores]
TotalMemory == NumRAMsticks * RAMstickSize

\* The first n cores with load `from` get load `to`.
Loading(cores, from, to, n) ==
    [k \in DOMAIN cores |->
       IF cores[k] = from /\ Cardinality({i \in 1 .. k : cores[i] = from}) <= n THEN to ELSE cores[k]]

\* Memory is filled stick by stick; the first counts as loaded in any case.
SticksFor(used) == [i \in 1 .. NumRAMsticks |-> i = 1 \/ used > (i - 1) * RAMstickSize]

Lowest(times) == CHOOSE t \in ToSet(times) : \A u \in ToSet(times) : t <= u

\* Twice the average of the least and the most time that the disk may be busy, but at most all
\* of the time.  Of no jobs at all it is computed from an element behind the end of the vector.
LoadedTimeOf(times) ==
    IF times = <<>> THEN {job.loadedTime : job \in JobKinds}
    ELSE LET least == Lowest(times)
             most  == FoldLeft(+, 0, times)
         IN  {IF least + most > 200 THEN 200 ELSE least + most}

\* Erasing moves the next element to the place just left, which is then passed over.
RemoveLoadedTime(times, t) ==
    FoldLeft(LAMBDA v, i : IF i <= Len(v) /\ v[i] = t THEN RemoveAt(v, i) ELSE v,
             times, [i \in DOMAIN times |-> i])

\* What computeEnergy adds up, by operation mode.
Power ==
    CASE powerMode = 0 -> <<load, loaded, hdd, PUE>>
      [] powerMode = 1 -> <<loaded, PUE>>
      [] powerMode = 2 -> <<>>

NotSpent == <<"nothing">>

\* The time since `from` is charged with the power the server has now.
ComputeEnergy == elapsed' = FALSE /\ spent' = NotSpent

HardwareInit ==
    /\ powerMode = 0 /\ executing = <<>> /\ waking = FALSE
    /\ load = [k \in 1 .. CoresOfServer |-> AtIdle]
    /\ loaded = [i \in 1 .. NumRAMsticks |-> FALSE]
    /\ hdd = [state |-> 1, loadedTime |-> 200]
    /\ loadedTimes = <<>> /\ PUE = 0
    /\ elapsed = FALSE /\ spent = NotSpent

----------------------------------------------------------------------------

Awake == powerMode = 0 /\ ~waking

Fits(job) ==
    /\ Total(CoresOf, executing) + job.cores <= CoresOfServer
    /\ Total(MemoryOf, executing) + job.memory <= TotalMemory

\* MSGKIND_REQUEST
HardwareRequest(job) ==
    /\ Awake /\ Fits(job) /\ Len(executing) < 4
    /\ ComputeEnergy
    /\ executing' = Append(executing, job)
    /\ loadedTimes' = Append(loadedTimes, job.loadedTime)
    /\ load' = Loading(load, AtIdle, LoadOf(job), job.cores)
    /\ loaded' = SticksFor(Total(MemoryOf, executing'))
    /\ \E t \in LoadedTimeOf(loadedTimes') : hdd' = [state |-> 2, loadedTime |-> t]
    /\ UNCHANGED <<powerMode, waking, PUE>>

\* INTERNAL_COMPLETE of the k-th job: cores with the load of the job are given back, whoever
\* they were taken for.
HardwareResponse(k) ==
    LET job == executing[k]
        used == Total(MemoryOf, executing) - job.memory
    IN  /\ ComputeEnergy
        /\ executing' = RemoveAt(executing, k)
        /\ loadedTimes' = RemoveLoadedTime(loadedTimes, job.loadedTime)
        /\ load' = Loading(load, 2 * job.load + 1, AtIdle, job.cores)
        /\ loaded' = IF used = 0 THEN [i \in 1 .. NumRAMsticks |-> FALSE] ELSE SticksFor(used)
        /\ \E t \in LoadedTimeOf(loadedTimes') :
             hdd' = [state |-> IF Len(executing) = 1 THEN 1 ELSE 2, loadedTime |-> t]
        /\ UNCHANGED <<powerMode, waking, PUE>>

\* MSGKIND_SLEEP
HardwareSleep(mode) ==
    /\ Awake /\ executing = <<>>
    /\ ComputeEnergy
    /\ load' = [k \in DOMAIN load |-> AtSleep]
    /\ hdd' = [hdd EXCEPT !.state = 3]
    /\ powerMode' = mode
    /\ UNCHANGED <<executing, waking, loaded, loadedTimes, PUE>>

\* Wrong variant: the mode is changed before the energy of the sleep has been computed.
WakeupUncharged ==
    /\ powerMode # 0
    /\ load' = [k \in DOMAIN load |-> AtWakeup]
    /\ hdd' = [hdd EXCEPT !.state = 4]
    /\ powerMode' = 0 /\ waking' = TRUE
    /\ UNCHANGED <<executing, loaded, loadedTimes, PUE, elapsed, spent>>

\* MSGKIND_WAKEUP: awake for the figures, but with the load of the start-up.
HardwareWakeup ==
    /\ powerMode # 0
    /\ ComputeEnergy
    /\ load' = [k \in DOMAIN load |-> AtWakeup]
    /\ hdd' = [hdd EXCEPT !.state = 4]
    /\ powerMode' = 0 /\ waking' = TRUE
    /\ UNCHANGED <<executing, loaded, loadedTimes, PUE>>

\* INTERNAL_WAKEUP_RESPONSE
HardwareWakeupResponse ==
    /\ waking
    /\ ComputeEnergy
    /\ load' = [k \in DOMAIN load |-> AtIdle]
    /\ hdd' = [hdd EXCEPT !.state = 1]
    /\ waking' = FALSE
    /\ UNCHANGED <<powerMode, executing, loaded, loadedTimes, PUE>>

\* INTERNAL_DYNAMIC_PUE_MSG of the RMS, which charges all servers with the old PUE first.
DynamicPUEUpdate ==
    /\ ComputeEnergy
    /\ PUE' = IF PUE = MaxPUE THEN MaxPUE ELSE PUE + 1
    /\ UNCHANGED <<hardware, powerMode, executing, waking, loadedTimes>>

HardwareTimePasses ==
    /\ elapsed' = TRUE
    /\ spent' = IF elapsed THEN spent ELSE Power
    /\ UNCHANGED <<hardware, powerMode, executing, waking, loadedTimes, PUE>>

HardwareNext ==
    \/ \E job \in JobKinds : HardwareRequest(job)
    \/ \E k \in DOMAIN executing : HardwareResponse(k)
    \/ \E mode \in SleepModes : HardwareSleep(mode)
    \/ HardwareWakeup
    \/ HardwareWakeupResponse
    \/ DynamicPUEUpdate
    \/ HardwareTimePasses

----------------------------------------------------------------------------
(* computeEstimate: what a job would cost on this server, from copies.     *)

EstimatedLoad(job)  == Loading(load, AtIdle, LoadOf(job), job.cores)
EstimatedDisk(job)  == [state |-> 2, loadedTime |-> 2 * job.loadedTime]
EstimatedMemory(job) == SticksFor(job.memory)

----------------------------------------------------------------------------

CoresWith(l) == Cardinality({k \in DOMAIN load : load[k] = l})

\* Cores, memory sticks and disk are in the state that the jobs, the sleep or the wake-up of the
\* server put them in, after any sequence of jobs that start and end in any order and share cores
\* of equal load and memory sticks: nothing stays loaded by a job that has ended, nothing that a
\* job uses is given back (SuperComServerApp::handleMessage, response).
HardwareMatchesJobs ==
    /\ Awake =>
         \A l \in {LoadOf(job) : job \in JobKinds} :
           CoresWith(l) = FoldLeft(LAMBDA sum, job : sum + IF LoadOf(job) = l THEN job.cores ELSE 0,
                                   0, executing)
    /\ Awake => CoresWith(AtIdle) = CoresOfServer - Total(CoresOf, executing)
    /\ LET used == Total(MemoryOf, executing)
       IN  \A i \in 1 .. NumRAMsticks : loaded[i] <=> used > (i - 1) * RAMstickSize
    /\ hdd.state = IF powerMode # 0 THEN 3 ELSE IF waking THEN 4 ELSE IF executing = <<>> THEN 1 ELSE 2
    /\ hdd.state = 2 => hdd.loadedTime \in LoadedTimeOf([k \in DOMAIN executing |-> executing[k].loadedTime])

\* No interval is charged with a power the server did not have: whatever changes cores, memory,
\* disk, mode or PUE has the time before charged first (SuperComServerApp::computeEnergy).
ChargedAsSpent == elapsed => spent = Power

\* What the USO is told that a job costs is what it costs, on a server that is awake and empty
\* (SuperComServerApp::computeEstimate repeats what the request handler does).
EstimateFits ==
    Awake /\ executing = <<>> =>
      \A job \in JobKinds :
        /\ Cardinality({k \in DOMAIN load : EstimatedLoad(job)[k] = LoadOf(job)}) = job.cores
        /\ EstimatedDisk(job).loadedTime \in LoadedTimeOf(<<job.loadedTime>>)
        /\ Cardinality({i \in 1 .. NumRAMsticks : EstimatedMemory(job)[i]}) * RAMstickSize
             \in job.memory .. job.memory + RAMstickSize - 1
=============================================================================
