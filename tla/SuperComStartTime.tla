------------------------- MODULE SuperComStartTime --------------------------
(***************************************************************************)
(* getEstimatedStartTime: when the RMS expects to have servers for the     *)
(* first job of its queue.  Backfill lets a job pass that is over by then, *)
(* and checkServers puts servers to sleep that are not needed until then.  *)
(* Points in time are counted from the start of the simulation, but a      *)
(* server that is free counts as 0, and one that sleeps as WakeUp.         *)
(***************************************************************************)
EXTENDS SuperComSrvList, SequencesExt

CONSTANTS
    WakeUp,         \* the time a server takes to wake up, 90 s
    Margin          \* what checkServers asks for beyond the present, 50 s

ASSUME WakeUpAssumption == WakeUp \in Nat /\ Margin \in Nat

VARIABLES
    serverJobs,     \* what runs, or will run, on each server, as [cores, start, run]
    first,          \* the first job of the queue
    now             \* simTime()

startVars == <<serverJobs, first, now>>

CompletionTime(job) == job.start + job.run

\* The first n elements of a sequence, or all.
Leading(n, seq) == SubSeq(seq, 1, Min({n, Len(seq)}))

\* Servers that are free or asleep are taken before the others, idle ones first; what counts is
\* their state, also when they are reserved.
TakenByState(st, n) == Min({n, Cardinality({s \in Server : state[s] = st})})

TakenIdle   == TakenByState("IDLE", first.nodes)
TakenAsleep == TakenByState("HYBERNATED", first.nodes - TakenIdle)

\* Wrong variant: the jobs of a server in the order they were placed.
JobsAsPlaced(s) == serverJobs[s]

\* The jobs of a server are inserted, one by one, before the first that completes later; while
\* it wakes up, its wake-up is added to the time compared.
JobsByCompletion(s) ==
    LET Key(job) == IF state[s] # "RUNNING" THEN 0
                    ELSE CompletionTime(job) + IF reserved[s] THEN WakeUp ELSE 0
        Insert(list, job) ==
            LET later == {k \in DOMAIN list : Key(job) < CompletionTime(list[k])}
            IN  IF later = {} THEN Append(list, job) ELSE InsertAt(list, Min(later), job)
    IN  FoldLeft(Insert, <<>>, serverJobs[s])

\* When a server that runs, or is reserved, has the cores that the first job needs of it: a
\* sequence of at most one time.
ServerCompTime(s) ==
    LET list == JobsByCompletion(s)
        Free(k) == FreeCores(s) + FoldLeft(LAMBDA sum, job : sum + job.cores, 0, Leading(k, list))
        enough == {k \in DOMAIN list : Free(k) >= first.cores}
    IN  IF ~(state[s] = "RUNNING" \/ reserved[s]) THEN <<>>
        ELSE IF FreeCores(s) < first.cores
        THEN IF enough = {} THEN <<>> ELSE <<CompletionTime(list[Min(enough)])>>
        ELSE IF state[s] # "RUNNING" THEN <<>>
        ELSE IF reserved[s] THEN <<WakeUp>> ELSE <<0>>

\* The servers that get free first make up what is missing; the last of all those taken tells
\* the time.
EstimatedStartTime ==
    LET times == SortSeq(FoldLeft(LAMBDA list, s : list \o ServerCompTime(s), <<>>,
                                  [s \in 1 .. NumServers |-> s - 1]), <)
        taken == Leading(first.nodes - TakenIdle - TakenAsleep, times)
    IN  Max({0} \cup {WakeUp : n \in 1 .. TakenAsleep} \cup ToSet(taken))

\* A job of the queue, or a new one, may pass the first if it is over by then.
MayPass(run) == EstimatedStartTime > now + run

\* Idle servers are put to sleep if the first job of the queue starts late enough.
MaySleep == EstimatedStartTime - now > Margin

----------------------------------------------------------------------------

\* The first job's cores are free on s at t: its jobs are over but for those that leave enough,
\* and a server that sleeps needs its time to wake up.
ReadyAt(s, t) ==
    LET over == {k \in DOMAIN serverJobs[s] : CompletionTime(serverJobs[s][k]) <= t}
    IN  /\ FreeCores(s) + MapThenSumSet(LAMBDA k : serverJobs[s][k].cores, over) >= first.cores
        /\ state[s] = "HYBERNATED" =>
             IF serverJobs[s] = <<>> THEN t >= now + WakeUp ELSE t >= serverJobs[s][1].start

StartsBy(t) == Cardinality({s \in Server : ReadyAt(s, t)}) >= first.nodes

\* A job that passes the first one is over before the first one could have had its servers, and
\* no server is put to sleep that it could have used within the margin.  (In the first WakeUp
\* seconds a time counted as WakeUp may be too late.)
FirstNotDelayed ==
    now >= WakeUp =>
      /\ \A t \in now .. now + 2 * WakeUp : StartsBy(t) => ~MayPass(t - now)
      /\ MaySleep => ~StartsBy(now + Margin)
=============================================================================
