---------------------------- MODULE TrainingQueue ----------------------------
(***************************************************************************)
(* The training queue: the runs of app/services/training_service.py, taken *)
(* by workers that run process_next_job of app/workers/training_worker.py  *)
(* and register what they trained (app/services/model_service.py).         *)
(*                                                                         *)
(* A worker has one database transaction per poll.  What it wrote is in    *)
(* writes[w] until it commits and blocks those rows for the other workers. *)
(* It also has an object for its run, whose status it read once            *)
(* (known[w]) and reads again only after a commit.  The version directory  *)
(* in the artifact store is not part of any transaction.                   *)
(***************************************************************************)
EXTENDS Integers, FiniteSets

CONSTANTS
    Workers,
    MaxRuns,          \* bound: how many runs are ever created
    Priorities,       \* the priorities that requests use
    Routes,           \* where requests ask a run to execute
    RunnerOf,         \* how each worker was started
    MaxStaleRetries,  \* settings.max_stale_retries
    MaxCrashes,       \* bound: how many times a worker process is killed
    Faults,           \* which faults may happen, a subset of FaultKinds
    None

Runs == 1..MaxRuns

\* low, normal, high
Ranks == 0..2

\* No compute_resource_id, or one.
AllRoutes == {"local", "resource"}

\* python -m app.workers.training_worker starts the loop with a provider; a
\* caller of run_forever may pass the runner that commits on every progress.
RunnerKinds == {"provider", "streaming"}

\* The heartbeat thread of a live worker fails; serving cannot be stopped.
FaultKinds == {"heartbeat", "preflight"}

ASSUME WorkersAssumption == None \notin Workers
ASSUME RunsAssumption == MaxRuns \in Nat /\ None \notin Runs
ASSUME RequestAssumption == Priorities \subseteq Ranks /\ Routes \subseteq AllRoutes
ASSUME RunnerAssumption == RunnerOf \in [Workers -> RunnerKinds]
ASSUME BoundsAssumption == MaxStaleRetries \in Nat /\ MaxCrashes \in Nat
ASSUME FaultAssumption == Faults \subseteq FaultKinds

Status == {"PENDING", "RUNNING", "STALE", "COMPLETED", "FAILED"}

\* Mutant: a stale run is not taken again.
ClaimableOnce == {"PENDING"}

Claimable == {"PENDING", "STALE"}

ASSUME StatusAssumption == None \notin Status

\* Version numbers of the model that the runs train.
Numbers == 1..MaxRuns + 1

ASSUME NumbersAssumption == None \notin Numbers

VARIABLES
    created,   \* runs 1..created exist, in the order of created_at
    request,   \* request[r]: priority and route of r
    status,    \* status[r]: the committed status of r
    retries,   \* retries[r]: the committed retry_count of r
    lapsed,    \* lapsed[r]: the committed heartbeat_at of r is too old
    versions,  \* the committed model versions: run and number
    store,     \* the numbers whose directory exists in the artifact store
    gpuLock,   \* the worker that holds the flock of gpu_lock_file, or None
    pc,        \* where each worker is
    job,       \* the run that each worker selected, or None
    known,     \* the status of that run in the session of the worker, or None
    tried,     \* its retry_count there
    recount,   \* that count was changed and is not written yet
    claimed,   \* the worker claimed the run and has not committed since
    number,    \* the version number that the worker registers, or None
    writes,    \* writes[w][r]: the status w has flushed for r, not committed
    crashes

rows == <<created, request, status, retries, lapsed, versions>>
session == <<job, known, tried, recount, claimed, number, writes>>
vars == <<rows, store, gpuLock, pc, session, crashes>>

Steps == {"idle", "selecting", "locking", "preflight", "claiming", "running",
          "completing", "failing", "registering", "committing", "down"}

Untouched == [r \in Runs |-> None]

TypeOK ==
    /\ created \in 0..MaxRuns
    /\ request \in [Runs -> [priority : Ranks, route : AllRoutes]]
    /\ status \in [Runs -> Status]
    /\ retries \in [Runs -> 0..MaxStaleRetries]
    /\ lapsed \in [Runs -> BOOLEAN]
    /\ versions \subseteq [run : Runs, number : Numbers]
    /\ store \subseteq Numbers
    /\ gpuLock \in Workers \cup {None}
    /\ pc \in [Workers -> Steps]
    /\ job \in [Workers -> Runs \cup {None}]
    /\ known \in [Workers -> Status \cup {None}]
    /\ tried \in [Workers -> 0..MaxStaleRetries]
    /\ recount \in [Workers -> BOOLEAN]
    /\ claimed \in [Workers -> BOOLEAN]
    /\ number \in [Workers -> Numbers \cup {None}]
    /\ writes \in [Workers -> [Runs -> Status \cup {None}]]
    /\ crashes \in 0..MaxCrashes

-----------------------------------------------------------------------------
Exists(r) == r <= created

Seen(w, r) == IF writes[w][r] = None THEN status[r] ELSE writes[w][r]

RowFree(w, r) == \A q \in Workers \ {w} : writes[q][r] = None

Flush(w, r, s) == writes' = [writes EXCEPT ![w][r] = s]

Goto(w, step) == pc' = [pc EXCEPT ![w] = step]

ReleaseGpu(w) == gpuLock' = IF gpuLock = w THEN None ELSE gpuLock

\* The session of w is closed.
Forget(w) ==
    /\ job' = [job EXCEPT ![w] = None]
    /\ known' = [known EXCEPT ![w] = None]
    /\ tried' = [tried EXCEPT ![w] = 0]
    /\ recount' = [recount EXCEPT ![w] = FALSE]
    /\ claimed' = [claimed EXCEPT ![w] = FALSE]
    /\ number' = [number EXCEPT ![w] = None]
    /\ writes' = [writes EXCEPT ![w] = Untouched]

\* The retry counts once w commits.
Recounted(w) == IF recount[w] THEN [retries EXCEPT ![job[w]] = tried[w]] ELSE retries

\* The worker executes its run: the heartbeat thread is on.
Executing(w) == pc[w] \in {"running", "completing", "failing"}

\* Only the runner of issue #38 commits while a run without a resource trains.
Streams(w) == RunnerOf[w] = "streaming" /\ request[job[w]].route = "local"

\* get_provider_for_resource is defined below the main loop of the module.
Unroutable(w) == RunnerOf[w] = "provider" /\ request[job[w]].route = "resource"

Init ==
    /\ created = 0
    /\ request = [r \in Runs |-> [priority |-> 1, route |-> "local"]]
    /\ status = [r \in Runs |-> "PENDING"]
    /\ retries = [r \in Runs |-> 0]
    /\ lapsed = [r \in Runs |-> FALSE]
    /\ versions = {} /\ store = {}
    /\ gpuLock = None
    /\ pc = [w \in Workers |-> "idle"]
    /\ job = [w \in Workers |-> None]
    /\ known = [w \in Workers |-> None]
    /\ tried = [w \in Workers |-> 0]
    /\ recount = [w \in Workers |-> FALSE]
    /\ claimed = [w \in Workers |-> FALSE]
    /\ number = [w \in Workers |-> None]
    /\ writes = [w \in Workers |-> Untouched]
    /\ crashes = 0

-----------------------------------------------------------------------------
(* The requests of the API.                                                *)
Create(priority, route) ==
    /\ created < MaxRuns
    /\ created' = created + 1
    /\ request' = [request EXCEPT ![created + 1] =
                     [priority |-> priority, route |-> route]]
    /\ UNCHANGED <<status, retries, lapsed, versions, store, gpuLock, pc, session, crashes>>

CreateTrainingRun == \E p \in Priorities, route \in Routes : Create(p, route)

(* A retry is a new run with the resource of the failed one; its priority  *)
(* is not taken over.                                                      *)
RetryTrainingRun(r) ==
    /\ Exists(r) /\ status[r] = "FAILED"
    /\ Create(1, request[r].route)

-----------------------------------------------------------------------------
Lapsed(r) == Exists(r) /\ status[r] = "RUNNING" /\ lapsed[r]

(* The detector flips every lapsed run.  Its UPDATE waits for the rows     *)
(* that another transaction has written, and reads their heartbeat again.  *)
MarkStaleRuns(w) ==
    /\ pc[w] = "idle"
    /\ \A r \in Runs : Lapsed(r) => RowFree(w, r)
    /\ writes' = [writes EXCEPT ![w] =
                    [r \in Runs |-> IF Lapsed(r) THEN "STALE" ELSE None]]
    /\ Goto(w, "selecting")
    /\ UNCHANGED <<rows, store, gpuLock, job, known, tried, recount, claimed, number, crashes>>

Candidates(w) == {r \in Runs : Exists(r) /\ Seen(w, r) \in Claimable}

\* priority DESC, created_at ASC
Before(r, q) ==
    \/ request[r].priority > request[q].priority
    \/ request[r].priority = request[q].priority /\ r < q

NextClaimableRun(w) ==
    /\ pc[w] = "selecting"
    /\ \E r \in Candidates(w) :
         /\ \A q \in Candidates(w) \ {r} : Before(r, q)
         /\ job' = [job EXCEPT ![w] = r]
         /\ known' = [known EXCEPT ![w] = Seen(w, r)]
         /\ tried' = [tried EXCEPT ![w] = retries[r]]
    /\ Goto(w, "locking")
    /\ UNCHANGED <<rows, store, gpuLock, recount, claimed, number, writes, crashes>>

\* What the detector wrote is still to be committed.
GiveUp(w) == Goto(w, "committing") /\ UNCHANGED <<rows, store, session, crashes>>

QueueEmpty(w) ==
    /\ pc[w] = "selecting"
    /\ Candidates(w) = {}
    /\ GiveUp(w)
    /\ UNCHANGED gpuLock

LockTimeout(w) ==
    /\ pc[w] = "locking"
    /\ gpuLock # None
    /\ GiveUp(w)
    /\ UNCHANGED gpuLock

AcquireGpu(w) ==
    /\ pc[w] = "locking"
    /\ gpuLock = None
    /\ gpuLock' = w
    /\ Goto(w, "preflight")
    /\ UNCHANGED <<rows, store, session, crashes>>

(* coordinator.cycle(): serving is stopped and the VRAM is free ...        *)
Preflight(w) ==
    /\ pc[w] = "preflight"
    /\ Goto(w, "claiming")
    /\ UNCHANGED <<rows, store, gpuLock, session, crashes>>

(* ... or not: the poll is skipped.                                        *)
PreflightFails(w) ==
    /\ "preflight" \in Faults
    /\ pc[w] = "preflight"
    /\ GiveUp(w)
    /\ ReleaseGpu(w)

-----------------------------------------------------------------------------
\* Mutant: one stale retry too many.
ExhaustedTooLate(w) == known[w] = "STALE" /\ tried[w] > MaxStaleRetries

(* claim_training_run.  A run that was stale too often is failed instead.  *)
Exhausted(w) == known[w] = "STALE" /\ tried[w] + 1 > MaxStaleRetries

(* This write has no condition on the status in the database.              *)
ForceFailed(w) ==
    /\ pc[w] = "claiming"
    /\ Exhausted(w)
    /\ RowFree(w, job[w])
    /\ Flush(w, job[w], "FAILED")
    /\ known' = [known EXCEPT ![w] = "FAILED"]
    /\ ReleaseGpu(w)
    /\ Goto(w, "committing")
    /\ UNCHANGED <<rows, store, job, tried, recount, claimed, number, crashes>>

\* The retry count of the object; it is written with the next flush.
CountRetry(w) ==
    /\ tried' = [tried EXCEPT ![w] = IF known[w] = "STALE" THEN @ + 1 ELSE @]
    /\ recount' = [recount EXCEPT ![w] = known[w] = "STALE"]

\* Mutant: the status is not compared.
ClaimBlindly(w) ==
    /\ pc[w] = "claiming"
    /\ ~Exhausted(w)
    /\ RowFree(w, job[w])
    /\ Flush(w, job[w], "RUNNING")
    /\ CountRetry(w)
    /\ known' = [known EXCEPT ![w] = "RUNNING"]
    /\ claimed' = [claimed EXCEPT ![w] = TRUE]
    /\ Goto(w, "running")
    /\ UNCHANGED <<rows, store, gpuLock, job, number, crashes>>

(* The compare-and-set: it waits for the row, then tests the status.       *)
Claim(w) ==
    /\ pc[w] = "claiming"
    /\ ~Exhausted(w)
    /\ RowFree(w, job[w])
    /\ Seen(w, job[w]) \in Claimable
    /\ Flush(w, job[w], "RUNNING")
    /\ CountRetry(w)
    /\ known' = [known EXCEPT ![w] = "RUNNING"]
    /\ claimed' = [claimed EXCEPT ![w] = TRUE]
    /\ Goto(w, "running")
    /\ UNCHANGED <<rows, store, gpuLock, job, number, crashes>>

ClaimLost(w) ==
    /\ pc[w] = "claiming"
    /\ ~Exhausted(w)
    /\ RowFree(w, job[w])
    /\ Seen(w, job[w]) \notin Claimable
    /\ CountRetry(w)
    /\ ReleaseGpu(w)
    /\ Goto(w, "committing")
    /\ UNCHANGED <<rows, store, job, known, claimed, number, writes, crashes>>

-----------------------------------------------------------------------------
\* Mutant: what was flushed is committed nevertheless.
DiesCommitted(w) ==
    /\ ReleaseGpu(w)
    /\ Goto(w, "down")
    /\ Forget(w)
    /\ status' = [r \in Runs |-> Seen(w, r)]
    /\ UNCHANGED <<created, request, retries, lapsed, versions, store>>

(* An exception leaves process_next_job: the process ends, its transaction *)
(* is rolled back and its locks are gone.                                  *)
Dies(w) ==
    /\ ReleaseGpu(w)
    /\ Goto(w, "down")
    /\ Forget(w)
    /\ UNCHANGED <<rows, store>>

(* The heartbeat thread writes the row in the transaction of the worker.   *)
TouchHeartbeat(w) ==
    /\ Executing(w)
    /\ writes[w][job[w]] = None
    /\ RowFree(w, job[w])
    /\ status[job[w]] = "RUNNING"
    /\ Flush(w, job[w], "RUNNING")
    /\ UNCHANGED <<rows, store, gpuLock, pc, job, known, tried, recount, claimed, number, crashes>>

(* The object was expired by a commit: the next access reads the row.      *)
Refresh(w) ==
    /\ Executing(w)
    /\ known[w] = None
    /\ known' = [known EXCEPT ![w] = Seen(w, job[w])]
    /\ UNCHANGED <<rows, store, gpuLock, pc, job, tried, recount, claimed, number, writes, crashes>>

(* The NameError of resolve_runner_for_run is raised outside of the try.   *)
RouteFails(w) ==
    /\ pc[w] = "running"
    /\ Unroutable(w)
    /\ Dies(w)
    /\ UNCHANGED crashes

(* update_training_progress, then the commit of the runner: it commits the *)
(* whole session, what the detector of this poll wrote for other runs too. *)
(* The first flush after the claim also writes the heartbeat_at of the     *)
(* claim, over whatever the heartbeat thread has written since.            *)
Progress(w) ==
    LET r == job[w] IN
    /\ pc[w] = "running"
    /\ Streams(w)
    /\ known[w] = "RUNNING"
    /\ RowFree(w, r)
    /\ status' = [q \in Runs |-> Seen(w, q)]
    /\ retries' = Recounted(w)
    /\ lapsed' \in {[lapsed EXCEPT ![r] = b] :
                      b \in IF claimed[w] THEN BOOLEAN
                            ELSE IF writes[w][r] # None THEN {FALSE} ELSE {lapsed[r]}}
    /\ writes' = [writes EXCEPT ![w] = Untouched]
    /\ known' = [known EXCEPT ![w] = None]
    /\ recount' = [recount EXCEPT ![w] = FALSE]
    /\ claimed' = [claimed EXCEPT ![w] = FALSE]
    /\ UNCHANGED <<created, request, versions, store, gpuLock, pc, job, tried, number, crashes>>

(* The run is not RUNNING any more: the progress is refused, and the       *)
(* runner raises.                                                          *)
ProgressRefused(w) ==
    /\ pc[w] = "running"
    /\ Streams(w)
    /\ known[w] \notin {None, "RUNNING"}
    /\ Goto(w, "failing")
    /\ UNCHANGED <<rows, store, gpuLock, session, crashes>>

(* The training subprocess exits, or is killed by the watchdog.            *)
TrainingEnds(w) ==
    /\ pc[w] = "running"
    /\ ~Unroutable(w)
    /\ \E outcome \in {"completing", "failing"} : Goto(w, outcome)
    /\ UNCHANGED <<rows, store, gpuLock, session, crashes>>

(* complete_training_run: the status of the object is tested, not the row. *)
Complete(w) ==
    /\ pc[w] = "completing"
    /\ known[w] = "RUNNING"
    /\ RowFree(w, job[w])
    /\ Flush(w, job[w], "COMPLETED")
    /\ Goto(w, "registering")
    /\ UNCHANGED <<rows, store, gpuLock, job, known, tried, recount, claimed, number, crashes>>

Fail(w) ==
    /\ pc[w] = "failing"
    /\ known[w] = "RUNNING"
    /\ RowFree(w, job[w])
    /\ Flush(w, job[w], "FAILED")
    /\ ReleaseGpu(w)
    /\ Goto(w, "committing")
    /\ UNCHANGED <<rows, store, job, known, tried, recount, claimed, number, crashes>>

(* _transition raises: the object is not RUNNING.                          *)
TransitionRefused(w) ==
    /\ pc[w] \in {"completing", "failing"}
    /\ known[w] \notin {None, "RUNNING"}
    /\ Dies(w)
    /\ UNCHANGED crashes

(* _allocate_version: the largest number and one, retried when a           *)
(* transaction in flight takes it.                                         *)
NextNumber(n) ==
    /\ \A v \in versions : v.number < n
    /\ n = 1 \/ \E v \in versions : v.number = n - 1

Allocatable(w, n) == NextNumber(n) /\ \A q \in Workers \ {w} : number[q] # n

(* finalize_version moves the output into the directory of the version.    *)
Register(w) ==
    /\ pc[w] = "registering"
    /\ \E n \in Numbers \ store :
         /\ Allocatable(w, n)
         /\ store' = store \cup {n}
         /\ number' = [number EXCEPT ![w] = n]
    /\ ReleaseGpu(w)
    /\ Goto(w, "committing")
    /\ UNCHANGED <<rows, job, known, tried, recount, claimed, writes, crashes>>

(* The directory of that number is there already: ArtifactExistsError.     *)
RegisterRefused(w) ==
    /\ pc[w] = "registering"
    /\ \E n \in store : Allocatable(w, n)
    /\ Dies(w)
    /\ UNCHANGED crashes

-----------------------------------------------------------------------------
\* The version that w has flushed.
Registered(w) ==
    IF number[w] = None THEN {} ELSE {[run |-> job[w], number |-> number[w]]}

(* run_forever commits after process_next_job.  A changed retry count is   *)
(* flushed with it, also when the claim was lost.                          *)
Commit(w) ==
    /\ pc[w] = "committing"
    /\ recount[w] => RowFree(w, job[w])
    /\ status' = [r \in Runs |-> Seen(w, r)]
    /\ retries' = Recounted(w)
    /\ versions' = versions \cup Registered(w)
    /\ Goto(w, "idle")
    /\ Forget(w)
    /\ UNCHANGED <<created, request, lapsed, store, gpuLock, crashes>>

(* The process is killed.                                                  *)
Crash(w) ==
    /\ crashes < MaxCrashes
    /\ pc[w] \notin {"idle", "down"}
    /\ crashes' = crashes + 1
    /\ Dies(w)

(* An operator or a supervisor starts the worker again.                    *)
Restart(w) ==
    /\ pc[w] = "down"
    /\ Goto(w, "idle")
    /\ UNCHANGED <<rows, store, gpuLock, session, crashes>>

\* A worker that lives has a heartbeat in flight for its run most of the time,
\* and commits a recent one.
Beating(r) ==
    \E w \in Workers : Executing(w) /\ job[w] = r /\ writes[w][r] = None

(* The stale threshold passes since the last committed heartbeat.          *)
HeartbeatLapses(r) ==
    /\ Exists(r) /\ status[r] = "RUNNING" /\ ~lapsed[r]
    /\ Beating(r) => "heartbeat" \in Faults
    /\ lapsed' = [lapsed EXCEPT ![r] = TRUE]
    /\ UNCHANGED <<created, request, status, retries, versions, store, gpuLock, pc,
                   session, crashes>>

-----------------------------------------------------------------------------
Work(w) ==
    \/ MarkStaleRuns(w)
    \/ NextClaimableRun(w)
    \/ QueueEmpty(w)
    \/ LockTimeout(w)
    \/ AcquireGpu(w)
    \/ Preflight(w)
    \/ ForceFailed(w)
    \/ Claim(w)
    \/ ClaimLost(w)
    \/ Refresh(w)
    \/ RouteFails(w)
    \/ ProgressRefused(w)
    \/ TrainingEnds(w)
    \/ Complete(w)
    \/ Fail(w)
    \/ TransitionRefused(w)
    \/ Register(w)
    \/ RegisterRefused(w)
    \/ Commit(w)
    \/ Restart(w)

Next ==
    \/ CreateTrainingRun
    \/ \E r \in Runs : RetryTrainingRun(r) \/ HeartbeatLapses(r)
    \/ \E w \in Workers :
         Work(w) \/ Progress(w) \/ TouchHeartbeat(w) \/ PreflightFails(w) \/ Crash(w)

Spec == Init /\ [][Next]_vars

(* The workers poll and work, the watchdog ends every training, time       *)
(* passes, and a worker that ended is started again.                       *)
Fairness ==
    /\ \A w \in Workers : WF_vars(Work(w)) /\ WF_vars(TrainingEnds(w))
    /\ \A r \in Runs : WF_vars(HeartbeatLapses(r))

FairSpec == Spec /\ Fairness

-----------------------------------------------------------------------------
(* A run is registered once: a completed run has its model version, and no *)
(* run has two, although workers reclaim runs whose owner is slow, dead or *)
(* about to commit (training_service.claim_training_run, "Two worker       *)
(* processes that have both selected the same PENDING row can then not     *)
(* both win").                                                             *)
OneVersionPerRun ==
    /\ \A u, v \in versions : u.run = v.run => u = v
    /\ \A r \in Runs : status[r] = "COMPLETED" => \E v \in versions : v.run = r

(* The queue implements TrainingLedger: a run completes in the same step   *)
(* in which its version is registered under the next number, it fails or   *)
(* completes once, and nothing happens to it afterwards.                   *)
Outcome == [r \in Runs |-> IF status[r] \in {"COMPLETED", "FAILED"} THEN status[r] ELSE "open"]

Ledger == INSTANCE TrainingLedger WITH outcome <- Outcome

ImplementsTrainingLedger == Ledger!Spec

(* A run that is queued ends, whatever the workers wait for: a worker that *)
(* waits for the GPU lock holds rows that the owner of the lock waits for. *)
EveryRunEnds ==
    \A r \in Runs : Exists(r) ~> status[r] \in {"COMPLETED", "FAILED"}
=============================================================================
