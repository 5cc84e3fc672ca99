------------------------------ MODULE Registry ------------------------------
(***************************************************************************)
(* The model registry, the promotion ladder and the deploy path of one     *)
(* model_id: app/services/promotion_service.py and deployment_service.py,  *)
(* called by concurrent requests of app/api/deployment.py and promotion.py *)
(* in the vLLM serving mode.                                               *)
(*                                                                         *)
(* A request is one handler running in the server's thread pool, with one  *)
(* database transaction.  It reads the status of its version once, when it *)
(* starts, and decides on that reading; what it writes stays in writes[r]  *)
(* until it commits, and blocks the same rows for every other request.     *)
(* The GPU lock covers the adapter calls and the first flush of the        *)
(* pointer move; it is released before the commit.                         *)
(***************************************************************************)
EXTENDS Naturals, FiniteSets

CONSTANTS
    Versions,    \* the model versions of the model
    Requests,    \* the request slots: how many handlers may run at once
    Hosts,       \* the vLLM servers
    HostOf,      \* vllm_url_by_env: the server that an environment resolves to
    Faults,      \* which faults may happen, a subset of FaultKinds
    None

Environments == {"default", "staging", "production"}

FaultKinds == {"abort", "unload", "lost_response"}

ASSUME VersionsAssumption == None \notin Versions /\ IsFiniteSet(Versions)
ASSUME RequestsAssumption == None \notin Requests
ASSUME HostsAssumption == HostOf \in [Environments -> Hosts]
ASSUME FaultsAssumption == Faults \subseteq FaultKinds

Status == {"REGISTERED", "EVALUATED", "PROMOTED", "REJECTED",
           "STAGING", "VALIDATED", "DEPLOYED", "RETIRED"}

ASSUME StatusAssumption == None \notin Status

\* What a request was asked for: a decision on the version, a staging deploy,
\* or a move of the deployment pointer (a deploy, a promotion, a rollback).
Decisions == {"promote", "reject", "validate"}
Operations == Decisions \cup {"stage", "move"}

Jobs == [op : Operations, target : Versions, env : Environments]

ASSUME JobsAssumption == None \notin Jobs

VARIABLES
    status,       \* status[v]: the committed column model_versions.status
    deployments,  \* the deployments table: the version and environment of each row
    loaded,       \* loaded[h]: the adapters resident in the vLLM server h
    gpuLock,      \* the request that holds the flock of gpu_lock_file, or None
    pc,           \* where each request is
    job,          \* what each request does
    previous,     \* the version that the deploy of a request supersedes
    writes        \* writes[r][v]: the status r has flushed for v, not committed

vars == <<status, deployments, loaded, gpuLock, pc, job, previous, writes>>

Steps == {"idle", "writing", "waiting", "loading", "smoke", "retiring",
          "marking", "restoring", "committing"}

Untouched == [v \in Versions |-> None]

TypeOK ==
    /\ status \in [Versions -> Status]
    /\ deployments \subseteq [version : Versions, env : Environments]
    /\ loaded \in [Hosts -> SUBSET Versions]
    /\ gpuLock \in Requests \cup {None}
    /\ pc \in [Requests -> Steps]
    /\ job \in [Requests -> Jobs \cup {None}]
    /\ previous \in [Requests -> Versions \cup {None}]
    /\ writes \in [Requests -> [Versions -> Status \cup {None}]]

-----------------------------------------------------------------------------
Target(r) == job[r].target
Host(r) == HostOf[job[r].env]

\* An UPDATE waits for the transaction that wrote the row before.
RowFree(r, v) == \A q \in Requests \ {r} : writes[q][v] = None

\* The status that the transaction of r sees for v.
Seen(r, v) == IF writes[r][v] = None THEN status[v] ELSE writes[r][v]

Flush(r, v, s) == writes' = [writes EXCEPT ![r][v] = s]

\* Mutant of Merged: the rows that r did not write are committed as well.
MergedBlindly(r) == writes[r]

\* The flushed values once r commits.
Merged(r) == [v \in Versions |-> Seen(r, v)]

Goto(r, step) == pc' = [pc EXCEPT ![r] = step]

\* The request ends: its session is closed, which drops what it did not commit.
End(r) ==
    /\ Goto(r, "idle")
    /\ job' = [job EXCEPT ![r] = None]
    /\ previous' = [previous EXCEPT ![r] = None]
    /\ writes' = [writes EXCEPT ![r] = Untouched]

\* gpu_lock is a context manager: every exit from the locked body releases it.
ReleaseGpu(r) == gpuLock' = IF gpuLock = r THEN None ELSE gpuLock

\* unload is best effort: a server that fails keeps the adapter.
Unload(h, v, before) ==
    \/ loaded' = [before EXCEPT ![h] = @ \ {v}]
    \/ /\ "unload" \in Faults
       /\ loaded' = before

Init ==
    /\ status = [v \in Versions |-> "REGISTERED"]
    /\ deployments = {}
    /\ loaded = [h \in Hosts |-> {}]
    /\ gpuLock = None
    /\ pc = [r \in Requests |-> "idle"]
    /\ job = [r \in Requests |-> None]
    /\ previous = [r \in Requests |-> None]
    /\ writes = [r \in Requests |-> Untouched]

-----------------------------------------------------------------------------
(* The evaluation worker applies a complete evaluation.                    *)
Evaluate(v) ==
    /\ status[v] = "REGISTERED"
    /\ \A r \in Requests : writes[r][v] = None
    /\ status' = [status EXCEPT ![v] = "EVALUATED"]
    /\ UNCHANGED <<deployments, loaded, gpuLock, pc, job, previous, writes>>

(* The entry of every endpoint: it reads the version and checks its status *)
(* against the statuses the endpoint accepts.                              *)
Begin(r, op, v, env, accepted) ==
    /\ pc[r] = "idle"
    /\ status[v] \in accepted
    /\ job' = [job EXCEPT ![r] = [op |-> op, target |-> v, env |-> env]]
    /\ Goto(r, IF op \in Decisions THEN "writing" ELSE "waiting")
    /\ UNCHANGED <<status, deployments, loaded, gpuLock, previous, writes>>

CreateDecision(r, v) ==
    \E op \in {"promote", "reject"} : Begin(r, op, v, "default", {"EVALUATED"})

ValidateStaging(r, v) == Begin(r, "validate", v, "default", {"STAGING"})

DeployModelVersion(r, v) ==
    \/ Begin(r, "stage", v, "staging", {"EVALUATED", "STAGING"})
    \/ Begin(r, "move", v, "production", {"VALIDATED", "PROMOTED"})
    \/ Begin(r, "move", v, "default", {"PROMOTED"})

DeployToStaging(r, v) == Begin(r, "stage", v, "staging", {"EVALUATED"})

PromoteToProduction(r, v) ==
    Begin(r, "move", v, "production", {"VALIDATED", "PROMOTED"})

RollbackTargets == {"PROMOTED", "RETIRED", "STAGING", "VALIDATED"}

RollbackModel(r, v) == Begin(r, "move", v, "default", RollbackTargets)

\* The target is the version of the deployment row itself.
RollbackDeployment(r) ==
    \E row \in deployments :
        Begin(r, "move", row.version, row.env, RollbackTargets)

-----------------------------------------------------------------------------
DecidedStatus(op) ==
    CASE op = "promote" -> "PROMOTED"
      [] op = "reject" -> "REJECTED"
      [] OTHER -> "VALIDATED"

(* A decision flushes the new status and commits.  The UPDATE has no       *)
(* condition on the status that the request read when it started.          *)
Write(r) ==
    /\ pc[r] = "writing"
    /\ RowFree(r, Target(r))
    /\ status' = [status EXCEPT ![Target(r)] = DecidedStatus(job[r].op)]
    /\ End(r)
    /\ UNCHANGED <<deployments, loaded, gpuLock>>

\* Mutant of LockTimeout: the request keeps polling past the deadline.
LockTimeoutNever(r) ==
    /\ pc[r] = "waiting"
    /\ gpuLock # None
    /\ UNCHANGED vars

(* The lock is still held when gpu_lock_timeout has passed: 503.           *)
LockTimeout(r) ==
    /\ pc[r] = "waiting"
    /\ gpuLock # None
    /\ End(r)
    /\ UNCHANGED <<status, deployments, loaded, gpuLock>>

(* deploy takes the lock; _deploy_locked then queries the version that is  *)
(* DEPLOYED now, other than the target.                                    *)
DeployedOthers(v) == {u \in Versions \ {v} : status[u] = "DEPLOYED"}

\* Mutant of Acquire: a waiting request takes over the lock.
AcquireUnlocked(r) ==
    /\ pc[r] = "waiting"
    /\ gpuLock' = r
    /\ \/ \E u \in DeployedOthers(Target(r)) :
              previous' = [previous EXCEPT ![r] = u]
       \/ DeployedOthers(Target(r)) = {} /\ UNCHANGED previous
    /\ Goto(r, "loading")
    /\ UNCHANGED <<status, deployments, loaded, job, writes>>

Acquire(r) ==
    /\ pc[r] = "waiting"
    /\ gpuLock = None
    /\ gpuLock' = r
    /\ \/ \E u \in DeployedOthers(Target(r)) :
              previous' = [previous EXCEPT ![r] = u]
       \/ DeployedOthers(Target(r)) = {} /\ UNCHANGED previous
    /\ Goto(r, "loading")
    /\ UNCHANGED <<status, deployments, loaded, job, writes>>

(* vLLM refuses to load an adapter that it already holds.                  *)
Load(r) ==
    /\ pc[r] = "loading"
    /\ Target(r) \notin loaded[Host(r)]
    /\ loaded' = [loaded EXCEPT ![Host(r)] = @ \cup {Target(r)}]
    /\ Goto(r, "smoke")
    /\ UNCHANGED <<status, deployments, gpuLock, job, previous, writes>>

\* request_sync_with_retry: the first attempt loads the adapter, its answer is
\* lost, and the next attempt is refused as loaded.
AnswerLost(r) ==
    /\ "lost_response" \in Faults
    /\ loaded' = [loaded EXCEPT ![Host(r)] = @ \cup {Target(r)}]

(* The checksum or the base model does not match, the server refuses the   *)
(* adapter or is out of reach, or it carried out what it seems to refuse.  *)
LoadFails(r) ==
    /\ pc[r] = "loading"
    /\ UNCHANGED loaded \/ AnswerLost(r)
    /\ ReleaseGpu(r)
    /\ End(r)
    /\ UNCHANGED <<status, deployments>>

\* Mutant of SmokeFails: the adapter is unloaded, and the deploy goes on.
SmokeFailsUnnoticed(r) ==
    /\ pc[r] = "smoke"
    /\ Unload(Host(r), Target(r), loaded)
    /\ Goto(r, IF previous[r] = None THEN "marking" ELSE "retiring")
    /\ UNCHANGED <<status, deployments, gpuLock, job, previous, writes>>

(* A generation fails or is too short: unload what was just loaded.        *)
SmokeFails(r) ==
    /\ pc[r] = "smoke"
    /\ Unload(Host(r), Target(r), loaded)
    /\ ReleaseGpu(r)
    /\ End(r)
    /\ UNCHANGED <<status, deployments>>

(* The smoke test passes; the adapter of the previous version is unloaded. *)
SmokePasses(r) ==
    /\ pc[r] = "smoke"
    /\ Target(r) \in loaded[Host(r)]
    /\ IF previous[r] = None
         THEN Goto(r, "marking") /\ UNCHANGED loaded
         ELSE Goto(r, "retiring") /\ Unload(Host(r), previous[r], loaded)
    /\ UNCHANGED <<status, deployments, gpuLock, job, previous, writes>>

\* Mutant of RetirePrevious: the retirement is committed by itself.
RetirePreviousCommitted(r) ==
    /\ pc[r] = "retiring"
    /\ RowFree(r, previous[r])
    /\ status' = [status EXCEPT ![previous[r]] = "RETIRED"]
    /\ Goto(r, "marking")
    /\ UNCHANGED <<deployments, loaded, gpuLock, job, previous, writes>>

RetirePrevious(r) ==
    /\ pc[r] = "retiring"
    /\ RowFree(r, previous[r])
    /\ Flush(r, previous[r], "RETIRED")
    /\ Goto(r, "marking")
    /\ UNCHANGED <<status, deployments, loaded, gpuLock, job, previous>>

(* The partial unique index uq_model_versions_one_deployed.  A second      *)
(* DEPLOYED row waits while another transaction has one in flight, and is  *)
(* refused when another version is DEPLOYED.                               *)
InFlight(r) == pc[r] \in {"restoring", "committing"}

IndexFree(r) == \A q \in Requests \ {r} : ~InFlight(q)

\* Mutant of IndexConflict: no unique index in the database.
IndexConflictUnchecked(r) == FALSE

IndexConflict(r) ==
    \E u \in Versions \ {Target(r)} : Seen(r, u) = "DEPLOYED"

(* The target is flushed as DEPLOYED with its deployments row, and the     *)
(* locked body is left.  A staging deploy still has to hand the pointer    *)
(* back.                                                                   *)
MarkDeployed(r) ==
    /\ pc[r] = "marking"
    /\ RowFree(r, Target(r)) /\ IndexFree(r) /\ ~IndexConflict(r)
    /\ Flush(r, Target(r), "DEPLOYED")
    /\ ReleaseGpu(r)
    /\ Goto(r, IF job[r].op = "stage" THEN "restoring" ELSE "committing")
    /\ UNCHANGED <<status, deployments, loaded, job, previous>>

\* Mutant of Conflict: the loser of the race leaves its adapter resident.
ConflictKeepsAdapter(r) ==
    /\ pc[r] = "marking"
    /\ RowFree(r, Target(r)) /\ IndexFree(r) /\ IndexConflict(r)
    /\ ReleaseGpu(r)
    /\ End(r)
    /\ UNCHANGED <<status, deployments, loaded>>

(* Another deploy committed first: unload the own adapter, answer 409.     *)
Conflict(r) ==
    /\ pc[r] = "marking"
    /\ RowFree(r, Target(r)) /\ IndexFree(r) /\ IndexConflict(r)
    /\ Unload(Host(r), Target(r), loaded)
    /\ ReleaseGpu(r)
    /\ End(r)
    /\ UNCHANGED <<status, deployments>>

(* stage_deploy demotes the candidate and restores the version that the    *)
(* deploy retired.  Both rows are already written by this transaction.     *)
RestorePrevious(r) ==
    /\ pc[r] = "restoring"
    /\ writes' = [writes EXCEPT ![r] =
                    [v \in Versions |->
                        IF v = Target(r) THEN "STAGING"
                        ELSE IF v = previous[r] THEN "DEPLOYED"
                        ELSE @[v]]]
    /\ Goto(r, "committing")
    /\ UNCHANGED <<status, deployments, loaded, gpuLock, job, previous>>

\* Mutant of Commit: only a move of the pointer is recorded.
CommitUnrecorded(r) ==
    /\ pc[r] = "committing"
    /\ status' = Merged(r)
    /\ deployments' = IF job[r].op = "stage" THEN deployments
                      ELSE deployments \cup {[version |-> Target(r), env |-> job[r].env]}
    /\ End(r)
    /\ UNCHANGED <<loaded, gpuLock>>

(* The router commits: the status columns and the history row at once.     *)
Commit(r) ==
    /\ pc[r] = "committing"
    /\ status' = Merged(r)
    /\ deployments' = deployments \cup {[version |-> Target(r), env |-> job[r].env]}
    /\ End(r)
    /\ UNCHANGED <<loaded, gpuLock>>

(* The handler dies between two steps: the server is restarted or its      *)
(* database connection breaks.                                             *)
Abort(r) ==
    /\ "abort" \in Faults
    /\ pc[r] # "idle"
    /\ ReleaseGpu(r)
    /\ End(r)
    /\ UNCHANGED <<status, deployments, loaded>>

-----------------------------------------------------------------------------
Arrive(r) ==
    \/ RollbackDeployment(r)
    \/ \E v \in Versions :
         \/ CreateDecision(r, v)
         \/ ValidateStaging(r, v)
         \/ DeployModelVersion(r, v)
         \/ DeployToStaging(r, v)
         \/ PromoteToProduction(r, v)
         \/ RollbackModel(r, v)

\* What a running request does by itself.
Progress(r) ==
    \/ LockTimeout(r)
    \/ Acquire(r)
    \/ Load(r)
    \/ LoadFails(r)
    \/ SmokeFails(r)
    \/ SmokePasses(r)
    \/ RetirePrevious(r)
    \/ MarkDeployed(r)
    \/ Conflict(r)
    \/ RestorePrevious(r)
    \/ Commit(r)

Next ==
    \/ \E v \in Versions : Evaluate(v)
    \/ \E r \in Requests : Arrive(r) \/ Write(r) \/ Progress(r) \/ Abort(r)

Spec == Init /\ [][Next]_vars

(* A thread that can take a step takes it.  Write waits for a row lock     *)
(* that other requests may take again and again; PostgreSQL queues the     *)
(* waiters of a row, so a request that waits is served.                    *)
Fairness == \A r \in Requests : WF_vars(Progress(r)) /\ SF_vars(Write(r))

FairSpec == Spec /\ Fairness

-----------------------------------------------------------------------------
(* The registry never shows two production versions, although the deploys  *)
(* of two requests overlap between the release of the GPU lock and the     *)
(* commit (deployment_service.deploy, "exactly one commits").              *)
AtMostOneDeployed ==
    \A u, v \in Versions :
        status[u] = "DEPLOYED" /\ status[v] = "DEPLOYED" => u = v

(* The request q keeps r from its next step: it holds the GPU lock, a row  *)
(* that r is about to write, or the slot of the unique index.              *)
Blocks(q, r) ==
    \/ pc[r] = "waiting" /\ gpuLock = q
    \/ pc[r] = "retiring" /\ writes[q][previous[r]] # None
    \/ pc[r] \in {"writing", "marking"} /\ writes[q][Target(r)] # None
    \/ pc[r] = "marking" /\ InFlight(q)

\* How far a request has come with the locks: it has none, the GPU lock, or
\* the GPU lock no more.
LockRank(r) ==
    CASE pc[r] \in {"idle", "writing", "waiting"} -> 0
      [] InFlight(r) -> 2
      [] OTHER -> 1

(* No deadlock between the GPU lock and the database: a request waits only *)
(* for one that is further on, so that the waits form no cycle, although a *)
(* deploy waits for rows while it holds the GPU lock and others hold rows  *)
(* that they flushed under it (gpu_lock, _deploy_locked).                  *)
WaitsGoUp ==
    \A q, r \in Requests : q # r /\ Blocks(q, r) => LockRank(r) < LockRank(q)

(* The history explains the registry: a version that is or was the         *)
(* production version has a deployments row, and one on the ladder has a   *)
(* staging row, whatever the order in which overlapping requests commit.   *)
HistoryBacksPointer ==
    \A v \in Versions :
        /\ status[v] \in {"DEPLOYED", "RETIRED"} =>
               \E row \in deployments : row.version = v
        /\ status[v] \in {"STAGING", "VALIDATED"} =>
               [version |-> v, env |-> "staging"] \in deployments

MovesPointer(r) ==
    /\ pc[r] = "committing"
    /\ job[r].op = "move"
    /\ status[Target(r)] # "DEPLOYED"
    /\ status'[Target(r)] = "DEPLOYED"

(* The pointer moves only onto an adapter that is resident in the server   *)
(* of its environment at the commit, although the GPU lock is already free *)
(* and other deploys, their clean-ups and aborts run in between.           *)
PointerMovesOntoLoadedAdapter ==
    [][\A r \in Requests : MovesPointer(r) => Target(r) \in loaded[Host(r)]]_vars

(* The registry implements PointerHistory: the retirement of the old       *)
(* version and the promotion of the new one are never seen apart, every    *)
(* version that gets the pointer is in the deployments table, a staging    *)
(* deploy of another version never moves it, and the pointer is lost only  *)
(* to a decision that was started before its version was deployed.         *)
DeployedVersion ==
    IF \E v \in Versions : status[v] = "DEPLOYED"
      THEN CHOOSE v \in Versions : status[v] = "DEPLOYED"
      ELSE None

RetiredVersions == {v \in Versions : status[v] = "RETIRED"}

Undecided == {v \in Versions : \E r \in Requests : pc[r] = "writing" /\ Target(r) = v}

Pointer == INSTANCE PointerHistory
             WITH pointer <- DeployedVersion, retired <- RetiredVersions,
                  history <- deployments, deciding <- Undecided

ImplementsPointerHistory == Pointer!Spec

(* Once nothing runs, the adapters resident in the server are those of the *)
(* production version only: the losers of a race, the failed deploys and   *)
(* the superseded versions have left it (deployment_service.deploy, "so    *)
(* the winner's adapter is the only one left resident in vLLM").           *)
Quiescent == \A r \in Requests : pc[r] = "idle"

OnlyPointerResident ==
    Quiescent =>
        \A h \in Hosts : loaded[h] = IF h = HostOf["default"]
                                       THEN {v \in Versions : status[v] = "DEPLOYED"}
                                       ELSE {}

(* The prod alias never points at an adapter that cannot generate: the     *)
(* inference path asks the default server for the adapter of the DEPLOYED  *)
(* version (deployment_service._deploy_locked, "the `prod` alias must      *)
(* never point at an adapter that cannot actually generate").              *)
ProdAliasServes ==
    Quiescent =>
        \A v \in Versions : status[v] = "DEPLOYED" => v \in loaded[HostOf["default"]]

(* A staging deploy never disturbs the production pointer                  *)
(* (promotion_service.stage_deploy, "the registry keeps exactly one        *)
(* DEPLOYED production version - and that one stays the pre-staging        *)
(* version").                                                              *)
CommitsStage(r) ==
    pc[r] = "committing" /\ job[r].op = "stage" /\ pc'[r] = "idle"

StagingKeepsPointer ==
    [][\A r \in Requests : CommitsStage(r) => DeployedVersion' = DeployedVersion]_vars

(* Every request is answered: neither the GPU lock nor the row locks, held *)
(* across each other, block a request for ever.                            *)
Responds == \A r \in Requests : pc[r] # "idle" ~> pc[r] = "idle"
=============================================================================
